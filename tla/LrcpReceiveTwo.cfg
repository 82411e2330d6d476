SPECIFICATION Spec
CONSTANTS
  h1 = h1
  h2 = h2
  Handlers = {h1, h2}
  StreamLen = 4
  Newlines = {2, 4}
  ChanCap = 1
INVARIANT LinesInOrder
CHECK_DEADLOCK FALSE
