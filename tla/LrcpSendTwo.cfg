SPECIFICATION Spec
CONSTANTS
  h1 = h1
  h2 = h2
  Handlers = {h1, h2}
  LineLens = {2}
  MaxLines = 2
PROPERTY AckNeverBack
CHECK_DEADLOCK FALSE
