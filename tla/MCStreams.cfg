SPECIFICATION MCSpec
CONSTANTS
  h1 = h1
  h2 = h2
  Handlers = {h1, h2}
  LineLens = {1, 2}
  MaxLines = 2
  MaxItems <- MCMaxItems
  Deafening = {"client"}
CHECK_DEADLOCK FALSE
INVARIANTS StreamAligned InOrder
PROPERTIES LineArrives StopsUnlessPeerStays GoroutinesEnd EchoComplete
