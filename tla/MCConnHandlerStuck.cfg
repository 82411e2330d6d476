SPECIFICATION FairSpec
CONSTANTS
  c1 = c1
  c2 = c2
  Conns = {c1}
  MaxRequests <- MCMaxRequests
PROPERTY DisconnectHappens
CHECK_DEADLOCK FALSE
