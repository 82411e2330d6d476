SPECIFICATION MCSpec
CONSTANTS
  h1 = h1
  h2 = h2
  Handlers = {h1, h2}
  StreamLen = 4
  Newlines = {2, 3}
  ChanCap = 1
  n1 = n1
  o1 = o1
  o2 = o2
  NoSession = NoSession
  Numbers = {n1}
  Objects = {o1, o2}
  Datagrams = {h1, h2}
INVARIANTS EveryByteOnce MessagesStayWhole NoOrphanSession
PROPERTIES AcceptedIsDelivered ServerEnds SessionsEnd
CHECK_DEADLOCK FALSE
