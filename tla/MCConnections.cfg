SPECIFICATION MCSpec
CONSTANTS
  c1 = c1
  c2 = c2
  Conns = {c1, c2}
  MaxRequests <- MCMaxRequests
  Wants = {w1, w2, w3}
  HeartBeatIDs = 2
INVARIANTS NoCallAfterDisconnect OneHeartbeat
PROPERTIES EndsUnlessReaderStuck LeavingIsNoticed OldBeatsEnd
CHECK_DEADLOCK FALSE
