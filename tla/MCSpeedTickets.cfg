SPECIFICATION FairSpec
CONSTANTS
  s1 = s1
  s2 = s2
  s3 = s3
  p1 = p1
  p2 = p2
  None = None
  Sessions = {s1, s2, s3}
  Peers <- MCPeers
  ChanCap = 1
  InfRounded = 0
  MaxReports = 2
INVARIANTS OneTicketPerDay NoTicketMissed TicketsAreTrue TicketsConserved
PROPERTY StopsUnlessBlocked
CHECK_DEADLOCK FALSE
