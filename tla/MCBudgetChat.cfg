SPECIFICATION FairSpec
CONSTANTS
  s1 = s1
  s2 = s2
  s3 = s3
  n1 = n1
  n2 = n2
  None = None
  Sessions = {s1, s2, s3}
  Names = {n1, n2}
  EventCap = 2
  MaxLines <- MCMaxLines
INVARIANTS RoomIsMembers JoinMessagesLeave ViewsConverge
PROPERTY LeaversLeave
CHECK_DEADLOCK FALSE
