SPECIFICATION FairSpec
CONSTANTS
  c1 = c1
  c2 = c2
  q1 = q1
  q2 = q2
  None = None
  Clients = {c1, c2}
  Queues = {q1, q2}
  Priorities = {0, 1}
  MaxJobs = 2
INVARIANTS NoJobTwice JobsConserved NoSleepOnWork IInv
PROPERTIES HolderKeepsJob WaiterServed RequestsAnswered
CHECK_DEADLOCK FALSE
