SPECIFICATION Spec
CONSTANTS
  c1 = c1
  c2 = c2
  q1 = q1
  q2 = q2
  None = None
  Clients = {c1, c2}
  Queues = {q1, q2}
  Priorities = {1}
  MaxJobs = 2
INVARIANT BlockedPopHasNoJob
CHECK_DEADLOCK FALSE
