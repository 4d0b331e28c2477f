\* Two workers, an ordinary job and another of either kind.
CONSTANTS
  w1 = w1
  w2 = w2
  NumJobs = 2
  Workers = {w1, w2}
  Priorities = {0}
  TopPriority = 1
  MaxAttempts = 3
  LeaseTime = 2
  BaseBackoff = 1
  MaxBackoff = 1
  MaxRequeues = 1
SPECIFICATION FairSpec
INVARIANTS
  TypeOK
  DeleteJobFollowsProof
PROPERTIES
  LeaseIsKept
  SettledStays
  EveryJobSettles
CHECK_DEADLOCK FALSE
