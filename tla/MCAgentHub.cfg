SPECIFICATION FairSpec
CONSTANTS
  Adapters = {p1, p2}
  Requests = {r1, r2}
  None = None
  MaxAttempts = 2
  BatchLimit = 2
  MaxLapses = 1
INVARIANTS
  RunsOnce
  EndedHasReply
  DeliveryBudget
  LeaseIsExclusive
PROPERTIES
  SentIsKept
  RowSettles
CHECK_DEADLOCK FALSE
