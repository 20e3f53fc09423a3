SPECIFICATION FairSpec
CONSTANTS
  Agents = {a1}
  Requests = {r1, r2}
  NoAgent = NoAgent
  MaxAttempts = 2
  Threshold = 2
INVARIANTS
  PendingIsUnanswered
  SuccessIsAnswered
  CircuitCounts
  InflightDrains
PROPERTIES
  EveryTurnEnds
CHECK_DEADLOCK FALSE
