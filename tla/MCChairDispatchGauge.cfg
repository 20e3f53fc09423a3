SPECIFICATION Spec
CONSTANTS
  Agents = {a1}
  Requests = {r1, r2}
  NoAgent = NoAgent
  MaxAttempts = 2
  Threshold = 2
INVARIANTS
  InflightIsCounted
CHECK_DEADLOCK FALSE
