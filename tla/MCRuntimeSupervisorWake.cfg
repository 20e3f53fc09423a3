SPECIFICATION Spec
CONSTANTS
  Agents = {a1}
  MaxChildren = 2
INVARIANTS
  WakingRestartsParked
CHECK_DEADLOCK FALSE
