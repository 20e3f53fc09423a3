SPECIFICATION FairSpec
CONSTANTS
  Agents = {a1, a2}
  MaxChildren = 2
INVARIANTS
  NoStrays
  ShutdownTellsAll
  ManualStopSticks
PROPERTIES
  ToldToStopEnds
CHECK_DEADLOCK FALSE
