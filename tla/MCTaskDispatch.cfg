SPECIFICATION FairSpec
CONSTANTS
  Tasks = {t1}
  Cycles = {c1, c2, c3}
  NoTask = NoTask
  NoCycle = NoCycle
  RetryLimits = {1, 2}
  BackoffBase = 1
  BackoffFactor = 2
  StallTimeout = 1
  CleanupAfter = 1
  MaxAge = 1
  Wedged = {c3}
INVARIANTS
  ClaimIsBacked
  AttemptBudget
  NoWorkspaceLeak
PROPERTIES
  ImplementsClaimLedger
  EveryTaskSettles
