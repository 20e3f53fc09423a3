SPECIFICATION RegistryFairSpec
CONSTANTS
  Seats = {a1, a2}
  Sessions = {s1, s2, s3}
  NoSession = NoSession
  HealthyMs = 1
  OfflineMs = 2
  MaxAge = 3
INVARIANTS
  TableMirrorsMap
  RetiredStaysRetired
  OnlineIsProven
PROPERTIES
  SilentChairIsFreed
