SPECIFICATION MCSpec
CONSTANTS
  Agents = {a1, a2, a3}
  Topics = {t1}
  Convenes = {c1, c2}
  NoAgent = NoAgent
  NoTopic = NoTopic
  NoConvene = NoConvene
  MaxTurns = 6
  Gains = {80, 129}
INVARIANTS
  QueueIsSound
  NobodyIsForgotten
  CapMeansAbsentee
  EndedIsClosed
  ClosingStopsNewest
PROPERTIES
  EveryConveneEnds
