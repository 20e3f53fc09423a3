SPECIFICATION MCSpec
CONSTANTS
  Agents = {a1, a2}
  Topics = {t1}
  Convenes = {c1, c2}
  NoAgent = NoAgent
  NoTopic = NoTopic
  NoConvene = NoConvene
  MaxTurns = 3
  Gains = {105}
PROPERTIES
  ClosedTopicIsQuiet
