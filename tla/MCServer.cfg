SPECIFICATION FairSpec
CONSTANTS
  Connections = {c1, c2}
  Envs <- MCEnvs
  Half = 16
  ReadHeader = 1
INVARIANTS
  CleanExit
  DrainIsGiven
  QueriesAreBounded
  AnswersAreDelivered
PROPERTIES
  AcceptedIffUsable
  SignalEnds
