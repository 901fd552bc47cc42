SPECIFICATION Spec
CONSTANTS
  Dates <- MCDates
  Todays <- MCTodays
  Units <- MCUnits
  Window = 4
  Slack = 2
  Week = 2
  Alpha <- MCAlpha
INVARIANTS
  TypeOK
  SlackCoversLateReports
  LevelWithinObserved
  VarianceBounded
  SteadyDemandIsFound
