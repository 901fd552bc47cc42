SPECIFICATION Spec
CONSTANTS
  r1 = r1
  r2 = r2
  Runs <- MCRuns2
  Versions <- MCVersions
  Needs <- MCNeeds
  Images <- MCImages
  Reversible <- MCReversible
  Commands = {"up", "down", "downAll", "status"}
  NoRun = NoRun
SYMMETRY MCSymmetry
INVARIANTS
  SchemaMatchesRecord
  PlanIsCurrent
  ReportIsHonest
  SuccessMeansDone
  OnlyHolderChanges
PROPERTIES
  ImplementsHistory
