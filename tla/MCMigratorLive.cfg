SPECIFICATION FairSpec
CONSTANTS
  r1 = r1
  r2 = r2
  Runs <- MCRuns2
  Versions <- MCVersionsOne
  Needs <- MCNeedsOne
  Images <- MCImagesOne
  Reversible <- MCReversibleOne
  Commands = {"up", "status"}
  NoRun = NoRun
PROPERTIES
  EveryRunReturns
  LockIsFreed
