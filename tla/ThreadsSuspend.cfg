SPECIFICATION FairSpec
CONSTANTS
  Main = Main
  p1 = p1
  p2 = p2
  Nobody = Nobody
  Thread = {Main, p1, p2}
  MaxDepth = 2
  MaxCount = 2
INVARIANTS
  MutualExclusion
  ActivationsKept
  WakeupsSuffice
PROPERTIES
  OnlyActivatedReturn
  IterationsSeeOneRing
  ActivatedRuns
CHECK_DEADLOCK FALSE
