SPECIFICATION FairSpec
CONSTANTS
  Main = Main
  p1 = p1
  p2 = p2
  p3 = p3
  Nil = Nil
  Process = {Main, p1, p2, p3}
  Sources = {1}
  Urgency <- OneAbove
  FreeHandOff = FALSE
INVARIANTS
  MostUrgentRuns
  ReadyRing
  RunsAsMe
  NothingRunsFreed
PROPERTIES
  NoOvertaking
  ReadyRuns
  SwitchResult
  ImplementsISO
CHECK_DEADLOCK FALSE
