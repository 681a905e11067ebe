SPECIFICATION SemSpec
CONSTANTS
  Main = Main
  p1 = p1
  p2 = p2
  p3 = p3
  s1 = s1
  Nil = Nil
  Process = {Main, p1, p2, p3}
  Sources = {}
  Urgency <- OneAbove
  FreeHandOff = FALSE
  Semaphore = {s1}
  MaxCount = 2
  PassiveClaims = FALSE
INVARIANTS
  SleepersAreQueued
  PermitsConserved
PROPERTIES
  ImplementsSemaphore
CHECK_DEADLOCK FALSE
