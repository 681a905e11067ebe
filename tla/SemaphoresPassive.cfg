SPECIFICATION SemSpec
CONSTANTS
  Main = Main
  p1 = p1
  p2 = p2
  p3 = p3
  s1 = s1
  Nil = Nil
  Process = {Main, p1, p2}
  Sources = {}
  Urgency <- OneUrgency
  FreeHandOff = FALSE
  Semaphore = {s1}
  MaxCount = 1
  PassiveClaims = TRUE
INVARIANT PermitsConserved
CHECK_DEADLOCK FALSE
