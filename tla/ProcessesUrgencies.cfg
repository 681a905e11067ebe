SPECIFICATION Spec
CONSTANTS
  Main = Main
  p1 = p1
  p2 = p2
  p3 = p3
  Nil = Nil
  Process = {Main, p1, p2, p3}
  Sources = {}
  Urgency <- ThreeUrgencies
  FreeHandOff = FALSE
INVARIANTS
  NoFailure
CHECK_DEADLOCK FALSE
