CONSTANTS
  p1 = p1
  p2 = p2
  p3 = p3
  Pids <- Three
  NoPid = NoPid
  Started <- OldAndExact
SPECIFICATION Spec
SYMMETRY Pids3
CHECK_DEADLOCK FALSE
INVARIANTS
  TypeOK
  BarredWorkersStayOut
