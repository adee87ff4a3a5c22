CONSTANTS
  p1 = p1
  p2 = p2
  p3 = p3
  Pids <- Three
  NoPid = NoPid
  Started <- OnlyOld
SPECIFICATION FairSpec
CHECK_DEADLOCK FALSE
PROPERTY
  WorkIsServed
