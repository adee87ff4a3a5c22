CONSTANTS
  p1 = p1
  p2 = p2
  e1 = e1
  s1 = s1
  s2 = s2
  NoSession = NoSession
  Sessions <- TwoSessions
  SessionOf <- OfTheFirst
  NoEvent = NoEvent
  Procs <- Two
  Events <- One
  Faults <- Every
  MaxMishaps = 1
SPECIFICATION FairSpec
CHECK_DEADLOCK FALSE
INVARIANTS
  TypeOK
  SpilledIsKept
PROPERTIES
  StopEventLands
  SpilledIsDelivered
