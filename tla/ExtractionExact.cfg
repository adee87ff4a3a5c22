CONSTANTS
  daemon = daemon
  once = once
  exact = exact
  Workers <- OnceAndExact
  Exact <- OnlyExact
  NoOwner = NoOwner
  Main = Main
  MaxEvent = 2
  MaxAttempts = 3
  AutoRetries = 2
  MaxRangeAttempts = 3
SPECIFICATION FairSpec
CHECK_DEADLOCK FALSE
PROPERTIES
  ExactStaysContained
  QuarantineIsSticky
  ImplementsLedger
  EveryEventSettles
