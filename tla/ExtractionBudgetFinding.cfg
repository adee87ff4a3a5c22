CONSTANTS
  daemon = daemon
  once = once
  exact = exact
  Workers <- TwoOrdinary
  Exact <- NoneExact
  NoOwner = NoOwner
  Main = Main
  MaxEvent = 2
  MaxAttempts = 2
  AutoRetries = 1
  MaxRangeAttempts = 2
SPECIFICATION Spec
CHECK_DEADLOCK FALSE
PROPERTY
  NewRangeHasFreshBudget
