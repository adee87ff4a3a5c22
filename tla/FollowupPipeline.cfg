CONSTANTS
  daemon = daemon
  once = once
  Workers <- BothWorkers
  NoOwner = NoOwner
  Main = Main
  MaxEvent = 2
  MaxAttempts = 2
  AutoRetries = 1
  MaxRangeAttempts = 2
  MaxMishaps = 2
SPECIFICATION Spec
CHECK_DEADLOCK FALSE
INVARIANTS
  TypeOK
  HandedOnIsTaken
  WaitsOnTheLiving
