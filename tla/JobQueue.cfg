CONSTANTS
  daemon = daemon
  once = once
  alpha = alpha
  Workers <- TwoWorkers
  NoWorker = NoWorker
  Kinds <- Everything
  Profiles <- OneProfile
  NoProfile = NoProfile
  MaxJob = 2
  MaxAttempts = 2
  AutoRetries = 1
  Exhausts = TRUE
SPECIFICATION FairSpec
CHECK_DEADLOCK FALSE
INVARIANTS
  TypeOK
  IdentityIsExclusive
  CompileRequestIsOwed
  CleanupOncePerWindow
PROPERTIES
  CoalescedSourceRests
  CompileRequestsCoalesce
  LeaseEndsByHolder
  EveryJobSettles
