SPECIFICATION Spec
CONSTANTS
  MaxJobs = 2
  MaxProcs = 2
  ChildMax = 1
  Talking = TRUE
  Monitor = FALSE
  Notify = FALSE
  Login = TRUE
  Env <- FailureEnv
INVARIANTS
  TypeOK
  ZombiesCounted
  NoLostSigchld
CHECK_DEADLOCK FALSE
