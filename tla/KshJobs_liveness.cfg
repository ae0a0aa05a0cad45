SPECIFICATION FairSpec
CONSTANTS
  MaxJobs = 2
  MaxProcs = 3
  ChildMax = 1
  Talking = FALSE
  Monitor = FALSE
  Notify = FALSE
  Login = FALSE
  Env <- LivenessEnv
INVARIANTS
  FinishedAccounted
PROPERTIES
  PromisesKept
  WaitReturns
  ChildrenReaped
