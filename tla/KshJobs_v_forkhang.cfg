SPECIFICATION FairSpec
CONSTANTS
  MaxJobs = 2
  MaxProcs = 3
  ChildMax = 1
  Talking = TRUE
  Monitor = FALSE
  Notify = FALSE
  Login = FALSE
  Env <- ForkFailEnv
PROPERTIES
  WaitReturns
CHECK_DEADLOCK FALSE
