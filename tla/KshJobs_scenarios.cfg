SPECIFICATION SpecAny
CONSTANTS
  MaxJobs = 3
  MaxProcs = 3
  ChildMax = 1
  Talking = FALSE
  Monitor = FALSE
  Notify = FALSE
  Login = FALSE
  Env <- ScriptEnv
INVARIANTS
  TtyOwner
  NoDangling
  WaitedJobListed
  WaitsSound
  JobsSound
