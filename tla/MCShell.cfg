SPECIFICATION ShellSpec
CONSTANTS
  MaxSignals = 2
  MaxSet = 2
  MaxDepth = 1
  Name <- MCName
  Hashes <- MCHashes
  INIT_TBLS = 2
  MaxTrees = 4
  MaxCalls = 2
  MaxJobs = 3
  ForkFails = TRUE
CHECK_DEADLOCK FALSE
INVARIANTS
  NoTrapForgotten
  TrapsInForce
  ExecDispositions
  TableSound
  CoprocSound
PROPERTIES
  FunctionsKept
  ReadEnds
