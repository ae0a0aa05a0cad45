SPECIFICATION ChildrenSpec
CONSTANTS
  Options <- TwoAtOnce
  MaxInput = 4
  Durations <- KillAfter
  MaxSignals = 2
CHECK_DEADLOCK FALSE
INVARIANT ExecFailureReported
