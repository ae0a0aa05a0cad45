SPECIFICATION ChildrenSpec
CONSTANTS
  Options <- AllOptions
  MaxInput = 6
  Durations <- CommandLine
  MaxSignals = 2
CHECK_DEADLOCK FALSE
INVARIANTS
  ArgumentsKept
  CommandsFilled
  OwnSignalIgnored
  StatusOfCommand
PROPERTIES
  PoolImplemented
  DeadlineEnforced
  EndNoticed
