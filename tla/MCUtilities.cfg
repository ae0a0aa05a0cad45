SPECIFICATION UtilitiesSpec
CONSTANTS
  Script = {s1, s2}
  Calls <- FlockCalls
  MaxCalls = 4
  Bits = {3, 4}
  MaxInput = 13
  Source = {"f", "g"}
  Lengths = {0, 1, 3}
  MaxParts = 3
  NFiles = 2
  Scripts <- SedScripts
  Originals = {0, 1, 2}
  MaxFaults = 1
CHECK_DEADLOCK FALSE
INVARIANTS
  MutualExclusion
  MessageInOrder
  RoundTrip
  PlanMeansExpression
  ExecutedOnce
  FilesIndependent
  StreamEdited
  EditLosesNothing
  NothingLost
  SuccessMeansMoved
PROPERTIES
  TimedWaitEnds
