SPECIFICATION EnvSpec
CONSTANTS
  Kinds <- Control
  Modes <- Shells
  MaxEnv = 6
  MaxIo = 0
  FDBASE = 2
  MaxFd = 7
  Failures = {}
INVARIANTS
  NoneLeaked
PROPERTIES
  DescriptorsRestored
  UnwindsRight
