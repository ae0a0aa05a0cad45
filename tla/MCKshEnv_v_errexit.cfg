SPECIFICATION EnvSpec
CONSTANTS
  Kinds <- Tested
  Modes <- Errexit
  MaxEnv = 6
  MaxIo = 0
  FDBASE = 2
  MaxFd = 7
  Failures = {}
PROPERTIES
  ErrexitTested
