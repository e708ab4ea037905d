SPECIFICATION Spec
CONSTANTS
  Values <- MCValues
  NumTests = 3
  MaxFailures = 1
  InputSize = 64
  N_PTRS = 3
  CHUNK = 256
  N_ALIGN = 8
  M = 4
  SMALL = 128
  RESERVED_MEMORY_SIZE = 2048
  SizeLimit = 4096
  NULL = NULL
  UNINIT = UNINIT
INVARIANTS
  NoRaceWithAME
  PoolWholeAgain
  VerdictIsHonest
PROPERTY
  Terminates
CHECK_DEADLOCK FALSE
