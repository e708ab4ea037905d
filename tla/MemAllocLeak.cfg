SPECIFICATION Spec
CONSTANTS
  RESERVED_MEMORY_SIZE <- MCPoolSize
  SizeLimit <- MCSizeLimit
  Requests <- MCRequests
  NULL = NULL
INVARIANT EverythingFreedIsWhole
