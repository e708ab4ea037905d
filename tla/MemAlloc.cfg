SPECIFICATION Spec
CONSTANTS
  RESERVED_MEMORY_SIZE <- MCPoolSize
  SizeLimit <- MCSizeLimit
  Requests <- MCRequests
  NULL = NULL
INVARIANTS
  TypeOK
  FreeListCoalesced
  LiveDisjoint
  LiveOffFreeList
  BlocksInPool
  PayloadUsable
  EveryByteAccounted
  OutOfMemoryIsReal
PROPERTY
  ImplementsHeap
