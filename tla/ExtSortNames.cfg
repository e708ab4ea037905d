SPECIFICATION Spec
CONSTANTS
  Files <- MCFiles
  Text <- MCText
  NoFinalEOL <- MCNoFinalEOL
  TooLong = {"d"}
  thread_cnt = 1
  FILE_CHUNK_SIZE = 5
  LINE_CNT_MAX = 3
  MY_LINE_MAX = 1
  MEMORY_SORT_SIZE = 4
  OpenMax = 10
  MaxTmpFiles = 8
  MaxStale = 1
  MaxRuns = 1
INVARIANT AllInputsMerged
CHECK_DEADLOCK FALSE
