SPECIFICATION Spec
CONSTANTS
  Files <- MCFiles
  Text <- MCText
  NoFinalEOL <- MCNoFinalEOL
  TooLong = {"d"}
  thread_cnt = 2
  FILE_CHUNK_SIZE = 8
  LINE_CNT_MAX = 1
  MY_LINE_MAX = 1
  MEMORY_SORT_SIZE = 4
  OpenMax = 10
  MaxTmpFiles = 8
  MaxStale = 1
  MaxRuns = 2
INVARIANTS
  TypeOK
  NoLineLost
  TmpFilesSorted
  OutputSorted
PROPERTIES
  Terminates
  ImplementsSorter
CHECK_DEADLOCK FALSE
