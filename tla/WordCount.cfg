SPECIFICATION Spec
CONSTANTS
  Files <- MCFiles
  Text <- MCText
  NoFinalEOL <- MCNoFinalEOL
  CharIsSigned = FALSE
  thread_cnt = 1
  file_chunk_size = 5
  LINE_CNT_MAX = 2
  OpenMax = 18
  MaxTmpFiles = 8
INVARIANTS
  TypeOK
  EveryWordCounted
  TmpFilesAscend
  OutputAscends
PROPERTY
  ImplementsTally
CHECK_DEADLOCK FALSE
