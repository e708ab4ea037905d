SPECIFICATION Spec
CONSTANTS
  Files <- OneFile
  Text <- PagedText
  NoFinalEOL <- None
  CharIsSigned = FALSE
  thread_cnt = 1
  file_chunk_size = 40
  LINE_CNT_MAX = 9
  OpenMax = 12
  MaxTmpFiles = 8
INVARIANT
  OneBigFile
CHECK_DEADLOCK FALSE
