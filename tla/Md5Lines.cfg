SPECIFICATION Spec
CONSTANTS
  Files <- MCFiles
  Text <- MCText
  NoFinalEOL <- MCNoFinalEOL
  thread_cnt = 2
  FILE_CHUNK_SIZE = 30
  LINE_CNT_MAX = 3
  MY_LINE_MAX = 4
  DATA_MD5_SIZE = 2
INVARIANTS
  RoomForDigests
  DigestsInOrder
CHECK_DEADLOCK FALSE
