SPECIFICATION DigestSpec
CONSTANTS
  Word = 64
  BlockSize = 4
  LenSize = 2
  MaxMessage = 20
  MaxMessages = 2
INVARIANTS
  NothingLost
  BitsCounted
  DigestsPaddedMessage
CHECK_DEADLOCK FALSE
