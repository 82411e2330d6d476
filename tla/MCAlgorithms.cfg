SPECIFICATION MCSpec
CONSTANTS
  j1 = j1
  j2 = j2
  j3 = j3
  j4 = j4
  j5 = j5
  j6 = j6
  None = None
  Jobs = {j1, j2, j3, j4, j5, j6}
  Priorities = {1, 2, 3}
  Newline = "n"
  BufSize = 2
  Octets = {"a", "b", "n"}
  ReadSizes = {1, 2, 3, 5}
  Streams <- MCStreams
  LineBytes = {"a", "/"}
  Specials <- MCSpecials
  Rests <- MCRests
  SessionNumbers = {0}
  Starts = {0, 7}
  MaxPos = 99
  MaxDigits = 2
  MTU = 18
  Numerals = {"1", "2"}
  Characters = {"7", "a", "!", " "}
  Alnum = {"7", "a"}
  Seven = "7"
  Space = " "
  ChatLines <- MCChatLines
  MinCoin = 2
  MaxCoin = 3
  ByteBits = 3
  dataValidation <- MCdataValidation
  ByteBase = 3
SYMMETRY JobSymmetry
CHECK_DEADLOCK FALSE
INVARIANTS FramesExact LrcpSurvivors LrcpFits CoinsReplaced CipherInverts SpeedRoundTrip
PROPERTY IsPriorityQueue
