\* Throttled traffic that then falls silent.
SPECIFICATION FairSpec
CONSTANTS
  Word = 256
  IntMod = 16
  FloatBits = 5
  DoubleBits = 8
  NsPerS = 4
  KiB = 1
  Den = 1
  Mac <- MCMac
  WireFrames <- OneFrame
  Docs <- ThrottleDocs
  BufSize = 3
  NoReturn = {"hangs"}
  Env = {}
  MaxFrames = 2
  RxCap = 1
  MaxSec = 4
PROPERTIES OutputDrains
CHECK_DEADLOCK FALSE
