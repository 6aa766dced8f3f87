\* A SIGHUP at any point.
SPECIFICATION Spec
CONSTANTS
  Word = 256
  IntMod = 16
  FloatBits = 5
  DoubleBits = 8
  NsPerS = 4
  KiB = 1
  Den = 1
  Mac <- MCMac
  WireFrames <- OneFrame
  Docs <- OpenDocs
  BufSize = 3
  NoReturn = {"hangs"}
  Env = {"signal"}
  MaxFrames = 1
  RxCap = 2
  MaxSec = 1
INVARIANTS ReloadPending
CHECK_DEADLOCK FALSE
