\* Throttled traffic: pauses below, at and above one second; reloads.
\* The traffic ends, so the hub may stop.
SPECIFICATION Spec
CONSTANTS
  Word = 256
  IntMod = 16
  FloatBits = 5
  DoubleBits = 8
  NsPerS = 4
  KiB = 1
  Den = 1
  Mac <- MCMac
  WireFrames <- PacedFrames
  Docs <- PacedDocs
  BufSize = 3
  NoReturn = {"hangs"}
  Env = {"signal"}
  MaxFrames = 2
  RxCap = 1
  MaxSec = 3
INVARIANTS PauseHeldInSeconds PauseBounded
CHECK_DEADLOCK FALSE
