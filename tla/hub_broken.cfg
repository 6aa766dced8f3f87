\* Every document and every fault: the file changes, interfaces fail,
\* writes fail, the daemon is killed and started again.
SPECIFICATION Spec
CONSTANTS
  Word = 256
  IntMod = 16
  FloatBits = 5
  DoubleBits = 8
  NsPerS = 4
  KiB = 1
  Den = 1
  Mac <- MCMac
  WireFrames <- AllFrames
  Docs <- BrokenDocs
  BufSize = 3
  NoReturn = {"returns", "hangs"}
  Env = {"edit", "write_fails", "link_down", "restart", "signal"}
  MaxFrames = 2
  RxCap = 2
  MaxSec = 1
INVARIANTS TypeOK
PROPERTIES LossyPassThrough
CHECK_DEADLOCK FALSE
