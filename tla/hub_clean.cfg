\* No limits, finite traffic, no faults: signals, and drivers that fill up.
\* The traffic ends, so the hub may stop.
SPECIFICATION FairSpec
CONSTANTS
  Word = 256
  IntMod = 16
  FloatBits = 5
  DoubleBits = 8
  NsPerS = 4
  KiB = 1
  Den = 1
  Mac <- MCMac
  WireFrames <- OwnFrames
  Docs <- OpenDocs
  BufSize = 3
  NoReturn = {"hangs"}
  Env = {"signal", "tx_busy"}
  MaxFrames = 3
  RxCap = 2
  MaxSec = 1
INVARIANTS EventsStayTrue
PROPERTIES PassesThrough InputDrains OutputDrains
CHECK_DEADLOCK FALSE
