\* Networks that never fall silent, no limits, drivers always ready, signals;
\* an early one ends the daemon.
SPECIFICATION BusySpec
CONSTANTS
  Word = 256
  IntMod = 16
  FloatBits = 5
  DoubleBits = 8
  NsPerS = 4
  KiB = 1
  Den = 1
  Mac <- MCMac
  WireFrames <- OneFrame
  Docs <- ReloadDocs
  BufSize = 3
  NoReturn = {"hangs"}
  Env = {"endless", "signal"}
  MaxFrames = 1
  RxCap = 2
  MaxSec = 1
INVARIANTS BacklogBounded
PROPERTIES WritesHappen FlagHonoured
CHECK_DEADLOCK FALSE
