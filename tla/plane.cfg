\* Two requests at once, and a web server that is killed; or documents
\* around the edges of every conversion.
SPECIFICATION Spec
CONSTANTS
  Word = 256
  IntMod = 16
  FloatBits = 5
  DoubleBits = 8
  NsPerS = 200
  KiB = 4
  Den = 2
  Workers = {w1, w2}
  Forms <- MCForms
  Initial <- MCInitial
  ByHand <- Grid
  WebStops = TRUE
INVARIANTS TypeOK PageUsable UpdateKept DaemonCanLoad
           ShareHonoured RateHonoured CountsHonoured
PROPERTIES DiesOnlyOnOverlap
SYMMETRY WorkerSymmetry
