\* A form is saved, and the daemon told to reload.
SPECIFICATION Spec
CONSTANTS
  Word = 256
  IntMod = 16
  FloatBits = 5
  DoubleBits = 8
  NsPerS = 200
  KiB = 4
  Den = 2
  Workers = {w1}
  Forms <- FewForms
  Initial <- OneInitial
  ByHand = {}
  WebStops = FALSE
INVARIANTS FormTakesEffect
