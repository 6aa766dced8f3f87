\* A map of up to three entries.
CONSTANTS
  MinBuckets = 4
  StartBuckets = 4
  MaxDoublings = 2
  PointerSize = 2
  Base = 4
  Width = 3
  k1 = k1
  k2 = k2
  k3 = k3
  Key <- MCKey
  Value = {0, 1}
  Mark = {"gone"}
  EmptyKey = "empty"
  NoKey = "none"
  Default = 0
  Hash <- MCHash
  Group = 4
  Room = {0, 5}
  Percents <- MCPercents
SPECIFICATION Spec
INVARIANTS TypeOK LookupRight EqualInAnyLayout WalkComplete CallsRight
PROPERTIES ActsAsMap
CHECK_DEADLOCK FALSE
