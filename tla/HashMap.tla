------------------------------ MODULE HashMap ------------------------------
(***************************************************************************)
(* What a hash map promises its caller: a map from keys to values, with no *)
(* word of buckets.  It fails an assertion if, and only if, the caller has *)
(* broken a rule: the empty key is set once, before anything is looked up  *)
(* or put in, and a deleted key before anything is erased.                 *)
(***************************************************************************)
CONSTANTS Key, Value

VARIABLES
  map,      \* the entries
  empty,    \* an empty key has been set
  deleted,  \* a deleted key has been set
  state     \* "good", "torn" after a file was not read to its end, or "failed"

vars == <<map, empty, deleted, state>>

NoEntries == [k \in {} |-> k]
With(m, k, v) == [l \in DOMAIN m \cup {k} |-> IF l = k THEN v ELSE m[l]]
WithNew(m, k, v) == IF k \in DOMAIN m THEN m ELSE With(m, k, v)
Without(m, keys) == [k \in DOMAIN m \ keys |-> m[k]]

Init ==
  /\ map = NoEntries
  /\ empty = FALSE /\ deleted = FALSE
  /\ state = "good"

Keep == UNCHANGED <<empty, deleted, state>>
Fail == state' = "failed" /\ UNCHANGED <<map, empty, deleted>>

(* insert keeps the entry that is there, operator[] overwrites it.          *)
Insert(k, v) == empty /\ map' = WithNew(map, k, v) /\ Keep
Assign(k, v) == empty /\ map' = With(map, k, v) /\ Keep
InsertTwo(k, l, v, w) == empty /\ map' = WithNew(WithNew(map, k, v), l, w) /\ Keep
UsedTooEarly == ~empty /\ Fail

(* One key, or the keys of a range. *)
Erase(keys) == (deleted \/ keys \cap DOMAIN map = {}) /\ map' = Without(map, keys) /\ Keep
EraseTooEarly == ~deleted /\ map # NoEntries /\ Fail

Clear == state' = "good" /\ map' = NoEntries /\ UNCHANGED <<empty, deleted>>

SetEmptyKey == ~empty /\ empty' = TRUE /\ UNCHANGED <<map, deleted, state>>
SetEmptyKeyAgain == empty /\ Fail
UseDeletedKey(use) == deleted' = use /\ UNCHANGED <<map, empty, state>>

(* Written to a file and read again, the map is what it was, or it is       *)
(* known not to be.                                                         *)
Tear == empty /\ state' = "torn" /\ map' = NoEntries /\ UNCHANGED <<empty, deleted>>

Next ==
  \/ /\ state = "good"
     /\ \/ \E k \in Key, v \in Value : Insert(k, v) \/ Assign(k, v)
        \/ \E k, l \in Key, v, w \in Value : InsertTwo(k, l, v, w)
        \/ \E keys \in SUBSET Key : Erase(keys)
        \/ UsedTooEarly \/ EraseTooEarly
        \/ SetEmptyKey \/ SetEmptyKeyAgain
        \/ \E use \in BOOLEAN : UseDeletedKey(use)
        \/ Tear
  \/ state # "failed" /\ Clear

Spec == Init /\ [][Next]_vars
=============================================================================
