----------------------------- MODULE DenseTable -----------------------------
(***************************************************************************)
(* dense_hashtable of densehashtable.h, in which a JSON object keeps its   *)
(* members: open addressing with quadratic probing, one key that marks a   *)
(* bucket as empty and one that marks it as deleted.  A table is a record, *)
(* and each function of the class an operator from the table before to the *)
(* table after.  An assertion that fails clears ok, and the program ends.  *)
(***************************************************************************)
EXTENDS HashSettings

CONSTANTS
  Key,       \* keys of entries
  Value,     \* values of entries
  Mark,      \* keys the caller uses as deleted key, and never for an entry
  EmptyKey,  \* the empty key
  NoKey,     \* no deleted key has been set
  Default,   \* data_type()
  Hash,      \* the hasher
  Group      \* buckets of a file that share a byte of the bitmap, 8

ASSUME TableAssumption ==
  /\ Key \cap Mark = {} /\ (Key \cup Mark) \cap {EmptyKey, NoKey} = {} /\ EmptyKey # NoKey
  /\ Default \in Value
  /\ Hash \in [Key -> Nat]
  /\ Group \in Nat \ {0}

Bucket(k, v) == [key |-> k, value |-> v]
Vacant == Bucket(EmptyKey, Default)
Buckets(n) == 0 .. (n - 1)
Nothing == <<>>   \* a NULL table

-----------------------------------------------------------------------------
Fail(t) == [t EXCEPT !.ok = FALSE]
Asserted(t, condition) == IF condition THEN t ELSE Fail(t)

size(t) == t.num_elements - t.num_deleted

test_empty(t, b) == t.table[b].key = EmptyKey
test_deleted(t, b) == t.num_deleted > 0 /\ t.table[b].key = t.delkey

(* What an iterator stops at. *)
Occupied(t) == {b \in DOMAIN t.table : ~test_empty(t, b) /\ ~test_deleted(t, b)}

(* Mutant: linear probing that skips every other bucket.                    *)
ProbeEven(n, k, i) == (MungedHash(Hash[k]) + 2 * i) % n

(* The bucket after i probes: the first leads one bucket on, the next two   *)
(* more, and so on.                                                         *)
Probe(n, k, i) == (MungedHash(Hash[k]) + (i * (i + 1)) \div 2) % n

(* find_position: the probe that ends the search, if none does and the      *)
(* assertion that the table is not full fails the number of buckets; and    *)
(* where an entry would be inserted: in the first deleted bucket passed.    *)
Ends(t, k, i) == LET b == Probe(t.num_buckets, k, i)
                 IN  test_empty(t, b) \/ (~test_deleted(t, b) /\ t.table[b].key = k)
LastProbe(t, k) ==
  LET ends == {i \in Buckets(t.num_buckets) : Ends(t, k, i)}
  IN  IF ends = {} THEN t.num_buckets ELSE Min(ends)
Full(t, k) == ~t.use_empty \/ LastProbe(t, k) = t.num_buckets
Position(t, k) == Probe(t.num_buckets, k, LastProbe(t, k))
InsertPosition(t, k) ==
  LET gone == {i \in Buckets(LastProbe(t, k)) : test_deleted(t, Probe(t.num_buckets, k, i))}
  IN  IF gone = {} THEN Position(t, k) ELSE Probe(t.num_buckets, k, Min(gone))

(* find: the bucket, or end(); the search itself may fail an assertion.     *)
End(t) == t.num_buckets
Searches(t) == size(t) # 0
Holds(t, k) == ~Full(t, k) /\ t.table[Position(t, k)].key = k
Found(t, k) == Searches(t) /\ Holds(t, k)
Find(t, k) == IF Found(t, k) THEN Position(t, k) ELSE End(t)
FindFails(t, k) == Searches(t) /\ Full(t, k)

-----------------------------------------------------------------------------
(* clear_to_size *)
Cleared(t, n) ==
  [t EXCEPT !.table = [b \in Buckets(n) |-> Vacant], !.num_buckets = n,
            !.num_elements = 0, !.num_deleted = 0, !.consider_shrink = FALSE]

(* Mutant: an entry goes to the bucket of its hash, whatever is there.      *)
PutFirst(t, e) ==
  LET b == Probe(t.num_buckets, e.key, 0)
  IN  [t EXCEPT !.table[b] = e, !.num_elements = @ + 1]

(* The loop of copy_from for one entry: its first empty bucket.             *)
Put(t, e) ==
  LET free == {i \in Buckets(t.num_buckets) : test_empty(t, Probe(t.num_buckets, e.key, i))}
  IN  IF free = {} THEN Fail(t)
      ELSE [t EXCEPT !.table[Probe(t.num_buckets, e.key, Min(free))] = e,
                     !.num_elements = @ + 1]

(* copy_from, into a table with the settings of the one that is copied.     *)
CopiedFrom(t, n) ==
  LET upTo[b \in 0 .. t.num_buckets] ==
        IF b = 0 THEN Cleared(t, n)
        ELSE IF b - 1 \in Occupied(t) THEN Put(upTo[b - 1], t.table[b - 1]) ELSE upTo[b - 1]
  IN  upTo[t.num_buckets]

(* The copy constructor.  Without an empty key there is nothing to copy.    *)
CopyOf(t, wanted) ==
  LET n == MinBucketsFor(t, size(t), wanted)
  IN  IF t.use_empty THEN CopiedFrom(t, n)
      ELSE [Asserted(t, size(t) = 0) EXCEPT !.table = Nothing, !.num_buckets = n,
              !.num_elements = 0, !.num_deleted = 0, !.consider_shrink = FALSE]

(* The length_error of the two copies, and of the swap that squashes. *)
CopyThrows(t) == MinBucketsFor(t, size(t), 0) = 0

(* operator= *)
Assigned(t) == CopyOf(t, IF t.use_empty THEN MinBuckets ELSE StartBuckets)

(* squash_deleted *)
Squashed(t) == IF t.num_deleted > 0 THEN CopyOf(t, StartBuckets) ELSE t

-----------------------------------------------------------------------------
(* maybe_shrink: whether it does, and the table it leaves.                  *)
Shrinks(t) ==
  LET threshold == ShrinkSize(t, t.num_buckets)
  IN  threshold > 0 /\ size(t) < threshold /\ t.num_buckets > StartBuckets
ShrunkSize(t) ==
  Max({n \in Sizes : n < t.num_buckets /\ (n <= StartBuckets \/ 100 * size(t) >= n * t.shrink)})
MaybeShrunk(t) ==
  [IF Shrinks(t) THEN CopyOf(t, ShrunkSize(t)) ELSE t EXCEPT !.consider_shrink = FALSE]

(* resize_delta: the table with room for delta more entries.  Deleted       *)
(* buckets count when it is decided whether to grow, and not when it is     *)
(* decided how far; a table that is rebuilt anyway grows if it would not    *)
(* be so empty as to shrink again.                                          *)
Considered(t) == IF t.consider_shrink THEN MaybeShrunk(t) ELSE t
Needed(t, delta) == MinBucketsFor(t, t.num_elements + delta, 0)
RoomLeft(t, delta) ==
  t.num_buckets >= MinBuckets /\ t.num_elements + delta <= EnlargeSize(t, t.num_buckets)
Enough(t, delta) == RoomLeft(t, delta) \/ Needed(t, delta) <= t.num_buckets
ResizeTo(t, delta) ==
  LET least == MinBucketsFor(t, size(t) + delta, t.num_buckets)
  IN  IF least < Needed(t, delta) /\ 2 * least \in Sizes
         /\ size(t) + delta >= ShrinkSize(t, 2 * least)
      THEN 2 * least ELSE least
Throws(t, delta) ==
  LET s == Considered(t) IN ~RoomLeft(s, delta) /\ Needed(s, delta) = 0
ResizedBy(t, delta) ==
  LET s == Considered(t)
  IN  IF Enough(s, delta) THEN s ELSE CopyOf(s, ResizeTo(s, delta))
DidResize(t, delta) ==
  \/ t.consider_shrink /\ Shrinks(t)
  \/ ~Enough(Considered(t), delta)

(* resize(req_elements) *)
ShrunkFor(t, req) == IF t.consider_shrink \/ req = 0 THEN MaybeShrunk(t) ELSE t
Resized(t, req) ==
  LET s == ShrunkFor(t, req)
  IN  IF req > s.num_elements THEN ResizedBy(s, req - s.num_elements) ELSE s
ResizeThrows(t, req) ==
  LET s == ShrunkFor(t, req)
  IN  req > s.num_elements /\ Throws(s, req - s.num_elements)

-----------------------------------------------------------------------------
NotSpecial(t, k) == k # EmptyKey /\ k # t.delkey

(* Mutant: a deleted bucket that is used again still counts as deleted.     *)
InsertedAtUncounted(t, k, v, b) ==
  [t EXCEPT !.table[b] = Bucket(k, v),
            !.num_elements = IF test_deleted(t, b) THEN @ ELSE @ + 1]

(* insert_at *)
InsertedAt(t, k, v, b) ==
  [t EXCEPT !.table[b] = Bucket(k, v),
            !.num_deleted = IF test_deleted(t, b) THEN @ - 1 ELSE @,
            !.num_elements = IF test_deleted(t, b) THEN @ ELSE @ + 1]

(* Mutant: an entry that is there is overwritten.                           *)
InsertedNoresizeOver(t, k, v) ==
  CASE ~NotSpecial(t, k) \/ Full(t, k) -> Fail(t)
    [] OTHER -> IF Holds(t, k) THEN [t EXCEPT !.table[Position(t, k)].value = v]
                ELSE InsertedAt(t, k, v, InsertPosition(t, k))

(* insert_noresize: an entry that is there is left as it is.                *)
InsertedNoresize(t, k, v) ==
  CASE ~NotSpecial(t, k) \/ Full(t, k) -> Fail(t)
    [] OTHER -> IF Holds(t, k) THEN t
                ELSE InsertedAt(t, k, v, InsertPosition(t, k))

(* insert(obj) *)
Inserted(t, k, v) == InsertedNoresize(ResizedBy(t, 1), k, v)

AssignedAt(t, b, v) == [t EXCEPT !.table[b].value = v]

(* insert(f, l): room for all of them is made first. *)
InsertedAll(t, entries) ==
  LET upTo[i \in 0 .. Len(entries)] ==
        IF i = 0 THEN ResizedBy(t, Len(entries))
        ELSE InsertedNoresize(upTo[i - 1], entries[i].key, entries[i].value)
  IN  upTo[Len(entries)]

(* Mutant: a position found before the table is resized is used.            *)
AssignedToStale(t, k, v) ==
  CASE ~NotSpecial(t, k) \/ Full(t, k) -> Fail(t)
    [] OTHER -> IF Holds(t, k) THEN AssignedAt(t, Position(t, k), v)
                ELSE InsertedAt(ResizedBy(t, 1), k, v, InsertPosition(t, k))

(* find_or_insert, and the assignment to what operator[] of dense_hash_map  *)
(* returns.  A position found before the table is resized is not used.      *)
AssignedTo(t, k, v) ==
  CASE ~NotSpecial(t, k) \/ Full(t, k) -> Fail(t)
    [] OTHER -> IF Holds(t, k) THEN AssignedAt(t, Position(t, k), v)
                ELSE IF DidResize(t, 1) THEN InsertedNoresize(ResizedBy(t, 1), k, v)
                ELSE InsertedAt(ResizedBy(t, 1), k, v, InsertPosition(t, k))

(* Mutant: the deleted bucket is squashed at once. *)
ErasedAtSquashing(t, b) ==
  IF t.delkey = NoKey THEN Fail(t)
  ELSE CopyOf([t EXCEPT !.table[b] = Bucket(t.delkey, Default), !.num_deleted = @ + 1],
              t.num_buckets)

(* erase of a bucket that holds an entry. *)
ErasedAt(t, b) ==
  IF t.delkey = NoKey THEN Fail(t)
  ELSE [t EXCEPT !.table[b] = Bucket(t.delkey, Default), !.num_deleted = @ + 1,
                 !.consider_shrink = TRUE]

(* erase(key) *)
Erased(t, k) ==
  CASE ~NotSpecial(t, k) \/ FindFails(t, k) -> Fail(t)
    [] OTHER -> IF Found(t, k) THEN ErasedAt(t, Find(t, k)) ELSE t

(* erase(f, l) *)
ErasedRange(t, from, to) ==
  LET gone == {b \in Occupied(t) : from <= b /\ b < to}
  IN  IF gone # {} /\ t.delkey = NoKey THEN Fail(t)
      ELSE [t EXCEPT !.table = [b \in DOMAIN t.table |->
                                  IF b \in gone THEN Bucket(t.delkey, Default) ELSE t.table[b]],
                     !.num_deleted = @ + Cardinality(gone), !.consider_shrink = TRUE]

(* clear, clear_no_resize *)
Emptied(t) ==
  LET n == MinBucketsFor(t, 0, 0)
  IN  IF t.num_elements = 0 /\ n = t.num_buckets THEN t ELSE Cleared(t, n)
EmptiedNoResize(t) ==
  [t EXCEPT !.table = IF t.num_elements > 0 THEN [b \in DOMAIN t.table |-> Vacant] ELSE @,
            !.num_elements = 0, !.num_deleted = 0, !.consider_shrink = FALSE]

(* set_empty_key, set_deleted_key, clear_deleted_key *)
WithEmptyKey(t) ==
  IF t.use_empty \/ t.table # Nothing THEN Fail(t)
  ELSE [t EXCEPT !.use_empty = TRUE, !.table = [b \in Buckets(t.num_buckets) |-> Vacant]]
WithDeletedKey(t, mark) == [Squashed(t) EXCEPT !.delkey = mark]

(* operator==, of any two tables *)
Equal(t, u) ==
  /\ size(t) = size(u)
  /\ \A b \in Occupied(t) :
       LET e == t.table[b] IN Found(u, e.key) /\ u.table[Find(u, e.key)] = e

-----------------------------------------------------------------------------
(* serialize: a magic number, two numbers, and for each group of buckets    *)
(* which of them hold an entry, before the entries.                         *)
Groups(n) == (n + Group - 1) \div Group
InGroup(g, n) == {b \in Buckets(n) : b \div Group = g - 1}
InUse(t, g) == {b \in InGroup(g, t.num_buckets) : ~test_empty(t, b)}
Place(bits, b) == 1 + Cardinality({c \in bits : c < b})
InOrder(t, bits) ==
  [i \in 1 .. Cardinality(bits) |-> t.table[CHOOSE b \in bits : Place(bits, b) = i]]
Written(t) ==
  LET head == <<"magic">> \o NumberBytes(t.num_buckets) \o NumberBytes(t.num_elements)
      upTo[g \in 0 .. Groups(t.num_buckets)] ==
        IF g = 0 THEN head
        ELSE upTo[g - 1] \o <<InUse(t, g)>> \o InOrder(t, InUse(t, g))
  IN  upTo[Groups(t.num_buckets)]

(* unserialize, of a file that may have been torn off: the table, and       *)
(* whether it was read to the end.                                          *)
ReadGroup(r, f) ==
  LET bits == f[r.at]
      there(b) == b \in bits /\ r.at + Place(bits, b) <= Len(f)
  IN  IF r.at > Len(f) THEN [r EXCEPT !.whole = FALSE]
      ELSE [r EXCEPT !.at = @ + Cardinality(bits) + 1,
                     !.whole = r.at + Cardinality(bits) <= Len(f),
                     !.t.table = [b \in DOMAIN @ |->
                                    IF there(b) THEN f[r.at + Place(bits, b)] ELSE @[b]]]
Read(t, f) ==
  LET byte(i) == IF i <= Len(f) THEN f[i] ELSE 0
      number(i) == BytesNumber([j \in 1 .. Width |-> byte(i + j - 1)])
      sized == Cleared(Emptied(t), number(2))
      head == [t |-> [sized EXCEPT !.num_elements = number(Width + 2)],
               at |-> 2 * Width + 2, whole |-> Len(f) > 2 * Width]
      upTo[g \in 0 .. Groups(sized.num_buckets)] ==
        IF g = 0 THEN head ELSE IF upTo[g - 1].whole THEN ReadGroup(upTo[g - 1], f) ELSE upTo[g - 1]
  IN  IF Len(f) <= Width THEN [t |-> Emptied(t), whole |-> FALSE]
      ELSE upTo[Groups(sized.num_buckets)]

=============================================================================
