------------------------------ MODULE DenseMap ------------------------------
(***************************************************************************)
(* A dense_hash_map and its caller, who keeps to what the comments ask of  *)
(* it: no entry has a key that marks buckets, and what a failed read has   *)
(* left is cleared before it is used.  The caller may also walk over the   *)
(* map with an iterator and erase what it meets on the way.                *)
(***************************************************************************)
EXTENDS DenseTable

CONSTANTS
  Room,     \* arguments of the constructor and of resize
  Percents  \* pairs of percentages, for set_resizing_parameters

(* A table of the largest size can hold an entry, at any percentage.        *)
ASSUME PercentsAssumption ==
  /\ Room \subseteq Nat
  /\ \A p \in Percents : p[1] \in Nat /\ p[2] \in 1 .. 100 /\ p[2] % 2 = 0
  /\ \A p \in Percents \cup {<<20, 50>>} : \E n \in Sizes : n * p[2] >= 100

VARIABLES
  t,       \* the table
  torn,    \* a file was not read to its end
  it       \* the iterator: its bucket, and observers: the keys still owed, those seen

vars == <<t, torn, it>>

NoWalk == [at |-> 0, owed |-> {}, seen |-> {}, on |-> FALSE]
KeyAt(b) == t.table[b].key
Keys(u) == {u.table[b].key : b \in Occupied(u)}

(* advance_past_empty_and_deleted *)
NextOccupied(u, b) == Min({c \in b .. End(u) : c = End(u) \/ c \in Occupied(u)})

-----------------------------------------------------------------------------
(* The constructor. *)
Constructed(max) ==
  LET s == [table |-> Nothing, num_buckets |-> 0, num_elements |-> 0, num_deleted |-> 0,
            use_empty |-> FALSE, delkey |-> NoKey, consider_shrink |-> FALSE,
            grow |-> 50, shrink |-> 20, ok |-> TRUE]
  IN  [s EXCEPT !.num_buckets = IF max = 0 THEN StartBuckets ELSE MinBucketsFor(s, max, 0)]

Init ==
  /\ \E max \in Room : t = Constructed(max)
  /\ t.num_buckets # 0
  /\ torn = FALSE
  /\ it = NoWalk

Good == t.ok /\ ~torn
ToIdle(u) == t' = u /\ it' = NoWalk /\ UNCHANGED torn

(* Bound: a call that needs more buckets than there may be is not made,     *)
(* here and where a copy is made.                                           *)
Fits(delta) == ~Throws(t, delta)

(* insert(obj), operator[](key) = v *)
Insert(k, v) == Good /\ Fits(1) /\ ToIdle(Inserted(t, k, v))
Assign(k, v) ==
  /\ Good /\ (Holds(t, k) \/ Fits(1))
  /\ ToIdle(AssignedTo(t, k, v))

(* insert(f, l), of two entries. *)
InsertRange(k, l, v) ==
  LET entries == <<Bucket(k, v), Bucket(l, Default)>>
  IN  Good /\ Fits(2) /\ ToIdle(InsertedAll(t, entries))

(* erase(key), which leaves iterators where they are. *)
Erase(k) ==
  /\ Good
  /\ t' = Erased(t, k)
  /\ it' = [it EXCEPT !.owed = @ \ {k}]
  /\ UNCHANGED torn

(* erase(f, l), between two places an iterator can be at. *)
EraseRange(from, to) ==
  /\ Good /\ from <= to /\ {from, to} \subseteq Occupied(t) \cup {End(t)}
  /\ ToIdle(ErasedRange(t, from, to))

(* clear, the only call that may follow a failed read; clear_no_resize.     *)
Clear == t.ok /\ t.use_empty /\ t' = Emptied(t) /\ torn' = FALSE /\ it' = NoWalk
ClearNoResize == Good /\ t.use_empty /\ ToIdle(EmptiedNoResize(t))

Resize(n) ==
  Good /\ ~ResizeThrows(t, n) /\ ToIdle(Resized(t, n))

(* A copy, by the copy constructor or operator=, takes the place of the map.*)
Copy ==
  Good /\ ~CopyThrows(t) /\ \E u \in {CopyOf(t, StartBuckets), Assigned(t)} : ToIdle(u)

SetEmptyKey == Good /\ ToIdle(WithEmptyKey(t))
SetDeletedKey(mark) ==
  Good /\ (t.num_deleted > 0 => ~CopyThrows(t)) /\ ToIdle(WithDeletedKey(t, mark))
SetResizing(p) == Good /\ ToIdle([Resizing(t, p[1], p[2]) EXCEPT !.consider_shrink = FALSE])

(* serialize, and unserialize of what got into the file. *)
SaveAndLoad ==
  /\ Good /\ t.use_empty /\ (t.num_deleted > 0 => ~CopyThrows(t))
  /\ LET f == Written(Squashed(t))
     IN \E n \in 0 .. Len(f) :
          LET r == Read(Squashed(t), SubSeq(f, 1, n))
          IN t' = r.t /\ torn' = ~r.whole
  /\ it' = NoWalk

-----------------------------------------------------------------------------
(* begin, operator++, and erase of what the iterator points to. *)
Begin ==
  /\ Good /\ ~it.on
  /\ IF t.use_empty
     THEN it' = [at |-> NextOccupied(t, 0), owed |-> Keys(t), seen |-> {}, on |-> TRUE] /\ UNCHANGED t
     ELSE t' = Fail(t) /\ UNCHANGED it
  /\ UNCHANGED torn

Advanced(u) == [it EXCEPT !.at = NextOccupied(u, @ + 1), !.seen = @ \cup {KeyAt(it.at)}]
Advance ==
  /\ Good /\ it.on /\ it.at # End(t)
  /\ it' = Advanced(t)
  /\ UNCHANGED <<t, torn>>

EraseHere ==
  /\ Good /\ it.on /\ it.at \in Occupied(t)
  /\ t' = ErasedAt(t, it.at)
  /\ it' = [Advanced(t') EXCEPT !.owed = @ \ {KeyAt(it.at)}]
  /\ UNCHANGED torn

Next ==
  \/ \E k \in Key, v \in Value : Insert(k, v) \/ Assign(k, v)
  \/ \E k, l \in Key, v \in Value : InsertRange(k, l, v)
  \/ \E k \in Key : Erase(k)
  \/ \E from, to \in 0 .. End(t) : EraseRange(from, to)
  \/ Clear \/ ClearNoResize \/ Copy \/ SetEmptyKey \/ SaveAndLoad
  \/ \E n \in Room : Resize(n)
  \/ \E mark \in Mark \cup {NoKey} : SetDeletedKey(mark)
  \/ \E p \in Percents : SetResizing(p)
  \/ Begin \/ Advance \/ EraseHere

Spec == Init /\ [][Next]_vars

-----------------------------------------------------------------------------
(* The type; the counts are those of the buckets in use and of the deleted  *)
(* ones.                                                                    *)
TypeOK ==
  /\ torn \in BOOLEAN
  /\ t.ok /\ ~torn =>
       /\ DOMAIN t.table = IF t.use_empty THEN Buckets(t.num_buckets) ELSE {}
       /\ \A b \in DOMAIN t.table : t.table[b] \in
            [key : Key \cup {EmptyKey} \cup ({t.delkey} \ {NoKey}), value : Value]
       /\ t.num_elements = Cardinality({b \in DOMAIN t.table : t.table[b].key # EmptyKey})
       /\ t.num_deleted = Cardinality({b \in DOMAIN t.table : t.table[b].key = t.delkey})

(* Whatever has been inserted, erased and moved before: an entry is found,  *)
(* there is only one for a key, and a search for a key that is not there    *)
(* comes to an end before it has seen every bucket.                         *)
LookupRight ==
  Good /\ t.use_empty =>
    \A k \in Key :
      LET at == {b \in Occupied(t) : KeyAt(b) = k}
      IN ~Full(t, k) /\ at = {Find(t, k)} \ {End(t)}

(* A table and a copy of it of any size are equal, both ways, however the   *)
(* buckets of the one came to be filled.                                    *)
EqualInAnyLayout ==
  Good /\ t.use_empty /\ ~CopyThrows(t) =>
    \A n \in Sizes : Equal(t, CopyOf(t, n)) /\ Equal(CopyOf(t, n), t)

(* An iterator meets each entry that is there from the first to the last,   *)
(* and none twice, whatever is erased on the way.                           *)
WalkComplete ==
  /\ it.on /\ it.at = End(t) => it.owed \subseteq it.seen
  /\ Good /\ it.on /\ it.at \in Occupied(t) => KeyAt(it.at) \notin it.seen

(* The entries, as a map from keys to values. *)
Entries(u) ==
  [k \in Keys(u) |-> u.table[CHOOSE b \in Occupied(u) : u.table[b].key = k].value]
Map == INSTANCE HashMap WITH
  map <- IF torn THEN [k \in {} |-> k] ELSE Entries(t),
  empty <- t.use_empty, deleted <- t.delkey # NoKey,
  state <- IF ~t.ok THEN "failed" ELSE IF torn THEN "torn" ELSE "good"

(* What a call makes of the entries, in whatever layout and however full    *)
(* of deleted buckets the table is: insert keeps the entry that is there,   *)
(* an assignment overwrites it, erase takes out one entry, and a table that *)
(* is rebuilt, for any reason, has the entries it had.                      *)
CallsRight ==
  Good /\ t.use_empty =>
    /\ Fits(1) => \A k \in Key, v \in Value :
         /\ Entries(Inserted(t, k, v)) = Map!WithNew(Entries(t), k, v)
         /\ Entries(AssignedTo(t, k, v)) = Map!With(Entries(t), k, v)
    /\ t.delkey # NoKey => \A k \in Key :
         Entries(Erased(t, k)) = Map!Without(Entries(t), {k})
    /\ Entries(MaybeShrunk(t)) = Entries(t)
    /\ ~CopyThrows(t) => \A u \in {Squashed(t), Assigned(t)} : Entries(u) = Entries(t)

(* To its caller the table is a map, and the assertions that end the        *)
(* program fail only where the caller breaks a rule.                        *)
ActsAsMap == Map!Spec
=============================================================================
