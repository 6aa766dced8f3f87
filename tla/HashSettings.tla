---------------------------- MODULE HashSettings ----------------------------
(***************************************************************************)
(* sh_hashtable_settings and the number format of hashtable-common.h: what *)
(* the hash tables of sparsehash share.  How full a table may get, and how *)
(* empty, are percentages of its buckets; the thresholds reset_thresholds  *)
(* stores are always those of the current number of buckets.               *)
(***************************************************************************)
EXTENDS Naturals, Sequences, FiniteSetsExt

CONSTANTS
  MinBuckets,    \* HT_MIN_BUCKETS, 4
  StartBuckets,  \* HT_DEFAULT_STARTING_BUCKETS, 32
  MaxDoublings,  \* bound: doublings of MinBuckets that fit a size_type
  PointerSize,   \* sizeof(void*)
  Base, Width    \* a file has Width bytes of Base values for a number

ASSUME SettingsAssumption ==
  /\ MinBuckets \in Nat \ {0} /\ StartBuckets \in Nat
  /\ MaxDoublings \in Nat /\ PointerSize \in Nat \ {0}
  /\ Base \in Nat \ {0} /\ Width \in Nat

Power(b) == LET p[i \in Nat] == IF i = 0 THEN 1 ELSE b * p[i - 1] IN p

(* The numbers of buckets a table can have. *)
Sizes == {MinBuckets * Power(2)[i] : i \in 0 .. MaxDoublings}

(* "is a power of two", as the assertions of the class have it; and a file  *)
(* has room for the number of buckets.                                      *)
ASSUME StartAssumption ==
  /\ \E i \in 0 .. MinBuckets : MinBuckets = Power(2)[i]
  /\ StartBuckets \in Sizes
  /\ \A n \in Sizes : n < Power(Base)[Width]

-----------------------------------------------------------------------------
(* enlarge_size, shrink_size *)
EnlargeSize(s, n) == (n * s.grow) \div 100
ShrinkSize(s, n) == (n * s.shrink) \div 100

(* hash: the low bits of a pointer's hash are dropped. *)
MungedHash(h) == h \div PointerSize

(* min_buckets; 0 stands for the length_error it throws. *)
MinBucketsFor(s, elts, wanted) ==
  LET enough == {n \in Sizes : n >= wanted /\ elts < EnlargeSize(s, n)}
  IN  IF enough = {} THEN 0 ELSE Min(enough)

(* set_resizing_parameters: a table that shrinks as soon as it is half of   *)
(* what made it grow would thrash.                                          *)
Resizing(s, shrink, grow) ==
  [s EXCEPT !.grow = grow, !.shrink = IF 2 * shrink > grow THEN grow \div 2 ELSE shrink]

-----------------------------------------------------------------------------
(* write_bigendian_number, read_bigendian_number. *)
NumberBytes(n) == [i \in 1 .. Width |-> (n \div Power(Base)[Width - i]) % Base]
BytesNumber(bytes) ==
  LET sum[i \in 0 .. Width] ==
        IF i = 0 THEN 0 ELSE sum[i - 1] + bytes[i] * Power(Base)[Width - i]
  IN  sum[Width]
=============================================================================
