------------------------------ MODULE DenseMC ------------------------------
(***************************************************************************)
(* A dense_hash_map for TLC: three keys that begin at the same bucket of   *)
(* four, and part in tables of eight and of sixteen.                       *)
(***************************************************************************)
EXTENDS DenseMap, TLC

CONSTANTS k1, k2, k3

MCKey == {k1, k2, k3}
MCHash == k1 :> 0 @@ k2 :> 8 @@ k3 :> 17
MCPercents == {<<20, 50>>, <<40, 70>>}
=============================================================================
