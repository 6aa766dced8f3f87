---------------------------- MODULE JsonValueMC ----------------------------
(***************************************************************************)
(* Two values of the caller's and room for four more, a literal and two    *)
(* floats that are close, for TLC.                                         *)
(***************************************************************************)
EXTENDS JsonValue

CONSTANTS v, w, null, n1, n2, n3, n4, x, y, lit, s, t

MCNode == {v, w, null, n1, n2, n3, n4}
MCHeld == {v, w}
MCName == {x, y}
MCScalar == {lit, s, t}
MCClose == (MCScalar \X MCScalar) \ ({lit} \X {s, t} \cup {s, t} \X {lit})
MCCompared == {<<v, w>>, <<v, v>>}
MCSymmetry ==
  Permutations({n1, n2, n3, n4}) \cup Permutations({s, t}) \cup Permutations(MCName)

(* Bound: when there is no room left the caller goes on only if it can      *)
(* compare two containers of the same size.                                 *)
StateBound ==
  \/ Fresh # {}
  \/ comparison # Idle
  \/ val[v] = val[w] /\ kids[v] # <<>> /\ SameSize(v, w)
=============================================================================
