---------------------------- MODULE ConfigPlaneMC ----------------------------
(***************************************************************************)
(* The configuration plane for TLC: one or two requests at once, forms     *)
(* that name no field (a GET), one, two or an unknown one, and installed   *)
(* documents of numbers.  Numbers are in halves, and the word, the int,    *)
(* the second and the KiB are small, so that the documents written by hand *)
(* take every member below, at and above the edges of its conversion.      *)
(***************************************************************************)
EXTENDS ConfigPlane, TLC

(* Whole numbers are parsed as fixed_number, the others as number. *)
Num(halves) == [type |-> IF halves % Den = 0 THEN "fixed_number" ELSE "number",
                num |-> halves]
Document(drop, percent, count, bandwidth) ==
  "drop_percent" :> Num(drop) @@ "corrupt_packet_percent" :> Num(percent)
  @@ "corrupt_packet_bytes" :> Num(count) @@ "truncate_len" :> Num(count)
  @@ "bandwidth" :> Num(bandwidth)

MCInitial == {Document(0, 0, 0, 4), Document(200, 0, 0, 0)}
OneInitial == {Document(0, 0, 0, 4)}

MCForms == {<<>>, "drop_percent" :> 100,
            "drop_percent" :> 0 @@ "bandwidth" :> 2, "loss" :> 1}
FewForms == {<<>>, "drop_percent" :> 100, "bandwidth" :> 2}

(* The members are converted each by itself, so one is varied at a time.   *)
Percents == -4 .. 204
Limits == (-4 .. 110) \cup {2 * LongMax, 2 * LongMax + 1, 2 * LongMax + 2, 2 * LongMax + 3}
Counts == (-4 .. 40) \cup {2 * LongMax - 2, 2 * LongMax, 2 * LongMax + 1,
                          2 * LongMax + 2, 2 * Word, 2 * Word + 1, -2 * Word}
Grid == ({Document(p, 204 - p, 0, 4) : p \in Percents}
         \cup {Document(100, 0, n, 4) : n \in Counts}
         \cup {Document(100, 0, 0, b) : b \in Limits}) \ MCInitial

(* What rounding is: of the numbers of so many bits there is none nearer.   *)
Distance(x, y) ==
  LET d == x.num * y.den - y.num * x.den
  IN  Real(IF d < 0 THEN -d ELSE d, x.den * y.den)
Less(x, y) == x.num * y.den < y.num * x.den
ShortNumbers(bits) ==
  {Real(m, Two[k]) : m \in 0 .. (Two[bits] - 1), k \in 0 .. 6}
  \cup {Real(m * Two[k], 1) : m \in 0 .. (Two[bits] - 1), k \in 1 .. 4}
ASSUME RoundsToNearest ==
  \A n \in 0 .. 24, d \in 1 .. 6 :
    LET x == Real(n, d)
        r == Rounded(3)[x]
    IN  /\ \E y \in ShortNumbers(3) : r.num * y.den = y.num * r.den
        /\ \A y \in ShortNumbers(3) : ~Less(Distance(x, y), Distance(x, r))

WorkerSymmetry == Permutations(Workers)
=============================================================================
