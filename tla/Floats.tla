------------------------------- MODULE Floats -------------------------------
(***************************************************************************)
(* The float and the double of the program: binary numbers of a fixed      *)
(* number of significant bits.  A number is a quotient; what a float can   *)
(* hold is one whose numerator has few enough bits, times a power of two.  *)
(* Exponents have no bounds here: in the loader a number too large for an  *)
(* exponent is out of the range of every integer it is converted to, and   *)
(* one too small becomes 0 in that conversion.                             *)
(***************************************************************************)
EXTENDS Integers

Real(n, d) == [num |-> n, den |-> d]
Reals == [num : Int, den : Nat \ {0}]

Two[k \in Nat] == IF k = 0 THEN 1 ELSE 2 * Two[k - 1]

(* How often x > 0 must be doubled to have its bits before the point, and   *)
(* how often halved to have no more than those.                             *)
Doublings(x, bits) ==
  LET enough(k) == x.num * Two[k] >= Two[bits - 1] * x.den
  IN  CHOOSE k \in 0 .. (bits + x.den) : enough(k) /\ (k = 0 \/ ~enough(k - 1))
Halvings(x, bits) ==
  LET enough(k) == x.num < Two[bits] * Two[k] * x.den
  IN  CHOOSE k \in 0 .. x.num : enough(k) /\ (k = 0 \/ ~enough(k - 1))

(* The integer nearest to n / d; of two equally near ones the even one.     *)
NearestInt(n, d) ==
  LET low == n \div d
      rest == 2 * (n % d)
  IN  IF rest < d \/ (rest = d /\ low % 2 = 0) THEN low ELSE low + 1

(* The number of so many bits nearest to x > 0.                             *)
Nearest(x, bits) ==
  LET up == Doublings(x, bits)
      down == Halvings(x, bits)
  IN  Real(NearestInt(x.num * Two[up], x.den * Two[down]) * Two[down], Two[up])

Negated(x) == Real(-x.num, x.den)

(* A number as it is stored in so many bits.                                *)
Rounded(bits) ==
  [x \in Reals |-> IF x.num = 0 THEN x
                   ELSE IF x.num > 0 THEN Nearest(x, bits)
                   ELSE Negated(Nearest(Negated(x), bits))]

(* 1 / x, x # 0.                                                            *)
Reciprocal(x) == IF x.num > 0 THEN Real(x.den, x.num) ELSE Real(-x.den, -x.num)
=============================================================================
