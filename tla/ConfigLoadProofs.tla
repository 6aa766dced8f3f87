-------------------------- MODULE ConfigLoadProofs --------------------------
(***************************************************************************)
(* What the conversions of load_config return, for every width of a word,  *)
(* of an int, of a float and of a double, and every number of a document.  *)
(*                                                                         *)
(* Two is shown to be what its recursion says, and so every rounding to be *)
(* off by one part in 2^bits at most.  Counted in parts of 1 / Parts, of   *)
(* which a float may be off by eight and a double by one, the deviations   *)
(* of successive roundings add up, with one part more for each of them.    *)
(***************************************************************************)
EXTENDS ConfigLoad, WellFoundedInduction, TLAPS

(* Every set of numbers has a least one.                                    *)
LEMMA LeastNumber ==
  ASSUME NEW T \in SUBSET Nat, T # {}
  PROVE  \E m \in T : \A n \in T : m <= n
<1>1. IsWellFoundedOn(OpToRel(<, Nat), Nat)
  BY NatLessThanWellFounded
<1>2. \E m \in T : \A n \in T : ~(<<n, m>> \in OpToRel(<, Nat))
  <2> DEFINE R == OpToRel(<, Nat)
  <2>1. IsWellFoundedOn(R, Nat)
    BY <1>1
  <2> HIDE DEF R
  <2>2. \E m \in T : \A n \in T : ~(<<n, m>> \in R)
    BY <2>1, WFMin
  <2> QED BY <2>2 DEF R
<1>3. \A m, n \in Nat : <<n, m>> \notin OpToRel(<, Nat) => ~(n < m)
  BY DEF OpToRel
<1>4. \A m, n \in Nat : ~(n < m) => m <= n
  OBVIOUS
<1> QED BY <1>2, <1>3, <1>4

(* Induction, for a set of numbers.                                         *)
LEMMA SetInduction ==
  ASSUME NEW T, 0 \in T, \A n \in Nat : n \in T => n + 1 \in T
  PROVE  \A n \in Nat : n \in T
<1> DEFINE B == {n \in Nat : n \notin T}
<1> SUFFICES ASSUME B # {} PROVE FALSE
  OBVIOUS
<1>1. B \in SUBSET Nat
  OBVIOUS
<1>2. PICK m \in B : \A n \in B : m <= n
  <2> HIDE DEF B
  <2> QED BY <1>1, LeastNumber
<1>3. m \in Nat /\ m \notin T /\ m # 0
  OBVIOUS
<1>4. m - 1 \in Nat /\ m - 1 + 1 = m
  BY <1>3
<1>5. m - 1 \notin B
  BY <1>2, <1>3
<1>6. m - 1 \in T
  BY <1>4, <1>5
<1> QED BY <1>3, <1>4, <1>6

-----------------------------------------------------------------------------
(* Products of natural numbers.                                             *)
LEMMA Multiplied ==
  ASSUME NEW a \in Nat, NEW b \in Nat \ {0}
  PROVE  a <= a * b /\ a * b = b * a
<1>1. b - 1 \in Nat /\ a * b = a + a * (b - 1)
  OBVIOUS
<1>2. a * (b - 1) \in Nat
  BY <1>1
<1>3. a * b \in Nat
  OBVIOUS
<1> QED BY <1>1, <1>2, <1>3

(* A common factor keeps the order.                                         *)
LEMMA TimesKeeps ==
  ASSUME NEW c \in Nat, NEW a \in Nat, NEW b \in Nat, a <= b
  PROVE  c * a <= c * b
<1>1. PICK m \in Nat : b = a + m
  <2>1. b - a \in Nat /\ b = a + (b - a)
    OBVIOUS
  <2> QED BY <2>1
<1>2. c * b = c * a + c * m /\ c * m \in Nat /\ c * a \in Nat
  BY <1>1
<1> QED BY <1>2

(* Quotient and remainder.                                                  *)
LEMMA DivMod ==
  ASSUME NEW n \in Nat, NEW d \in Nat \ {0}
  PROVE  /\ n \div d \in Nat /\ n % d \in Nat /\ n % d < d
         /\ n = (n \div d) * d + (n % d)
<1>1. n \div d \in Int /\ n % d \in 0 .. (d - 1) /\ n = d * (n \div d) + (n % d)
  OBVIOUS
<1>2. n \div d \in Nat
  OBVIOUS
<1> QED BY <1>1, <1>2

(* A quotient is what division says: the largest number of times the        *)
(* divisor fits.                                                            *)
LEMMA QuotientBounds ==
  ASSUME NEW n \in Nat, NEW d \in Nat \ {0}
  PROVE  /\ n \div d \in Nat
         /\ (n \div d) * d <= n
         /\ n < ((n \div d) + 1) * d
OBVIOUS

(* A product is less than another one of the same factor if the other       *)
(* factors are.                                                             *)
LEMMA LessByFactor ==
  ASSUME NEW a \in Nat, NEW b \in Nat, NEW d \in Nat \ {0}, a * d < b * d
  PROVE  a < b
<1>1. SUFFICES ASSUME b <= a PROVE FALSE
  OBVIOUS
<1>2. d * b <= d * a
  BY <1>1, TimesKeeps
<1>3. d * b = b * d /\ d * a = a * d /\ a * d \in Nat /\ b * d \in Nat
  OBVIOUS
<1> QED BY <1>2, <1>3

-----------------------------------------------------------------------------
(* g is Two up to n.                                                        *)
TwoTo(n, g) == g = [k \in 0 .. n |-> IF k = 0 THEN 1 ELSE 2 * g[k - 1]]

(* There is such a function, and one only.                                  *)
LEMMA TwoToExists == \A n \in Nat : \E g : TwoTo(n, g)
<1> DEFINE T == {n \in Nat : \E g : TwoTo(n, g)}
<1>1. 0 \in T
  <2> DEFINE g == [k \in 0 .. 0 |-> 1]
  <2>1. TwoTo(0, g)
    BY DEF TwoTo
  <2> QED BY <2>1
<1>2. ASSUME NEW n \in Nat, n \in T PROVE n + 1 \in T
  <2>1. PICK g : TwoTo(n, g)
    BY <1>2
  <2> DEFINE h == [k \in 0 .. (n + 1) |-> IF k = n + 1 THEN 2 * g[n] ELSE g[k]]
  <2>2. \A k \in 0 .. n : h[k] = g[k] /\ g[k] = IF k = 0 THEN 1 ELSE 2 * g[k - 1]
    BY <2>1 DEF TwoTo
  <2>3. ASSUME NEW k \in 0 .. (n + 1)
        PROVE  h[k] = IF k = 0 THEN 1 ELSE 2 * h[k - 1]
    <3>1. CASE k = n + 1
      <4>1. n + 1 \in 0 .. (n + 1)
        OBVIOUS
      <4>2. h[n + 1] = 2 * g[n]
        BY <4>1, Zenon
      <4>3. k # 0 /\ k - 1 = n
        BY <3>1
      <4>4. h[n] = g[n]
        BY <2>2
      <4> HIDE DEF h
      <4> QED BY <3>1, <4>2, <4>3, <4>4
    <3>2. CASE k \in 0 .. n
      <4>1. k # 0 => k - 1 \in 0 .. n /\ h[k - 1] = g[k - 1]
        BY <2>2, <3>2
      <4>2. h[k] = g[k] /\ g[k] = IF k = 0 THEN 1 ELSE 2 * g[k - 1]
        BY <2>2, <3>2
      <4> HIDE DEF h
      <4> QED BY <4>1, <4>2
    <3> QED BY <3>1, <3>2
  <2>4. h = [k \in 0 .. (n + 1) |-> h[k]]
    OBVIOUS
  <2>5. TwoTo(n + 1, h)
    <3> HIDE DEF h
    <3>1. [k \in 0 .. (n + 1) |-> h[k]] =
          [k \in 0 .. (n + 1) |-> IF k = 0 THEN 1 ELSE 2 * h[k - 1]]
      BY <2>3
    <3> QED BY <2>4, <3>1 DEF TwoTo
  <2> HIDE DEF h
  <2> QED BY <2>5
<1>3. \A n \in Nat : n \in T
  <2> HIDE DEF T
  <2> QED BY <1>1, <1>2, SetInduction
<1> QED BY <1>3

(* Two such functions agree.                                                *)
LEMMA TwoToUnique ==
  ASSUME NEW m \in Nat, NEW n \in Nat, NEW g, NEW h, m <= n, TwoTo(m, g), TwoTo(n, h)
  PROVE  g[m] = h[m]
<1> DEFINE T == {k \in Nat : k <= m => g[k] = h[k]}
<1>1. /\ \A k \in 0 .. m : g[k] = IF k = 0 THEN 1 ELSE 2 * g[k - 1]
      /\ \A k \in 0 .. n : h[k] = IF k = 0 THEN 1 ELSE 2 * h[k - 1]
  BY Zenon DEF TwoTo
<1>2. 0 \in T
  BY <1>1
<1>3. ASSUME NEW k \in Nat, k \in T PROVE k + 1 \in T
  <2> SUFFICES ASSUME k + 1 <= m PROVE g[k + 1] = h[k + 1]
    OBVIOUS
  <2>1. k + 1 \in 0 .. m /\ k + 1 \in 0 .. n /\ k + 1 # 0 /\ k + 1 - 1 = k
    OBVIOUS
  <2>2. g[k + 1] = 2 * g[k] /\ h[k + 1] = 2 * h[k]
    BY <1>1, <2>1
  <2>3. g[k] = h[k]
    BY <1>3
  <2> QED BY <2>2, <2>3
<1>4. \A k \in Nat : k \in T
  <2> HIDE DEF T
  <2> QED BY <1>2, <1>3, SetInduction
<1> QED BY <1>4

(* So Two is what its recursion says.                                       *)
LEMMA TwoSteps == Two[0] = 1 /\ \A k \in Nat : Two[k + 1] = 2 * Two[k]
<1> DEFINE G(n) == CHOOSE g : TwoTo(n, g)
           two == [n \in Nat |-> G(n)[n]]
<1>1. \A n \in Nat : TwoTo(n, G(n))
  BY TwoToExists
<1> HIDE DEF G
<1>2. two[0] = 1
  <2>1. G(0)[0] = 1
    BY <1>1 DEF TwoTo
  <2> QED BY <2>1
<1>3. ASSUME NEW n \in Nat PROVE two[n + 1] = 2 * two[n]
  <2>1. n + 1 \in 0 .. (n + 1) /\ n + 1 # 0 /\ n + 1 - 1 = n
    OBVIOUS
  <2>2. G(n + 1)[n + 1] = 2 * G(n + 1)[n]
    BY <1>1, <2>1 DEF TwoTo
  <2>3. G(n)[n] = G(n + 1)[n]
    BY <1>1, TwoToUnique
  <2> QED BY <2>2, <2>3
<1>4. two = [n \in Nat |-> IF n = 0 THEN 1 ELSE 2 * two[n - 1]]
  <2>1. ASSUME NEW n \in Nat PROVE two[n] = IF n = 0 THEN 1 ELSE 2 * two[n - 1]
    <3>1. CASE n # 0
      <4>1. n - 1 \in Nat /\ n - 1 + 1 = n
        BY <3>1
      <4> HIDE DEF two
      <4> QED BY <1>3, <3>1, <4>1
    <3> HIDE DEF two
    <3> QED BY <1>2, <3>1
  <2>2. two = [n \in Nat |-> two[n]]
    OBVIOUS
  <2> HIDE DEF two
  <2>3. [n \in Nat |-> two[n]] = [n \in Nat |-> IF n = 0 THEN 1 ELSE 2 * two[n - 1]]
    BY <2>1
  <2> QED BY <2>2, <2>3
<1> HIDE DEF two
<1>5. Two = [n \in Nat |-> IF n = 0 THEN 1 ELSE 2 * Two[n - 1]]
  <2>1. \E f : f = [n \in Nat |-> IF n = 0 THEN 1 ELSE 2 * f[n - 1]]
    BY <1>4
  <2> QED BY <2>1 DEF Two
<1>6. Two[0] = 1
  BY <1>5
<1>7. ASSUME NEW k \in Nat PROVE Two[k + 1] = 2 * Two[k]
  <2>1. k + 1 \in Nat /\ k + 1 # 0 /\ k + 1 - 1 = k
    OBVIOUS
  <2> QED BY <1>5, <2>1
<1> QED BY <1>6, <1>7

(* Powers of two are positive, and larger than their exponents.             *)
LEMMA TwoType == \A k \in Nat : Two[k] \in Nat \ {0} /\ k < Two[k]
<1> DEFINE T == {k \in Nat : Two[k] \in Nat \ {0} /\ k < Two[k]}
<1>1. 0 \in T
  BY TwoSteps
<1>2. ASSUME NEW k \in Nat, k \in T PROVE k + 1 \in T
  BY <1>2, TwoSteps
<1>3. \A k \in Nat : k \in T
  <2> HIDE DEF T
  <2> QED BY <1>1, <1>2, SetInduction
<1> QED BY <1>3

(* The sum of two exponents is that of the product.                         *)
LEMMA TwoSum == \A a, b \in Nat : Two[a + b] = Two[a] * Two[b]
<1> SUFFICES ASSUME NEW a \in Nat PROVE \A b \in Nat : Two[a + b] = Two[a] * Two[b]
  OBVIOUS
<1> DEFINE T == {b \in Nat : Two[a + b] = Two[a] * Two[b]}
<1>0. Two[a] \in Nat
  BY TwoType
<1>1. 0 \in T
  BY <1>0, TwoSteps
<1>2. ASSUME NEW b \in Nat, b \in T PROVE b + 1 \in T
  <2>1. a + b \in Nat /\ a + (b + 1) = (a + b) + 1
    OBVIOUS
  <2>2. Two[a + (b + 1)] = 2 * Two[a + b] /\ Two[b + 1] = 2 * Two[b]
    BY <2>1, TwoSteps
  <2>3. Two[b] \in Nat
    BY TwoType
  <2>4. 2 * (Two[a] * Two[b]) = Two[a] * (2 * Two[b])
    BY <1>0, <2>3
  <2> QED BY <1>2, <2>2, <2>4
<1>3. \A b \in Nat : b \in T
  <2> HIDE DEF T
  <2> QED BY <1>1, <1>2, SetInduction
<1> QED BY <1>3

(* Powers grow with their exponents.                                        *)
LEMMA TwoGrows ==
  ASSUME NEW a \in Nat, NEW b \in Nat, a <= b
  PROVE  Two[a] <= Two[b]
<1>1. b - a \in Nat /\ a + (b - a) = b
  OBVIOUS
<1>2. Two[b] = Two[a] * Two[b - a]
  BY <1>1, TwoSum
<1>3. Two[a] \in Nat /\ Two[b - a] \in Nat \ {0}
  BY <1>1, TwoType
<1> QED BY <1>2, <1>3, Multiplied

(* Of the numbers up to a bound, the first with a property.                 *)
LEMMA FirstOne ==
  ASSUME NEW P, NEW B \in Nat, B \in P
  PROVE  \E k \in 0 .. B : k \in P /\ (k = 0 \/ k - 1 \notin P)
<1> DEFINE T == {k \in 0 .. B : k \in P}
<1>1. T \in SUBSET Nat /\ T # {}
  OBVIOUS
<1>2. PICK m \in T : \A n \in T : m <= n
  <2> HIDE DEF T
  <2> QED BY <1>1, LeastNumber
<1>3. ASSUME m # 0, m - 1 \in P PROVE FALSE
  <2>1. m - 1 \in 0 .. B
    BY <1>3
  <2>2. m - 1 \in T
    BY <1>3, <2>1
  <2> QED BY <1>2, <2>2
<1> QED BY <1>2, <1>3

(* The scaling exponents are there, and no larger than they need to be.     *)
Positive == [num : Nat \ {0}, den : Nat \ {0}]

LEMMA DoublingsFacts ==
  ASSUME NEW x \in Positive, NEW bits \in Nat \ {0}
  PROVE  /\ Doublings(x, bits) \in Nat
         /\ x.num * Two[Doublings(x, bits)] >= Two[bits - 1] * x.den
         /\ \/ Doublings(x, bits) = 0
            \/ /\ Doublings(x, bits) - 1 \in Nat
               /\ x.num * Two[Doublings(x, bits) - 1] < Two[bits - 1] * x.den
<1> DEFINE enough(k) == x.num * Two[k] >= Two[bits - 1] * x.den
           P == {k \in Nat : enough(k)}
           B == bits + x.den
<1>1. x.num \in Nat \ {0} /\ x.den \in Nat \ {0} /\ B \in Nat /\ bits - 1 \in Nat
  BY DEF Positive
<1>2. B \in P
  <2>1. x.den + 1 \in Nat /\ B = (bits - 1) + (x.den + 1)
    BY <1>1
  <2>2. Two[B] = Two[bits - 1] * Two[x.den + 1]
    BY <1>1, <2>1, TwoSum
  <2>3. Two[bits - 1] \in Nat /\ Two[x.den + 1] \in Nat /\ x.den <= Two[x.den + 1] /\ Two[B] \in Nat
    BY <1>1, <2>1, TwoType
  <2>4. Two[bits - 1] * x.den <= Two[bits - 1] * Two[x.den + 1]
    BY <1>1, <2>3, TimesKeeps
  <2>5. Two[B] <= Two[B] * x.num /\ Two[B] * x.num = x.num * Two[B]
    BY <1>1, <2>3, Multiplied
  <2>6. enough(B)
    BY <1>1, <2>2, <2>3, <2>4, <2>5
  <2> QED BY <1>1, <2>6
<1>3. \E k \in 0 .. B : k \in P /\ (k = 0 \/ k - 1 \notin P)
  <2> HIDE DEF P, B
  <2> QED BY <1>1, <1>2, FirstOne
<1>4. \E k \in 0 .. B : enough(k) /\ (k = 0 \/ ~enough(k - 1))
  <2>1. \A k \in 0 .. B : k # 0 => k - 1 \in Nat
    BY <1>1
  <2> HIDE DEF enough
  <2> QED BY <1>3, <2>1
<1> DEFINE up == CHOOSE k \in 0 .. B : enough(k) /\ (k = 0 \/ ~enough(k - 1))
<1>5. up \in 0 .. B /\ enough(up) /\ (up = 0 \/ ~enough(up - 1))
  <2> HIDE DEF enough
  <2> QED BY <1>4
<1>6. Doublings(x, bits) = up
  BY DEF Doublings
<1> HIDE DEF up
<1>7. up \in Nat /\ (up # 0 => up - 1 \in Nat)
  BY <1>1, <1>5
<1>8. up # 0 => /\ x.num * Two[up - 1] \in Nat
                /\ Two[bits - 1] * x.den \in Nat
  BY <1>1, <1>7, TwoType
<1> QED BY <1>5, <1>6, <1>7, <1>8

(* The same of the other exponent.                                          *)
LEMMA HalvingsFacts ==
  ASSUME NEW x \in Positive, NEW bits \in Nat \ {0}
  PROVE  /\ Halvings(x, bits) \in Nat
         /\ \/ Halvings(x, bits) = 0
            \/ /\ Halvings(x, bits) - 1 \in Nat
               /\ x.num >= Two[bits] * Two[Halvings(x, bits) - 1] * x.den
<1> DEFINE enough(k) == x.num < Two[bits] * Two[k] * x.den
           P == {k \in Nat : enough(k)}
           B == x.num
<1>1. x.num \in Nat \ {0} /\ x.den \in Nat \ {0} /\ B \in Nat
  BY DEF Positive
<1>2. B \in P
  <2>1. Two[bits] \in Nat \ {0} /\ Two[B] \in Nat \ {0} /\ x.num < Two[B]
    BY <1>1, TwoType
  <2>2. Two[B] <= Two[B] * Two[bits] /\ Two[B] * Two[bits] = Two[bits] * Two[B]
    BY <2>1, Multiplied
  <2>3. Two[bits] * Two[B] \in Nat
    BY <2>1
  <2>4. Two[bits] * Two[B] <= (Two[bits] * Two[B]) * x.den
    BY <1>1, <2>3, Multiplied
  <2>5. enough(B)
    BY <1>1, <2>1, <2>2, <2>3, <2>4
  <2> QED BY <1>1, <2>5
<1>3. \E k \in 0 .. B : k \in P /\ (k = 0 \/ k - 1 \notin P)
  <2> HIDE DEF P, B
  <2> QED BY <1>1, <1>2, FirstOne
<1>4. \E k \in 0 .. B : enough(k) /\ (k = 0 \/ ~enough(k - 1))
  <2>1. \A k \in 0 .. B : k # 0 => k - 1 \in Nat
    BY <1>1
  <2> HIDE DEF enough
  <2> QED BY <1>3, <2>1
<1> DEFINE down == CHOOSE k \in 0 .. B : enough(k) /\ (k = 0 \/ ~enough(k - 1))
<1>5. down \in 0 .. B /\ (down = 0 \/ ~enough(down - 1))
  <2> HIDE DEF enough
  <2> QED BY <1>4
<1>6. Halvings(x, bits) = down
  BY DEF Halvings
<1> HIDE DEF down
<1>7. down \in Nat /\ (down # 0 => down - 1 \in Nat)
  BY <1>1, <1>5
<1>8. down # 0 => Two[bits] * Two[down - 1] * x.den \in Nat
  BY <1>1, <1>7, TwoType
<1> QED BY <1>1, <1>5, <1>6, <1>7, <1>8

(* The nearest integer is half a divisor away at most, and not below an     *)
(* integer the quotient reaches.                                            *)
LEMMA NearestIntFacts ==
  ASSUME NEW n \in Nat, NEW d \in Nat \ {0}
  PROVE  /\ NearestInt(n, d) \in Nat
         /\ 2 * (NearestInt(n, d) * d) <= 2 * n + d
         /\ 2 * n <= 2 * (NearestInt(n, d) * d) + d
         /\ n \div d <= NearestInt(n, d)
<1> DEFINE low == n \div d
           rest == n % d
           q == NearestInt(n, d)
<1>1. low \in Nat /\ rest \in Nat /\ rest < d /\ n = low * d + rest
  BY DivMod
<1>2. \/ q = low /\ 2 * rest <= d
      \/ q = low + 1 /\ d <= 2 * rest
  <2> HIDE DEF low
  <2> QED BY <1>1 DEF NearestInt
<1>3. low * d \in Nat /\ (low + 1) * d = low * d + d
  BY <1>1
<1> HIDE DEF low, rest, q
<1>4. ASSUME q = low, 2 * rest <= d
      PROVE  q \in Nat /\ 2 * (q * d) <= 2 * n + d /\ 2 * n <= 2 * (q * d) + d /\ low <= q
  BY <1>1, <1>3, <1>4
<1>5. ASSUME q = low + 1, d <= 2 * rest
      PROVE  q \in Nat /\ 2 * (q * d) <= 2 * n + d /\ 2 * n <= 2 * (q * d) + d /\ low <= q
  BY <1>1, <1>3, <1>5
<1>6. q \in Nat /\ 2 * (q * d) <= 2 * n + d /\ 2 * n <= 2 * (q * d) + d /\ low <= q
  BY <1>2, <1>4, <1>5
<1> QED BY <1>6 DEF q, low

(* A rounded number is off by one part in 2^bits at most, is not 0, and not *)
(* below 1 if it was not.                                                   *)
LEMMA NearestFacts ==
  ASSUME NEW x \in Positive, NEW bits \in Nat \ {0}
  PROVE  LET r == Nearest(x, bits)
             S == Two[bits]
         IN  /\ r \in Positive
             /\ S * (r.num * x.den) <= S * (x.num * r.den) + x.num * r.den
             /\ S * (x.num * r.den) <= S * (r.num * x.den) + x.num * r.den
             /\ x.den <= x.num => r.den <= r.num
<1> DEFINE S == Two[bits]
           T == Two[bits - 1]
           up == Doublings(x, bits)
           down == Halvings(x, bits)
           U == Two[up]
           D == Two[down]
           N == x.num * U
           M == x.den * D
           q == NearestInt(N, M)
<1>1. x.num \in Nat \ {0} /\ x.den \in Nat \ {0} /\ bits - 1 \in Nat /\ bits - 1 + 1 = bits
  BY DEF Positive
<1>2. S = 2 * T /\ S \in Nat \ {0} /\ T \in Nat \ {0}
  BY <1>1, TwoSteps, TwoType
<1>3. up \in Nat /\ down \in Nat
  BY DoublingsFacts, HalvingsFacts
<1>4. U \in Nat \ {0} /\ D \in Nat \ {0}
  BY <1>3, TwoType
<1>5. N \in Nat \ {0} /\ M \in Nat \ {0}
  BY <1>1, <1>4
<1>6. T * M <= N
  <2>1. CASE down = 0
    <3>1. D = 1
      BY <2>1, TwoSteps
    <3>2. T * x.den <= N
      BY DoublingsFacts, <1>1, <1>2, <1>5
    <3> QED BY <1>1, <3>1, <3>2
  <2>2. CASE down # 0
    <3>1. down - 1 \in Nat /\ down - 1 + 1 = down /\ x.num >= S * Two[down - 1] * x.den
      BY <2>2, HalvingsFacts
    <3>2. D = 2 * Two[down - 1] /\ Two[down - 1] \in Nat
      BY <3>1, TwoSteps, TwoType
    <3> DEFINE h == Two[down - 1]
    <3>3. S * h * x.den = T * M
      <4>1. (2 * T) * h * x.den = T * (x.den * (2 * h))
        BY <1>1, <1>2, <3>2
      <4> QED BY <1>2, <3>2, <4>1
    <3>4. x.num <= N
      BY <1>1, <1>4, Multiplied
    <3>5. T * M \in Nat
      BY <1>2, <1>5
    <3> HIDE DEF N, M, S, T, h
    <3> QED BY <1>1, <1>5, <3>1, <3>3, <3>4, <3>5 DEF h
  <2> QED BY <2>1, <2>2
<1>7. /\ q \in Nat
      /\ 2 * (q * M) <= 2 * N + M
      /\ 2 * N <= 2 * (q * M) + M
      /\ N \div M <= q
  BY <1>5, NearestIntFacts
<1>8. T <= q
  <2> HIDE DEF N, M, T, q
  <2>1. N \div M \in Nat /\ N < ((N \div M) + 1) * M
    BY <1>5, QuotientBounds
  <2>2. T * M < ((N \div M) + 1) * M
    BY <1>2, <1>5, <1>6, <2>1
  <2>3. T < (N \div M) + 1
    BY <1>2, <1>5, <2>1, <2>2, LessByFactor
  <2> QED BY <1>2, <1>7, <2>1, <2>3
<1>9. q \in Nat \ {0}
  BY <1>2, <1>7, <1>8
<1>10. Nearest(x, bits) = [num |-> q * D, den |-> U]
  BY DEF Nearest, Real
<1>11. q * D \in Nat \ {0}
  BY <1>4, <1>9
<1>12. Nearest(x, bits) \in Positive
  <2> HIDE DEF q, D, U
  <2> QED BY <1>4, <1>10, <1>11 DEF Positive
<1>13. (q * D) * x.den = q * M
  <2> HIDE DEF q, D
  <2> QED BY <1>1, <1>4, <1>9
<1>14. /\ S * (q * M) <= S * N + N
       /\ S * N <= S * (q * M) + N
  <2> HIDE DEF q, N, M, T, S
  <2>1. q * M \in Nat /\ T * M \in Nat /\ T * N \in Nat /\ T * (q * M) \in Nat
    BY <1>2, <1>5, <1>7
  <2>2. /\ T * (2 * (q * M)) <= T * (2 * N + M)
        /\ T * (2 * N) <= T * (2 * (q * M) + M)
    BY <1>2, <1>5, <1>7, <2>1, TimesKeeps
  <2>3. /\ T * (2 * (q * M)) = S * (q * M)
        /\ T * (2 * N + M) = S * N + T * M
        /\ T * (2 * N) = S * N
        /\ T * (2 * (q * M) + M) = S * (q * M) + T * M
    BY <1>2, <1>5, <1>7, <2>1
  <2>4. S * (q * M) \in Nat /\ S * N \in Nat
    BY <1>2, <1>5, <2>1
  <2> QED BY <1>5, <1>6, <2>1, <2>2, <2>3, <2>4
<1>15. ASSUME x.den <= x.num PROVE U <= q * D
  <2>1. up <= bits - 1
    <3>1. SUFFICES ASSUME up - 1 \in Nat, x.num * Two[up - 1] < T * x.den, bits - 1 <= up - 1
                   PROVE  FALSE
      BY <1>1, <1>3, DoublingsFacts
    <3>2. T <= Two[up - 1] /\ Two[up - 1] \in Nat
      BY <1>1, <3>1, TwoGrows, TwoType
    <3> DEFINE V == Two[up - 1]
    <3>3. x.den * T <= x.den * V /\ V * x.den <= V * x.num
      BY <1>1, <1>2, <1>15, <3>2, TimesKeeps
    <3> HIDE DEF V, T
    <3>4. x.den * T \in Nat /\ V * x.den \in Nat /\ V * x.num \in Nat
      BY <1>1, <1>2, <3>2 DEF V
    <3>5. V * x.den = x.den * V /\ x.den * T = T * x.den /\ V * x.num = x.num * V
      BY <1>1, <1>2, <3>2 DEF V
    <3>6. x.num * V < T * x.den
      BY <3>1 DEF V
    <3> QED BY <3>3, <3>4, <3>5, <3>6
  <2>2. U <= T
    BY <1>1, <1>3, <2>1, TwoGrows
  <2>3. q <= q * D
    BY <1>4, <1>7, Multiplied
  <2> HIDE DEF q, U, D, T
  <2>4. q * D \in Nat
    BY <1>4, <1>7
  <2> QED BY <1>2, <1>4, <1>7, <1>8, <2>2, <2>3, <2>4
<1> HIDE DEF q, N, M, D, U
<1>16. Nearest(x, bits).num = q * D /\ Nearest(x, bits).den = U
  BY <1>10
<1>17. x.num * U = N
  BY DEF N
<1> QED BY <1>12, <1>13, <1>14, <1>15, <1>16, <1>17

-----------------------------------------------------------------------------
NotNegative == [num : Nat, den : Nat \ {0}]

(* The same for every number that is not negative.                          *)
LEMMA RoundedFacts ==
  ASSUME NEW x \in NotNegative, NEW bits \in Nat \ {0}
  PROVE  LET r == Rounded(bits)[x]
             S == Two[bits]
         IN  /\ r \in NotNegative
             /\ r.num = 0 <=> x.num = 0
             /\ S * (r.num * x.den) <= S * (x.num * r.den) + x.num * r.den
             /\ S * (x.num * r.den) <= S * (r.num * x.den) + x.num * r.den
             /\ x.den <= x.num => r.den <= r.num
<1>0. Two[bits] \in Nat /\ x \in Reals
  BY TwoType DEF NotNegative, Reals
<1>1. CASE x.num = 0
  <2>1. Rounded(bits)[x] = x
    BY <1>0, <1>1 DEF Rounded
  <2>2. x.den \in Nat \ {0}
    BY DEF NotNegative
  <2> QED BY <1>0, <1>1, <2>1, <2>2
<1>2. CASE x.num # 0
  <2>1. x \in Positive /\ x.num > 0
    BY <1>2 DEF Positive, NotNegative
  <2>2. Rounded(bits)[x] = Nearest(x, bits)
    BY <1>0, <1>2, <2>1 DEF Rounded
  <2>3. Nearest(x, bits) \in Positive
    BY <2>1, NearestFacts
  <2>4. Nearest(x, bits) \in NotNegative /\ Nearest(x, bits).num # 0
    BY <2>3 DEF Positive, NotNegative
  <2> QED BY <1>2, <2>1, <2>2, <2>4, NearestFacts
<1> QED BY <1>1, <1>2

(* Whatever its sign, a number is rounded to a number, and only 0 to 0.     *)
LEMMA RoundedType ==
  ASSUME NEW x \in Reals, NEW bits \in Nat \ {0}
  PROVE  Rounded(bits)[x] \in Reals /\ (Rounded(bits)[x].num = 0 <=> x.num = 0)
<1>1. CASE x.num = 0
  BY <1>1 DEF Rounded
<1>2. CASE x.num > 0
  <2>1. x \in Positive
    BY <1>2 DEF Positive, Reals
  <2>2. Nearest(x, bits) \in Positive
    BY <2>1, NearestFacts
  <2>3. Rounded(bits)[x] = Nearest(x, bits)
    BY <1>2 DEF Rounded, Reals
  <2> QED BY <1>2, <2>2, <2>3 DEF Positive, Reals
<1>3. CASE x.num # 0 /\ ~(x.num > 0)
  <2>0. x.num \in Int /\ x.den \in Nat \ {0}
    BY DEF Reals
  <2>1. Negated(x) \in Positive
    BY <1>3, <2>0 DEF Positive, Negated, Real
  <2>2. Nearest(Negated(x), bits) \in Positive
    BY <2>1, NearestFacts
  <2>3. Rounded(bits)[x] = Negated(Nearest(Negated(x), bits))
    BY <1>3 DEF Rounded
  <2> DEFINE y == Nearest(Negated(x), bits)
  <2>4. y.num \in Nat \ {0} /\ y.den \in Nat \ {0}
    BY <2>2 DEF Positive
  <2> HIDE DEF y
  <2>5. Rounded(bits)[x] = [num |-> -y.num, den |-> y.den]
    BY <2>3 DEF y, Negated, Real
  <2> QED BY <1>3, <2>4, <2>5 DEF Reals
<1> QED BY <1>1, <1>2, <1>3 DEF Reals

-----------------------------------------------------------------------------
(* A common factor may be left out.                                         *)
LEMMA Cancelled ==
  ASSUME NEW d \in Nat \ {0}, NEW a \in Nat, NEW b \in Nat, d * a <= d * b
  PROVE  a <= b
<1>1. SUFFICES ASSUME b < a PROVE FALSE
  OBVIOUS
<1>2. b + 1 <= a /\ b + 1 \in Nat
  BY <1>1
<1>3. d * (b + 1) <= d * a
  BY <1>2, TimesKeeps
<1>4. d * (b + 1) = d * b + d /\ d * b \in Nat /\ d * a \in Nat
  OBVIOUS
<1> QED BY <1>3, <1>4

(* Two quotients, each off by a few parts of g, are together off by their   *)
(* sum and one part more at most.                                           *)
LEMMA ChainAbove ==
  ASSUME NEW g \in Nat \ {0}, NEW j \in Nat, NEW k \in Nat, j * k <= g,
         NEW a \in Nat, NEW b \in Nat, NEW c \in Nat, NEW d \in Nat \ {0},
         NEW e \in Nat, NEW f \in Nat,
         g * (a * d) <= (g + k) * (c * b), g * (c * f) <= (g + j) * (e * d)
  PROVE  g * (a * f) <= (g + j + k + 1) * (e * b)
<1>1. (g * f) * (g * (a * d)) <= (g * f) * ((g + k) * (c * b))
  <2>1. g * f \in Nat /\ g * (a * d) \in Nat /\ (g + k) * (c * b) \in Nat
    OBVIOUS
  <2> QED BY <2>1, TimesKeeps
<1>2. ((g + k) * b) * (g * (c * f)) <= ((g + k) * b) * ((g + j) * (e * d))
  <2>1. (g + k) * b \in Nat /\ g * (c * f) \in Nat /\ (g + j) * (e * d) \in Nat
    OBVIOUS
  <2> QED BY <2>1, TimesKeeps
<1>3. (g + k) * (g + j) <= g * (g + j + k + 1)
  <2>1. (g + k) * (g + j) = g * g + g * j + g * k + j * k
    OBVIOUS
  <2>2. g * (g + j + k + 1) = g * g + g * j + g * k + g
    OBVIOUS
  <2> DEFINE w == g * g + g * j + g * k
  <2>3. w \in Nat /\ j * k \in Nat
    OBVIOUS
  <2>4. (g + k) * (g + j) = w + j * k /\ g * (g + j + k + 1) = w + g
    BY <2>1, <2>2
  <2> HIDE DEF w
  <2> QED BY <2>3, <2>4
<1>4. (e * b) * ((g + k) * (g + j)) <= (e * b) * (g * (g + j + k + 1))
  <2>1. e * b \in Nat /\ (g + k) * (g + j) \in Nat /\ g * (g + j + k + 1) \in Nat
    OBVIOUS
  <2> QED BY <1>3, <2>1, TimesKeeps
<1> DEFINE l == g * (a * f)
           m == (g + j + k + 1) * (e * b)
           n == (e * b) * ((g + k) * (g + j))
<1>5. (g * f) * (g * (a * d)) = d * (g * l)
  OBVIOUS
<1>6. (g * f) * ((g + k) * (c * b)) = ((g + k) * b) * (g * (c * f))
  OBVIOUS
<1>7. ((g + k) * b) * ((g + j) * (e * d)) = d * n
  OBVIOUS
<1>8. (e * b) * (g * (g + j + k + 1)) = g * m
  OBVIOUS
<1>9. l \in Nat /\ m \in Nat /\ n \in Nat /\ g * l \in Nat /\ g * m \in Nat
  OBVIOUS
<1>10. n <= g * m
  BY <1>4, <1>8
<1> HIDE DEF l, m, n
<1>11. d * (g * l) <= d * n
  <2>1. ((g + k) * b) * (g * (c * f)) \in Nat
    OBVIOUS
  <2>2. d * (g * l) \in Nat /\ d * n \in Nat
    BY <1>9
  <2> QED BY <1>1, <1>2, <1>5, <1>6, <1>7, <2>1, <2>2
<1>12. g * l <= n
  BY <1>9, <1>11, Cancelled
<1>13. g * l <= g * m
  BY <1>9, <1>10, <1>12
<1>14. l <= m
  BY <1>9, <1>13, Cancelled
<1> QED BY <1>14 DEF l, m

(* The same from below.                                                     *)
LEMMA ChainBelow ==
  ASSUME NEW g \in Nat \ {0}, NEW j \in Nat, NEW k \in Nat, j + k <= g,
         NEW a \in Nat, NEW b \in Nat, NEW c \in Nat, NEW d \in Nat \ {0},
         NEW e \in Nat, NEW f \in Nat,
         (g - k) * (c * b) <= g * (a * d), (g - j) * (e * d) <= g * (c * f)
  PROVE  (g - (j + k)) * (e * b) <= g * (a * f)
<1>0. PICK p \in Nat, q \in Nat, r \in Nat :
         g - k = p /\ g - j = q /\ g - (j + k) = r /\ g = r + j + k /\ p = r + j /\ q = r + k
  <2>1. g - k \in Nat /\ g - j \in Nat /\ g - (j + k) \in Nat
    OBVIOUS
  <2>2. /\ g = (g - (j + k)) + j + k /\ g - k = (g - (j + k)) + j
        /\ g - j = (g - (j + k)) + k
    OBVIOUS
  <2> QED BY <2>1, <2>2
<1>1. (g * f) * (p * (c * b)) <= (g * f) * (g * (a * d))
  <2>1. g * f \in Nat /\ g * (a * d) \in Nat /\ p * (c * b) \in Nat
    OBVIOUS
  <2> QED BY <1>0, <2>1, TimesKeeps
<1>2. (p * b) * (q * (e * d)) <= (p * b) * (g * (c * f))
  <2>1. p * b \in Nat /\ g * (c * f) \in Nat /\ q * (e * d) \in Nat
    OBVIOUS
  <2> QED BY <1>0, <2>1, TimesKeeps
<1>3. g * r <= p * q
  <2>1. g * r = r * r + r * j + r * k
    BY <1>0
  <2>2. p * q = r * r + r * j + r * k + j * k
    BY <1>0
  <2> DEFINE w == r * r + r * j + r * k
  <2>3. w \in Nat /\ j * k \in Nat
    OBVIOUS
  <2>4. p * q = w + j * k /\ g * r = w
    BY <2>1, <2>2
  <2> HIDE DEF w
  <2> QED BY <2>3, <2>4
<1>4. (e * b) * (g * r) <= (e * b) * (p * q)
  <2>1. e * b \in Nat /\ g * r \in Nat /\ p * q \in Nat
    OBVIOUS
  <2> QED BY <1>3, <2>1, TimesKeeps
<1> DEFINE l == g * (a * f)
           m == r * (e * b)
           n == (e * b) * (p * q)
<1>5. (g * f) * (g * (a * d)) = d * (g * l)
  OBVIOUS
<1>6. (g * f) * (p * (c * b)) = (p * b) * (g * (c * f))
  OBVIOUS
<1>7. (p * b) * (q * (e * d)) = d * n
  OBVIOUS
<1>8. (e * b) * (g * r) = g * m
  OBVIOUS
<1>9. l \in Nat /\ m \in Nat /\ n \in Nat /\ g * l \in Nat /\ g * m \in Nat
  OBVIOUS
<1>10. g * m <= n
  BY <1>4, <1>8
<1> HIDE DEF l, m, n
<1>11. d * n <= d * (g * l)
  <2>1. (p * b) * (g * (c * f)) \in Nat
    OBVIOUS
  <2>2. d * (g * l) \in Nat /\ d * n \in Nat
    BY <1>9
  <2> QED BY <1>1, <1>2, <1>5, <1>6, <1>7, <2>1, <2>2
<1>12. n <= g * l
  BY <1>9, <1>11, Cancelled
<1>13. g * m <= g * l
  BY <1>9, <1>10, <1>12
<1>14. m <= l
  BY <1>9, <1>13, Cancelled
<1> QED BY <1>0, <1>14 DEF l, m

(* r is x but for j parts, of which eight are what a float may be off.      *)
Parts == 8 * Two[FloatBits]
Near(r, x, j) ==
  /\ Parts * (r.num * x.den) <= (Parts + j) * (x.num * r.den)
  /\ (Parts - j) * (x.num * r.den) <= Parts * (r.num * x.den)

(* There are 64 parts at least, and a double is exact to one.               *)
LEMMA PartsFacts ==
  /\ Two[FloatBits] \in Nat \ {0} /\ Parts \in Nat \ {0} /\ 64 <= Parts
  /\ FloatBits \in Nat \ {0} /\ DoubleBits \in Nat \ {0}
  /\ \E c \in Nat \ {0} : Two[DoubleBits] = c * Parts
<1>1. FloatBits \in Nat \ {0} /\ DoubleBits \in Nat \ {0} /\ 3 <= FloatBits
  BY FloatAssumption
<1>2. Two[FloatBits] \in Nat \ {0} /\ Two[3] <= Two[FloatBits]
  BY <1>1, TwoType, TwoGrows
<1>3. Two[3] = 8
  <2>1. Two[0 + 1] = 2 /\ Two[1 + 1] = 4 /\ Two[2 + 1] = 8
    BY TwoSteps
  <2> QED BY <2>1
<1>4. Parts \in Nat \ {0} /\ 64 <= Parts
  BY <1>2, <1>3 DEF Parts
<1>5. PICK m \in Nat : DoubleBits = FloatBits + 3 + m
  <2>1. DoubleBits - FloatBits - 3 \in Nat /\ DoubleBits = FloatBits + 3 + (DoubleBits - FloatBits - 3)
    BY FloatAssumption
  <2> QED BY <2>1
<1>6. Two[DoubleBits] = Two[FloatBits + 3] * Two[m] /\ Two[FloatBits + 3] = Two[FloatBits] * Two[3]
  <2>1. FloatBits + 3 \in Nat
    BY <1>1
  <2> QED BY <1>1, <1>5, <2>1, TwoSum
<1>7. Two[m] \in Nat \ {0} /\ Two[DoubleBits] = Two[m] * Parts
  BY <1>2, <1>3, <1>6, TwoType DEF Parts
<1> QED BY <1>1, <1>2, <1>4, <1>7

(* A double is off by one such part, a float by eight.                      *)
LEMMA DoubleNear ==
  ASSUME NEW x \in NotNegative
  PROVE  /\ Rounded(DoubleBits)[x] \in NotNegative
         /\ Rounded(DoubleBits)[x].num = 0 <=> x.num = 0
         /\ Near(Rounded(DoubleBits)[x], x, 1)
         /\ x.den <= x.num => Rounded(DoubleBits)[x].den <= Rounded(DoubleBits)[x].num
<1> DEFINE r == Rounded(DoubleBits)[x]
           S == Two[DoubleBits]
           A == r.num * x.den
           B == x.num * r.den
<1>1. /\ r \in NotNegative
      /\ r.num = 0 <=> x.num = 0
      /\ S * A <= S * B + B
      /\ S * B <= S * A + B
      /\ x.den <= x.num => r.den <= r.num
  BY PartsFacts, RoundedFacts
<1> HIDE DEF r
<1>2. A \in Nat /\ B \in Nat
  BY <1>1 DEF NotNegative
<1>3. PICK c \in Nat \ {0} : S = c * Parts
  BY PartsFacts
<1> HIDE DEF A, B, S
<1>4. Parts \in Nat \ {0} /\ 1 <= Parts
  BY PartsFacts
<1> DEFINE g == Parts
<1> HIDE DEF g
<1>5. g \in Nat \ {0} /\ S = c * g
  BY <1>3, <1>4 DEF g
<1>6. B <= B * c /\ B * c = c * B
  BY <1>2, Multiplied
<1>7. c * (g * A) <= c * ((g + 1) * B)
  <2>1. S * A = c * (g * A) /\ S * B = c * (g * B) /\ c * ((g + 1) * B) = c * (g * B) + c * B
    BY <1>2, <1>5
  <2>2. c * (g * A) \in Nat /\ c * (g * B) \in Nat /\ c * B \in Nat
    BY <1>2, <1>5
  <2> QED BY <1>1, <1>2, <1>6, <2>1, <2>2
<1>8. c * ((g - 1) * B) <= c * (g * A)
  <2>1. S * A = c * (g * A) /\ S * B = c * (g * B) /\ c * ((g - 1) * B) = c * (g * B) - c * B
    BY <1>2, <1>5
  <2>2. c * (g * A) \in Nat /\ c * (g * B) \in Nat /\ c * B \in Nat
    BY <1>2, <1>5
  <2> QED BY <1>1, <1>2, <1>6, <2>1, <2>2
<1>9. g * A \in Nat /\ (g + 1) * B \in Nat /\ (g - 1) * B \in Nat
  <2>1. g - 1 \in Nat
    BY <1>5
  <2> QED BY <1>2, <1>5, <2>1
<1>10. g * A <= (g + 1) * B /\ (g - 1) * B <= g * A
  BY <1>7, <1>8, <1>9, Cancelled
<1>11. Near(r, x, 1)
  BY <1>10 DEF Near, g, A, B
<1> QED BY <1>1, <1>11 DEF r

LEMMA FloatNear ==
  ASSUME NEW x \in NotNegative
  PROVE  /\ ToFloat(x) \in NotNegative
         /\ ToFloat(x).num = 0 <=> x.num = 0
         /\ Near(ToFloat(x), x, 8)
<1> DEFINE r == ToFloat(x)
           S == Two[FloatBits]
           A == r.num * x.den
           B == x.num * r.den
<1>1. /\ r \in NotNegative
      /\ r.num = 0 <=> x.num = 0
      /\ S * A <= S * B + B
      /\ S * B <= S * A + B
  BY PartsFacts, RoundedFacts DEF ToFloat
<1> HIDE DEF r
<1>2. A \in Nat /\ B \in Nat
  BY <1>1 DEF NotNegative
<1>3. S \in Nat /\ Parts = 8 * S
  BY PartsFacts DEF Parts
<1> HIDE DEF A, B, S
<1>4. S * A \in Nat /\ S * B \in Nat
  BY <1>2, <1>3
<1>5. /\ Parts * A = 8 * (S * A)
      /\ (Parts + 8) * B = 8 * (S * B) + 8 * B
      /\ (Parts - 8) * B = 8 * (S * B) - 8 * B
  BY <1>2, <1>3
<1>6. Parts * A <= (Parts + 8) * B /\ (Parts - 8) * B <= Parts * A
  BY <1>1, <1>2, <1>4, <1>5
<1>7. Near(r, x, 8)
  BY <1>6 DEF Near, A, B
<1> QED BY <1>1, <1>7 DEF r

(* What is near to what is near.                                            *)
LEMMA ChainNear ==
  ASSUME NEW s \in NotNegative, NEW r \in NotNegative, NEW x \in NotNegative,
         NEW j \in Nat, NEW k \in Nat, j * k <= Parts, j + k + 1 <= Parts,
         Near(s, r, k), Near(r, x, j)
  PROVE  Near(s, x, j + k + 1)
<1>1. /\ s.num \in Nat /\ s.den \in Nat /\ r.num \in Nat /\ r.den \in Nat \ {0}
      /\ x.num \in Nat /\ x.den \in Nat /\ Parts \in Nat \ {0}
  BY PartsFacts DEF NotNegative
<1>2. Parts * (s.num * x.den) <= (Parts + j + k + 1) * (x.num * s.den)
  BY <1>1, ChainAbove DEF Near
<1>3. (Parts - (j + k)) * (x.num * s.den) <= Parts * (s.num * x.den)
  <2>1. j + k <= Parts
    BY <1>1
  <2>2. /\ (Parts - k) * (r.num * s.den) <= Parts * (s.num * r.den)
        /\ (Parts - j) * (x.num * r.den) <= Parts * (r.num * x.den)
    BY DEF Near
  <2> QED BY <1>1, <2>1, <2>2, ChainBelow
<1>4. Parts + j + k + 1 = Parts + (j + k + 1)
  BY <1>1
<1>5. (Parts - (j + k + 1)) * (x.num * s.den) <= (Parts - (j + k)) * (x.num * s.den)
  <2> DEFINE b == x.num * s.den
             p == Parts - (j + k + 1)
  <2>1. b \in Nat /\ p \in Nat /\ Parts - (j + k) = p + 1
    BY <1>1
  <2> HIDE DEF b, p
  <2>2. p * b \in Nat /\ (p + 1) * b = p * b + b
    BY <2>1
  <2>3. p * b <= (p + 1) * b
    BY <2>1, <2>2
  <2>4. p * b <= (Parts - (j + k)) * b
    BY <2>1, <2>3
  <2> QED BY <2>4 DEF b, p
<1>6. /\ (Parts - (j + k + 1)) * (x.num * s.den) \in Int
      /\ (Parts - (j + k)) * (x.num * s.den) \in Int
      /\ Parts * (s.num * x.den) \in Int
  BY <1>1
<1>7. (Parts - (j + k + 1)) * (x.num * s.den) <= Parts * (s.num * x.den)
  BY <1>3, <1>5, <1>6
<1> QED BY <1>2, <1>4, <1>7 DEF Near

(* The same factor on both sides.                                           *)
LEMMA ScaleNear ==
  ASSUME NEW r \in NotNegative, NEW x \in NotNegative, NEW j \in Nat, Near(r, x, j),
         NEW a \in Nat, NEW b \in Nat \ {0}, j <= Parts
  PROVE  /\ Real(a * r.num, b * r.den) \in NotNegative
         /\ Real(a * x.num, b * x.den) \in NotNegative
         /\ Near(Real(a * r.num, b * r.den), Real(a * x.num, b * x.den), j)
<1>1. /\ r.num \in Nat /\ r.den \in Nat \ {0}
      /\ x.num \in Nat /\ x.den \in Nat \ {0} /\ Parts \in Nat \ {0}
  BY PartsFacts DEF NotNegative
<1>2. a * r.num \in Nat /\ b * r.den \in Nat \ {0} /\ a * x.num \in Nat /\ b * x.den \in Nat \ {0}
  BY <1>1
<1> DEFINE A == r.num * x.den
           B == x.num * r.den
           t == a * b
<1>3. A \in Nat /\ B \in Nat /\ t \in Nat
  BY <1>1
<1>4. (a * r.num) * (b * x.den) = t * A /\ (a * x.num) * (b * r.den) = t * B
  BY <1>1
<1>5. Parts * A <= (Parts + j) * B /\ (Parts - j) * B <= Parts * A
  BY DEF Near
<1> HIDE DEF A, B, t
<1>6. t * (Parts * A) <= t * ((Parts + j) * B) /\ t * ((Parts - j) * B) <= t * (Parts * A)
  <2>1. Parts * A \in Nat /\ (Parts + j) * B \in Nat /\ Parts - j \in Nat /\ (Parts - j) * B \in Nat
    BY <1>1, <1>3
  <2> QED BY <1>3, <1>5, <2>1, TimesKeeps
<1>7. /\ t * (Parts * A) = Parts * (t * A)
      /\ t * ((Parts + j) * B) = (Parts + j) * (t * B)
      /\ t * ((Parts - j) * B) = (Parts - j) * (t * B)
  <2>1. Parts \in Int
    BY <1>1
  <2> QED BY <1>3, <2>1
<1>8. Parts * (t * A) <= (Parts + j) * (t * B) /\ (Parts - j) * (t * B) <= Parts * (t * A)
  BY <1>6, <1>7
<1>9. /\ Real(a * r.num, b * r.den).num = a * r.num /\ Real(a * r.num, b * r.den).den = b * r.den
      /\ Real(a * x.num, b * x.den).num = a * x.num /\ Real(a * x.num, b * x.den).den = b * x.den
  BY DEF Real
<1>10. Near(Real(a * r.num, b * r.den), Real(a * x.num, b * x.den), j)
  BY <1>4, <1>8, <1>9 DEF Near
<1> QED BY <1>2, <1>10 DEF Real, NotNegative

(* One over both sides: ten parts become twelve at most.                    *)
LEMMA InverseNear ==
  ASSUME NEW r \in Positive, NEW x \in Positive, Near(r, x, 10)
  PROVE  /\ Reciprocal(r) \in NotNegative /\ Reciprocal(x) \in NotNegative
         /\ Reciprocal(r) = Real(r.den, r.num) /\ Reciprocal(x) = Real(x.den, x.num)
         /\ Near(Reciprocal(r), Reciprocal(x), 12)
<1>1. /\ r.num \in Nat \ {0} /\ r.den \in Nat \ {0}
      /\ x.num \in Nat \ {0} /\ x.den \in Nat \ {0}
  BY DEF Positive
<1>2. Reciprocal(r) = Real(r.den, r.num) /\ Reciprocal(x) = Real(x.den, x.num)
  BY <1>1 DEF Reciprocal
<1>3. Reciprocal(r) \in NotNegative /\ Reciprocal(x) \in NotNegative
  BY <1>1, <1>2 DEF Real, NotNegative
<1> DEFINE A == r.num * x.den
           B == x.num * r.den
<1>4. A \in Nat /\ B \in Nat /\ r.den * x.num = B /\ x.den * r.num = A
  BY <1>1
<1>5. Parts * A <= (Parts + 10) * B /\ (Parts - 10) * B <= Parts * A
  BY DEF Near
<1> HIDE DEF A, B
<1>6. PICK m \in Nat : Parts = 64 + m
  <2>1. Parts - 64 \in Nat /\ Parts = 64 + (Parts - 64)
    BY PartsFacts
  <2> QED BY <2>1
<1>7. Parts * B <= (Parts + 12) * A
  <2> DEFINE p == (4096 + 128 * m + m * m) * A
             d == (8 + 2 * m) * A
  <2>1. Parts * (54 * B + m * B) <= Parts * (64 * A + m * A)
    <3>1. (Parts - 10) * B = 54 * B + m * B /\ Parts * A = 64 * A + m * A
      BY <1>4, <1>6
    <3>2. 54 * B + m * B \in Nat /\ 64 * A + m * A \in Nat /\ Parts \in Nat
      BY <1>4, <1>6
    <3> QED BY <1>5, <3>1, <3>2, TimesKeeps
  <2>2. Parts * (54 * B + m * B) = (54 + m) * (Parts * B)
    BY <1>4, <1>6
  <2>3. Parts * (64 * A + m * A) = p
    BY <1>4, <1>6
  <2>4. (54 + m) * ((Parts + 12) * A) = (4104 + 130 * m + m * m) * A
    BY <1>4, <1>6
  <2>5. (4104 + 130 * m + m * m) * A = p + d
    BY <1>4
  <2>6. d \in Nat /\ p \in Nat
    BY <1>4
  <2>7. (54 + m) * (Parts * B) <= (54 + m) * ((Parts + 12) * A)
    <3> HIDE DEF p, d
    <3>1. (54 + m) * (Parts * B) <= p
      BY <2>1, <2>2, <2>3
    <3>2. (54 + m) * ((Parts + 12) * A) = p + d
      BY <2>4, <2>5
    <3>3. (54 + m) * (Parts * B) \in Nat
      BY <1>4, <1>6
    <3> QED BY <2>6, <3>1, <3>2, <3>3
  <2>8. 54 + m \in Nat \ {0} /\ Parts * B \in Nat /\ (Parts + 12) * A \in Nat
    BY <1>4, <1>6
  <2> QED BY <2>7, <2>8, Cancelled
<1>8. (Parts - 12) * A <= Parts * B
  <2> DEFINE p == (3848 + 126 * m + m * m) * B
             d == (248 + 2 * m) * B
  <2>1. (52 + m) * (Parts * A) <= (52 + m) * ((Parts + 10) * B)
    <3>1. Parts * A \in Nat /\ (Parts + 10) * B \in Nat /\ 52 + m \in Nat
      BY <1>4, <1>6
    <3> QED BY <1>5, <3>1, TimesKeeps
  <2>2. (52 + m) * (Parts * A) = Parts * ((Parts - 12) * A)
    BY <1>4, <1>6
  <2>3. (52 + m) * ((Parts + 10) * B) = p
    BY <1>4, <1>6
  <2>4. Parts * (Parts * B) = (4096 + 128 * m + m * m) * B
    BY <1>4, <1>6
  <2>5. (4096 + 128 * m + m * m) * B = p + d
    BY <1>4
  <2>6. d \in Nat /\ p \in Nat
    BY <1>4
  <2>7. Parts * ((Parts - 12) * A) <= Parts * (Parts * B)
    <3> HIDE DEF p, d
    <3>1. Parts * ((Parts - 12) * A) <= p
      BY <2>1, <2>2, <2>3
    <3>2. Parts * (Parts * B) = p + d
      BY <2>4, <2>5
    <3>3. Parts * ((Parts - 12) * A) \in Int
      BY <1>4, <1>6
    <3> QED BY <2>6, <3>1, <3>2, <3>3
  <2>8. Parts \in Nat \ {0} /\ (Parts - 12) * A \in Nat /\ Parts * B \in Nat
    <3>1. Parts - 12 \in Nat
      BY <1>6
    <3> QED BY <1>4, <1>6, <3>1
  <2> QED BY <2>7, <2>8, Cancelled
<1>9. /\ Reciprocal(r).num = r.den /\ Reciprocal(r).den = r.num
      /\ Reciprocal(x).num = x.den /\ Reciprocal(x).den = x.num
  BY <1>2 DEF Real
<1>10. Near(Reciprocal(r), Reciprocal(x), 12)
  BY <1>4, <1>7, <1>8, <1>9 DEF Near
<1> QED BY <1>2, <1>3, <1>10

(* The same number with another denominator, and more parts.                *)
LEMMA SameNear ==
  ASSUME NEW r \in NotNegative, NEW x \in NotNegative, NEW j \in Nat, j <= Parts, Near(r, x, j),
         NEW c \in Nat \ {0}
  PROVE  Near(r, Real(c * x.num, c * x.den), j)
<1>1. /\ r.num \in Nat /\ r.den \in Nat \ {0}
      /\ x.num \in Nat /\ x.den \in Nat \ {0} /\ Parts \in Nat \ {0}
  BY PartsFacts DEF NotNegative
<1> DEFINE A == r.num * x.den
           B == x.num * r.den
<1>2. A \in Nat /\ B \in Nat /\ Parts - j \in Nat
  BY <1>1
<1>3. Parts * A <= (Parts + j) * B /\ (Parts - j) * B <= Parts * A
  BY DEF Near
<1>4. r.num * (c * x.den) = c * A /\ (c * x.num) * r.den = c * B
  BY <1>1
<1> HIDE DEF A, B
<1>5. c * (Parts * A) <= c * ((Parts + j) * B) /\ c * ((Parts - j) * B) <= c * (Parts * A)
  <2>1. Parts * A \in Nat /\ (Parts + j) * B \in Nat /\ (Parts - j) * B \in Nat
    BY <1>1, <1>2
  <2> QED BY <1>3, <2>1, TimesKeeps
<1>6. /\ c * (Parts * A) = Parts * (c * A)
      /\ c * ((Parts + j) * B) = (Parts + j) * (c * B)
      /\ c * ((Parts - j) * B) = (Parts - j) * (c * B)
  BY <1>1, <1>2
<1>7. Parts * (c * A) <= (Parts + j) * (c * B) /\ (Parts - j) * (c * B) <= Parts * (c * A)
  BY <1>5, <1>6
<1>8. Real(c * x.num, c * x.den).num = c * x.num /\ Real(c * x.num, c * x.den).den = c * x.den
  BY DEF Real
<1> QED BY <1>4, <1>7, <1>8 DEF Near

(* What is near within some parts is near within more.                      *)
LEMMA WiderNear ==
  ASSUME NEW r \in NotNegative, NEW x \in NotNegative, NEW j \in Nat, NEW k \in Nat,
         j <= k, k <= Parts, Near(r, x, j)
  PROVE  Near(r, x, k)
<1> DEFINE A == r.num * x.den
           B == x.num * r.den
<1>1. A \in Nat /\ B \in Nat /\ Parts \in Nat
  <2>1. /\ r.num \in Nat /\ r.den \in Nat /\ x.num \in Nat /\ x.den \in Nat
    BY DEF NotNegative
  <2> QED BY <2>1, PartsFacts
<1>2. Parts * A <= (Parts + j) * B /\ (Parts - j) * B <= Parts * A
  BY DEF Near
<1>3. PICK m \in Nat : k = j + m
  <2>1. k - j \in Nat /\ k = j + (k - j)
    OBVIOUS
  <2> QED BY <2>1
<1> HIDE DEF A, B
<1>4. (Parts + k) * B = (Parts + j) * B + m * B /\ (Parts - k) * B = (Parts - j) * B - m * B
  BY <1>1, <1>3
<1>5. m * B \in Nat /\ (Parts + j) * B \in Int /\ (Parts - j) * B \in Int /\ Parts * A \in Int
  BY <1>1, <1>3
<1>6. Parts * A <= (Parts + k) * B /\ (Parts - k) * B <= Parts * A
  BY <1>2, <1>4, <1>5
<1> QED BY <1>6 DEF Near, A, B

(* The whole part of such a number times a word.                            *)
LEMMA Floored ==
  ASSUME NEW g \in Nat \ {0}, 16 <= g, NEW D \in Nat \ {0}, NEW W \in Nat \ {0}, NEW p \in Nat,
         NEW sn \in Nat, NEW sd \in Nat \ {0},
         g * (sn * D) <= (g + 16) * (p * sd), (g - 16) * (p * sd) <= g * (sn * D)
  PROVE  LET t == (sn * W) \div sd
         IN  /\ t \in Nat
             /\ g * t * D <= (g + 16) * p * W
             /\ (g - 16) * p * W < g * (t + 1) * D
<1> DEFINE t == (sn * W) \div sd
<1>1. sn * W \in Nat
  OBVIOUS
<1>2. t \in Nat /\ t * sd <= sn * W /\ sn * W < (t + 1) * sd
  BY <1>1, QuotientBounds
<1> HIDE DEF t
<1>3. g * t * D <= (g + 16) * p * W
  <2>1. (g * D) * (t * sd) <= (g * D) * (sn * W)
    <3>1. g * D \in Nat /\ t * sd \in Nat
      BY <1>2
    <3> QED BY <1>1, <1>2, <3>1, TimesKeeps
  <2>2. W * (g * (sn * D)) <= W * ((g + 16) * (p * sd))
    <3>1. g * (sn * D) \in Nat /\ (g + 16) * (p * sd) \in Nat
      OBVIOUS
    <3> QED BY <3>1, TimesKeeps
  <2>3. /\ (g * D) * (t * sd) = sd * (g * t * D)
        /\ (g * D) * (sn * W) = W * (g * (sn * D))
        /\ W * ((g + 16) * (p * sd)) = sd * ((g + 16) * p * W)
    BY <1>2
  <2>4. g * t * D \in Nat /\ (g + 16) * p * W \in Nat /\ W * (g * (sn * D)) \in Nat
    BY <1>2
  <2>5. sd * (g * t * D) <= sd * ((g + 16) * p * W)
    <3> DEFINE u == g * t * D
               v == (g + 16) * p * W
               w == W * (g * (sn * D))
    <3>1. sd * u <= w /\ w <= sd * v
      BY <2>1, <2>2, <2>3
    <3>2. u \in Nat /\ v \in Nat /\ w \in Nat
      BY <2>4
    <3> HIDE DEF u, v, w
    <3>3. sd * u \in Nat /\ sd * v \in Nat
      BY <3>2
    <3>4. sd * u <= sd * v
      BY <3>1, <3>2, <3>3
    <3> QED BY <3>4 DEF u, v
  <2> QED BY <2>4, <2>5, Cancelled
<1>4. (g - 16) * p * W < g * (t + 1) * D
  <2>0. g - 16 \in Nat
    OBVIOUS
  <2>1. (g * D) * (sn * W + 1) <= (g * D) * ((t + 1) * sd)
    <3>1. g * D \in Nat /\ (t + 1) * sd \in Nat /\ sn * W + 1 <= (t + 1) * sd /\ sn * W + 1 \in Nat
      BY <1>1, <1>2
    <3> QED BY <3>1, TimesKeeps
  <2>2. W * ((g - 16) * (p * sd)) <= W * (g * (sn * D))
    <3>1. g * (sn * D) \in Nat /\ (g - 16) * (p * sd) \in Nat
      BY <2>0
    <3> QED BY <3>1, TimesKeeps
  <2> DEFINE u == (g - 16) * p * W
             v == g * (t + 1) * D
             w == W * (g * (sn * D))
             e == g * D
  <2>3. /\ (g * D) * ((t + 1) * sd) = v * sd
        /\ (g * D) * (sn * W + 1) = w + e
        /\ W * ((g - 16) * (p * sd)) = u * sd
    BY <1>2, <2>0
  <2>4. u \in Nat /\ v \in Nat /\ w \in Nat /\ e \in Nat \ {0}
    BY <1>2, <2>0
  <2>5. w + e <= v * sd /\ u * sd <= w
    BY <2>1, <2>2, <2>3
  <2> HIDE DEF u, v, w, e
  <2>6. u * sd \in Nat /\ v * sd \in Nat
    BY <2>4
  <2>7. u * sd < v * sd
    BY <2>4, <2>5, <2>6
  <2>8. u < v
    BY <2>4, <2>7, LessByFactor
  <2> QED BY <2>8 DEF u, v
<1> QED BY <1>2, <1>3, <1>4 DEF t

-----------------------------------------------------------------------------
(* The conversion towards zero of a quotient is an integer.                 *)
LEMMA TruncType ==
  ASSUME NEW n \in Int, NEW d \in Nat \ {0}
  PROVE  Trunc(n, d) \in Int
BY DEF Trunc

(* Whatever the build makes of a conversion out of range, it is a word.     *)
LEMMA FloatToUlongType ==
  ASSUME NEW n \in Int, NEW d \in Nat \ {0}
  PROVE  FloatToUlong(n, d) \subseteq Ulong /\ FloatToUlong(n, d) # {}
<1>1. Trunc(n, d) \in Int
  BY TruncType
<1>2. \A t \in Int : t % Word \in Ulong
  BY ConfigAssumption DEF Ulong
<1>3. 0 \in Ulong /\ Word - 1 \in Ulong
  BY ConfigAssumption DEF Ulong
<1> QED BY <1>1, <1>2, <1>3 DEF FloatToUlong

(* A quotient that fits the word is converted to it.                        *)
LEMMA FloatToUlongInRange ==
  ASSUME NEW n \in Nat, NEW d \in Nat \ {0}, n < Word * d
  PROVE  FloatToUlong(n, d) = {n \div d}
<1>1. n \div d \in Nat /\ (n \div d) * d <= n
  BY QuotientBounds
<1>2. (n \div d) * d < Word * d
  <2>1. (n \div d) * d \in Nat /\ Word * d \in Nat
    BY <1>1, ConfigAssumption
  <2> QED BY <1>1, <2>1
<1>3. n \div d < Word
  BY <1>1, <1>2, LessByFactor, ConfigAssumption
<1>4. Trunc(n, d) = n \div d
  BY DEF Trunc
<1> QED BY <1>1, <1>3, <1>4, ConfigAssumption DEF FloatToUlong, Ulong

(* A number below the modulus is its own remainder.                         *)
LEMMA SmallModulo ==
  ASSUME NEW i \in Nat, NEW m \in Nat, i < m
  PROVE  i % m = i
OBVIOUS

(* A count of fewer than 2^31 goes through an int unchanged, and one of     *)
(* fewer than 2^64 into the word.                                           *)
LEMMA CountFits ==
  ASSUME NEW i \in Nat
  PROVE  /\ i \in Ulong => ToUlong(i) = i
         /\ i <= IntMod \div 2 - 1 => ToInt(i) = i
<1>1. i \in Ulong => ToUlong(i) = i
  BY SmallModulo, ConfigAssumption DEF Ulong, ToUlong
<1>2. ASSUME i <= IntMod \div 2 - 1
      PROVE  ToInt(i) = i
  <2> DEFINE half == IntMod \div 2
  <2>1. half \in Nat /\ half + half <= IntMod
    BY ConfigAssumption
  <2>2. i + half \in Nat /\ i + half < IntMod
    BY <1>2, <2>1, ConfigAssumption
  <2>3. (i + half) % IntMod = i + half
    BY <2>2, SmallModulo, ConfigAssumption
  <2> QED BY <2>1, <2>3 DEF ToInt
<1> QED BY <1>1, <1>2

(* The ends of a long.                                                      *)
LEMMA LongFacts ==
  /\ LongMax \in Nat \ {0} /\ LongMin \in Int /\ LongMin < 0
  /\ 2 * (LongMax + 1) = Word
<1>1. PICK k \in 2 .. Word : Word = Two[k]
  BY FloatAssumption
<1>2. k - 1 \in Nat /\ k - 1 + 1 = k /\ k - 2 \in Nat /\ k - 2 + 1 = k - 1
  BY <1>1, ConfigAssumption
<1>3. Word = 2 * Two[k - 1] /\ Two[k - 1] = 2 * Two[k - 2] /\ Two[k - 2] \in Nat \ {0}
  BY <1>1, <1>2, TwoSteps, TwoType
<1>4. Word \div 2 = Two[k - 1] /\ Two[k - 1] \in Nat /\ Two[k - 1] >= 2
  BY <1>3
<1> QED BY <1>3, <1>4 DEF LongMax, LongMin

(* Every number of a document is read as a number, as an integer and as a   *)
(* float, and 0 is 0.                                                       *)
LEMMA ReadType ==
  ASSUME NEW v \in Value
  PROVE  /\ GetFloat(v) \in Reals
         /\ GetInteger(v) \in SUBSET Int /\ GetInteger(v) # {}
         /\ GetFloat(v).num = 0 => GetInteger(v) = {0}
<1>0. v.num \in Int /\ Den \in Nat \ {0} /\ DoubleBits \in Nat \ {0}
  BY ConfigAssumption, PartsFacts DEF Value
<1>1. CASE v.type = "fixed_number"
  <2> DEFINE i == v.num \div Den
  <2>1. i \in Int
    BY <1>0
  <2> HIDE DEF i
  <2>2. ReadFixed(v) \in Int
    BY <2>1, LongFacts DEF ReadFixed, i
  <2> DEFINE x == Real(ReadFixed(v), 1)
  <2>3. x \in Reals /\ x.num = ReadFixed(v)
    BY <2>2 DEF Real, Reals
  <2> HIDE DEF x
  <2>4. Rounded(DoubleBits)[x] \in Reals /\ (Rounded(DoubleBits)[x].num = 0 <=> x.num = 0)
    BY <1>0, <2>3, RoundedType
  <2>5. GetFloat(v) = Rounded(DoubleBits)[x] /\ GetInteger(v) = {ReadFixed(v)}
    BY <1>1 DEF GetFloat, GetInteger, x
  <2> QED BY <2>2, <2>3, <2>4, <2>5
<1>2. CASE v.type = "number"
  <2> DEFINE x == Real(v.num, Den)
             r == Rounded(DoubleBits)[x]
  <2>1. x \in Reals
    BY <1>0 DEF Real, Reals
  <2>2. r \in Reals
    <3> HIDE DEF x
    <3> QED BY <1>0, <2>1, RoundedType
  <2>3. GetFloat(v) = r /\ GetInteger(v) = FloatToLong(r)
    BY <1>2 DEF GetFloat, GetInteger, ReadFloat
  <2> HIDE DEF r
  <2>4. r.num \in Int /\ r.den \in Nat \ {0}
    BY <2>2 DEF Reals
  <2>5. Trunc(r.num, r.den) \in Int
    BY <2>4, TruncType
  <2>6. FloatToLong(r) \in SUBSET Int /\ FloatToLong(r) # {}
    BY <2>5, LongFacts DEF FloatToLong
  <2>7. ASSUME r.num = 0 PROVE FloatToLong(r) = {0}
    <3>1. Trunc(r.num, r.den) = 0
      BY <2>4, <2>7 DEF Trunc
    <3> QED BY <3>1, LongFacts DEF FloatToLong
  <2> QED BY <2>2, <2>3, <2>6, <2>7
<1>3. CASE v.type # "fixed_number" /\ v.type # "number"
  BY <1>3 DEF GetFloat, GetInteger, Real, Reals
<1> QED BY <1>1, <1>2, <1>3

(* A percentage becomes a word.                                             *)
LEMMA PercentType ==
  ASSUME NEW v \in Value
  PROVE  Percent(v) \subseteq Ulong /\ Percent(v) # {}
<1> DEFINE y == GetFloat(v)
           f == ToFloat(y)
           x == Real(f.num, 100 * f.den)
           share == Rounded(DoubleBits)[x]
<1>1. y \in Reals
  BY ReadType
<1>2. f \in Reals
  <2> HIDE DEF y
  <2> QED BY <1>1, RoundedType, PartsFacts DEF ToFloat
<1>3. x \in Reals
  <2> HIDE DEF f
  <2> QED BY <1>2 DEF Reals, Real
<1>4. share \in Reals
  <2> HIDE DEF x
  <2> QED BY <1>3, RoundedType, PartsFacts
<1>5. Percent(v) = FloatToUlong(share.num * Word, share.den)
  BY DEF Percent, PercentToLong
<1> HIDE DEF share
<1>6. share.num * Word \in Int /\ share.den \in Nat \ {0}
  BY <1>4, ConfigAssumption DEF Reals
<1> QED BY <1>5, <1>6, FloatToUlongType

(* A bandwidth becomes a word.                                              *)
LEMMA NsPerByteType ==
  ASSUME NEW v \in Value
  PROVE  NsPerByte(v) \subseteq Ulong /\ NsPerByte(v) # {}
<1>1. CASE GetInteger(v) = {0}
  BY <1>1, ConfigAssumption DEF NsPerByte, Ulong
<1>2. CASE GetInteger(v) # {0}
  <2> DEFINE kps == ToFloat(GetFloat(v))
             x == Real(kps.num * KiB, kps.den)
             s == Rounded(DoubleBits)[Reciprocal(x)]
             n == Rounded(DoubleBits)[Real(s.num * NsPerS, s.den)]
  <2>1. GetFloat(v) \in Reals /\ GetFloat(v).num # 0
    BY <1>2, ReadType
  <2>2. kps \in Reals /\ kps.num # 0
    BY <2>1, RoundedType, PartsFacts DEF ToFloat
  <2>3. x \in Reals /\ x.num # 0
    <3> HIDE DEF kps
    <3>1. kps.num \in Int /\ kps.den \in Nat \ {0}
      BY <2>2 DEF Reals
    <3>2. kps.num * KiB \in Int /\ kps.num * KiB # 0
      BY <2>2, <3>1, ConfigAssumption
    <3> QED BY <3>1, <3>2 DEF Reals, Real
  <2>4. Reciprocal(x) \in Reals
    <3> HIDE DEF x
    <3>1. x.num \in Int /\ x.den \in Nat \ {0}
      BY <2>3 DEF Reals
    <3>2. CASE x.num > 0
      BY <3>1, <3>2 DEF Reciprocal, Real, Reals
    <3>3. CASE ~(x.num > 0)
      <4>1. -x.num \in Nat \ {0} /\ -x.den \in Int
        BY <2>3, <3>1, <3>3
      <4> QED BY <3>3, <4>1 DEF Reciprocal, Real, Reals
    <3> QED BY <3>2, <3>3
  <2>5. s \in Reals
    <3> HIDE DEF x
    <3> QED BY <2>4, RoundedType, PartsFacts
  <2>6. n \in Reals
    <3> HIDE DEF s
    <3>1. s.num * NsPerS \in Int /\ s.den \in Nat \ {0}
      BY <2>5, ConfigAssumption DEF Reals
    <3>2. Real(s.num * NsPerS, s.den) \in Reals
      BY <3>1 DEF Real, Reals
    <3> QED BY <3>2, RoundedType, PartsFacts
  <2>7. NsPerByte(v) = FloatToUlong(n.num, n.den)
    BY <1>2 DEF NsPerByte
  <2> HIDE DEF n
  <2>8. n.num \in Int /\ n.den \in Nat \ {0}
    BY <2>6 DEF Reals
  <2> QED BY <2>7, <2>8, FloatToUlongType
<1> QED BY <1>1, <1>2

(* Counts become words.                                                     *)
LEMMA CountType ==
  ASSUME NEW i \in Int
  PROVE  ToUlong(i) \in Ulong /\ ToInt(i) \in Int
<1>1. \A j \in Int : j % Word \in Ulong
  BY ConfigAssumption DEF Ulong
<1>2. IntMod \div 2 \in Int
  BY ConfigAssumption
<1>3. \A j \in Int : j % IntMod \in Int
  BY ConfigAssumption
<1> QED BY <1>1, <1>2, <1>3 DEF ToUlong, ToInt

(* The members of a document with all five.                                 *)
LEMMA Members ==
  ASSUME NEW doc, IsDoc(doc), DOMAIN doc.fields = Fields
  PROVE  /\ doc.fields["drop_percent"] \in Value
         /\ doc.fields["corrupt_packet_percent"] \in Value
         /\ doc.fields["corrupt_packet_bytes"] \in Value
         /\ doc.fields["truncate_len"] \in Value
         /\ doc.fields["bandwidth"] \in Value
<1>1. \A key \in Fields : doc.fields[key] \in Value
  BY DEF IsDoc
<1> QED BY <1>1 DEF Fields

(* A load that returns leaves five words behind. *)
LEMMA LoadResultsType ==
  ASSUME NEW doc, IsDoc(doc)
  PROVE  LoadResults(doc) \subseteq config_t
<1>1. CASE doc.parses /\ DOMAIN doc.fields = Fields
  <2> DEFINE drops == Percent(doc.fields["drop_percent"])
             packets == Percent(doc.fields["corrupt_packet_percent"])
             bytes == {ToUlong(ToInt(i)) : i \in GetInteger(doc.fields["corrupt_packet_bytes"])}
             lens == {ToUlong(i) : i \in GetInteger(doc.fields["truncate_len"])}
             bands == NsPerByte(doc.fields["bandwidth"])
  <2>1. drops \subseteq Ulong /\ packets \subseteq Ulong /\ bands \subseteq Ulong
    BY <1>1, Members, PercentType, NsPerByteType
  <2>2. /\ GetInteger(doc.fields["corrupt_packet_bytes"]) \in SUBSET Int
        /\ GetInteger(doc.fields["truncate_len"]) \in SUBSET Int
    BY <1>1, Members, ReadType
  <2>3. bytes \subseteq Ulong /\ lens \subseteq Ulong
    BY <2>2, CountType
  <2>4. LoadResults(doc) = [drop : drops, corrupt_packets : packets, corrupt_bytes : bytes,
                            truncate_len : lens, bandwidth : bands]
    BY <1>1 DEF LoadResults
  <2> HIDE DEF drops, packets, bytes, lens, bands
  <2> QED BY <2>1, <2>3, <2>4 DEF config_t
<1>2. CASE ~(doc.parses /\ DOMAIN doc.fields = Fields)
  BY <1>2 DEF LoadResults
<1> QED BY <1>1, <1>2

(* A document with the five members is loaded, into something.              *)
LEMMA LoadSucceeds ==
  ASSUME NEW doc, IsDoc(doc), doc.parses, DOMAIN doc.fields = Fields
  PROVE  LoadResults(doc) # {}
<1>1. PICK a : a \in Percent(doc.fields["drop_percent"])
  BY Members, PercentType
<1>2. PICK b : b \in Percent(doc.fields["corrupt_packet_percent"])
  BY Members, PercentType
<1>3. PICK c : c \in GetInteger(doc.fields["corrupt_packet_bytes"])
  BY Members, ReadType
<1>4. PICK d : d \in GetInteger(doc.fields["truncate_len"])
  BY Members, ReadType
<1>5. PICK e : e \in NsPerByte(doc.fields["bandwidth"])
  BY Members, NsPerByteType
<1>6. [drop |-> a, corrupt_packets |-> b, corrupt_bytes |-> ToUlong(ToInt(c)),
       truncate_len |-> ToUlong(d), bandwidth |-> e] \in LoadResults(doc)
  BY <1>1, <1>2, <1>3, <1>4, <1>5 DEF LoadResults
<1> QED BY <1>6

(* The same with the factor behind.                                         *)
LEMMA LeByFactor ==
  ASSUME NEW a \in Nat, NEW b \in Nat, NEW d \in Nat \ {0}, a * d <= b * d
  PROVE  a <= b
<1>1. d * a = a * d /\ d * b = b * d
  OBVIOUS
<1> QED BY <1>1, Cancelled


-----------------------------------------------------------------------------
(* The number a document's value says.                                      *)
Said(v) == IF v.type \in NumericTypes THEN v.num ELSE 0

(* As a double it is off by one part.                                       *)
LEMMA FloatOfNumber ==
  ASSUME NEW v \in Value, Said(v) \in Nat, Said(v) <= LongMax * Den
  PROVE  /\ GetFloat(v) \in NotNegative
         /\ Near(GetFloat(v), Real(Said(v), Den), 1)
         /\ GetFloat(v).num = 0 <=> Said(v) = 0
         /\ Den <= Said(v) => GetInteger(v) # {0}
<1>0. /\ v.num \in Int /\ Den \in Nat \ {0} /\ Parts \in Nat /\ 64 <= Parts /\ 1 <= Parts
      /\ v.type \in {"fixed_number", "number"} \cup OtherTypes
      /\ v.type = "fixed_number" => v.num % Den = 0
  BY ConfigAssumption, PartsFacts DEF Value, NumericTypes
<1>1. CASE v.type = "fixed_number"
  <2> DEFINE p == Said(v)
             i == p \div Den
             x == Real(i, 1)
             r == Rounded(DoubleBits)[x]
  <2>1. v.num = p /\ p \in Nat /\ p % Den = 0 /\ p <= LongMax * Den
    BY <1>0, <1>1 DEF Said, NumericTypes
  <2>2. i \in Nat /\ p = i * Den
    <3> HIDE DEF p
    <3>1. i \in Nat /\ p = i * Den + (p % Den)
      BY <1>0, <2>1, DivMod
    <3> QED BY <1>0, <2>1, <3>1
  <2> HIDE DEF i, p
  <2>3. i <= LongMax
    BY <1>0, <2>1, <2>2, LongFacts, LeByFactor
  <2>4. ReadFixed(v) = i
    <3>1. v.num \div Den = i
      BY <2>1 DEF i
    <3> QED BY <2>2, <2>3, <3>1, LongFacts DEF ReadFixed
  <2>5. x \in NotNegative /\ x.num = i /\ x.den = 1
    BY <2>2 DEF Real, NotNegative
  <2>6. GetFloat(v) = r /\ GetInteger(v) = {i}
    BY <1>1, <2>4 DEF GetFloat, GetInteger
  <2>7. r \in NotNegative /\ Near(r, x, 1) /\ (r.num = 0 <=> x.num = 0)
    <3> HIDE DEF x
    <3> QED BY <2>5, DoubleNear
  <2>8. Near(r, Real(p, Den), 1)
    <3> HIDE DEF x, r
    <3>1. Near(r, Real(Den * x.num, Den * x.den), 1)
      BY <1>0, <2>5, <2>7, SameNear
    <3>2. Den * x.num = p /\ Den * x.den = Den
      BY <1>0, <2>2, <2>5
    <3> QED BY <3>1, <3>2
  <2>9. p = 0 <=> i = 0
    BY <1>0, <2>2
  <2>10. ASSUME Den <= p PROVE GetInteger(v) # {0}
    BY <1>0, <2>1, <2>6, <2>9, <2>10
  <2> QED BY <2>5, <2>6, <2>7, <2>8, <2>9, <2>10 DEF p
<1>2. CASE v.type = "number"
  <2> DEFINE p == Said(v)
             x == Real(p, Den)
             r == Rounded(DoubleBits)[x]
  <2>1. v.num = p /\ p \in Nat
    BY <1>0, <1>2 DEF Said, NumericTypes
  <2> HIDE DEF p
  <2>2. x \in NotNegative /\ x.num = p /\ x.den = Den
    BY <1>0, <2>1 DEF Real, NotNegative
  <2>3. GetFloat(v) = r /\ GetInteger(v) = FloatToLong(r)
    BY <1>2, <2>1 DEF GetFloat, GetInteger, ReadFloat
  <2>4. /\ r \in NotNegative /\ Near(r, x, 1) /\ (r.num = 0 <=> x.num = 0)
        /\ x.den <= x.num => r.den <= r.num
    <3> HIDE DEF x
    <3> QED BY <2>2, DoubleNear
  <2>5. ASSUME Den <= p PROVE GetInteger(v) # {0}
    <3> HIDE DEF r, x
    <3>1. r.num \in Nat /\ r.den \in Nat \ {0} /\ r.den <= r.num
      BY <2>2, <2>4, <2>5 DEF NotNegative
    <3>2. Trunc(r.num, r.den) = r.num \div r.den
      BY <3>1 DEF Trunc
    <3>3. r.num \div r.den \in Nat /\ r.num < ((r.num \div r.den) + 1) * r.den
      BY <3>1, QuotientBounds
    <3>4. r.num \div r.den # 0
      BY <3>1, <3>3
    <3>5. FloatToLong(r) # {0}
      BY <3>2, <3>4, LongFacts DEF FloatToLong
    <3> QED BY <2>3, <3>5
  <2> QED BY <2>2, <2>3, <2>4, <2>5 DEF p, x
<1>3. CASE v.type \notin {"fixed_number", "number"}
  <2>1. GetFloat(v) = Real(0, 1) /\ Said(v) = 0
    BY <1>3 DEF GetFloat, Said, NumericTypes
  <2>2. Real(0, 1).num = 0 /\ Real(0, 1).den = 1 /\ Real(0, Den).num = 0 /\ Real(0, Den).den = Den
    BY DEF Real
  <2>3. Real(0, 1) \in NotNegative
    BY DEF Real, NotNegative
  <2>4. Near(Real(0, 1), Real(0, Den), 1)
    BY <1>0, <2>2 DEF Near
  <2> QED BY <1>0, <2>1, <2>2, <2>3, <2>4
<1> QED BY <1>0, <1>1, <1>2, <1>3

(* The word a percentage of a document becomes, if it is below 100 by more  *)
(* than the rounding.                                                       *)
LEMMA ShareFacts ==
  ASSUME NEW v \in Value, Said(v) \in Nat,
         (Two[FloatBits] + 2) * Said(v) < Two[FloatBits] * 100 * Den, 200 < Word,
         NEW drop \in Percent(v)
  PROVE  /\ Two[FloatBits] * drop * 100 * Den <= (Two[FloatBits] + 2) * Said(v) * Word
         /\ (Two[FloatBits] - 2) * Said(v) * Word < Two[FloatBits] * (drop + 1) * 100 * Den
<1> DEFINE F == Two[FloatBits]
           p == Said(v)
           D == 100 * Den
           y == GetFloat(v)
           f == ToFloat(y)
           x == Real(f.num, 100 * f.den)
           s == Rounded(DoubleBits)[x]
<1>1. F \in Nat \ {0} /\ Parts = 8 * F /\ 64 <= Parts /\ Parts \in Nat \ {0} /\ p \in Nat
      /\ D \in Nat \ {0} /\ Den \in Nat \ {0} /\ Word \in Nat \ {0}
  BY PartsFacts, ConfigAssumption DEF Parts
<1>2. (F + 2) * p < F * D
  <2>1. F * 100 * Den = F * D
    BY <1>1
  <2> QED BY <2>1
<1> HIDE DEF F, p, D
<1>3. p < D
  <2>1. F * p + 2 * p < F * D
    BY <1>1, <1>2
  <2>2. F * p \in Nat /\ F * D \in Nat /\ F * p = p * F /\ F * D = D * F
    BY <1>1
  <2>3. p * F < D * F
    BY <1>1, <2>1, <2>2
  <2> QED BY <1>1, <2>3, LessByFactor
<1>4. p <= LongMax * Den
  <2>1. LongMax >= 100 /\ LongMax \in Nat
    BY LongFacts, ConfigAssumption
  <2>2. 100 * Den <= LongMax * Den
    <3>1. Den * 100 <= Den * LongMax
      BY <1>1, <2>1, TimesKeeps
    <3> QED BY <1>1, <2>1, <3>1
  <2>3. LongMax * Den \in Nat /\ 100 * Den \in Nat
    BY <1>1, <2>1
  <2> QED BY <1>1, <1>3, <2>2, <2>3 DEF D
<1> DEFINE given == Real(p, Den)
           part == Real(p, D)
<1>5. /\ given \in NotNegative /\ given.num = p /\ given.den = Den
      /\ part \in NotNegative /\ part.num = p /\ part.den = D
  BY <1>1 DEF Real, NotNegative
<1>6. y \in NotNegative /\ Near(y, given, 1)
  BY <1>1, <1>4, FloatOfNumber DEF p
<1> HIDE DEF y, given, part
<1>7. f \in NotNegative /\ Near(f, y, 8)
  BY <1>6, FloatNear
<1> HIDE DEF f
<1>8. Near(f, given, 10)
  <2>1. 1 * 8 <= Parts /\ 1 + 8 + 1 <= Parts /\ 1 + 8 + 1 = 10
    BY <1>1
  <2>2. Near(f, given, 1 + 8 + 1)
    BY <1>5, <1>6, <1>7, <2>1, ChainNear
  <2> QED BY <2>1, <2>2
<1>9. x \in NotNegative /\ Near(x, part, 10)
  <2>1. f.num \in Nat /\ f.den \in Nat
    BY <1>7 DEF NotNegative
  <2>2. PICK a \in Nat, b \in Nat \ {0} : a = 1 /\ b = 100
    OBVIOUS
  <2>3. 10 <= Parts
    BY <1>1
  <2>4. /\ Real(a * f.num, b * f.den) \in NotNegative
        /\ Near(Real(a * f.num, b * f.den), Real(a * given.num, b * given.den), 10)
    BY <1>5, <1>7, <1>8, <2>3, ScaleNear
  <2>5. a * f.num = f.num /\ b * f.den = 100 * f.den
    BY <2>1, <2>2
  <2>6. a * given.num = p /\ b * given.den = D
    BY <1>1, <1>5, <2>2 DEF D
  <2> QED BY <2>4, <2>5, <2>6 DEF part, x
<1> HIDE DEF x
<1>10. s \in NotNegative /\ Near(s, x, 1)
  BY <1>9, DoubleNear
<1>11. Percent(v) = FloatToUlong(s.num * Word, s.den)
  BY DEF Percent, PercentToLong, s, x, f, y
<1> HIDE DEF s
<1>12. Near(s, part, 16)
  <2>1. 10 * 1 <= Parts /\ 10 + 1 + 1 <= Parts /\ 10 + 1 + 1 <= 16 /\ 16 <= Parts
    BY <1>1
  <2>2. Near(s, part, 10 + 1 + 1)
    BY <1>5, <1>9, <1>10, <2>1, ChainNear
  <2> QED BY <1>5, <1>10, <2>1, <2>2, WiderNear
<1> DEFINE sn == s.num
           sd == s.den
<1>13. /\ sn \in Nat /\ sd \in Nat \ {0}
       /\ Parts * (sn * D) <= (Parts + 16) * (p * sd)
       /\ (Parts - 16) * (p * sd) <= Parts * (sn * D)
  BY <1>5, <1>10, <1>12 DEF Near, NotNegative
<1> HIDE DEF sn, sd
<1>14. sn * Word < Word * sd
  <2>1. (Parts + 16) * p < Parts * D
    <3>1. (Parts + 16) * p = 8 * ((F + 2) * p) /\ Parts * D = 8 * (F * D)
      BY <1>1
    <3>2. (F + 2) * p \in Nat /\ F * D \in Nat
      BY <1>1
    <3> QED BY <1>2, <3>1, <3>2
  <2>2. (Parts + 16) * (p * sd) < (Parts * D) * sd
    <3>1. sd * ((Parts + 16) * p + 1) <= sd * (Parts * D)
      <4>1. (Parts + 16) * p + 1 \in Nat /\ Parts * D \in Nat /\ (Parts + 16) * p + 1 <= Parts * D
        BY <1>1, <2>1
      <4> QED BY <1>13, <4>1, TimesKeeps
    <3>2. sd * ((Parts + 16) * p + 1) = (Parts + 16) * (p * sd) + sd /\ sd * (Parts * D) = (Parts * D) * sd
      BY <1>1, <1>13
    <3>3. (Parts + 16) * (p * sd) \in Nat /\ (Parts * D) * sd \in Nat
      BY <1>1, <1>13
    <3> QED BY <1>13, <3>1, <3>2, <3>3
  <2>3. sn * (Parts * D) < sd * (Parts * D)
    <3>1. Parts * (sn * D) = sn * (Parts * D) /\ (Parts * D) * sd = sd * (Parts * D)
      BY <1>1, <1>13
    <3>2. sn * (Parts * D) \in Nat /\ sd * (Parts * D) \in Nat /\ (Parts + 16) * (p * sd) \in Nat
      BY <1>1, <1>13
    <3> QED BY <1>13, <2>2, <3>1, <3>2
  <2>4. sn < sd
    <3>1. Parts * D \in Nat \ {0}
      BY <1>1
    <3> QED BY <1>13, <2>3, <3>1, LessByFactor
  <2>5. Word * (sn + 1) <= Word * sd
    BY <1>1, <1>13, <2>4, TimesKeeps
  <2>6. Word * (sn + 1) = sn * Word + Word /\ sn * Word \in Nat /\ Word * sd \in Nat
    BY <1>1, <1>13
  <2> QED BY <1>1, <2>5, <2>6
<1>15. drop = (sn * Word) \div sd
  <2>1. sn * Word \in Nat
    BY <1>1, <1>13
  <2>2. FloatToUlong(sn * Word, sd) = {(sn * Word) \div sd}
    BY <1>13, <1>14, <2>1, FloatToUlongInRange
  <2> QED BY <1>11, <2>2 DEF sn, sd
<1>16. /\ drop \in Nat
       /\ Parts * drop * D <= (Parts + 16) * p * Word
       /\ (Parts - 16) * p * Word < Parts * (drop + 1) * D
  BY <1>1, <1>13, <1>15, Floored
<1>17. F * drop * D <= (F + 2) * p * Word /\ (F - 2) * p * Word < F * (drop + 1) * D
  <2> DEFINE a == F * drop * D
             b == (F + 2) * p * Word
             c == (F - 2) * p * Word
             e == F * (drop + 1) * D
  <2>1. /\ Parts * drop * D = 8 * a /\ (Parts + 16) * p * Word = 8 * b
        /\ (Parts - 16) * p * Word = 8 * c /\ Parts * (drop + 1) * D = 8 * e
    BY <1>1, <1>16
  <2>2. a \in Int /\ b \in Int /\ c \in Int /\ e \in Int
    BY <1>1, <1>16
  <2>3. 8 * a <= 8 * b /\ 8 * c < 8 * e
    BY <1>16, <2>1
  <2> HIDE DEF a, b, c, e
  <2>4. a <= b /\ c < e
    BY <2>2, <2>3
  <2> QED BY <2>4 DEF a, b, c, e
<1>18. F * drop * D = F * drop * 100 * Den /\ F * (drop + 1) * D = F * (drop + 1) * 100 * Den
  BY <1>1, <1>16 DEF D
<1> QED BY <1>17, <1>18 DEF F, p

(* The time of a byte at a bandwidth of one KiB/s or more.                  *)
LEMMA RateFacts ==
  ASSUME NEW v \in Value, Den <= Said(v), Said(v) <= LongMax * Den,
         (Two[FloatBits] + 2) * NsPerS < Two[FloatBits] * Word * KiB,
         NEW nspb \in NsPerByte(v)
  PROVE  /\ Two[FloatBits] * nspb * Said(v) * KiB <= (Two[FloatBits] + 2) * NsPerS * Den
         /\ (Two[FloatBits] - 2) * NsPerS * Den < Two[FloatBits] * (nspb + 1) * Said(v) * KiB
<1> DEFINE F == Two[FloatBits]
           k == Said(v)
           D == k * KiB
           p == NsPerS * Den
           y == GetFloat(v)
           f == ToFloat(y)
           x == Real(f.num * KiB, f.den)
           s == Rounded(DoubleBits)[Reciprocal(x)]
           z == Real(s.num * NsPerS, s.den)
           n == Rounded(DoubleBits)[z]
<1>0. k \in Nat \ {0}
  <2>1. k \in Int
    BY DEF Said, Value
  <2> QED BY <2>1, ConfigAssumption
<1>1. F \in Nat \ {0} /\ Parts = 8 * F /\ 64 <= Parts /\ Parts \in Nat \ {0}
      /\ D \in Nat \ {0} /\ p \in Nat \ {0} /\ Den \in Nat \ {0} /\ Word \in Nat \ {0}
      /\ KiB \in Nat \ {0} /\ NsPerS \in Nat \ {0}
  BY <1>0, PartsFacts, ConfigAssumption DEF Parts
<1>2. (F + 2) * NsPerS < F * Word * KiB /\ Den <= k /\ k <= LongMax * Den
  OBVIOUS
<1> DEFINE given == Real(k, Den)
           kib == Real(k * KiB, Den)
           perByte == Real(Den, D)
           ns == Real(p, D)
<1>3. /\ given \in NotNegative /\ given.num = k /\ given.den = Den
      /\ kib \in Positive /\ kib.num = D /\ kib.den = Den
      /\ perByte \in NotNegative /\ perByte.num = Den /\ perByte.den = D
      /\ ns \in NotNegative /\ ns.num = p /\ ns.den = D
  BY <1>0, <1>1 DEF Real, NotNegative, Positive
<1>4. y \in NotNegative /\ Near(y, given, 1) /\ y.num # 0 /\ GetInteger(v) # {0}
  BY <1>0, <1>2, FloatOfNumber DEF k
<1>5. NsPerByte(v) = FloatToUlong(n.num, n.den)
  BY <1>4 DEF NsPerByte
<1> HIDE DEF F, k, D, p, y, given, kib, perByte, ns
<1>6. f \in NotNegative /\ Near(f, y, 8) /\ f.num # 0
  BY <1>4, FloatNear
<1> HIDE DEF f
<1>7. Near(f, given, 10)
  <2>1. 1 * 8 <= Parts /\ 1 + 8 + 1 <= Parts /\ 1 + 8 + 1 = 10
    BY <1>1
  <2>2. Near(f, given, 1 + 8 + 1)
    BY <1>3, <1>4, <1>6, <2>1, ChainNear
  <2> QED BY <2>1, <2>2
<1>8. x \in Positive /\ Near(x, kib, 10)
  <2>1. f.num \in Nat \ {0} /\ f.den \in Nat \ {0}
    BY <1>6 DEF NotNegative
  <2>2. PICK a \in Nat, b \in Nat \ {0} : a = KiB /\ b = 1
    BY <1>1
  <2>3. 10 <= Parts
    BY <1>1
  <2>4. Near(Real(a * f.num, b * f.den), Real(a * given.num, b * given.den), 10)
    BY <1>3, <1>6, <1>7, <2>3, ScaleNear
  <2>5. a * f.num = f.num * KiB /\ b * f.den = f.den
    BY <1>1, <2>1, <2>2
  <2>6. a * given.num = k * KiB /\ b * given.den = Den
    BY <1>0, <1>1, <1>3, <2>2
  <2>7. f.num * KiB \in Nat \ {0}
    BY <1>1, <2>1
  <2>8. x \in Positive
    BY <2>1, <2>7 DEF Real, Positive
  <2> QED BY <2>4, <2>5, <2>6, <2>8 DEF kib
<1> HIDE DEF x
<1>9. Reciprocal(x) \in NotNegative /\ Near(Reciprocal(x), perByte, 12)
  <2>1. Reciprocal(kib) = perByte
    BY <1>3, <1>8, InverseNear DEF perByte
  <2> QED BY <1>3, <1>8, <2>1, InverseNear
<1>10. s \in NotNegative /\ Near(s, Reciprocal(x), 1)
  BY <1>9, DoubleNear
<1> HIDE DEF s
<1>11. Near(s, perByte, 14)
  <2>1. 12 * 1 <= Parts /\ 12 + 1 + 1 <= Parts /\ 12 + 1 + 1 = 14
    BY <1>1
  <2>2. Near(s, perByte, 12 + 1 + 1)
    BY <1>3, <1>9, <1>10, <2>1, ChainNear
  <2> QED BY <2>1, <2>2
<1>12. z \in NotNegative /\ Near(z, ns, 14)
  <2>1. s.num \in Nat /\ s.den \in Nat \ {0}
    BY <1>10 DEF NotNegative
  <2>2. PICK a \in Nat, b \in Nat \ {0} : a = NsPerS /\ b = 1
    BY <1>1
  <2>3. 14 <= Parts
    BY <1>1
  <2>4. Near(Real(a * s.num, b * s.den), Real(a * perByte.num, b * perByte.den), 14)
    BY <1>3, <1>10, <1>11, <2>3, ScaleNear
  <2>5. a * s.num = s.num * NsPerS /\ b * s.den = s.den
    BY <1>1, <2>1, <2>2
  <2>6. a * perByte.num = p /\ b * perByte.den = D
    BY <1>1, <1>3, <2>2 DEF p
  <2>7. s.num * NsPerS \in Nat
    BY <1>1, <2>1
  <2>8. z \in NotNegative
    BY <2>1, <2>7 DEF Real, NotNegative
  <2> QED BY <2>4, <2>5, <2>6, <2>8 DEF ns
<1> HIDE DEF z
<1>13. n \in NotNegative /\ Near(n, z, 1)
  BY <1>12, DoubleNear
<1> HIDE DEF n
<1>14. Near(n, ns, 16)
  <2>1. 14 * 1 <= Parts /\ 14 + 1 + 1 <= Parts /\ 14 + 1 + 1 = 16
    BY <1>1
  <2>2. Near(n, ns, 14 + 1 + 1)
    BY <1>3, <1>12, <1>13, <2>1, ChainNear
  <2> QED BY <2>1, <2>2
<1> DEFINE sn == n.num
           sd == n.den
<1>15. /\ sn \in Nat /\ sd \in Nat \ {0}
       /\ Parts * (sn * D) <= (Parts + 16) * (p * sd)
       /\ (Parts - 16) * (p * sd) <= Parts * (sn * D)
  BY <1>3, <1>13, <1>14 DEF Near, NotNegative
<1> HIDE DEF sn, sd
<1>16. sn < Word * sd
  <2>1. (Parts + 16) * p < (Parts * D) * Word
    <3>1. (Parts + 16) * p = (8 * Den) * ((F + 2) * NsPerS)
      BY <1>1 DEF p
    <3>2. (8 * Den) * ((F + 2) * NsPerS + 1) <= (8 * Den) * (F * Word * KiB)
      <4>1. /\ 8 * Den \in Nat /\ (F + 2) * NsPerS + 1 \in Nat /\ F * Word * KiB \in Nat
            /\ (F + 2) * NsPerS + 1 <= F * Word * KiB
        <5>1. (F + 2) * NsPerS \in Nat /\ F * Word * KiB \in Nat
          BY <1>1
        <5> QED BY <1>1, <1>2, <5>1
      <4> QED BY <4>1, TimesKeeps
    <3>3. (8 * (F * Word * KiB)) * Den <= (8 * (F * Word * KiB)) * k
      <4>1. 8 * (F * Word * KiB) \in Nat
        BY <1>1
      <4> QED BY <1>0, <1>1, <1>2, <4>1, TimesKeeps
    <3>4. (8 * (F * Word * KiB)) * Den = (8 * Den) * (F * Word * KiB)
      BY <1>1
    <3>5. (8 * (F * Word * KiB)) * k = (Parts * D) * Word
      BY <1>0, <1>1 DEF D
    <3>6. (8 * Den) * ((F + 2) * NsPerS + 1) = (8 * Den) * ((F + 2) * NsPerS) + 8 * Den
      BY <1>1
    <3> DEFINE a == (8 * Den) * ((F + 2) * NsPerS)
               b == (8 * Den) * (F * Word * KiB)
               c == (Parts * D) * Word
    <3>7. a \in Nat /\ b \in Nat /\ c \in Nat
      BY <1>1
    <3>8. a + 8 * Den <= b /\ b <= c /\ (Parts + 16) * p = a
      BY <3>1, <3>2, <3>3, <3>4, <3>5, <3>6
    <3> HIDE DEF a, b, c
    <3>9. (Parts + 16) * p < c
      BY <1>1, <3>7, <3>8
    <3> QED BY <3>9 DEF c
  <2>2. sd * ((Parts + 16) * p + 1) <= sd * ((Parts * D) * Word)
    <3>1. /\ (Parts + 16) * p + 1 \in Nat /\ (Parts * D) * Word \in Nat
          /\ (Parts + 16) * p + 1 <= (Parts * D) * Word
      BY <1>1, <2>1
    <3> QED BY <1>15, <3>1, TimesKeeps
  <2>3. sd * ((Parts + 16) * p + 1) = (Parts + 16) * (p * sd) + sd
    BY <1>1, <1>15
  <2>4. sd * ((Parts * D) * Word) = (Word * sd) * (Parts * D) /\ Parts * (sn * D) = sn * (Parts * D)
    BY <1>1, <1>15
  <2> DEFINE a == (Parts + 16) * (p * sd)
             b == (Word * sd) * (Parts * D)
             c == sn * (Parts * D)
  <2>5. a \in Nat /\ b \in Nat /\ c \in Nat
    BY <1>1, <1>15
  <2>6. a + sd <= b /\ c <= a
    BY <1>15, <2>2, <2>3, <2>4
  <2> HIDE DEF a, b, c
  <2>7. c < b
    BY <1>15, <2>5, <2>6
  <2>8. sn * (Parts * D) < (Word * sd) * (Parts * D)
    BY <2>7 DEF b, c
  <2>9. Word * sd \in Nat /\ Parts * D \in Nat \ {0}
    BY <1>1, <1>15
  <2> QED BY <1>15, <2>8, <2>9, LessByFactor
<1>17. nspb = (sn * 1) \div sd
  <2>1. FloatToUlong(sn, sd) = {sn \div sd}
    BY <1>15, <1>16, FloatToUlongInRange
  <2>2. nspb = sn \div sd /\ sn * 1 = sn
    BY <1>5, <1>15, <2>1 DEF sn, sd
  <2> QED BY <2>2
<1>18. /\ nspb \in Nat
       /\ Parts * nspb * D <= (Parts + 16) * p
       /\ (Parts - 16) * p < Parts * (nspb + 1) * D
  <2>1. PICK W \in Nat \ {0} : W = 1
    OBVIOUS
  <2>2. nspb = (sn * W) \div sd
    BY <1>17, <2>1
  <2>3. /\ nspb \in Nat
        /\ Parts * nspb * D <= (Parts + 16) * p * W
        /\ (Parts - 16) * p * W < Parts * (nspb + 1) * D
    <3>1. 16 <= Parts
      BY <1>1
    <3> QED BY <1>1, <1>15, <2>2, <3>1, Floored
  <2>4. (Parts + 16) * p * W = (Parts + 16) * p /\ (Parts - 16) * p * W = (Parts - 16) * p
    BY <1>1, <2>1
  <2> QED BY <2>3, <2>4
<1>19. F * nspb * D <= (F + 2) * p /\ (F - 2) * p < F * (nspb + 1) * D
  <2> DEFINE a == F * nspb * D
             b == (F + 2) * p
             c == (F - 2) * p
             e == F * (nspb + 1) * D
  <2>1. /\ Parts * nspb * D = 8 * a /\ (Parts + 16) * p = 8 * b
        /\ (Parts - 16) * p = 8 * c /\ Parts * (nspb + 1) * D = 8 * e
    BY <1>1, <1>18
  <2>2. a \in Int /\ b \in Int /\ c \in Int /\ e \in Int
    BY <1>1, <1>18
  <2>3. 8 * a <= 8 * b /\ 8 * c < 8 * e
    BY <1>18, <2>1
  <2> HIDE DEF a, b, c, e
  <2>4. a <= b /\ c < e
    BY <2>2, <2>3
  <2> QED BY <2>4 DEF a, b, c, e
<1>20. /\ F * nspb * D = F * nspb * k * KiB /\ F * (nspb + 1) * D = F * (nspb + 1) * k * KiB
       /\ (F + 2) * p = (F + 2) * NsPerS * Den /\ (F - 2) * p = (F - 2) * NsPerS * Den
  BY <1>0, <1>1, <1>18 DEF D, p
<1> QED BY <1>19, <1>20 DEF F, k

(* A count without a point is what it says, up to the end of a long.        *)
LEMMA FixedFacts ==
  ASSUME NEW v \in Value, v.type = "fixed_number", v.num \div Den >= 0
  PROVE  LET i == v.num \div Den
         IN  /\ i \in Nat
             /\ i > LongMax => GetInteger(v) = {LongMax} /\ ToUlong(LongMax) = LongMax
             /\ i <= LongMax => GetInteger(v) = {i} /\ ToUlong(i) = i
             /\ i < IntMod \div 2 /\ IntMod <= Word =>
                  GetInteger(v) = {i} /\ ToUlong(ToInt(i)) = i
<1> DEFINE i == v.num \div Den
<1>1. i \in Nat
  BY ConfigAssumption DEF Value
<1>2. GetInteger(v) = {ReadFixed(v)}
  BY DEF GetInteger
<1>3. ReadFixed(v) = IF i > LongMax THEN LongMax ELSE i
  <2> HIDE DEF i
  <2>1. ~(i < LongMin)
    BY <1>1, LongFacts
  <2> QED BY <1>1, <2>1, LongFacts DEF ReadFixed, i
<1> HIDE DEF i
<1>4. ASSUME NEW j \in Nat, j <= LongMax PROVE ToUlong(j) = j
  <2>1. j \in Ulong
    BY <1>4, LongFacts, ConfigAssumption DEF Ulong
  <2> QED BY <2>1, CountFits
<1>5. ASSUME i < IntMod \div 2, IntMod <= Word
      PROVE  i <= LongMax /\ ToInt(i) = i
  <2>1. IntMod \div 2 \in Nat /\ IntMod \div 2 + IntMod \div 2 <= IntMod
    BY ConfigAssumption
  <2>2. i <= LongMax
    BY <1>1, <1>5, <2>1, LongFacts, ConfigAssumption
  <2>3. i <= IntMod \div 2 - 1
    BY <1>1, <1>5, <2>1
  <2> QED BY <1>1, <2>2, <2>3, CountFits
<1> QED BY <1>1, <1>2, <1>3, <1>4, <1>5, LongFacts DEF i
=============================================================================
