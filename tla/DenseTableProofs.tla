-------------------------- MODULE DenseTableProofs --------------------------
(***************************************************************************)
(* The functions of dense_hashtable, proved for any keys, values, hasher,  *)
(* sizes and percentages below 100: a search ends, and finds an entry if   *)
(* there is one; each call makes of the entries what it should; and a file *)
(* that is read to its end is the table that was written.                  *)
(***************************************************************************)
EXTENDS DenseTable, FiniteSetTheorems, FunctionTheorems, SequenceTheorems, TLAPS

-----------------------------------------------------------------------------
(* Numbers, and the probes of find_position. *)

(* Every set of numbers has a least one. *)
LEMMA LeastNumber ==
  ASSUME NEW S \in SUBSET Nat, S # {}
  PROVE  \E n \in S : \A m \in S : n <= m
<1> DEFINE R == OpToRel(<, Nat)
<1>1. IsWellFoundedOn(R, Nat)
  BY NatLessThanWellFounded
<1> HIDE DEF R
<1>2. \E n \in S : \A m \in S : <<m, n>> \notin R
  BY <1>1, WFMin, Zenon
<1>3. \A m, n \in Nat : <<m, n>> \notin OpToRel(<, Nat) => ~(m < n)
  BY DEF OpToRel
<1>4. \A m, n \in Nat : ~(m < n) => n <= m
  OBVIOUS
<1> QED BY <1>2, <1>3, <1>4 DEF R

(* Min of such a set is in it, and below the rest. *)
LEMMA MinOf ==
  ASSUME NEW S \in SUBSET Nat, S # {}
  PROVE  Min(S) \in S /\ \A m \in S : Min(S) <= m
<1>1. \E n \in S : \A m \in S : n <= m
  BY LeastNumber
<1> QED BY <1>1 DEF Min

(* Induction up to N, for a set of numbers. *)
LEMMA CountedInduction ==
  ASSUME NEW N \in Nat, NEW T, 0 \in T, \A n \in 0 .. (N - 1) : n \in T => n + 1 \in T
  PROVE  \A n \in 0 .. N : n \in T
<1> DEFINE B == {n \in 0 .. N : n \notin T}
<1> SUFFICES ASSUME B # {} PROVE FALSE
  OBVIOUS
<1>1. B \in SUBSET Nat
  OBVIOUS
<1>2. PICK m \in B : \A n \in B : m <= n
  <2> HIDE DEF B
  <2> QED BY <1>1, LeastNumber
<1>3. m \in 0 .. N /\ m \notin T /\ m # 0
  OBVIOUS
<1>4. m - 1 \in 0 .. (N - 1) /\ m - 1 + 1 = m
  BY <1>3
<1>5. m - 1 \notin B
  BY <1>2, <1>3
<1>6. m - 1 \in T
  BY <1>4, <1>5
<1> QED BY <1>3, <1>4, <1>6

(* And over all numbers. *)
LEMMA NumberInduction ==
  ASSUME NEW T, 0 \in T, \A n \in Nat : n \in T => n + 1 \in T
  PROVE  \A n \in Nat : n \in T
<1> SUFFICES ASSUME NEW n \in Nat PROVE n \in T
  OBVIOUS
<1>1. \A m \in 0 .. (n - 1) : m \in T => m + 1 \in T
  OBVIOUS
<1>2. \A m \in 0 .. n : m \in T
  BY <1>1, CountedInduction, Zenon
<1> QED BY <1>2

(* A function on 0 .. N is made step by step: its value at i is that of     *)
(* step for i and the value before.                                         *)
Steps(N, start, step, g) ==
  g = [i \in 0 .. N |-> IF i = 0 THEN start ELSE step[<<i, g[i - 1]>>]]

(* Such a function exists, and its values are of the kind that the steps   *)
(* have.                                                                   *)
LEMMA StepsExist ==
  ASSUME NEW S, NEW N \in Nat, NEW start \in S, NEW step \in [(1 .. N) \X S -> S]
  PROVE  \E g \in [0 .. N -> S] : Steps(N, start, step, g)
<1> DEFINE T == {n \in 0 .. N : \E g \in [0 .. n -> S] : Steps(n, start, step, g)}
<1>1. 0 \in T
  <2> DEFINE g == [i \in 0 .. 0 |-> start]
  <2>1. Steps(0, start, step, g) /\ g \in [0 .. 0 -> S]
    BY DEF Steps
  <2> QED BY <2>1
<1>2. ASSUME NEW n \in 0 .. (N - 1), n \in T PROVE n + 1 \in T
  <2>1. PICK g \in [0 .. n -> S] : Steps(n, start, step, g)
    BY <1>2
  <2> DEFINE v == step[<<n + 1, g[n]>>]
             h == [i \in 0 .. (n + 1) |-> IF i = n + 1 THEN v ELSE g[i]]
  <2>2. v \in S
    <3>1. <<n + 1, g[n]>> \in (1 .. N) \X S
      OBVIOUS
    <3> QED BY <3>1
  <2>3. \A i \in 0 .. n : g[i] = IF i = 0 THEN start ELSE step[<<i, g[i - 1]>>]
    BY <2>1 DEF Steps
  <2>4. h[n + 1] = v /\ h \in [0 .. (n + 1) -> S] /\ \A i \in 0 .. n : h[i] = g[i]
    <3> HIDE DEF v
    <3> QED BY <2>2
  <2>5. h = [i \in 0 .. (n + 1) |-> h[i]]
    OBVIOUS
  <2> HIDE DEF h
  <2>6. \A i \in 0 .. (n + 1) : h[i] = IF i = 0 THEN start ELSE step[<<i, h[i - 1]>>]
    <3> SUFFICES ASSUME NEW i \in 0 .. (n + 1)
                 PROVE  h[i] = IF i = 0 THEN start ELSE step[<<i, h[i - 1]>>]
      OBVIOUS
    <3>1. CASE i = n + 1
      <4>1. i # 0 /\ i - 1 = n /\ h[i - 1] = g[n]
        BY <2>4, <3>1
      <4> QED BY <2>4, <3>1, <4>1
    <3>2. CASE i \in 0 .. n
      <4>1. i # 0 => h[i - 1] = g[i - 1]
        BY <2>4, <3>2
      <4> QED BY <2>3, <2>4, <3>2, <4>1
    <3> QED BY <3>1, <3>2
  <2>7. Steps(n + 1, start, step, h)
    <3>1. [i \in 0 .. (n + 1) |-> h[i]]
          = [i \in 0 .. (n + 1) |-> IF i = 0 THEN start ELSE step[<<i, h[i - 1]>>]]
      BY <2>6
    <3> QED BY <2>5, <3>1 DEF Steps
  <2> QED BY <2>4, <2>7
<1>3. N \in T
  <2> HIDE DEF T
  <2> QED BY <1>1, <1>2, CountedInduction
<1> QED BY <1>3

(* Power is what its recursion says. *)
LEMMA PowerExists ==
  ASSUME NEW b \in Nat
  PROVE  \E p \in [Nat -> Nat] : p = [i \in Nat |-> IF i = 0 THEN 1 ELSE b * p[i - 1]]
<1> DEFINE step(n) == [x \in (1 .. n) \X Nat |-> b * x[2]]
           G(n) == CHOOSE g : g \in [0 .. n -> Nat] /\ \A i \in 0 .. n : g[i] = IF i = 0 THEN 1 ELSE b * g[i - 1]
           p == [n \in Nat |-> G(n)[n]]
<1>1. ASSUME NEW n \in Nat
      PROVE  G(n) \in [0 .. n -> Nat] /\ \A i \in 0 .. n : G(n)[i] = IF i = 0 THEN 1 ELSE b * G(n)[i - 1]
  <2>0. step(n) \in [(1 .. n) \X Nat -> Nat]
    <3> SUFFICES ASSUME NEW x \in (1 .. n) \X Nat PROVE b * x[2] \in Nat
      OBVIOUS
    <3> QED OBVIOUS
  <2>1. PICK g \in [0 .. n -> Nat] : Steps(n, 1, step(n), g)
    <3> HIDE DEF step
    <3> QED BY <2>0, StepsExist
  <2>2. \A i \in 0 .. n : g[i] = IF i = 0 THEN 1 ELSE b * g[i - 1]
    <3> SUFFICES ASSUME NEW i \in 0 .. n PROVE g[i] = IF i = 0 THEN 1 ELSE b * g[i - 1]
      OBVIOUS
    <3>1. g[i] = IF i = 0 THEN 1 ELSE step(n)[<<i, g[i - 1]>>]
      BY <2>1 DEF Steps
    <3>2. CASE i # 0
      <4>1. <<i, g[i - 1]>> \in (1 .. n) \X Nat
        BY <3>2
      <4> QED BY <3>1, <3>2, <4>1
    <3> QED BY <3>1, <3>2
  <2> QED BY <2>2
<1> HIDE DEF G
<1>2. ASSUME NEW n \in Nat PROVE \A i \in 0 .. n : G(n)[i] = G(n + 1)[i]
  <2> DEFINE T == {i \in 0 .. n : G(n)[i] = G(n + 1)[i]}
  <2>0. /\ \A i \in 0 .. n : G(n)[i] = IF i = 0 THEN 1 ELSE b * G(n)[i - 1]
        /\ \A i \in 0 .. (n + 1) : G(n + 1)[i] = IF i = 0 THEN 1 ELSE b * G(n + 1)[i - 1]
    <3>1. n + 1 \in Nat
      OBVIOUS
    <3> QED BY <1>1, <3>1, Zenon
  <2>1. 0 \in T
    BY <2>0
  <2>2. ASSUME NEW i \in 0 .. (n - 1), i \in T PROVE i + 1 \in T
    <3>1. i + 1 \in 0 .. n /\ i + 1 \in 0 .. (n + 1) /\ i + 1 # 0 /\ (i + 1) - 1 = i
      OBVIOUS
    <3>2. G(n)[i] = G(n + 1)[i]
      BY <2>2
    <3>3. G(n)[i + 1] = b * G(n)[i] /\ G(n + 1)[i + 1] = b * G(n + 1)[i]
      BY <2>0, <3>1
    <3> QED BY <3>1, <3>2, <3>3
  <2>3. \A i \in 0 .. n : i \in T
    <3> HIDE DEF T
    <3> QED BY <2>1, <2>2, CountedInduction
  <2> QED BY <2>3
<1>3. p \in [Nat -> Nat]
  BY <1>1
<1>4. \A i \in Nat : p[i] = IF i = 0 THEN 1 ELSE b * p[i - 1]
  <2> SUFFICES ASSUME NEW i \in Nat PROVE p[i] = IF i = 0 THEN 1 ELSE b * p[i - 1]
    OBVIOUS
  <2>1. p[i] = IF i = 0 THEN 1 ELSE b * G(i)[i - 1]
    BY <1>1
  <2>2. CASE i # 0
    <3>1. i - 1 \in Nat /\ (i - 1) + 1 = i /\ i - 1 \in 0 .. (i - 1)
      BY <2>2
    <3>2. G(i - 1)[i - 1] = G(i)[i - 1]
      BY <1>2, <3>1
    <3> QED BY <2>1, <2>2, <3>1, <3>2
  <2> QED BY <2>1, <2>2
<1> HIDE DEF p
<1>5. p = [i \in Nat |-> IF i = 0 THEN 1 ELSE b * p[i - 1]]
  <2>1. p = [i \in Nat |-> p[i]]
    BY <1>3
  <2>2. [i \in Nat |-> p[i]] = [i \in Nat |-> IF i = 0 THEN 1 ELSE b * p[i - 1]]
    BY <1>4
  <2> QED BY <2>1, <2>2
<1> QED BY <1>3, <1>5

(* So Power is what its recursion says. *)
LEMMA PowerSteps ==
  ASSUME NEW b \in Nat
  PROVE  /\ Power(b) \in [Nat -> Nat] /\ Power(b)[0] = 1
         /\ \A i \in Nat : Power(b)[i + 1] = b * Power(b)[i]
<1> DEFINE Is(q) == q = [i \in Nat |-> IF i = 0 THEN 1 ELSE b * q[i - 1]]
           p == CHOOSE q : Is(q)
<1>1. Power(b) = p
  BY DEF Power
<1>2. Is(p)
  BY PowerExists
<1> HIDE DEF p
<1>3. \A i \in Nat : p[i] = IF i = 0 THEN 1 ELSE b * p[i - 1]
  BY <1>2
<1>4. p[0] = 1
  BY <1>3
<1>5. \A i \in Nat : p[i + 1] = b * p[i]
  <2> SUFFICES ASSUME NEW i \in Nat PROVE p[i + 1] = b * p[i]
    OBVIOUS
  <2>1. i + 1 \in Nat /\ i + 1 # 0 /\ (i + 1) - 1 = i
    OBVIOUS
  <2> QED BY <1>3, <2>1
<1>6. p \in [Nat -> Nat]
  <2>1. 0 \in {i \in Nat : p[i] \in Nat}
    BY <1>4
  <2>2. \A i \in Nat : i \in {n \in Nat : p[n] \in Nat} => i + 1 \in {n \in Nat : p[n] \in Nat}
    <3> SUFFICES ASSUME NEW i \in Nat, p[i] \in Nat PROVE p[i + 1] \in Nat
      OBVIOUS
    <3>1. b * p[i] \in Nat
      OBVIOUS
    <3> QED BY <1>5, <3>1
  <2>3. \A i \in Nat : i \in {n \in Nat : p[n] \in Nat}
    BY <2>1, <2>2, NumberInduction, Zenon
  <2>4. p = [i \in Nat |-> p[i]]
    BY <1>2
  <2> QED BY <2>3, <2>4
<1> QED BY <1>1, <1>4, <1>5, <1>6

(* A power is positive. *)
LEMMA PowerPositive ==
  ASSUME NEW b \in Nat \ {0}
  PROVE  \A i \in Nat : Power(b)[i] \in Nat \ {0}
<1> DEFINE T == {i \in Nat : Power(b)[i] \in Nat \ {0}}
<1>1. 0 \in T
  <2>1. Power(b)[0] = 1
    BY PowerSteps
  <2> QED BY <2>1
<1>2. \A i \in Nat : i \in T => i + 1 \in T
  <2> SUFFICES ASSUME NEW i \in Nat, Power(b)[i] \in Nat \ {0}
               PROVE  Power(b)[i + 1] \in Nat \ {0}
    OBVIOUS
  <2>1. Power(b)[i + 1] = b * Power(b)[i]
    BY PowerSteps
  <2> DEFINE q == Power(b)[i]
  <2>2. q \in Nat \ {0}
    OBVIOUS
  <2> HIDE DEF q
  <2>3. b * q \in Nat \ {0}
    BY <2>2, SMT
  <2> QED BY <2>1, <2>3 DEF q
<1>3. \A i \in Nat : i \in T
  <2> HIDE DEF T
  <2> QED BY <1>1, <1>2, NumberInduction, Zenon
<1> QED BY <1>3

(* The power of a sum is the product of the powers. *)
LEMMA PowerSum ==
  ASSUME NEW b \in Nat, NEW a \in Nat
  PROVE  \A i \in Nat : Power(b)[a + i] = Power(b)[a] * Power(b)[i]
<1> DEFINE P == Power(b)
           T == {i \in Nat : P[a + i] = P[a] * P[i]}
<1>0. P \in [Nat -> Nat] /\ P[0] = 1 /\ \A i \in Nat : P[i + 1] = b * P[i]
  BY PowerSteps
<1> HIDE DEF P
<1>1. 0 \in T
  <2>1. a + 0 = a /\ P[a] * 1 = P[a]
    BY <1>0
  <2> QED BY <1>0, <2>1
<1>2. \A i \in Nat : i \in T => i + 1 \in T
  <2> SUFFICES ASSUME NEW i \in Nat, P[a + i] = P[a] * P[i]
               PROVE  P[a + (i + 1)] = P[a] * P[i + 1]
    OBVIOUS
  <2> DEFINE x == P[a]
             y == P[i]
  <2>1. a + i \in Nat /\ a + (i + 1) = (a + i) + 1 /\ x \in Nat /\ y \in Nat
    BY <1>0
  <2>2. P[(a + i) + 1] = b * P[a + i] /\ P[i + 1] = b * y
    BY <1>0, <2>1
  <2> HIDE DEF x, y
  <2>3. b * (x * y) = x * (b * y)
    BY <2>1, SMT
  <2> QED BY <2>1, <2>2, <2>3 DEF x, y
<1>3. \A i \in Nat : i \in T
  <2> HIDE DEF T
  <2> QED BY <1>1, <1>2, NumberInduction, Zenon
<1> QED BY <1>3 DEF P

(* A power of two that divides x * y, and x is odd, divides y. *)
LEMMA OddFactor ==
  \A m \in Nat : \A x, y, q \in Nat :
    x % 2 = 1 /\ x * y = Power(2)[m] * q => \E r \in Nat : y = Power(2)[m] * r
<1> DEFINE P == Power(2)
           Divides(m) == \A x, y, q \in Nat :
                           x % 2 = 1 /\ x * y = P[m] * q => \E r \in Nat : y = P[m] * r
           T == {m \in Nat : Divides(m)}
<1>0. P \in [Nat -> Nat] /\ P[0] = 1 /\ \A i \in Nat : P[i + 1] = 2 * P[i]
  BY PowerSteps
<1> HIDE DEF P
<1>1. 0 \in T
  <2>1. \A y \in Nat : y = P[0] * y
    BY <1>0
  <2> QED BY <2>1
<1>2. ASSUME NEW m \in Nat, Divides(m),
             NEW x \in Nat, NEW y \in Nat, NEW q \in Nat,
             x % 2 = 1, x * y = P[m + 1] * q
      PROVE  \E r \in Nat : y = P[m + 1] * r
  <2> DEFINE p == P[m]
  <2>1. p \in Nat /\ P[m + 1] = 2 * p
    BY <1>0
  <2> HIDE DEF p
  <2>2. PICK u \in Nat : x = 2 * u + 1
    <3>1. x = 2 * (x \div 2) + 1 /\ x \div 2 \in Nat
      BY <1>2
    <3> QED BY <3>1
  <2>3. y % 2 = 0
    <3>1. x * y = 2 * (p * q)
      <4>1. (2 * p) * q = 2 * (p * q)
        BY <2>1, SMT
      <4> QED BY <1>2, <2>1, <4>1
    <3>2. (2 * u + 1) * y = 2 * (u * y) + y
      BY <2>2, SMT
    <3> DEFINE c == p * q
               d == u * y
    <3>3. c \in Nat /\ d \in Nat
      BY <2>1, <2>2, SMT
    <3>4. 2 * d + y = 2 * c
      BY <2>2, <3>1, <3>2
    <3> HIDE DEF c, d
    <3> QED BY <3>3, <3>4, SMT
  <2>4. PICK z \in Nat : y = 2 * z
    <3>1. y = 2 * (y \div 2) /\ y \div 2 \in Nat
      BY <2>3
    <3> QED BY <3>1
  <2>5. x * z = p * q
    <3>1. x * (2 * z) = 2 * (x * z) /\ (2 * p) * q = 2 * (p * q)
      BY <2>1, <2>4, SMT
    <3> DEFINE c == p * q
               d == x * z
    <3>2. c \in Nat /\ d \in Nat
      BY <2>1, <2>4, SMT
    <3>3. 2 * d = 2 * c
      BY <1>2, <2>1, <2>4, <3>1
    <3>4. d = c
      <4> HIDE DEF c, d
      <4> QED BY <3>2, <3>3, SMT
    <3> QED BY <3>4
  <2>6. PICK r \in Nat : z = p * r
    BY <1>2, <2>4, <2>5 DEF p
  <2>7. y = (2 * p) * r
    <3>1. 2 * (p * r) = (2 * p) * r
      BY <2>1, <2>6, SMT
    <3> QED BY <2>4, <2>6, <3>1
  <2> QED BY <2>1, <2>7
<1>3. ASSUME NEW m \in Nat, Divides(m) PROVE Divides(m + 1)
  <2>1. ASSUME NEW x \in Nat, NEW y \in Nat, NEW q \in Nat,
               x % 2 = 1, x * y = P[m + 1] * q
        PROVE  \E r \in Nat : y = P[m + 1] * r
    <3>1. Divides(m)
      BY <1>3
    <3> HIDE DEF Divides
    <3> QED BY <1>2, <2>1, <3>1
  <2> QED BY <2>1
<1>5. \A m \in Nat : m \in T => m + 1 \in T
  <2> HIDE DEF Divides
  <2> QED BY <1>3
<1>4. \A m \in Nat : m \in T
  <2> HIDE DEF T
  <2> QED BY <1>1, <1>5, NumberInduction, Zenon
<1> QED BY <1>4 DEF P

(* The same, for two numbers. *)
Multiple(y, p) == \E r \in Nat : y = p * r
LEMMA OddFactorOf ==
  ASSUME NEW m \in Nat, NEW x \in Nat, NEW y \in Nat,
         x % 2 = 1, Multiple(x * y, Power(2)[m])
  PROVE  Multiple(y, Power(2)[m])
<1> DEFINE p == Power(2)[m]
<1>1. \A u, v, w \in Nat : u % 2 = 1 /\ u * v = p * w => \E r \in Nat : v = p * r
  BY OddFactor
<1> HIDE DEF p
<1>2. PICK q \in Nat : x % 2 = 1 /\ x * y = p * q
  BY DEF Multiple, p
<1> QED BY <1>1, <1>2 DEF Multiple, p

(* The numbers of buckets are powers of two. *)
LEMMA SizesArePowers ==
  ASSUME NEW n \in Sizes
  PROVE  n \in Nat \ {0} /\ n >= MinBuckets /\ \E k \in Nat : n = Power(2)[k]
<1>1. PICK a \in 0 .. MinBuckets : MinBuckets = Power(2)[a]
  BY StartAssumption
<1>2. PICK i \in 0 .. MaxDoublings : n = MinBuckets * Power(2)[i]
  BY DEF Sizes
<1>3. a \in Nat /\ i \in Nat /\ MinBuckets \in Nat \ {0}
  BY SettingsAssumption
<1>4. Power(2)[i] \in Nat \ {0}
  BY <1>3, PowerPositive
<1> DEFINE p == Power(2)[i]
<1> HIDE DEF p
<1>5. MinBuckets * p \in Nat \ {0} /\ MinBuckets * p >= MinBuckets
  <2>1. p \in Nat /\ p >= 1
    BY <1>4 DEF p
  <2> QED BY <1>3, <2>1, SMT
<1>6. n = Power(2)[a + i]
  BY <1>1, <1>2, <1>3, PowerSum
<1>7. a + i \in Nat
  BY <1>3
<1> QED BY <1>2, <1>5, <1>6, <1>7 DEF p

Triangle(i) == (i * (i + 1)) \div 2

(* The double of a triangular number. *)
LEMMA TriangleDouble ==
  ASSUME NEW i \in Nat
  PROVE  Triangle(i) \in Nat /\ 2 * Triangle(i) = i * (i + 1)
<1>1. (i * (i + 1)) % 2 = 0
  <2>1. CASE i % 2 = 0
    <3>1. PICK u \in Nat : i = 2 * u
      <4>1. i = 2 * (i \div 2) /\ i \div 2 \in Nat
        BY <2>1
      <4> QED BY <4>1
    <3>2. i * (i + 1) = 2 * (u * (i + 1))
      BY <3>1, SMT
    <3> DEFINE c == u * (i + 1)
    <3>3. c \in Nat
      BY <3>1, SMT
    <3> HIDE DEF c
    <3>4. (2 * c) % 2 = 0
      BY <3>3, SMT
    <3> QED BY <3>2, <3>4 DEF c
  <2>2. CASE i % 2 = 1
    <3>1. PICK u \in Nat : i + 1 = 2 * u
      <4>1. i + 1 = 2 * ((i + 1) \div 2) /\ (i + 1) \div 2 \in Nat
        BY <2>2
      <4> QED BY <4>1
    <3>2. i * (2 * u) = 2 * (i * u)
      BY <3>1, SMT
    <3> DEFINE c == i * u
    <3>3. c \in Nat
      BY <3>1, SMT
    <3> HIDE DEF c
    <3>4. (2 * c) % 2 = 0
      BY <3>3, SMT
    <3> QED BY <3>1, <3>2, <3>4 DEF c
  <2> QED BY <2>1, <2>2
<1> DEFINE c == i * (i + 1)
<1>2. c \in Nat /\ c % 2 = 0
  BY <1>1, SMT
<1> HIDE DEF c
<1>3. c \div 2 \in Nat /\ 2 * (c \div 2) = c
  BY <1>2, SMT
<1> QED BY <1>3 DEF c, Triangle

(* Two numbers with the same rest differ by a multiple. *)
LEMMA SameRest ==
  ASSUME NEW n \in Nat \ {0}, NEW a \in Nat, NEW b \in Nat, a <= b, a % n = b % n
  PROVE  \E q \in Nat : b - a = n * q
<1>1. a = n * (a \div n) + (a % n) /\ b = n * (b \div n) + (b % n)
  BY SMT
<1> DEFINE x == a \div n
           y == b \div n
<1>2. x \in Nat /\ y \in Nat
  BY SMT
<1> HIDE DEF x, y
<1>3. x <= y
  <2>1. SUFFICES ASSUME y < x PROVE FALSE
    BY <1>2
  <2>2. n * y < n * x
    BY <1>2, <2>1, SMT
  <2>3. a % n \in Nat /\ n * x \in Nat /\ n * y \in Nat
    BY <1>2, SMT
  <2> QED BY <1>1, <2>2, <2>3 DEF x, y
<1>4. b - a = n * (y - x)
  <2>1. n * (y - x) = n * y - n * x
    BY <1>2, SMT
  <2>2. a % n \in Nat /\ n * x \in Nat /\ n * y \in Nat
    BY <1>2, SMT
  <2> QED BY <1>1, <2>1, <2>2 DEF x, y
<1>5. y - x \in Nat
  BY <1>2, <1>3
<1> QED BY <1>4, <1>5

(* Of the first n triangular numbers no two have the same rest, if n is a   *)
(* power of two.                                                            *)
LEMMA TrianglesApart ==
  ASSUME NEW k \in Nat, NEW n, n = Power(2)[k], NEW h \in Nat,
         NEW i \in Nat, NEW j \in Nat, j < i, i < n,
         (h + Triangle(i)) % n = (h + Triangle(j)) % n
  PROVE  FALSE
<1>0. n \in Nat \ {0} /\ Power(2)[k + 1] = 2 * n /\ k + 1 \in Nat
  BY PowerPositive, PowerSteps
<1> DEFINE a == Triangle(i)
           b == Triangle(j)
           d == i - j
           s == i + j + 1
<1>1. a \in Nat /\ b \in Nat /\ 2 * a = i * (i + 1) /\ 2 * b = j * (j + 1)
  BY TriangleDouble
<1>2. d \in Nat \ {0} /\ s \in Nat \ {0} /\ d < 2 * n /\ s < 2 * n
  BY <1>0
<1>3. d * s = 2 * a - 2 * b
  <2>1. (i - j) * (i + j + 1) = i * (i + 1) - j * (j + 1)
    BY SMT
  <2> QED BY <1>1, <2>1
<1> HIDE DEF a, b
<1>4. b <= a
  <2>1. d * s \in Nat
    BY <1>2, SMT
  <2> QED BY <1>1, <1>3, <2>1
<1>5. PICK q \in Nat : a - b = n * q
  <2>1. h + b <= h + a /\ h + a \in Nat /\ h + b \in Nat /\ (h + a) - (h + b) = a - b
    BY <1>1, <1>4
  <2>2. (h + b) % n = (h + a) % n
    BY DEF a, b
  <2>3. \E q \in Nat : (h + a) - (h + b) = n * q
    BY <1>0, <2>1, <2>2, SameRest
  <2> QED BY <2>1, <2>3
<1>6. d * s = Power(2)[k + 1] * q
  <2>1. (2 * n) * q = 2 * (n * q) /\ n * q \in Nat
    BY <1>0, SMT
  <2> QED BY <1>0, <1>1, <1>3, <1>5, <2>1
<1>7. CASE d % 2 = 1
  <2>1. PICK r \in Nat : s = Power(2)[k + 1] * r
    <3> DEFINE e == k + 1
    <3>1. d \in Nat /\ s \in Nat /\ d % 2 = 1 /\ e \in Nat /\ Multiple(d * s, Power(2)[e])
      BY <1>2, <1>6, <1>7 DEF Multiple
    <3> HIDE DEF d, s, e
    <3>2. Multiple(s, Power(2)[e])
      BY <3>1, OddFactorOf, Zenon
    <3> QED BY <3>2 DEF e, Multiple
  <2>2. r # 0 => (2 * n) * r >= 2 * n
    BY <1>0, SMT
  <2>3. (2 * n) * 0 = 0
    BY <1>0, SMT
  <2> QED BY <1>0, <1>2, <2>1, <2>2, <2>3
<1>8. CASE d % 2 # 1
  <2>1. s % 2 = 1
    <3>1. s = d + 2 * j + 1 /\ d % 2 = 0
      BY <1>2, <1>8
    <3> QED BY <1>2, <3>1
  <2>2. s * d = Power(2)[k + 1] * q
    <3>1. s * d = d * s
      BY <1>2, SMT
    <3> QED BY <1>6, <3>1
  <2>3. PICK r \in Nat : d = Power(2)[k + 1] * r
    <3> DEFINE e == k + 1
    <3>1. d \in Nat /\ s \in Nat /\ s % 2 = 1 /\ e \in Nat /\ Multiple(s * d, Power(2)[e])
      BY <1>2, <2>1, <2>2 DEF Multiple
    <3> HIDE DEF d, s, e
    <3>2. Multiple(d, Power(2)[e])
      BY <3>1, OddFactorOf, Zenon
    <3> QED BY <3>2 DEF e, Multiple
  <2>4. r # 0 => (2 * n) * r >= 2 * n
    BY <1>0, SMT
  <2>5. (2 * n) * 0 = 0
    BY <1>0, SMT
  <2> QED BY <1>0, <1>2, <2>3, <2>4, <2>5
<1> QED BY <1>7, <1>8

(* So a search looks into every bucket of a table once. *)
THEOREM EveryBucketProbed ==
  ASSUME NEW n \in Sizes, NEW k \in Key
  PROVE  /\ \A i \in Buckets(n) : Probe(n, k, i) \in Buckets(n)
         /\ \A i, j \in Buckets(n) : Probe(n, k, i) = Probe(n, k, j) => i = j
         /\ \A b \in Buckets(n) : \E i \in Buckets(n) : Probe(n, k, i) = b
<1> DEFINE h == MungedHash(Hash[k])
           B == Buckets(n)
<1>0. PICK e \in Nat : n = Power(2)[e]
  BY SizesArePowers
<1>1. n \in Nat \ {0} /\ h \in Nat
  <2>1. Hash[k] \in Nat /\ PointerSize \in Nat \ {0}
    BY TableAssumption, SettingsAssumption
  <2>2. Hash[k] \div PointerSize \in Nat
    BY <2>1, SMT
  <2> QED BY <2>2, SizesArePowers DEF MungedHash
<1> HIDE DEF h
<1>2. \A i \in B : i \in Nat /\ i < n
  BY <1>1 DEF Buckets
<1>3. \A i : Probe(n, k, i) = (h + Triangle(i)) % n
  BY DEF Probe, Triangle, h
<1>4. \A i \in B : Probe(n, k, i) \in B
  <2> SUFFICES ASSUME NEW i \in B PROVE (h + Triangle(i)) % n \in 0 .. (n - 1)
    BY <1>3 DEF Buckets
  <2>1. h + Triangle(i) \in Nat
    BY <1>1, <1>2, TriangleDouble
  <2> DEFINE x == h + Triangle(i)
  <2> HIDE DEF x
  <2>2. x % n \in 0 .. (n - 1)
    BY <1>1, <2>1, SMT DEF x
  <2> QED BY <2>2 DEF x
<1>5. \A i, j \in B : Probe(n, k, i) = Probe(n, k, j) => i = j
  <2> SUFFICES ASSUME NEW i \in B, NEW j \in B, Probe(n, k, i) = Probe(n, k, j), i # j
               PROVE  FALSE
    OBVIOUS
  <2>1. (h + Triangle(i)) % n = (h + Triangle(j)) % n
    BY <1>3
  <2>2. CASE j < i
    BY <1>0, <1>1, <1>2, <2>1, <2>2, TrianglesApart
  <2>3. CASE i < j
    BY <1>0, <1>1, <1>2, <2>1, <2>3, TrianglesApart
  <2> QED BY <1>2, <2>2, <2>3
<1>6. \A b \in B : \E i \in B : Probe(n, k, i) = b
  <2> DEFINE f == [i \in B |-> Probe(n, k, i)]
  <2>1. f \in Injection(B, B)
    <3>1. f \in [B -> B] /\ \A i, j \in B : f[i] = f[j] => i = j
      BY <1>4, <1>5
    <3> HIDE DEF f
    <3> QED BY <3>1, Fun_IsInj
  <2>2. IsFiniteSet(B)
    BY <1>1, FS_Interval DEF Buckets
  <2>3. f \in Surjection(B, B)
    <3> HIDE DEF f, B
    <3> QED BY <2>1, <2>2, FS_Injection
  <2>4. \A b \in B : \E i \in B : f[i] = b
    <3> HIDE DEF f, B
    <3> QED BY <2>3, Fun_SurjectionProperties
  <2> QED BY <2>4
<1> QED BY <1>4, <1>5, <1>6

-----------------------------------------------------------------------------
(* What lies where in the buckets, and what a write to some does to it.    *)

(* What the buckets of a table look like, apart from the counts. *)
Live(tab) == {b \in DOMAIN tab : tab[b].key \in Key}
Used(tab) == {b \in DOMAIN tab : tab[b].key # EmptyKey}
Gone(tab, del) == {b \in DOMAIN tab : tab[b].key = del}
At(tab, S) == {tab[b] : b \in S}
Contents(tab) == At(tab, Live(tab))

BucketOf(del) == [key : Key \cup {EmptyKey} \cup ({del} \ {NoKey}), value : Value]
Distinct(tab) == \A b, c \in Live(tab) : tab[b].key = tab[c].key => b = c
OnPath(tab, n, k, b) ==
  \E i \in Buckets(n) : /\ Probe(n, k, i) = b
                        /\ \A j \in Buckets(i) : tab[Probe(n, k, j)].key # EmptyKey
Paths(tab, n) == \A b \in Live(tab) : OnPath(tab, n, tab[b].key, b)

Layout(tab, n, del) ==
  /\ n \in Sizes /\ del \in Mark \cup {NoKey}
  /\ tab \in [Buckets(n) -> BucketOf(del)]
  /\ Distinct(tab) /\ Paths(tab, n)

(* The keys of entries are no marks. *)
LEMMA KeysApart ==
  /\ EmptyKey \notin Key /\ NoKey \notin Key /\ EmptyKey # NoKey
  /\ \A d \in Mark : d \notin Key /\ d # EmptyKey /\ d # NoKey
BY TableAssumption

(* The fields of a bucket. *)
LEMMA BucketFields ==
  /\ \A k, v : Bucket(k, v).key = k /\ Bucket(k, v).value = v
  /\ \A d : \A k \in Key \cup {EmptyKey} \cup ({d} \ {NoKey}) : \A v \in Value : Bucket(k, v) \in BucketOf(d)
  /\ Vacant.key = EmptyKey /\ \A d : Vacant \in BucketOf(d)
BY TableAssumption DEF Bucket, BucketOf, Vacant

(* A probe that comes before one of the table is one of the table. *)
LEMMA Earlier ==
  ASSUME NEW n \in Sizes, NEW i \in Buckets(n)
  PROVE  i \in Nat /\ \A j \in Buckets(i) : j \in Buckets(n) /\ j < i /\ j # i
<1>1. n \in Nat
  BY SizesArePowers
<1> QED BY <1>1 DEF Buckets

(* A table of empty buckets. *)
LEMMA VacantLayout ==
  ASSUME NEW n \in Sizes, NEW del \in Mark \cup {NoKey}
  PROVE  LET tab == [b \in Buckets(n) |-> Vacant]
         IN  /\ Layout(tab, n, del) /\ Live(tab) = {} /\ Used(tab) = {} /\ Gone(tab, del) = {}
             /\ Contents(tab) = {}
<1> DEFINE tab == [b \in Buckets(n) |-> Vacant]
<1>1. tab \in [Buckets(n) -> BucketOf(del)] /\ \A b \in DOMAIN tab : tab[b].key = EmptyKey
  BY BucketFields
<1> HIDE DEF tab
<1>2. Live(tab) = {} /\ Used(tab) = {} /\ Gone(tab, del) = {}
  BY <1>1, KeysApart DEF Live, Used, Gone
<1> QED BY <1>1, <1>2 DEF Layout, Distinct, Paths, Contents, At, tab

(* An entry is put in a free bucket on the path of its key. *)
LEMMA PutLayout ==
  ASSUME NEW tab, NEW n, NEW del, Layout(tab, n, del),
         NEW k \in Key, NEW v \in Value, NEW b \in Buckets(n),
         OnPath(tab, n, k, b), b \notin Live(tab),
         \A c \in Live(tab) : tab[c].key # k
  PROVE  LET new == [tab EXCEPT ![b] = Bucket(k, v)]
         IN  /\ Layout(new, n, del)
             /\ Live(new) = Live(tab) \cup {b} /\ Used(new) = Used(tab) \cup {b}
             /\ Gone(new, del) = Gone(tab, del) \ {b}
             /\ Contents(new) = Contents(tab) \cup {Bucket(k, v)}
<1> DEFINE new == [tab EXCEPT ![b] = Bucket(k, v)]
<1>0. /\ n \in Sizes /\ del \in Mark \cup {NoKey} /\ tab \in [Buckets(n) -> BucketOf(del)]
      /\ Distinct(tab) /\ Paths(tab, n)
  BY DEF Layout
<1>1. /\ new \in [Buckets(n) -> BucketOf(del)] /\ DOMAIN new = Buckets(n) /\ DOMAIN tab = Buckets(n)
      /\ new[b] = Bucket(k, v) /\ \A c \in Buckets(n) : c # b => new[c] = tab[c]
  <2>1. Bucket(k, v) \in BucketOf(del)
    BY BucketFields
  <2> QED BY <1>0, <2>1
<1> HIDE DEF new
<1>2. new[b].key = k /\ k \in Key /\ k # EmptyKey /\ k # del
  BY <1>0, <1>1, BucketFields, KeysApart
<1>3. /\ Live(new) = Live(tab) \cup {b} /\ Used(new) = Used(tab) \cup {b}
      /\ Gone(new, del) = Gone(tab, del) \ {b}
  BY <1>1, <1>2 DEF Live, Used, Gone
<1>4. Distinct(new)
  <2> SUFFICES ASSUME NEW c \in Live(new), NEW d \in Live(new), new[c].key = new[d].key
               PROVE  c = d
    BY DEF Distinct
  <2>0. c \in Buckets(n) /\ d \in Buckets(n)
    BY <1>1 DEF Live
  <2>1. CASE c = b /\ d = b
    BY <2>1
  <2>2. CASE c # b /\ d # b
    BY <1>0, <1>1, <1>3, <2>0, <2>2 DEF Distinct
  <2>3. CASE c # b /\ d = b
    BY <1>1, <1>2, <1>3, <2>0, <2>3
  <2>4. CASE c = b /\ d # b
    BY <1>1, <1>2, <1>3, <2>0, <2>4
  <2> QED BY <2>1, <2>2, <2>3, <2>4
<1>5. ASSUME NEW l \in Key, NEW c, OnPath(tab, n, l, c) PROVE OnPath(new, n, l, c)
  <2>1. PICK i \in Buckets(n) : /\ Probe(n, l, i) = c
                                /\ \A j \in Buckets(i) : tab[Probe(n, l, j)].key # EmptyKey
    BY <1>5 DEF OnPath
  <2>2. ASSUME NEW j \in Buckets(i) PROVE new[Probe(n, l, j)].key # EmptyKey
    <3>1. Probe(n, l, j) \in Buckets(n)
      BY <1>0, Earlier, EveryBucketProbed
    <3> QED BY <1>1, <1>2, <2>1, <3>1
  <2> QED BY <2>1, <2>2 DEF OnPath
<1>6. Paths(new, n)
  <2> SUFFICES ASSUME NEW c \in Live(new) PROVE OnPath(new, n, new[c].key, c)
    BY DEF Paths
  <2>1. CASE c = b
    BY <1>2, <1>5, <2>1
  <2>2. CASE c # b
    <3>1. c \in Live(tab) /\ c \in Buckets(n) /\ new[c] = tab[c] /\ tab[c].key \in Key
      BY <1>1, <1>3, <2>2 DEF Live
    <3>2. OnPath(tab, n, tab[c].key, c)
      BY <1>0, <3>1 DEF Paths
    <3> QED BY <1>5, <3>1, <3>2
  <2> QED BY <2>1, <2>2
<1>7. Contents(new) = Contents(tab) \cup {Bucket(k, v)}
  <2>1. \A c \in Live(tab) : c \in Buckets(n) /\ c # b
    BY <1>1 DEF Live
  <2> QED BY <1>1, <1>3, <2>1 DEF Contents, At
<1> QED BY <1>0, <1>1, <1>3, <1>4, <1>6, <1>7 DEF Layout, new

(* Entries are marked as deleted. *)
LEMMA EraseLayout ==
  ASSUME NEW tab, NEW n, NEW del, Layout(tab, n, del), del # NoKey, NEW gone \in SUBSET Live(tab),
         NEW new \in [DOMAIN tab -> BucketOf(del)],
         \A b \in DOMAIN tab : new[b] = IF b \in gone THEN Bucket(del, Default) ELSE tab[b]
  PROVE  /\ Layout(new, n, del)
         /\ Live(new) = Live(tab) \ gone /\ Used(new) = Used(tab)
         /\ Gone(new, del) = Gone(tab, del) \cup gone
         /\ Contents(new) = At(tab, Live(tab) \ gone)
         /\ \A b \in Live(new) : new[b] = tab[b]
<1>0. /\ n \in Sizes /\ del \in Mark \cup {NoKey} /\ tab \in [Buckets(n) -> BucketOf(del)]
      /\ Distinct(tab) /\ Paths(tab, n) /\ del \in Mark
  BY DEF Layout
<1>1. /\ new \in [Buckets(n) -> BucketOf(del)] /\ DOMAIN new = Buckets(n) /\ DOMAIN tab = Buckets(n)
      /\ \A c \in Buckets(n) : c \in gone => new[c] = Bucket(del, Default)
      /\ \A c \in Buckets(n) : c \notin gone => new[c] = tab[c]
  <2>1. Bucket(del, Default) \in BucketOf(del)
    BY BucketFields, TableAssumption
  <2> QED BY <1>0, <2>1
<1>2. /\ \A c \in Buckets(n) : c \in gone => new[c].key = del
      /\ \A c \in gone : c \in Buckets(n) /\ tab[c].key \in Key
      /\ del \notin Key /\ del # EmptyKey
  BY <1>0, <1>1, BucketFields, KeysApart DEF Live
<1>3. /\ Live(new) = Live(tab) \ gone /\ Used(new) = Used(tab)
      /\ Gone(new, del) = Gone(tab, del) \cup gone
  <2>1. Live(new) = Live(tab) \ gone
    BY <1>1, <1>2 DEF Live
  <2>2. Used(new) = Used(tab)
    BY <1>1, <1>2, KeysApart DEF Used
  <2>3. Gone(new, del) = Gone(tab, del) \cup gone
    BY <1>1, <1>2 DEF Gone
  <2> QED BY <2>1, <2>2, <2>3
<1>4. \A b \in Live(new) : b \in Buckets(n) /\ b \in Live(tab) /\ new[b] = tab[b]
  BY <1>1, <1>3 DEF Live
<1>5. Distinct(new)
  BY <1>0, <1>4 DEF Distinct
<1>6. Paths(new, n)
  <2> SUFFICES ASSUME NEW c \in Live(new) PROVE OnPath(new, n, tab[c].key, c)
    BY <1>4 DEF Paths
  <2>1. c \in Live(tab) /\ tab[c].key \in Key /\ OnPath(tab, n, tab[c].key, c)
    BY <1>0, <1>4 DEF Paths, Live
  <2> DEFINE l == tab[c].key
  <2>2. PICK i \in Buckets(n) : /\ Probe(n, l, i) = c
                                /\ \A j \in Buckets(i) : tab[Probe(n, l, j)].key # EmptyKey
    BY <2>1 DEF OnPath
  <2> HIDE DEF l
  <2>3. ASSUME NEW j \in Buckets(i) PROVE new[Probe(n, l, j)].key # EmptyKey
    <3>1. Probe(n, l, j) \in Buckets(n)
      BY <1>0, <2>1, Earlier, EveryBucketProbed DEF l
    <3> QED BY <1>1, <1>2, <2>2, <3>1
  <2> QED BY <2>2, <2>3 DEF OnPath, l
<1>7. Contents(new) = At(tab, Live(tab) \ gone)
  BY <1>3, <1>4 DEF Contents, At
<1> QED BY <1>0, <1>1, <1>3, <1>4, <1>5, <1>6, <1>7 DEF Layout

(* A value is assigned. *)
LEMMA AssignLayout ==
  ASSUME NEW tab, NEW n, NEW del, Layout(tab, n, del), NEW b \in Live(tab), NEW v \in Value,
         NEW new, new = [tab EXCEPT ![b].value = v]
  PROVE  /\ Layout(new, n, del)
         /\ Live(new) = Live(tab) /\ Used(new) = Used(tab) /\ Gone(new, del) = Gone(tab, del)
         /\ Contents(new) = At(tab, Live(tab) \ {b}) \cup {Bucket(tab[b].key, v)}
<1> DEFINE e == Bucket(tab[b].key, v)
<1>0. /\ n \in Sizes /\ del \in Mark \cup {NoKey} /\ tab \in [Buckets(n) -> BucketOf(del)]
      /\ Distinct(tab) /\ Paths(tab, n)
  BY DEF Layout
<1>1. b \in Buckets(n) /\ tab[b].key \in Key /\ tab[b] \in BucketOf(del)
  BY <1>0 DEF Live
<1>2. /\ new \in [Buckets(n) -> BucketOf(del)] /\ DOMAIN new = Buckets(n) /\ DOMAIN tab = Buckets(n)
      /\ new[b] = e /\ \A c \in Buckets(n) : c # b => new[c] = tab[c]
  <2>1. [tab[b] EXCEPT !.value = v] = e
    BY <1>1 DEF BucketOf, Bucket
  <2>2. e \in BucketOf(del)
    BY <1>1, BucketFields
  <2>3. new = [tab EXCEPT ![b] = [tab[b] EXCEPT !.value = v]]
    OBVIOUS
  <2>4. new = [tab EXCEPT ![b] = e]
    BY <2>1, <2>3
  <2> HIDE DEF e
  <2> QED BY <1>0, <1>1, <2>2, <2>4
<1>3. e.key = tab[b].key
  BY BucketFields
<1> HIDE DEF e
<1>4. \A c \in Buckets(n) : new[c].key = tab[c].key
  BY <1>1, <1>2, <1>3
<1>5. Live(new) = Live(tab) /\ Used(new) = Used(tab) /\ Gone(new, del) = Gone(tab, del)
  BY <1>2, <1>4 DEF Live, Used, Gone
<1>6. \A c \in Live(tab) : c \in Buckets(n)
  BY <1>0 DEF Live
<1>7. Distinct(new)
  BY <1>0, <1>4, <1>5, <1>6 DEF Distinct
<1>8. Paths(new, n)
  <2> SUFFICES ASSUME NEW c \in Live(tab) PROVE OnPath(new, n, tab[c].key, c)
    BY <1>4, <1>5, <1>6 DEF Paths
  <2>1. tab[c].key \in Key /\ OnPath(tab, n, tab[c].key, c)
    BY <1>0 DEF Paths, Live
  <2> DEFINE l == tab[c].key
  <2>2. PICK i \in Buckets(n) : /\ Probe(n, l, i) = c
                                /\ \A j \in Buckets(i) : tab[Probe(n, l, j)].key # EmptyKey
    BY <2>1 DEF OnPath
  <2> HIDE DEF l
  <2>3. ASSUME NEW j \in Buckets(i) PROVE new[Probe(n, l, j)].key # EmptyKey
    <3>1. Probe(n, l, j) \in Buckets(n)
      BY <1>0, <2>1, Earlier, EveryBucketProbed DEF l
    <3> QED BY <1>4, <2>2, <3>1
  <2> QED BY <2>2, <2>3 DEF OnPath, l
<1>9. Contents(new) = At(tab, Live(tab) \ {b}) \cup {e}
  BY <1>2, <1>5, <1>6 DEF Contents, At
<1> QED BY <1>0, <1>2, <1>5, <1>7, <1>8, <1>9 DEF Layout, e

(* Another deleted key is used, when no bucket has the one there was. *)
LEMMA MarkLayout ==
  ASSUME NEW tab, NEW n, NEW del, Layout(tab, n, del), Gone(tab, del) = {},
         NEW mark \in Mark \cup {NoKey}
  PROVE  Layout(tab, n, mark) /\ Gone(tab, mark) = {}
<1>0. n \in Sizes /\ tab \in [Buckets(n) -> BucketOf(del)] /\ Distinct(tab) /\ Paths(tab, n)
  BY DEF Layout
<1>1. ASSUME NEW b \in Buckets(n)
      PROVE  tab[b].key \in Key \cup {EmptyKey} /\ tab[b] \in BucketOf(mark) /\ tab[b].key # mark
  <2>1. tab[b] \in BucketOf(del) /\ tab[b].key # del
    BY <1>0 DEF Gone
  <2>2. tab[b].key \in Key \cup {EmptyKey}
    BY <2>1 DEF BucketOf
  <2>3. tab[b] \in BucketOf(mark)
    BY <2>1, <2>2 DEF BucketOf
  <2> QED BY <2>2, <2>3, KeysApart
<1>2. tab \in [Buckets(n) -> BucketOf(mark)]
  BY <1>0, <1>1
<1> QED BY <1>0, <1>1, <1>2 DEF Layout, Gone

-----------------------------------------------------------------------------
(* Tables in which a search ends. *)

(* The fields of a table. *)
Fields(t) ==
  t \in [table : {t.table}, num_buckets : Sizes, num_elements : Nat, num_deleted : Nat,
         use_empty : BOOLEAN, delkey : Mark \cup {NoKey}, consider_shrink : BOOLEAN,
         grow : 1 .. 99, shrink : Nat, ok : {TRUE}]

(* The percentages: the largest size has room for an entry. *)
Thresholds(t) == 2 * t.shrink <= t.grow /\ \E n \in Sizes : n * t.grow >= 100

Counted(t) ==
  /\ t.num_elements = Cardinality(Used(t.table))
  /\ t.num_deleted = Cardinality(Gone(t.table, t.delkey))

(* A table in which searches are right: there is an empty bucket. *)
Sound(t) ==
  /\ Fields(t) /\ Thresholds(t) /\ t.use_empty
  /\ Layout(t.table, t.num_buckets, t.delkey)
  /\ Counted(t) /\ t.num_elements < t.num_buckets

(* There are as many buckets as a table has. *)
LEMMA FullBuckets ==
  ASSUME NEW n \in Nat
  PROVE  IsFiniteSet(Buckets(n)) /\ Cardinality(Buckets(n)) = n
BY FS_Interval DEF Buckets

(* A set of buckets is finite, and no larger. *)
LEMMA BucketsFinite ==
  ASSUME NEW n \in Nat, NEW S \in SUBSET Buckets(n)
  PROVE  IsFiniteSet(S) /\ Cardinality(S) \in Nat /\ Cardinality(S) <= n
<1>1. IsFiniteSet(Buckets(n)) /\ Cardinality(Buckets(n)) = n
  BY FullBuckets
<1> QED BY <1>1, FS_Subset, FS_CardinalityType

(* What the buckets of a table are. *)
LEMMA BucketKinds ==
  ASSUME NEW tab, NEW n, NEW del, Layout(tab, n, del)
  PROVE  /\ Live(tab) \in SUBSET Buckets(n) /\ Used(tab) \in SUBSET Buckets(n)
         /\ Gone(tab, del) \in SUBSET Buckets(n)
         /\ Live(tab) \cap Gone(tab, del) = {} /\ Used(tab) = Live(tab) \cup Gone(tab, del)
         /\ \A S \in {Live(tab), Used(tab), Gone(tab, del)} :
              IsFiniteSet(S) /\ Cardinality(S) \in Nat /\ Cardinality(S) <= n
         /\ Cardinality(Used(tab)) = Cardinality(Live(tab)) + Cardinality(Gone(tab, del))
<1>0. n \in Sizes /\ n \in Nat /\ del \in Mark \cup {NoKey} /\ tab \in [Buckets(n) -> BucketOf(del)]
  BY SizesArePowers DEF Layout
<1>1. /\ Live(tab) \in SUBSET Buckets(n) /\ Used(tab) \in SUBSET Buckets(n)
      /\ Gone(tab, del) \in SUBSET Buckets(n)
  BY <1>0 DEF Live, Used, Gone
<1>2. Live(tab) \cap Gone(tab, del) = {}
  BY <1>0, KeysApart DEF Live, Gone
<1>3. \A b \in Buckets(n) : tab[b].key \in Key \cup {EmptyKey} \cup ({del} \ {NoKey})
  BY <1>0 DEF BucketOf
<1>4. del # EmptyKey
  BY <1>0, KeysApart
<1>5. Used(tab) = Live(tab) \cup Gone(tab, del)
  BY <1>0, <1>3, <1>4, KeysApart DEF Live, Used, Gone
<1>6. \A S \in {Live(tab), Used(tab), Gone(tab, del)} :
         IsFiniteSet(S) /\ Cardinality(S) \in Nat /\ Cardinality(S) <= n
  BY <1>0, <1>1, BucketsFinite
<1>7. Cardinality(Used(tab)) = Cardinality(Live(tab)) + Cardinality(Gone(tab, del))
  <2>1. Cardinality(Live(tab) \cap Gone(tab, del)) = 0
    BY <1>2, FS_EmptySet
  <2> QED BY <1>5, <1>6, <2>1, FS_Union
<1> QED BY <1>1, <1>2, <1>5, <1>6, <1>7

(* What the kinds of buckets are in a table in which searches are right, and*)
(* what its counts say.                                                    *)
LEMMA SoundKinds ==
  ASSUME NEW t, Sound(t)
  PROVE  /\ t.num_buckets \in Sizes /\ t.num_buckets \in Nat \ {0} /\ DOMAIN t.table = Buckets(t.num_buckets)
         /\ t.use_empty /\ t.ok /\ t.num_elements \in Nat /\ t.num_deleted \in Nat
         /\ Layout(t.table, t.num_buckets, t.delkey) /\ t.delkey \in Mark \cup {NoKey}
         /\ Occupied(t) = Live(t.table)
         /\ \A b \in Buckets(t.num_buckets) : test_empty(t, b) <=> b \notin Used(t.table)
         /\ \A b \in Buckets(t.num_buckets) : test_deleted(t, b) <=> b \in Gone(t.table, t.delkey)
         /\ size(t) = Cardinality(Live(t.table)) /\ size(t) \in Nat
         /\ size(t) <= t.num_elements /\ t.num_elements < t.num_buckets
<1> DEFINE n == t.num_buckets
           Lv == Live(t.table)
           Us == Used(t.table)
           Go == Gone(t.table, t.delkey)
<1>1. /\ n \in Sizes /\ n \in Nat \ {0} /\ DOMAIN t.table = Buckets(n)
      /\ Layout(t.table, n, t.delkey) /\ t.num_elements \in Nat /\ t.num_deleted \in Nat
      /\ t.num_elements = Cardinality(Us) /\ t.num_deleted = Cardinality(Go)
      /\ t.use_empty /\ t.ok /\ t.delkey \in Mark \cup {NoKey}
      /\ t.num_elements < n
  BY SizesArePowers DEF Sound, Fields, Layout, Counted
<1>2. /\ Lv \in SUBSET Buckets(n) /\ Us \in SUBSET Buckets(n) /\ Go \in SUBSET Buckets(n)
      /\ Lv \cap Go = {} /\ Us = Lv \cup Go
      /\ IsFiniteSet(Go) /\ Cardinality(Lv) \in Nat
      /\ Cardinality(Us) = Cardinality(Lv) + Cardinality(Go)
  BY <1>1, BucketKinds
<1>3. \A b \in Buckets(n) : test_empty(t, b) <=> b \notin Us
  BY <1>1 DEF test_empty, Used
<1>4. \A b \in Buckets(n) : test_deleted(t, b) <=> b \in Go
  <2>1. Cardinality(Go) = 0 => Go = {}
    BY <1>2, FS_EmptySet
  <2>2. t.num_deleted > 0 \/ Go = {}
    BY <1>1, <2>1
  <2>3. Go # {} => Cardinality(Go) # 0
    BY <2>1
  <2> QED BY <1>1, <2>2, <2>3 DEF test_deleted, Gone
<1>5. Occupied(t) = Lv
  BY <1>1, <1>2, <1>3, <1>4 DEF Occupied
<1> HIDE DEF n, Lv, Us, Go
<1>6. size(t) = Cardinality(Lv) /\ size(t) \in Nat /\ size(t) <= t.num_elements
  BY <1>1, <1>2 DEF size
<1> QED BY <1>1, <1>3, <1>4, <1>5, <1>6 DEF n, Lv, Us, Go

(* A table with an empty bucket: a search ends, at the bucket of the key if *)
(* there is one, and else where an entry with the key may be put.           *)
LEMMA SearchRight ==
  ASSUME NEW t, Sound(t), NEW k \in Key
  PROVE  /\ ~Full(t, k) /\ Position(t, k) \in Buckets(t.num_buckets)
         /\ Holds(t, k) => Position(t, k) \in Live(t.table) /\ t.table[Position(t, k)].key = k
         /\ ~Holds(t, k) =>
              /\ \A b \in Live(t.table) : t.table[b].key # k
              /\ InsertPosition(t, k) \in Buckets(t.num_buckets) \ Live(t.table)
              /\ OnPath(t.table, t.num_buckets, k, InsertPosition(t, k))
              /\ InsertPosition(t, k) \notin Gone(t.table, t.delkey) =>
                   InsertPosition(t, k) \notin Used(t.table)
<1> DEFINE n == t.num_buckets
           tab == t.table
           P(i) == Probe(n, k, i)
           last == LastProbe(t, k)
           Us == Used(tab)
           Lv == Live(tab)
           Go == Gone(tab, t.delkey)
<1>1. /\ n \in Sizes /\ n \in Nat \ {0} /\ DOMAIN tab = Buckets(n)
      /\ Layout(tab, n, t.delkey) /\ t.num_elements < n /\ t.num_elements = Cardinality(Us)
      /\ Us \in SUBSET Buckets(n) /\ Us = Lv \cup Go /\ Lv \cap Go = {}
      /\ \A b \in Buckets(n) : test_empty(t, b) <=> b \notin Us
      /\ \A b \in Buckets(n) : test_deleted(t, b) <=> b \in Go
      /\ t.use_empty
  <2> USE SoundKinds
  <2>1. Layout(tab, n, t.delkey)
    OBVIOUS
  <2>2. t.num_elements = Cardinality(Us)
    BY DEF Sound, Counted
  <2> QED BY <2>1, <2>2, BucketKinds
<1>2. /\ \A i \in Buckets(n) : P(i) \in Buckets(n)
      /\ \A i, j \in Buckets(n) : P(i) = P(j) => i = j
      /\ \A b \in Buckets(n) : \E i \in Buckets(n) : P(i) = b
  BY <1>1, EveryBucketProbed
<1> DEFINE ends == {i \in Buckets(n) : Ends(t, k, i)}
<1>3. \A i \in Buckets(n) : i \in ends <=> P(i) \notin Us \/ (P(i) \notin Go /\ tab[P(i)].key = k)
  BY <1>1, <1>2 DEF Ends
<1>4. ends # {}
  <2>1. PICK b \in Buckets(n) : b \notin Us
    <3>1. Cardinality(Buckets(n)) = n
      BY <1>1, FullBuckets
    <3>2. Us # Buckets(n)
      BY <1>1, <3>1
    <3> QED BY <1>1, <3>2
  <2>2. PICK i \in Buckets(n) : P(i) = b
    BY <1>2, <2>1
  <2> QED BY <1>3, <2>1, <2>2
<1>5. ends \in SUBSET Nat
  BY <1>1 DEF Buckets
<1>6. last = Min(ends)
  BY <1>4 DEF LastProbe
<1>7. last \in ends /\ last \in Buckets(n) /\ \A i \in Buckets(n) : i < last => i \notin ends
  <2>0. last \in ends /\ \A i \in ends : last <= i
    <3> HIDE DEF ends, last
    <3> QED BY <1>4, <1>5, <1>6, MinOf
  <2>1. last \in Nat /\ \A i \in ends : i \in Nat /\ last <= i
    BY <1>5, <2>0
  <2>2. \A i \in Buckets(n) : i < last => i \notin ends
    <3> HIDE DEF last, ends
    <3> QED BY <1>1, <2>1 DEF Buckets
  <2> QED BY <2>0, <2>2
<1>8. Position(t, k) = P(last) /\ Position(t, k) \in Buckets(n)
  BY <1>2, <1>7 DEF Position
<1>9. ~Full(t, k)
  BY <1>1, <1>7 DEF Full, Buckets
<1> HIDE DEF last, ends
<1>10. \A j \in Buckets(last) : j \in Buckets(n) /\ j # last /\ P(j) \in Us /\ (P(j) \in Go \/ tab[P(j)].key # k)
  <2>1. \A j \in Buckets(last) : j \in Buckets(n) /\ j < last /\ j # last
    BY <1>1, <1>7, Earlier
  <2> QED BY <1>3, <1>7, <2>1
<1>11. Holds(t, k) => Position(t, k) \in Lv /\ tab[Position(t, k)].key = k
  BY <1>1, <1>8 DEF Holds, Live
<1>12. ASSUME ~Holds(t, k)
       PROVE  /\ \A b \in Lv : tab[b].key # k
              /\ InsertPosition(t, k) \in Buckets(n) \ Lv
              /\ OnPath(tab, n, k, InsertPosition(t, k))
              /\ InsertPosition(t, k) \notin Go => InsertPosition(t, k) \notin Us
  <2>1. P(last) \notin Us /\ tab[P(last)].key # k
    BY <1>3, <1>7, <1>8, <1>9, <1>12 DEF Holds
  <2>2. tab[P(last)].key = EmptyKey
    BY <1>1, <1>8, <2>1 DEF Used
  <2>3. ASSUME NEW b \in Lv, tab[b].key = k PROVE FALSE
    <3>1. OnPath(tab, n, k, b)
      BY <1>1, <2>3 DEF Layout, Paths
    <3>2. PICK i \in Buckets(n) : P(i) = b /\ \A j \in Buckets(i) : tab[P(j)].key # EmptyKey
      BY <3>1 DEF OnPath
    <3>3. ~(last \in Buckets(i))
      BY <2>2, <3>2
    <3>4. i # last
      BY <2>1, <2>3, <3>2
    <3>5. i \in Buckets(last)
      BY <1>1, <1>7, <3>3, <3>4 DEF Buckets
    <3>6. b \in Go
      BY <1>10, <2>3, <3>2, <3>5
    <3> QED BY <1>1, <2>3, <3>6
  <2>4. \A j \in Buckets(last) : tab[P(j)].key # EmptyKey
    BY <1>1, <1>10 DEF Used
  <2> DEFINE gone == {i \in Buckets(last) : test_deleted(t, P(i))}
  <2>5. CASE gone = {}
    <3>1. InsertPosition(t, k) = P(last)
      BY <1>8, <2>5 DEF InsertPosition, last
    <3>2. OnPath(tab, n, k, P(last))
      BY <1>7, <2>4 DEF OnPath
    <3> QED BY <1>1, <1>8, <2>1, <2>3, <3>1, <3>2
  <2>6. CASE gone # {}
    <3> DEFINE m == Min(gone)
    <3>1. InsertPosition(t, k) = P(m)
      BY <2>6 DEF InsertPosition, last
    <3>2. m \in gone
      <4>1. gone \in SUBSET Nat
        BY <1>1, <1>7 DEF Buckets
      <4> HIDE DEF gone
      <4> QED BY <2>6, <4>1, MinOf
    <3> HIDE DEF m
    <3>3. m \in Buckets(last) /\ m \in Buckets(n) /\ P(m) \in Go /\ P(m) \in Buckets(n) /\ P(m) \in Us
      BY <1>1, <1>2, <1>10, <3>2
    <3>4. \A j \in Buckets(m) : j \in Buckets(last)
      BY <1>1, <1>7, <3>3 DEF Buckets
    <3>5. OnPath(tab, n, k, P(m))
      BY <2>4, <3>3, <3>4 DEF OnPath
    <3> QED BY <1>1, <2>3, <3>1, <3>3, <3>5
  <2> QED BY <2>5, <2>6
<1> QED BY <1>8, <1>9, <1>11, <1>12

-----------------------------------------------------------------------------
(* insert_at and insert_noresize; min_buckets. *)

(* What no call but one changes. *)
Kept(u, t) ==
  u.use_empty = t.use_empty /\ u.delkey = t.delkey /\ u.grow = t.grow /\ u.shrink = t.shrink

(* insert_at, of a key that is not there, in a bucket where it may be.     *)
LEMMA InsertedAtSound ==
  ASSUME NEW t, Sound(t), t.num_elements + 1 < t.num_buckets,
         NEW k \in Key, NEW v \in Value, NEW b \in Buckets(t.num_buckets) \ Live(t.table),
         OnPath(t.table, t.num_buckets, k, b),
         \A c \in Live(t.table) : t.table[c].key # k
  PROVE  LET u == InsertedAt(t, k, v, b)
         IN  /\ Sound(u) /\ Kept(u, t) /\ u.num_buckets = t.num_buckets
             /\ u.num_elements <= t.num_elements + 1
             /\ Contents(u.table) = Contents(t.table) \cup {Bucket(k, v)}
<1> DEFINE u == InsertedAt(t, k, v, b)
           new == [t.table EXCEPT ![b] = Bucket(k, v)]
           n == t.num_buckets
           Go == Gone(t.table, t.delkey)
           Us == Used(t.table)
<1>1. /\ n \in Sizes /\ n \in Nat \ {0} /\ Layout(t.table, n, t.delkey) /\ t.delkey \in Mark \cup {NoKey}
      /\ test_deleted(t, b) <=> b \in Go
      /\ t.num_elements = Cardinality(Us) /\ t.num_deleted = Cardinality(Go)
      /\ t.num_elements \in Nat /\ t.num_deleted \in Nat
  <2>1. t.num_elements = Cardinality(Us) /\ t.num_deleted = Cardinality(Go)
    BY DEF Sound, Counted
  <2>2. b \in Buckets(n)
    OBVIOUS
  <2> HIDE DEF Us, Go
  <2> QED BY <2>1, <2>2, SoundKinds DEF Go
<1>2. /\ Layout(new, n, t.delkey) /\ Used(new) = Us \cup {b} /\ Gone(new, t.delkey) = Go \ {b}
      /\ Contents(new) = Contents(t.table) \cup {Bucket(k, v)}
  BY <1>1, PutLayout
<1>3. IsFiniteSet(Us) /\ IsFiniteSet(Go) /\ Us = Live(t.table) \cup Go
  BY <1>1, BucketKinds
<1>4. /\ Cardinality(Used(new)) = IF b \in Go THEN Cardinality(Us) ELSE Cardinality(Us) + 1
      /\ Cardinality(Gone(new, t.delkey)) = IF b \in Go THEN Cardinality(Go) - 1 ELSE Cardinality(Go)
      /\ Cardinality(Gone(new, t.delkey)) \in Nat
  <2> HIDE DEF new, Us, Go
  <2>0. b \notin Live(t.table)
    OBVIOUS
  <2>1. Cardinality(Us \cup {b}) = IF b \in Us THEN Cardinality(Us) ELSE Cardinality(Us) + 1
    BY <1>3, FS_AddElement
  <2>2. Cardinality(Go \ {b}) = IF b \in Go THEN Cardinality(Go) - 1 ELSE Cardinality(Go)
    BY <1>3, FS_RemoveElement
  <2>3. IsFiniteSet(Go \ {b}) /\ Cardinality(Go \ {b}) \in Nat
    BY <1>3, FS_Subset, FS_CardinalityType
  <2> QED BY <1>2, <1>3, <2>0, <2>1, <2>2, <2>3
<1>5. Fields(t)
  BY DEF Sound
<1> HIDE DEF new, n, Go, Us
<1>6. /\ u.table = new /\ u.num_buckets = t.num_buckets /\ u.delkey = t.delkey /\ Kept(u, t)
      /\ u.num_elements = Cardinality(Used(new)) /\ u.num_deleted = Cardinality(Gone(new, t.delkey))
  <2>1. u.table = new /\ u.num_buckets = t.num_buckets /\ u.delkey = t.delkey /\ Kept(u, t)
    BY <1>5 DEF InsertedAt, Fields, Kept, new
  <2>2. /\ u.num_elements = IF test_deleted(t, b) THEN t.num_elements ELSE t.num_elements + 1
        /\ u.num_deleted = IF test_deleted(t, b) THEN t.num_deleted - 1 ELSE t.num_deleted
    BY <1>5 DEF InsertedAt, Fields
  <2> QED BY <1>1, <1>4, <2>1, <2>2
<1>7. Fields(u)
  <2>1. u.num_elements \in Nat /\ u.num_deleted \in Nat
    BY <1>1, <1>4, <1>6
  <2> QED BY <1>5, <1>6, <2>1 DEF InsertedAt, Fields
<1>8. Thresholds(u)
  BY <1>6 DEF Sound, Thresholds, Kept
<1>9. u.num_elements <= t.num_elements + 1 /\ u.num_elements < u.num_buckets
  BY <1>1, <1>4, <1>6 DEF n
<1>10. u.use_empty
  BY <1>6 DEF Sound, Kept
<1> HIDE DEF u
<1> QED BY <1>2, <1>6, <1>7, <1>8, <1>9, <1>10 DEF Sound, Counted, u, n

(* insert_noresize, with a bucket to spare. *)
LEMMA InsertedNoresizeSound ==
  ASSUME NEW t, Sound(t), t.num_elements + 1 < t.num_buckets, NEW k \in Key, NEW v \in Value
  PROVE  LET u == InsertedNoresize(t, k, v)
         IN  /\ Sound(u) /\ Kept(u, t) /\ u.num_buckets = t.num_buckets
             /\ u.num_elements <= t.num_elements + 1
             /\ Contents(u.table) =
                  IF Holds(t, k) THEN Contents(t.table) ELSE Contents(t.table) \cup {Bucket(k, v)}
<1>1. NotSpecial(t, k) /\ ~Full(t, k)
  BY SearchRight, SoundKinds, KeysApart DEF NotSpecial
<1>2. CASE Holds(t, k)
  <2>1. InsertedNoresize(t, k, v) = t
    BY <1>1, <1>2 DEF InsertedNoresize
  <2>2. t.num_elements <= t.num_elements + 1
    BY SoundKinds
  <2> QED BY <1>2, <2>1, <2>2 DEF Kept
<1>3. CASE ~Holds(t, k)
  <2> DEFINE b == InsertPosition(t, k)
  <2>1. InsertedNoresize(t, k, v) = InsertedAt(t, k, v, b)
    BY <1>1, <1>3 DEF InsertedNoresize
  <2>2. /\ b \in Buckets(t.num_buckets) \ Live(t.table) /\ OnPath(t.table, t.num_buckets, k, b)
        /\ \A c \in Live(t.table) : t.table[c].key # k
    BY <1>3, SearchRight
  <2> HIDE DEF b
  <2> QED BY <1>3, <2>1, <2>2, InsertedAtSound
<1> QED BY <1>2, <1>3

(* How large a table is made. *)
LEMMA SizesAreNumbers == Sizes \in SUBSET Nat
BY SizesArePowers

(* A percentage below 100 leaves an empty bucket. *)
LEMMA EnlargeBelow ==
  ASSUME NEW n \in Nat \ {0}, NEW g \in 1 .. 99
  PROVE  (n * g) \div 100 \in Nat /\ (n * g) \div 100 < n
<1> DEFINE x == n * g
<1>1. x \in Nat /\ x < n * 100
  BY SMT
<1> HIDE DEF x
<1>2. x \div 100 \in Nat /\ x \div 100 < n
  BY <1>1, SMT
<1> QED BY <1>2 DEF x

(* min_buckets: the least size with the room that is asked for, or 0.      *)
LEMMA MinBucketsRight ==
  ASSUME NEW t, Fields(t), NEW elts \in Nat, NEW wanted \in Nat,
         NEW n, n = MinBucketsFor(t, elts, wanted)
  PROVE  /\ n \in Nat
         /\ n # 0 => n \in Sizes /\ n >= wanted /\ elts < EnlargeSize(t, n) /\ elts < n
         /\ \A m \in Sizes : m >= wanted /\ elts < EnlargeSize(t, m) => n # 0 /\ n <= m
<1> DEFINE enough == {m \in Sizes : m >= wanted /\ elts < EnlargeSize(t, m)}
<1>1. n = IF enough = {} THEN 0 ELSE Min(enough)
  BY DEF MinBucketsFor
<1>2. \A m \in Sizes : m \in Nat \ {0} /\ EnlargeSize(t, m) \in Nat /\ EnlargeSize(t, m) < m
  BY SizesArePowers, EnlargeBelow DEF EnlargeSize, Fields
<1>3. enough \in SUBSET Nat
  BY SizesAreNumbers
<1>4. enough # {} => Min(enough) \in enough /\ \A m \in enough : Min(enough) <= m
  <2> HIDE DEF enough
  <2> QED BY <1>3, MinOf
<1>5. CASE enough = {}
  BY <1>1, <1>5
<1>6. CASE enough # {}
  <2>1. n \in enough /\ \A m \in enough : n <= m
    BY <1>1, <1>4, <1>6
  <2>2. n \in Sizes /\ n >= wanted /\ elts < EnlargeSize(t, n)
    BY <2>1
  <2>3. n \in Nat \ {0} /\ elts < n
    <3>1. EnlargeSize(t, n) \in Nat /\ EnlargeSize(t, n) < n /\ n \in Nat \ {0}
      BY <1>2, <2>2
    <3> QED BY <2>2, <3>1
  <2>4. \A m \in Sizes : m >= wanted /\ elts < EnlargeSize(t, m) => m \in enough
    OBVIOUS
  <2> QED BY <2>1, <2>2, <2>3, <2>4
<1> QED BY <1>5, <1>6

(* An empty table always fits. *)
LEMMA SomeSizeFits ==
  ASSUME NEW t, Fields(t), Thresholds(t)
  PROVE  MinBucketsFor(t, 0, 0) \in Sizes
<1>1. PICK n \in Sizes : n * t.grow >= 100
  BY DEF Thresholds
<1>2. n \in Nat \ {0} /\ t.grow \in 1 .. 99
  BY SizesArePowers DEF Fields
<1>3. 0 < EnlargeSize(t, n)
  <2> DEFINE x == n * t.grow
  <2>1. x \in Nat /\ x >= 100
    BY <1>1, <1>2, SMT
  <2> HIDE DEF x
  <2>2. 0 < x \div 100
    BY <2>1, SMT
  <2> QED BY <2>2 DEF x, EnlargeSize
<1>4. n >= 0
  BY <1>2
<1> QED BY <1>3, <1>4, MinBucketsRight

-----------------------------------------------------------------------------
(* clear_to_size, and copy_from for one entry. *)

(* A table that is being copied into: nothing in it is deleted. *)
Fresh(u, n) == Sound(u) /\ u.num_buckets = n /\ u.num_deleted = 0 /\ ~u.consider_shrink

(* clear_to_size. *)
LEMMA ClearedSound ==
  ASSUME NEW t, Fields(t), Thresholds(t), t.use_empty, NEW n \in Sizes
  PROVE  LET u == Cleared(t, n)
         IN  Fresh(u, n) /\ Kept(u, t) /\ Contents(u.table) = {} /\ u.num_elements = 0
<1> DEFINE u == Cleared(t, n)
           tab == [b \in Buckets(n) |-> Vacant]
<1>1. t.delkey \in Mark \cup {NoKey}
  BY DEF Fields
<1>2. /\ Layout(tab, n, t.delkey) /\ Used(tab) = {} /\ Gone(tab, t.delkey) = {} /\ Contents(tab) = {}
  BY <1>1, VacantLayout
<1>3. n \in Nat \ {0}
  BY SizesArePowers
<1> HIDE DEF tab
<1>4. /\ u.table = tab /\ u.num_buckets = n /\ u.num_elements = 0 /\ u.num_deleted = 0
      /\ u.consider_shrink = FALSE /\ Kept(u, t)
  BY DEF Cleared, Fields, Kept, tab
<1>5. Fields(u)
  BY <1>4 DEF Cleared, Fields
<1>6. Thresholds(u)
  BY <1>4 DEF Kept, Thresholds
<1>7. Counted(u)
  BY <1>2, <1>4, FS_EmptySet DEF Counted, Kept
<1> HIDE DEF u
<1> QED BY <1>2, <1>3, <1>4, <1>5, <1>6, <1>7 DEF Sound, Fresh, Kept, u

(* One entry is put in a table that is copied into, with a bucket to spare.*)
LEMMA PutSound ==
  ASSUME NEW t, NEW n, Fresh(t, n), t.num_elements + 1 < n, NEW k \in Key, NEW v \in Value,
         \A c \in Live(t.table) : t.table[c].key # k
  PROVE  LET u == Put(t, Bucket(k, v))
         IN  /\ Fresh(u, n) /\ Kept(u, t) /\ u.num_elements = t.num_elements + 1
             /\ Contents(u.table) = Contents(t.table) \cup {Bucket(k, v)}
<1> DEFINE tab == t.table
           P(i) == Probe(n, k, i)
           free == {i \in Buckets(n) : test_empty(t, P(i))}
           m == Min(free)
           u == Put(t, Bucket(k, v))
           new == [t.table EXCEPT ![P(m)] = Bucket(k, v)]
<1>1. /\ n \in Sizes /\ n \in Nat \ {0} /\ DOMAIN tab = Buckets(n) /\ Layout(tab, n, t.delkey)
      /\ t.num_elements = Cardinality(Used(tab)) /\ t.num_elements \in Nat
      /\ \A b \in Buckets(n) : test_empty(t, b) <=> b \notin Used(tab)
      /\ t.num_buckets = n /\ t.num_deleted = 0 /\ ~t.consider_shrink
      /\ Cardinality(Gone(tab, t.delkey)) = 0
  BY SoundKinds DEF Fresh, Sound, Counted
<1>2. /\ Used(tab) \in SUBSET Buckets(n) /\ IsFiniteSet(Used(tab)) /\ IsFiniteSet(Gone(tab, t.delkey))
      /\ Used(tab) = Live(tab) \cup Gone(tab, t.delkey)
  BY <1>1, BucketKinds
<1>3. Gone(tab, t.delkey) = {} /\ Used(tab) = Live(tab)
  BY <1>1, <1>2, FS_EmptySet
<1>4. /\ \A i \in Buckets(n) : P(i) \in Buckets(n)
      /\ \A b \in Buckets(n) : \E i \in Buckets(n) : P(i) = b
  BY <1>1, EveryBucketProbed
<1>5. free # {}
  <2>1. Used(tab) # Buckets(n)
    BY <1>1, FullBuckets
  <2>2. PICK b \in Buckets(n) : b \notin Used(tab)
    BY <1>2, <2>1
  <2> QED BY <1>1, <1>4, <2>2
<1>6. m \in free /\ \A i \in free : m <= i
  <2>1. free \in SUBSET Nat
    BY <1>1 DEF Buckets
  <2> HIDE DEF free
  <2> QED BY <1>5, <2>1, MinOf
<1>7. u = [t EXCEPT !.table[P(m)] = Bucket(k, v), !.num_elements = @ + 1]
  <2>1. Bucket(k, v).key = k
    BY BucketFields
  <2> QED BY <1>1, <1>5, <2>1 DEF Put
<1> HIDE DEF free, m
<1>8. m \in Buckets(n) /\ P(m) \in Buckets(n) /\ P(m) \notin Used(tab)
  BY <1>1, <1>4, <1>6 DEF free
<1>9. \A j \in Buckets(m) : tab[P(j)].key # EmptyKey
  <2> SUFFICES ASSUME NEW j \in Buckets(m) PROVE tab[P(j)].key # EmptyKey
    OBVIOUS
  <2>1. j \in Buckets(n) /\ j < m /\ m \in Nat /\ j \in Nat
    BY <1>1, <1>8, Earlier DEF Buckets
  <2>2. j \notin free
    BY <1>6, <2>1
  <2>3. ~test_empty(t, P(j))
    BY <2>1, <2>2 DEF free
  <2> QED BY <2>3 DEF test_empty
<1>10. OnPath(tab, n, k, P(m))
  BY <1>8, <1>9 DEF OnPath
<1> HIDE DEF P
<1>11. /\ Layout(new, n, t.delkey) /\ Used(new) = Used(tab) \cup {P(m)}
       /\ Gone(new, t.delkey) = Gone(tab, t.delkey) \ {P(m)}
       /\ Contents(new) = Contents(t.table) \cup {Bucket(k, v)}
  BY <1>1, <1>3, <1>8, <1>10, PutLayout
<1>12. Cardinality(Used(new)) = t.num_elements + 1 /\ Cardinality(Gone(new, t.delkey)) = 0
  <2> HIDE DEF new
  <2> QED BY <1>1, <1>2, <1>3, <1>8, <1>11, FS_AddElement, FS_EmptySet
<1>13. Fields(t)
  BY DEF Fresh, Sound
<1> HIDE DEF new, u
<1>14. /\ u.table = new /\ u.num_buckets = n /\ u.num_elements = t.num_elements + 1
       /\ u.num_deleted = 0 /\ ~u.consider_shrink /\ Kept(u, t)
  <2> DEFINE e == Bucket(k, v)
             q == P(m)
  <2>1. u = [t EXCEPT !.table = [@ EXCEPT ![q] = e], !.num_elements = @ + 1]
    BY <1>7
  <2>2. new = [t.table EXCEPT ![q] = e]
    BY DEF new
  <2> HIDE DEF e, q
  <2> QED BY <1>1, <1>13, <2>1, <2>2 DEF Fields, Kept
<1>15. Fields(u)
  <2> DEFINE e == t.num_elements + 1
  <2>1. u = [t EXCEPT !.table = new, !.num_elements = e]
    BY <1>7, <1>13 DEF new, Fields
  <2>2. e \in Nat
    BY <1>1
  <2> HIDE DEF e
  <2> QED BY <1>13, <2>1, <2>2 DEF Fields
<1>16. Thresholds(u)
  BY <1>14 DEF Fresh, Sound, Thresholds, Kept
<1> QED BY <1>1, <1>11, <1>12, <1>14, <1>15, <1>16 DEF Fresh, Sound, Counted, u, new, Kept

-----------------------------------------------------------------------------
(* copy_from. *)

(* The tables the loop of copy_from can make, right or not. *)
Loops(t, n) ==
  [table : [Buckets(n) -> BucketOf(t.delkey)], num_buckets : {n}, num_elements : Nat,
   num_deleted : {0}, use_empty : {TRUE}, delkey : {t.delkey}, consider_shrink : {FALSE},
   grow : {t.grow}, shrink : {t.shrink}, ok : BOOLEAN]

(* Whatever is put, it is still a table the loop can make. *)
LEMMA PutLoops ==
  ASSUME NEW t, NEW n \in Sizes, NEW u \in Loops(t, n), NEW k \in Key, NEW v \in Value
  PROVE  Put(u, Bucket(k, v)) \in Loops(t, n)
<1> DEFINE e == Bucket(k, v)
           free == {i \in Buckets(u.num_buckets) : test_empty(u, Probe(u.num_buckets, e.key, i))}
           b == Probe(u.num_buckets, e.key, Min(free))
<1>1. u.num_buckets = n /\ n \in Nat \ {0} /\ u.table \in [Buckets(n) -> BucketOf(t.delkey)]
  BY SizesArePowers DEF Loops
<1>2. e.key = k /\ e \in BucketOf(t.delkey)
  BY BucketFields
<1>3. CASE free = {}
  <2>1. Put(u, e) = [u EXCEPT !.ok = FALSE]
    BY <1>3 DEF Put, Fail
  <2> QED BY <2>1 DEF Loops
<1>4. CASE free # {}
  <2>0. Put(u, e) = [u EXCEPT !.table[b] = e, !.num_elements = @ + 1]
    BY <1>4 DEF Put
  <2>1. Min(free) \in Buckets(n)
    <3>1. free \in SUBSET Nat /\ free \subseteq Buckets(n)
      BY <1>1 DEF Buckets
    <3> HIDE DEF free
    <3> QED BY <1>4, <3>1, MinOf
  <2>2. b \in Buckets(n)
    <3> HIDE DEF free
    <3> QED BY <1>1, <1>2, <2>1, EveryBucketProbed
  <2> HIDE DEF b, e
  <2> DEFINE new == [u.table EXCEPT ![b] = e]
             c == u.num_elements + 1
  <2>3. new \in [Buckets(n) -> BucketOf(t.delkey)]
    BY <1>1, <1>2, <2>2
  <2>4. c \in Nat
    BY DEF Loops
  <2>5. Put(u, e) = [u EXCEPT !.table = new, !.num_elements = c]
    BY <2>0
  <2> HIDE DEF new, c
  <2>6. [u EXCEPT !.table = new, !.num_elements = c] \in Loops(t, n)
    BY <2>3, <2>4 DEF Loops
  <2> QED BY <2>5, <2>6 DEF e
<1> QED BY <1>3, <1>4

(* What is copied when the loop has seen the first b buckets. *)
Before(t, b) == {c \in Live(t.table) : c < b}

Copied(t, n, b, u) ==
  /\ Fresh(u, n) /\ Kept(u, t)
  /\ u.num_elements = Cardinality(Before(t, b))
  /\ Contents(u.table) = At(t.table, Before(t, b))

(* An entry is its key and its value. *)
LEMMA EntryFields ==
  ASSUME NEW tab, NEW n, NEW del, Layout(tab, n, del), NEW b \in Live(tab)
  PROVE  /\ b \in Buckets(n) /\ b \in Nat /\ b < n
         /\ tab[b].key \in Key /\ tab[b].value \in Value /\ tab[b] = Bucket(tab[b].key, tab[b].value)
<1>1. n \in Nat /\ tab \in [Buckets(n) -> BucketOf(del)]
  BY SizesArePowers DEF Layout
<1>2. b \in Buckets(n) /\ b \in Nat /\ b < n /\ tab[b] \in BucketOf(del) /\ tab[b].key \in Key
  BY <1>1 DEF Live, Buckets
<1> DEFINE e == tab[b]
<1>3. e = Bucket(e.key, e.value) /\ e.value \in Value
  <2>1. e \in BucketOf(del)
    BY <1>2
  <2> HIDE DEF e
  <2> QED BY <2>1 DEF BucketOf, Bucket
<1> QED BY <1>2, <1>3

(* copy_from: the entries are the same, and none is deleted. *)
LEMMA CopiedFromRight ==
  ASSUME NEW t, Sound(t), NEW n \in Sizes, size(t) < n
  PROVE  LET u == CopiedFrom(t, n)
         IN  /\ Fresh(u, n) /\ Kept(u, t) /\ u.num_elements = size(t)
             /\ Contents(u.table) = Contents(t.table)
<1> DEFINE N == t.num_buckets
           S == Loops(t, n)
           E(b, u) == IF b - 1 \in Occupied(t) THEN Put(u, t.table[b - 1]) ELSE u
           Is(g) == g = [b \in 0 .. N |-> IF b = 0 THEN Cleared(t, n) ELSE E(b, g[b - 1])]
           upTo == CHOOSE g : Is(g)
           start == Cleared(t, n)
<1>0. CopiedFrom(t, n) = upTo[N]
  BY DEF CopiedFrom
<1>1. /\ N \in Sizes /\ N \in Nat \ {0} /\ n \in Nat \ {0} /\ Occupied(t) = Live(t.table)
      /\ Layout(t.table, N, t.delkey) /\ size(t) = Cardinality(Live(t.table)) /\ size(t) \in Nat
      /\ Fields(t) /\ Thresholds(t) /\ t.use_empty
  BY SoundKinds, SizesArePowers DEF Sound
<1>2. \A b \in Live(t.table) :
        /\ b \in Nat /\ b < N
        /\ t.table[b].key \in Key /\ t.table[b].value \in Value
        /\ t.table[b] = Bucket(t.table[b].key, t.table[b].value)
  BY <1>1, EntryFields
<1>3. start \in S
  <2> DEFINE tab == [b \in Buckets(n) |-> Vacant]
  <2>1. tab \in [Buckets(n) -> BucketOf(t.delkey)]
    BY BucketFields
  <2>2. start = [t EXCEPT !.table = tab, !.num_buckets = n,
                          !.num_elements = 0, !.num_deleted = 0, !.consider_shrink = FALSE]
    BY DEF Cleared
  <2> HIDE DEF tab
  <2>3. Fields(t) /\ t.use_empty = TRUE
    BY DEF Sound, Fields
  <2> HIDE DEF start
  <2> QED BY <2>1, <2>2, <2>3 DEF Loops, Fields
<1>4. \A b \in 1 .. N, u \in S : E(b, u) \in S
  <2> SUFFICES ASSUME NEW b \in 1 .. N, NEW u \in S, b - 1 \in Occupied(t)
               PROVE  Put(u, t.table[b - 1]) \in S
    OBVIOUS
  <2> DEFINE k == t.table[b - 1].key
             v == t.table[b - 1].value
  <2>1. k \in Key /\ v \in Value /\ t.table[b - 1] = Bucket(k, v)
    BY <1>1, <1>2
  <2> HIDE DEF k, v
  <2> QED BY <2>1, PutLoops
<1>5. \E g : Is(g)
  <2> DEFINE step == [p \in (1 .. N) \X S |-> E(p[1], p[2])]
  <2>1. step \in [(1 .. N) \X S -> S]
    <3> HIDE DEF E, S
    <3> QED BY <1>4
  <2> HIDE DEF step, start, S
  <2>2. PICK g \in [0 .. N -> S] : Steps(N, start, step, g)
    BY <1>1, <1>3, <2>1, StepsExist
  <2>3. \A b \in 0 .. N : b # 0 => step[<<b, g[b - 1]>>] = E(b, g[b - 1])
    <3> HIDE DEF E
    <3> SUFFICES ASSUME NEW b \in 0 .. N, b # 0 PROVE step[<<b, g[b - 1]>>] = E(b, g[b - 1])
      OBVIOUS
    <3>1. b \in 1 .. N /\ g[b - 1] \in S
      BY <1>1, <2>2
    <3> QED BY <3>1 DEF step
  <2>4. Is(g)
    <3> HIDE DEF E
    <3> QED BY <2>2, <2>3 DEF Steps, start
  <2> QED BY <2>4
<1>6. Is(upTo)
  <2> HIDE DEF Is
  <2> QED BY <1>5
<1>7. upTo[0] = start /\ \A b \in 0 .. (N - 1) : upTo[b + 1] = E(b + 1, upTo[b])
  <2> HIDE DEF upTo, E, start
  <2>1. \A b \in 0 .. N : upTo[b] = IF b = 0 THEN Cleared(t, n) ELSE E(b, upTo[b - 1])
    BY <1>6
  <2>2. \A b \in 0 .. (N - 1) : b + 1 \in 0 .. N /\ b + 1 # 0 /\ (b + 1) - 1 = b
    BY <1>1
  <2> QED BY <1>1, <2>1, <2>2 DEF start
<1> HIDE DEF upTo, start, S, Is
<1> DEFINE R(b) == Copied(t, n, b, upTo[b])
           T == {b \in 0 .. N : R(b)}
<1>8. 0 \in T
  <2>1. Before(t, 0) = {}
    BY <1>2 DEF Before
  <2>2. Cardinality(Before(t, 0)) = 0 /\ At(t.table, Before(t, 0)) = {}
    BY <2>1, FS_EmptySet DEF At
  <2>3. Fresh(start, n) /\ Kept(start, t) /\ Contents(start.table) = {} /\ start.num_elements = 0
    BY <1>1, ClearedSound DEF start
  <2>4. Copied(t, n, 0, start)
    BY <2>2, <2>3 DEF Copied
  <2>5. R(0)
    BY <1>7, <2>4
  <2>6. 0 \in 0 .. N
    BY <1>1
  <2> HIDE DEF R
  <2> QED BY <2>5, <2>6
<1>9. ASSUME NEW b \in 0 .. (N - 1), b \in T PROVE b + 1 \in T
  <2> SUFFICES R(b + 1)
    <3>1. b + 1 \in 0 .. N
      BY <1>1
    <3> HIDE DEF R
    <3> QED BY <3>1
  <2> DEFINE u == upTo[b]
  <2>0. Copied(t, n, b, u) /\ b \in Nat /\ b + 1 \in 0 .. N
    BY <1>1, <1>9
  <2>1. upTo[b + 1] = IF b \in Live(t.table) THEN Put(u, t.table[b]) ELSE u
    BY <1>1, <1>7
  <2>2. /\ IsFiniteSet(Before(t, b)) /\ IsFiniteSet(Before(t, b + 1))
        /\ Cardinality(Before(t, b)) \in Nat
        /\ Cardinality(Before(t, b + 1)) <= Cardinality(Live(t.table))
    <3>1. IsFiniteSet(Live(t.table))
      BY <1>1, BucketKinds
    <3> QED BY <3>1, FS_Subset, FS_CardinalityType DEF Before
  <2> HIDE DEF u
  <2>3. CASE b \notin Live(t.table)
    <3>1. Before(t, b + 1) = Before(t, b)
      BY <1>2, <2>0, <2>3 DEF Before
    <3>2. Copied(t, n, b + 1, u)
      BY <2>0, <3>1 DEF Copied
    <3> QED BY <2>1, <2>3, <3>2
  <2>4. CASE b \in Live(t.table)
    <3> DEFINE k == t.table[b].key
               v == t.table[b].value
    <3>1. k \in Key /\ v \in Value /\ t.table[b] = Bucket(k, v) /\ Bucket(k, v).key = k
      BY <1>2, <2>4
    <3>2. Before(t, b + 1) = Before(t, b) \cup {b} /\ b \notin Before(t, b)
      BY <1>2, <2>0, <2>4 DEF Before
    <3>3. Cardinality(Before(t, b + 1)) = Cardinality(Before(t, b)) + 1
      BY <2>2, <3>2, FS_AddElement
    <3>4. u.num_elements + 1 < n
      BY <1>1, <2>0, <2>2, <3>3 DEF Copied
    <3>5. \A c \in Live(u.table) : u.table[c].key # k
      <4> SUFFICES ASSUME NEW c \in Live(u.table), u.table[c].key = k PROVE FALSE
        OBVIOUS
      <4>1. u.table[c] \in Contents(u.table)
        BY DEF Contents, At
      <4>2. PICK d \in Before(t, b) : u.table[c] = t.table[d]
        BY <2>0, <4>1 DEF Copied, At
      <4>3. d \in Live(t.table) /\ d # b /\ t.table[d].key = t.table[b].key
        BY <3>2, <4>2 DEF Before
      <4> QED BY <1>1, <2>4, <4>3 DEF Layout, Distinct
    <3> HIDE DEF k, v
    <3>6. LET w == Put(u, Bucket(k, v))
          IN  /\ Fresh(w, n) /\ Kept(w, u) /\ w.num_elements = u.num_elements + 1
              /\ Contents(w.table) = Contents(u.table) \cup {Bucket(k, v)}
      <4>1. Fresh(u, n)
        BY <2>0 DEF Copied
      <4> QED BY <3>1, <3>4, <3>5, <4>1, PutSound
    <3> DEFINE w == Put(u, Bucket(k, v))
    <3>7. upTo[b + 1] = w
      BY <2>1, <2>4, <3>1
    <3> HIDE DEF w
    <3>8. Contents(w.table) = At(t.table, Before(t, b + 1))
      <4>1. Contents(w.table) = Contents(u.table) \cup {t.table[b]}
        BY <3>1, <3>6 DEF w
      <4>2. Contents(u.table) = At(t.table, Before(t, b))
        BY <2>0 DEF Copied
      <4>3. At(t.table, Before(t, b) \cup {b}) = At(t.table, Before(t, b)) \cup {t.table[b]}
        BY DEF At
      <4> QED BY <3>2, <4>1, <4>2, <4>3
    <3>9. Copied(t, n, b + 1, w)
      BY <2>0, <3>3, <3>6, <3>8 DEF Copied, Kept, w
    <3> QED BY <3>7, <3>9
  <2> QED BY <2>3, <2>4
<1>10. N \in T
  <2> HIDE DEF T, N
  <2> QED BY <1>1, <1>8, <1>9, CountedInduction
<1>11. Before(t, N) = Live(t.table)
  BY <1>2 DEF Before
<1> QED BY <1>0, <1>1, <1>10, <1>11 DEF Copied, Contents, At

-----------------------------------------------------------------------------
(* The copies of a table, with an empty key or without. *)

(* A table for which no empty key has been set yet. *)
Unused(t) ==
  /\ Fields(t) /\ Thresholds(t) /\ ~t.use_empty
  /\ t.table = Nothing /\ t.num_elements = 0 /\ t.num_deleted = 0

Proper(t) == Sound(t) \/ Unused(t)

(* The table, built anew, and with the same entries. *)
Rebuilt(u, t) == Proper(u) /\ Kept(u, t) /\ Contents(u.table) = Contents(t.table)

(* A NULL table has no bucket. *)
LEMMA NothingInNothing == Live(Nothing) = {} /\ Contents(Nothing) = {} /\ DOMAIN Nothing = {}
<1>1. DOMAIN Nothing = {}
  BY DEF Nothing
<1> QED BY <1>1 DEF Live, Contents, At

(* The fields of a table, with an empty key or without. *)
LEMMA ProperKinds ==
  ASSUME NEW t, Proper(t)
  PROVE  /\ Fields(t) /\ Thresholds(t) /\ t.ok
         /\ t.num_buckets \in Sizes /\ t.num_buckets \in Nat \ {0}
         /\ t.num_elements \in Nat /\ size(t) \in Nat /\ size(t) <= t.num_elements
         /\ t.num_elements < t.num_buckets
         /\ t.grow \in 1 .. 99 /\ t.shrink \in Nat
<1>1. Fields(t) /\ Thresholds(t) /\ t.grow \in 1 .. 99 /\ t.shrink \in Nat /\ t.ok
  BY DEF Proper, Sound, Unused, Fields
<1>2. CASE Sound(t)
  BY <1>1, <1>2, SoundKinds
<1>3. CASE Unused(t)
  <2>1. t.num_buckets \in Sizes /\ t.num_buckets \in Nat \ {0}
    BY <1>1, SizesArePowers DEF Fields
  <2>2. t.num_elements = 0 /\ t.num_deleted = 0
    BY <1>3 DEF Unused
  <2>3. size(t) = 0
    BY <2>2 DEF size
  <2> QED BY <1>1, <2>1, <2>2, <2>3
<1> QED BY <1>2, <1>3 DEF Proper

(* Whether an empty key has been set tells the two apart. *)
LEMMA ProperApart ==
  ASSUME NEW t, Proper(t)
  PROVE  (t.use_empty => Sound(t)) /\ (~t.use_empty => Unused(t))
BY DEF Proper, Sound, Unused

(* A table is itself built anew, *)
LEMMA RebuiltSame ==
  ASSUME NEW t, Proper(t)
  PROVE  Rebuilt(t, t)
BY DEF Rebuilt, Kept

(* and what is built anew from one that is. *)
LEMMA RebuiltAgain ==
  ASSUME NEW s, NEW t, NEW u, Rebuilt(s, t), Rebuilt(u, s)
  PROVE  Rebuilt(u, t)
BY DEF Rebuilt, Kept

(* consider_shrink changes nothing else. *)
LEMMA FlagRight ==
  ASSUME NEW t, Proper(t), NEW c \in BOOLEAN
  PROVE  LET u == [t EXCEPT !.consider_shrink = c]
         IN  /\ Rebuilt(u, t) /\ u.table = t.table /\ u.num_buckets = t.num_buckets
             /\ u.num_elements = t.num_elements /\ u.num_deleted = t.num_deleted
             /\ u.consider_shrink = c
<1> DEFINE u == [t EXCEPT !.consider_shrink = c]
<1>1. Fields(t) /\ Thresholds(t)
  BY ProperKinds
<1>2. /\ u.table = t.table /\ u.num_buckets = t.num_buckets /\ u.num_elements = t.num_elements
      /\ u.num_deleted = t.num_deleted /\ Kept(u, t) /\ u.consider_shrink = c
  BY <1>1 DEF Fields, Kept
<1>3. Fields(u)
  BY <1>1 DEF Fields
<1> HIDE DEF u
<1>4. Thresholds(u)
  BY <1>1, <1>2 DEF Thresholds, Kept
<1>5. CASE Sound(t)
  <2>1. Sound(u)
    BY <1>2, <1>3, <1>4, <1>5 DEF Sound, Counted, Kept
  <2> QED BY <1>2, <2>1 DEF Rebuilt, Proper, u
<1>6. CASE Unused(t)
  <2>1. Unused(u)
    BY <1>2, <1>3, <1>4, <1>6 DEF Unused, Kept
  <2> QED BY <1>2, <2>1 DEF Rebuilt, Proper, u
<1> QED BY <1>5, <1>6 DEF Proper

(* A larger table has more room. *)
LEMMA EnlargeMonotone ==
  ASSUME NEW t, Fields(t), NEW m \in Nat, NEW n \in Nat, m <= n
  PROVE  /\ EnlargeSize(t, m) \in Nat /\ EnlargeSize(t, n) \in Nat
         /\ EnlargeSize(t, m) <= EnlargeSize(t, n)
<1> DEFINE g == t.grow
           x == m * g
           y == n * g
<1>1. g \in Nat
  BY DEF Fields
<1> HIDE DEF g
<1>2. x \in Nat /\ y \in Nat
  BY <1>1, SMT
<1>3. x <= y
  <2>1. \E d \in Nat : n = m + d
    BY SMT
  <2>2. PICK d \in Nat : n = m + d
    BY <2>1
  <2>3. y = x + d * g /\ d * g \in Nat
    BY <1>1, <2>2, SMT
  <2> HIDE DEF x, y
  <2> DEFINE z == d * g
  <2>4. y = x + z /\ z \in Nat
    BY <2>3
  <2> HIDE DEF z
  <2> QED BY <1>2, <2>4
<1> HIDE DEF x, y
<1>4. x \div 100 \in Nat /\ y \div 100 \in Nat /\ x \div 100 <= y \div 100
  BY <1>2, <1>3, SMT
<1> QED BY <1>4 DEF x, y, g, EnlargeSize

(* If a table of some size has room, one of a size that is asked for has.   *)
LEMMA RoomForWanted ==
  ASSUME NEW t, Fields(t), NEW elts \in Nat, NEW m \in Sizes, elts < EnlargeSize(t, m),
         NEW wanted \in Sizes
  PROVE  LET n == MinBucketsFor(t, elts, wanted)
         IN  n \in Sizes /\ n >= wanted /\ elts < n /\ elts < EnlargeSize(t, n)
<1>1. m \in Nat /\ wanted \in Nat
  BY SizesArePowers
<1>2. PICK n \in Sizes : n >= wanted /\ elts < EnlargeSize(t, n)
  <2>1. CASE wanted <= m
    BY <1>1, <2>1
  <2>2. CASE m <= wanted
    <3>1. elts < EnlargeSize(t, wanted)
      BY <1>1, <2>2, EnlargeMonotone
    <3> QED BY <1>1, <3>1
  <2> QED BY <1>1, <2>1, <2>2
<1> QED BY <1>1, <1>2, MinBucketsRight

(* The two sizes with a name are sizes. *)
LEMMA NamedSizes == MinBuckets \in Sizes /\ StartBuckets \in Sizes
<1>1. 0 \in 0 .. MaxDoublings /\ MinBuckets \in Nat
  BY SettingsAssumption
<1>2. Power(2)[0] = 1
  BY PowerSteps
<1>3. MinBuckets = MinBuckets * Power(2)[0]
  BY <1>1, <1>2
<1> QED BY <1>1, <1>3, StartAssumption DEF Sizes

(* The copy constructor, if there is a size with room for the entries.     *)
LEMMA CopyOfRight ==
  ASSUME NEW t, Proper(t), NEW m \in Sizes, size(t) < EnlargeSize(t, m), NEW wanted \in Sizes
  PROVE  LET u == CopyOf(t, wanted)
         IN  /\ Rebuilt(u, t) /\ u.num_buckets \in Sizes /\ u.num_buckets >= wanted
             /\ u.num_elements = size(t) /\ u.num_deleted = 0 /\ ~u.consider_shrink
<1> DEFINE n == MinBucketsFor(t, size(t), wanted)
           u == CopyOf(t, wanted)
<1>1. Fields(t) /\ Thresholds(t) /\ size(t) \in Nat
  BY ProperKinds
<1>2. n \in Sizes /\ n >= wanted /\ size(t) < n
  BY <1>1, RoomForWanted
<1>3. CASE t.use_empty
  <2>1. CopyOf(t, wanted) = CopiedFrom(t, n)
    BY <1>3 DEF CopyOf
  <2> HIDE DEF n
  <2> QED BY <1>2, <1>3, <2>1, CopiedFromRight, ProperApart DEF Rebuilt, Proper, Fresh
<1>4. CASE ~t.use_empty
  <2>1. Unused(t) /\ t.table = Nothing /\ size(t) = 0
    BY <1>4, ProperApart DEF Unused, size
  <2>2. u = [t EXCEPT !.table = Nothing, !.num_buckets = n, !.num_elements = 0,
                      !.num_deleted = 0, !.consider_shrink = FALSE]
    BY <1>4, <2>1 DEF CopyOf, Asserted
  <2> HIDE DEF n, u
  <2>3. /\ u.table = Nothing /\ u.num_buckets = n /\ u.num_elements = 0 /\ u.num_deleted = 0
        /\ ~u.consider_shrink /\ Kept(u, t)
    BY <1>1, <2>2 DEF Fields, Kept
  <2>4. Fields(u)
    <3>1. Nothing \in {u.table}
      BY <2>3
    <3> HIDE DEF Nothing
    <3> QED BY <1>1, <1>2, <2>2, <3>1 DEF Fields
  <2>5. Unused(u)
    BY <1>1, <1>4, <2>3, <2>4 DEF Unused, Thresholds, Kept
  <2> QED BY <1>2, <2>1, <2>3, <2>5 DEF Rebuilt, Proper, u
<1> QED BY <1>3, <1>4

(* There is one if the copy does not throw. *)
LEMMA CopyFits ==
  ASSUME NEW t, Proper(t), ~CopyThrows(t)
  PROVE  \E m \in Sizes : size(t) < EnlargeSize(t, m)
<1>1. Fields(t) /\ size(t) \in Nat
  BY ProperKinds
<1> DEFINE m == MinBucketsFor(t, size(t), 0)
<1>2. m # 0
  BY DEF CopyThrows
<1>3. m \in Sizes /\ size(t) < EnlargeSize(t, m)
  <2>1. 0 \in Nat
    OBVIOUS
  <2> HIDE DEF m
  <2> QED BY <1>1, <1>2, <2>1, MinBucketsRight DEF m
<1> QED BY <1>3

(* The copy constructor and operator= keep the entries. *)
LEMMA CopiesRight ==
  ASSUME NEW t, Proper(t), ~CopyThrows(t)
  PROVE  /\ \A n \in Sizes : Rebuilt(CopyOf(t, n), t)
         /\ Rebuilt(Assigned(t), t)
<1>1. PICK m \in Sizes : size(t) < EnlargeSize(t, m)
  BY CopyFits
<1>2. \A n \in Sizes : Rebuilt(CopyOf(t, n), t)
  BY <1>1, CopyOfRight
<1> QED BY <1>2, NamedSizes DEF Assigned

(* squash_deleted keeps the entries. *)
LEMMA SquashedRight ==
  ASSUME NEW t, Proper(t), t.num_deleted > 0 => ~CopyThrows(t)
  PROVE  Rebuilt(Squashed(t), t) /\ Squashed(t).num_deleted = 0
<1>1. CASE t.num_deleted > 0
  <2>1. PICK m \in Sizes : size(t) < EnlargeSize(t, m)
    BY <1>1, CopyFits
  <2> QED BY <1>1, <2>1, NamedSizes, CopyOfRight DEF Squashed
<1>2. CASE ~(t.num_deleted > 0)
  <2>1. Fields(t)
    BY ProperKinds
  <2>2. t.num_deleted \in Nat
    BY <2>1 DEF Fields
  <2>3. t.num_deleted = 0 /\ Squashed(t) = t
    BY <1>2, <2>2 DEF Squashed
  <2> QED BY <2>3, RebuiltSame
<1> QED BY <1>1, <1>2

(* What is below the threshold to shrink fits a table as large as it is.    *)
LEMMA ShrinkFits ==
  ASSUME NEW t, Proper(t), size(t) < ShrinkSize(t, t.num_buckets)
  PROVE  size(t) < EnlargeSize(t, t.num_buckets)
<1> DEFINE n == t.num_buckets
           x == n * t.shrink
           y == n * t.grow
           z == size(t)
<1>1. n \in Nat /\ t.grow \in Nat /\ t.shrink \in Nat /\ 2 * t.shrink <= t.grow /\ z \in Nat
  <2>1. Fields(t) /\ Thresholds(t) /\ n \in Nat /\ z \in Nat
    BY ProperKinds
  <2> HIDE DEF n, z
  <2> QED BY <2>1 DEF Fields, Thresholds
<1>2. z < x \div 100
  BY DEF ShrinkSize
<1>3. x \in Nat /\ y \in Nat /\ x <= y
  <2> DEFINE d == t.grow - t.shrink
             w == n * d
  <2>1. d \in Nat /\ t.grow = t.shrink + d
    BY <1>1
  <2> HIDE DEF d, n
  <2>2. w \in Nat /\ x \in Nat /\ y = x + w
    BY <1>1, <2>1, SMT
  <2> HIDE DEF w, x, y
  <2> QED BY <2>2
<1> HIDE DEF x, y, z
<1>4. x \div 100 \in Nat /\ y \div 100 \in Nat /\ x \div 100 <= y \div 100
  BY <1>3, SMT
<1>5. z < y \div 100
  BY <1>1, <1>2, <1>4
<1> QED BY <1>5 DEF y, z, n, EnlargeSize

(* Max of a set of numbers is in it. *)
LEMMA MaxOf ==
  ASSUME NEW N \in Nat, NEW S \in SUBSET (0 .. N), S # {}
  PROVE  Max(S) \in S
<1> DEFINE T == {N - n : n \in S}
<1>1. T \in SUBSET Nat /\ T # {}
  <2>1. \A n \in S : N - n \in Nat
    OBVIOUS
  <2> QED BY <2>1
<1>2. PICK m \in T : \A n \in T : m <= n
  <2> HIDE DEF T
  <2> QED BY <1>1, LeastNumber
<1>3. PICK x \in S : m = N - x
  BY <1>2
<1>4. \A y \in S : x >= y
  <2> SUFFICES ASSUME NEW y \in S PROVE x >= y
    OBVIOUS
  <2>1. N - y \in T
    OBVIOUS
  <2>2. m <= N - y
    BY <1>2, <2>1
  <2>3. x \in Nat /\ y \in Nat
    OBVIOUS
  <2> QED BY <1>3, <2>2, <2>3
<1> QED BY <1>3, <1>4 DEF Max

(* maybe_shrink keeps the entries. *)
LEMMA MaybeShrunkRight ==
  ASSUME NEW t, Proper(t)
  PROVE  LET u == MaybeShrunk(t)
         IN  Rebuilt(u, t) /\ ~u.consider_shrink
<1>1. CASE Shrinks(t)
  <2> DEFINE n == ShrunkSize(t)
             S == {m \in Sizes : m < t.num_buckets /\ (m <= StartBuckets \/ 100 * size(t) >= m * t.shrink)}
             u == CopyOf(t, n)
  <2>1. size(t) < EnlargeSize(t, t.num_buckets) /\ StartBuckets < t.num_buckets
    BY <1>1, ShrinkFits, ProperKinds, NamedSizes, SizesArePowers DEF Shrinks
  <2>2. n \in Sizes
    <3>1. S \in SUBSET (0 .. t.num_buckets)
      BY SizesArePowers, ProperKinds
    <3>2. StartBuckets \in S
      BY <2>1, NamedSizes, SizesArePowers
    <3>3. Max(S) \in S
      <4> HIDE DEF S
      <4> QED BY <3>1, <3>2, ProperKinds, MaxOf
    <3> QED BY <3>3 DEF ShrunkSize
  <2> HIDE DEF n
  <2>3. Rebuilt(u, t) /\ Proper(u)
    BY <2>1, <2>2, ProperKinds, CopyOfRight DEF Rebuilt
  <2>4. MaybeShrunk(t) = [u EXCEPT !.consider_shrink = FALSE]
    BY <1>1 DEF MaybeShrunk, n
  <2> HIDE DEF u
  <2>5. Rebuilt(MaybeShrunk(t), u) /\ ~MaybeShrunk(t).consider_shrink
    BY <2>3, <2>4, FlagRight
  <2> QED BY <2>3, <2>5, RebuiltAgain
<1>2. CASE ~Shrinks(t)
  <2>1. MaybeShrunk(t) = [t EXCEPT !.consider_shrink = FALSE]
    BY <1>2 DEF MaybeShrunk
  <2> QED BY <2>1, FlagRight
<1> QED BY <1>1, <1>2

-----------------------------------------------------------------------------
(* resize_delta and resize. *)

(* So does what resize_delta begins with. *)
LEMMA ConsideredRight ==
  ASSUME NEW t, Proper(t)
  PROVE  Rebuilt(Considered(t), t)
BY MaybeShrunkRight, RebuiltSame DEF Considered

(* After it has been made, there is the room that was asked for. *)
LEMMA ResizedByRight ==
  ASSUME NEW t, Proper(t), NEW delta \in Nat, ~Throws(t, delta)
  PROVE  LET u == ResizedBy(t, delta)
         IN  Rebuilt(u, t) /\ u.num_elements + delta < u.num_buckets
<1> DEFINE s == Considered(t)
           u == ResizedBy(t, delta)
           needed == Needed(s, delta)
           n == s.num_buckets
           e == s.num_elements
           z == size(s)
<1>1. Rebuilt(s, t) /\ Proper(s)
  BY ConsideredRight DEF Rebuilt
<1>2. RoomLeft(s, delta) \/ needed # 0
  BY DEF Throws
<1>3. u = IF Enough(s, delta) THEN s ELSE CopyOf(s, ResizeTo(s, delta))
  BY DEF ResizedBy
<1> HIDE DEF s, u
<1>4. /\ Fields(s) /\ n \in Sizes /\ n \in Nat \ {0} /\ e \in Nat /\ z \in Nat /\ z <= e
      /\ s.grow \in 1 .. 99
  BY <1>1, ProperKinds
<1>5. needed # 0 => needed \in Sizes /\ e + delta < EnlargeSize(s, needed) /\ e + delta < needed
  <2> DEFINE x == e + delta
  <2>1. x \in Nat /\ 0 \in Nat
    BY <1>4
  <2>2. needed = MinBucketsFor(s, x, 0)
    BY DEF Needed
  <2> HIDE DEF x, needed
  <2> QED BY <1>4, <2>1, <2>2, MinBucketsRight DEF x
<1>6. CASE Enough(s, delta)
  <2>1. e + delta < n
    <3>1. CASE RoomLeft(s, delta)
      <4>1. EnlargeSize(s, n) \in Nat /\ EnlargeSize(s, n) < n
        BY <1>4, EnlargeBelow DEF EnlargeSize
      <4>2. e + delta <= EnlargeSize(s, n)
        BY <3>1 DEF RoomLeft
      <4> HIDE DEF n, e
      <4> QED BY <1>4, <4>1, <4>2
    <3>2. CASE ~RoomLeft(s, delta)
      <4>1. needed <= n /\ e + delta < needed /\ needed \in Nat
        BY <1>2, <1>5, <1>6, <3>2, SizesArePowers DEF Enough
      <4> HIDE DEF n, e, needed
      <4> QED BY <1>4, <4>1
    <3> QED BY <3>1, <3>2
  <2> QED BY <1>1, <1>3, <1>6, <2>1 DEF u
<1>7. CASE ~Enough(s, delta)
  <2> DEFINE least == MinBucketsFor(s, z + delta, n)
             to == ResizeTo(s, delta)
  <2>0. needed \in Sizes /\ e + delta < EnlargeSize(s, needed) /\ needed \in Nat
    BY <1>2, <1>5, <1>7, SizesArePowers DEF Enough
  <2>1. EnlargeSize(s, needed) \in Nat
    BY <1>4, <2>0, EnlargeMonotone
  <2>2. z + delta < EnlargeSize(s, needed) /\ z + delta \in Nat
    <3> HIDE DEF z, e, needed
    <3> QED BY <1>4, <2>0, <2>1
  <2>3. least \in Sizes /\ z + delta < least
    BY <1>4, <2>0, <2>2, RoomForWanted
  <2>4. to \in Sizes /\ to >= least
    <3>1. least \in Nat
      BY <2>3, SizesArePowers
    <3>2. to = least \/ (to = 2 * least /\ 2 * least \in Sizes)
      BY DEF ResizeTo
    <3> HIDE DEF least, to
    <3> QED BY <2>3, <3>1, <3>2
  <2>5. z < EnlargeSize(s, needed)
    <3> HIDE DEF z, needed
    <3> QED BY <1>4, <2>1, <2>2
  <2> HIDE DEF to, least, needed
  <2>6. u = CopyOf(s, to)
    BY <1>3, <1>7 DEF to
  <2>7. /\ Rebuilt(u, s) /\ u.num_buckets \in Sizes /\ u.num_buckets >= to /\ u.num_elements = z
    BY <1>1, <2>0, <2>4, <2>5, <2>6, CopyOfRight
  <2>8. z + delta < u.num_buckets
    <3>1. u.num_buckets \in Nat /\ to \in Nat /\ least \in Nat
      BY <2>3, <2>4, <2>7, SizesArePowers
    <3> HIDE DEF z
    <3> QED BY <1>4, <2>2, <2>3, <2>4, <2>7, <3>1
  <2> QED BY <1>1, <2>7, <2>8, RebuiltAgain DEF u
<1> QED BY <1>6, <1>7 DEF u

(* resize keeps the entries. *)
LEMMA ResizedRight ==
  ASSUME NEW t, Proper(t), NEW req \in Nat, ~ResizeThrows(t, req)
  PROVE  Rebuilt(Resized(t, req), t)
<1> DEFINE s == ShrunkFor(t, req)
<1>1. Rebuilt(s, t) /\ Proper(s)
  BY MaybeShrunkRight, RebuiltSame DEF ShrunkFor, Rebuilt
<1>2. s.num_elements \in Nat
  BY <1>1, ProperKinds
<1>3. CASE req > s.num_elements
  <2>1. req - s.num_elements \in Nat
    BY <1>2, <1>3
  <2>2. ~Throws(s, req - s.num_elements)
    BY <1>3 DEF ResizeThrows
  <2>3. Rebuilt(ResizedBy(s, req - s.num_elements), s)
    BY <1>1, <2>1, <2>2, ResizedByRight
  <2>4. Resized(t, req) = ResizedBy(s, req - s.num_elements)
    BY <1>3 DEF Resized
  <2> QED BY <1>1, <2>3, <2>4, RebuiltAgain
<1>4. CASE ~(req > s.num_elements)
  BY <1>1, <1>4 DEF Resized
<1> QED BY <1>3, <1>4

(* A table that did not resize has the buckets it had. *)
LEMMA NotResized ==
  ASSUME NEW t, Proper(t), NEW delta \in Nat, ~DidResize(t, delta)
  PROVE  LET u == ResizedBy(t, delta)
         IN  u.table = t.table /\ u.num_buckets = t.num_buckets
<1>1. ResizedBy(t, delta) = Considered(t)
  BY DEF ResizedBy, DidResize
<1>2. CASE t.consider_shrink
  <2>1. Considered(t) = [t EXCEPT !.consider_shrink = FALSE]
    BY <1>2 DEF Considered, MaybeShrunk, DidResize
  <2> QED BY <1>1, <2>1, FlagRight
<1>3. CASE ~t.consider_shrink
  BY <1>1, <1>3 DEF Considered
<1> QED BY <1>2, <1>3

-----------------------------------------------------------------------------
(* insert, operator[], find and erase. *)

(* A table with an empty key is one with an empty key when it is built anew.*)
LEMMA RebuiltSound ==
  ASSUME NEW t, NEW u, Sound(t), Rebuilt(u, t)
  PROVE  Sound(u)
BY ProperApart DEF Rebuilt, Kept, Sound

(* What insert, an assignment and erase make of a set of entries. *)
KeysOf(C) == {e.key : e \in C}
Plus(C, k, v) == IF k \in KeysOf(C) THEN C ELSE C \cup {Bucket(k, v)}
Minus(C, keys) == {e \in C : e.key \notin keys}

(* A search finds the keys of the entries. *)
LEMMA HoldsKey ==
  ASSUME NEW t, Sound(t), NEW k \in Key
  PROVE  Holds(t, k) <=> k \in KeysOf(Contents(t.table))
<1>1. ASSUME Holds(t, k) PROVE k \in KeysOf(Contents(t.table))
  <2>1. Position(t, k) \in Live(t.table) /\ t.table[Position(t, k)].key = k
    BY <1>1, SearchRight
  <2> QED BY <2>1 DEF KeysOf, Contents, At
<1>2. ASSUME k \in KeysOf(Contents(t.table)) PROVE Holds(t, k)
  <2>1. \E b \in Live(t.table) : t.table[b].key = k
    BY <1>2 DEF KeysOf, Contents, At
  <2> QED BY <2>1, SearchRight
<1> QED BY <1>1, <1>2

(* insert_noresize, with a bucket to spare, in terms of the entries.       *)
LEMMA InsertedNoresizeRight ==
  ASSUME NEW t, Sound(t), t.num_elements + 1 < t.num_buckets, NEW k \in Key, NEW v \in Value
  PROVE  LET u == InsertedNoresize(t, k, v)
         IN  /\ Sound(u) /\ Kept(u, t) /\ u.num_buckets = t.num_buckets
             /\ u.num_elements <= t.num_elements + 1
             /\ Contents(u.table) = Plus(Contents(t.table), k, v)
BY InsertedNoresizeSound, HoldsKey DEF Plus

(* insert: an entry that is there is kept. *)
LEMMA InsertedRight ==
  ASSUME NEW t, Sound(t), ~Throws(t, 1), NEW k \in Key, NEW v \in Value
  PROVE  LET u == Inserted(t, k, v)
         IN  Sound(u) /\ Kept(u, t) /\ Contents(u.table) = Plus(Contents(t.table), k, v)
<1> DEFINE s == ResizedBy(t, 1)
<1>1. Rebuilt(s, t) /\ s.num_elements + 1 < s.num_buckets
  BY ResizedByRight DEF Proper
<1>2. Inserted(t, k, v) = InsertedNoresize(s, k, v)
  BY DEF Inserted
<1> HIDE DEF s
<1> QED BY <1>1, <1>2, InsertedNoresizeRight, RebuiltSound DEF Rebuilt, Kept

(* The entries with their keys: one for a key. *)
LEMMA EntryUnique ==
  ASSUME NEW tab, NEW n, NEW del, Layout(tab, n, del), NEW b \in Live(tab)
  PROVE  At(tab, Live(tab) \ {b}) = Minus(Contents(tab), {tab[b].key})
BY DEF Layout, Distinct, Minus, Contents, At

(* A value is assigned. *)
LEMMA AssignedAtRight ==
  ASSUME NEW t, Sound(t), NEW b \in Live(t.table), NEW v \in Value
  PROVE  LET u == AssignedAt(t, b, v)
             k == t.table[b].key
         IN  /\ Sound(u) /\ Kept(u, t)
             /\ Contents(u.table) = Minus(Contents(t.table), {k}) \cup {Bucket(k, v)}
<1> DEFINE u == AssignedAt(t, b, v)
           new == [t.table EXCEPT ![b].value = v]
<1>1. Layout(t.table, t.num_buckets, t.delkey) /\ Fields(t)
  BY DEF Sound
<1>3. new = [t.table EXCEPT ![b].value = v]
  OBVIOUS
<1>b. u = [t EXCEPT !.table = new]
  BY DEF AssignedAt
<1> HIDE DEF new
<1>2. /\ Layout(new, t.num_buckets, t.delkey)
      /\ Used(new) = Used(t.table) /\ Gone(new, t.delkey) = Gone(t.table, t.delkey)
      /\ Contents(new) = At(t.table, Live(t.table) \ {b}) \cup {Bucket(t.table[b].key, v)}
  BY <1>1, <1>3, AssignLayout
<1>4. /\ u.table = new /\ u.num_buckets = t.num_buckets /\ u.num_elements = t.num_elements
      /\ u.num_deleted = t.num_deleted /\ Kept(u, t) /\ Fields(u)
  BY <1>1, <1>b DEF Fields, Kept
<1> HIDE DEF u
<1>5. Sound(u)
  BY <1>2, <1>4 DEF Sound, Thresholds, Counted, Kept
<1> QED BY <1>1, <1>2, <1>4, <1>5, EntryUnique DEF u

(* operator[]: an entry that is there is overwritten. *)
LEMMA AssignedToRight ==
  ASSUME NEW t, Sound(t), NEW k \in Key, NEW v \in Value, Holds(t, k) \/ ~Throws(t, 1)
  PROVE  LET u == AssignedTo(t, k, v)
         IN  /\ Sound(u) /\ Kept(u, t)
             /\ Contents(u.table) = Minus(Contents(t.table), {k}) \cup {Bucket(k, v)}
<1>1. NotSpecial(t, k) /\ ~Full(t, k)
  BY SearchRight, SoundKinds, KeysApart DEF NotSpecial
<1>2. CASE Holds(t, k)
  <2>1. AssignedTo(t, k, v) = AssignedAt(t, Position(t, k), v)
    BY <1>1, <1>2 DEF AssignedTo
  <2>2. Position(t, k) \in Live(t.table) /\ t.table[Position(t, k)].key = k
    BY <1>2, SearchRight
  <2> QED BY <2>1, <2>2, AssignedAtRight
<1>3. CASE ~Holds(t, k)
  <2> DEFINE s == ResizedBy(t, 1)
             b == InsertPosition(t, k)
  <2>1. Rebuilt(s, t) /\ Sound(s) /\ s.num_elements + 1 < s.num_buckets
    BY <1>3, ResizedByRight, RebuiltSound DEF Proper
  <2>2. /\ b \in Buckets(t.num_buckets) \ Live(t.table) /\ OnPath(t.table, t.num_buckets, k, b)
        /\ \A c \in Live(t.table) : t.table[c].key # k
    BY <1>3, SearchRight
  <2>3. k \notin KeysOf(Contents(t.table)) /\ k \notin KeysOf(Contents(s.table))
    BY <1>3, <2>1, HoldsKey DEF Rebuilt
  <2>4. Minus(Contents(t.table), {k}) = Contents(t.table)
    BY <2>3 DEF Minus, KeysOf
  <2>5. CASE DidResize(t, 1)
    <3>1. AssignedTo(t, k, v) = InsertedNoresize(s, k, v)
      BY <1>1, <1>3, <2>5 DEF AssignedTo
    <3> HIDE DEF s
    <3>2. LET u == InsertedNoresize(s, k, v)
          IN  /\ Sound(u) /\ Kept(u, s)
              /\ Contents(u.table) = Plus(Contents(s.table), k, v)
      BY <2>1, InsertedNoresizeRight
    <3> QED BY <2>1, <2>3, <2>4, <3>1, <3>2 DEF Rebuilt, Kept, Plus
  <2>6. CASE ~DidResize(t, 1)
    <3>1. AssignedTo(t, k, v) = InsertedAt(s, k, v, b)
      BY <1>1, <1>3, <2>6 DEF AssignedTo
    <3>2. s.table = t.table /\ s.num_buckets = t.num_buckets
      BY <2>6, NotResized DEF Proper
    <3> HIDE DEF s, b
    <3>3. LET u == InsertedAt(s, k, v, b)
          IN  /\ Sound(u) /\ Kept(u, s)
              /\ Contents(u.table) = Contents(s.table) \cup {Bucket(k, v)}
      BY <2>1, <2>2, <3>2, InsertedAtSound
    <3> QED BY <2>1, <2>4, <3>1, <3>3 DEF Rebuilt, Kept
  <2> QED BY <2>5, <2>6
<1> QED BY <1>2, <1>3

(* What is marked as deleted leaves the rest where it is. *)
Marked(t, new, d) == [t EXCEPT !.table = new, !.num_deleted = d, !.consider_shrink = TRUE]

(* Entries are marked as deleted: the rest stay in their buckets, and are  *)
(* found.                                                                  *)
LEMMA MarkedRight ==
  ASSUME NEW t, Sound(t), t.delkey # NoKey, NEW gone \in SUBSET Live(t.table),
         NEW new \in [DOMAIN t.table -> BucketOf(t.delkey)],
         \A b \in DOMAIN t.table :
           new[b] = IF b \in gone THEN Bucket(t.delkey, Default) ELSE t.table[b],
         NEW d, d = t.num_deleted + Cardinality(gone), NEW u, u = Marked(t, new, d)
  PROVE  /\ Sound(u) /\ Kept(u, t) /\ u.num_buckets = t.num_buckets
         /\ Live(u.table) = Live(t.table) \ gone
         /\ \A b \in Live(u.table) : u.table[b] = t.table[b]
         /\ Contents(u.table) = Minus(Contents(t.table), KeysOf(At(t.table, gone)))
<1> DEFINE Go == Gone(t.table, t.delkey)
           n == t.num_buckets
<1>1. Layout(t.table, n, t.delkey) /\ Fields(t) /\ t.num_deleted = Cardinality(Go) /\ Thresholds(t)
  BY DEF Sound, Counted
<1>2. /\ Layout(new, n, t.delkey) /\ Live(new) = Live(t.table) \ gone /\ Used(new) = Used(t.table)
      /\ Gone(new, t.delkey) = Go \cup gone
      /\ Contents(new) = At(t.table, Live(t.table) \ gone)
      /\ \A b \in Live(new) : new[b] = t.table[b]
  <2> DEFINE tab == t.table
             del == t.delkey
  <2>1. /\ Layout(tab, n, del) /\ del # NoKey /\ gone \in SUBSET Live(tab)
        /\ new \in [DOMAIN tab -> BucketOf(del)]
        /\ \A b \in DOMAIN tab : new[b] = IF b \in gone THEN Bucket(del, Default) ELSE tab[b]
    BY <1>1
  <2> HIDE DEF tab, del, n
  <2>2. /\ Layout(new, n, del) /\ Live(new) = Live(tab) \ gone /\ Used(new) = Used(tab)
        /\ Gone(new, del) = Gone(tab, del) \cup gone
        /\ Contents(new) = At(tab, Live(tab) \ gone)
        /\ \A b \in Live(new) : new[b] = tab[b]
    BY <2>1, EraseLayout
  <2> QED BY <2>2 DEF tab, del
<1>3. Cardinality(Gone(new, t.delkey)) = d /\ d \in Nat
  <2>1. IsFiniteSet(Live(t.table)) /\ IsFiniteSet(Go) /\ Live(t.table) \cap Go = {}
    BY <1>1, BucketKinds
  <2>2. IsFiniteSet(gone) /\ Go \cap gone = {}
    BY <2>1, FS_Subset
  <2>3. Cardinality(Go) \in Nat /\ Cardinality(gone) \in Nat /\ Cardinality(Go \cap gone) = 0
    BY <2>1, <2>2, FS_CardinalityType, FS_EmptySet
  <2>4. Cardinality(Go \cup gone) = Cardinality(Go) + Cardinality(gone) - Cardinality(Go \cap gone)
    BY <2>1, <2>2, FS_Union
  <2> HIDE DEF Go
  <2> QED BY <1>1, <1>2, <2>3, <2>4
<1>4. u = [t EXCEPT !.table = new, !.num_deleted = d, !.consider_shrink = TRUE]
  BY DEF Marked
<1>5. /\ u.table = new /\ u.num_buckets = n /\ u.num_deleted = d
      /\ u.num_elements = t.num_elements /\ Kept(u, t) /\ Fields(u)
  BY <1>1, <1>3, <1>4 DEF Fields, Kept
<1>6. Sound(u)
  BY <1>1, <1>2, <1>3, <1>5 DEF Sound, Thresholds, Counted, Kept
<1>7. Contents(new) = Minus(Contents(t.table), KeysOf(At(t.table, gone)))
  BY <1>1, <1>2 DEF Layout, Distinct, Minus, KeysOf, Contents, At
<1> QED BY <1>2, <1>5, <1>6, <1>7

(* erase of one bucket. *)
LEMMA ErasedAtRight ==
  ASSUME NEW t, Sound(t), t.delkey # NoKey, NEW b \in Live(t.table)
  PROVE  LET u == ErasedAt(t, b)
         IN  /\ Sound(u) /\ Kept(u, t) /\ u.num_buckets = t.num_buckets
             /\ Live(u.table) = Live(t.table) \ {b}
             /\ \A c \in Live(u.table) : u.table[c] = t.table[c]
             /\ Contents(u.table) = Minus(Contents(t.table), {t.table[b].key})
<1> DEFINE new == [t.table EXCEPT ![b] = Bucket(t.delkey, Default)]
           u == ErasedAt(t, b)
<1>1. u = [t EXCEPT !.table = new, !.num_deleted = @ + 1, !.consider_shrink = TRUE]
  BY DEF ErasedAt
<1>2. /\ new \in [DOMAIN t.table -> BucketOf(t.delkey)]
      /\ \A c \in DOMAIN t.table :
           new[c] = IF c \in {b} THEN Bucket(t.delkey, Default) ELSE t.table[c]
  <2>1. Bucket(t.delkey, Default) \in BucketOf(t.delkey)
    BY BucketFields, TableAssumption
  <2>2. t.table \in [Buckets(t.num_buckets) -> BucketOf(t.delkey)]
    BY DEF Sound, Layout
  <2> QED BY <2>1, <2>2
<1>3. Cardinality({b}) = 1
  BY FS_Singleton
<1> HIDE DEF new, u
<1>4. u = Marked(t, new, t.num_deleted + Cardinality({b}))
  BY <1>1, <1>3 DEF Marked
<1>5. {b} \in SUBSET Live(t.table) /\ KeysOf(At(t.table, {b})) = {t.table[b].key}
  BY DEF KeysOf, At
<1> DEFINE gone == {b}
<1>6. /\ gone \in SUBSET Live(t.table) /\ KeysOf(At(t.table, gone)) = {t.table[b].key}
      /\ u = Marked(t, new, t.num_deleted + Cardinality(gone))
      /\ \A c \in DOMAIN t.table :
           new[c] = IF c \in gone THEN Bucket(t.delkey, Default) ELSE t.table[c]
  BY <1>2, <1>4, <1>5
<1> HIDE DEF gone
<1>7. /\ Sound(u) /\ Kept(u, t) /\ u.num_buckets = t.num_buckets
      /\ Live(u.table) = Live(t.table) \ gone
      /\ \A c \in Live(u.table) : u.table[c] = t.table[c]
      /\ Contents(u.table) = Minus(Contents(t.table), KeysOf(At(t.table, gone)))
  BY <1>2, <1>6, MarkedRight
<1> QED BY <1>6, <1>7 DEF u, gone

(* find. *)
LEMMA FindRight ==
  ASSUME NEW t, Sound(t), NEW k \in Key
  PROVE  /\ ~FindFails(t, k)
         /\ Found(t, k) <=> k \in KeysOf(Contents(t.table))
         /\ Found(t, k) => Find(t, k) \in Live(t.table) /\ t.table[Find(t, k)].key = k
         /\ ~Found(t, k) => Find(t, k) = End(t)
<1>1. ~Full(t, k)
  BY SearchRight
<1>2. Holds(t, k) => Searches(t)
  <2> SUFFICES ASSUME Holds(t, k) PROVE size(t) # 0
    BY DEF Searches
  <2>1. Position(t, k) \in Live(t.table)
    BY SearchRight
  <2>2. IsFiniteSet(Live(t.table)) /\ size(t) = Cardinality(Live(t.table))
    BY SoundKinds, BucketKinds
  <2> QED BY <2>1, <2>2, FS_EmptySet
<1>3. Found(t, k) <=> Holds(t, k)
  BY <1>2 DEF Found
<1> QED BY <1>1, <1>3, HoldsKey, SearchRight DEF FindFails, Find

(* erase of a key is that of its bucket, if there is one. *)
LEMMA ErasedRight ==
  ASSUME NEW t, Sound(t), NEW k \in Key
  PROVE  LET u == Erased(t, k)
         IN  /\ k \notin KeysOf(Contents(t.table)) => u = t
             /\ k \in KeysOf(Contents(t.table)) /\ t.delkey = NoKey => u = Fail(t)
             /\ k \in KeysOf(Contents(t.table)) /\ t.delkey # NoKey =>
                  \E b \in Live(t.table) : t.table[b].key = k /\ u = ErasedAt(t, b)
<1>1. NotSpecial(t, k)
  BY SoundKinds, KeysApart DEF NotSpecial
<1> QED BY <1>1, FindRight DEF Erased, ErasedAt

-----------------------------------------------------------------------------
(* The other calls. *)

(* erase of a range. *)
LEMMA ErasedRangeRight ==
  ASSUME NEW t, Sound(t), NEW from, NEW to, NEW gone,
         gone = {b \in Occupied(t) : from <= b /\ b < to}
  PROVE  LET u == ErasedRange(t, from, to)
         IN  /\ gone # {} /\ t.delkey = NoKey => u = Fail(t)
             /\ gone = {} \/ t.delkey # NoKey =>
                  /\ Sound(u) /\ Kept(u, t)
                  /\ Contents(u.table) = Minus(Contents(t.table), KeysOf(At(t.table, gone)))
<1> DEFINE new == [b \in DOMAIN t.table |->
                     IF b \in gone THEN Bucket(t.delkey, Default) ELSE t.table[b]]
           d == t.num_deleted + Cardinality(gone)
           u == ErasedRange(t, from, to)
<1>1. CASE gone # {} /\ t.delkey = NoKey
  BY <1>1 DEF ErasedRange
<1>2. CASE gone = {} \/ t.delkey # NoKey
  <2>1. u = Marked(t, new, d)
    BY <1>2 DEF ErasedRange, Marked
  <2>2. t.table \in [Buckets(t.num_buckets) -> BucketOf(t.delkey)] /\ t.delkey \in Mark \cup {NoKey}
    BY DEF Sound, Layout
  <2>3. gone \in SUBSET Live(t.table)
    BY SoundKinds
  <2>4. CASE t.delkey # NoKey
    <3>1. Bucket(t.delkey, Default) \in BucketOf(t.delkey)
      BY <2>4, BucketFields, TableAssumption
    <3>2. /\ new \in [DOMAIN t.table -> BucketOf(t.delkey)]
          /\ \A b \in DOMAIN t.table :
               new[b] = IF b \in gone THEN Bucket(t.delkey, Default) ELSE t.table[b]
      BY <2>2, <3>1
    <3>3. d = t.num_deleted + Cardinality(gone)
      OBVIOUS
    <3> HIDE DEF new, d, u
    <3>4. /\ Sound(u) /\ Kept(u, t)
          /\ Contents(u.table) = Minus(Contents(t.table), KeysOf(At(t.table, gone)))
      BY <2>1, <2>3, <2>4, <3>2, <3>3, MarkedRight
    <3> QED BY <2>4, <3>4 DEF u
  <2>5. CASE gone = {}
    <3>1. new = t.table
      BY <2>2, <2>5
    <3>2. d = t.num_deleted
      <4>1. t.num_deleted \in Nat
        BY SoundKinds
      <4> QED BY <2>5, <4>1, FS_EmptySet
    <3> HIDE DEF new, d, u
    <3>3. Fields(t)
      BY DEF Sound
    <3>4. u = [t EXCEPT !.consider_shrink = TRUE]
      BY <2>1, <3>1, <3>2, <3>3 DEF Marked, Fields
    <3>5. Rebuilt(u, t) /\ Sound(u)
      BY <3>4, FlagRight, RebuiltSound DEF Proper
    <3>6. Minus(Contents(t.table), KeysOf(At(t.table, gone))) = Contents(t.table)
      BY <2>5 DEF Minus, KeysOf, At
    <3> QED BY <2>5, <3>5, <3>6 DEF Rebuilt, u
  <2> QED BY <1>2, <2>4, <2>5
<1> QED BY <1>1, <1>2

(* There is no range to erase without an empty key. *)
LEMMA ErasedRangeUnused ==
  ASSUME NEW t, Unused(t), NEW from, NEW to
  PROVE  LET u == ErasedRange(t, from, to) IN Rebuilt(u, t)
<1> DEFINE gone == {b \in Occupied(t) : from <= b /\ b < to}
           new == [b \in DOMAIN t.table |->
                     IF b \in gone THEN Bucket(t.delkey, Default) ELSE t.table[b]]
           u == ErasedRange(t, from, to)
<1>1. DOMAIN t.table = {} /\ t.table = Nothing /\ t.num_deleted = 0 /\ Fields(t)
  BY NothingInNothing DEF Unused
<1>2. gone = {}
  BY <1>1 DEF Occupied
<1>3. u = [t EXCEPT !.table = new, !.num_deleted = @ + Cardinality(gone), !.consider_shrink = TRUE]
  BY <1>2 DEF ErasedRange
<1>4. new = t.table
  <2>1. new = [b \in {} |-> t.table[b]]
    BY <1>1, <1>2
  <2>2. Nothing = [b \in {} |-> t.table[b]]
    BY DEF Nothing
  <2> QED BY <1>1, <2>1, <2>2
<1> HIDE DEF new, gone, u
<1>5. u = [t EXCEPT !.consider_shrink = TRUE]
  <2> DEFINE d == t.num_deleted + Cardinality(gone)
  <2>1. Cardinality(gone) = 0
    BY <1>2, FS_EmptySet
  <2>2. d = t.num_deleted
    BY <1>1, <2>1
  <2>3. u = [t EXCEPT !.table = t.table, !.num_deleted = d, !.consider_shrink = TRUE]
    BY <1>3, <1>4
  <2> HIDE DEF d
  <2> QED BY <1>1, <2>2, <2>3 DEF Fields
<1> QED BY <1>5, FlagRight DEF Proper, u

(* clear. *)
LEMMA EmptiedRight ==
  ASSUME NEW t, Sound(t)
  PROVE  LET u == Emptied(t) IN Sound(u) /\ Kept(u, t) /\ Contents(u.table) = {}
<1> DEFINE n == MinBucketsFor(t, 0, 0)
<1>1. Fields(t) /\ Thresholds(t) /\ t.use_empty
  BY DEF Sound
<1>2. n \in Sizes
  BY <1>1, SomeSizeFits
<1>3. CASE t.num_elements = 0 /\ n = t.num_buckets
  <2>1. Emptied(t) = t
    BY <1>3 DEF Emptied
  <2>2. Cardinality(Used(t.table)) = 0 /\ IsFiniteSet(Used(t.table)) /\ Live(t.table) \subseteq Used(t.table)
    BY <1>3, SoundKinds, BucketKinds DEF Sound, Counted
  <2>3. Live(t.table) = {}
    BY <2>2, FS_EmptySet
  <2> QED BY <2>1, <2>3 DEF Kept, Contents, At
<1>4. CASE ~(t.num_elements = 0 /\ n = t.num_buckets)
  <2>1. Emptied(t) = Cleared(t, n)
    BY <1>4 DEF Emptied
  <2> HIDE DEF n
  <2> QED BY <1>1, <1>2, <2>1, ClearedSound DEF Fresh
<1> QED BY <1>3, <1>4

(* clear_no_resize. *)
LEMMA EmptiedNoResizeRight ==
  ASSUME NEW t, Sound(t)
  PROVE  LET u == EmptiedNoResize(t) IN Sound(u) /\ Kept(u, t) /\ Contents(u.table) = {}
<1> DEFINE u == EmptiedNoResize(t)
           n == t.num_buckets
           tab == [b \in Buckets(n) |-> Vacant]
           new == IF t.num_elements > 0 THEN tab ELSE t.table
<1>1. /\ Fields(t) /\ Thresholds(t) /\ n \in Sizes /\ n \in Nat \ {0} /\ DOMAIN t.table = Buckets(n)
      /\ Layout(t.table, n, t.delkey) /\ t.delkey \in Mark \cup {NoKey} /\ t.use_empty
      /\ t.num_elements \in Nat
  BY SoundKinds DEF Sound
<1>2. u = [t EXCEPT !.table = new, !.num_elements = 0, !.num_deleted = 0, !.consider_shrink = FALSE]
  BY <1>1 DEF EmptiedNoResize
<1>3. /\ Layout(new, n, t.delkey) /\ Live(new) = {} /\ Used(new) = {} /\ Gone(new, t.delkey) = {}
  <2>1. CASE t.num_elements > 0
    BY <1>1, <2>1, VacantLayout
  <2>2. CASE ~(t.num_elements > 0)
    <3>1. t.num_elements = 0
      BY <1>1, <2>2
    <3>2. /\ Cardinality(Used(t.table)) = 0 /\ IsFiniteSet(Used(t.table))
          /\ Used(t.table) = Live(t.table) \cup Gone(t.table, t.delkey)
      BY <1>1, <3>1, BucketKinds DEF Sound, Counted
    <3>3. Used(t.table) = {}
      BY <3>2, FS_EmptySet
    <3> QED BY <1>1, <2>2, <3>2, <3>3
  <2> QED BY <2>1, <2>2
<1> HIDE DEF new, u
<1>4. /\ u.table = new /\ u.num_buckets = n /\ u.num_elements = 0 /\ u.num_deleted = 0 /\ Kept(u, t)
  BY <1>1, <1>2 DEF Fields, Kept
<1>5. Fields(u)
  BY <1>1, <1>2 DEF Fields
<1>6. Cardinality({}) = 0
  BY FS_EmptySet
<1>7. Sound(u)
  BY <1>1, <1>3, <1>4, <1>5, <1>6 DEF Sound, Counted, Thresholds, Kept
<1> QED BY <1>3, <1>4, <1>7 DEF Contents, At, u

(* set_empty_key, once. *)
LEMMA WithEmptyKeyRight ==
  ASSUME NEW t, Proper(t)
  PROVE  LET u == WithEmptyKey(t)
         IN  /\ t.use_empty => u = Fail(t)
             /\ ~t.use_empty => Sound(u) /\ u.delkey = t.delkey /\ Contents(u.table) = {}
<1> DEFINE u == WithEmptyKey(t)
           n == t.num_buckets
           tab == [b \in Buckets(n) |-> Vacant]
<1>1. CASE t.use_empty
  BY <1>1 DEF WithEmptyKey
<1>2. CASE ~t.use_empty
  <2>1. Unused(t) /\ Fields(t) /\ Thresholds(t) /\ n \in Sizes /\ n \in Nat \ {0}
    BY <1>2, ProperApart, ProperKinds
  <2>2. t.table = Nothing /\ t.num_elements = 0 /\ t.num_deleted = 0
    BY <2>1 DEF Unused
  <2>3. t.delkey \in Mark \cup {NoKey}
    BY <2>1 DEF Fields
  <2>4. /\ Layout(tab, n, t.delkey) /\ Used(tab) = {} /\ Gone(tab, t.delkey) = {}
        /\ Contents(tab) = {}
    BY <2>1, <2>3, VacantLayout
  <2>5. u = [t EXCEPT !.use_empty = TRUE, !.table = tab]
    BY <1>2, <2>2 DEF WithEmptyKey
  <2> HIDE DEF tab, u
  <2>6. /\ u.table = tab /\ u.num_buckets = n /\ u.num_elements = 0 /\ u.num_deleted = 0
        /\ u.delkey = t.delkey /\ u.grow = t.grow /\ u.shrink = t.shrink /\ u.use_empty
    BY <2>1, <2>2, <2>5 DEF Fields
  <2>7. Fields(u)
    BY <2>1, <2>5 DEF Fields
  <2>8. Cardinality({}) = 0
    BY FS_EmptySet
  <2>9. Sound(u)
    BY <2>1, <2>4, <2>6, <2>7, <2>8 DEF Sound, Counted, Thresholds
  <2> QED BY <1>2, <2>4, <2>6, <2>9 DEF u
<1> QED BY <1>1, <1>2

(* set_deleted_key and clear_deleted_key: what is marked with the key there*)
(* was is squashed.                                                        *)
LEMMA WithDeletedKeyRight ==
  ASSUME NEW t, Proper(t), t.num_deleted > 0 => ~CopyThrows(t), NEW mark \in Mark \cup {NoKey}
  PROVE  LET u == WithDeletedKey(t, mark)
         IN  /\ Proper(u) /\ u.use_empty = t.use_empty /\ u.delkey = mark
             /\ Contents(u.table) = Contents(t.table)
<1> DEFINE s == Squashed(t)
           u == WithDeletedKey(t, mark)
<1>1. Rebuilt(s, t) /\ s.num_deleted = 0
  BY SquashedRight
<1>2. u = [s EXCEPT !.delkey = mark]
  BY DEF WithDeletedKey
<1> HIDE DEF s, u
<1>3. Fields(s) /\ Thresholds(s)
  BY <1>1, ProperKinds DEF Rebuilt
<1>4. /\ u.table = s.table /\ u.num_buckets = s.num_buckets /\ u.num_elements = s.num_elements
      /\ u.num_deleted = 0 /\ u.delkey = mark /\ u.use_empty = s.use_empty
      /\ u.grow = s.grow /\ u.shrink = s.shrink
  BY <1>1, <1>2, <1>3 DEF Fields
<1>5. Fields(u)
  BY <1>2, <1>3 DEF Fields
<1>6. Thresholds(u)
  BY <1>3, <1>4 DEF Thresholds
<1>7. CASE Sound(s)
  <2>1. Layout(s.table, s.num_buckets, s.delkey) /\ s.num_deleted = Cardinality(Gone(s.table, s.delkey))
    BY <1>7 DEF Sound, Counted
  <2>2. Gone(s.table, s.delkey) = {}
    BY <1>1, <2>1, BucketKinds, FS_EmptySet
  <2>3. Layout(s.table, s.num_buckets, mark) /\ Gone(s.table, mark) = {} /\ Cardinality({}) = 0
    BY <2>1, <2>2, MarkLayout, FS_EmptySet
  <2>4. Sound(u)
    BY <1>4, <1>5, <1>6, <1>7, <2>3 DEF Sound, Counted
  <2> QED BY <1>1, <1>4, <2>4 DEF Proper, Rebuilt, Kept, u
<1>8. CASE Unused(s)
  <2>1. Unused(u)
    BY <1>4, <1>5, <1>6, <1>8 DEF Unused
  <2> QED BY <1>1, <1>4, <2>1 DEF Proper, Rebuilt, Kept, u
<1> QED BY <1>1, <1>7, <1>8 DEF Rebuilt, Proper

(* set_resizing_parameters; the table never shrinks as soon as it has grown. *)
LEMMA ResizingRight ==
  ASSUME NEW t, Proper(t), NEW shrink \in Nat, NEW grow \in 1 .. 99, grow % 2 = 0,
         \E n \in Sizes : n * grow >= 100
  PROVE  LET u == [Resizing(t, shrink, grow) EXCEPT !.consider_shrink = FALSE]
         IN  /\ Proper(u) /\ u.use_empty = t.use_empty /\ u.delkey = t.delkey /\ u.table = t.table
<1> DEFINE f == IF 2 * shrink > grow THEN grow \div 2 ELSE shrink
           u == [Resizing(t, shrink, grow) EXCEPT !.consider_shrink = FALSE]
<1>1. f \in Nat /\ 2 * f <= grow
  OBVIOUS
<1>2. u = [t EXCEPT !.grow = grow, !.shrink = f, !.consider_shrink = FALSE]
  BY DEF Resizing
<1> HIDE DEF f, u
<1>3. Fields(t)
  BY ProperKinds
<1>4. /\ u.table = t.table /\ u.num_buckets = t.num_buckets /\ u.num_elements = t.num_elements
      /\ u.num_deleted = t.num_deleted /\ u.delkey = t.delkey /\ u.use_empty = t.use_empty
      /\ u.grow = grow /\ u.shrink = f
  BY <1>2, <1>3 DEF Fields
<1>5. Fields(u)
  BY <1>1, <1>2, <1>3 DEF Fields
<1>6. Thresholds(u)
  BY <1>1, <1>4 DEF Thresholds
<1>7. CASE Sound(t)
  <2>1. Sound(u)
    BY <1>4, <1>5, <1>6, <1>7 DEF Sound, Counted
  <2> QED BY <1>4, <2>1 DEF Proper, u
<1>8. CASE Unused(t)
  <2>1. Unused(u)
    BY <1>4, <1>5, <1>6, <1>8 DEF Unused
  <2> QED BY <1>4, <2>1 DEF Proper, u
<1> QED BY <1>7, <1>8 DEF Proper

-----------------------------------------------------------------------------
(* insert of two entries, operator==, and what is called too early.        *)

(* insert of two entries is one resize_delta and two times insert_noresize.*)
LEMMA InsertedAllSteps ==
  ASSUME NEW t, NEW e, NEW f
  PROVE  InsertedAll(t, <<e, f>>) =
           InsertedNoresize(InsertedNoresize(ResizedBy(t, 2), e.key, e.value), f.key, f.value)
<1> DEFINE entries == <<e, f>>
           s0 == ResizedBy(t, 2)
           s1 == InsertedNoresize(s0, e.key, e.value)
           s2 == InsertedNoresize(s1, f.key, f.value)
           Is(g) == g = [i \in 0 .. 2 |->
                           IF i = 0 THEN ResizedBy(t, 2)
                           ELSE InsertedNoresize(g[i - 1], entries[i].key, entries[i].value)]
           upTo == CHOOSE g : Is(g)
<1>1. Len(entries) = 2 /\ entries[1] = e /\ entries[2] = f
  OBVIOUS
<1>2. InsertedAll(t, entries) = upTo[2]
  <2> HIDE DEF entries
  <2> QED BY <1>1 DEF InsertedAll
<1> HIDE DEF entries
<1>3. Is([i \in 0 .. 2 |-> IF i = 0 THEN s0 ELSE IF i = 1 THEN s1 ELSE s2])
  <2> DEFINE g == [i \in 0 .. 2 |-> IF i = 0 THEN s0 ELSE IF i = 1 THEN s1 ELSE s2]
  <2>1. g[0] = s0 /\ g[1] = s1 /\ g[2] = s2
    OBVIOUS
  <2>2. g = [i \in 0 .. 2 |-> g[i]]
    OBVIOUS
  <2> HIDE DEF g
  <2>3. \A i \in 0 .. 2 : g[i] = IF i = 0 THEN ResizedBy(t, 2)
                                 ELSE InsertedNoresize(g[i - 1], entries[i].key, entries[i].value)
    <3> SUFFICES ASSUME NEW i \in 0 .. 2
                 PROVE  g[i] = IF i = 0 THEN ResizedBy(t, 2)
                               ELSE InsertedNoresize(g[i - 1], entries[i].key, entries[i].value)
      OBVIOUS
    <3>1. CASE i = 0
      BY <2>1, <3>1
    <3>2. CASE i = 1
      <4>1. i - 1 = 0 /\ i # 0
        BY <3>2
      <4> QED BY <1>1, <2>1, <3>2, <4>1
    <3>3. CASE i = 2
      <4>1. i - 1 = 1 /\ i # 0
        BY <3>3
      <4> QED BY <1>1, <2>1, <3>3, <4>1
    <3> QED BY <3>1, <3>2, <3>3
  <2>4. Is(g)
    BY <2>2, <2>3
  <2> QED BY <2>4 DEF g
<1>4. Is(upTo)
  BY <1>3
<1> HIDE DEF upTo
<1>5. \A i \in 0 .. 2 : upTo[i] = IF i = 0 THEN ResizedBy(t, 2)
                                  ELSE InsertedNoresize(upTo[i - 1], entries[i].key, entries[i].value)
  BY <1>4
<1>6. upTo[0] = s0
  BY <1>5
<1>7. upTo[1] = s1
  <2>1. 1 \in 0 .. 2 /\ 1 # 0 /\ 1 - 1 = 0
    OBVIOUS
  <2> QED BY <1>1, <1>5, <1>6, <2>1
<1>8. upTo[2] = s2
  <2>1. 2 \in 0 .. 2 /\ 2 # 0 /\ 2 - 1 = 1
    OBVIOUS
  <2> QED BY <1>1, <1>5, <1>7, <2>1
<1> QED BY <1>2, <1>8 DEF entries

(* insert of two entries: room for both was made at first. *)
LEMMA InsertedAllRight ==
  ASSUME NEW t, Sound(t), ~Throws(t, 2), NEW k \in Key, NEW v \in Value, NEW l \in Key, NEW w \in Value
  PROVE  LET u == InsertedAll(t, <<Bucket(k, v), Bucket(l, w)>>)
         IN  /\ Sound(u) /\ Kept(u, t)
             /\ Contents(u.table) = Plus(Plus(Contents(t.table), k, v), l, w)
<1> DEFINE s0 == ResizedBy(t, 2)
           s1 == InsertedNoresize(s0, k, v)
           s2 == InsertedNoresize(s1, l, w)
<1>1. Rebuilt(s0, t) /\ Sound(s0) /\ s0.num_elements + 2 < s0.num_buckets
  BY ResizedByRight, RebuiltSound DEF Proper
<1>2. InsertedAll(t, <<Bucket(k, v), Bucket(l, w)>>) = s2
  BY InsertedAllSteps, BucketFields
<1> HIDE DEF s0
<1>3. s0.num_elements \in Nat /\ s0.num_buckets \in Nat
  BY <1>1, SoundKinds
<1>4. s0.num_elements + 1 < s0.num_buckets
  BY <1>1, <1>3
<1>5. /\ Sound(s1) /\ Kept(s1, s0) /\ s1.num_buckets = s0.num_buckets
      /\ s1.num_elements <= s0.num_elements + 1
      /\ Contents(s1.table) = Plus(Contents(s0.table), k, v)
  BY <1>1, <1>4, InsertedNoresizeRight
<1> HIDE DEF s1
<1>6. s1.num_elements + 1 < s1.num_buckets
  <2>1. s1.num_elements \in Nat /\ s1.num_buckets \in Nat
    BY <1>5, SoundKinds
  <2> QED BY <1>1, <1>3, <1>5, <2>1
<1>7. /\ Sound(s2) /\ Kept(s2, s1)
      /\ Contents(s2.table) = Plus(Contents(s1.table), l, w)
  BY <1>5, <1>6, InsertedNoresizeRight
<1> HIDE DEF s2
<1> QED BY <1>1, <1>2, <1>5, <1>7 DEF Rebuilt, Kept

(* A table without an empty key. *)
Failed(u, t) == ~u.ok /\ Kept(u, t) /\ u.table = Nothing

(* An assertion that fails changes nothing. *)
LEMMA FailFields ==
  ASSUME NEW t, Fields(t)
  PROVE  LET u == Fail(t)
         IN  /\ ~u.ok /\ Kept(u, t) /\ u.table = t.table /\ u.num_deleted = t.num_deleted
             /\ u.num_buckets = t.num_buckets
BY DEF Fail, Fields, Kept

(* Without an empty key, insert and operator[] fail an assertion, and erase*)
(* finds nothing.                                                          *)
LEMMA UnusedFails ==
  ASSUME NEW t, Unused(t), NEW k \in Key, NEW v \in Value
  PROVE  /\ ~Throws(t, 1) => Failed(Inserted(t, k, v), t)
         /\ AssignedTo(t, k, v) = Fail(t) /\ Failed(Fail(t), t)
         /\ \A l \in Key, w \in Value :
              ~Throws(t, 2) => Failed(InsertedAll(t, <<Bucket(k, v), Bucket(l, w)>>), t)
         /\ Erased(t, k) = t
<1>1. \A u \in {t} : ~u.use_empty /\ Fields(u) /\ u.table = Nothing
  BY DEF Unused
<1>2. \A d \in Nat : ~Throws(t, d) => Unused(ResizedBy(t, d)) /\ Kept(ResizedBy(t, d), t)
  <2> SUFFICES ASSUME NEW d \in Nat, ~Throws(t, d)
               PROVE  Unused(ResizedBy(t, d)) /\ Kept(ResizedBy(t, d), t)
    OBVIOUS
  <2>1. Rebuilt(ResizedBy(t, d), t)
    BY ResizedByRight DEF Proper
  <2> QED BY <1>1, <2>1, ProperApart DEF Rebuilt, Kept
<1>3. ASSUME NEW u, ~u.use_empty, NEW x, NEW y
      PROVE  InsertedNoresize(u, x, y) = Fail(u)
  BY <1>3 DEF InsertedNoresize, Full
<1>4. ~Throws(t, 1) => Failed(Inserted(t, k, v), t)
  BY <1>2, <1>3, FailFields DEF Inserted, Unused, Failed, Kept
<1>5. AssignedTo(t, k, v) = Fail(t)
  BY <1>1 DEF AssignedTo, Full
<1>6. Failed(Fail(t), t)
  BY <1>1, FailFields DEF Failed
<1>7. ASSUME NEW l \in Key, NEW w \in Value, ~Throws(t, 2)
      PROVE  Failed(InsertedAll(t, <<Bucket(k, v), Bucket(l, w)>>), t)
  <2> DEFINE s == ResizedBy(t, 2)
             f == Fail(s)
  <2>1. Unused(s) /\ Kept(s, t) /\ Fields(s)
    BY <1>2, <1>7 DEF Unused
  <2>2. InsertedAll(t, <<Bucket(k, v), Bucket(l, w)>>) = InsertedNoresize(InsertedNoresize(s, k, v), l, w)
    BY InsertedAllSteps, BucketFields
  <2> HIDE DEF s
  <2>3. InsertedNoresize(s, k, v) = f
    BY <1>3, <2>1 DEF Unused
  <2>4. ~f.use_empty /\ Failed(f, s)
    BY <2>1, FailFields DEF Kept, Unused, Failed
  <2>5. InsertedNoresize(f, l, w) = [f EXCEPT !.ok = FALSE]
    BY <1>3, <2>4 DEF Fail
  <2>6. f = [s EXCEPT !.ok = FALSE]
    BY DEF Fail
  <2>7. [f EXCEPT !.ok = FALSE] = f
    BY <2>1, <2>6 DEF Fields
  <2> HIDE DEF f
  <2> QED BY <2>1, <2>2, <2>3, <2>4, <2>5, <2>7 DEF Failed, Kept
<1>8. Erased(t, k) = t
  <2>1. NotSpecial(t, k)
    BY <1>1, KeysApart DEF NotSpecial, Fields
  <2>2. ~Searches(t)
    BY DEF Searches, Unused, size
  <2> QED BY <2>1, <2>2 DEF Erased, FindFails, Found
<1> QED BY <1>4, <1>5, <1>6, <1>7, <1>8

(* There are as many entries as buckets that hold one. *)
LEMMA ContentsCount ==
  ASSUME NEW t, Sound(t)
  PROVE  size(t) = Cardinality(Contents(t.table))
<1> DEFINE L == Live(t.table)
           C == Contents(t.table)
           f == [b \in L |-> t.table[b]]
<1>1. size(t) = Cardinality(L) /\ IsFiniteSet(L) /\ Distinct(t.table)
  BY SoundKinds, BucketKinds DEF Layout
<1>2. f \in [L -> C] /\ \A e \in C : \E b \in L : f[b] = e
  BY DEF Contents, At
<1>3. \A b, c \in L : f[b] = f[c] => b = c
  BY <1>1 DEF Distinct
<1> HIDE DEF f, L, C
<1>4. f \in Bijection(L, C)
  BY <1>2, <1>3 DEF Bijection, Injection, Surjection, IsInjective
<1>5. Cardinality(L) = Cardinality(C)
  BY <1>1, <1>4, FS_Bijection DEF ExistsBijection
<1> QED BY <1>1, <1>5 DEF C

(* Tables with the same entries are equal. *)
LEMMA SameEntriesEqual ==
  ASSUME NEW t, NEW u, Sound(t), Sound(u), Contents(t.table) = Contents(u.table)
  PROVE  Equal(t, u)
<1>1. size(t) = size(u)
  BY ContentsCount
<1>2. Occupied(t) = Live(t.table)
  BY SoundKinds
<1>3. ASSUME NEW b \in Live(t.table), NEW e, e = t.table[b]
      PROVE  Found(u, e.key) /\ u.table[Find(u, e.key)] = e
  <2>1. e \in Contents(u.table) /\ e.key \in Key
    BY <1>3 DEF Contents, At, Live
  <2>2. Found(u, e.key)
    BY <2>1, FindRight DEF KeysOf
  <2>3. Find(u, e.key) \in Live(u.table) /\ u.table[Find(u, e.key)].key = e.key
    BY <2>1, <2>2, FindRight
  <2>4. PICK c \in Live(u.table) : u.table[c] = e
    BY <2>1 DEF Contents, At
  <2>5. Distinct(u.table)
    BY DEF Sound, Layout
  <2>6. c = Find(u, e.key)
    BY <2>3, <2>4, <2>5 DEF Distinct
  <2> QED BY <2>2, <2>4, <2>6
<1> QED BY <1>1, <1>2, <1>3 DEF Equal

-----------------------------------------------------------------------------
(* Numbers in a file. *)

(* Quotient and rest. *)
LEMMA DivMod ==
  ASSUME NEW n \in Nat, NEW q \in Nat \ {0}
  PROVE  /\ n \div q \in Nat /\ n % q \in Nat /\ n % q < q
         /\ n = q * (n \div q) + (n % q)
BY SMT

(* There is one quotient. *)
LEMMA DivUnique ==
  ASSUME NEW q \in Nat \ {0}, NEW k \in Nat, NEW r \in Nat, r < q
  PROVE  (q * k + r) \div q = k
<1> DEFINE n == q * k + r
           m == n \div q
           s == n % q
<1>1. n \in Nat
  BY SMT
<1>2. m \in Nat /\ s \in Nat /\ s < q /\ n = q * m + s
  <2> HIDE DEF n
  <2> QED BY <1>1, DivMod
<1> HIDE DEF m, s
<1>3. ASSUME m < k PROVE FALSE
  <2>1. PICK d \in Nat : k = m + 1 + d
    <3>1. k = m + 1 + (k - m - 1) /\ k - m - 1 \in Nat
      BY <1>2, <1>3
    <3> QED BY <3>1
  <2>2. q * k = q * m + q + q * d
    BY <1>2, <2>1, SMT
  <2>3. q * m + q + q * d + r = q * m + s
    BY <1>2, <2>2 DEF n
  <2> DEFINE x == q * m
             y == q * d
  <2>4. x \in Nat /\ y \in Nat
    BY <1>2, SMT
  <2>5. x + q + y + r = x + s
    BY <2>3
  <2> HIDE DEF x, y
  <2> QED BY <1>2, <2>4, <2>5
<1>4. ASSUME k < m PROVE FALSE
  <2>1. PICK d \in Nat : m = k + 1 + d
    <3>1. m = k + 1 + (m - k - 1) /\ m - k - 1 \in Nat
      BY <1>2, <1>4
    <3> QED BY <3>1
  <2>2. q * m = q * k + q + q * d
    BY <1>2, <2>1, SMT
  <2>3. q * k + r = q * k + q + q * d + s
    BY <1>2, <2>2 DEF n
  <2> DEFINE x == q * k
             y == q * d
  <2>4. x \in Nat /\ y \in Nat
    BY <1>2, SMT
  <2>5. x + r = x + q + y + s
    BY <2>3
  <2> HIDE DEF x, y
  <2> QED BY <1>2, <2>4, <2>5
<1>5. m = k
  BY <1>2, <1>3, <1>4
<1> QED BY <1>5 DEF m, n

(* Division by a product, one factor after the other. *)
LEMMA DivTwice ==
  ASSUME NEW n \in Nat, NEW q \in Nat \ {0}, NEW b \in Nat \ {0}
  PROVE  n \div (b * q) = (n \div q) \div b
<1> DEFINE m == n \div q
           r == n % q
           k == m \div b
           s == m % b
           bq == b * q
           w == q * s + r
<1>1. m \in Nat /\ r \in Nat /\ r < q /\ n = q * m + r
  BY DivMod
<1> HIDE DEF m, r
<1>2. k \in Nat /\ s \in Nat /\ s < b /\ m = b * k + s
  BY <1>1, DivMod
<1> HIDE DEF k, s
<1>3. bq \in Nat \ {0}
  BY SMT
<1>4. w \in Nat /\ w < bq
  <2>1. PICK d \in Nat : b = s + 1 + d
    <3>1. b = s + 1 + (b - s - 1) /\ b - s - 1 \in Nat
      BY <1>2
    <3> QED BY <3>1
  <2>2. bq = q * s + q + q * d
    BY <1>2, <2>1, SMT
  <2> DEFINE x == q * s
             y == q * d
  <2>3. x \in Nat /\ y \in Nat
    BY <1>2, SMT
  <2>4. bq = x + q + y /\ w = x + r
    BY <2>2
  <2> HIDE DEF x, y, w, bq
  <2> QED BY <1>1, <2>3, <2>4
<1>5. n = bq * k + w
  <2>1. q * m = bq * k + q * s
    BY <1>2, SMT
  <2> DEFINE x == bq * k
             y == q * s
             z == q * m
  <2>2. x \in Nat /\ y \in Nat /\ z \in Nat /\ z = x + y
    BY <1>1, <1>2, <2>1, SMT
  <2>3. n = z + r /\ w = y + r
    BY <1>1
  <2>4. n = x + w
    <3> HIDE DEF x, y, z, w
    <3> QED BY <1>1, <2>2, <2>3
  <2> QED BY <2>4
<1> HIDE DEF bq, w
<1>6. n \div bq = k
  BY <1>2, <1>3, <1>4, <1>5, DivUnique
<1> QED BY <1>6 DEF bq, k, m

(* A number is read from the bytes it is written as. *)
LEMMA NumberRead ==
  ASSUME NEW n \in Nat, n < Power(Base)[Width],
         NEW bytes, \A i \in 1 .. Width : bytes[i] = NumberBytes(n)[i]
  PROVE  BytesNumber(bytes) = n
<1> DEFINE P == Power(Base)
           S(i) == (n \div P[Width - i]) * P[Width - i]
           E(i, x) == x + bytes[i] * P[Width - i]
           Is(g) == g = [i \in 0 .. Width |-> IF i = 0 THEN 0 ELSE E(i, g[i - 1])]
           sum == CHOOSE g : Is(g)
<1>0. Width \in Nat /\ Base \in Nat \ {0}
  BY SettingsAssumption
<1>1. /\ \A i \in Nat : P[i] \in Nat \ {0} /\ P[i + 1] = Base * P[i]
      /\ P[0] = 1
  BY <1>0, PowerSteps, PowerPositive
<1>2. BytesNumber(bytes) = sum[Width]
  BY DEF BytesNumber
<1> HIDE DEF P
<1>3. S(0) = 0
  <2> DEFINE p == P[Width]
  <2>1. p \in Nat \ {0} /\ n < p
    BY <1>0, <1>1 DEF P
  <2> HIDE DEF p
  <2>2. n = p * 0 + n
    BY <2>1
  <2>3. n \div p = 0
    <3>1. (p * 0 + n) \div p = 0
      BY <2>1, DivUnique
    <3> QED BY <2>2, <3>1
  <2>4. Width - 0 = Width
    BY <1>0
  <2>5. 0 * p = 0
    BY <2>1
  <2> QED BY <2>3, <2>4, <2>5 DEF p
<1>4. ASSUME NEW i \in 1 .. Width
      PROVE  S(i) = S(i - 1) + bytes[i] * P[Width - i]
  <2> DEFINE j == Width - i
             q == P[j]
             m == n \div q
             k == m \div Base
             s == m % Base
  <2>1. j \in Nat /\ Width - (i - 1) = j + 1
    BY <1>0
  <2>2. q \in Nat \ {0} /\ P[j + 1] = Base * q
    BY <1>1, <2>1
  <2>3. bytes[i] = s
    BY DEF NumberBytes, P
  <2> HIDE DEF j, q
  <2>4. m \in Nat
    BY <2>2, DivMod
  <2>5. n \div (Base * q) = k
    BY <1>0, <2>2, DivTwice
  <2> HIDE DEF m
  <2>6. k \in Nat /\ s \in Nat /\ m = Base * k + s
    BY <1>0, <2>4, DivMod
  <2> HIDE DEF k, s
  <2>7. m * q = k * (Base * q) + s * q
    BY <1>0, <2>2, <2>6, SMT
  <2>8. S(i) = m * q
    BY DEF m, q, j
  <2>9. S(i - 1) = k * (Base * q)
    BY <2>1, <2>2, <2>5
  <2>10. bytes[i] * P[Width - i] = s * q
    BY <2>3 DEF q, j
  <2> HIDE DEF S
  <2> QED BY <2>7, <2>8, <2>9, <2>10
<1>5. Is([i \in 0 .. Width |-> S(i)])
  <2> DEFINE g == [i \in 0 .. Width |-> S(i)]
  <2>1. \A i \in 0 .. Width : S(i) = IF i = 0 THEN 0 ELSE E(i, g[i - 1])
    <3> SUFFICES ASSUME NEW i \in 0 .. Width PROVE S(i) = IF i = 0 THEN 0 ELSE E(i, g[i - 1])
      OBVIOUS
    <3>1. CASE i = 0
      <4> HIDE DEF S, E, g
      <4> QED BY <1>3, <3>1
    <3>2. CASE i # 0
      <4>1. i \in 1 .. Width /\ i - 1 \in 0 .. Width
        BY <1>0, <3>2
      <4>2. g[i - 1] = S(i - 1)
        BY <4>1
      <4>3. S(i) = S(i - 1) + bytes[i] * P[Width - i]
        BY <1>4, <4>1
      <4> HIDE DEF S, g
      <4> QED BY <3>2, <4>2, <4>3
    <3> QED BY <3>1, <3>2
  <2>2. g = [i \in 0 .. Width |-> IF i = 0 THEN 0 ELSE E(i, g[i - 1])]
    <3> HIDE DEF S, E
    <3> QED BY <2>1
  <2> QED BY <2>2
<1>6. Is(sum)
  <2> HIDE DEF Is
  <2> QED BY <1>5
<1> DEFINE T == {i \in 0 .. Width : sum[i] = S(i)}
<1>7. \A i \in 0 .. Width : sum[i] = IF i = 0 THEN 0 ELSE E(i, sum[i - 1])
  <2> HIDE DEF sum, E
  <2> QED BY <1>6
<1> HIDE DEF sum
<1>8. 0 \in T
  <2> HIDE DEF S, E
  <2>1. 0 \in 0 .. Width
    BY <1>0
  <2> QED BY <1>3, <1>7, <2>1
<1>9. ASSUME NEW i \in 0 .. (Width - 1), i \in T PROVE i + 1 \in T
  <2> DEFINE h == i + 1
  <2>1. h \in 1 .. Width /\ h \in 0 .. Width /\ h # 0 /\ h - 1 = i
    BY <1>0
  <2> HIDE DEF h
  <2>2. sum[i] = S(i)
    BY <1>9
  <2>3. S(h) = S(h - 1) + bytes[h] * P[Width - h]
    BY <1>4, <2>1
  <2>4. sum[h] = sum[i] + bytes[h] * P[Width - h]
    BY <1>7, <2>1
  <2>5. sum[h] = S(h)
    <3> HIDE DEF S
    <3> QED BY <2>1, <2>2, <2>3, <2>4
  <2>6. h \in T
    <3> HIDE DEF S
    <3> QED BY <2>1, <2>5
  <2> QED BY <2>6 DEF h
<1>10. Width \in T
  <2>1. \A i \in 0 .. Width : i \in T
    <3> HIDE DEF T
    <3> QED BY <1>0, <1>8, <1>9, CountedInduction
  <2> HIDE DEF T
  <2> QED BY <1>0, <2>1
<1>11. S(Width) = n
  <2>1. Width - Width = 0
    BY <1>0
  <2>2. n = 1 * n + 0 /\ (1 * n + 0) \div 1 = n
    BY DivUnique
  <2>3. n \div 1 = n /\ n * 1 = n
    BY <2>2
  <2> QED BY <1>1, <2>1, <2>3
<1>12. sum[Width] = S(Width)
  BY <1>10
<1> HIDE DEF S
<1> QED BY <1>2, <1>11, <1>12

-----------------------------------------------------------------------------
(* The groups of a file. *)

(* Steps from values that are as they should be to such values. *)
Guarded(S, N, J, start, step) ==
  /\ \A i \in 0 .. N : J[i] \subseteq S
  /\ start \in J[0]
  /\ \A i \in 1 .. N : \A x \in J[i - 1] : step[<<i, x>>] \in J[i]

(* Then the function made step by step has such values. *)
LEMMA GuardedSteps ==
  ASSUME NEW S, NEW N \in Nat, NEW J, NEW start, NEW step, Guarded(S, N, J, start, step)
  PROVE  \E g : Steps(N, start, step, g) /\ \A i \in 0 .. N : g[i] \in J[i]
<1>0. /\ \A i \in 0 .. N : J[i] \subseteq S
      /\ start \in J[0]
      /\ \A i \in 1 .. N : \A x \in J[i - 1] : step[<<i, x>>] \in J[i]
  BY DEF Guarded
<1> DEFINE other == [p \in (1 .. N) \X S |-> IF p[2] \in J[p[1] - 1] THEN step[p] ELSE start]
<1>1. start \in S
  BY <1>0, 0 \in 0 .. N
<1>2. other \in [(1 .. N) \X S -> S]
  <2> SUFFICES ASSUME NEW i \in 1 .. N, NEW x \in S
               PROVE  (IF x \in J[i - 1] THEN step[<<i, x>>] ELSE start) \in S
    OBVIOUS
  <2>1. i \in 0 .. N
    OBVIOUS
  <2> QED BY <1>0, <1>1, <2>1
<1>3. \A i \in 1 .. N : \A x \in S : other[<<i, x>>] = IF x \in J[i - 1] THEN step[<<i, x>>] ELSE start
  OBVIOUS
<1> HIDE DEF other
<1>4. PICK g \in [0 .. N -> S] : Steps(N, start, other, g)
  BY <1>1, <1>2, StepsExist
<1>5. \A i \in 0 .. N : g[i] = IF i = 0 THEN start ELSE other[<<i, g[i - 1]>>]
  BY <1>4 DEF Steps
<1> DEFINE T == {i \in 0 .. N : g[i] \in J[i]}
<1>6. 0 \in T
  <2>1. 0 \in 0 .. N
    OBVIOUS
  <2> QED BY <1>0, <1>5, <2>1
<1>7. ASSUME NEW i \in 0 .. (N - 1), i \in T PROVE i + 1 \in T
  <2> DEFINE h == i + 1
  <2>1. h \in 1 .. N /\ h \in 0 .. N /\ h # 0 /\ h - 1 = i /\ g[i] \in S /\ g[i] \in J[i]
    BY <1>7
  <2> HIDE DEF h
  <2>2. g[h] = step[<<h, g[i]>>]
    BY <1>3, <1>5, <2>1
  <2>3. g[h] \in J[h]
    BY <1>0, <2>1, <2>2
  <2>4. h \in T
    BY <2>1, <2>3
  <2> QED BY <2>4 DEF h
<1>8. \A i \in 0 .. N : i \in T
  <2> HIDE DEF T
  <2> QED BY <1>6, <1>7, CountedInduction
<1>9. \A i \in 0 .. N : i # 0 => other[<<i, g[i - 1]>>] = step[<<i, g[i - 1]>>]
  <2> SUFFICES ASSUME NEW i \in 0 .. N, i # 0
               PROVE  other[<<i, g[i - 1]>>] = step[<<i, g[i - 1]>>]
    OBVIOUS
  <2>1. i \in 1 .. N /\ i - 1 \in 0 .. N
    OBVIOUS
  <2>2. g[i - 1] \in J[i - 1] /\ g[i - 1] \in S
    BY <1>8, <2>1
  <2> QED BY <1>3, <2>1, <2>2
<1>10. Steps(N, start, step, g)
  <2>1. g = [i \in 0 .. N |-> IF i = 0 THEN start ELSE other[<<i, g[i - 1]>>]]
    BY <1>4 DEF Steps
  <2>2. \A i \in 0 .. N : (IF i = 0 THEN start ELSE other[<<i, g[i - 1]>>])
                          = (IF i = 0 THEN start ELSE step[<<i, g[i - 1]>>])
    BY <1>9
  <2> QED BY <2>1, <2>2 DEF Steps
<1> QED BY <1>8, <1>10

(* The places of the bits of a group are the numbers from 1. *)
LEMMA PlaceRight ==
  ASSUME NEW bits \in SUBSET Nat, IsFiniteSet(bits)
  PROVE  /\ Cardinality(bits) \in Nat
         /\ \A b \in bits : Place(bits, b) \in 1 .. Cardinality(bits)
         /\ \A b, c \in bits : Place(bits, b) = Place(bits, c) => b = c
         /\ \A i \in 1 .. Cardinality(bits) : \E b \in bits : Place(bits, b) = i
<1> DEFINE N == Cardinality(bits)
           Below(b) == {c \in bits : c < b}
           place == [b \in bits |-> Place(bits, b)]
<1>0. N \in Nat
  BY FS_CardinalityType
<1>1. \A b \in bits : IsFiniteSet(Below(b)) /\ Cardinality(Below(b)) \in Nat
  BY FS_Subset, FS_CardinalityType
<1>2. ASSUME NEW b \in bits PROVE Place(bits, b) \in 1 .. N
  <2>1. Below(b) \in SUBSET bits /\ Below(b) # bits
    OBVIOUS
  <2> HIDE DEF Below
  <2>2. Cardinality(Below(b)) <= N /\ Cardinality(Below(b)) # N
    BY <2>1, FS_Subset
  <2>3. Place(bits, b) = 1 + Cardinality(Below(b))
    BY DEF Place, Below
  <2> QED BY <1>0, <1>1, <2>2, <2>3
<1>3. ASSUME NEW b \in bits, NEW c \in bits, b < c PROVE Place(bits, b) # Place(bits, c)
  <2>1. Below(b) \in SUBSET Below(c) /\ b \in Below(c) /\ b \notin Below(b)
    <3>1. b \in Nat /\ c \in Nat /\ \A d \in bits : d \in Nat
      OBVIOUS
    <3>2. b \in Below(c) /\ b \notin Below(b)
      BY <1>3, <3>1
    <3>3. \A d \in Below(b) : d \in bits /\ d < c
      BY <1>3, <3>1
    <3>4. \A d \in Below(b) : d \in Below(c)
      BY <3>3
    <3> QED BY <3>2, <3>4
  <2> HIDE DEF Below
  <2>2. Below(b) # Below(c)
    BY <2>1
  <2>3. Cardinality(Below(b)) # Cardinality(Below(c))
    BY <1>1, <2>1, <2>2, FS_Subset
  <2>4. Place(bits, b) = 1 + Cardinality(Below(b)) /\ Place(bits, c) = 1 + Cardinality(Below(c))
    BY DEF Place, Below
  <2> QED BY <1>1, <2>3, <2>4
<1>4. \A b, c \in bits : Place(bits, b) = Place(bits, c) => b = c
  <2> SUFFICES ASSUME NEW b \in bits, NEW c \in bits, Place(bits, b) = Place(bits, c), b # c
               PROVE  FALSE
    OBVIOUS
  <2>1. b < c \/ c < b
    OBVIOUS
  <2> QED BY <1>3, <2>1
<1>5. \A i \in 1 .. N : \E b \in bits : Place(bits, b) = i
  <2>1. place \in [bits -> 1 .. N] /\ \A b, c \in bits : place[b] = place[c] => b = c
    BY <1>2, <1>4
  <2>2. IsFiniteSet(1 .. N) /\ Cardinality(1 .. N) = N
    BY <1>0, FS_Interval
  <2> HIDE DEF place
  <2>3. place \in Injection(bits, 1 .. N)
    BY <2>1 DEF Injection, IsInjective
  <2>4. place \in Surjection(bits, 1 .. N)
    BY <2>2, <2>3, FS_Injection
  <2>5. \A i \in 1 .. N : \E b \in bits : place[b] = i
    BY <2>4 DEF Surjection
  <2> QED BY <2>5 DEF place
<1> QED BY <1>0, <1>2, <1>4, <1>5

(* Each entry is written at its place. *)
LEMMA InOrderRight ==
  ASSUME NEW t, NEW bits \in SUBSET Nat, IsFiniteSet(bits), NEW X, \A b \in bits : t.table[b] \in X
  PROVE  /\ InOrder(t, bits) \in Seq(X) /\ Len(InOrder(t, bits)) = Cardinality(bits)
         /\ \A b \in bits : InOrder(t, bits)[Place(bits, b)] = t.table[b]
<1> DEFINE N == Cardinality(bits)
           At1(i) == CHOOSE b \in bits : Place(bits, b) = i
           s == [i \in 1 .. N |-> t.table[At1(i)]]
<1>1. /\ N \in Nat
      /\ \A b \in bits : Place(bits, b) \in 1 .. N
      /\ \A b, c \in bits : Place(bits, b) = Place(bits, c) => b = c
      /\ \A i \in 1 .. N : \E b \in bits : Place(bits, b) = i
  BY PlaceRight
<1>2. \A i \in 1 .. N : At1(i) \in bits /\ Place(bits, At1(i)) = i
  BY <1>1
<1>3. \A b \in bits : At1(Place(bits, b)) = b
  BY <1>1, <1>2
<1>4. InOrder(t, bits) = s
  BY DEF InOrder
<1> HIDE DEF At1
<1>5. s \in [1 .. N -> X]
  BY <1>2
<1>6. s \in Seq(X) /\ Len(s) = N
  BY <1>1, <1>5
<1>7. \A b \in bits : s[Place(bits, b)] = t.table[b]
  BY <1>1, <1>3
<1> QED BY <1>4, <1>6, <1>7

-----------------------------------------------------------------------------
(* serialize. *)

(* What is where in the file of a table; len[g] is where group g ends. *)
FileOf(t, file, len) ==
  LET n == t.num_buckets
      N == Groups(n)
  IN  /\ len \in [0 .. N -> Nat] /\ len[0] = 2 * Width + 1 /\ len[N] = Len(file) /\ Len(file) \in Nat
      /\ \A i \in 1 .. Width : /\ file[1 + i] = NumberBytes(n)[i]
                               /\ file[1 + Width + i] = NumberBytes(t.num_elements)[i]
      /\ \A g \in 1 .. N :
           /\ len[g] = len[g - 1] + 1 + Cardinality(InUse(t, g)) /\ len[g] <= Len(file)
           /\ file[len[g - 1] + 1] = InUse(t, g)
           /\ \A b \in InUse(t, g) : file[len[g - 1] + 1 + Place(InUse(t, g), b)] = t.table[b]

(* One sequence after another, and with a value between them; a sequence    *)
(* is in another, after its first n values.                                 *)
Join(s, r) == s \o r
Longer(s, x, r) == s \o <<x>> \o r
After(u, n, r) == \A i \in 1 .. Len(r) : u[n + i] = r[i]

(* What is in two sequences, one after the other. *)
LEMMA JoinRight ==
  ASSUME NEW X, NEW s \in Seq(X), NEW r \in Seq(X)
  PROVE  /\ Join(s, r) \in Seq(X) /\ Len(Join(s, r)) = Len(s) + Len(r)
         /\ \A i \in 1 .. Len(s) : Join(s, r)[i] = s[i]
         /\ After(Join(s, r), Len(s), r)
<1> DEFINE u == s \o r
<1>1. Len(s) \in Nat /\ Len(r) \in Nat
  OBVIOUS
<1>2. u \in Seq(X) /\ Len(u) = Len(s) + Len(r)
  BY ConcatProperties, Zenon
<1>3. \A i \in 1 .. Len(s) : u[i] = s[i]
  BY <1>1, ConcatProperties
<1>4. \A i \in 1 .. Len(r) : u[Len(s) + i] = r[i]
  BY <1>1, ConcatProperties
<1>5. Join(s, r) = u
  BY DEF Join
<1> HIDE DEF u
<1>6. After(u, Len(s), r)
  BY <1>4, Zenon DEF After
<1> QED BY <1>2, <1>3, <1>5, <1>6

(* What is in a sequence that goes on. *)
LEMMA LongerRight ==
  ASSUME NEW X, NEW s \in Seq(X), NEW x \in X, NEW r \in Seq(X)
  PROVE  /\ Longer(s, x, r) \in Seq(X) /\ Len(Longer(s, x, r)) = Len(s) + 1 + Len(r)
         /\ \A i \in 1 .. Len(s) : Longer(s, x, r)[i] = s[i]
         /\ Longer(s, x, r)[Len(s) + 1] = x
         /\ After(Longer(s, x, r), Len(s) + 1, r)
<1> DEFINE o == <<x>>
           w == Join(s, o)
           u == Join(w, r)
<1>1. o \in Seq(X) /\ Len(o) = 1 /\ o[1] = x /\ Len(s) \in Nat /\ Len(r) \in Nat
  OBVIOUS
<1>2. Longer(s, x, r) = u
  BY Zenon DEF Longer, Join
<1> HIDE DEF o
<1>3. /\ w \in Seq(X) /\ Len(w) = Len(s) + Len(o)
      /\ \A i \in 1 .. Len(s) : w[i] = s[i]
      /\ After(w, Len(s), o)
  BY <1>1, JoinRight
<1> HIDE DEF w
<1>4. /\ u \in Seq(X) /\ Len(u) = Len(w) + Len(r)
      /\ \A i \in 1 .. Len(w) : u[i] = w[i]
      /\ After(u, Len(w), r)
  BY <1>3, JoinRight
<1> HIDE DEF u
<1>5. \A i \in 1 .. Len(s) : i \in 1 .. Len(w)
  BY <1>1, <1>3
<1>6. 1 \in 1 .. Len(o) /\ Len(s) + 1 \in 1 .. Len(w) /\ Len(w) = Len(s) + 1
  BY <1>1, <1>3
<1>7. w[Len(s) + 1] = o[1]
  BY <1>3, <1>6 DEF After
<1> QED BY <1>1, <1>2, <1>3, <1>4, <1>5, <1>6, <1>7

(* serialize writes such a file. *)
LEMMA WrittenRight ==
  ASSUME NEW t, Sound(t)
  PROVE  \E len : FileOf(t, Written(t), len)
<1> DEFINE n == t.num_buckets
           N == Groups(n)
           e == t.num_elements
           X == {"magic"} \cup Nat \cup (SUBSET Buckets(n)) \cup BucketOf(t.delkey)
           head == Join(Join(<<"magic">>, NumberBytes(n)), NumberBytes(e))
           Use(g) == InUse(t, g)
           E(g, s) == Longer(s, InUse(t, g), InOrder(t, InUse(t, g)))
           Is(f) == f = [g \in 0 .. N |-> IF g = 0 THEN head ELSE E(g, f[g - 1])]
           W == CHOOSE f : Is(f)
<1>1. /\ n \in Nat \ {0} /\ e \in Nat /\ t.table \in [Buckets(n) -> BucketOf(t.delkey)]
      /\ Width \in Nat /\ Base \in Nat \ {0} /\ Group \in Nat \ {0}
  BY SoundKinds, SettingsAssumption, TableAssumption DEF Layout
<1>2. N \in Nat
  BY <1>1, DivMod DEF Groups
<1>3. \A g \in 1 .. N : /\ Use(g) \in SUBSET Nat /\ Use(g) \in SUBSET Buckets(n) /\ IsFiniteSet(Use(g))
                        /\ Cardinality(Use(g)) \in Nat
  <2>1. \A g \in 1 .. N : Use(g) \in SUBSET Buckets(n)
    BY DEF InUse, InGroup
  <2>2. Buckets(n) \subseteq Nat
    BY <1>1 DEF Buckets
  <2> QED BY <1>1, <2>1, <2>2, BucketsFinite
<1>4. \A k \in Nat : NumberBytes(k) \in Seq(X) /\ Len(NumberBytes(k)) = Width
  <2> SUFFICES ASSUME NEW k \in Nat PROVE NumberBytes(k) \in Seq(X) /\ Len(NumberBytes(k)) = Width
    OBVIOUS
  <2>1. \A i \in 1 .. Width : (k \div Power(Base)[Width - i]) % Base \in Nat
    <3> SUFFICES ASSUME NEW i \in 1 .. Width PROVE (k \div Power(Base)[Width - i]) % Base \in Nat
      OBVIOUS
    <3>1. Power(Base)[Width - i] \in Nat \ {0}
      BY <1>1, PowerPositive
    <3> QED BY <1>1, <3>1, DivMod
  <2>2. NumberBytes(k) \in [1 .. Width -> X]
    BY <2>1 DEF NumberBytes
  <2> HIDE DEF X
  <2> QED BY <1>1, <2>2
<1>5. /\ head \in Seq(X) /\ Len(head) = 2 * Width + 1
      /\ \A i \in 1 .. Width : head[1 + i] = NumberBytes(n)[i] /\ head[1 + Width + i] = NumberBytes(e)[i]
  <2> DEFINE m == <<"magic">>
             p == NumberBytes(n)
             q == NumberBytes(e)
             mp == Join(m, p)
  <2>1. m \in Seq(X) /\ Len(m) = 1
    OBVIOUS
  <2>2. p \in Seq(X) /\ q \in Seq(X) /\ Len(p) = Width /\ Len(q) = Width
    BY <1>1, <1>4
  <2> HIDE DEF m, p, q, X
  <2>3. /\ mp \in Seq(X) /\ Len(mp) = Len(m) + Len(p)
        /\ After(mp, Len(m), p)
    BY <2>1, <2>2, JoinRight
  <2>4. head = Join(mp, q)
    BY DEF m, p, q
  <2> HIDE DEF mp, head
  <2>5. /\ head \in Seq(X) /\ Len(head) = Len(mp) + Len(q)
        /\ \A i \in 1 .. Len(mp) : head[i] = mp[i]
        /\ After(head, Len(mp), q)
    BY <2>2, <2>3, <2>4, JoinRight
  <2>6. Len(mp) = Width + 1
    BY <1>1, <2>1, <2>2, <2>3
  <2>7. Len(head) = 2 * Width + 1
    BY <1>1, <2>2, <2>5, <2>6
  <2>8. \A i \in 1 .. Width : 1 + i \in 1 .. (Width + 1)
    BY <1>1
  <2>9. \A i \in 1 .. Width : head[1 + i] = p[i]
    BY <2>1, <2>2, <2>3, <2>5, <2>6, <2>8 DEF After
  <2>10. \A i \in 1 .. Width : head[1 + Width + i] = q[i]
    <3>1. 1 + Width = Len(mp)
      BY <1>1, <2>6
    <3> QED BY <2>2, <2>5, <3>1 DEF After
  <2> QED BY <2>5, <2>7, <2>9, <2>10 DEF p, q
<1>6. \A g \in 1 .. N : /\ Use(g) \in X
                        /\ InOrder(t, Use(g)) \in Seq(X) /\ Len(InOrder(t, Use(g))) = Cardinality(Use(g))
                        /\ \A b \in Use(g) : /\ Place(Use(g), b) \in 1 .. Cardinality(Use(g))
                                             /\ InOrder(t, Use(g))[Place(Use(g), b)] = t.table[b]
  <2> SUFFICES ASSUME NEW g \in 1 .. N
               PROVE  /\ Use(g) \in X
                      /\ InOrder(t, Use(g)) \in Seq(X) /\ Len(InOrder(t, Use(g))) = Cardinality(Use(g))
                      /\ \A b \in Use(g) : /\ Place(Use(g), b) \in 1 .. Cardinality(Use(g))
                                           /\ InOrder(t, Use(g))[Place(Use(g), b)] = t.table[b]
    OBVIOUS
  <2> DEFINE bits == Use(g)
  <2>1. bits \in SUBSET Nat /\ bits \in SUBSET Buckets(n) /\ IsFiniteSet(bits)
    BY <1>3
  <2>2. \A b \in bits : t.table[b] \in X
    <3>1. \A b \in Buckets(n) : t.table[b] \in BucketOf(t.delkey)
      BY <1>1
    <3>2. BucketOf(t.delkey) \subseteq X
      OBVIOUS
    <3> HIDE DEF X
    <3>3. \A b \in Buckets(n) : t.table[b] \in X
      BY <3>1, <3>2
    <3> HIDE DEF bits, X, n
    <3> QED BY <2>1, <3>3
  <2>3. bits \in X
    BY <2>1
  <2> HIDE DEF bits, X
  <2>4. InOrder(t, bits) \in Seq(X) /\ Len(InOrder(t, bits)) = Cardinality(bits)
    BY <2>1, <2>2, InOrderRight
  <2>5. \A b \in bits : /\ Place(bits, b) \in 1 .. Cardinality(bits)
                        /\ InOrder(t, bits)[Place(bits, b)] = t.table[b]
    <3>1. \A b \in bits : InOrder(t, bits)[Place(bits, b)] = t.table[b]
      BY <2>1, <2>2, InOrderRight
    <3>2. \A b \in bits : Place(bits, b) \in 1 .. Cardinality(bits)
      BY <2>1, PlaceRight
    <3> QED BY <3>1, <3>2
  <2> QED BY <2>3, <2>4, <2>5 DEF bits
<1> HIDE DEF X, head
<1>7. \A g \in 1 .. N, s \in Seq(X) : E(g, s) \in Seq(X)
  BY <1>6, LongerRight
<1>8. \E f : Is(f) /\ f \in [0 .. N -> Seq(X)]
  <2> DEFINE S == Seq(X)
             step == [p \in (1 .. N) \X S |-> E(p[1], p[2])]
  <2> HIDE DEF S
  <2>1. step \in [(1 .. N) \X S -> S]
    <3> HIDE DEF E
    <3> QED BY <1>7 DEF S
  <2>2. \A g \in 1 .. N, s \in S : step[<<g, s>>] = E(g, s)
    <3> HIDE DEF E
    <3> QED OBVIOUS
  <2> HIDE DEF step
  <2>3. PICK f \in [0 .. N -> S] : Steps(N, head, step, f)
    BY <1>2, <1>5, <2>1, StepsExist DEF S
  <2>4. \A g \in 0 .. N : g # 0 => step[<<g, f[g - 1]>>] = E(g, f[g - 1])
    <3> HIDE DEF E
    <3> SUFFICES ASSUME NEW g \in 0 .. N, g # 0 PROVE step[<<g, f[g - 1]>>] = E(g, f[g - 1])
      OBVIOUS
    <3>1. g \in 1 .. N /\ f[g - 1] \in S
      BY <1>2, <2>3
    <3> QED BY <2>2, <3>1
  <2>5. Is(f)
    <3> HIDE DEF E
    <3> QED BY <2>3, <2>4 DEF Steps
  <2> QED BY <2>3, <2>5 DEF S
<1>9. Is(W)
  <2> HIDE DEF Is
  <2> QED BY <1>8
<1>10. Written(t) = W[N]
  BY Zenon DEF Written, head, Join, Longer
<1> HIDE DEF W
<1>11. /\ W[0] = head
       /\ \A g \in 1 .. N : W[g] = E(g, W[g - 1])
  <2> HIDE DEF E
  <2>1. \A g \in 0 .. N : W[g] = IF g = 0 THEN head ELSE E(g, W[g - 1])
    BY <1>9
  <2> QED BY <1>2, <2>1
<1>12. \A g \in 0 .. N : W[g] \in Seq(X)
  <2> DEFINE T == {g \in 0 .. N : W[g] \in Seq(X)}
  <2>1. 0 \in T
    BY <1>2, <1>5, <1>11
  <2>2. ASSUME NEW g \in 0 .. (N - 1), g \in T PROVE g + 1 \in T
    <3> DEFINE h == g + 1
    <3>1. h \in 1 .. N /\ h \in 0 .. N /\ h - 1 = g
      BY <1>2
    <3> HIDE DEF h
    <3>2. W[h] \in Seq(X)
      <4> HIDE DEF E
      <4> QED BY <1>7, <1>11, <2>2, <3>1
    <3>3. h \in T
      BY <3>1, <3>2
    <3> QED BY <3>3 DEF h
  <2>3. \A g \in 0 .. N : g \in T
    <3> HIDE DEF T
    <3> QED BY <1>2, <2>1, <2>2, CountedInduction
  <2> QED BY <2>3
<1> DEFINE len == [g \in 0 .. N |-> Len(W[g])]
<1>13. len \in [0 .. N -> Nat] /\ len[0] = 2 * Width + 1 /\ len[N] = Len(W[N])
  <2>1. \A g \in 0 .. N : Len(W[g]) \in Nat
    BY <1>12
  <2> QED BY <1>2, <1>5, <1>11, <2>1
<1>14. \A g \in 1 .. N :
         /\ len[g] = len[g - 1] + 1 + Cardinality(Use(g))
         /\ W[g][len[g - 1] + 1] = Use(g)
         /\ \A b \in Use(g) : W[g][len[g - 1] + 1 + Place(Use(g), b)] = t.table[b]
         /\ \A i \in 1 .. len[g - 1] : W[g][i] = W[g - 1][i]
  <2> SUFFICES ASSUME NEW g \in 1 .. N
               PROVE  /\ len[g] = len[g - 1] + 1 + Cardinality(Use(g))
                      /\ W[g][len[g - 1] + 1] = Use(g)
                      /\ \A b \in Use(g) : W[g][len[g - 1] + 1 + Place(Use(g), b)] = t.table[b]
                      /\ \A i \in 1 .. len[g - 1] : W[g][i] = W[g - 1][i]
    OBVIOUS
  <2> DEFINE bits == Use(g)
             r == InOrder(t, bits)
             s == W[g - 1]
             u == W[g]
  <2>1. g \in 0 .. N /\ g - 1 \in 0 .. N /\ s \in Seq(X) /\ len[g - 1] = Len(s) /\ len[g] = Len(u)
    BY <1>2, <1>12
  <2>2. /\ bits \in X /\ r \in Seq(X) /\ Len(r) = Cardinality(bits)
        /\ \A b \in bits : Place(bits, b) \in 1 .. Len(r) /\ r[Place(bits, b)] = t.table[b]
    BY <1>6
  <2>3. u = Longer(s, bits, r)
    BY <1>11
  <2>31. u \in Seq(X)
    BY <1>2, <1>12, <2>1
  <2> HIDE DEF bits, r, s, u, len
  <2>4. /\ Len(u) = Len(s) + 1 + Len(r)
        /\ \A i \in 1 .. Len(s) : u[i] = s[i]
        /\ u[Len(s) + 1] = bits
        /\ After(u, Len(s) + 1, r)
    <3> DEFINE w == Longer(s, bits, r)
    <3>1. /\ Len(w) = Len(s) + 1 + Len(r)
          /\ \A i \in 1 .. Len(s) : w[i] = s[i]
          /\ w[Len(s) + 1] = bits
          /\ After(w, Len(s) + 1, r)
      <4>1. s \in Seq(X) /\ bits \in X /\ r \in Seq(X)
        BY <2>1, <2>2
      <4> QED BY <4>1, LongerRight
    <3> HIDE DEF w
    <3>2. u = w
      BY <2>3 DEF w
    <3> QED BY <3>1, <3>2, Zenon
  <2>5. \A b \in bits : u[Len(s) + 1 + Place(bits, b)] = t.table[b]
    BY <2>2, <2>4 DEF After
  <2> HIDE DEF len
  <2> QED BY <2>1, <2>2, <2>4, <2>5 DEF bits, s, u
<1> HIDE DEF len, Use, E
(* A prefix of the whole file. *)
<1> DEFINE Prefix(g) == \A h \in 0 .. g : len[h] <= len[g] /\ \A i \in 1 .. len[h] : W[g][i] = W[h][i]
           T == {g \in 0 .. N : Prefix(g)}
<1>15. 0 \in T
  BY <1>2, <1>13
<1>16. ASSUME NEW g \in 0 .. (N - 1), g \in T PROVE g + 1 \in T
  <2> DEFINE k == g + 1
  <2>1. k \in 1 .. N /\ k \in 0 .. N /\ k - 1 = g /\ g \in 0 .. N /\ Cardinality(Use(k)) \in Nat
    BY <1>2, <1>3
  <2>2. \A h \in 0 .. k : h = k \/ h \in 0 .. g
    BY <1>2
  <2>3. \A h \in 0 .. k : h \in 0 .. N
    BY <1>2
  <2> HIDE DEF k
  <2>4. Prefix(g)
    BY <1>16
  <2>5. len[k] = len[g] + 1 + Cardinality(Use(k)) /\ \A i \in 1 .. len[g] : W[k][i] = W[g][i]
    BY <1>14, <2>1
  <2>6. ASSUME NEW h \in 0 .. k PROVE len[h] <= len[k] /\ \A i \in 1 .. len[h] : W[k][i] = W[h][i]
    <3>1. len[h] \in Nat /\ len[g] \in Nat /\ len[k] \in Nat
      BY <1>13, <2>1, <2>3
    <3>2. CASE h = k
      BY <3>1, <3>2
    <3>3. CASE h \in 0 .. g
      <4>1. len[h] <= len[g] /\ \A i \in 1 .. len[h] : W[g][i] = W[h][i]
        BY <2>4, <3>3
      <4>2. \A i \in 1 .. len[h] : i \in 1 .. len[g]
        BY <3>1, <4>1
      <4> QED BY <2>1, <2>5, <3>1, <4>1, <4>2
    <3> QED BY <2>2, <3>2, <3>3
  <2>7. Prefix(k)
    BY <2>6
  <2>8. k \in T
    <3> HIDE DEF Prefix
    <3> QED BY <2>1, <2>7
  <2> QED BY <2>8 DEF k
<1>17. Prefix(N)
  <2>1. \A g \in 0 .. N : g \in T
    <3> HIDE DEF T
    <3> QED BY <1>2, <1>15, <1>16, CountedInduction
  <2>2. N \in T
    <3> HIDE DEF T
    <3> QED BY <1>2, <2>1
  <2> HIDE DEF Prefix
  <2> QED BY <2>2
<1> DEFINE file == W[N]
<1>18. Len(file) \in Nat /\ len[N] = Len(file)
  BY <1>2, <1>13
<1>19. \A i \in 1 .. Width : file[1 + i] = NumberBytes(n)[i] /\ file[1 + Width + i] = NumberBytes(e)[i]
  <2>1. 0 \in 0 .. N
    BY <1>2
  <2>2. \A i \in 1 .. len[0] : file[i] = head[i]
    BY <1>11, <1>17, <2>1
  <2>3. \A i \in 1 .. Width : 1 + i \in 1 .. len[0] /\ 1 + Width + i \in 1 .. len[0]
    BY <1>1, <1>13
  <2> HIDE DEF file, n, e
  <2> QED BY <1>5, <2>2, <2>3
<1>20. ASSUME NEW g \in 1 .. N
       PROVE  /\ len[g] = len[g - 1] + 1 + Cardinality(Use(g)) /\ len[g] <= Len(file)
              /\ file[len[g - 1] + 1] = Use(g)
              /\ \A b \in Use(g) : file[len[g - 1] + 1 + Place(Use(g), b)] = t.table[b]
  <2>1. g \in 0 .. N /\ g - 1 \in 0 .. N
    BY <1>2
  <2>2. len[g] <= len[N] /\ \A i \in 1 .. len[g] : file[i] = W[g][i]
    BY <1>17, <2>1
  <2>3. /\ len[g] = len[g - 1] + 1 + Cardinality(Use(g))
        /\ W[g][len[g - 1] + 1] = Use(g)
        /\ \A b \in Use(g) : W[g][len[g - 1] + 1 + Place(Use(g), b)] = t.table[b]
    BY <1>14
  <2>4. len[g] \in Nat /\ len[g - 1] \in Nat /\ Cardinality(Use(g)) \in Nat
    BY <1>3, <1>13, <2>1
  <2>5. len[g - 1] + 1 \in 1 .. len[g]
    BY <2>3, <2>4
  <2>6. \A b \in Use(g) : len[g - 1] + 1 + Place(Use(g), b) \in 1 .. len[g]
    <3>1. \A b \in Use(g) : Place(Use(g), b) \in 1 .. Cardinality(Use(g))
      BY <1>6
    <3> QED BY <2>3, <2>4, <3>1
  <2> HIDE DEF file
  <2> QED BY <1>18, <2>2, <2>3, <2>5, <2>6
<1>21. FileOf(t, file, len)
  <2> HIDE DEF file
  <2> QED BY <1>13, <1>18, <1>19, <1>20 DEF FileOf, Use
<1> QED BY <1>10, <1>21

-----------------------------------------------------------------------------
(* unserialize, of one group. *)

(* Tables that differ only in what is in their empty buckets. *)
SameUsed(new, tab, n) ==
  \A b \in Buckets(n) : IF b \in Used(tab) THEN new[b] = tab[b] ELSE new[b].key = EmptyKey

(* They have the same layout. *)
LEMMA SameLayout ==
  ASSUME NEW tab, NEW n, NEW del, Layout(tab, n, del),
         NEW new \in [Buckets(n) -> BucketOf(del)],
         SameUsed(new, tab, n)
  PROVE  /\ Layout(new, n, del) /\ Live(new) = Live(tab) /\ Used(new) = Used(tab)
         /\ Gone(new, del) = Gone(tab, del) /\ Contents(new) = Contents(tab)
<1>0. /\ n \in Sizes /\ del \in Mark \cup {NoKey} /\ tab \in [Buckets(n) -> BucketOf(del)]
      /\ Distinct(tab) /\ Paths(tab, n) /\ DOMAIN tab = Buckets(n) /\ DOMAIN new = Buckets(n)
  BY DEF Layout
<1>1. \A b \in Buckets(n) : new[b].key = tab[b].key
  BY <1>0 DEF Used, SameUsed
<1>2. Live(new) = Live(tab) /\ Used(new) = Used(tab) /\ Gone(new, del) = Gone(tab, del)
  BY <1>0, <1>1 DEF Live, Used, Gone
<1>3. \A b \in Live(tab) : b \in Buckets(n) /\ new[b] = tab[b]
  BY <1>0, KeysApart DEF Live, Used, SameUsed
<1>4. Contents(new) = Contents(tab)
  BY <1>2, <1>3 DEF Contents, At
<1>5. Distinct(new)
  BY <1>0, <1>2, <1>3 DEF Distinct
<1>6. Paths(new, n)
  <2> SUFFICES ASSUME NEW b \in Live(new) PROVE OnPath(new, n, new[b].key, b)
    BY DEF Paths
  <2> DEFINE k == new[b].key
  <2>1. b \in Live(tab) /\ k \in Key /\ k = tab[b].key
    BY <1>2, <1>3 DEF Live
  <2>2. OnPath(tab, n, k, b)
    BY <1>0, <2>1 DEF Paths
  <2> HIDE DEF k
  <2>3. PICK i \in Buckets(n) : /\ Probe(n, k, i) = b
                                /\ \A j \in Buckets(i) : tab[Probe(n, k, j)].key # EmptyKey
    BY <2>2 DEF OnPath
  <2>4. \A j \in Buckets(i) : j \in Buckets(n)
    BY <1>0, Earlier
  <2>5. \A j \in Buckets(n) : Probe(n, k, j) \in Buckets(n)
    BY <1>0, <2>1, EveryBucketProbed
  <2>6. \A j \in Buckets(i) : new[Probe(n, k, j)].key # EmptyKey
    BY <1>1, <2>3, <2>4, <2>5
  <2>7. OnPath(new, n, k, b)
    BY <2>3, <2>6 DEF OnPath
  <2> QED BY <2>7 DEF k
<1> QED BY <1>0, <1>2, <1>4, <1>5, <1>6 DEF Layout

(* A number that is read, of a file that ends anywhere. *)
LEMMA NumberIsNumber ==
  ASSUME NEW bytes, \A i \in 1 .. Width : bytes[i] \in Nat
  PROVE  BytesNumber(bytes) \in Nat
<1> DEFINE P == Power(Base)
           E(i, x) == x + bytes[i] * P[Width - i]
           Is(g) == g = [i \in 0 .. Width |-> IF i = 0 THEN 0 ELSE E(i, g[i - 1])]
           sum == CHOOSE g : Is(g)
           step == [p \in (1 .. Width) \X Nat |-> E(p[1], p[2])]
<1>0. Width \in Nat /\ Base \in Nat \ {0}
  BY SettingsAssumption
<1>1. \A i \in Nat : P[i] \in Nat
  BY <1>0, PowerPositive
<1>2. BytesNumber(bytes) = sum[Width]
  BY DEF BytesNumber
<1> HIDE DEF P
<1>3. ASSUME NEW i \in 1 .. Width, NEW x \in Nat PROVE E(i, x) \in Nat
  <2> DEFINE a == bytes[i]
             q == P[Width - i]
  <2>1. a \in Nat /\ q \in Nat
    BY <1>0, <1>1
  <2> HIDE DEF a, q
  <2>2. x + a * q \in Nat
    BY <2>1, SMT
  <2> QED BY <2>2 DEF a, q
<1> HIDE DEF E
<1>4. step \in [(1 .. Width) \X Nat -> Nat]
  BY <1>3
<1>5. \A i \in 1 .. Width, x \in Nat : step[<<i, x>>] = E(i, x)
  OBVIOUS
<1> HIDE DEF step
<1>6. PICK g \in [0 .. Width -> Nat] : Steps(Width, 0, step, g)
  BY <1>0, <1>4, StepsExist
<1>7. \A i \in 0 .. Width : i # 0 => step[<<i, g[i - 1]>>] = E(i, g[i - 1])
  <2> SUFFICES ASSUME NEW i \in 0 .. Width, i # 0 PROVE step[<<i, g[i - 1]>>] = E(i, g[i - 1])
    OBVIOUS
  <2>1. i \in 1 .. Width /\ g[i - 1] \in Nat
    BY <1>0, <1>6
  <2> QED BY <1>5, <2>1
<1>8. Is(g)
  BY <1>6, <1>7 DEF Steps
<1>9. Is(sum)
  <2> HIDE DEF Is
  <2> QED BY <1>8
<1> HIDE DEF sum
<1>10. \A i \in 0 .. Width : sum[i] = IF i = 0 THEN 0 ELSE E(i, sum[i - 1])
  BY <1>9
<1> DEFINE T == {i \in 0 .. Width : sum[i] \in Nat}
<1>11. 0 \in T
  BY <1>0, <1>10
<1>12. ASSUME NEW i \in 0 .. (Width - 1), i \in T PROVE i + 1 \in T
  <2> DEFINE h == i + 1
  <2>1. h \in 1 .. Width /\ h \in 0 .. Width /\ h # 0 /\ h - 1 = i
    BY <1>0
  <2> HIDE DEF h
  <2>2. sum[h] = E(h, sum[i]) /\ sum[i] \in Nat
    BY <1>10, <1>12, <2>1
  <2>3. sum[h] \in Nat
    BY <1>3, <2>1, <2>2
  <2> QED BY <2>1, <2>3 DEF h
<1>13. \A i \in 0 .. Width : i \in T
  <2> HIDE DEF T
  <2> QED BY <1>0, <1>11, <1>12, CountedInduction
<1> QED BY <1>0, <1>2, <1>13

(* Each bucket is in one of the groups of a file. *)
LEMMA GroupsRight ==
  ASSUME NEW n \in Nat
  PROVE  /\ Groups(n) \in Nat
         /\ \A b \in Buckets(n) : b \div Group \in Nat /\ (b \div Group) < Groups(n)
<1> DEFINE N == (n + Group - 1) \div Group
           rest == (n + Group - 1) % Group
<1>1. Group \in Nat \ {0} /\ n + Group - 1 \in Nat
  BY TableAssumption
<1>2. N \in Nat /\ rest \in Nat /\ rest < Group /\ n + Group - 1 = Group * N + rest
  BY <1>1, DivMod
<1>3. ASSUME NEW b \in Buckets(n) PROVE b \div Group \in Nat /\ (b \div Group) < N
  <2> DEFINE q == b \div Group
             r == b % Group
  <2>1. b \in Nat /\ b <= n - 1
    BY DEF Buckets
  <2>2. q \in Nat /\ r \in Nat /\ b = Group * q + r
    BY <1>1, <2>1, DivMod
  <2> HIDE DEF q, r, N, rest
  <2>3. ASSUME N <= q PROVE FALSE
    <3>1. PICK d \in Nat : q = N + d
      <4>1. q = N + (q - N) /\ q - N \in Nat
        BY <1>2, <2>2, <2>3
      <4> QED BY <4>1
    <3>2. Group * q = Group * N + Group * d
      BY <1>1, <1>2, <3>1, SMT
    <3> DEFINE x == Group * q
               y == Group * N
               z == Group * d
    <3>3. x \in Nat /\ y \in Nat /\ z \in Nat
      BY <1>1, <1>2, <2>2, SMT
    <3>4. x = y + z /\ b = x + r /\ n + Group - 1 = y + rest
      BY <1>2, <2>2, <3>2
    <3> HIDE DEF x, y, z
    <3> QED BY <1>1, <1>2, <2>1, <2>2, <3>3, <3>4
  <2> QED BY <1>2, <2>2, <2>3 DEF q
<1> QED BY <1>2, <1>3 DEF Groups

(* A bucket as it is read; what unserialize has made of the first groups of *)
(* a file that goes on for n bytes and entries.                             *)
ReadBucket(t, b) == IF b \in Used(t.table) THEN t.table[b] ELSE Vacant
Filled(base, tab, at, whole) == [t |-> [base EXCEPT !.table = tab], at |-> at, whole |-> whole]
PartOf(t, tab) ==
  /\ tab \in [Buckets(t.num_buckets) -> BucketOf(t.delkey)]
  /\ \A b \in Buckets(t.num_buckets) : tab[b] \in {Vacant, ReadBucket(t, b)}
ReadTo(t, len, n, g, tab, at, whole) ==
  /\ PartOf(t, tab) /\ at \in Nat /\ whole \in BOOLEAN
  /\ whole =>
       /\ at = len[g] + 1 /\ len[g] <= n /\ 2 * Width < n
       /\ \A b \in Buckets(t.num_buckets) : b \div Group < g => tab[b] = ReadBucket(t, b)

Going(base, tab, at) == Filled(base, tab, at, TRUE)
GoingTo(t, len, n, g, tab, at) == ReadTo(t, len, n, g, tab, at, TRUE)

PartOfFile(f, file, n) ==
  n \in Nat /\ Len(f) = n /\ n <= Len(file) /\ \A i \in 1 .. n : f[i] = file[i]

(* A bucket as it is read is a bucket. *)
LEMMA ReadBucketRight ==
  ASSUME NEW t, Sound(t), NEW b \in Buckets(t.num_buckets)
  PROVE  ReadBucket(t, b) \in BucketOf(t.delkey) /\ Vacant \in BucketOf(t.delkey)
BY BucketFields DEF Sound, Layout, ReadBucket

(* One group more. *)
LEMMA ReadGroupRight ==
  ASSUME NEW t, Sound(t), NEW file, NEW len, FileOf(t, file, len),
         NEW f, NEW n, PartOfFile(f, file, n),
         NEW g \in 1 .. Groups(t.num_buckets), NEW base, Fields(base),
         NEW h, h = g - 1, NEW tab, NEW at, GoingTo(t, len, n, h, tab, at)
  PROVE  \E tb, a, w : /\ ReadGroup(Going(base, tab, at), f) = Filled(base, tb, a, w)
                       /\ ReadTo(t, len, n, g, tb, a, w)
<1> DEFINE N == t.num_buckets
           r == Going(base, tab, at)
           bits == InUse(t, g)
           there(b) == b \in bits /\ at + Place(bits, b) <= n
           tb == [b \in Buckets(N) |-> IF there(b) THEN f[at + Place(bits, b)] ELSE tab[b]]
           a == at + Cardinality(bits) + 1
           w == at + Cardinality(bits) <= n
<1>0. n \in Nat /\ Len(f) = n /\ n <= Len(file) /\ \A i \in 1 .. n : f[i] = file[i]
  BY DEF PartOfFile
<1>1. /\ N \in Nat \ {0} /\ t.table \in [Buckets(N) -> BucketOf(t.delkey)]
      /\ \A b \in Buckets(N) : test_empty(t, b) <=> b \notin Used(t.table)
      /\ Width \in Nat /\ Group \in Nat \ {0}
  BY SoundKinds, SettingsAssumption, TableAssumption DEF Layout
<1>2. Groups(N) \in Nat /\ \A b \in Buckets(N) : b \div Group \in Nat
  BY <1>1, GroupsRight
<1>3. /\ tab \in [Buckets(N) -> BucketOf(t.delkey)] /\ at \in Nat
      /\ \A b \in Buckets(N) : tab[b] \in {Vacant, ReadBucket(t, b)}
      /\ at = len[g - 1] + 1 /\ len[g - 1] <= n /\ 2 * Width < n
      /\ \A b \in Buckets(N) : b \div Group < g - 1 => tab[b] = ReadBucket(t, b)
  BY DEF GoingTo, ReadTo, PartOf
<1>4. /\ r.t = [base EXCEPT !.table = tab] /\ r.at = at /\ r.whole = TRUE /\ r.t.table = tab
  BY DEF Going, Filled, Fields
<1>5. /\ len[g - 1] \in Nat /\ len[g] \in Nat /\ len[g] = len[g - 1] + 1 + Cardinality(bits)
      /\ file[len[g - 1] + 1] = bits
      /\ \A b \in bits : file[len[g - 1] + 1 + Place(bits, b)] = t.table[b]
  <2>1. g \in 0 .. Groups(N) /\ g - 1 \in 0 .. Groups(N)
    BY <1>2
  <2> QED BY <2>1 DEF FileOf
<1>6. /\ bits \in SUBSET Nat /\ bits \in SUBSET Buckets(N) /\ IsFiniteSet(bits) /\ Cardinality(bits) \in Nat
      /\ \A b \in bits : Place(bits, b) \in 1 .. Cardinality(bits)
      /\ \A b \in Buckets(N) : b \in bits <=> b \div Group = g - 1 /\ b \in Used(t.table)
  <2>1. Buckets(N) \subseteq Nat
    BY <1>1 DEF Buckets
  <2>2. bits \in SUBSET Buckets(N)
    BY DEF InUse, InGroup
  <2>3. \A b \in Buckets(N) : b \in bits <=> b \div Group = g - 1 /\ b \in Used(t.table)
    BY <1>1 DEF InUse, InGroup
  <2> HIDE DEF bits, N
  <2>4. bits \in SUBSET Nat
    BY <2>1, <2>2
  <2>5. IsFiniteSet(bits) /\ Cardinality(bits) \in Nat
    BY <1>1, <2>2, BucketsFinite
  <2>6. \A b \in bits : Place(bits, b) \in 1 .. Cardinality(bits)
    BY <2>4, <2>5, PlaceRight
  <2> QED BY <2>2, <2>3, <2>4, <2>5, <2>6
<1>7. CASE at > n
  <2>1. ReadGroup(r, f) = Filled(base, tab, at, FALSE)
    <3> HIDE DEF r
    <3>1. ReadGroup(r, f) = [r EXCEPT !.whole = FALSE]
      BY <1>0, <1>4, <1>7 DEF ReadGroup
    <3> QED BY <3>1 DEF Going, Filled, r
  <2>2. ReadTo(t, len, n, g, tab, at, FALSE)
    BY <1>0, <1>3 DEF ReadTo, PartOf
  <2> QED BY <2>1, <2>2
<1>8. CASE at <= n
  <2>1. f[at] = bits
    <3>1. at \in 1 .. n
      BY <1>0, <1>3, <1>5, <1>8
    <3> QED BY <1>0, <1>3, <1>5, <3>1
  <2> HIDE DEF bits
  <2>2. ReadGroup(r, f) = Filled(base, tb, a, w)
    <3> DEFINE u == [r EXCEPT !.at = a, !.whole = w, !.t.table = tb]
    <3> HIDE DEF r, tb
    <3>1. DOMAIN tab = Buckets(N) /\ ~(r.at > Len(f)) /\ f[r.at] = bits
      BY <1>0, <1>3, <1>4, <1>8, <2>1
    <3>2. ReadGroup(r, f) = u
      BY <1>0, <1>4, <3>1 DEF ReadGroup, tb
    <3>3. u = Filled(base, tb, a, w)
      <4> DEFINE s == [base EXCEPT !.table = tab]
                 v == [s EXCEPT !.table = tb]
                 yes == TRUE
      <4> HIDE DEF a, w
      <4>1. v = [base EXCEPT !.table = tb]
        BY DEF Fields
      <4> HIDE DEF s
      <4>2. r = [t |-> s, at |-> at, whole |-> yes]
        BY DEF r, Going, Filled, s
      <4> HIDE DEF yes
      <4> DEFINE x == [r EXCEPT !.at = a]
                 y == [x EXCEPT !.whole = w]
                 z == [y EXCEPT !.t.table = tb]
      <4>3. u = z
        OBVIOUS
      <4>4. x = [t |-> s, at |-> a, whole |-> yes]
        BY <4>2
      <4> HIDE DEF x
      <4>5. y = [t |-> s, at |-> a, whole |-> w]
        BY <4>4
      <4> HIDE DEF y
      <4>6. z = [t |-> v, at |-> a, whole |-> w]
        BY <4>5
      <4> QED BY <4>1, <4>3, <4>6 DEF Filled
    <3> QED BY <3>2, <3>3
  <2>3. \A b \in Buckets(N) : there(b) => tb[b] = ReadBucket(t, b)
    <3> SUFFICES ASSUME NEW b \in Buckets(N), there(b) PROVE tb[b] = ReadBucket(t, b)
      OBVIOUS
    <3> DEFINE i == at + Place(bits, b)
    <3>1. i \in 1 .. n
      BY <1>0, <1>3, <1>6
    <3>2. tb[b] = f[i] /\ b \in bits
      OBVIOUS
    <3>3. file[i] = t.table[b]
      BY <1>0, <1>3, <1>5, <3>2
    <3> HIDE DEF i, tb
    <3>4. tb[b] = t.table[b]
      BY <1>0, <3>1, <3>2, <3>3
    <3> QED BY <1>6, <3>2, <3>4 DEF ReadBucket
  <2>4. \A b \in Buckets(N) : ~there(b) => tb[b] = tab[b]
    OBVIOUS
  <2>5. tb \in [Buckets(N) -> BucketOf(t.delkey)]
    <3>1. \A b \in Buckets(N) : tb[b] \in BucketOf(t.delkey)
      <4> HIDE DEF tb, there
      <4> QED BY <1>3, <2>3, <2>4, ReadBucketRight
    <3>2. tb = [b \in Buckets(N) |-> tb[b]]
      OBVIOUS
    <3> HIDE DEF tb
    <3> QED BY <3>1, <3>2
  <2>6. PartOf(t, tb)
    <3> HIDE DEF tb, there
    <3> QED BY <1>0, <1>3, <2>3, <2>4, <2>5 DEF PartOf
  <2>7. w => /\ a = len[g] + 1 /\ len[g] <= n /\ 2 * Width < n
             /\ \A b \in Buckets(N) : b \div Group < g => tb[b] = ReadBucket(t, b)
    <3> SUFFICES ASSUME w
                 PROVE  /\ a = len[g] + 1 /\ len[g] <= n /\ 2 * Width < n
                        /\ \A b \in Buckets(N) : b \div Group < g => tb[b] = ReadBucket(t, b)
      OBVIOUS
    <3>1. a = len[g] + 1 /\ len[g] <= n
      BY <1>0, <1>3, <1>5, <1>6
    <3>2. ASSUME NEW b \in Buckets(N), b \div Group < g PROVE tb[b] = ReadBucket(t, b)
      <4>1. b \div Group < g - 1 \/ b \div Group = g - 1
        BY <1>2, <3>2
      <4>2. CASE there(b)
        BY <2>3, <4>2
      <4>3. CASE ~there(b) /\ b \div Group < g - 1
        <5> HIDE DEF tb, there
        <5> QED BY <1>0, <1>3, <2>4, <4>3
      <4>4. CASE ~there(b) /\ b \div Group = g - 1
        <5>1. b \notin bits
          <6>1. b \in bits => at + Place(bits, b) <= n
            BY <1>0, <1>3, <1>6
          <6> QED BY <4>4, <6>1
        <5>2. b \notin Used(t.table)
          BY <1>6, <4>4, <5>1
        <5>3. tab[b] = Vacant /\ ReadBucket(t, b) = Vacant
          BY <1>0, <1>3, <5>2 DEF ReadBucket
        <5> HIDE DEF tb, there
        <5> QED BY <2>4, <4>4, <5>3
      <4> HIDE DEF tb, there
      <4> QED BY <4>1, <4>2, <4>3, <4>4
    <3> HIDE DEF tb, there, a, w
    <3> QED BY <1>0, <1>3, <3>1, <3>2
  <2>8. a \in Nat /\ w \in BOOLEAN
    BY <1>0, <1>3, <1>6
  <2>9. ReadTo(t, len, n, g, tb, a, w)
    <3> HIDE DEF tb, a, w
    <3> QED BY <2>6, <2>7, <2>8 DEF ReadTo
  <2> HIDE DEF tb, a, w
  <2> QED BY <2>2, <2>9
<1>9. at > n \/ at <= n
  BY <1>0, <1>3
<1> QED BY <1>7, <1>8, <1>9

-----------------------------------------------------------------------------
(* unserialize. *)

(* What a failed read may leave: it can be cleared, and nothing else. *)
Restorable(t) ==
  /\ Fields(t) /\ Thresholds(t) /\ t.use_empty
  /\ t.num_elements = 0 => t.num_deleted = 0 /\ t.table = [b \in Buckets(t.num_buckets) |-> Vacant]

(* clear after a failed read. *)
LEMMA RestorableRight ==
  ASSUME NEW t, Sound(t) \/ Restorable(t)
  PROVE  LET u == Emptied(t) IN Sound(u) /\ Kept(u, t) /\ Contents(u.table) = {}
<1> DEFINE u == Emptied(t)
           n == MinBucketsFor(t, 0, 0)
<1>1. CASE Sound(t)
  BY <1>1, EmptiedRight
<1>2. CASE Restorable(t) /\ ~(t.num_elements = 0 /\ n = t.num_buckets)
  <2>1. n \in Sizes /\ u = Cleared(t, n)
    BY <1>2, SomeSizeFits DEF Restorable, Emptied
  <2> HIDE DEF n
  <2> QED BY <1>2, <2>1, ClearedSound DEF Restorable, Fresh
<1>3. CASE Restorable(t) /\ t.num_elements = 0 /\ n = t.num_buckets
  <2>1. u = t
    BY <1>3 DEF Emptied
  <2>2. /\ t.num_buckets \in Sizes /\ t.delkey \in Mark \cup {NoKey} /\ t.num_deleted = 0
        /\ t.table = [b \in Buckets(t.num_buckets) |-> Vacant]
    BY <1>3 DEF Restorable, Fields
  <2>3. /\ Layout(t.table, t.num_buckets, t.delkey) /\ Used(t.table) = {} /\ Gone(t.table, t.delkey) = {}
        /\ Contents(t.table) = {}
    BY <2>2, VacantLayout
  <2>4. t.num_buckets \in Nat \ {0}
    BY <2>2, SizesArePowers
  <2>5. Counted(t)
    BY <1>3, <2>2, <2>3, FS_EmptySet DEF Counted
  <2>6. Sound(t)
    BY <1>3, <2>3, <2>4, <2>5 DEF Restorable, Sound
  <2> QED BY <2>1, <2>3, <2>6 DEF Kept
<1> QED BY <1>1, <1>2, <1>3

(* The bytes of a number are numbers. *)
LEMMA BytesAreNumbers ==
  ASSUME NEW k \in Nat, NEW i \in 1 .. Width
  PROVE  NumberBytes(k)[i] \in Nat
<1>1. Width \in Nat /\ Base \in Nat \ {0}
  BY SettingsAssumption
<1>2. Power(Base)[Width - i] \in Nat \ {0}
  BY <1>1, PowerPositive
<1>3. (k \div Power(Base)[Width - i]) % Base \in Nat
  BY <1>1, <1>2, DivMod
<1> QED BY <1>3 DEF NumberBytes

(* A whole file is the table that was written; of a part of one, something  *)
(* is left that can be cleared.                                             *)
LEMMA ReadRight ==
  ASSUME NEW t, Sound(t), t.num_deleted = 0, NEW n \in Nat, n <= Len(Written(t)),
         NEW f, f = SubSeq(Written(t), 1, n)
  PROVE  LET r == Read(t, f)
         IN  /\ r.whole \in BOOLEAN /\ Kept(r.t, t) /\ r.t.ok
             /\ r.whole => Sound(r.t) /\ Contents(r.t.table) = Contents(t.table)
             /\ ~r.whole => Sound(r.t) \/ Restorable(r.t)
<1> DEFINE file == Written(t)
           r == Read(t, f)
           nb == t.num_buckets
           e == t.num_elements
<1>1. /\ nb \in Sizes /\ nb \in Nat \ {0} /\ e \in Nat /\ e < nb /\ t.use_empty
      /\ t.table \in [Buckets(nb) -> BucketOf(t.delkey)] /\ Layout(t.table, nb, t.delkey)
      /\ Width \in Nat /\ Base \in Nat \ {0}
      /\ nb < Power(Base)[Width] /\ e < Power(Base)[Width]
  <2>1. /\ nb \in Sizes /\ nb \in Nat \ {0} /\ e \in Nat /\ e < nb /\ t.use_empty
        /\ t.table \in [Buckets(nb) -> BucketOf(t.delkey)] /\ Layout(t.table, nb, t.delkey)
        /\ Width \in Nat /\ Base \in Nat \ {0}
    BY SoundKinds, SettingsAssumption DEF Layout
  <2>2. Power(Base)[Width] \in Nat
    BY <2>1, PowerPositive
  <2>3. nb < Power(Base)[Width]
    BY <2>1, StartAssumption
  <2> HIDE DEF nb, e
  <2> QED BY <2>1, <2>2, <2>3
<1>2. PICK len : FileOf(t, file, len)
  BY WrittenRight
<1>3. Len(f) = n /\ \A i \in 1 .. n : f[i] = file[i]
  <2> DEFINE S == {file[i] : i \in 1 .. n}
  <2>1. \A i \in 1 .. n : file[i] \in S
    OBVIOUS
  <2>2. f = SubSeq(file, 1, n)
    OBVIOUS
  <2> HIDE DEF S, file
  <2>3. /\ Len(SubSeq(file, 1, n)) = IF 1 <= n THEN n - 1 + 1 ELSE 0
        /\ \A i \in 1 .. n - 1 + 1 : SubSeq(file, 1, n)[i] = file[1 + i - 1]
    BY <2>1, SubSeqProperties
  <2>4. \A i \in 1 .. n : i \in 1 .. n - 1 + 1 /\ 1 + i - 1 = i
    OBVIOUS
  <2>5. Len(f) = n
    BY <2>2, <2>3
  <2> QED BY <2>2, <2>3, <2>4, <2>5
<1>4. Sound(Emptied(t)) /\ Kept(Emptied(t), t)
  BY EmptiedRight
<1> HIDE DEF file
<1>5. CASE n <= Width
  <2>1. r = [t |-> Emptied(t), whole |-> FALSE]
    BY <1>3, <1>5 DEF Read
  <2>2. r.t = Emptied(t) /\ r.whole = FALSE
    BY <2>1
  <2> HIDE DEF r
  <2> QED BY <1>4, <2>2, SoundKinds DEF r
<1>6. CASE ~(n <= Width)
  <2> DEFINE byte(i) == IF i <= Len(f) THEN f[i] ELSE 0
             bytes(i) == [j \in 1 .. Width |-> byte(i + j - 1)]
             number(i) == BytesNumber(bytes(i))
             m == number(Width + 2)
             sized == Cleared(Emptied(t), number(2))
             base == [sized EXCEPT !.num_elements = m]
             head == [t |-> base, at |-> 2 * Width + 2, whole |-> Len(f) > 2 * Width]
             G == Groups(sized.num_buckets)
             E(x) == IF x.whole THEN ReadGroup(x, f) ELSE x
             Is(h) == h = [g \in 0 .. G |-> IF g = 0 THEN head ELSE E(h[g - 1])]
             W == CHOOSE h : Is(h)
             vac == [b \in Buckets(nb) |-> Vacant]
  <2>1. number(2) = nb
    <3>1. ASSUME NEW j \in 1 .. Width PROVE bytes(2)[j] = NumberBytes(nb)[j]
      <4>1. bytes(2)[j] = byte(1 + j)
        <5>1. 2 + j - 1 = 1 + j
          BY <1>1
        <5> QED BY <5>1
      <4>2. 1 + j \in 1 .. n
        BY <1>1, <1>6
      <4>3. byte(1 + j) = file[1 + j]
        BY <1>3, <4>2
      <4> QED BY <1>2, <4>1, <4>3 DEF FileOf
    <3> HIDE DEF bytes, nb
    <3> QED BY <1>1, <3>1, NumberRead
  <2>2. ASSUME NEW j \in 1 .. Width
        PROVE  bytes(Width + 2)[j] = IF 1 + Width + j <= n THEN NumberBytes(e)[j] ELSE 0
    <3>1. bytes(Width + 2)[j] = byte(1 + Width + j)
      <4>1. Width + 2 + j - 1 = 1 + Width + j
        BY <1>1
      <4> QED BY <4>1
    <3>2. 1 + Width + j <= n => 1 + Width + j \in 1 .. n
      BY <1>1
    <3>3. file[1 + Width + j] = NumberBytes(e)[j]
      BY <1>2 DEF FileOf
    <3> QED BY <1>3, <3>1, <3>2, <3>3
  <2>3. m \in Nat
    <3>1. \A j \in 1 .. Width : bytes(Width + 2)[j] \in Nat
      <4> HIDE DEF bytes, e
      <4> QED BY <1>1, <2>2, BytesAreNumbers
    <3> HIDE DEF bytes
    <3> QED BY <3>1, NumberIsNumber
  <2>4. 2 * Width < n => m = e
    <3> SUFFICES ASSUME 2 * Width < n PROVE m = e
      OBVIOUS
    <3>1. \A j \in 1 .. Width : 1 + Width + j <= n
      BY <1>1
    <3>2. \A j \in 1 .. Width : bytes(Width + 2)[j] = NumberBytes(e)[j]
      <4> HIDE DEF bytes, e
      <4> QED BY <2>2, <3>1
    <3> HIDE DEF bytes, e
    <3> QED BY <1>1, <3>2, NumberRead
  <2> HIDE DEF number, m
  <2>5. Fresh(sized, nb) /\ Kept(sized, t) /\ sized.table = vac
    <3>1. Fresh(Cleared(Emptied(t), nb), nb) /\ Kept(Cleared(Emptied(t), nb), Emptied(t))
      <4> HIDE DEF nb
      <4> QED BY <1>1, <1>4, ClearedSound DEF Sound
    <3>2. Cleared(Emptied(t), nb).table = vac
      BY <1>4 DEF Cleared, Sound, Fields
    <3> QED BY <1>4, <2>1, <3>1, <3>2 DEF Kept
  <2>6. /\ Fields(base) /\ Thresholds(base) /\ Kept(base, t) /\ base.table = vac /\ base.num_buckets = nb
        /\ base.num_elements = m /\ base.num_deleted = 0 /\ base.use_empty
    <3> HIDE DEF sized, nb, vac
    <3>1. /\ Fields(sized) /\ Thresholds(sized) /\ Kept(sized, t) /\ sized.table = vac /\ sized.num_buckets = nb
          /\ sized.num_deleted = 0 /\ sized.use_empty
      BY <2>5 DEF Fresh, Sound
    <3> QED BY <2>3, <3>1 DEF Fields, Thresholds, Kept
  <2>7. sized.num_buckets = nb /\ G = Groups(nb) /\ G \in Nat
    BY <1>1, <2>5, GroupsRight DEF Fresh
  <2>8. W[G] = r
    <3>1. r = IF Len(f) <= Width THEN [t |-> Emptied(t), whole |-> FALSE] ELSE W[G]
      BY Zenon DEF Read, number, m
    <3> HIDE DEF W, G
    <3> QED BY <1>3, <1>6, <3>1
  <2> HIDE DEF base, W, r
  <2>9. head = Filled(base, vac, 2 * Width + 2, n > 2 * Width)
    <3>1. base = [base EXCEPT !.table = vac]
      BY <2>6 DEF Fields
    <3> QED BY <1>3, <3>1 DEF Filled
  <2> DEFINE R(g, x) == \E tab, at, whole : /\ x = Filled(base, tab, at, whole)
                                            /\ ReadTo(t, len, n, g, tab, at, whole)
                                            /\ 2 * Width < n \/ tab = vac
             S == {Filled(base, tab, at, whole) :
                     tab \in [Buckets(nb) -> BucketOf(t.delkey)], at \in Nat, whole \in BOOLEAN}
             J == [g \in 0 .. G |-> {x \in S : R(g, x)}]
             step == [p \in (1 .. G) \X S |-> E(p[2])]
  <2>10. ASSUME NEW g, NEW x, R(g, x) PROVE x \in S
    BY <2>10 DEF ReadTo, PartOf
  <2>11. R(0, head)
    <3> DEFINE at == 2 * Width + 2
               whole == n > 2 * Width
    <3>1. PartOf(t, vac)
      BY <1>1, BucketFields DEF PartOf
    <3>2. len[0] = 2 * Width + 1
      BY <1>2 DEF FileOf
    <3>3. \A b \in Buckets(nb) : ~(b \div Group < 0)
      BY <1>1, GroupsRight
    <3>4. at \in Nat /\ whole \in BOOLEAN /\ at = len[0] + 1 /\ (whole => len[0] <= n /\ 2 * Width < n)
      BY <1>1, <3>2
    <3> HIDE DEF vac
    <3>5. ReadTo(t, len, n, 0, vac, at, whole)
      BY <3>1, <3>3, <3>4 DEF ReadTo
    <3>6. vac = vac \/ 2 * Width < n
      OBVIOUS
    <3>7. 2 * Width < n \/ whole = FALSE
      BY <1>1
    <3> HIDE DEF at, whole, head
    <3> QED BY <2>9, <3>5 DEF at, whole
  <2>12. ASSUME NEW g \in 1 .. G, NEW x, R(g - 1, x) PROVE R(g, E(x))
    <3>1. PICK tab, at, whole : /\ x = Filled(base, tab, at, whole)
                                /\ ReadTo(t, len, n, g - 1, tab, at, whole)
                                /\ 2 * Width < n \/ tab = vac
      BY <2>12
    <3>2. x.whole = whole /\ whole \in BOOLEAN
      BY <3>1 DEF Filled, ReadTo
    <3>3. CASE whole = FALSE
      <4>1. E(x) = x
        BY <3>2, <3>3
      <4>2. ReadTo(t, len, n, g, tab, at, whole)
        BY <3>1, <3>3 DEF ReadTo
      <4> HIDE DEF E, vac
      <4> QED BY <3>1, <4>1, <4>2
    <3>4. CASE whole = TRUE
      <4>1. E(x) = ReadGroup(x, f)
        BY <3>2, <3>4
      <4>2. x = Going(base, tab, at) /\ GoingTo(t, len, n, g - 1, tab, at)
        BY <3>1, <3>4 DEF Going, GoingTo
      <4>3. 2 * Width < n
        BY <4>2 DEF ReadTo, GoingTo
      <4>4. g \in 1 .. Groups(t.num_buckets)
        BY <2>7
      <4>5. n <= Len(file)
        BY DEF file
      <4>6. PICK tb, a, w : /\ ReadGroup(Going(base, tab, at), f) = Filled(base, tb, a, w)
                            /\ ReadTo(t, len, n, g, tb, a, w)
        <5> DEFINE h == g - 1
        <5>1. /\ FileOf(t, file, len) /\ Fields(base) /\ GoingTo(t, len, n, h, tab, at) /\ h = g - 1
              /\ PartOfFile(f, file, n)
          BY <1>2, <1>3, <2>6, <4>2, <4>5 DEF PartOfFile
        <5> HIDE DEF h, E, vac, byte, bytes, sized, G, nb, e, Is, W, head
        <5> QED BY <4>4, <5>1, ReadGroupRight
      <4> HIDE DEF E, vac
      <4> QED BY <4>1, <4>2, <4>3, <4>6
    <3> QED BY <3>2, <3>3, <3>4
  <2> HIDE DEF R, S, E, head
  <2>13. /\ \A i \in 0 .. G : J[i] \subseteq S
         /\ head \in J[0]
         /\ \A i \in 1 .. G : \A x \in J[i - 1] : step[<<i, x>>] = E(x) /\ step[<<i, x>>] \in J[i]
    <3>1. 0 \in 0 .. G /\ \A i \in 1 .. G : i \in 0 .. G /\ i - 1 \in 0 .. G
      BY <2>7
    <3>2. \A i \in 0 .. G : J[i] \subseteq S
      OBVIOUS
    <3>3. head \in J[0]
      BY <2>10, <2>11, <3>1
    <3>4. ASSUME NEW i \in 1 .. G, NEW x \in J[i - 1] PROVE step[<<i, x>>] = E(x) /\ step[<<i, x>>] \in J[i]
      <4>1. x \in S /\ R(i - 1, x)
        BY <3>1
      <4>2. step[<<i, x>>] = E(x)
        BY <4>1
      <4>3. R(i, E(x))
        BY <2>12, <4>1
      <4>4. E(x) \in S
        BY <2>10, <4>3
      <4> QED BY <3>1, <4>2, <4>3, <4>4
    <3> HIDE DEF J, step
    <3> QED BY <3>2, <3>3, <3>4
  <2> HIDE DEF J, step
  <2>131. Guarded(S, G, J, head, step)
    BY <2>13 DEF Guarded
  <2>14. PICK h : Steps(G, head, step, h) /\ \A i \in 0 .. G : h[i] \in J[i]
    <3> HIDE DEF G
    <3> QED BY <2>7, <2>131, GuardedSteps
  <2>15. Is(h)
    <3>1. \A i \in 0 .. G : i # 0 => step[<<i, h[i - 1]>>] = E(h[i - 1])
      <4> SUFFICES ASSUME NEW i \in 0 .. G, i # 0 PROVE step[<<i, h[i - 1]>>] = E(h[i - 1])
        OBVIOUS
      <4>1. i \in 1 .. G /\ i - 1 \in 0 .. G
        BY <2>7
      <4> QED BY <2>13, <2>14, <4>1
    <3> HIDE DEF G
    <3> QED BY <2>14, <3>1 DEF Steps
  <2>16. Is(W)
    <3> HIDE DEF Is
    <3> QED BY <2>15 DEF W
  <2> DEFINE T == {i \in 0 .. G : W[i] \in J[i]}
  <2>17. \A i \in 0 .. G : W[i] = IF i = 0 THEN head ELSE E(W[i - 1])
    <3> HIDE DEF G
    <3> QED BY <2>16
  <2> HIDE DEF G
  <2>18. 0 \in T
    BY <2>7, <2>13, <2>17
  <2>19. ASSUME NEW i \in 0 .. (G - 1), i \in T PROVE i + 1 \in T
    <3> DEFINE k == i + 1
    <3>1. k \in 1 .. G /\ k \in 0 .. G /\ k # 0 /\ k - 1 = i /\ W[i] \in J[i]
      BY <2>7, <2>19
    <3> HIDE DEF k
    <3>2. W[k] = E(W[i])
      BY <2>17, <3>1
    <3>3. step[<<k, W[i]>>] = E(W[i]) /\ step[<<k, W[i]>>] \in J[k]
      BY <2>13, <3>1
    <3>4. k \in T
      BY <3>1, <3>2, <3>3
    <3> QED BY <3>4 DEF k
  <2>20. W[G] \in J[G]
    <3>1. \A i \in 0 .. G : i \in T
      <4> HIDE DEF T
      <4> QED BY <2>7, <2>18, <2>19, CountedInduction
    <3> QED BY <2>7, <3>1
  <2>21. R(G, r)
    BY <2>7, <2>8, <2>20 DEF J
  <2>22. PICK tab, at, whole : /\ r = Filled(base, tab, at, whole)
                               /\ ReadTo(t, len, n, G, tab, at, whole)
                               /\ 2 * Width < n \/ tab = vac
    BY <2>21 DEF R
  <2>23. /\ r.whole = whole /\ whole \in BOOLEAN /\ r.t = [base EXCEPT !.table = tab]
         /\ tab \in [Buckets(nb) -> BucketOf(t.delkey)]
         /\ \A b \in Buckets(nb) : tab[b] \in {Vacant, ReadBucket(t, b)}
    BY <2>22 DEF Filled, ReadTo, PartOf
  <2>24. /\ Fields(r.t) /\ Thresholds(r.t) /\ Kept(r.t, t) /\ r.t.table = tab /\ r.t.num_buckets = nb
         /\ r.t.num_elements = m /\ r.t.num_deleted = 0 /\ r.t.use_empty /\ r.t.ok
    <3> DEFINE u == r.t
    <3>1. u = [base EXCEPT !.table = tab]
      BY <2>23
    <3> HIDE DEF u, nb, vac
    <3>2. /\ Fields(u) /\ Thresholds(u) /\ Kept(u, t) /\ u.table = tab /\ u.num_buckets = nb
          /\ u.num_elements = m /\ u.num_deleted = 0 /\ u.use_empty /\ u.ok
      BY <2>6, <3>1 DEF Fields, Thresholds, Kept
    <3> QED BY <3>2 DEF u
  <2>25. whole => Sound(r.t) /\ Contents(r.t.table) = Contents(t.table)
    <3> SUFFICES ASSUME whole PROVE Sound(r.t) /\ Contents(r.t.table) = Contents(t.table)
      OBVIOUS
    <3>1. 2 * Width < n /\ \A b \in Buckets(nb) : b \div Group < G => tab[b] = ReadBucket(t, b)
      BY <2>22 DEF ReadTo
    <3>2. \A b \in Buckets(nb) : tab[b] = ReadBucket(t, b)
      BY <1>1, <2>7, <3>1, GroupsRight
    <3>3. SameUsed(tab, t.table, nb)
      BY <3>2, BucketFields DEF ReadBucket, SameUsed
    <3>4. /\ Layout(tab, nb, t.delkey) /\ Used(tab) = Used(t.table)
          /\ Gone(tab, t.delkey) = Gone(t.table, t.delkey) /\ Contents(tab) = Contents(t.table)
      <4> HIDE DEF nb
      <4> QED BY <1>1, <2>23, <3>3, SameLayout
    <3>5. m = e
      BY <2>4, <3>1
    <3>6. /\ t.num_elements = Cardinality(Used(t.table))
          /\ 0 = Cardinality(Gone(t.table, t.delkey))
      BY DEF Sound, Counted
    <3>7. r.t.delkey = t.delkey
      BY <2>24 DEF Kept
    <3>8. Counted(r.t)
      BY <2>24, <3>4, <3>5, <3>6, <3>7 DEF Counted
    <3> QED BY <1>1, <2>24, <3>4, <3>5, <3>7, <3>8 DEF Sound
  <2>26. Restorable(r.t)
    <3> SUFFICES ASSUME m = 0 PROVE tab = vac
      BY <2>24 DEF Restorable
    <3>1. CASE tab = vac
      BY <3>1
    <3>2. CASE 2 * Width < n
      <4>1. e = 0
        BY <2>4, <3>2
      <4>2. Used(t.table) = {}
        <5>1. Cardinality(Used(t.table)) = 0
          BY <4>1 DEF Sound, Counted
        <5>2. IsFiniteSet(Used(t.table))
          BY <1>1, BucketKinds
        <5> QED BY <5>1, <5>2, FS_EmptySet
      <4>3. \A b \in Buckets(nb) : tab[b] = Vacant
        BY <2>23, <4>2 DEF ReadBucket
      <4> QED BY <2>23, <4>3
    <3> QED BY <2>22, <3>1, <3>2
  <2> QED BY <2>23, <2>24, <2>25, <2>26 DEF r
<1> QED BY <1>5, <1>6
=============================================================================
