-------------------------- MODULE JsonParserProofs --------------------------
(***************************************************************************)
(* That the parser of bytes ends on every text, and where its pointer is   *)
(* until then.  Its loops and its recursion are functions of a cursor; a   *)
(* recursive function is only known to be what its definition says if one  *)
(* exists, and one does if every call it makes is of something smaller.    *)
(* The first part proves that once, the next ones give each loop its       *)
(* measure: what is left of the text.  The last ones are about a text that *)
(* is torn off inside an array or an object: until the parser has lost its *)
(* way it does what it does in the whole text, and then it fails.          *)
(***************************************************************************)
EXTENDS JsonText, SequenceTheorems, WellFoundedInduction, TLAPS

-----------------------------------------------------------------------------
(* Numbers, and functions that call themselves.                             *)

(* A set of numbers has a least one.                                        *)
LEMMA LeastNumber ==
  ASSUME NEW S \in SUBSET Nat, S # {}
  PROVE  \E n \in S : \A m \in S : n <= m
<1> DEFINE R == OpToRel(<, Nat)
<1>1. IsWellFoundedOn(R, Nat)
  BY NatLessThanWellFounded
<1> HIDE DEF R
<1>2. \E n \in S : \A m \in S : <<m, n>> \notin R
  BY <1>1, WFMin, Zenon
<1>3. \A m, n \in Nat : <<m, n>> \notin OpToRel(<, Nat) => ~(m < n)
  BY DEF OpToRel
<1>4. \A m, n \in Nat : ~(m < n) => n <= m
  OBVIOUS
<1> QED BY <1>2, <1>3, <1>4 DEF R

(* It is what Min returns.                                                  *)
LEMMA MinOf ==
  ASSUME NEW S \in SUBSET Nat, S # {}
  PROVE  Min(S) \in S /\ \A m \in S : Min(S) <= m
<1>1. \E n \in S : \A m \in S : n <= m
  BY LeastNumber
<1> QED BY <1>1 DEF Min

(* What holds for x if it does for all that is smaller holds everywhere.    *)
LEMMA Descent ==
  ASSUME NEW S, NEW m \in [S -> Nat], NEW T,
         \A x \in S : (\A y \in S : m[y] < m[x] => y \in T) => x \in T
  PROVE  \A x \in S : x \in T
<1> DEFINE B == {m[x] : x \in {z \in S : z \notin T}}
<1> SUFFICES ASSUME B # {} PROVE FALSE
  OBVIOUS
<1>1. B \in SUBSET Nat
  OBVIOUS
<1>2. PICK n \in B : \A k \in B : n <= k
  <2> HIDE DEF B
  <2> QED BY <1>1, LeastNumber
<1>3. PICK x \in S : x \notin T /\ n = m[x]
  BY <1>2
<1>4. ASSUME NEW y \in S, m[y] < m[x] PROVE y \in T
  <2>1. m[y] \in Nat /\ m[x] \in Nat
    OBVIOUS
  <2>2. ~(m[x] <= m[y])
    BY <1>4, <2>1
  <2> QED BY <1>2, <1>3, <2>2
<1> QED BY <1>3, <1>4

(* Induction, for a set of numbers.                                         *)
LEMMA Counting ==
  ASSUME NEW T, 0 \in T, \A n \in Nat : n \in T => n + 1 \in T
  PROVE  \A n \in Nat : n \in T
<1> DEFINE m == [n \in Nat |-> n]
<1>1. m \in [Nat -> Nat]
  OBVIOUS
<1>2. ASSUME NEW x \in Nat, \A y \in Nat : m[y] < m[x] => y \in T PROVE x \in T
  <2>1. CASE x = 0
    BY <2>1
  <2>2. CASE x # 0
    <3>1. x - 1 \in Nat /\ x - 1 < x /\ x - 1 + 1 = x
      BY <2>2
    <3>2. x - 1 \in T
      BY <1>2, <3>1
    <3> QED BY <3>1, <3>2
  <2> QED BY <2>1, <2>2
<1> HIDE DEF m
<1> QED BY <1>1, <1>2, Descent

(* F, the round of a loop, needs of the function it calls only the values   *)
(* at what is smaller than x.                                               *)
Local(S, V, m, F) ==
  \A f, g \in [S -> V], x \in S :
    (\A y \in S : m[y] < m[x] => f[y] = g[y]) => F[<<f, x>>] = F[<<g, x>>]

(* f is as F says at all that is smaller than n.                            *)
UpTo(S, m, F, n, f) == \A x \in S : m[x] < n => f[x] = F[<<f, x>>]

(* Two such functions are the same there.                                   *)
LEMMA UpToUnique ==
  ASSUME NEW S, NEW V, NEW m \in [S -> Nat], NEW F, Local(S, V, m, F),
         NEW n \in Nat, NEW k \in Nat, NEW f \in [S -> V], NEW g \in [S -> V],
         UpTo(S, m, F, n, f), UpTo(S, m, F, k, g)
  PROVE  \A x \in S : m[x] < n /\ m[x] < k => f[x] = g[x]
<1> DEFINE T == {x \in S : m[x] < n /\ m[x] < k => f[x] = g[x]}
<1>1. ASSUME NEW x \in S, \A y \in S : m[y] < m[x] => y \in T PROVE x \in T
  <2> SUFFICES ASSUME m[x] < n, m[x] < k PROVE f[x] = g[x]
    OBVIOUS
  <2>1. \A y \in S : m[y] < m[x] => f[y] = g[y]
    <3> TAKE y \in S
    <3> HAVE m[y] < m[x]
    <3>1. m[y] \in Nat /\ m[x] \in Nat
      OBVIOUS
    <3>2. m[y] < n /\ m[y] < k
      BY <3>1
    <3> QED BY <1>1, <3>2
  <2>2. F[<<f, x>>] = F[<<g, x>>]
    BY <2>1 DEF Local
  <2> QED BY <2>2 DEF UpTo
<1>2. \A x \in S : x \in T
  <2> HIDE DEF T
  <2> QED BY <1>1, Descent
<1> QED BY <1>2

(* They exist.                                                              *)
LEMMA UpToExists ==
  ASSUME NEW S, NEW V, V # {}, NEW m \in [S -> Nat], NEW F \in [[S -> V] \X S -> V],
         Local(S, V, m, F)
  PROVE  \A n \in Nat : \E f \in [S -> V] : UpTo(S, m, F, n, f)
<1> DEFINE T == {n \in Nat : \E f \in [S -> V] : UpTo(S, m, F, n, f)}
<1>1. 0 \in T
  <2>1. PICK v \in V : TRUE
    OBVIOUS
  <2>2. [x \in S |-> v] \in [S -> V]
    OBVIOUS
  <2>3. \A x \in S : m[x] \in Nat /\ ~(m[x] < 0)
    OBVIOUS
  <2> QED BY <2>2, <2>3 DEF UpTo
<1>2. ASSUME NEW n \in Nat, n \in T PROVE n + 1 \in T
  <2>1. PICK f \in [S -> V] : UpTo(S, m, F, n, f)
    BY <1>2
  <2> DEFINE h == [x \in S |-> IF m[x] < n THEN f[x] ELSE F[<<f, x>>]]
  <2>2. h \in [S -> V]
    OBVIOUS
  <2>3. ASSUME NEW x \in S, m[x] < n + 1 PROVE h[x] = F[<<h, x>>]
    <3>1. \A y \in S : m[y] < m[x] => f[y] = h[y]
      <4> TAKE y \in S
      <4> HAVE m[y] < m[x]
      <4>1. m[y] \in Nat /\ m[x] \in Nat
        OBVIOUS
      <4>2. m[y] < n
        BY <2>3, <4>1
      <4> QED BY <4>2
    <3>2. F[<<f, x>>] = F[<<h, x>>]
      <4> HIDE DEF h
      <4> QED BY <2>2, <3>1 DEF Local
    <3>3. h[x] = F[<<f, x>>]
      BY <2>1 DEF UpTo
    <3> QED BY <3>2, <3>3
  <2> HIDE DEF h
  <2>4. UpTo(S, m, F, n + 1, h)
    BY <2>3 DEF UpTo
  <2> QED BY <2>2, <2>4
<1>3. \A n \in Nat : n \in T
  <2> HIDE DEF T
  <2> QED BY <1>1, <1>2, Counting
<1> QED BY <1>3

(* A loop whose calls are of something smaller, and one that is as F says.  *)
Descends(S, V, m, F) ==
  V # {} /\ m \in [S -> Nat] /\ F \in [[S -> V] \X S -> V] /\ Local(S, V, m, F)
Exists(S, V, F) == \E f \in [S -> V] : \A x \in S : f[x] = F[<<f, x>>]

(* A function whose calls are of something smaller exists.                  *)
LEMMA RecursionExists ==
  ASSUME NEW S, NEW V, NEW m, NEW F, Descends(S, V, m, F)
  PROVE  Exists(S, V, F)
<1> USE DEF Descends, Exists
<1> DEFINE to(n) == CHOOSE f \in [S -> V] : UpTo(S, m, F, n, f)
<1>1. \A n \in Nat : to(n) \in [S -> V] /\ UpTo(S, m, F, n, to(n))
  BY UpToExists
<1> HIDE DEF to
<1> DEFINE f == [x \in S |-> to(m[x] + 1)[x]]
<1>2. \A x \in S : m[x] \in Nat /\ m[x] + 1 \in Nat /\ m[x] < m[x] + 1
  OBVIOUS
<1>3. f \in [S -> V]
  BY <1>1, <1>2
<1>4. ASSUME NEW x \in S PROVE f[x] = F[<<f, x>>]
  <2> DEFINE g == to(m[x] + 1)
  <2>1. g \in [S -> V] /\ UpTo(S, m, F, m[x] + 1, g)
    BY <1>1, <1>2
  <2>2. f[x] = g[x] /\ g[x] = F[<<g, x>>]
    BY <1>2, <2>1 DEF UpTo
  <2>3. ASSUME NEW y \in S, m[y] < m[x] PROVE g[y] = f[y]
    <3>1. to(m[y] + 1) \in [S -> V] /\ UpTo(S, m, F, m[y] + 1, to(m[y] + 1))
      BY <1>1, <1>2
    <3>2. m[y] \in Nat /\ m[x] \in Nat
      OBVIOUS
    <3>3. m[y] + 1 \in Nat /\ m[x] + 1 \in Nat /\ m[y] < m[x] + 1 /\ m[y] < m[y] + 1
      BY <2>3, <3>2
    <3>4. g[y] = to(m[y] + 1)[y]
      <4> HIDE DEF g
      <4> QED BY <2>1, <3>1, <3>3, UpToUnique
    <3> QED BY <3>4
  <2> HIDE DEF f, g
  <2>4. F[<<g, x>>] = F[<<f, x>>]
    BY <1>3, <2>1, <2>3 DEF Local
  <2> QED BY <2>2, <2>4
<1> HIDE DEF f
<1> QED BY <1>3, <1>4

-----------------------------------------------------------------------------
(* Texts and cursors.                                                       *)

IsText(t) == t \in Seq(Symbol) /\ Len(t) \in Nat /\ DOMAIN t = 1 .. Len(t)

(* The last two symbols of the text.                                        *)
EndsIn(t, a, b) == Len(t) >= 2 /\ t[Len(t) - 1] = a /\ t[Len(t)] = b

(* The pointer is in the text, at its end or, behind two slashes, one byte  *)
(* further; and what the text was left for.                                 *)
Inside(t, p) == p >= 1 /\ p <= Len(t) + 2 /\ (p = Len(t) + 2 => EndsIn(t, "/", "/"))
Excused(t, errs) == 4 \in errs \/ EndsIn(t, "/", "/") \/ EndsIn(t, "bslash", "quote")
Fits(t, s) == Inside(t, s.p) /\ (s.wild => Excused(t, s.errs))

(* What every function of the parser does with a cursor.                    *)
Onward(t, s, r) ==
  r \in Cursor /\ r.p >= s.p /\ s.errs \subseteq r.errs /\ (Fits(t, s) => Fits(t, r))

(* What is left of the text.                                                *)
Rest(t, p) == IF p <= Len(t) THEN Len(t) + 1 - p ELSE 0
RestOf(t) == [s \in Cursor |-> Rest(t, s.p)]

(* Less is left at a later position.                                        *)
LEMMA RestShrinks ==
  ASSUME NEW t, IsText(t)
  PROVE  /\ RestOf(t) \in [Cursor -> Nat]
         /\ \A s, r \in Cursor : s.p <= Len(t) /\ r.p > s.p => RestOf(t)[r] < RestOf(t)[s]
<1>1. \A s \in Cursor : s.p \in Nat
  BY DEF Cursor
<1>2. \A p \in Nat : Rest(t, p) \in Nat
  BY DEF Rest, IsText
<1>3. \A p, q \in Nat : p <= Len(t) /\ q > p => Rest(t, q) < Rest(t, p)
  BY DEF Rest, IsText
<1> QED BY <1>1, <1>2, <1>3, Zenon DEF RestOf

(* A symbol other than the NUL is in the text.                              *)
LEMMA AtInText ==
  ASSUME NEW t, IsText(t), NEW p \in Nat, At(t, p) # "nul"
  PROVE  p >= 1 /\ p <= Len(t) /\ At(t, p) = t[p]
BY DEF At, IsText

(* The fields of a cursor; of one that is moved; that gets an error; that   *)
(* has looked.                                                              *)
LEMMA CursorFields ==
  ASSUME NEW s \in Cursor
  PROVE  s.p \in Nat /\ s.p >= 1 /\ s.errs \in SUBSET Nat /\ s.wild \in BOOLEAN
BY DEF Cursor

(* Moved.                                                                   *)
LEMMA GotoFields ==
  ASSUME NEW s \in Cursor, NEW p \in Nat \ {0}
  PROVE  /\ Goto(s, p) \in Cursor /\ Goto(s, p).p = p
         /\ Goto(s, p).errs = s.errs /\ Goto(s, p).wild = s.wild
BY DEF Cursor, Goto

(* With an error.                                                           *)
LEMMA ErrorFields ==
  ASSUME NEW s \in Cursor, NEW num \in Nat
  PROVE  /\ Error(s, num) \in Cursor /\ Error(s, num).p = s.p
         /\ Error(s, num).errs = s.errs \cup {num} /\ Error(s, num).wild = s.wild
BY DEF Cursor, Error

(* Having looked.                                                           *)
LEMMA LookedFields ==
  ASSUME NEW s \in Cursor, NEW b \in BOOLEAN
  PROVE  /\ Looked(s, b) \in Cursor /\ Looked(s, b).p = s.p
         /\ Looked(s, b).errs = s.errs /\ Looked(s, b).wild = (s.wild \/ b)
BY DEF Cursor, Looked

(* One function after the other.                                            *)
LEMMA OnwardOnward ==
  ASSUME NEW t, NEW s \in Cursor, NEW r, NEW q, Onward(t, s, r), Onward(t, r, q)
  PROVE  Onward(t, s, q)
<1>1. s.p \in Nat /\ r.p \in Nat /\ q.p \in Nat
  BY DEF Cursor, Onward
<1> QED BY <1>1 DEF Onward

(* Staying.                                                                 *)
LEMMA OnwardStays ==
  ASSUME NEW t, NEW s \in Cursor
  PROVE  Onward(t, s, s)
BY DEF Onward, Cursor

(* Moving within the text.                                                  *)
LEMMA OnwardGoto ==
  ASSUME NEW t, IsText(t), NEW s \in Cursor, NEW p \in Nat, p >= s.p, p <= Len(t) + 1
  PROVE  Onward(t, s, Goto(s, p)) /\ Goto(s, p).p = p
<1>0. s.p \in Nat /\ s.p >= 1 /\ p \in Nat \ {0}
  BY CursorFields
<1>1. /\ Goto(s, p) \in Cursor /\ Goto(s, p).p = p /\ Goto(s, p).errs = s.errs
      /\ Goto(s, p).wild = s.wild /\ s.p \in Nat
  BY <1>0, GotoFields
<1>2. Inside(t, s.p) => Inside(t, p)
  BY <1>1 DEF Inside, IsText
<1> QED BY <1>1, <1>2 DEF Onward, Fits

(* An error.                                                                *)
LEMMA OnwardError ==
  ASSUME NEW t, NEW s \in Cursor, NEW num \in Nat
  PROVE  Onward(t, s, Error(s, num)) /\ Error(s, num).p = s.p
<1>1. /\ Error(s, num) \in Cursor /\ Error(s, num).p = s.p
      /\ Error(s, num).errs = s.errs \cup {num} /\ Error(s, num).wild = s.wild /\ s.p \in Nat
  BY CursorFields, ErrorFields
<1>2. Excused(t, s.errs) => Excused(t, s.errs \cup {num})
  BY DEF Excused
<1> QED BY <1>1, <1>2 DEF Onward, Fits

(* A look at the character under the pointer.                               *)
LEMMA OnwardLooked ==
  ASSUME NEW t, IsText(t), NEW s \in Cursor, NEW b \in BOOLEAN,
         b => s.p > Len(t) + 1 \/ 4 \in s.errs
  PROVE  Onward(t, s, Looked(s, b)) /\ Looked(s, b).p = s.p
<1>1. /\ Looked(s, b) \in Cursor /\ Looked(s, b).p = s.p
      /\ Looked(s, b).errs = s.errs /\ Looked(s, b).wild = (s.wild \/ b) /\ s.p \in Nat
  BY CursorFields, LookedFields
<1>2. Inside(t, s.p) /\ b => Excused(t, s.errs)
  BY <1>1 DEF Inside, Excused, IsText
<1> QED BY <1>1, <1>2 DEF Onward, Fits

(* What memchr finds: the first one, from p on.                             *)
LEMMA Found ==
  ASSUME NEW t, IsText(t), NEW p \in Nat, NEW c
  PROVE  /\ Find(t, p, c) \in Nat
         /\ Find(t, p, c) # 0 => /\ Find(t, p, c) >= p /\ Find(t, p, c) <= Len(t)
                                 /\ t[Find(t, p, c)] = c
<1> DEFINE S == {i \in p .. Len(t) : t[i] = c}
<1>1. CASE S = {}
  <2>1. Find(t, p, c) = 0
    BY <1>1 DEF Find
  <2> QED BY <2>1
<1>2. CASE S # {}
  <2>1. S \in SUBSET Nat
    BY DEF IsText
  <2>2. Min(S) \in S
    <3> HIDE DEF S
    <3> QED BY <1>2, <2>1, MinOf
  <2>3. Find(t, p, c) = Min(S)
    BY <1>2 DEF Find
  <2> HIDE DEF S
  <2>4. Find(t, p, c) \in p .. Len(t) /\ t[Find(t, p, c)] = c
    BY <2>2, <2>3 DEF S
  <2> QED BY <2>4 DEF IsText
<1> QED BY <1>1, <1>2

-----------------------------------------------------------------------------
(* White space and comments.                                                *)

(* A line comment ends in the text or at its end, unless there is nothing   *)
(* behind its slashes.                                                      *)
LEMMA LineEndInText ==
  ASSUME NEW t, IsText(t), NEW p \in Nat, p <= Len(t) + 1
  PROVE  /\ LineEnd(t, p) \in Nat /\ LineEnd(t, p) >= p /\ LineEnd(t, p) <= Len(t) + 2
         /\ p <= Len(t) => LineEnd(t, p) <= Len(t) + 1
<1> DEFINE S == {q \in p .. (Len(t) + 2) : At(t, q) = "eol" \/ (q > p /\ q >= End(t))}
<1>1. S \in SUBSET Nat /\ \A q \in S : q >= p /\ q <= Len(t) + 2
  BY DEF IsText
<1>2. Len(t) + 2 \in S /\ (p <= Len(t) => Len(t) + 1 \in S)
  BY DEF IsText, End
<1>3. LineEnd(t, p) = Min(S)
  BY DEF LineEnd
<1> HIDE DEF S
<1>4. Min(S) \in S /\ \A q \in S : Min(S) <= q
  BY <1>1, <1>2, MinOf
<1> QED BY <1>1, <1>2, <1>3, <1>4

(* Two slashes, or a slash and a star.                                      *)
LEMMA BeginsInText ==
  ASSUME NEW t, IsText(t), NEW p \in Nat, NEW second \in {"/", "*"}, Begins(t, p, second)
  PROVE  p >= 1 /\ p + 1 <= Len(t) /\ t[p] = "/" /\ t[p + 1] = second /\ At(t, p + 1) = second
<1>1. At(t, p) = "/" /\ At(t, p + 1) = second /\ second # "nul"
  BY DEF Begins
<1>2. p >= 1 /\ p <= Len(t) /\ t[p] = "/"
  BY <1>1, AtInText
<1>3. p + 1 \in Nat /\ At(t, p + 1) # "nul"
  BY <1>1
<1>4. p + 1 <= Len(t) /\ At(t, p + 1) = t[p + 1]
  BY <1>3, AtInText
<1> QED BY <1>1, <1>2, <1>4

(* charskipWS.                                                              *)
LEMMA SkipSpaceOnward ==
  ASSUME NEW t, IsText(t), NEW s \in Cursor
  PROVE  /\ Onward(t, s, SkipSpace(t, s))
         /\ SkipSpace(t, s).p = IF At(t, s.p) \in White THEN s.p + 1 ELSE s.p
<1> DEFINE r == IF At(t, s.p) \in White THEN Forward(s) ELSE s
           b == s.p > End(t)
<1>0. s.p \in Nat /\ Len(t) \in Nat
  BY DEF Cursor, IsText
<1>1. Onward(t, s, r) /\ r.p = IF At(t, s.p) \in White THEN s.p + 1 ELSE s.p
  <2>1. CASE At(t, s.p) \in White
    <3>1. s.p <= Len(t)
      BY <1>0, <2>1, AtInText DEF White
    <3>2. r = Goto(s, s.p + 1) /\ s.p + 1 \in Nat /\ s.p + 1 >= s.p /\ s.p + 1 <= Len(t) + 1
      BY <1>0, <2>1, <3>1 DEF Forward
    <3>3. Onward(t, s, r) /\ r.p = s.p + 1
      <4> HIDE DEF r
      <4> QED BY <3>2, OnwardGoto
    <3> QED BY <2>1, <3>3
  <2>2. CASE At(t, s.p) \notin White
    BY <2>2, OnwardStays
  <2> QED BY <2>1, <2>2
<1>2. b \in BOOLEAN /\ (b => r.p > Len(t) + 1)
  BY <1>0, <1>1 DEF End
<1>3. SkipSpace(t, s) = Looked(r, b)
  BY DEF SkipSpace
<1> HIDE DEF r, b
<1>4. r \in Cursor
  BY <1>1 DEF Onward
<1>5. Onward(t, r, Looked(r, b)) /\ Looked(r, b).p = r.p
  BY <1>2, <1>4, OnwardLooked
<1> QED BY <1>1, <1>3, <1>5, OnwardOnward

(* The line comment.                                                        *)
LEMMA SkipLineOnward ==
  ASSUME NEW t, IsText(t), NEW s \in Cursor
  PROVE  /\ Onward(t, s, SkipLine(t, s))
         /\ SkipLine(t, s).p > s.p <=> Begins(t, s.p, "/")
<1>0. s.p \in Nat /\ Len(t) \in Nat
  BY DEF Cursor, IsText
<1>1. CASE ~Begins(t, s.p, "/")
  <2>1. SkipLine(t, s) = s
    BY <1>1 DEF SkipLine
  <2> QED BY <1>0, <1>1, <2>1, OnwardStays
<1>2. CASE Begins(t, s.p, "/")
  <2> DEFINE q == LineEnd(t, s.p + 2)
  <2>1. s.p + 1 <= Len(t) /\ t[s.p] = "/" /\ t[s.p + 1] = "/" /\ s.p >= 1
    BY <1>0, <1>2, BeginsInText
  <2>2. /\ s.p + 2 \in Nat /\ s.p + 2 <= Len(t) + 1
    BY <1>0, <2>1
  <2>3. /\ q \in Nat /\ q >= s.p + 2 /\ q <= Len(t) + 2
        /\ s.p + 2 <= Len(t) => q <= Len(t) + 1
    BY <2>2, LineEndInText
  <2>4. SkipLine(t, s) = Goto(s, q)
    BY <1>2 DEF SkipLine
  <2> HIDE DEF q
  <2>5. /\ Goto(s, q) \in Cursor /\ Goto(s, q).p = q
        /\ Goto(s, q).errs = s.errs /\ Goto(s, q).wild = s.wild
    <3>1. q \in Nat \ {0}
      BY <1>0, <2>3
    <3> QED BY <3>1, GotoFields
  <2>6. q = Len(t) + 2 => EndsIn(t, "/", "/")
    <3> HAVE q = Len(t) + 2
    <3>1. s.p + 1 = Len(t) /\ Len(t) - 1 = s.p /\ Len(t) >= 2
      BY <1>0, <2>1, <2>3
    <3> QED BY <2>1, <3>1 DEF EndsIn
  <2>7. Inside(t, q)
    BY <1>0, <2>3, <2>6 DEF Inside
  <2>8. q > s.p /\ q >= s.p
    BY <1>0, <2>3
  <2>9. Onward(t, s, Goto(s, q))
    BY <2>5, <2>7, <2>8 DEF Onward, Fits
  <2> QED BY <1>2, <2>4, <2>5, <2>8, <2>9
<1> QED BY <1>1, <1>2

(* The round of the loop from star to star, with the loop given as a        *)
(* function.                                                                *)
LEMMA AtStarLocal ==
  ASSUME NEW t, IsText(t), NEW s \in Cursor, NEW f, NEW g,
         \A y \in Cursor : RestOf(t)[y] < RestOf(t)[s] => f[y] = g[y]
  PROVE  AtStar(t, f, s) = AtStar(t, g, s)
<1> DEFINE star == Find(t, s.p + 2, "*")
<1>0. s.p \in Nat /\ Len(t) \in Nat
  BY DEF Cursor, IsText
<1>1. star \in Nat /\ (star # 0 => star >= s.p + 2)
  <2>1. s.p + 2 \in Nat
    BY <1>0
  <2> QED BY <2>1, Found
<1>2. ASSUME At(t, s.p + 1) # "/", ~(star = 0 \/ star >= Len(t)) PROVE f[Goto(s, star)] = g[Goto(s, star)]
  <2>1. star > s.p /\ s.p <= Len(t)
    BY <1>0, <1>1, <1>2
  <2> HIDE DEF star
  <2>2. Goto(s, star) \in Cursor /\ Goto(s, star).p = star
    <3>1. star \in Nat \ {0}
      BY <1>0, <1>1, <2>1
    <3> QED BY <3>1, GotoFields
  <2>3. RestOf(t)[Goto(s, star)] < RestOf(t)[s]
    BY <2>1, <2>2, RestShrinks
  <2> QED BY <2>2, <2>3
<1> QED BY <1>2, Zenon DEF AtStar

(* Start is a cursor.                                                       *)
LEMMA StartIsCursor == Start \in Cursor /\ Cursor # {}
<1>1. 1 \in Nat \ {0} /\ {} \in SUBSET Nat /\ FALSE \in BOOLEAN
  OBVIOUS
<1>2. Start \in Cursor
  BY <1>1, Zenon DEF Start, Cursor
<1> QED BY <1>2

(* A round of the loop from star to star returns a cursor.                  *)
LEMMA AtStarIsCursor ==
  ASSUME NEW t, IsText(t), NEW s \in Cursor, NEW f \in [Cursor -> Cursor]
  PROVE  AtStar(t, f, s) \in Cursor
<1> DEFINE star == Find(t, s.p + 2, "*")
<1>0. s.p \in Nat
  BY DEF Cursor
<1>1. star \in Nat
  BY <1>0, Found
<1>2. Goto(s, s.p + 2) \in Cursor /\ (star # 0 => Goto(s, star) \in Cursor)
  <2> HIDE DEF star
  <2>1. s.p + 2 \in Nat \ {0} /\ (star # 0 => star \in Nat \ {0})
    BY <1>0, <1>1
  <2> QED BY <2>1, GotoFields
<1>3. Looked(Error(s, 4), star = 0) \in Cursor
  BY ErrorFields, LookedFields
<1>4. star # 0 => f[Goto(s, star)] \in Cursor
  BY <1>2
<1> HIDE DEF star
<1> QED BY <1>2, <1>3, <1>4, Zenon DEF AtStar, star

(* The loop is what its definition says.                                    *)
LEMMA InCommentIs ==
  ASSUME NEW t, IsText(t)
  PROVE  \A s \in Cursor : InComment(t)[s] = AtStar(t, InComment(t), s)
<1> DEFINE F == [a \in [Cursor -> Cursor] \X Cursor |-> AtStar(t, a[1], a[2])]
<1>1. F \in [[Cursor -> Cursor] \X Cursor -> Cursor]
  <2>1. \A a \in [Cursor -> Cursor] \X Cursor : AtStar(t, a[1], a[2]) \in Cursor
    BY AtStarIsCursor
  <2> QED BY <2>1
<1>2. \A f \in [Cursor -> Cursor], s \in Cursor : F[<<f, s>>] = AtStar(t, f, s)
  OBVIOUS
<1> HIDE DEF F
<1>3. Local(Cursor, Cursor, RestOf(t), F)
  BY <1>2, AtStarLocal DEF Local
<1>4. Descends(Cursor, Cursor, RestOf(t), F)
  BY <1>1, <1>3, StartIsCursor, RestShrinks DEF Descends
<1>5. Exists(Cursor, Cursor, F)
  BY <1>4, RecursionExists
<1>6. PICK f \in [Cursor -> Cursor] : \A s \in Cursor : f[s] = AtStar(t, f, s)
  BY <1>2, <1>5 DEF Exists
<1> DEFINE Is(g) == g = [s \in Cursor |-> AtStar(t, g, s)]
<1>7. InComment(t) = CHOOSE g : Is(g)
  BY DEF InComment
<1>8. Is(f)
  BY <1>6
<1> HIDE DEF Is
<1>9. Is(InComment(t))
  BY <1>7, <1>8
<1>10. \A s \in Cursor : AtStar(t, InComment(t), s) = InComment(t)[s]
  BY <1>9 DEF Is
<1> QED BY <1>10

(* There is no star before the last symbol, from p + 2 on.                  *)
Unclosed(t, p) ==
  At(t, p + 1) # "/" /\ (Find(t, p + 2, "*") = 0 \/ Find(t, p + 2, "*") >= Len(t))

(* A round of the loop moves on unless the comment is not closed.           *)
LEMMA AtStarOnward ==
  ASSUME NEW t, IsText(t), NEW s \in Cursor, NEW f,
         \A y \in Cursor : RestOf(t)[y] < RestOf(t)[s] => Onward(t, y, f[y])
  PROVE  /\ Onward(t, s, AtStar(t, f, s))
         /\ AtStar(t, f, s).p = s.p <=> Unclosed(t, s.p)
<1> DEFINE star == Find(t, s.p + 2, "*")
<1>0. s.p \in Nat /\ Len(t) \in Nat
  BY DEF Cursor, IsText
<1>1. star \in Nat /\ (star # 0 => star >= s.p + 2)
  <2>1. s.p + 2 \in Nat
    BY <1>0
  <2> QED BY <2>1, Found
<1> HIDE DEF star
<1>2. CASE At(t, s.p + 1) = "/"
  <2>1. AtStar(t, f, s) = Goto(s, s.p + 2)
    BY <1>2, Zenon DEF AtStar
  <2>2. s.p + 1 \in Nat /\ At(t, s.p + 1) # "nul"
    BY <1>0, <1>2
  <2>3. s.p + 1 <= Len(t)
    BY <2>2, AtInText
  <2>4. s.p + 2 \in Nat /\ s.p + 2 >= s.p /\ s.p + 2 <= Len(t) + 1
    BY <1>0, <2>3
  <2>5. Onward(t, s, Goto(s, s.p + 2)) /\ Goto(s, s.p + 2).p = s.p + 2
    BY <2>4, OnwardGoto
  <2>6. ~Unclosed(t, s.p)
    BY <1>2 DEF Unclosed
  <2> QED BY <1>0, <2>1, <2>5, <2>6
<1>3. CASE At(t, s.p + 1) # "/" /\ (star = 0 \/ star >= Len(t))
  <2> DEFINE e == Error(s, 4)
             b == star = 0
  <2>1. AtStar(t, f, s) = Looked(e, b)
    BY <1>3, Zenon DEF AtStar, star
  <2>2. Onward(t, s, e) /\ e \in Cursor /\ e.p = s.p /\ 4 \in e.errs
    BY ErrorFields, OnwardError
  <2>3. b \in BOOLEAN
    OBVIOUS
  <2> HIDE DEF e, b
  <2>4. Onward(t, e, Looked(e, b)) /\ Looked(e, b).p = e.p
    BY <2>2, <2>3, OnwardLooked
  <2>5. Unclosed(t, s.p)
    BY <1>3 DEF Unclosed, star
  <2> QED BY <2>1, <2>2, <2>4, <2>5, OnwardOnward
<1>4. CASE At(t, s.p + 1) # "/" /\ ~(star = 0 \/ star >= Len(t))
  <2>1. AtStar(t, f, s) = f[Goto(s, star)]
    BY <1>4, Zenon DEF AtStar, star
  <2>2. star > s.p /\ star >= s.p /\ s.p <= Len(t) /\ star <= Len(t) + 1
    BY <1>0, <1>1, <1>4
  <2>3. Onward(t, s, Goto(s, star)) /\ Goto(s, star).p = star /\ Goto(s, star) \in Cursor
    <3>1. star \in Nat
      BY <1>1
    <3>2. Onward(t, s, Goto(s, star)) /\ Goto(s, star).p = star
      BY <2>2, <3>1, OnwardGoto
    <3> QED BY <3>2 DEF Onward
  <2>4. RestOf(t)[Goto(s, star)] < RestOf(t)[s]
    BY <2>2, <2>3, RestShrinks
  <2>5. Onward(t, Goto(s, star), f[Goto(s, star)])
    BY <2>3, <2>4
  <2>6. f[Goto(s, star)].p # s.p
    <3>1. f[Goto(s, star)].p >= star /\ f[Goto(s, star)].p \in Nat
      BY <2>3, <2>5 DEF Onward, Cursor
    <3> QED BY <1>0, <1>1, <2>2, <3>1
  <2>7. ~Unclosed(t, s.p)
    BY <1>4 DEF Unclosed, star
  <2> QED BY <2>1, <2>3, <2>5, <2>6, <2>7, OnwardOnward
<1> QED BY <1>2, <1>3, <1>4

(* And so does the loop.                                                    *)
LEMMA InCommentOnward ==
  ASSUME NEW t, IsText(t)
  PROVE  \A s \in Cursor : /\ Onward(t, s, InComment(t)[s])
                           /\ InComment(t)[s].p = s.p <=> Unclosed(t, s.p)
<1> DEFINE T == {s \in Cursor : Onward(t, s, InComment(t)[s])}
<1>1. ASSUME NEW s \in Cursor, \A y \in Cursor : RestOf(t)[y] < RestOf(t)[s] => y \in T
      PROVE  s \in T
  <2>1. \A y \in Cursor : RestOf(t)[y] < RestOf(t)[s] => Onward(t, y, InComment(t)[y])
    BY <1>1
  <2>2. Onward(t, s, AtStar(t, InComment(t), s))
    BY <2>1, AtStarOnward
  <2> QED BY <2>2, InCommentIs
<1> HIDE DEF T
<1>2. \A s \in Cursor : s \in T
  BY <1>1, RestShrinks, Descent
<1>3. \A s \in Cursor : Onward(t, s, InComment(t)[s])
  BY <1>2 DEF T
<1>4. ASSUME NEW s \in Cursor PROVE InComment(t)[s].p = s.p <=> Unclosed(t, s.p)
  <2>1. AtStar(t, InComment(t), s).p = s.p <=> Unclosed(t, s.p)
    BY <1>3, AtStarOnward
  <2> QED BY <2>1, InCommentIs
<1> QED BY <1>3, <1>4

(* At p there is nothing to skip, or a comment that is not closed.          *)
Still(t, p) ==
  /\ At(t, p) \notin White
  /\ ~Begins(t, p, "/")
  /\ Begins(t, p, "*") => Unclosed(t, p)

(* A round of skipWS moves on unless there is nothing to skip.              *)
LEMMA SkipOnceOnward ==
  ASSUME NEW t, IsText(t), NEW s \in Cursor
  PROVE  /\ Onward(t, s, SkipOnce(t, s))
         /\ SkipOnce(t, s).p = s.p <=> Still(t, s.p)
<1> DEFINE a == SkipSpace(t, s)
           b == SkipLine(t, a)
           c == SkipComment(t, b)
<1>1. Onward(t, s, a) /\ a.p = IF At(t, s.p) \in White THEN s.p + 1 ELSE s.p
  BY SkipSpaceOnward
<1>2. a \in Cursor
  BY <1>1 DEF Onward
<1> HIDE DEF a
<1>3. Onward(t, a, b) /\ (b.p > a.p <=> Begins(t, a.p, "/"))
  BY <1>2, SkipLineOnward
<1>4. b \in Cursor
  BY <1>3 DEF Onward
<1> HIDE DEF b
<1>5. Onward(t, b, c) /\ (c.p = b.p <=> (Begins(t, b.p, "*") => Unclosed(t, b.p)))
  <2>1. CASE Begins(t, b.p, "*")
    <3>1. c = InComment(t)[b]
      BY <2>1 DEF SkipComment
    <3> QED BY <1>4, <2>1, <3>1, InCommentOnward
  <2>2. CASE ~Begins(t, b.p, "*")
    <3>1. c = b
      BY <2>2 DEF SkipComment
    <3> QED BY <1>4, <2>2, <3>1, OnwardStays
  <2> QED BY <2>1, <2>2
<1>6. c \in Cursor
  BY <1>5 DEF Onward
<1>7. SkipOnce(t, s) = c
  BY DEF SkipOnce, c, b, a
<1> HIDE DEF c
<1>8. Onward(t, s, c)
  BY <1>1, <1>2, <1>3, <1>4, <1>5, OnwardOnward
<1>9. /\ s.p \in Nat /\ a.p \in Nat /\ b.p \in Nat /\ c.p \in Nat
      /\ s.p <= a.p /\ a.p <= b.p /\ b.p <= c.p
  BY <1>1, <1>2, <1>3, <1>4, <1>5, <1>6 DEF Cursor, Onward
<1>10. c.p = s.p <=> Still(t, s.p)
  <2>1. ASSUME c.p = s.p PROVE Still(t, s.p)
    <3>1. a.p = s.p /\ b.p = a.p /\ c.p = b.p
      BY <1>9, <2>1
    <3>2. At(t, s.p) \notin White
      BY <1>1, <1>9, <3>1
    <3>3. ~(b.p > a.p)
      BY <1>9, <3>1
    <3> QED BY <1>3, <1>5, <3>1, <3>2, <3>3 DEF Still
  <2>2. ASSUME Still(t, s.p) PROVE c.p = s.p
    <3>1. a.p = s.p
      BY <1>1, <2>2 DEF Still
    <3>2. ~(b.p > a.p)
      BY <1>3, <2>2, <3>1 DEF Still
    <3>3. b.p = a.p
      BY <1>9, <3>2
    <3> QED BY <1>5, <2>2, <3>1, <3>3 DEF Still
  <2> QED BY <2>1, <2>2
<1> QED BY <1>7, <1>8, <1>10

(* The round of skipWS, with the loop given as a function.                  *)
LEMMA SkipOnLocal ==
  ASSUME NEW t, IsText(t), NEW s \in Cursor, NEW f, NEW g,
         \A y \in Cursor : RestOf(t)[y] < RestOf(t)[s] => f[y] = g[y]
  PROVE  SkipOn(t, f, s, SkipOnce(t, s)) = SkipOn(t, g, s, SkipOnce(t, s))
<1> DEFINE r == SkipOnce(t, s)
<1>0. s.p \in Nat /\ Len(t) \in Nat
  BY DEF Cursor, IsText
<1>1. r \in Cursor /\ r.p \in Nat /\ r.p >= s.p
  BY SkipOnceOnward DEF Onward, Cursor
<1> HIDE DEF r
<1>2. ASSUME ~(r.p = s.p \/ r.p > Len(t)) PROVE f[r] = g[r]
  <2>1. r.p > s.p /\ s.p <= Len(t)
    BY <1>0, <1>1, <1>2
  <2> QED BY <1>1, <2>1, RestShrinks
<1> QED BY <1>2 DEF SkipOn, r

(* skipWS is what its definition says.                                      *)
LEMMA SkippingIs ==
  ASSUME NEW t, IsText(t)
  PROVE  \A s \in Cursor : Skipping(t)[s] = SkipOn(t, Skipping(t), s, SkipOnce(t, s))
<1> DEFINE F == [a \in [Cursor -> Cursor] \X Cursor |-> SkipOn(t, a[1], a[2], SkipOnce(t, a[2]))]
<1>1. F \in [[Cursor -> Cursor] \X Cursor -> Cursor]
  <2>1. ASSUME NEW f \in [Cursor -> Cursor], NEW s \in Cursor
        PROVE  SkipOn(t, f, s, SkipOnce(t, s)) \in Cursor
    <3>1. SkipOnce(t, s) \in Cursor
      BY SkipOnceOnward DEF Onward
    <3> QED BY <3>1 DEF SkipOn
  <2>2. \A a \in [Cursor -> Cursor] \X Cursor : SkipOn(t, a[1], a[2], SkipOnce(t, a[2])) \in Cursor
    BY <2>1
  <2> QED BY <2>2
<1>2. \A f \in [Cursor -> Cursor], s \in Cursor : F[<<f, s>>] = SkipOn(t, f, s, SkipOnce(t, s))
  OBVIOUS
<1> HIDE DEF F
<1>3. Local(Cursor, Cursor, RestOf(t), F)
  BY <1>2, SkipOnLocal DEF Local
<1>4. Descends(Cursor, Cursor, RestOf(t), F)
  BY <1>1, <1>3, StartIsCursor, RestShrinks DEF Descends
<1>5. Exists(Cursor, Cursor, F)
  BY <1>4, RecursionExists
<1>6. PICK f \in [Cursor -> Cursor] : \A s \in Cursor : f[s] = SkipOn(t, f, s, SkipOnce(t, s))
  BY <1>2, <1>5 DEF Exists
<1> DEFINE Is(g) == g = [s \in Cursor |-> SkipOn(t, g, s, SkipOnce(t, s))]
<1>7. Skipping(t) = CHOOSE g : Is(g)
  BY DEF Skipping
<1>8. Is(f)
  BY <1>6
<1> HIDE DEF Is
<1>9. Is(Skipping(t))
  BY <1>7, <1>8
<1> QED BY <1>9 DEF Is

(* It moves on, and stops only where there is nothing to skip or at the end *)
(* of the text.                                                             *)
LEMMA SkipWSOnward ==
  ASSUME NEW t, IsText(t)
  PROVE  \A s \in Cursor : /\ Onward(t, s, SkipWS(t, s))
                           /\ SkipWS(t, s).p > Len(t) \/ Still(t, SkipWS(t, s).p)
<1> DEFINE Done(s) == /\ Onward(t, s, SkipWS(t, s))
                      /\ SkipWS(t, s).p > Len(t) \/ Still(t, SkipWS(t, s).p)
           T == {s \in Cursor : Done(s)}
<1>1. ASSUME NEW s \in Cursor, \A y \in Cursor : RestOf(t)[y] < RestOf(t)[s] => y \in T
      PROVE  s \in T
  <2> DEFINE r == SkipOnce(t, s)
  <2>0. s.p \in Nat /\ Len(t) \in Nat
    BY DEF Cursor, IsText
  <2>1. Onward(t, s, r) /\ (r.p = s.p <=> Still(t, s.p))
    BY SkipOnceOnward
  <2>2. r \in Cursor /\ r.p \in Nat /\ r.p >= s.p
    BY <2>1 DEF Onward, Cursor
  <2>3. SkipWS(t, s) = IF r.p = s.p \/ r.p > Len(t) THEN r ELSE SkipWS(t, r)
    BY SkippingIs DEF SkipWS, SkipOn
  <2> HIDE DEF r
  <2>4. CASE r.p = s.p \/ r.p > Len(t)
    <3>1. SkipWS(t, s) = r
      BY <2>3, <2>4
    <3>2. r.p > Len(t) \/ Still(t, r.p)
      BY <2>1, <2>4
    <3> QED BY <2>1, <3>1, <3>2
  <2>5. CASE ~(r.p = s.p \/ r.p > Len(t))
    <3>1. SkipWS(t, s) = SkipWS(t, r)
      BY <2>3, <2>5
    <3>2. r.p > s.p /\ s.p <= Len(t)
      BY <2>0, <2>2, <2>5
    <3>3. r \in T
      <4> HIDE DEF T
      <4> QED BY <1>1, <2>2, <3>2, RestShrinks
    <3>4. Done(r)
      BY <3>3
    <3>5. Onward(t, s, SkipWS(t, r))
      BY <2>1, <2>2, <3>4, OnwardOnward
    <3> QED BY <3>1, <3>4, <3>5
  <2> QED BY <2>4, <2>5
<1> HIDE DEF T
<1>2. \A s \in Cursor : s \in T
  BY <1>1, RestShrinks, Descent
<1> QED BY <1>2 DEF T

(* Where there is nothing to skip it stays.                                 *)
LEMMA SkipWSStays ==
  ASSUME NEW t, IsText(t), NEW s \in Cursor, Still(t, s.p)
  PROVE  SkipWS(t, s).p = s.p
<1>1. SkipOnce(t, s).p = s.p
  BY SkipOnceOnward
<1>2. SkipWS(t, s) = SkipOnce(t, s)
  BY <1>1, SkippingIs DEF SkipWS, SkipOn
<1> QED BY <1>1, <1>2

-----------------------------------------------------------------------------
(* The end of a string.                                                     *)

Ends == [end : Nat, s : Cursor]

(* It is behind s and in the text or at its end; in the text it is a quote, *)
(* and the last symbol or not behind a backslash.                           *)
EndsWell(t, s, e) ==
  /\ Onward(t, s, e.s) /\ e.end \in Nat /\ e.end >= s.p /\ e.end <= Len(t) + 1
  /\ e.end <= Len(t) => t[e.end] = "quote" /\ (e.end = Len(t) \/ t[e.end - 1] # "bslash")

(* The fields of such a record.                                             *)
LEMMA EndFields ==
  ASSUME NEW n \in Nat, NEW s \in Cursor, NEW e, e = [end |-> n, s |-> s]
  PROVE  e \in Ends /\ e.end = n /\ e.s = s
BY DEF Ends

(* The round of the loop from quote to quote, with the loop given as a      *)
(* function.                                                                *)
LEMMA AtQuoteLocal ==
  ASSUME NEW t, IsText(t), NEW s \in Cursor, NEW f, NEW g,
         \A y \in Cursor : RestOf(t)[y] < RestOf(t)[s] => f[y] = g[y]
  PROVE  AtQuote(t, f, s) = AtQuote(t, g, s)
<1> DEFINE quote == Find(t, s.p, "quote")
<1>0. s.p \in Nat /\ s.p >= 1 /\ Len(t) \in Nat
  BY CursorFields DEF IsText
<1>1. quote \in Nat /\ (quote # 0 => quote >= s.p /\ quote <= Len(t))
  BY <1>0, Found
<1>2. ASSUME quote # 0 PROVE f[Goto(s, quote + 1)] = g[Goto(s, quote + 1)]
  <2> HIDE DEF quote
  <2>1. quote + 1 > s.p /\ s.p <= Len(t) /\ quote + 1 \in Nat \ {0}
    BY <1>0, <1>1, <1>2
  <2>2. Goto(s, quote + 1) \in Cursor /\ Goto(s, quote + 1).p = quote + 1
    BY <2>1, GotoFields
  <2>3. RestOf(t)[Goto(s, quote + 1)] < RestOf(t)[s]
    BY <2>1, <2>2, RestShrinks
  <2> QED BY <2>2, <2>3
<1> QED BY <1>2, Zenon DEF AtQuote

(* A round of the loop ends the string well if the rest of the loop does.   *)
LEMMA AtQuoteEnds ==
  ASSUME NEW t, IsText(t), NEW s \in Cursor, s.p <= Len(t) + 1, NEW f,
         \A y \in Cursor : RestOf(t)[y] < RestOf(t)[s] /\ y.p <= Len(t) + 1 => EndsWell(t, y, f[y])
  PROVE  EndsWell(t, s, AtQuote(t, f, s))
<1> DEFINE quote == Find(t, s.p, "quote")
<1>0. s.p \in Nat /\ s.p >= 1 /\ Len(t) \in Nat
  BY CursorFields DEF IsText
<1>1. quote \in Nat /\ (quote # 0 => quote >= s.p /\ quote <= Len(t) /\ t[quote] = "quote")
  BY <1>0, Found
<1> HIDE DEF quote
<1> DEFINE e == AtQuote(t, f, s)
<1>2. CASE quote = 0
  <2> DEFINE r == Error(s, 1)
  <2>1. e = [end |-> End(t), s |-> r]
    BY <1>2, Zenon DEF AtQuote, quote
  <2>2. Onward(t, s, r) /\ r \in Cursor
    BY OnwardError DEF Onward
  <2> HIDE DEF e, r
  <2>3. e.end = Len(t) + 1 /\ e.s = r
    BY <1>0, <2>1, <2>2, EndFields DEF End
  <2>4. EndsWell(t, s, e)
    BY <1>0, <2>2, <2>3 DEF EndsWell
  <2> QED BY <2>4 DEF e
<1>3. CASE quote # 0 /\ (quote = Len(t) \/ t[quote - 1] # "bslash")
  <2> DEFINE r == Goto(s, quote + 1)
  <2>1. e = [end |-> quote, s |-> r]
    BY <1>3, Zenon DEF AtQuote, quote
  <2>2. quote + 1 \in Nat /\ quote + 1 >= s.p /\ quote + 1 <= Len(t) + 1
    BY <1>0, <1>1, <1>3
  <2>3. Onward(t, s, r) /\ r \in Cursor
    BY <2>2, OnwardGoto DEF Onward
  <2> HIDE DEF e, r
  <2>4. e.end = quote /\ e.s = r
    BY <1>1, <2>1, <2>3, EndFields
  <2>5. EndsWell(t, s, e)
    BY <1>0, <1>1, <1>3, <2>3, <2>4 DEF EndsWell
  <2> QED BY <2>5 DEF e
<1>4. CASE quote # 0 /\ ~(quote = Len(t) \/ t[quote - 1] # "bslash")
  <2> DEFINE r == Goto(s, quote + 1)
  <2>1. e = f[r]
    BY <1>4, Zenon DEF AtQuote, quote
  <2>2. /\ quote + 1 \in Nat /\ quote + 1 >= s.p /\ quote + 1 <= Len(t) + 1
        /\ quote + 1 > s.p /\ s.p <= Len(t)
    BY <1>0, <1>1, <1>4
  <2>3. Onward(t, s, r) /\ r \in Cursor /\ r.p = quote + 1
    BY <2>2, OnwardGoto DEF Onward
  <2> HIDE DEF e, r
  <2>4. EndsWell(t, r, e)
    BY <2>1, <2>2, <2>3, RestShrinks
  <2>5. Onward(t, s, e.s)
    BY <2>3, <2>4, OnwardOnward DEF EndsWell
  <2>6. e.end \in Nat /\ e.end >= s.p
    BY <1>0, <2>2, <2>3, <2>4 DEF EndsWell
  <2>7. EndsWell(t, s, e)
    BY <2>4, <2>5, <2>6 DEF EndsWell
  <2> QED BY <2>7 DEF e
<1> QED BY <1>2, <1>3, <1>4

(* The loop is what its definition says.                                    *)
LEMMA StringEndIs ==
  ASSUME NEW t, IsText(t)
  PROVE  \A s \in Cursor : StringEnd(t)[s] = AtQuote(t, StringEnd(t), s)
<1> DEFINE F == [a \in [Cursor -> Ends] \X Cursor |-> AtQuote(t, a[1], a[2])]
<1>1. F \in [[Cursor -> Ends] \X Cursor -> Ends]
  <2>1. ASSUME NEW f \in [Cursor -> Ends], NEW s \in Cursor
        PROVE  AtQuote(t, f, s) \in Ends
    <3> DEFINE quote == Find(t, s.p, "quote")
    <3>1. quote \in Nat /\ End(t) \in Nat /\ quote + 1 \in Nat \ {0}
      BY CursorFields, Found DEF End, IsText
    <3> HIDE DEF quote
    <3>2. Goto(s, quote + 1) \in Cursor /\ Error(s, 1) \in Cursor
      BY <3>1, GotoFields, ErrorFields
    <3>3. [end |-> End(t), s |-> Error(s, 1)] \in Ends
      BY <3>1, <3>2, EndFields
    <3>4. [end |-> quote, s |-> Goto(s, quote + 1)] \in Ends
      BY <3>1, <3>2, EndFields
    <3>5. f[Goto(s, quote + 1)] \in Ends
      BY <3>2
    <3> QED BY <3>3, <3>4, <3>5, Zenon DEF AtQuote, quote
  <2>2. \A a \in [Cursor -> Ends] \X Cursor : AtQuote(t, a[1], a[2]) \in Ends
    BY <2>1
  <2> QED BY <2>2
<1>2. \A f \in [Cursor -> Ends], s \in Cursor : F[<<f, s>>] = AtQuote(t, f, s)
  OBVIOUS
<1> HIDE DEF F
<1>3. Local(Cursor, Ends, RestOf(t), F)
  BY <1>2, AtQuoteLocal DEF Local
<1>4. Ends # {}
  <2>1. [end |-> 0, s |-> Start] \in Ends
    BY StartIsCursor, EndFields
  <2> QED BY <2>1
<1>5. Descends(Cursor, Ends, RestOf(t), F)
  BY <1>1, <1>3, <1>4, RestShrinks DEF Descends
<1>6. Exists(Cursor, Ends, F)
  BY <1>5, RecursionExists
<1>7. PICK f \in [Cursor -> Ends] : \A s \in Cursor : f[s] = AtQuote(t, f, s)
  BY <1>2, <1>6 DEF Exists
<1> DEFINE Is(g) == g = [s \in Cursor |-> AtQuote(t, g, s)]
<1>8. StringEnd(t) = CHOOSE g : Is(g)
  BY DEF StringEnd
<1>9. Is(f)
  BY <1>7
<1> HIDE DEF Is
<1>10. Is(StringEnd(t))
  BY <1>8, <1>9
<1> QED BY <1>10 DEF Is

(* Every string ends well that begins in the text.                          *)
LEMMA StringEndEnds ==
  ASSUME NEW t, IsText(t)
  PROVE  \A s \in Cursor : s.p <= Len(t) + 1 => EndsWell(t, s, StringEnd(t)[s])
<1> DEFINE T == {s \in Cursor : s.p <= Len(t) + 1 => EndsWell(t, s, StringEnd(t)[s])}
<1>1. ASSUME NEW s \in Cursor, \A y \in Cursor : RestOf(t)[y] < RestOf(t)[s] => y \in T
      PROVE  s \in T
  <2>1. \A y \in Cursor : RestOf(t)[y] < RestOf(t)[s] /\ y.p <= Len(t) + 1
                            => EndsWell(t, y, StringEnd(t)[y])
    BY <1>1
  <2>2. s.p <= Len(t) + 1 => EndsWell(t, s, AtQuote(t, StringEnd(t), s))
    BY <2>1, AtQuoteEnds
  <2> QED BY <2>2, StringEndIs
<1> HIDE DEF T
<1>2. \A s \in Cursor : s \in T
  BY <1>1, RestShrinks, Descent
<1> QED BY <1>2 DEF T

-----------------------------------------------------------------------------
(* Escapes.                                                                 *)

Escapable == {"bslash", "/", "quote", "n", "x", "u"}

(* The string that ends at end ends in the middle of an escape.             *)
Torn(t, end) == end >= 2 /\ end <= Len(t) /\ t[end - 1] = "bslash" /\ t[end] \in Escapable

(* A piece at i is part of the string, but for an escape that is torn.      *)
PieceFits(t, i, end, piece) ==
  /\ piece.len \in Nat /\ piece.len >= 1 /\ piece.chars \in Seq(Symbol)
  /\ piece.errs \in SUBSET Nat
  /\ i + piece.len <= end + 1
  /\ i + piece.len = end + 1 => Torn(t, end)

(* The fields of a piece.                                                   *)
LEMMA PieceFields ==
  ASSUME NEW len \in Nat, NEW chars \in Seq(Symbol), NEW num \in Nat
  PROVE  /\ Piece(len, chars).len = len /\ Piece(len, chars).chars = chars
         /\ Piece(len, chars).errs = {}
         /\ BadPiece(len, chars, num).len = len /\ BadPiece(len, chars, num).chars = chars
         /\ BadPiece(len, chars, num).errs = {num}
BY DEF Piece, BadPiece

(* A piece that ends in the string.                                         *)
LEMMA PieceInString ==
  ASSUME NEW t, NEW i \in Nat, NEW end \in Nat, NEW len \in Nat \ {0}, i + len <= end,
         NEW chars \in Seq(Symbol), NEW num \in Nat
  PROVE  PieceFits(t, i, end, Piece(len, chars)) /\ PieceFits(t, i, end, BadPiece(len, chars, num))
<1>1. i + len <= end + 1 /\ i + len # end + 1 /\ {num} \in SUBSET Nat /\ len \in Nat /\ len >= 1
  OBVIOUS
<1> DEFINE p == Piece(len, chars)
           q == BadPiece(len, chars, num)
<1>2. p.len = len /\ p.chars = chars /\ p.errs = {} /\ q.len = len /\ q.chars = chars /\ q.errs = {num}
  BY PieceFields
<1> HIDE DEF p, q
<1>3. PieceFits(t, i, end, p) /\ PieceFits(t, i, end, q)
  BY <1>1, <1>2 DEF PieceFits
<1> QED BY <1>3 DEF p, q

(* A piece of the backslash and what it escapes.                            *)
LEMMA PieceOfTwo ==
  ASSUME NEW t, IsText(t), NEW end \in Nat, end <= Len(t) + 1, NEW i \in Nat, i >= 1, i < end,
         t[i] = "bslash", At(t, i + 1) \in Escapable,
         NEW chars \in Seq(Symbol), NEW num \in Nat
  PROVE  PieceFits(t, i, end, Piece(2, chars)) /\ PieceFits(t, i, end, BadPiece(2, chars, num))
<1> DEFINE p == Piece(2, chars)
           q == BadPiece(2, chars, num)
<1>1. i + 1 \in Nat /\ i + 1 <= Len(t) /\ t[i + 1] \in Escapable
  BY AtInText DEF Escapable
<1>2. i + 2 <= end + 1 /\ {num} \in SUBSET Nat
  OBVIOUS
<1>3. i + 2 = end + 1 => Torn(t, end)
  <2> HAVE i + 2 = end + 1
  <2>1. end = i + 1 /\ end - 1 = i /\ end >= 2
    OBVIOUS
  <2> QED BY <1>1, <2>1 DEF Torn
<1>4. p.len = 2 /\ p.chars = chars /\ p.errs = {} /\ q.len = 2 /\ q.chars = chars /\ q.errs = {num}
  BY PieceFields
<1> HIDE DEF p, q
<1>5. PieceFits(t, i, end, p) /\ PieceFits(t, i, end, q)
  BY <1>2, <1>3, <1>4 DEF PieceFits
<1> QED BY <1>5 DEF p, q

(* Every escape.                                                            *)
LEMMA EscapedFits ==
  ASSUME NEW t, IsText(t), NEW end \in Nat, end <= Len(t) + 1, NEW i \in Nat, i >= 1, i < end,
         t[i] = "bslash", NEW c, c = At(t, i + 1)
  PROVE  PieceFits(t, i, end, Escaped(t, i, end, c))
<1>1. CASE c \in {"bslash", "/", "quote"}
  <2>1. Escaped(t, i, end, c) = Piece(2, <<c>>)
    BY <1>1, Zenon DEF Escaped
  <2>2. c \in Symbol /\ c \in Escapable
    BY <1>1 DEF Escapable, Symbol
  <2>3. <<c>> \in Seq(Symbol)
    BY <2>2
  <2> QED BY <2>1, <2>2, <2>3, PieceOfTwo
<1>2. CASE c = "n"
  <2>1. Escaped(t, i, end, c) = Piece(2, <<"eol">>)
    BY <1>2 DEF Escaped
  <2>2. "eol" \in Symbol /\ c \in Escapable
    BY <1>2 DEF Escapable, Symbol, White
  <2>3. <<"eol">> \in Seq(Symbol)
    BY <2>2
  <2> QED BY <2>1, <2>2, <2>3, PieceOfTwo
<1>3. CASE c \in {"x", "u"}
  <2>1. c \in Escapable /\ <<>> \in Seq(Symbol)
    BY <1>3 DEF Escapable
  <2>2. \A num \in Nat : PieceFits(t, i, end, BadPiece(2, <<>>, num))
    BY <2>1, PieceOfTwo
  <2>3. \A len \in Nat \ {0}, d \in Symbol, num \in Nat :
          i + len <= end => PieceFits(t, i, end, Coded(len, d, num))
    <3> TAKE len \in Nat \ {0}, d \in Symbol, num \in Nat
    <3> HAVE i + len <= end
    <3>1. <<d>> \in Seq(Symbol)
      OBVIOUS
    <3> QED BY <3>1, PieceInString DEF Coded
  <2>4. ReadHexCode(t[i + 2], t[i + 3]) \in Symbol
    BY DEF ReadHexCode, Symbol
  <2>5. ReadHexQuad(SubSeq(t, i + 2, i + 5)) \in Symbol
    BY DEF ReadHexQuad, Symbol
  <2>6. CASE c = "x" /\ end - (i + 2) < 2
    <3>1. Escaped(t, i, end, c) = BadPiece(2, <<>>, 2)
      BY <2>6 DEF Escaped
    <3> QED BY <2>2, <3>1
  <2>7. CASE c = "x" /\ end - (i + 2) >= 2
    <3>1. Escaped(t, i, end, c) = Coded(4, ReadHexCode(t[i + 2], t[i + 3]), 2)
      BY <2>7 DEF Escaped
    <3>2. i + 4 <= end /\ 4 \in Nat \ {0} /\ 2 \in Nat
      BY <2>7
    <3> QED BY <2>3, <2>4, <3>1, <3>2
  <2>8. CASE c = "u" /\ end - (i + 2) < 4
    <3>1. Escaped(t, i, end, c) = BadPiece(2, <<>>, 3)
      BY <2>8 DEF Escaped
    <3> QED BY <2>2, <3>1
  <2>9. CASE c = "u" /\ end - (i + 2) >= 4
    <3>1. Escaped(t, i, end, c) = Coded(6, ReadHexQuad(SubSeq(t, i + 2, i + 5)), 3)
      BY <2>9 DEF Escaped
    <3>2. i + 6 <= end /\ 6 \in Nat \ {0} /\ 3 \in Nat
      BY <2>9
    <3> QED BY <2>3, <2>5, <3>1, <3>2
  <2> QED BY <1>3, <2>6, <2>7, <2>8, <2>9
<1>4. CASE c \notin {"bslash", "/", "quote", "n", "x", "u"}
  <2>1. Escaped(t, i, end, c) = Piece(1, <<"bslash">>)
    BY <1>4 DEF Escaped
  <2>2. <<"bslash">> \in Seq(Symbol) /\ i + 1 <= end /\ 1 \in Nat \ {0} /\ 0 \in Nat
    BY DEF Symbol
  <2> QED BY <2>1, <2>2, PieceInString
<1> QED BY <1>1, <1>2, <1>3, <1>4

(* Every piece.                                                             *)
LEMMA PieceAtFits ==
  ASSUME NEW t, IsText(t), NEW end \in Nat, end <= Len(t) + 1, NEW i \in Nat, i >= 1, i < end
  PROVE  PieceFits(t, i, end, PieceAt(t, i, end))
<1>1. CASE t[i] = "bslash"
  BY <1>1, EscapedFits DEF PieceAt
<1>2. CASE t[i] # "bslash"
  <2>1. i \in 1 .. Len(t)
    BY DEF IsText
  <2>2. t[i] \in Symbol
    BY <2>1 DEF IsText
  <2>3. <<t[i]>> \in Seq(Symbol) /\ i + 1 <= end /\ 1 \in Nat \ {0} /\ 0 \in Nat
    BY <2>2
  <2> QED BY <1>2, <2>3, PieceInString DEF PieceAt
<1> QED BY <1>1, <1>2

Strings == [chars : Seq(Symbol), errs : SUBSET Nat, wild : BOOLEAN]

(* The end of a string, and a piece in front of one.                        *)
LEMMA StringFields ==
  ASSUME NEW str \in Strings, NEW chars \in Seq(Symbol), NEW errs \in SUBSET Nat, NEW b \in BOOLEAN,
         NEW piece, piece.chars = chars, piece.errs = errs
  PROVE  /\ str.chars \in Seq(Symbol) /\ str.errs \in SUBSET Nat /\ str.wild \in BOOLEAN
         /\ [Nothing EXCEPT !.wild = b] \in Strings /\ [Nothing EXCEPT !.wild = b].wild = b
         /\ Before(piece, str) \in Strings /\ Before(piece, str).wild = str.wild
<1>1. str.chars \in Seq(Symbol) /\ str.errs \in SUBSET Nat /\ str.wild \in BOOLEAN
  BY DEF Strings
<1>2. chars \o str.chars \in Seq(Symbol) /\ errs \cup str.errs \in SUBSET Nat
  BY <1>1, ConcatProperties
<1> DEFINE more == chars \o str.chars
           all == errs \cup str.errs
<1>3. Before(piece, str) = [str EXCEPT !.chars = more, !.errs = all]
  BY DEF Before
<1> HIDE DEF more, all
<1>4. Before(piece, str) \in Strings /\ Before(piece, str).wild = str.wild
  BY <1>1, <1>2, <1>3 DEF Strings, more, all
<1>5. Nothing \in Strings
  BY DEF Nothing, Strings
<1>6. [Nothing EXCEPT !.wild = b] \in Strings /\ [Nothing EXCEPT !.wild = b].wild = b
  BY <1>5 DEF Strings
<1> QED BY <1>1, <1>4, <1>6

(* The round of parseEscapes, with the loop given as a function.            *)
LEMMA UnescapedLocal ==
  ASSUME NEW t, IsText(t), NEW end \in Nat, end <= Len(t) + 1, NEW i \in 1 .. (end + 1),
         NEW f, NEW g, \A k \in 1 .. (end + 1) : k > i => f[k] = g[k]
  PROVE  Unescaped(t, end, f, i) = Unescaped(t, end, g, i)
<1> DEFINE piece == PieceAt(t, i, end)
<1>1. ASSUME ~(i >= end) PROVE f[i + piece.len] = g[i + piece.len]
  <2>1. PieceFits(t, i, end, piece)
    BY <1>1, PieceAtFits
  <2> HIDE DEF piece
  <2>2. i + piece.len \in 1 .. (end + 1) /\ i + piece.len > i
    BY <2>1 DEF PieceFits
  <2> QED BY <2>2
<1> QED BY <1>1, Zenon DEF Unescaped

(* A round of parseEscapes reads a string, and behind its end only if it    *)
(* begins there, if the rest of the loop does, or if it steps over it.      *)
LEMMA UnescapedReads ==
  ASSUME NEW t, IsText(t), NEW end \in Nat, end <= Len(t) + 1, NEW i \in 1 .. (end + 1),
         NEW f, \A k \in 1 .. (end + 1) : k > i => f[k] \in Strings
  PROVE  /\ Unescaped(t, end, f, i) \in Strings
         /\ Unescaped(t, end, f, i).wild =>
              \/ i = end + 1
              \/ \E k \in 1 .. (end + 1) : k > i /\ f[k].wild /\ (k = end + 1 => Torn(t, end))
<1> DEFINE r == Unescaped(t, end, f, i)
           piece == PieceAt(t, i, end)
<1>1. CASE i >= end
  <2> DEFINE b == i > end
  <2>1. r = [Nothing EXCEPT !.wild = b]
    BY <1>1, Zenon DEF Unescaped
  <2>2. b \in BOOLEAN
    OBVIOUS
  <2>3. Nothing \in Strings
    BY DEF Nothing, Strings
  <2> HIDE DEF r, b
  <2>4. r \in Strings /\ r.wild = b
    BY <2>1, <2>2, <2>3 DEF Strings
  <2>5. b => i = end + 1
    BY DEF b
  <2>6. r \in Strings /\ (r.wild => i = end + 1)
    BY <2>4, <2>5
  <2> QED BY <2>6 DEF r
<1>2. CASE ~(i >= end)
  <2> DEFINE k == i + piece.len
  <2>1. r = Before(piece, f[k])
    BY <1>2, Zenon DEF Unescaped
  <2>2. PieceFits(t, i, end, piece)
    BY <1>2, PieceAtFits
  <2> HIDE DEF piece, r
  <2>3. k \in 1 .. (end + 1) /\ k > i /\ (k = end + 1 => Torn(t, end))
    BY <2>2 DEF PieceFits
  <2> HIDE DEF k
  <2>4. f[k] \in Strings
    BY <2>3
  <2>5. r \in Strings /\ r.wild = f[k].wild
    BY <2>1, <2>2, <2>4, StringFields DEF PieceFits
  <2>6. r \in Strings
        /\ (r.wild => \E n \in 1 .. (end + 1) : n > i /\ f[n].wild /\ (n = end + 1 => Torn(t, end)))
    BY <2>3, <2>5
  <2> QED BY <2>6 DEF r
<1> QED BY <1>1, <1>2

(* The loop is what its definition says.                                    *)
LEMMA ParseEscapesIs ==
  ASSUME NEW t, IsText(t), NEW end \in Nat, end <= Len(t) + 1
  PROVE  \A i \in 1 .. (end + 1) :
           ParseEscapes(t, end)[i] = Unescaped(t, end, ParseEscapes(t, end), i)
<1> DEFINE S == 1 .. (end + 1)
           m == [i \in S |-> end + 1 - i]
           F == [a \in [S -> Strings] \X S |-> Unescaped(t, end, a[1], a[2])]
<1>1. \A f \in [S -> Strings], i \in S : F[<<f, i>>] = Unescaped(t, end, f, i)
  OBVIOUS
<1>2. F \in [[S -> Strings] \X S -> Strings]
  <2>1. ASSUME NEW f \in [S -> Strings], NEW i \in S PROVE Unescaped(t, end, f, i) \in Strings
    BY UnescapedReads
  <2>2. \A a \in [S -> Strings] \X S : Unescaped(t, end, a[1], a[2]) \in Strings
    BY <2>1
  <2> QED BY <2>2
<1> HIDE DEF F
<1>3. m \in [S -> Nat] /\ \A i, k \in S : k > i => m[k] < m[i]
  OBVIOUS
<1>4. ASSUME NEW f \in [S -> Strings], NEW g \in [S -> Strings], NEW i \in S,
             \A k \in S : m[k] < m[i] => f[k] = g[k]
      PROVE  F[<<f, i>>] = F[<<g, i>>]
  <2>1. \A k \in S : k > i => f[k] = g[k]
    BY <1>3, <1>4
  <2>2. Unescaped(t, end, f, i) = Unescaped(t, end, g, i)
    BY <2>1, UnescapedLocal
  <2> QED BY <1>1, <2>2
<1>5. Strings # {}
  <2>1. Nothing \in Strings
    BY DEF Nothing, Strings
  <2> QED BY <2>1
<1> HIDE DEF m
<1>6. Descends(S, Strings, m, F)
  <2>1. Local(S, Strings, m, F)
    BY <1>4 DEF Local
  <2> HIDE DEF S
  <2> QED BY <1>2, <1>3, <1>5, <2>1 DEF Descends
<1>7. Exists(S, Strings, F)
  <2> HIDE DEF S
  <2> QED BY <1>6, RecursionExists
<1>8. PICK f \in [S -> Strings] : \A i \in S : f[i] = Unescaped(t, end, f, i)
  BY <1>1, <1>7 DEF Exists
<1> DEFINE Is(g) == g = [i \in S |-> Unescaped(t, end, g, i)]
<1>9. ParseEscapes(t, end) = CHOOSE g : Is(g)
  BY DEF ParseEscapes
<1>10. Is(f)
  BY <1>8
<1> HIDE DEF Is
<1>11. Is(ParseEscapes(t, end))
  BY <1>9, <1>10
<1> QED BY <1>11 DEF Is

(* Escapes in a string lead behind its end only if it ends in the middle of *)
(* one.                                                                     *)
LEMMA ParseEscapesReads ==
  ASSUME NEW t, IsText(t), NEW end \in Nat, end <= Len(t) + 1
  PROVE  \A i \in 1 .. (end + 1) :
           /\ ParseEscapes(t, end)[i] \in Strings
           /\ ParseEscapes(t, end)[i].wild => i = end + 1 \/ Torn(t, end)
<1> DEFINE S == 1 .. (end + 1)
           m == [i \in S |-> end + 1 - i]
           e == ParseEscapes(t, end)
           T == {i \in S : e[i] \in Strings /\ (e[i].wild => i = end + 1 \/ Torn(t, end))}
<1>1. m \in [S -> Nat] /\ \A i, k \in S : k > i => m[k] < m[i]
  OBVIOUS
<1>2. ASSUME NEW i \in S, \A k \in S : m[k] < m[i] => k \in T PROVE i \in T
  <2>1. \A k \in S : k > i => k \in T
    BY <1>1, <1>2
  <2>2. e[i] = Unescaped(t, end, e, i)
    BY ParseEscapesIs
  <2> HIDE DEF e
  <2>3. \A k \in S : k > i => e[k] \in Strings /\ (e[k].wild => k = end + 1 \/ Torn(t, end))
    BY <2>1
  <2>4. /\ e[i] \in Strings
        /\ e[i].wild => \/ i = end + 1
                        \/ \E k \in S : k > i /\ e[k].wild /\ (k = end + 1 => Torn(t, end))
    BY <2>2, <2>3, UnescapedReads
  <2>5. e[i].wild => i = end + 1 \/ Torn(t, end)
    BY <2>3, <2>4
  <2> QED BY <2>4, <2>5
<1> HIDE DEF m, T
<1>3. \A i \in S : i \in T
  <2> HIDE DEF S
  <2> QED BY <1>1, <1>2, Descent
<1> QED BY <1>3 DEF T

-----------------------------------------------------------------------------
(* Strings, names, numbers and literals.                                    *)

(* What a string adds to the cursor.                                        *)
LEMMA ReturnTextFields ==
  ASSUME NEW s \in Cursor, NEW str \in Strings
  PROVE  /\ ReturnText(s, str).s \in Cursor /\ ReturnText(s, str).s.p = s.p
         /\ ReturnText(s, str).s.errs = s.errs \cup str.errs
         /\ ReturnText(s, str).s.wild = (s.wild \/ str.wild)
         /\ ReturnText(s, str).text = str.chars
<1> DEFINE errs == s.errs \cup str.errs
           wild == s.wild \/ str.wild
           q == [s EXCEPT !.errs = errs, !.wild = wild]
<1>1. errs \in SUBSET Nat /\ wild \in BOOLEAN
  <2>1. s.errs \in SUBSET Nat /\ str.errs \in SUBSET Nat
    BY DEF Cursor, Strings
  <2> QED BY <2>1
<1>2. ReturnText(s, str) = [s |-> q, text |-> str.chars]
  BY DEF ReturnText
<1>3. ReturnText(s, str).s = q /\ ReturnText(s, str).text = str.chars
  BY <1>2
<1> HIDE DEF errs, wild
<1>4. q \in Cursor /\ q.p = s.p /\ q.errs = errs /\ q.wild = wild
  BY <1>1 DEF Cursor
<1> HIDE DEF q
<1> QED BY <1>3, <1>4, Zenon DEF errs, wild

(* The text of a string or a name: the cursor stays within the text unless  *)
(* that ends in a backslash and a quote.                                    *)
LEMMA TextOnward ==
  ASSUME NEW t, IsText(t), NEW e, e.s \in Cursor, e.end \in Nat, e.end <= Len(t) + 1,
         NEW from \in Nat, from >= 1, from <= e.end,
         Torn(t, e.end) => EndsIn(t, "bslash", "quote")
  PROVE  /\ Onward(t, e.s, Text(t, from, e).s) /\ Text(t, from, e).s.p = e.s.p
         /\ Text(t, from, e).text \in Seq(Symbol)
<1> DEFINE s == e.s
           str == ParseEscapes(t, e.end)[from]
           r == Text(t, from, e)
<1>1. r = ReturnText(s, str)
  BY DEF Text
<1>2. from \in 1 .. (e.end + 1) /\ from # e.end + 1
  OBVIOUS
<1>3. str \in Strings /\ (str.wild => EndsIn(t, "bslash", "quote"))
  BY <1>2, ParseEscapesReads
<1>4. str.chars \in Seq(Symbol)
  BY <1>3 DEF Strings
<1> HIDE DEF str, r, s
<1>5. s \in Cursor
  BY DEF s
<1>6. /\ r.s \in Cursor /\ r.s.p = s.p /\ r.s.errs = s.errs \cup str.errs
      /\ r.s.wild = (s.wild \/ str.wild) /\ r.text = str.chars
  BY <1>1, <1>3, <1>5, ReturnTextFields
<1>7. Fits(t, s) => Fits(t, r.s)
  <2> HAVE Fits(t, s)
  <2>1. Inside(t, r.s.p)
    BY <1>6 DEF Fits
  <2>2. s.wild => Excused(t, r.s.errs)
    BY <1>6 DEF Fits, Excused
  <2>3. str.wild => Excused(t, r.s.errs)
    BY <1>3 DEF Excused
  <2> QED BY <1>6, <2>1, <2>2, <2>3 DEF Fits
<1>8. r.s.p >= s.p
  BY <1>5, <1>6 DEF Cursor
<1>9. Onward(t, s, r.s)
  BY <1>6, <1>7, <1>8 DEF Onward
<1> QED BY <1>4, <1>6, <1>9 DEF r, s

(* A string, from its quote on.                                             *)
LEMMA ReadStringOnward ==
  ASSUME NEW t, IsText(t), NEW s \in Cursor, At(t, s.p) = "quote"
  PROVE  Onward(t, s, ReadString(t, s).s) /\ ReadString(t, s).s.p > s.p
<1> DEFINE q == Forward(s)
           e == StringEnd(t)[q]
           r == Text(t, s.p + 1, e)
<1>1. s.p \in Nat /\ s.p >= 1 /\ s.p <= Len(t) /\ Len(t) \in Nat
  BY CursorFields, AtInText DEF IsText
<1>2. Onward(t, s, q) /\ q.p = s.p + 1 /\ q \in Cursor
  <2>1. s.p + 1 \in Nat /\ s.p + 1 >= s.p /\ s.p + 1 <= Len(t) + 1
    BY <1>1
  <2> QED BY <2>1, OnwardGoto DEF Forward, Onward
<1>3. ReadString(t, s) = r
  BY DEF ReadString
<1> HIDE DEF q
<1>4. EndsWell(t, q, e)
  BY <1>1, <1>2, StringEndEnds
<1> HIDE DEF e
<1>5. /\ Onward(t, q, e.s) /\ e.s \in Cursor /\ e.end \in Nat /\ e.end <= Len(t) + 1
      /\ s.p + 1 <= e.end /\ s.p + 1 \in Nat /\ s.p + 1 >= 1
  BY <1>1, <1>2, <1>4 DEF EndsWell, Onward
<1>6. Torn(t, e.end) => EndsIn(t, "bslash", "quote")
  <2> HAVE Torn(t, e.end)
  <2>1. e.end >= 2 /\ e.end <= Len(t) /\ t[e.end - 1] = "bslash"
    BY DEF Torn
  <2>2. t[e.end] = "quote" /\ e.end = Len(t)
    BY <1>4, <2>1 DEF EndsWell
  <2> QED BY <2>1, <2>2 DEF EndsIn
<1>7. Onward(t, e.s, r.s) /\ r.s.p = e.s.p /\ r.text \in Seq(Symbol)
  BY <1>5, <1>6, TextOnward
<1> HIDE DEF r
<1>8. Onward(t, s, r.s)
  BY <1>2, <1>5, <1>7, OnwardOnward
<1>9. r.s.p > s.p
  BY <1>1, <1>2, <1>5, <1>7 DEF Onward, Cursor
<1> QED BY <1>3, <1>8, <1>9

(* The end of an unquoted name, or of a number.                             *)
LEMMA FirstInText ==
  ASSUME NEW t, IsText(t), NEW p \in Nat, p <= Len(t) + 1, NEW C, "nul" \in C,
         NEW end, end = Min({i \in p .. End(t) : At(t, i) \in C})
  PROVE  /\ end \in Nat /\ end >= p /\ end <= Len(t) + 1 /\ At(t, end) \in C
         /\ At(t, p) \notin C => end > p
<1> DEFINE S == {i \in p .. End(t) : At(t, i) \in C}
<1>1. S \in SUBSET Nat
  BY DEF End, IsText
<1>2. Len(t) + 1 \in S
  BY DEF End, IsText, At
<1> HIDE DEF S
<1>3. Min(S) \in S
  BY <1>1, <1>2, MinOf
<1>4. end \in p .. End(t) /\ At(t, end) \in C
  BY <1>3 DEF S
<1>5. end \in Nat /\ end >= p /\ end <= Len(t) + 1
  BY <1>4 DEF End, IsText
<1> QED BY <1>4, <1>5

(* An unquoted name.                                                        *)
LEMMA ReadUnquotedOnward ==
  ASSUME NEW t, IsText(t), NEW s \in Cursor, s.p <= Len(t)
  PROVE  Onward(t, s, ReadUnquotedString(t, s).s)
<1> DEFINE C == White \cup {":", "nul"}
           end == Min({i \in s.p .. End(t) : At(t, i) \in C})
           q == Goto(s, IF At(t, end) \in White THEN end + 1 ELSE end)
           e == [end |-> end, s |-> q]
           r == Text(t, s.p, e)
<1>0. s.p \in Nat /\ s.p >= 1 /\ Len(t) \in Nat /\ s.p <= Len(t) + 1
  BY CursorFields DEF IsText
<1>1. ReadUnquotedString(t, s) = r
  BY DEF ReadUnquotedString, Unquoted
<1>2. /\ end \in Nat /\ end >= s.p /\ end <= Len(t) + 1
      /\ At(t, end) \in White \cup {":", "nul"}
  <2>1. "nul" \in C
    OBVIOUS
  <2> HIDE DEF C
  <2>2. end \in Nat /\ end >= s.p /\ end <= Len(t) + 1 /\ At(t, end) \in C
    BY <1>0, <2>1, FirstInText
  <2> QED BY <2>2 DEF C
<1> HIDE DEF end
<1>3. Onward(t, s, q)
  <2>1. At(t, end) \in White => end <= Len(t)
    BY <1>2, AtInText DEF White
  <2>2. CASE At(t, end) \in White
    <3>1. end + 1 \in Nat /\ end + 1 >= s.p /\ end + 1 <= Len(t) + 1
      BY <1>0, <1>2, <2>1, <2>2
    <3> QED BY <2>2, <3>1, OnwardGoto
  <2>3. CASE At(t, end) \notin White
    BY <1>2, <2>3, OnwardGoto
  <2> QED BY <2>2, <2>3
<1>4. q \in Cursor
  BY <1>3 DEF Onward
<1> HIDE DEF q
<1>5. e.s = q /\ e.end = end
  OBVIOUS
<1> HIDE DEF e
<1>6. ~Torn(t, e.end)
  <2> SUFFICES ASSUME end <= Len(t), end >= 2, t[end] \in Escapable PROVE FALSE
    BY <1>5 DEF Torn
  <2>1. At(t, end) = t[end]
    BY <1>2 DEF At, IsText
  <2> QED BY <1>2, <2>1 DEF Escapable, White
<1>7. Onward(t, e.s, r.s) /\ r.s.p = e.s.p /\ r.text \in Seq(Symbol)
  BY <1>0, <1>2, <1>4, <1>5, <1>6, TextOnward
<1> HIDE DEF r
<1>8. Onward(t, s, r.s)
  BY <1>3, <1>4, <1>5, <1>7, OnwardOnward
<1> QED BY <1>1, <1>8

(* A name of a member.                                                      *)
LEMMA ReadNameOnward ==
  ASSUME NEW t, IsText(t), NEW s \in Cursor, s.p <= Len(t)
  PROVE  Onward(t, s, ReadName(t, s).s)
<1>1. \A q \in Cursor, num \in Nat : Onward(t, q, Anonymous(q, num).s)
  <2> TAKE q \in Cursor, num \in Nat
  <2>1. Anonymous(q, num).s = Error(q, num)
    BY DEF Anonymous
  <2> QED BY <2>1, OnwardError
<1>2. ASSUME NEW name, Onward(t, s, name.s) PROVE Onward(t, s, NotEmpty(t, name).s)
  <2>1. name.s \in Cursor
    BY <1>2 DEF Onward
  <2>2. Onward(t, s, Anonymous(name.s, 7).s)
    BY <1>1, <1>2, <2>1, OnwardOnward
  <2> QED BY <1>2, <2>2 DEF NotEmpty
<1>3. CASE At(t, s.p) = ":"
  <2>1. ReadName(t, s) = Anonymous(s, 6)
    BY <1>3 DEF ReadName
  <2> QED BY <1>1, <2>1
<1>4. CASE At(t, s.p) = "quote"
  <2>1. ReadName(t, s) = NotEmpty(t, ReadString(t, s))
    BY <1>4 DEF ReadName
  <2> QED BY <1>2, <1>4, <2>1, ReadStringOnward
<1>5. CASE At(t, s.p) \notin {":", "quote"}
  <2>1. ReadName(t, s) = NotEmpty(t, ReadUnquotedString(t, s))
    BY <1>5 DEF ReadName
  <2> QED BY <1>2, <2>1, ReadUnquotedOnward
<1> QED BY <1>3, <1>4, <1>5

(* A value has been read at s, where there is nothing to skip: the cursor   *)
(* has moved on, or there was none.                                         *)
Valued(t, s, r) ==
  /\ Onward(t, s, r.s)
  /\ IF r.v = Undefined THEN r.s.p = s.p ELSE r.s.p > s.p

(* A pair is not the undefined value.                                       *)
LEMMA PairIsDefined == \A a, b : <<a, b>> # Undefined
BY DEF Undefined

(* The fields of what is returned.                                          *)
LEMMA ReturnFields == \A s, v : Return(s, v).s = s /\ Return(s, v).v = v
BY DEF Return

(* A number.                                                                *)
LEMMA ReadNumValued ==
  ASSUME NEW t, IsText(t), NEW s \in Cursor, At(t, s.p) \in {"sign", "digit"}
  PROVE  Valued(t, s, ReadNum(t, s))
<1> DEFINE C == Symbol \ Numeric
           end == Min({i \in s.p .. End(t) : At(t, i) \in C})
           q == Goto(s, end)
           v == <<"number", Converted(SubSeq(t, s.p, end - 1))>>
<1>0. s.p \in Nat /\ s.p >= 1 /\ s.p <= Len(t) /\ Len(t) \in Nat /\ s.p <= Len(t) + 1
  BY CursorFields, AtInText DEF IsText
<1>1. \A i \in s.p .. End(t) : At(t, i) \in Symbol
  <2>1. "nul" \in Symbol
    BY DEF Symbol
  <2>2. \A i \in 1 .. Len(t) : t[i] \in Symbol
    BY DEF IsText
  <2> QED BY <2>1, <2>2 DEF At, IsText
<1>2. {i \in s.p .. End(t) : At(t, i) \notin Numeric} = {i \in s.p .. End(t) : At(t, i) \in C}
  BY <1>1
<1>3. ReadNum(t, s) = Number(t, s, end)
  BY <1>2 DEF ReadNum
<1>4. Number(t, s, end) = Return(q, v)
  BY DEF Number
<1>5. end \in Nat /\ end >= s.p /\ end <= Len(t) + 1 /\ end > s.p
  <2>1. "nul" \in C /\ At(t, s.p) \notin C
    BY DEF Symbol, Numeric
  <2> HIDE DEF C
  <2> QED BY <1>0, <2>1, FirstInText
<1> HIDE DEF end
<1>6. Onward(t, s, q) /\ q.p = end
  BY <1>5, OnwardGoto
<1>7. v # Undefined
  BY PairIsDefined
<1> HIDE DEF q, v
<1> QED BY <1>3, <1>4, <1>5, <1>6, <1>7, ReturnFields DEF Valued

(* A literal, or what is none.                                              *)
LEMMA ReadLitValued ==
  ASSUME NEW t, IsText(t), NEW s \in Cursor
  PROVE  Valued(t, s, ReadLit(t, s)) /\ Valued(t, s, Return(s, Undefined))
<1>0. s.p \in Nat /\ s.p >= 1 /\ Len(t) \in Nat
  BY CursorFields DEF IsText
<1>1. Valued(t, s, Return(s, Undefined))
  BY OnwardStays, ReturnFields DEF Valued
<1>2. CASE At(t, s.p) \in Literals
  <2> DEFINE q == Forward(s)
             v == <<"literal", At(t, s.p)>>
  <2>1. s.p <= Len(t)
    BY <1>0, <1>2, AtInText DEF Literals
  <2>2. s.p + 1 \in Nat /\ s.p + 1 >= s.p /\ s.p + 1 <= Len(t) + 1
    BY <1>0, <2>1
  <2>3. Onward(t, s, q) /\ q.p = s.p + 1
    BY <2>2, OnwardGoto DEF Forward
  <2>4. ReadLit(t, s) = Return(q, v)
    BY <1>2 DEF ReadLit
  <2>5. v # Undefined
    BY PairIsDefined
  <2> HIDE DEF q, v
  <2>6. Valued(t, s, ReadLit(t, s))
    BY <1>0, <2>3, <2>4, <2>5, ReturnFields DEF Valued
  <2> QED BY <1>1, <2>6
<1>3. CASE At(t, s.p) \notin Literals
  BY <1>1, <1>3 DEF ReadLit
<1> QED BY <1>2, <1>3

-----------------------------------------------------------------------------
(* Values, arrays and objects.                                              *)

(* The measure of the recursion: what is left of the text and, at the same  *)
(* position, containers before the values in them.                          *)
Size(t) == [x \in Task |-> 2 * Rest(t, x[2].p) + (IF x[1] = "value" THEN 0 ELSE 1)]

(* What a part returns; a value begins behind the white space.              *)
Good(t, x, r) ==
  /\ Onward(t, x[2], r.s)
  /\ x[1] = "value" => Valued(t, SkipWS(t, x[2]), r)

(* Two functions agree on what is smaller than n, and are right there.      *)
Agree(t, n, f, g) == \A y \in Task : Size(t)[y] < n => f[y] = g[y] /\ Good(t, y, f[y])

(* And below the part at s.                                                 *)
AgreeBelow(t, part, s, f, g) == Agree(t, Size(t)[<<part, s>>], f, g)

(* Further on every part is smaller; where a container is a value is.       *)
LEMMA SizeShrinks ==
  ASSUME NEW t, IsText(t)
  PROVE  /\ Size(t) \in [Task -> Nat]
         /\ \A s, r \in Cursor, a, b \in Parts :
              s.p <= Len(t) /\ r.p > s.p => Size(t)[<<b, r>>] < Size(t)[<<a, s>>]
         /\ \A s, r \in Cursor, a \in Parts :
              a # "value" /\ r.p >= s.p => Size(t)[<<"value", r>>] < Size(t)[<<a, s>>]
<1> DEFINE k(a) == IF a = "value" THEN 0 ELSE 1
<1>1. \A s \in Cursor : s.p \in Nat
  BY DEF Cursor
<1>2. \A p \in Nat : Rest(t, p) \in Nat
  BY DEF Rest, IsText
<1>3. \A p, q \in Nat : /\ p <= Len(t) /\ q > p => Rest(t, q) < Rest(t, p)
                        /\ q >= p => Rest(t, q) <= Rest(t, p)
  BY DEF Rest, IsText
<1>4. \A s \in Cursor, a \in Parts : <<a, s>> \in Task /\ Size(t)[<<a, s>>] = 2 * Rest(t, s.p) + k(a)
  BY DEF Task, Size
<1>5. \A a : k(a) \in {0, 1}
  OBVIOUS
<1>6. k("value") = 0 /\ \A a \in Parts : a # "value" => k(a) = 1
  OBVIOUS
<1>7. \A m, n \in Nat, i, j \in {0, 1} :
        /\ 2 * m + i \in Nat
        /\ m < n => 2 * m + i < 2 * n + j
        /\ m <= n => 2 * m + 0 < 2 * n + 1
  OBVIOUS
<1>8. Size(t) \in [Task -> Nat]
  <2>1. \A x \in Task : 2 * Rest(t, x[2].p) + k(x[1]) \in Nat
    <3> TAKE x \in Task
    <3>1. Rest(t, x[2].p) \in Nat
      BY <1>1, <1>2 DEF Task
    <3> QED BY <1>5, <1>7, <3>1
  <2> QED BY <2>1 DEF Size
<1>9. "value" \in Parts
  BY DEF Parts
<1> HIDE DEF k
<1>10. ASSUME NEW s \in Cursor, NEW r \in Cursor, NEW a \in Parts, NEW b \in Parts,
              s.p <= Len(t), r.p > s.p
       PROVE  Size(t)[<<b, r>>] < Size(t)[<<a, s>>]
  <2>1. Rest(t, r.p) < Rest(t, s.p)
    BY <1>1, <1>3, <1>10
  <2> QED BY <1>1, <1>2, <1>4, <1>5, <1>7, <2>1
<1>11. ASSUME NEW s \in Cursor, NEW r \in Cursor, NEW a \in Parts, a # "value", r.p >= s.p
       PROVE  Size(t)[<<"value", r>>] < Size(t)[<<a, s>>]
  <2>1. Rest(t, r.p) <= Rest(t, s.p)
    BY <1>1, <1>3, <1>11
  <2>2. Size(t)[<<"value", r>>] = 2 * Rest(t, r.p) + 0 /\ Size(t)[<<a, s>>] = 2 * Rest(t, s.p) + 1
    BY <1>4, <1>6, <1>9, <1>11
  <2> QED BY <1>1, <1>2, <1>7, <2>1, <2>2
<1> QED BY <1>8, <1>10, <1>11

(* The character under the pointer, in the text: moving over it.            *)
LEMMA ForwardOnward ==
  ASSUME NEW t, IsText(t), NEW s \in Cursor, s.p <= Len(t)
  PROVE  Onward(t, s, Forward(s)) /\ Forward(s).p > s.p /\ Forward(s) \in Cursor
<1>0. s.p \in Nat /\ s.p >= 1 /\ Len(t) \in Nat
  BY CursorFields DEF IsText
<1>1. s.p + 1 \in Nat /\ s.p + 1 >= s.p /\ s.p + 1 <= Len(t) + 1 /\ s.p + 1 > s.p
  BY <1>0
<1>2. Onward(t, s, Forward(s)) /\ Forward(s).p = s.p + 1
  BY <1>1, OnwardGoto DEF Forward
<1> QED BY <1>1, <1>2 DEF Onward

(* What is not over is in the text.                                         *)
LEMMA NotOver ==
  ASSUME NEW t, IsText(t), NEW s \in Cursor, NEW part, ~Over(t, s, part)
  PROVE  s.p <= Len(t)
<1>1. s.p \in Nat /\ Len(t) \in Nat
  BY CursorFields DEF IsText
<1>2. ~(s.p >= End(t))
  BY Zenon DEF Over
<1> QED BY <1>1, <1>2 DEF End

(* Behind the separator an element may begin: the separator was a comma, or *)
(* there is neither a comma nor anything to skip here.                      *)
LEMMA SeparatorOnward ==
  ASSUME NEW t, IsText(t), NEW s \in Cursor, NEW part \in Parts,
         s.p > Len(t) \/ Still(t, s.p)
  PROVE  LET r == Separator(t, s, part) IN
         /\ Onward(t, s, r)
         /\ ~Over(t, r, part) =>
              r.p <= Len(t) /\ (r.p > s.p \/ (Still(t, r.p) /\ At(t, r.p) # ","))
<1> DEFINE r == Separator(t, s, part)
<1>0. s.p \in Nat /\ s.p >= 1 /\ Len(t) \in Nat
  BY CursorFields DEF IsText
<1>1. CASE Over(t, s, part)
  <2>1. r = s
    BY <1>1, Zenon DEF Separator
  <2> QED BY <1>1, <2>1, OnwardStays
<1>2. CASE ~Over(t, s, part) /\ At(t, s.p) = ","
  <2>1. r = SkipWS(t, Forward(s))
    BY <1>2, Zenon DEF Separator
  <2>2. s.p <= Len(t)
    BY <1>2, NotOver
  <2>3. Onward(t, s, Forward(s)) /\ Forward(s).p > s.p /\ Forward(s) \in Cursor
    BY <2>2, ForwardOnward
  <2>4. Onward(t, Forward(s), r)
    BY <2>1, <2>3, SkipWSOnward
  <2> HIDE DEF r
  <2>5. r.p > s.p /\ r.p \in Nat
    BY <1>0, <2>3, <2>4 DEF Onward, Cursor
  <2>6. ~Over(t, r, part) => r.p <= Len(t)
    BY <2>4, NotOver DEF Onward
  <2>7. Onward(t, s, r)
    BY <2>3, <2>4, OnwardOnward
  <2> QED BY <2>5, <2>6, <2>7 DEF r
<1>3. CASE ~Over(t, s, part) /\ At(t, s.p) # ","
  <2>1. r = IF First(part) THEN s ELSE Error(s, 8)
    BY <1>3, Zenon DEF Separator
  <2>2. s.p <= Len(t)
    BY <1>3, NotOver
  <2>3. Onward(t, s, r) /\ r.p = s.p
    <3>1. CASE First(part)
      <4>1. r = s
        BY <2>1, <3>1
      <4> QED BY <4>1, OnwardStays
    <3>2. CASE ~First(part)
      <4>1. r = Error(s, 8)
        BY <2>1, <3>2
      <4> QED BY <4>1, OnwardError
    <3> QED BY <3>1, <3>2
  <2> HIDE DEF r
  <2>4. Still(t, r.p) /\ At(t, r.p) # "," /\ r.p <= Len(t)
    <3>0. ~(s.p > Len(t))
      BY <1>0, <2>2
    <3>1. Still(t, s.p) /\ At(t, s.p) # ","
      BY <1>3, <3>0, Zenon
    <3>2. r.p = s.p
      BY <2>3
    <3> QED BY <2>2, <3>1, <3>2
  <2> QED BY <2>3, <2>4 DEF r
<1> QED BY <1>1, <1>2, <1>3

(* The end of a container.                                                  *)
LEMMA EndedOnward ==
  ASSUME NEW t, IsText(t), NEW s \in Cursor
  PROVE  Onward(t, s, Ended(t, s).s) /\ Onward(t, s, Unfinished(s).s)
<1>0. s.p \in Nat /\ Len(t) \in Nat
  BY CursorFields DEF IsText
<1>1. Onward(t, s, Unfinished(s).s)
  BY OnwardError, ReturnFields DEF Unfinished
<1>2. CASE s.p >= End(t)
  BY <1>1, <1>2 DEF Ended
<1>3. CASE ~(s.p >= End(t))
  <2>1. s.p <= Len(t)
    BY <1>0, <1>3 DEF End
  <2>2. Ended(t, s).s = Forward(s)
    BY <1>3, ReturnFields DEF Ended
  <2> QED BY <1>1, <2>1, <2>2, ForwardOnward
<1> QED BY <1>2, <1>3

(* What is known of a part that is read.                                    *)
LEMMA Agreed ==
  ASSUME NEW t, NEW a, NEW q, NEW f, NEW g, AgreeBelow(t, a, q, f, g),
         NEW part \in Parts, NEW s \in Cursor, Size(t)[<<part, s>>] < Size(t)[<<a, q>>]
  PROVE  /\ f[<<part, s>>] = g[<<part, s>>] /\ Onward(t, s, f[<<part, s>>].s)
         /\ part = "value" => Valued(t, SkipWS(t, s), f[<<part, s>>])
<1> DEFINE y == <<part, s>>
<1>1. y \in Task /\ y[1] = part /\ y[2] = s
  BY DEF Task
<1> HIDE DEF y
<1>2. Size(t)[y] < Size(t)[<<a, q>>]
  BY DEF y
<1>3. f[y] = g[y] /\ Good(t, y, f[y])
  BY <1>1, <1>2 DEF AgreeBelow, Agree
<1>4. f[y] = g[y] /\ Onward(t, s, f[y].s) /\ (part = "value" => Valued(t, SkipWS(t, s), f[y]))
  BY <1>1, <1>3 DEF Good
<1> QED BY <1>4 DEF y

(* The pointer has moved, or there is neither a comma nor anything to skip. *)
Moved(t, s, q) == q.p > s.p \/ (Still(t, q.p) /\ At(t, q.p) # ",")

(* Behind a value, or at a comma without one, the pointer has moved.        *)
NoItem(t, r) == r.v = Undefined /\ At(t, r.s.p) # ","
LEMMA ItemAdvances ==
  ASSUME NEW t, IsText(t), NEW s \in Cursor, NEW q \in Cursor, q.p >= s.p, Moved(t, s, q),
         NEW r, Onward(t, q, r.s), Valued(t, SkipWS(t, q), r), ~NoItem(t, r)
  PROVE  r.s.p > s.p
<1> DEFINE w == SkipWS(t, q)
<1>0. s.p \in Nat /\ q.p \in Nat
  BY CursorFields
<1>1. Onward(t, q, w) /\ (Still(t, q.p) => w.p = q.p)
  BY SkipWSOnward, SkipWSStays
<1>2. Valued(t, w, r)
  OBVIOUS
<1> HIDE DEF w
<1>3. r.s \in Cursor /\ r.s.p \in Nat /\ w.p \in Nat /\ w.p >= q.p
  BY <1>1 DEF Onward, Cursor
<1>4. CASE r.v # Undefined
  <2>1. r.s.p > w.p
    BY <1>2, <1>4, Zenon DEF Valued
  <2> DEFINE k == r.s.p
  <2> HIDE DEF k
  <2>2. k > w.p /\ k \in Nat
    BY <1>3, <2>1 DEF k
  <2>3. k > s.p
    BY <1>0, <1>3, <2>2
  <2> QED BY <2>3 DEF k
<1>5. CASE r.v = Undefined
  <2>1. r.s.p = w.p
    BY <1>2, <1>5 DEF Valued
  <2>2. At(t, r.s.p) = ","
    BY <1>5 DEF NoItem
  <2>3. CASE q.p > s.p
    <3>1. w.p > s.p
      BY <1>0, <1>3, <2>3
    <3> QED BY <2>1, <3>1, Zenon
  <2>4. CASE Still(t, q.p) /\ At(t, q.p) # ","
    <3>1. r.s.p = q.p
      BY <1>1, <2>1, <2>4
    <3> QED BY <2>2, <2>4, <3>1
  <2> QED BY <2>3, <2>4 DEF Moved
<1> QED BY <1>4, <1>5

(* The value of an element and what follows it, if an element begins at q.  *)
LEMMA ItemOnward ==
  ASSUME NEW t, IsText(t), NEW s \in Cursor, NEW q \in Cursor, q.p >= s.p, q.p <= Len(t), Moved(t, s, q),
         NEW f, NEW g, NEW part \in {"array", "items"}, AgreeBelow(t, part, s, f, g)
  PROVE  /\ f[<<"value", q>>] = g[<<"value", q>>]
         /\ Onward(t, q, Item(t, f, f[<<"value", q>>]).s)
         /\ Item(t, f, f[<<"value", q>>]) = Item(t, g, f[<<"value", q>>])
<1> DEFINE r == f[<<"value", q>>]
<1>0. /\ part \in Parts /\ "value" \in Parts /\ "items" \in Parts /\ part # "value"
      /\ s.p \in Nat /\ q.p \in Nat /\ Len(t) \in Nat
  BY CursorFields DEF Parts, IsText
<1>1. f[<<"value", q>>] = g[<<"value", q>>] /\ Onward(t, q, r.s) /\ Valued(t, SkipWS(t, q), r)
  <2>1. Size(t)[<<"value", q>>] < Size(t)[<<part, s>>]
    BY <1>0, SizeShrinks
  <2> QED BY <1>0, <2>1, Agreed
<1> HIDE DEF r
<1>3. r.s \in Cursor
  BY <1>1 DEF Onward
<1>4. CASE r.v = Undefined /\ At(t, r.s.p) # ","
  <2>1. Item(t, f, r) = Return(Error(r.s, 8), <<>>) /\ Item(t, g, r) = Return(Error(r.s, 8), <<>>)
    BY <1>4 DEF Item
  <2>2. Onward(t, r.s, Item(t, f, r).s)
    BY <1>3, <2>1, ReturnFields, OnwardError
  <2>3. Onward(t, q, Item(t, f, r).s)
    BY <1>1, <2>2, OnwardOnward
  <2> QED BY <1>1, <2>1, <2>3 DEF r
<1>5. CASE ~(r.v = Undefined /\ At(t, r.s.p) # ",")
  <2>1. r.s.p > s.p
    BY <1>1, <1>5, ItemAdvances DEF NoItem
  <2> DEFINE rest == f[<<"items", r.s>>]
  <2>2. Size(t)[<<"items", r.s>>] < Size(t)[<<part, s>>]
    <3>1. s.p <= Len(t)
      BY <1>0
    <3> QED BY <1>0, <1>3, <2>1, <3>1, SizeShrinks
  <2>3. f[<<"items", r.s>>] = g[<<"items", r.s>>] /\ Onward(t, r.s, rest.s)
    BY <1>0, <1>3, <2>2, Agreed
  <2>4. Item(t, f, r) = AddItem(r.v, rest) /\ Item(t, g, r) = AddItem(r.v, rest)
    BY <1>5, <2>3 DEF Item
  <2> HIDE DEF rest
  <2>5. Item(t, f, r).s = rest.s
    BY <2>4, ReturnFields DEF AddItem
  <2>6. Onward(t, q, Item(t, f, r).s)
    BY <1>1, <2>3, <2>5, OnwardOnward
  <2> QED BY <1>1, <2>4, <2>6 DEF r
<1> QED BY <1>4, <1>5

(* A round of the loop of readarray.                                        *)
LEMMA ReadArrayOnward ==
  ASSUME NEW t, IsText(t), NEW s \in Cursor, NEW f, NEW g,
         NEW part \in {"array", "items"}, AgreeBelow(t, part, s, f, g)
  PROVE  /\ ReadArray(t, f, s, part) = ReadArray(t, g, s, part)
         /\ Onward(t, s, ReadArray(t, f, s, part).s)
<1> DEFINE w == SkipWS(t, s)
           q == Separator(t, w, part)
<1>0. part \in Parts
  BY DEF Parts
<1>1. Onward(t, s, w) /\ w \in Cursor /\ (w.p > Len(t) \/ Still(t, w.p))
  BY SkipWSOnward DEF Onward
<1>2. ReadArray(t, f, s, part) = Element(t, f, q, part) /\ ReadArray(t, g, s, part) = Element(t, g, q, part)
  BY DEF ReadArray
<1> HIDE DEF w
<1>3. /\ Onward(t, w, q)
      /\ ~Over(t, q, part) => q.p <= Len(t) /\ (q.p > w.p \/ (Still(t, q.p) /\ At(t, q.p) # ","))
  BY <1>0, <1>1, SeparatorOnward
<1> HIDE DEF q
<1>4. Onward(t, s, q) /\ q \in Cursor
  BY <1>1, <1>3, OnwardOnward DEF Onward
<1>5. CASE Over(t, q, part)
  <2>1. Element(t, f, q, part) = Ended(t, q) /\ Element(t, g, q, part) = Ended(t, q)
    BY <1>5 DEF Element
  <2>2. Onward(t, s, Ended(t, q).s)
    BY <1>4, EndedOnward, OnwardOnward
  <2> QED BY <1>2, <2>1, <2>2
<1>6. CASE ~Over(t, q, part)
  <2> DEFINE r == f[<<"value", q>>]
  <2>1. s.p \in Nat /\ w.p \in Nat /\ q.p \in Nat /\ w.p >= s.p /\ q.p >= s.p
    BY <1>1, <1>3, <1>4 DEF Onward, Cursor
  <2>2. q.p <= Len(t) /\ Moved(t, s, q)
    <3>1. q.p > w.p => q.p > s.p
      BY <2>1
    <3> QED BY <1>3, <1>6, <3>1, Zenon DEF Moved
  <2>3. /\ f[<<"value", q>>] = g[<<"value", q>>]
        /\ Onward(t, q, Item(t, f, r).s) /\ Item(t, f, r) = Item(t, g, r)
    <3>2. q \in Cursor /\ q.p >= s.p /\ q.p <= Len(t)
      BY <1>4, <2>1, <2>2
    <3>3. Moved(t, s, q)
      BY <2>2
    <3> QED BY <3>2, <3>3, ItemOnward
  <2>4. Element(t, f, q, part) = Item(t, f, r) /\ Element(t, g, q, part) = Item(t, g, r)
    BY <1>6, <2>3 DEF Element
  <2> HIDE DEF r
  <2>5. Onward(t, s, Item(t, f, r).s)
    BY <1>4, <2>3, OnwardOnward
  <2> QED BY <1>2, <2>3, <2>4, <2>5
<1> QED BY <1>5, <1>6

(* The value of a member and what follows it, behind the colon.             *)
LEMMA BehindColonOnward ==
  ASSUME NEW t, IsText(t), NEW s \in Cursor, s.p <= Len(t), NEW c \in Cursor, c.p > s.p,
         NEW name, NEW f, NEW g, NEW part \in {"object", "members"}, AgreeBelow(t, part, s, f, g)
  PROVE  /\ BehindColon(t, f, name, c) = BehindColon(t, g, name, c)
         /\ Onward(t, c, BehindColon(t, f, name, c).s)
<1>0. /\ part \in Parts /\ "value" \in Parts /\ "members" \in Parts /\ part # "value"
      /\ s.p \in Nat /\ c.p \in Nat /\ c.p >= s.p
  BY CursorFields DEF Parts
<1>1. CASE c.p = End(t)
  <2>1. BehindColon(t, f, name, c) = Unfinished(c) /\ BehindColon(t, g, name, c) = Unfinished(c)
    BY <1>1 DEF BehindColon
  <2> QED BY <2>1, EndedOnward
<1>2. CASE c.p # End(t)
  <2> DEFINE r == f[<<"value", c>>]
             rest == f[<<"members", r.s>>]
  <2>1. f[<<"value", c>>] = g[<<"value", c>>] /\ Onward(t, c, r.s)
    <3>1. Size(t)[<<"value", c>>] < Size(t)[<<part, s>>]
      BY <1>0, SizeShrinks
    <3> QED BY <1>0, <3>1, Agreed
  <2>2. BehindColon(t, f, name, c) = Member(f, name, r) /\ BehindColon(t, g, name, c) = Member(g, name, r)
    BY <1>2, <2>1 DEF BehindColon
  <2> HIDE DEF r
  <2>3. r.s \in Cursor /\ r.s.p > s.p
    BY <1>0, <2>1 DEF Onward, Cursor
  <2>4. f[<<"members", r.s>>] = g[<<"members", r.s>>] /\ Onward(t, r.s, rest.s)
    <3>1. Size(t)[<<"members", r.s>>] < Size(t)[<<part, s>>]
      BY <1>0, <2>3, SizeShrinks
    <3> QED BY <1>0, <2>3, <3>1, Agreed
  <2>5. Member(f, name, r) = AddMember(name, r.v, rest) /\ Member(g, name, r) = AddMember(name, r.v, rest)
    BY <2>4 DEF Member
  <2> HIDE DEF rest
  <2>6. AddMember(name, r.v, rest).s = rest.s
    BY ReturnFields DEF AddMember
  <2>7. Onward(t, c, rest.s)
    BY <2>1, <2>4, OnwardOnward
  <2> QED BY <2>2, <2>5, <2>6, <2>7
<1> QED BY <1>1, <1>2

(* A member, behind its name and the white space there.                     *)
LEMMA BehindNameOnward ==
  ASSUME NEW t, IsText(t), NEW s \in Cursor, s.p <= Len(t), NEW c \in Cursor, c.p >= s.p,
         NEW name, NEW f, NEW g, NEW part \in {"object", "members"}, AgreeBelow(t, part, s, f, g)
  PROVE  /\ BehindName(t, f, name, c) = BehindName(t, g, name, c)
         /\ Onward(t, c, BehindName(t, f, name, c).s)
<1>0. s.p \in Nat /\ c.p \in Nat /\ c.p >= 1 /\ Len(t) \in Nat
  BY CursorFields DEF IsText
<1>1. CASE c.p = End(t)
  <2>1. BehindName(t, f, name, c) = Unfinished(c) /\ BehindName(t, g, name, c) = Unfinished(c)
    <3>0. c.p \notin DOMAIN t
      BY <1>0, <1>1 DEF End, IsText
    <3>1. At(t, c.p) # ":" /\ At(t, c.p) # "}"
      BY <3>0 DEF At
    <3> QED BY <1>1, <3>1, Zenon DEF BehindName
  <2> QED BY <2>1, EndedOnward
<1>2. CASE c.p # End(t) /\ At(t, c.p) = ":"
  <2> DEFINE w == Forward(c)
             q == SkipWS(t, w)
  <2>1. BehindName(t, f, name, c) = BehindColon(t, f, name, q)
        /\ BehindName(t, g, name, c) = BehindColon(t, g, name, q)
    <3>1. At(t, c.p) # "}"
      BY <1>2
    <3> QED BY <1>2, <3>1, Zenon DEF BehindName
  <2>2. c.p <= Len(t)
    <3>1. c.p \in Nat /\ At(t, c.p) # "nul"
      BY <1>0, <1>2
    <3> QED BY <3>1, AtInText
  <2>3. Onward(t, c, w) /\ w.p > c.p /\ w \in Cursor
    BY <2>2, ForwardOnward
  <2> HIDE DEF w
  <2>4. Onward(t, w, q)
    BY <2>3, SkipWSOnward
  <2> HIDE DEF q
  <2>5. q \in Cursor /\ q.p > s.p
    BY <1>0, <2>3, <2>4 DEF Onward, Cursor
  <2>6. /\ BehindColon(t, f, name, q) = BehindColon(t, g, name, q)
        /\ Onward(t, q, BehindColon(t, f, name, q).s)
    BY <2>5, BehindColonOnward
  <2>7. Onward(t, c, q)
    BY <2>3, <2>4, OnwardOnward
  <2>8. Onward(t, c, BehindColon(t, f, name, q).s)
    BY <2>5, <2>6, <2>7, OnwardOnward
  <2> QED BY <2>1, <2>6, <2>8
<1>3. CASE c.p # End(t) /\ At(t, c.p) = "}"
  <2>1. BehindName(t, f, name, c) = Return(Error(Forward(c), 6), <<>>)
        /\ BehindName(t, g, name, c) = Return(Error(Forward(c), 6), <<>>)
    <3>1. At(t, c.p) # ":"
      BY <1>3
    <3> QED BY <1>3, <3>1, Zenon DEF BehindName
  <2>2. c.p <= Len(t)
    <3>1. c.p \in Nat /\ At(t, c.p) # "nul"
      BY <1>0, <1>3
    <3> QED BY <3>1, AtInText
  <2>3. Onward(t, c, Forward(c)) /\ Forward(c) \in Cursor
    BY <2>2, ForwardOnward
  <2>4. Onward(t, Forward(c), Error(Forward(c), 6))
    BY <2>3, OnwardError
  <2>5. Onward(t, c, Error(Forward(c), 6))
    BY <2>3, <2>4, OnwardOnward
  <2> QED BY <2>1, <2>5, ReturnFields
<1>4. CASE c.p # End(t) /\ At(t, c.p) \notin {":", "}"}
  <2> DEFINE e == Error(c, 6)
             b == c.p > End(t)
             r == Return(Looked(e, b), <<>>)
  <2>1. BehindName(t, f, name, c) = r /\ BehindName(t, g, name, c) = r
    <3>1. At(t, c.p) # ":" /\ At(t, c.p) # "}"
      BY <1>4
    <3> QED BY <1>4, <3>1, Zenon DEF BehindName
  <2>2. r.s = Looked(e, b)
    BY ReturnFields
  <2>3. Onward(t, c, e) /\ e.p = c.p /\ e \in Cursor
    BY OnwardError DEF Onward
  <2>4. b \in BOOLEAN /\ (b => e.p > Len(t) + 1)
    BY <1>0, <2>3 DEF End
  <2> HIDE DEF r, e, b
  <2>5. Onward(t, e, Looked(e, b))
    BY <2>3, <2>4, OnwardLooked
  <2>6. Onward(t, c, r.s)
    BY <2>2, <2>3, <2>5, OnwardOnward
  <2> QED BY <2>1, <2>6
<1> QED BY <1>1, <1>2, <1>3, <1>4

(* A round of the loop of readobject.                                       *)
LEMMA ReadObjectOnward ==
  ASSUME NEW t, IsText(t), NEW s \in Cursor, NEW f, NEW g,
         NEW part \in {"object", "members"}, AgreeBelow(t, part, s, f, g)
  PROVE  /\ ReadObject(t, f, s, part) = ReadObject(t, g, s, part)
         /\ Onward(t, s, ReadObject(t, f, s, part).s)
<1> DEFINE w == SkipWS(t, s)
           q == Separator(t, w, part)
<1>0. part \in Parts
  BY DEF Parts
<1>1. Onward(t, s, w) /\ w \in Cursor /\ (w.p > Len(t) \/ Still(t, w.p))
  BY SkipWSOnward DEF Onward
<1>2. ReadObject(t, f, s, part) = NamedElement(t, f, q, part)
      /\ ReadObject(t, g, s, part) = NamedElement(t, g, q, part)
  BY DEF ReadObject
<1> HIDE DEF w
<1>3. Onward(t, w, q)
  BY <1>0, <1>1, SeparatorOnward
<1> HIDE DEF q
<1>4. Onward(t, s, q) /\ q \in Cursor
  BY <1>1, <1>3, OnwardOnward DEF Onward
<1>5. CASE Over(t, q, part)
  <2>1. NamedElement(t, f, q, part) = Ended(t, q) /\ NamedElement(t, g, q, part) = Ended(t, q)
    BY <1>5 DEF NamedElement
  <2>2. Onward(t, s, Ended(t, q).s)
    BY <1>4, EndedOnward, OnwardOnward
  <2> QED BY <1>2, <2>1, <2>2
<1>6. CASE ~Over(t, q, part)
  <2> DEFINE name == ReadName(t, q)
             n == name.s
             c == SkipWS(t, n)
  <2>1. NamedElement(t, f, q, part) = Named(t, f, name) /\ NamedElement(t, g, q, part) = Named(t, g, name)
    BY <1>6 DEF NamedElement
  <2>2. q.p <= Len(t)
    BY <1>4, <1>6, NotOver
  <2>3. Onward(t, q, n)
    BY <1>4, <2>2, ReadNameOnward
  <2> HIDE DEF name
  <2>4. Onward(t, s, n) /\ n \in Cursor
    BY <1>4, <2>3, OnwardOnward DEF Onward
  <2>5. CASE n.p = End(t)
    <3>1. Named(t, f, name) = Unfinished(n) /\ Named(t, g, name) = Unfinished(n)
      BY <2>5 DEF Named
    <3>2. Onward(t, s, Unfinished(n).s)
      BY <2>4, EndedOnward, OnwardOnward
    <3> QED BY <1>2, <2>1, <3>1, <3>2
  <2>6. CASE n.p # End(t)
    <3> DEFINE text1 == name.text
    <3>1. Named(t, f, name) = BehindName(t, f, text1, c) /\ Named(t, g, name) = BehindName(t, g, text1, c)
      BY <2>6 DEF Named
    <3> HIDE DEF n, text1
    <3>2. Onward(t, n, c)
      BY <2>4, SkipWSOnward
    <3> HIDE DEF c
    <3>3. Onward(t, s, c) /\ c \in Cursor
      BY <2>4, <3>2, OnwardOnward DEF Onward
    <3>4. s.p <= Len(t) /\ c.p >= s.p
      <4>1. s.p \in Nat /\ q.p \in Nat /\ Len(t) \in Nat /\ q.p >= s.p
        BY <1>4 DEF Onward, Cursor, IsText
      <4> QED BY <2>2, <3>3, <4>1 DEF Onward
    <3>5. /\ BehindName(t, f, text1, c) = BehindName(t, g, text1, c)
          /\ Onward(t, c, BehindName(t, f, text1, c).s)
      BY <3>3, <3>4, BehindNameOnward
    <3>6. Onward(t, s, BehindName(t, f, text1, c).s)
      BY <3>3, <3>5, OnwardOnward
    <3> QED BY <1>2, <2>1, <3>1, <3>5, <3>6
  <2> QED BY <2>5, <2>6
<1> QED BY <1>5, <1>6

(* An array or object that is a value.                                      *)
LEMMA ContainerValued ==
  ASSUME NEW t, IsText(t), NEW s \in Cursor, NEW w \in Cursor, w.p >= s.p, w.p <= Len(t),
         NEW f, NEW g, AgreeBelow(t, "value", s, f, g), NEW part \in {"array", "object"}, NEW kind
  PROVE  /\ f[<<part, Forward(w)>>] = g[<<part, Forward(w)>>]
         /\ Valued(t, w, Container(kind, f[<<part, Forward(w)>>]))
<1> DEFINE q == Forward(w)
           r == f[<<part, q>>]
           v == <<kind, r.v>>
<1>0. part \in Parts /\ "value" \in Parts /\ s.p \in Nat /\ w.p \in Nat /\ Len(t) \in Nat
  BY CursorFields DEF Parts, IsText
<1>1. Onward(t, w, q) /\ q.p > w.p /\ q \in Cursor
  BY ForwardOnward
<1> HIDE DEF q
<1>2. q.p > s.p /\ s.p <= Len(t) /\ q.p \in Nat
  BY <1>0, <1>1 DEF Cursor
<1>3. Size(t)[<<part, q>>] < Size(t)[<<"value", s>>]
  BY <1>0, <1>1, <1>2, SizeShrinks
<1>4. f[<<part, q>>] = g[<<part, q>>] /\ Onward(t, q, r.s)
  BY <1>0, <1>1, <1>3, Agreed
<1>5. Container(kind, r).s = r.s /\ Container(kind, r).v = v
  BY ReturnFields DEF Container
<1>6. v # Undefined
  BY PairIsDefined
<1> HIDE DEF r, v
<1>7. Onward(t, w, r.s)
  BY <1>1, <1>4, OnwardOnward
<1>8. r.s.p > w.p
  BY <1>0, <1>1, <1>2, <1>4 DEF Onward, Cursor
<1>9. Valued(t, w, Container(kind, r))
  BY <1>5, <1>6, <1>7, <1>8 DEF Valued
<1> QED BY <1>4, <1>9 DEF q, r

(* A value, from what it begins with on.                                    *)
LEMMA ValueAtValued ==
  ASSUME NEW t, IsText(t), NEW s \in Cursor, NEW w \in Cursor, w.p >= s.p,
         NEW f, NEW g, AgreeBelow(t, "value", s, f, g)
  PROVE  ValueAt(t, f, w) = ValueAt(t, g, w) /\ Valued(t, w, ValueAt(t, f, w))
<1> DEFINE c == At(t, w.p)
<1>0. w.p \in Nat /\ w.p >= 1 /\ (c # "nul" => w.p <= Len(t))
  BY CursorFields, AtInText
<1> HIDE DEF c
<1>1. CASE c = "quote"
  <2> DEFINE str == ReadString(t, w)
             v == <<"string", str.text>>
  <2>1. c # "[" /\ c # "{" /\ c \notin Literals \cup {"n", "hex"} /\ c \notin {"sign", "digit"}
    BY <1>1 DEF Literals
  <2>2. ValueAt(t, f, w) = StringValue(str) /\ ValueAt(t, g, w) = StringValue(str)
    BY <1>1, <2>1, Zenon DEF ValueAt, c
  <2>3. Onward(t, w, str.s) /\ str.s.p > w.p
    BY <1>1, ReadStringOnward DEF c
  <2>4. StringValue(str).s = str.s /\ StringValue(str).v = v /\ v # Undefined
    BY ReturnFields, PairIsDefined DEF StringValue
  <2> HIDE DEF str, v
  <2>5. Valued(t, w, StringValue(str))
    BY <2>3, <2>4 DEF Valued
  <2> QED BY <2>2, <2>5
<1>2. CASE c = "["
  <2> DEFINE r == f[<<"array", Forward(w)>>]
  <2>1. c # "quote" /\ c # "{" /\ c \notin Literals \cup {"n", "hex"} /\ c \notin {"sign", "digit"}
    BY <1>2 DEF Literals
  <2>2. ValueAt(t, f, w) = Container("array", r)
        /\ ValueAt(t, g, w) = Container("array", g[<<"array", Forward(w)>>])
    BY <1>2, <2>1, Zenon DEF ValueAt, c
  <2>3. w.p <= Len(t)
    BY <1>0, <1>2
  <2>4. r = g[<<"array", Forward(w)>>] /\ Valued(t, w, Container("array", r))
    BY <2>3, ContainerValued
  <2> QED BY <2>2, <2>4
<1>3. CASE c = "{"
  <2> DEFINE r == f[<<"object", Forward(w)>>]
  <2>1. c # "quote" /\ c # "[" /\ c \notin Literals \cup {"n", "hex"} /\ c \notin {"sign", "digit"}
    BY <1>3 DEF Literals
  <2>2. ValueAt(t, f, w) = Container("object", r)
        /\ ValueAt(t, g, w) = Container("object", g[<<"object", Forward(w)>>])
    BY <1>3, <2>1, Zenon DEF ValueAt, c
  <2>3. w.p <= Len(t)
    BY <1>0, <1>3
  <2>4. r = g[<<"object", Forward(w)>>] /\ Valued(t, w, Container("object", r))
    BY <2>3, ContainerValued
  <2> QED BY <2>2, <2>4
<1>4. CASE c \in Literals \cup {"n", "hex"}
  <2>1. c # "quote" /\ c # "[" /\ c # "{" /\ c \notin {"sign", "digit"}
    BY <1>4 DEF Literals
  <2>2. ValueAt(t, f, w) = ReadLit(t, w) /\ ValueAt(t, g, w) = ReadLit(t, w)
    BY <1>4, <2>1, Zenon DEF ValueAt, c
  <2> QED BY <2>2, ReadLitValued
<1>5. CASE c \in {"sign", "digit"}
  <2>1. c # "quote" /\ c # "[" /\ c # "{" /\ c \notin Literals \cup {"n", "hex"}
    BY <1>5 DEF Literals
  <2>2. ValueAt(t, f, w) = ReadNum(t, w) /\ ValueAt(t, g, w) = ReadNum(t, w)
    BY <1>5, <2>1, Zenon DEF ValueAt, c
  <2> QED BY <1>5, <2>2, ReadNumValued DEF c
<1>6. CASE /\ c # "quote" /\ c # "[" /\ c # "{"
           /\ c \notin Literals \cup {"n", "hex"} /\ c \notin {"sign", "digit"}
  <2>1. ValueAt(t, f, w) = Return(w, Undefined) /\ ValueAt(t, g, w) = Return(w, Undefined)
    BY <1>6, Zenon DEF ValueAt, c
  <2> QED BY <2>1, ReadLitValued
<1> QED BY <1>1, <1>2, <1>3, <1>4, <1>5, <1>6, Zenon

(* A part is read with the parts below it only, and read right if they are. *)
LEMMA ReadPartGood ==
  ASSUME NEW t, IsText(t), NEW part \in Parts, NEW s \in Cursor, NEW f, NEW g,
         AgreeBelow(t, part, s, f, g)
  PROVE  /\ ReadPart(t, f, part, s) = ReadPart(t, g, part, s)
         /\ Good(t, <<part, s>>, ReadPart(t, f, part, s))
<1> DEFINE w == SkipWS(t, s)
           x == <<part, s>>
<1>0. x[1] = part /\ x[2] = s
  OBVIOUS
<1>1. Onward(t, s, w) /\ w \in Cursor /\ w.p >= s.p
  BY SkipWSOnward DEF Onward
<1> HIDE DEF x
<1>2. CASE part = "value"
  <2> DEFINE r == ValueAt(t, f, w)
  <2>1. part \notin {"array", "items"} /\ part \notin {"object", "members"}
    BY <1>2
  <2>2. ReadPart(t, f, part, s) = r /\ ReadPart(t, g, part, s) = ValueAt(t, g, w)
    BY <1>2, <2>1, Zenon DEF ReadPart
  <2>3. r = ValueAt(t, g, w) /\ Valued(t, w, r)
    <3> HIDE DEF w
    <3>1. AgreeBelow(t, "value", s, f, g)
      BY <1>2
    <3> QED BY <1>1, <3>1, ValueAtValued
  <2> HIDE DEF r
  <2>4. Onward(t, s, r.s)
    BY <1>1, <2>3, OnwardOnward DEF Valued
  <2>5. Good(t, x, r)
    BY <1>0, <2>3, <2>4 DEF Good
  <2> QED BY <2>2, <2>3, <2>5 DEF x
<1>3. CASE part \in {"array", "items"}
  <2> DEFINE r == ReadArray(t, f, s, part)
  <2>1. part # "value" /\ part \notin {"object", "members"}
    BY <1>3
  <2>2. ReadPart(t, f, part, s) = r /\ ReadPart(t, g, part, s) = ReadArray(t, g, s, part)
    BY <1>3, <2>1, Zenon DEF ReadPart
  <2>3. r = ReadArray(t, g, s, part) /\ Onward(t, s, r.s)
    BY <1>3, ReadArrayOnward
  <2> HIDE DEF r
  <2>4. Good(t, x, r)
    BY <1>0, <2>1, <2>3 DEF Good
  <2> QED BY <2>2, <2>3, <2>4 DEF x
<1>4. CASE part \in {"object", "members"}
  <2> DEFINE r == ReadObject(t, f, s, part)
  <2>1. part # "value" /\ part \notin {"array", "items"}
    BY <1>4
  <2>2. ReadPart(t, f, part, s) = r /\ ReadPart(t, g, part, s) = ReadObject(t, g, s, part)
    BY <1>4, <2>1, Zenon DEF ReadPart
  <2>3. r = ReadObject(t, g, s, part) /\ Onward(t, s, r.s)
    BY <1>4, ReadObjectOnward
  <2> HIDE DEF r
  <2>4. Good(t, x, r)
    BY <1>0, <2>1, <2>3 DEF Good
  <2> QED BY <2>2, <2>3, <2>4 DEF x
<1> QED BY <1>2, <1>3, <1>4 DEF Parts

-----------------------------------------------------------------------------
(* The recursion of the parser.                                             *)

(* g is what the parser says at all that is smaller than n.                 *)
Level(t, n, g) == \A x \in Task : Size(t)[x] < n => g[x] = ReadPart(t, g, x[1], x[2])

(* A task by its parts.                                                     *)
LEMMA TaskParts ==
  ASSUME NEW x \in Task
  PROVE  x[1] \in Parts /\ x[2] \in Cursor /\ x = <<x[1], x[2]>>
BY DEF Task

(* What the parser says is right.                                           *)
LEMMA LevelGood ==
  ASSUME NEW t, IsText(t), NEW n \in Nat, NEW g, Level(t, n, g)
  PROVE  \A x \in Task : Size(t)[x] < n => Good(t, x, g[x])
<1> DEFINE T == {x \in Task : Size(t)[x] < n => Good(t, x, g[x])}
<1>1. ASSUME NEW x \in Task, \A y \in Task : Size(t)[y] < Size(t)[x] => y \in T PROVE x \in T
  <2> SUFFICES ASSUME Size(t)[x] < n PROVE Good(t, x, g[x])
    OBVIOUS
  <2>1. ASSUME NEW y \in Task, Size(t)[y] < Size(t)[x] PROVE Good(t, y, g[y])
    <3>1. Size(t)[y] \in Nat /\ Size(t)[x] \in Nat
      BY SizeShrinks
    <3>2. Size(t)[y] < n
      BY <2>1, <3>1
    <3> QED BY <1>1, <2>1, <3>2
  <2>2. x[1] \in Parts /\ x[2] \in Cursor /\ x = <<x[1], x[2]>>
    BY TaskParts
  <2>3. Agree(t, Size(t)[x], g, g)
    BY <2>1 DEF Agree
  <2>4. AgreeBelow(t, x[1], x[2], g, g)
    BY <2>2, <2>3 DEF AgreeBelow
  <2>5. Good(t, <<x[1], x[2]>>, ReadPart(t, g, x[1], x[2]))
    BY <2>2, <2>4, ReadPartGood
  <2>6. g[x] = ReadPart(t, g, x[1], x[2])
    BY DEF Level
  <2> QED BY <2>2, <2>5, <2>6
<1> HIDE DEF T
<1>2. \A x \in Task : x \in T
  BY <1>1, SizeShrinks, Descent
<1> QED BY <1>2 DEF T

(* Two such functions are the same.                                         *)
LEMMA LevelUnique ==
  ASSUME NEW t, IsText(t), NEW n \in Nat, NEW k \in Nat, NEW f, NEW g,
         Level(t, n, f), Level(t, k, g)
  PROVE  \A x \in Task : Size(t)[x] < n /\ Size(t)[x] < k => f[x] = g[x]
<1> DEFINE T == {x \in Task : Size(t)[x] < n /\ Size(t)[x] < k => f[x] = g[x]}
<1>0. \A x \in Task : Size(t)[x] < n => Good(t, x, f[x])
  BY LevelGood
<1>1. ASSUME NEW x \in Task, \A y \in Task : Size(t)[y] < Size(t)[x] => y \in T PROVE x \in T
  <2> SUFFICES ASSUME Size(t)[x] < n, Size(t)[x] < k PROVE f[x] = g[x]
    OBVIOUS
  <2>1. ASSUME NEW y \in Task, Size(t)[y] < Size(t)[x] PROVE f[y] = g[y] /\ Good(t, y, f[y])
    <3>1. Size(t)[y] \in Nat /\ Size(t)[x] \in Nat
      BY SizeShrinks
    <3>2. Size(t)[y] < n /\ Size(t)[y] < k
      BY <2>1, <3>1
    <3> QED BY <1>0, <1>1, <2>1, <3>2
  <2>2. x[1] \in Parts /\ x[2] \in Cursor /\ x = <<x[1], x[2]>>
    BY TaskParts
  <2>3. Agree(t, Size(t)[x], f, g)
    BY <2>1 DEF Agree
  <2>4. AgreeBelow(t, x[1], x[2], f, g)
    BY <2>2, <2>3 DEF AgreeBelow
  <2>5. ReadPart(t, f, x[1], x[2]) = ReadPart(t, g, x[1], x[2])
    BY <2>2, <2>4, ReadPartGood
  <2> QED BY <2>5 DEF Level
<1> HIDE DEF T
<1>2. \A x \in Task : x \in T
  BY <1>1, SizeShrinks, Descent
<1> QED BY <1>2 DEF T

(* They exist.                                                              *)
LEMMA LevelExists ==
  ASSUME NEW t, IsText(t)
  PROVE  \A n \in Nat : \E g : Level(t, n, g)
<1> DEFINE T == {n \in Nat : \E g : Level(t, n, g)}
<1>1. 0 \in T
  <2>1. \A x \in Task : ~(Size(t)[x] < 0)
    <3>1. \A x \in Task : Size(t)[x] \in Nat
      BY SizeShrinks
    <3> QED BY <3>1
  <2> QED BY <2>1 DEF Level
<1>2. ASSUME NEW n \in Nat, n \in T PROVE n + 1 \in T
  <2>1. PICK f : Level(t, n, f)
    BY <1>2
  <2> DEFINE h == [x \in Task |-> IF Size(t)[x] < n THEN f[x] ELSE ReadPart(t, f, x[1], x[2])]
  <2>2. ASSUME NEW x \in Task, Size(t)[x] < n + 1
        PROVE  h[x] = ReadPart(t, h, x[1], x[2])
    <3>1. ASSUME NEW y \in Task, Size(t)[y] < Size(t)[x] PROVE f[y] = h[y] /\ Good(t, y, f[y])
      <4>1. Size(t)[y] \in Nat /\ Size(t)[x] \in Nat
        BY SizeShrinks
      <4>2. Size(t)[y] < n
        BY <2>2, <3>1, <4>1
      <4> QED BY <2>1, <4>2, LevelGood
    <3>2. x[1] \in Parts /\ x[2] \in Cursor /\ x = <<x[1], x[2]>>
      BY TaskParts
    <3>3. h[x] = ReadPart(t, f, x[1], x[2])
      BY <2>1 DEF Level
    <3> HIDE DEF h
    <3>4. Agree(t, Size(t)[x], f, h)
      BY <3>1 DEF Agree
    <3>5. AgreeBelow(t, x[1], x[2], f, h)
      BY <3>2, <3>4 DEF AgreeBelow
    <3>6. ReadPart(t, f, x[1], x[2]) = ReadPart(t, h, x[1], x[2])
      BY <3>2, <3>5, ReadPartGood
    <3> QED BY <3>3, <3>6
  <2> HIDE DEF h
  <2>3. Level(t, n + 1, h)
    BY <2>2 DEF Level
  <2> QED BY <2>3
<1>3. \A n \in Nat : n \in T
  <2> HIDE DEF T
  <2> QED BY <1>1, <1>2, Counting
<1> QED BY <1>3

(* The parser is what its definition says, in every part of every text.     *)
LEMMA ReadingIs ==
  ASSUME NEW t, IsText(t)
  PROVE  \A x \in Task : Reading(t)[x] = ReadPart(t, Reading(t), x[1], x[2])
<1> DEFINE to(n) == CHOOSE g : Level(t, n, g)
<1>1. \A n \in Nat : Level(t, n, to(n))
  BY LevelExists
<1> HIDE DEF to
<1> DEFINE f == [x \in Task |-> to(Size(t)[x] + 1)[x]]
<1>2. \A x \in Task : /\ Size(t)[x] \in Nat /\ Size(t)[x] + 1 \in Nat
                      /\ Size(t)[x] < Size(t)[x] + 1
  <2>1. \A x \in Task : Size(t)[x] \in Nat
    BY SizeShrinks
  <2> QED BY <2>1
<1>3. ASSUME NEW x \in Task PROVE f[x] = ReadPart(t, f, x[1], x[2])
  <2> DEFINE g == to(Size(t)[x] + 1)
  <2>1. Level(t, Size(t)[x] + 1, g)
    BY <1>1, <1>2
  <2>2. f[x] = g[x]
    OBVIOUS
  <2>3. g[x] = ReadPart(t, g, x[1], x[2])
    BY <1>2, <2>1 DEF Level
  <2>4. ASSUME NEW y \in Task, Size(t)[y] < Size(t)[x] PROVE g[y] = f[y] /\ Good(t, y, g[y])
    <3> DEFINE h == to(Size(t)[y] + 1)
    <3>1. Level(t, Size(t)[y] + 1, h)
      BY <1>1, <1>2
    <3>2. f[y] = h[y]
      OBVIOUS
    <3> HIDE DEF g, h, f
    <3>3. Size(t)[y] < Size(t)[x] + 1 /\ Size(t)[y] < Size(t)[y] + 1
      BY <1>2, <2>4
    <3>4. g[y] = h[y]
      BY <1>2, <2>1, <3>1, <3>3, LevelUnique
    <3>5. Good(t, y, g[y])
      BY <1>2, <2>1, <3>3, LevelGood
    <3> QED BY <3>2, <3>4, <3>5
  <2> HIDE DEF f, g
  <2>5. x[1] \in Parts /\ x[2] \in Cursor /\ x = <<x[1], x[2]>>
    BY TaskParts
  <2>6. Agree(t, Size(t)[x], g, f)
    BY <2>4 DEF Agree
  <2>7. AgreeBelow(t, x[1], x[2], g, f)
    BY <2>5, <2>6 DEF AgreeBelow
  <2>8. ReadPart(t, g, x[1], x[2]) = ReadPart(t, f, x[1], x[2])
    BY <2>5, <2>7, ReadPartGood
  <2> QED BY <2>2, <2>3, <2>8
<1> DEFINE Is(g) == g = [x \in Task |-> ReadPart(t, g, x[1], x[2])]
<1>4. Reading(t) = CHOOSE g : Is(g)
  BY DEF Reading
<1>5. Is(f)
  <2>1. f = [x \in Task |-> f[x]]
    OBVIOUS
  <2> HIDE DEF f
  <2> QED BY <1>3, <2>1
<1> HIDE DEF f, Is
<1>6. Is(Reading(t))
  BY <1>4, <1>5
<1> QED BY <1>6 DEF Is

(* Every text is one.                                                       *)
LEMMA TextIsText ==
  ASSUME NEW t \in Seq(Symbol)
  PROVE  IsText(t)
BY DEF IsText

(* Every part of it is read right.                                          *)
LEMMA ReadingGood ==
  ASSUME NEW t, IsText(t)
  PROVE  \A x \in Task : Good(t, x, Reading(t)[x])
<1> TAKE x \in Task
<1>1. Size(t)[x] \in Nat /\ Size(t)[x] + 1 \in Nat /\ Size(t)[x] < Size(t)[x] + 1
  <2>1. Size(t)[x] \in Nat
    BY SizeShrinks
  <2> QED BY <2>1
<1>2. Level(t, Size(t)[x] + 1, Reading(t))
  BY ReadingIs DEF Level
<1> QED BY <1>1, <1>2, LevelGood

(* The parser ends on every text: every part is read with nothing but parts *)
(* of which less of the text is left, or as much but inside this one, and   *)
(* with these it is what its functions say.                                 *)
THEOREM ParserEnds ==
  ASSUME NEW t \in Seq(Symbol)
  PROVE  /\ Size(t) \in [Task -> Nat]
         /\ \A x \in Task :
              /\ Reading(t)[x] = ReadPart(t, Reading(t), x[1], x[2])
              /\ \A f : (\A y \in Task : Size(t)[y] < Size(t)[x] => f[y] = Reading(t)[y])
                          => ReadPart(t, f, x[1], x[2]) = Reading(t)[x]
<1>1. IsText(t)
  BY TextIsText
<1>2. Size(t) \in [Task -> Nat]
  BY <1>1, SizeShrinks
<1>3. \A x \in Task : Reading(t)[x] = ReadPart(t, Reading(t), x[1], x[2])
  BY <1>1, ReadingIs
<1>4. ASSUME NEW x \in Task, NEW f,
             \A y \in Task : Size(t)[y] < Size(t)[x] => f[y] = Reading(t)[y]
      PROVE  ReadPart(t, f, x[1], x[2]) = Reading(t)[x]
  <2>1. x[1] \in Parts /\ x[2] \in Cursor /\ x = <<x[1], x[2]>>
    BY TaskParts
  <2>2. \A y \in Task : Size(t)[y] < Size(t)[x] =>
          Reading(t)[y] = f[y] /\ Good(t, y, Reading(t)[y])
    BY <1>1, <1>4, ReadingGood
  <2>3. AgreeBelow(t, x[1], x[2], Reading(t), f)
    BY <2>1, <2>2 DEF AgreeBelow, Agree
  <2>4. ReadPart(t, Reading(t), x[1], x[2]) = ReadPart(t, f, x[1], x[2])
    BY <1>1, <2>1, <2>3, ReadPartGood
  <2> QED BY <1>3, <2>4
<1> QED BY <1>2, <1>3, <1>4

(* The last two symbols of a text.                                          *)
LEMMA LastTwo ==
  ASSUME NEW t \in Seq(Symbol), NEW a, NEW b, EndsIn(t, a, b)
  PROVE  Len(t) >= 2 /\ SubSeq(t, Len(t) - 1, Len(t)) = <<a, b>>
<1> DEFINE n == Len(t)
           u == SubSeq(t, n - 1, n)
<1>1. n \in Nat /\ n >= 2 /\ t[n - 1] = a /\ t[n] = b
  BY DEF EndsIn
<1>2. /\ u \in Seq(Symbol) /\ Len(u) = 2
      /\ u[1] = t[n - 1] /\ u[2] = t[n]
  BY <1>1
<1> HIDE DEF u
<1>3. u = <<u[1], u[2]>>
  BY <1>2
<1> QED BY <1>1, <1>2, <1>3 DEF u

(* On every text the pointer stays within it, one byte behind its end if it *)
(* ends in two slashes, and nothing behind the text is looked at unless a   *)
(* comment is not closed or the text ends in the middle of an escape or at  *)
(* once after two slashes.                                                  *)
THEOREM ParserStaysInText ==
  ASSUME NEW t \in Seq(Symbol)
  PROVE  /\ Parse(t).s \in Cursor
         /\ Inside(t, Parse(t).s.p)
         /\ Parse(t).s.wild => Excused(t, Parse(t).s.errs)
<1> DEFINE x == <<"value", Start>>
<1>1. IsText(t)
  BY TextIsText
<1>2. x \in Task /\ x[2] = Start
  BY StartIsCursor DEF Task, Parts
<1>3. Good(t, x, Reading(t)[x])
  <2> HIDE DEF x
  <2> QED BY <1>1, <1>2, ReadingGood
<1>4. Parse(t) = Reading(t)[x]
  BY DEF Parse, GetValue
<1>5. Onward(t, Start, Parse(t).s)
  <2> HIDE DEF x
  <2> QED BY <1>2, <1>3, <1>4 DEF Good
<1>6. Fits(t, Start)
  <2>1. Start.p = 1 /\ Start.wild = FALSE
    BY DEF Start
  <2> QED BY <1>1, <2>1 DEF Fits, Inside, IsText
<1> QED BY <1>5, <1>6 DEF Onward, Fits

(* What has been read is what the parser makes of the text, and that is     *)
(* symbols.                                                                 *)
ReadIsParsed ==
  /\ text \in Seq(Symbol) /\ read \in BOOLEAN
  /\ read => result = Parse(text)

(* At first and after every step.                                           *)
LEMMA InitReadIsParsed == Init => ReadIsParsed
<1> SUFFICES ASSUME Init PROVE ReadIsParsed
  OBVIOUS
<1>1. read = FALSE
  BY DEF Init
<1>2. \/ doc \in Docs /\ (text = Dump(doc, <<"ws">>) \/ text = Dump(doc, <<>>))
      \/ text \in Written
  BY DEF Init
<1>3. text \in Seq(Symbol)
  BY <1>2, SymbolsAssumption
<1> QED BY <1>1, <1>3 DEF ReadIsParsed

(* Nothing happens to the text once it is read.                             *)
LEMMA NextReadIsParsed == ReadIsParsed /\ [Next]_vars => ReadIsParsed'
<1> SUFFICES ASSUME ReadIsParsed, [Next]_vars PROVE ReadIsParsed'
  OBVIOUS
<1> USE DEF ReadIsParsed
<1>0. ASSUME NEW kind, NEW t \in Seq(Symbol), Edit(kind, t) PROVE ReadIsParsed'
  BY <1>0 DEF Edit
<1>1. CASE Cut
  <2>1. PICK n \in 0 .. Len(text) : Edit("cut", SubSeq(text, 1, n))
    BY <1>1 DEF Cut
  <2>2. SubSeq(text, 1, n) \in Seq(Symbol)
    OBVIOUS
  <2> QED BY <1>0, <2>1, <2>2
<1>2. CASE LeaveTail
  <2>1. PICK tail \in Tails : Edit("tail", text \o tail)
    BY <1>2 DEF LeaveTail
  <2>2. tail \in Seq(Symbol)
    BY SymbolsAssumption
  <2>3. text \o tail \in Seq(Symbol)
    BY <2>2
  <2> QED BY <1>0, <2>1, <2>3
<1>3. CASE AddComment
  <2>1. PICK i \in Gaps(text), comment \in Comments : Edit("comment", Commented(text, i, comment))
    BY <1>3 DEF AddComment
  <2>2. comment \in Seq(Symbol) /\ i \in DOMAIN text
    BY SymbolsAssumption DEF Gaps
  <2>3. SubSeq(text, 1, i) \in Seq(Symbol) /\ SubSeq(text, i + 1, Len(text)) \in Seq(Symbol)
    BY <2>2
  <2>4. Commented(text, i, comment) \in Seq(Symbol)
    BY <2>2, <2>3 DEF Commented
  <2> QED BY <1>0, <2>1, <2>4
<1>4. CASE Stray
  <2>1. PICK i \in DOMAIN text, c \in Strays : Edit("stray", [text EXCEPT ![i] = c])
    BY <1>4 DEF Stray
  <2>2. c \in Symbol
    BY SymbolsAssumption
  <2>3. [text EXCEPT ![i] = c] \in Seq(Symbol)
    BY <2>2
  <2> QED BY <1>0, <2>1, <2>3
<1>5. CASE Read
  BY <1>5 DEF Read
<1>6. CASE UNCHANGED vars
  BY <1>6 DEF vars
<1> QED BY <1>1, <1>2, <1>3, <1>4, <1>5, <1>6 DEF Next

(* What is read is read in the text.                                        *)
LEMMA ReadIsParsedStays == ReadIsParsed => StaysInText
<1> SUFFICES ASSUME ReadIsParsed, read, result.s.wild, ~HaveError(result, 4)
             PROVE  /\ Len(text) >= 2
                    /\ SubSeq(text, Len(text) - 1, Len(text)) \in
                         {<<"bslash", "quote">>, <<"/", "/">>}
  BY DEF StaysInText
<1>1. text \in Seq(Symbol) /\ result = Parse(text)
  BY DEF ReadIsParsed
<1>2. Excused(text, result.s.errs)
  BY <1>1, ParserStaysInText
<1>3. EndsIn(text, "/", "/") \/ EndsIn(text, "bslash", "quote")
  BY <1>2 DEF Excused, HaveError
<1> QED BY <1>1, <1>3, LastTwo

(* Whatever has happened to a text, the parser stays within it, unless a    *)
(* comment is not closed, or the text ends in the middle of an escape or at *)
(* once after the two slashes of a comment.                                 *)
THEOREM StaysInTextAlways == Spec => []StaysInText
<1>1. Init => ReadIsParsed
  BY InitReadIsParsed
<1>2. ReadIsParsed /\ [Next]_vars => ReadIsParsed'
  BY NextReadIsParsed
<1>3. ReadIsParsed => StaysInText
  BY ReadIsParsedStays
<1> QED BY <1>1, <1>2, <1>3, PTL DEF Spec

-----------------------------------------------------------------------------
(* Texts that are torn off.                                                 *)

(* u is what is left of t.                                                  *)
Begun(u, t) == IsText(u) /\ IsText(t) /\ Len(u) <= Len(t) /\ \A i \in 1 .. Len(u) : u[i] = t[i]

(* In u the parser can no longer do as in t: it has met an error, the end   *)
(* of u, or a slash there of which a comment may have been made.            *)
Lost(u, s) == s.errs # {} \/ s.p > Len(u) \/ (s.p = Len(u) /\ u[s.p] = "/")

(* Once lost it stays so.                                                   *)
LEMMA LostStays ==
  ASSUME NEW u, IsText(u), NEW s \in Cursor, NEW r, Lost(u, s), Onward(u, s, r)
  PROVE  Lost(u, r)
<1>1. /\ s.p \in Nat /\ r.p \in Nat /\ Len(u) \in Nat /\ r.p >= s.p
      /\ s.errs \subseteq r.errs
  BY DEF Onward, Cursor, IsText
<1>2. CASE s.errs # {}
  BY <1>1, <1>2 DEF Lost
<1>3. CASE s.p > Len(u)
  BY <1>1, <1>3 DEF Lost
<1>4. CASE s.p = Len(u) /\ u[s.p] = "/"
  <2>1. r.p = s.p \/ r.p > Len(u)
    BY <1>1, <1>4
  <2> QED BY <1>4, <2>1 DEF Lost
<1> QED BY <1>2, <1>3, <1>4 DEF Lost

(* An error is one.                                                         *)
LEMMA ErrorIsLost ==
  ASSUME NEW u, NEW s \in Cursor, NEW num \in Nat
  PROVE  Error(s, num).errs # {} /\ Lost(u, Error(s, num))
<1>1. num \in Error(s, num).errs
  BY ErrorFields
<1> QED BY <1>1 DEF Lost

(* What is not lost is in both texts, and the symbol there is the same.     *)
LEMMA BegunAt ==
  ASSUME NEW u, NEW t, Begun(u, t), NEW p \in Nat, p >= 1, p <= Len(u)
  PROVE  p <= Len(t) /\ At(u, p) = At(t, p) /\ u[p] = t[p] /\ At(u, p) = u[p]
<1>1. p \in 1 .. Len(u) /\ p \in 1 .. Len(t) /\ p <= Len(t)
  BY DEF Begun, IsText
<1>2. p \in DOMAIN u /\ p \in DOMAIN t /\ u[p] = t[p]
  BY <1>1 DEF Begun, IsText
<1> QED BY <1>1, <1>2 DEF At

(* The pointer, if it is not lost.                                          *)
LEMMA NotLost ==
  ASSUME NEW u, NEW t, Begun(u, t), NEW s \in Cursor, ~Lost(u, s)
  PROVE  /\ s.p \in Nat /\ s.p >= 1 /\ s.p <= Len(u) /\ s.p <= Len(t)
         /\ At(u, s.p) = At(t, s.p) /\ At(u, s.p) = u[s.p]
         /\ s.p = Len(u) => At(u, s.p) # "/"
         /\ s.errs = {}
<1>1. s.p \in Nat /\ s.p >= 1 /\ Len(u) \in Nat
  BY CursorFields DEF Begun, IsText
<1>2. ~(s.p > Len(u)) /\ s.errs = {} /\ (s.p = Len(u) => u[s.p] # "/")
  BY DEF Lost
<1>3. s.p <= Len(u)
  BY <1>1, <1>2
<1>4. s.p <= Len(t) /\ At(u, s.p) = At(t, s.p) /\ At(u, s.p) = u[s.p]
  BY <1>1, <1>3, BegunAt
<1> QED BY <1>1, <1>2, <1>3, <1>4

(* The first one is the one that is found.                                  *)
LEMMA FoundFirst ==
  ASSUME NEW t, IsText(t), NEW p \in Nat, p >= 1, NEW c, NEW i \in p .. Len(t), t[i] = c
  PROVE  Find(t, p, c) # 0 /\ Find(t, p, c) <= i
<1> DEFINE S == {k \in p .. Len(t) : t[k] = c}
<1>1. S \in SUBSET Nat /\ i \in S
  BY DEF IsText
<1>2. Find(t, p, c) = Min(S)
  BY DEF Find
<1> HIDE DEF S
<1>3. Min(S) \in S /\ Min(S) <= i
  BY <1>1, MinOf
<1>4. Min(S) >= p /\ Min(S) \in Nat
  BY <1>1, <1>3 DEF S
<1> QED BY <1>2, <1>3, <1>4

(* What is found in u is found in t.                                        *)
LEMMA FoundBegun ==
  ASSUME NEW u, NEW t, Begun(u, t), NEW p \in Nat, p >= 1, NEW c, Find(u, p, c) # 0
  PROVE  Find(t, p, c) = Find(u, p, c)
<1> DEFINE i == Find(u, p, c)
           k == Find(t, p, c)
<1>0. IsText(u) /\ IsText(t) /\ Len(u) \in Nat /\ Len(t) \in Nat /\ Len(u) <= Len(t)
  BY DEF Begun, IsText
<1>1. i \in Nat /\ i >= p /\ i <= Len(u) /\ u[i] = c
  BY <1>0, Found
<1>2. t[i] = c /\ i <= Len(t)
  BY <1>1, BegunAt
<1>3. k # 0 /\ k <= i
  BY <1>0, <1>1, <1>2, FoundFirst
<1>4. k \in Nat /\ k >= p /\ k <= Len(t) /\ t[k] = c
  BY <1>0, <1>3, Found
<1>5. k <= Len(u) /\ k >= 1
  BY <1>0, <1>1, <1>3, <1>4
<1>6. u[k] = c
  BY <1>4, <1>5, BegunAt
<1>7. i <= k
  BY <1>0, <1>4, <1>5, <1>6, FoundFirst
<1> HIDE DEF i, k
<1>8. i = k
  BY <1>1, <1>3, <1>4, <1>7
<1> QED BY <1>8 DEF i, k

(* The same in both, or lost in u.                                          *)
Same(u, a, b) == a = b \/ Lost(u, a)

(* charskipWS, the line comment and the comment.                            *)
LEMMA SkipSpaceBegun ==
  ASSUME NEW u, NEW t, Begun(u, t), NEW s \in Cursor, ~Lost(u, s)
  PROVE  SkipSpace(u, s) = SkipSpace(t, s)
<1>1. /\ s.p \in Nat /\ Len(u) \in Nat /\ Len(t) \in Nat /\ s.p <= Len(u) /\ s.p <= Len(t)
      /\ At(u, s.p) = At(t, s.p)
  BY NotLost DEF Begun, IsText
<1>2. (s.p > End(u)) = FALSE /\ (s.p > End(t)) = FALSE
  BY <1>1 DEF End
<1> QED BY <1>1, <1>2 DEF SkipSpace

(* What begins here begins in both.                                         *)
LEMMA BeginsBegun ==
  ASSUME NEW u, NEW t, Begun(u, t), NEW s \in Cursor, ~Lost(u, s), NEW second \in {"/", "*"}
  PROVE  Begins(u, s.p, second) <=> Begins(t, s.p, second)
<1>1. /\ s.p \in Nat /\ s.p >= 1 /\ s.p <= Len(u) /\ At(u, s.p) = At(t, s.p)
      /\ s.p = Len(u) => At(u, s.p) # "/"
  BY NotLost
<1>2. CASE s.p = Len(u)
  BY <1>1, <1>2 DEF Begins
<1>3. CASE s.p # Len(u)
  <2>1. s.p + 1 \in Nat /\ s.p + 1 >= 1 /\ s.p + 1 <= Len(u)
    BY <1>1, <1>3 DEF Begun, IsText
  <2>2. At(u, s.p + 1) = At(t, s.p + 1)
    BY <2>1, BegunAt
  <2> QED BY <1>1, <2>2 DEF Begins
<1> QED BY <1>2, <1>3

(* The line comment.                                                        *)
LEMMA SkipLineBegun ==
  ASSUME NEW u, NEW t, Begun(u, t), NEW s \in Cursor, ~Lost(u, s)
  PROVE  Same(u, SkipLine(u, s), SkipLine(t, s))
<1>0. /\ s.p \in Nat /\ s.p >= 1 /\ Len(u) \in Nat /\ Len(t) \in Nat /\ Len(u) <= Len(t)
      /\ IsText(u) /\ IsText(t) /\ s.p <= Len(u)
  BY NotLost DEF Begun, IsText
<1>1. CASE ~Begins(u, s.p, "/")
  <2>1. ~Begins(t, s.p, "/")
    BY <1>1, BeginsBegun
  <2> QED BY <1>1, <2>1 DEF SkipLine, Same
<1>2. CASE Begins(u, s.p, "/")
  <2> DEFINE p == s.p + 2
             q == LineEnd(u, p)
             k == LineEnd(t, p)
             A == {i \in p .. (Len(u) + 2) : At(u, i) = "eol" \/ (i > p /\ i >= End(u))}
             B == {i \in p .. (Len(t) + 2) : At(t, i) = "eol" \/ (i > p /\ i >= End(t))}
  <2>1. Begins(t, s.p, "/")
    BY <1>2, BeginsBegun
  <2>2. s.p + 1 <= Len(u)
    BY <1>0, <1>2, BeginsInText
  <2>3. p \in Nat /\ p >= 1 /\ p <= Len(u) + 1 /\ p <= Len(t) + 1
    BY <1>0, <2>2
  <2>4. SkipLine(u, s) = Goto(s, q) /\ SkipLine(t, s) = Goto(s, k)
    BY <1>2, <2>1 DEF SkipLine
  <2>5. q \in Nat /\ q >= p /\ k \in Nat /\ k >= p
    BY <1>0, <2>3, LineEndInText
  <2>6. q \in A /\ (\A i \in A : q <= i) /\ k \in B /\ (\A i \in B : k <= i)
    <3>1. A \in SUBSET Nat /\ B \in SUBSET Nat
      BY <1>0, <2>3
    <3>2. Len(u) + 2 \in A /\ Len(t) + 2 \in B
      BY <1>0, <2>3 DEF End
    <3>3. q = Min(A) /\ k = Min(B)
      BY DEF LineEnd
    <3> HIDE DEF A, B, q, k
    <3> QED BY <3>1, <3>2, <3>3, MinOf
  <2> HIDE DEF q, k
  <2>7. CASE q > Len(u)
    <3>1. q \in Nat \ {0}
      BY <2>3, <2>5
    <3>2. Goto(s, q).p > Len(u)
      BY <2>7, <3>1, GotoFields
    <3> QED BY <2>4, <3>2 DEF Same, Lost
  <2>8. CASE q <= Len(u)
    <3>1. At(u, q) = "eol"
      BY <1>0, <2>5, <2>6, <2>8 DEF End
    <3>2. At(t, q) = "eol" /\ q <= Len(t)
      BY <2>3, <2>5, <2>8, <3>1, BegunAt
    <3>3. q \in B
      BY <1>0, <2>3, <2>5, <3>2
    <3>4. k <= q
      BY <2>6, <3>3
    <3>5. k <= Len(u) /\ k >= 1
      BY <1>0, <2>3, <2>5, <2>8, <3>4
    <3>6. At(t, k) = "eol"
      BY <1>0, <2>5, <2>6, <3>5 DEF End
    <3>7. At(u, k) = "eol"
      BY <2>5, <3>5, <3>6, BegunAt
    <3>8. k \in A
      BY <1>0, <2>3, <2>5, <3>5, <3>7
    <3>9. q = k
      <4>1. q <= k
        BY <2>6, <3>8
      <4> QED BY <2>5, <3>4, <4>1
    <3> QED BY <2>4, <3>9 DEF Same
  <2> QED BY <1>0, <2>5, <2>7, <2>8
<1> QED BY <1>1, <1>2

(* The comment.                                                             *)
LEMMA InCommentBegun ==
  ASSUME NEW u, NEW t, Begun(u, t)
  PROVE  \A s \in Cursor : Same(u, InComment(u)[s], InComment(t)[s])
<1> DEFINE T == {s \in Cursor : Same(u, InComment(u)[s], InComment(t)[s])}
<1>0. IsText(u) /\ IsText(t) /\ Len(u) \in Nat /\ Len(t) \in Nat /\ Len(u) <= Len(t)
  BY DEF Begun, IsText
<1>1. ASSUME NEW s \in Cursor, \A y \in Cursor : RestOf(u)[y] < RestOf(u)[s] => y \in T
      PROVE  s \in T
  <2> DEFINE star == Find(u, s.p + 2, "*")
             a == InComment(u)[s]
             b == InComment(t)[s]
  <2>1. s.p \in Nat /\ s.p >= 1 /\ s.p + 1 \in Nat /\ s.p + 2 \in Nat /\ s.p + 2 >= 1
    BY CursorFields
  <2>2. a = AtStar(u, InComment(u), s) /\ b = AtStar(t, InComment(t), s)
    BY <1>0, InCommentIs
  <2>3. star \in Nat /\ (star # 0 => star >= s.p + 2 /\ star <= Len(u))
    BY <1>0, <2>1, Found
  <2> HIDE DEF star, a, b
  <2>4. CASE At(u, s.p + 1) = "/"
    <3>1. At(u, s.p + 1) # "nul"
      BY <2>4
    <3>2. s.p + 1 <= Len(u) /\ s.p + 1 >= 1
      BY <1>0, <2>1, <3>1, AtInText
    <3>3. At(t, s.p + 1) = "/"
      BY <2>1, <2>4, <3>2, BegunAt
    <3>4. a = Goto(s, s.p + 2) /\ b = Goto(s, s.p + 2)
      BY <2>2, <2>4, <3>3, Zenon DEF AtStar
    <3>5. Same(u, a, b)
      BY <3>4 DEF Same
    <3> QED BY <3>5 DEF a, b
  <2>5. CASE At(u, s.p + 1) # "/" /\ (star = 0 \/ star >= Len(u))
    <3>1. a = Looked(Error(s, 4), star = 0)
      BY <2>2, <2>5, Zenon DEF AtStar, star
    <3>2. a.errs # {}
      <4>1. Error(s, 4) \in Cursor /\ Error(s, 4).errs # {} /\ (star = 0) \in BOOLEAN
        BY ErrorFields, ErrorIsLost
      <4> QED BY <3>1, <4>1, LookedFields
    <3>3. Same(u, a, b)
      BY <3>2 DEF Same, Lost
    <3> QED BY <3>3 DEF a, b
  <2>6. CASE At(u, s.p + 1) # "/" /\ ~(star = 0 \/ star >= Len(u))
    <3> DEFINE r == Goto(s, star)
    <3>1. s.p + 1 <= Len(u) /\ star > s.p /\ s.p <= Len(u) /\ star \in Nat \ {0}
      BY <1>0, <2>1, <2>3, <2>6
    <3>2. At(t, s.p + 1) # "/"
      BY <2>1, <2>6, <3>1, BegunAt
    <3>3. Find(t, s.p + 2, "*") = star
      <4>1. star # 0
        BY <2>6
      <4> QED BY <2>1, <4>1, FoundBegun DEF star
    <3>4. ~(star = 0 \/ star >= Len(t))
      BY <1>0, <2>3, <2>6
    <3>5. a = InComment(u)[r]
      BY <2>2, <2>6, Zenon DEF AtStar, star
    <3>6. b = InComment(t)[r]
      BY <2>2, <3>2, <3>3, <3>4, Zenon DEF AtStar
    <3>7. r \in Cursor /\ r.p = star
      BY <3>1, GotoFields
    <3> HIDE DEF r
    <3>8. r \in T
      <4>1. RestOf(u)[r] < RestOf(u)[s]
        BY <1>0, <3>1, <3>7, RestShrinks
      <4> HIDE DEF T
      <4> QED BY <1>1, <3>7, <4>1
    <3>9. Same(u, a, b)
      BY <3>5, <3>6, <3>8
    <3> QED BY <3>9 DEF a, b
  <2> QED BY <2>4, <2>5, <2>6
<1> HIDE DEF T
<1>2. \A s \in Cursor : s \in T
  <2>1. RestOf(u) \in [Cursor -> Nat]
    BY <1>0, RestShrinks
  <2> QED BY <1>1, <2>1, Descent
<1> QED BY <1>2 DEF T

(* A round of skipWS.                                                       *)
LEMMA SkipOnceBegun ==
  ASSUME NEW u, NEW t, Begun(u, t), NEW s \in Cursor, ~Lost(u, s)
  PROVE  Same(u, SkipOnce(u, s), SkipOnce(t, s))
<1> DEFINE a == SkipSpace(u, s)
           b == SkipLine(u, a)
           c == SkipComment(u, b)
<1>0. IsText(u) /\ IsText(t)
  BY DEF Begun
<1>1. a = SkipSpace(t, s) /\ a \in Cursor
  BY <1>0, SkipSpaceBegun, SkipSpaceOnward DEF Onward
<1>2. SkipOnce(u, s) = c /\ SkipOnce(t, s) = SkipComment(t, SkipLine(t, a))
  BY <1>1 DEF SkipOnce
<1> HIDE DEF a
<1>3. Onward(u, a, b) /\ b \in Cursor
  BY <1>0, <1>1, SkipLineOnward DEF Onward
<1> HIDE DEF b
<1>4. Onward(u, b, c)
  <2>1. CASE Begins(u, b.p, "*")
    BY <1>0, <1>3, <2>1, InCommentOnward DEF SkipComment
  <2>2. CASE ~Begins(u, b.p, "*")
    BY <1>3, <2>2, OnwardStays DEF SkipComment
  <2> QED BY <2>1, <2>2
<1> HIDE DEF c
<1>5. CASE Lost(u, b)
  <2>1. Lost(u, c)
    BY <1>0, <1>3, <1>4, <1>5, LostStays
  <2> QED BY <1>2, <2>1 DEF Same
<1>6. CASE ~Lost(u, b)
  <2>1. ~Lost(u, a)
    BY <1>0, <1>1, <1>3, <1>6, LostStays
  <2>2. b = SkipLine(t, a)
    BY <1>1, <1>6, <2>1, SkipLineBegun DEF Same, b
  <2>3. Begins(u, b.p, "*") <=> Begins(t, b.p, "*")
    BY <1>3, <1>6, BeginsBegun
  <2>4. CASE Begins(u, b.p, "*")
    <3>1. c = InComment(u)[b] /\ SkipComment(t, b) = InComment(t)[b]
      BY <2>3, <2>4 DEF SkipComment, c
    <3> QED BY <1>2, <1>3, <2>2, <3>1, InCommentBegun
  <2>5. CASE ~Begins(u, b.p, "*")
    <3>1. c = b /\ SkipComment(t, b) = b
      BY <2>3, <2>5 DEF SkipComment, c
    <3> QED BY <1>2, <2>2, <3>1 DEF Same
  <2> QED BY <2>4, <2>5
<1> QED BY <1>5, <1>6

(* skipWS.                                                                  *)
LEMMA SkipWSBegun ==
  ASSUME NEW u, NEW t, Begun(u, t)
  PROVE  \A s \in Cursor : ~Lost(u, s) => Same(u, SkipWS(u, s), SkipWS(t, s))
<1> DEFINE T == {s \in Cursor : ~Lost(u, s) => Same(u, SkipWS(u, s), SkipWS(t, s))}
<1>0. IsText(u) /\ IsText(t) /\ Len(u) \in Nat /\ Len(t) \in Nat
  BY DEF Begun, IsText
<1>1. ASSUME NEW s \in Cursor, \A y \in Cursor : RestOf(u)[y] < RestOf(u)[s] => y \in T
      PROVE  s \in T
  <2> SUFFICES ASSUME ~Lost(u, s) PROVE Same(u, SkipWS(u, s), SkipWS(t, s))
    OBVIOUS
  <2> DEFINE a == SkipOnce(u, s)
             b == SkipOnce(t, s)
  <2>1. Same(u, a, b)
    BY SkipOnceBegun
  <2>2. Onward(u, s, a) /\ a \in Cursor /\ a.p \in Nat /\ a.p >= s.p /\ s.p \in Nat
    <3>1. Onward(u, s, a) /\ a \in Cursor
      BY <1>0, SkipOnceOnward DEF Onward
    <3> QED BY <3>1 DEF Onward, Cursor
  <2>3. SkipWS(u, s) = IF a.p = s.p \/ a.p > Len(u) THEN a ELSE SkipWS(u, a)
    BY <1>0, SkippingIs DEF SkipWS, SkipOn
  <2>4. SkipWS(t, s) = IF b.p = s.p \/ b.p > Len(t) THEN b ELSE SkipWS(t, b)
    BY <1>0, SkippingIs DEF SkipWS, SkipOn
  <2> HIDE DEF a, b
  <2>5. CASE Lost(u, a)
    <3>1. Onward(u, a, SkipWS(u, a)) /\ Onward(u, a, a)
      BY <1>0, <2>2, SkipWSOnward, OnwardStays
    <3>2. Lost(u, SkipWS(u, a))
      BY <1>0, <2>2, <2>5, <3>1, LostStays
    <3>3. Lost(u, SkipWS(u, s))
      BY <2>3, <2>5, <3>2
    <3> QED BY <3>3 DEF Same
  <2>6. CASE ~Lost(u, a)
    <3>1. a = b
      BY <2>1, <2>6 DEF Same
    <3>2. a.p <= Len(u) /\ a.p <= Len(t)
      BY <2>2, <2>6, NotLost
    <3>3. CASE a.p = s.p
      <4>1. SkipWS(u, s) = a /\ SkipWS(t, s) = a
        BY <2>3, <2>4, <3>1, <3>3
      <4> QED BY <4>1 DEF Same
    <3>4. CASE a.p # s.p
      <4>1. SkipWS(u, s) = SkipWS(u, a) /\ SkipWS(t, s) = SkipWS(t, a)
        BY <1>0, <2>2, <2>3, <2>4, <3>1, <3>2, <3>4
      <4>2. a.p > s.p /\ s.p <= Len(u)
        BY <1>0, <2>2, <3>2, <3>4
      <4>3. a \in T
        <5>1. RestOf(u)[a] < RestOf(u)[s]
          BY <1>0, <2>2, <4>2, RestShrinks
        <5> HIDE DEF T
        <5> QED BY <1>1, <2>2, <5>1
      <4> QED BY <2>6, <4>1, <4>3
    <3> QED BY <3>3, <3>4
  <2> QED BY <2>5, <2>6
<1> HIDE DEF T
<1>2. \A s \in Cursor : s \in T
  <2>1. RestOf(u) \in [Cursor -> Nat]
    BY <1>0, RestShrinks
  <2> QED BY <1>1, <2>1, Descent
<1> QED BY <1>2 DEF T

(* The end of a string is the same, and it is in u.                         *)
SameEnd(u, e, d) == Lost(u, e.s) \/ (e = d /\ e.end <= Len(u))
LEMMA StringEndBegun ==
  ASSUME NEW u, NEW t, Begun(u, t)
  PROVE  \A s \in Cursor : s.p >= 2 => SameEnd(u, StringEnd(u)[s], StringEnd(t)[s])
<1> DEFINE T == {s \in Cursor : s.p >= 2 => SameEnd(u, StringEnd(u)[s], StringEnd(t)[s])}
<1>0. IsText(u) /\ IsText(t) /\ Len(u) \in Nat /\ Len(t) \in Nat /\ Len(u) <= Len(t)
  BY DEF Begun, IsText
<1>1. ASSUME NEW s \in Cursor, \A y \in Cursor : RestOf(u)[y] < RestOf(u)[s] => y \in T
      PROVE  s \in T
  <2> SUFFICES ASSUME s.p >= 2 PROVE SameEnd(u, StringEnd(u)[s], StringEnd(t)[s])
    OBVIOUS
  <2> DEFINE quote == Find(u, s.p, "quote")
             e == StringEnd(u)[s]
             d == StringEnd(t)[s]
             r == Goto(s, quote + 1)
  <2>1. s.p \in Nat /\ s.p >= 1
    BY CursorFields
  <2>2. e = AtQuote(u, StringEnd(u), s) /\ d = AtQuote(t, StringEnd(t), s)
    BY <1>0, StringEndIs
  <2>3. quote \in Nat /\ (quote # 0 => quote >= s.p /\ quote <= Len(u))
    BY <1>0, <2>1, Found
  <2>4. quote # 0 => Find(t, s.p, "quote") = quote
    BY <2>1, FoundBegun
  <2> HIDE DEF quote, e, d
  <2>5. quote + 1 \in Nat \ {0} /\ r \in Cursor /\ r.p = quote + 1
    <3>1. quote + 1 \in Nat \ {0}
      BY <2>3
    <3> QED BY <3>1, GotoFields
  <2>6. CASE quote = 0
    <3>1. e = [end |-> End(u), s |-> Error(s, 1)]
      BY <2>2, <2>6, Zenon DEF AtQuote, quote
    <3>0. End(u) \in Nat
      BY <1>0 DEF End
    <3>2. End(u) \in Nat /\ Error(s, 1) \in Cursor /\ Lost(u, Error(s, 1))
      BY <3>0, ErrorFields, ErrorIsLost
    <3>3. e.s = Error(s, 1)
      BY <3>1, <3>2, EndFields
    <3>4. SameEnd(u, e, d)
      BY <3>2, <3>3 DEF SameEnd
    <3> QED BY <3>4 DEF e, d
  <2>7. CASE quote # 0 /\ (quote = Len(u) \/ u[quote - 1] # "bslash")
    <3> HIDE DEF r
    <3>1. e = [end |-> quote, s |-> r]
      BY <2>2, <2>7, Zenon DEF AtQuote, quote, r
    <3>2. e.s = r /\ e.end = quote
      BY <2>3, <2>5, <3>1, EndFields
    <3>3. CASE quote = Len(u)
      <4>1. r.p > Len(u)
        BY <1>0, <2>5, <3>3
      <4>2. SameEnd(u, e, d)
        BY <3>2, <4>1 DEF SameEnd, Lost
      <4> QED BY <4>2 DEF e, d
    <3>4. CASE quote # Len(u)
      <4>1. quote - 1 \in Nat /\ quote - 1 >= 1 /\ quote - 1 <= Len(u) /\ quote <= Len(u)
        BY <1>0, <2>1, <2>3, <2>7
      <4>2. t[quote - 1] # "bslash"
        BY <2>7, <3>4, <4>1, BegunAt
      <4>3. d = [end |-> quote, s |-> r]
        BY <2>2, <2>4, <2>7, <4>2, Zenon DEF AtQuote, r
      <4>4. SameEnd(u, e, d)
        BY <3>1, <3>2, <4>1, <4>3 DEF SameEnd
      <4> QED BY <4>4 DEF e, d
    <3> QED BY <3>3, <3>4
  <2>8. CASE quote # 0 /\ ~(quote = Len(u) \/ u[quote - 1] # "bslash")
    <3> HIDE DEF r
    <3>1. e = StringEnd(u)[r]
      BY <2>2, <2>8, Zenon DEF AtQuote, quote, r
    <3>2. /\ quote - 1 \in Nat /\ quote - 1 >= 1 /\ quote - 1 <= Len(u)
          /\ quote # Len(t) /\ r.p > s.p /\ s.p <= Len(u) /\ r.p >= 2
      BY <1>0, <2>1, <2>3, <2>5, <2>8
    <3>3. t[quote - 1] = "bslash"
      BY <2>8, <3>2, BegunAt
    <3>4. d = StringEnd(t)[r]
      <4>1. quote # 0 /\ ~(quote = Len(t) \/ t[quote - 1] # "bslash")
        BY <2>8, <3>2, <3>3
      <4> QED BY <2>2, <2>4, <4>1, Zenon DEF AtQuote, r
    <3>5. r \in T
      <4>1. RestOf(u)[r] < RestOf(u)[s]
        BY <1>0, <2>5, <3>2, RestShrinks
      <4> HIDE DEF T
      <4> QED BY <1>1, <2>5, <4>1
    <3>6. SameEnd(u, e, d)
      BY <3>1, <3>2, <3>4, <3>5
    <3> QED BY <3>6 DEF e, d
  <2> QED BY <2>6, <2>7, <2>8
<1> HIDE DEF T
<1>2. \A s \in Cursor : s \in T
  <2>1. RestOf(u) \in [Cursor -> Nat]
    BY <1>0, RestShrinks
  <2> QED BY <1>1, <2>1, Descent
<1> QED BY <1>2 DEF T

(* A part of u is one of t.                                                 *)
LEMMA SubSeqBegun ==
  ASSUME NEW u, NEW t, Begun(u, t), NEW a \in Nat, a >= 1, NEW b \in Int, b <= Len(u)
  PROVE  SubSeq(u, a, b) = SubSeq(t, a, b)
<1>1. \A i \in 1 .. (1 + b - a) : a + i - 1 \in 1 .. Len(u) /\ u[a + i - 1] = t[a + i - 1]
  <2>1. Len(u) \in Nat
    BY DEF Begun, IsText
  <2>2. \A i \in 1 .. (1 + b - a) : a + i - 1 \in 1 .. Len(u)
    BY <2>1
  <2> QED BY <2>2 DEF Begun
<1>2. SubSeq(u, a, b) = [i \in 1 .. (1 + b - a) |-> u[a + i - 1]]
  OBVIOUS
<1>3. SubSeq(t, a, b) = [i \in 1 .. (1 + b - a) |-> t[a + i - 1]]
  OBVIOUS
<1> QED BY <1>1, <1>2, <1>3

(* A piece of a string that ends in u.                                      *)
LEMMA PieceBegun ==
  ASSUME NEW u, NEW t, Begun(u, t), NEW end \in Nat, end <= Len(u),
         NEW i \in Nat, i >= 1, i < end
  PROVE  PieceAt(u, i, end) = PieceAt(t, i, end)
<1>0. Len(u) \in Nat
  BY DEF Begun, IsText
<1>1. u[i] = t[i] /\ At(u, i + 1) = At(t, i + 1)
  <2>1. i <= Len(u) /\ i + 1 \in Nat /\ i + 1 >= 1 /\ i + 1 <= Len(u)
    BY <1>0
  <2> QED BY <2>1, BegunAt
<1> DEFINE c == At(u, i + 1)
<1>2. CASE c = "x" /\ end - (i + 2) >= 2
  <2>1. /\ i + 2 \in Nat /\ i + 2 >= 1 /\ i + 2 <= Len(u)
        /\ i + 3 \in Nat /\ i + 3 >= 1 /\ i + 3 <= Len(u)
    BY <1>0, <1>2
  <2>2. u[i + 2] = t[i + 2] /\ u[i + 3] = t[i + 3]
    BY <2>1, BegunAt
  <2>3. Escaped(u, i, end, c) = Coded(4, ReadHexCode(u[i + 2], u[i + 3]), 2)
    BY <1>2 DEF Escaped
  <2>4. Escaped(t, i, end, c) = Coded(4, ReadHexCode(t[i + 2], t[i + 3]), 2)
    BY <1>2 DEF Escaped
  <2>5. Escaped(u, i, end, c) = Escaped(t, i, end, c)
    BY <2>2, <2>3, <2>4
  <2> QED BY <1>1, <2>5, Zenon DEF PieceAt
<1>3. CASE c = "u" /\ end - (i + 2) >= 4
  <2>1. i + 2 \in Nat /\ i + 2 >= 1 /\ i + 5 \in Int /\ i + 5 <= Len(u)
    BY <1>0, <1>3
  <2>2. SubSeq(u, i + 2, i + 5) = SubSeq(t, i + 2, i + 5)
    BY <2>1, SubSeqBegun
  <2>3. Escaped(u, i, end, c) = Coded(6, ReadHexQuad(SubSeq(u, i + 2, i + 5)), 3)
    BY <1>3 DEF Escaped
  <2>4. Escaped(t, i, end, c) = Coded(6, ReadHexQuad(SubSeq(t, i + 2, i + 5)), 3)
    BY <1>3 DEF Escaped
  <2>5. Escaped(u, i, end, c) = Escaped(t, i, end, c)
    BY <2>2, <2>3, <2>4
  <2> QED BY <1>1, <2>5, Zenon DEF PieceAt
<1>4. CASE ~(c = "x" /\ end - (i + 2) >= 2) /\ ~(c = "u" /\ end - (i + 2) >= 4)
  <2>1. Escaped(u, i, end, c) = Escaped(t, i, end, c)
    BY <1>4, Zenon DEF Escaped
  <2> QED BY <1>1, <2>1, Zenon DEF PieceAt
<1> QED BY <1>2, <1>3, <1>4

(* The escapes of a string that ends in u.                                  *)
LEMMA EscapesBegun ==
  ASSUME NEW u, NEW t, Begun(u, t), NEW end \in Nat, end <= Len(u)
  PROVE  \A i \in 1 .. (end + 1) : ParseEscapes(u, end)[i] = ParseEscapes(t, end)[i]
<1> DEFINE S == 1 .. (end + 1)
           m == [i \in S |-> end + 1 - i]
           e == ParseEscapes(u, end)
           d == ParseEscapes(t, end)
           T == {i \in S : e[i] = d[i]}
<1>0. IsText(u) /\ IsText(t) /\ end <= Len(u) + 1 /\ end <= Len(t) + 1 /\ Len(u) \in Nat
  BY DEF Begun, IsText
<1>1. m \in [S -> Nat] /\ \A i, k \in S : k > i => m[k] < m[i]
  OBVIOUS
<1>2. ASSUME NEW i \in S, \A k \in S : m[k] < m[i] => k \in T PROVE i \in T
  <2>1. \A k \in S : k > i => e[k] = d[k]
    BY <1>1, <1>2
  <2>2. e[i] = Unescaped(u, end, e, i) /\ d[i] = Unescaped(t, end, d, i)
    BY <1>0, ParseEscapesIs
  <2> HIDE DEF e, d
  <2>3. Unescaped(t, end, d, i) = Unescaped(t, end, e, i)
    <3>1. \A k \in S : k > i => d[k] = e[k]
      BY <2>1
    <3> QED BY <1>0, <3>1, UnescapedLocal
  <2>4. Unescaped(u, end, e, i) = Unescaped(t, end, e, i)
    <3>1. CASE i >= end
      BY <3>1, Zenon DEF Unescaped
    <3>2. CASE ~(i >= end)
      <4>1. PieceAt(u, i, end) = PieceAt(t, i, end)
        BY <3>2, PieceBegun
      <4> QED BY <4>1, Zenon DEF Unescaped
    <3> QED BY <3>1, <3>2
  <2> QED BY <2>2, <2>3, <2>4
<1> HIDE DEF m, T
<1>3. \A i \in S : i \in T
  <2> HIDE DEF S
  <2> QED BY <1>1, <1>2, Descent
<1> QED BY <1>3 DEF T

(* What a function returns is the same, or lost in u.                       *)
SameResult(u, a, b) == a = b \/ Lost(u, a.s)

(* The text of a string whose end is the same.                              *)
LEMMA TextBegun ==
  ASSUME NEW u, NEW t, Begun(u, t), NEW e, NEW d, SameEnd(u, e, d),
         e.s \in Cursor, e.end \in Nat, e.end <= Len(u) + 1, NEW from \in Nat, from >= 1, from <= e.end
  PROVE  SameResult(u, Text(u, from, e), Text(t, from, d))
<1> DEFINE str == ParseEscapes(u, e.end)[from]
<1>0. IsText(u) /\ from \in 1 .. (e.end + 1)
  BY DEF Begun
<1>1. CASE Lost(u, e.s)
  <2>1. str \in Strings
    BY <1>0, ParseEscapesReads
  <2>2. Text(u, from, e) = ReturnText(e.s, str)
    BY DEF Text
  <2> HIDE DEF str
  <2>3. Text(u, from, e).s.p = e.s.p /\ Text(u, from, e).s.errs = e.s.errs \cup str.errs
    BY <2>1, <2>2, ReturnTextFields
  <2>4. Lost(u, Text(u, from, e).s)
    BY <1>1, <2>3 DEF Lost
  <2> QED BY <2>4 DEF SameResult
<1>2. CASE e = d /\ e.end <= Len(u)
  <2>1. str = ParseEscapes(t, e.end)[from]
    BY <1>0, <1>2, EscapesBegun
  <2> QED BY <1>2, <2>1 DEF Text, SameResult
<1> QED BY <1>1, <1>2 DEF SameEnd

(* A string.                                                                *)
LEMMA ReadStringBegun ==
  ASSUME NEW u, NEW t, Begun(u, t), NEW s \in Cursor, ~Lost(u, s)
  PROVE  SameResult(u, ReadString(u, s), ReadString(t, s))
<1> DEFINE q == Forward(s)
           e == StringEnd(u)[q]
           d == StringEnd(t)[q]
<1>0. IsText(u) /\ Len(u) \in Nat /\ s.p \in Nat /\ s.p >= 1 /\ s.p <= Len(u)
  BY NotLost DEF Begun, IsText
<1>1. q \in Cursor /\ q.p = s.p + 1
  <2>1. s.p + 1 \in Nat \ {0}
    BY <1>0
  <2> QED BY <2>1, GotoFields DEF Forward
<1>2. ReadString(u, s) = Text(u, s.p + 1, e) /\ ReadString(t, s) = Text(t, s.p + 1, d)
  BY DEF ReadString
<1> HIDE DEF q
<1>3. q.p >= 2 /\ q.p <= Len(u) + 1 /\ s.p + 1 \in Nat /\ s.p + 1 >= 1
  BY <1>0, <1>1
<1>4. SameEnd(u, e, d)
  BY <1>1, <1>3, StringEndBegun
<1>5. EndsWell(u, q, e)
  BY <1>0, <1>1, <1>3, StringEndEnds
<1> HIDE DEF e, d
<1>6. e.s \in Cursor /\ e.end \in Nat /\ e.end <= Len(u) + 1 /\ s.p + 1 <= e.end
  BY <1>1, <1>5 DEF EndsWell, Onward
<1> QED BY <1>2, <1>3, <1>4, <1>6, TextBegun

(* The end of an unquoted name, or of a number.                             *)
FirstOf(t, p, C) == Min({i \in p .. End(t) : At(t, i) \in C})
LEMMA FirstBegun ==
  ASSUME NEW u, NEW t, Begun(u, t), NEW p \in Nat, p >= 1, p <= Len(u), NEW C, "nul" \in C
  PROVE  LET a == FirstOf(u, p, C)
         IN  a \in Nat /\ a >= p /\ a <= Len(u) + 1 /\ (a <= Len(u) => a = FirstOf(t, p, C))
<1> DEFINE B == {i \in p .. End(t) : At(t, i) \in C}
           A == {i \in p .. End(u) : At(u, i) \in C}
           a == Min(A)
           b == Min(B)
<1>0. IsText(u) /\ IsText(t) /\ Len(u) \in Nat /\ Len(t) \in Nat /\ Len(u) <= Len(t)
      /\ p <= Len(u) + 1 /\ p <= Len(t) + 1
  BY DEF Begun, IsText
<1>1. a \in Nat /\ a >= p /\ a <= Len(u) + 1 /\ At(u, a) \in C
  BY <1>0, FirstInText
<1>2. b \in Nat /\ b >= p /\ b <= Len(t) + 1 /\ At(t, b) \in C
  BY <1>0, FirstInText
<1> HIDE DEF a, b
<1>3. ASSUME a <= Len(u) PROVE a = b
  <2>1. At(t, a) \in C
    BY <1>1, <1>3, BegunAt
  <2>2. A \in SUBSET Nat /\ B \in SUBSET Nat /\ a \in B
    BY <1>0, <1>1, <1>3, <2>1 DEF End
  <2>3. b <= a
    <3> HIDE DEF B
    <3> QED BY <2>2, MinOf DEF b
  <2>4. At(u, b) \in C
    <3>1. b >= 1 /\ b <= Len(u)
      BY <1>0, <1>1, <1>2, <1>3, <2>3
    <3> QED BY <1>2, <3>1, BegunAt
  <2>5. b \in A
    BY <1>0, <1>1, <1>2, <1>3, <2>3, <2>4 DEF End
  <2>6. a <= b
    <3> HIDE DEF A
    <3> QED BY <2>2, <2>5, MinOf DEF a
  <2> QED BY <1>1, <1>2, <2>3, <2>6
<1>4. FirstOf(u, p, C) = a /\ FirstOf(t, p, C) = b
  BY DEF FirstOf, a, b
<1> QED BY <1>1, <1>3, <1>4

(* An unquoted name.                                                        *)
LEMMA ReadUnquotedBegun ==
  ASSUME NEW u, NEW t, Begun(u, t), NEW s \in Cursor, ~Lost(u, s)
  PROVE  SameResult(u, ReadUnquotedString(u, s), ReadUnquotedString(t, s))
<1> DEFINE C == White \cup {":", "nul"}
           a == FirstOf(u, s.p, C)
           b == FirstOf(t, s.p, C)
           q == Goto(s, IF At(u, a) \in White THEN a + 1 ELSE a)
           r == Goto(s, IF At(t, b) \in White THEN b + 1 ELSE b)
           e == [end |-> a, s |-> q]
           d == [end |-> b, s |-> r]
<1>0. /\ s.p \in Nat /\ s.p >= 1 /\ s.p <= Len(u) /\ Len(u) \in Nat /\ IsText(u)
      /\ "nul" \in C /\ "nul" \notin White
  BY NotLost DEF Begun, IsText, White
<1>1. ReadUnquotedString(u, s) = Text(u, s.p, e) /\ ReadUnquotedString(t, s) = Text(t, s.p, d)
  BY DEF ReadUnquotedString, Unquoted, FirstOf
<1>2. a \in Nat /\ a >= s.p /\ a <= Len(u) + 1 /\ (a <= Len(u) => a = b)
  <2> HIDE DEF C
  <2> QED BY <1>0, FirstBegun
<1> HIDE DEF a, b, C
<1>3. q \in Cursor /\ q.p >= a
  <2>1. a \in Nat \ {0} /\ a + 1 \in Nat \ {0} /\ a + 1 >= a
    BY <1>0, <1>2
  <2> QED BY <2>1, GotoFields
<1> HIDE DEF q, r
<1>4. e.s = q /\ e.end = a /\ d.s = r /\ d.end = b
  OBVIOUS
<1>5. SameEnd(u, e, d)
  <2>1. CASE a <= Len(u)
    <3>1. a = b /\ a >= 1
      BY <1>0, <1>2, <2>1
    <3>2. At(u, a) = At(t, a)
      BY <1>2, <2>1, <3>1, BegunAt
    <3>3. q = r
      BY <3>1, <3>2 DEF q, r
    <3> QED BY <1>4, <2>1, <3>1, <3>3 DEF SameEnd
  <2>2. CASE ~(a <= Len(u))
    <3>1. q.p > Len(u)
      <4>1. q.p \in Nat
        BY <1>3, CursorFields
      <4> QED BY <1>0, <1>2, <1>3, <2>2, <4>1
    <3> QED BY <1>4, <3>1 DEF SameEnd, Lost
  <2> QED BY <2>1, <2>2
<1> HIDE DEF e, d
<1>6. e.s \in Cursor /\ e.end \in Nat /\ e.end <= Len(u) + 1 /\ s.p <= e.end
  BY <1>2, <1>3, <1>4
<1> QED BY <1>0, <1>1, <1>5, <1>6, TextBegun

(* A symbol of the text or its end is a symbol.                             *)
LEMMA AtSymbol ==
  ASSUME NEW t, IsText(t), NEW p \in Nat
  PROVE  At(t, p) \in Symbol
<1>1. "nul" \in Symbol
  BY DEF Symbol
<1>2. \A i \in 1 .. Len(t) : t[i] \in Symbol
  BY DEF IsText
<1> QED BY <1>1, <1>2 DEF At, IsText

(* A number.                                                                *)
LEMMA ReadNumBegun ==
  ASSUME NEW u, NEW t, Begun(u, t), NEW s \in Cursor, ~Lost(u, s)
  PROVE  SameResult(u, ReadNum(u, s), ReadNum(t, s))
<1> DEFINE C == Symbol \ Numeric
           a == FirstOf(u, s.p, C)
           b == FirstOf(t, s.p, C)
<1>0. /\ s.p \in Nat /\ s.p >= 1 /\ s.p <= Len(u) /\ Len(u) \in Nat /\ IsText(u) /\ IsText(t)
      /\ Len(t) \in Nat
  BY NotLost DEF Begun, IsText
<1>1. ReadNum(u, s) = Number(u, s, a) /\ ReadNum(t, s) = Number(t, s, b)
  <2>1. \A i \in Nat : At(u, i) \in Symbol /\ At(t, i) \in Symbol
    BY <1>0, AtSymbol
  <2>2. {i \in s.p .. End(u) : At(u, i) \notin Numeric} = {i \in s.p .. End(u) : At(u, i) \in C}
    BY <1>0, <2>1 DEF End
  <2>3. {i \in s.p .. End(t) : At(t, i) \notin Numeric} = {i \in s.p .. End(t) : At(t, i) \in C}
    BY <1>0, <2>1 DEF End
  <2> QED BY <2>2, <2>3 DEF ReadNum, FirstOf
<1>2. a \in Nat /\ a >= s.p /\ a <= Len(u) + 1 /\ (a <= Len(u) => a = b)
  <2>1. "nul" \in C
    BY DEF Symbol, Numeric
  <2> HIDE DEF C
  <2> QED BY <1>0, <2>1, FirstBegun
<1> HIDE DEF a, b
<1>3. CASE a <= Len(u)
  <2>1. a - 1 \in Int /\ a - 1 <= Len(u)
    BY <1>0, <1>2, <1>3
  <2>2. SubSeq(u, s.p, a - 1) = SubSeq(t, s.p, a - 1)
    BY <1>0, <2>1, SubSeqBegun
  <2>3. a = b
    BY <1>2, <1>3
  <2> QED BY <1>1, <2>2, <2>3 DEF Number, SameResult
<1>4. CASE ~(a <= Len(u))
  <2>1. a \in Nat \ {0} /\ a > Len(u)
    BY <1>0, <1>2, <1>4
  <2>2. Goto(s, a).p > Len(u)
    BY <2>1, GotoFields
  <2>3. ReadNum(u, s).s = Goto(s, a)
    BY <1>1, ReturnFields DEF Number
  <2> QED BY <2>2, <2>3 DEF SameResult, Lost
<1> QED BY <1>3, <1>4

(* A name of a member.                                                      *)
LEMMA ReadNameBegun ==
  ASSUME NEW u, NEW t, Begun(u, t), NEW s \in Cursor, ~Lost(u, s)
  PROVE  SameResult(u, ReadName(u, s), ReadName(t, s))
<1>0. /\ At(u, s.p) = At(t, s.p) /\ IsText(u) /\ IsText(t) /\ s.p <= Len(u)
      /\ Len(u) \in Nat /\ Len(t) \in Nat
  BY NotLost DEF Begun, IsText
<1>1. ASSUME NEW a, NEW b, SameResult(u, a, b), a.s \in Cursor
      PROVE  SameResult(u, NotEmpty(u, a), NotEmpty(t, b))
  <2>1. CASE Lost(u, a.s)
    <3>1. CASE NotEmpty(u, a) = a
      BY <2>1, <3>1 DEF SameResult
    <3>2. CASE NotEmpty(u, a) = Anonymous(a.s, 7)
      <4>1. Anonymous(a.s, 7).s = Error(a.s, 7)
        BY DEF Anonymous
      <4>2. Lost(u, Error(a.s, 7))
        BY <1>1, ErrorIsLost
      <4> QED BY <3>2, <4>1, <4>2 DEF SameResult
    <3> QED BY <3>1, <3>2 DEF NotEmpty
  <2>2. CASE a = b /\ ~Lost(u, a.s)
    <3>1. a.s.p \in Nat /\ a.s.p <= Len(u) /\ a.s.p <= Len(t)
      BY <1>1, <2>2, NotLost
    <3>2. a.s.p # End(u) /\ a.s.p # End(t)
      BY <1>0, <3>1 DEF End
    <3> QED BY <2>2, <3>2 DEF NotEmpty, SameResult
  <2> QED BY <1>1, <2>1, <2>2 DEF SameResult
<1>2. CASE At(u, s.p) = ":"
  <2>1. ReadName(u, s) = Anonymous(s, 6) /\ ReadName(t, s) = Anonymous(s, 6)
    BY <1>0, <1>2 DEF ReadName
  <2> QED BY <2>1 DEF SameResult
<1>3. CASE At(u, s.p) = "quote"
  <2>1. ReadName(u, s) = NotEmpty(u, ReadString(u, s)) /\ ReadName(t, s) = NotEmpty(t, ReadString(t, s))
    BY <1>0, <1>3 DEF ReadName
  <2>2. ReadString(u, s).s \in Cursor
    BY <1>0, <1>3, ReadStringOnward DEF Onward
  <2> QED BY <1>1, <2>1, <2>2, ReadStringBegun
<1>4. CASE At(u, s.p) \notin {":", "quote"}
  <2>1. ReadName(u, s) = NotEmpty(u, ReadUnquotedString(u, s))
        /\ ReadName(t, s) = NotEmpty(t, ReadUnquotedString(t, s))
    BY <1>0, <1>4 DEF ReadName
  <2>2. ReadUnquotedString(u, s).s \in Cursor
    BY <1>0, ReadUnquotedOnward DEF Onward
  <2> QED BY <1>1, <2>1, <2>2, ReadUnquotedBegun
<1> QED BY <1>2, <1>3, <1>4

(* Whether a container is over, and how it ends.                            *)
LEMMA EndedBegun ==
  ASSUME NEW u, NEW t, Begun(u, t), NEW s \in Cursor, ~Lost(u, s), NEW part
  PROVE  /\ Over(u, s, part) <=> Over(t, s, part)
         /\ Ended(u, s) = Ended(t, s) /\ Ended(u, s).s.p <= Len(u) + 1
<1>1. /\ s.p \in Nat /\ s.p <= Len(u) /\ s.p <= Len(t) /\ At(u, s.p) = At(t, s.p)
      /\ Len(u) \in Nat /\ Len(t) \in Nat
  BY NotLost DEF Begun, IsText
<1>2. ~(s.p >= End(u)) /\ ~(s.p >= End(t))
  BY <1>1 DEF End
<1>3. Over(u, s, part) <=> Over(t, s, part)
  BY <1>1, <1>2, Zenon DEF Over
<1>4. Ended(u, s) = Return(Forward(s), <<>>) /\ Ended(t, s) = Return(Forward(s), <<>>)
  BY <1>2 DEF Ended
<1>5. Forward(s).p = s.p + 1
  <2>1. s.p + 1 \in Nat \ {0}
    BY <1>1
  <2> QED BY <2>1, GotoFields DEF Forward
<1>6. Ended(u, s).s = Forward(s)
  BY <1>4, ReturnFields
<1>7. Ended(u, s).s.p <= Len(u) + 1
  BY <1>1, <1>5, <1>6
<1> QED BY <1>3, <1>4, <1>7

(* White space behind a symbol.                                             *)
LEMMA SkipForwardBegun ==
  ASSUME NEW u, NEW t, Begun(u, t), NEW s \in Cursor, ~Lost(u, s)
  PROVE  Same(u, SkipWS(u, Forward(s)), SkipWS(t, Forward(s)))
<1>0. IsText(u) /\ s.p <= Len(u)
  BY NotLost DEF Begun
<1>1. Forward(s) \in Cursor
  BY <1>0, ForwardOnward
<1>2. CASE Lost(u, Forward(s))
  <2>1. Onward(u, Forward(s), SkipWS(u, Forward(s)))
    BY <1>0, <1>1, SkipWSOnward
  <2> QED BY <1>0, <1>1, <1>2, <2>1, LostStays DEF Same
<1>3. CASE ~Lost(u, Forward(s))
  BY <1>1, <1>3, SkipWSBegun
<1> QED BY <1>2, <1>3

(* The comma before an element.                                             *)
LEMMA SeparatorBegun ==
  ASSUME NEW u, NEW t, Begun(u, t), NEW s \in Cursor, ~Lost(u, s), NEW part \in Parts
  PROVE  Same(u, Separator(u, s, part), Separator(t, s, part))
<1>1. At(u, s.p) = At(t, s.p) /\ (Over(u, s, part) <=> Over(t, s, part))
  BY NotLost, EndedBegun
<1>2. CASE Over(u, s, part)
  <2>1. Separator(u, s, part) = s /\ Separator(t, s, part) = s
    BY <1>1, <1>2, Zenon DEF Separator
  <2> QED BY <2>1 DEF Same
<1>3. CASE ~Over(u, s, part) /\ At(u, s.p) = ","
  <2>1. Separator(u, s, part) = SkipWS(u, Forward(s)) /\ Separator(t, s, part) = SkipWS(t, Forward(s))
    BY <1>1, <1>3, Zenon DEF Separator
  <2> QED BY <2>1, SkipForwardBegun
<1>4. CASE ~Over(u, s, part) /\ At(u, s.p) # ","
  <2>1. Separator(u, s, part) = IF First(part) THEN s ELSE Error(s, 8)
    BY <1>4, Zenon DEF Separator
  <2>2. Separator(t, s, part) = IF First(part) THEN s ELSE Error(s, 8)
    BY <1>1, <1>4, Zenon DEF Separator
  <2> QED BY <2>1, <2>2 DEF Same
<1> QED BY <1>2, <1>3, <1>4

(* Every part is read onward, and as its definition says.                   *)
LEMMA ReadingOnward ==
  ASSUME NEW t, IsText(t), NEW part \in Parts, NEW s \in Cursor
  PROVE  /\ Onward(t, s, Reading(t)[<<part, s>>].s)
         /\ AgreeBelow(t, part, s, Reading(t), Reading(t))
         /\ Reading(t)[<<part, s>>] = ReadPart(t, Reading(t), part, s)
<1> DEFINE x == <<part, s>>
<1>1. x \in Task /\ x[1] = part /\ x[2] = s
  BY DEF Task
<1> HIDE DEF x
<1>2. Good(t, x, Reading(t)[x]) /\ Reading(t)[x] = ReadPart(t, Reading(t), x[1], x[2])
  BY <1>1, ReadingGood, ReadingIs
<1>3. Onward(t, s, Reading(t)[x].s) /\ Reading(t)[x] = ReadPart(t, Reading(t), part, s)
  BY <1>1, <1>2 DEF Good
<1>4. Agree(t, Size(t)[x], Reading(t), Reading(t))
  BY ReadingGood DEF Agree
<1> QED BY <1>3, <1>4 DEF AgreeBelow, x

(* A value from behind the white space on, and a container from behind the  *)
(* separator on.                                                            *)
Inner(t, s, part) ==
  CASE part = "value" -> ValueAt(t, Reading(t), s)
    [] part \in {"array", "items"} -> Element(t, Reading(t), s, part)
    [] part \in {"object", "members"} -> NamedElement(t, Reading(t), s, part)

(* Each, with what is in front of it.                                       *)
LEMMA InnerIs ==
  ASSUME NEW t, IsText(t), NEW part \in Parts, NEW s \in Cursor
  PROVE  Reading(t)[<<part, s>>] =
           Inner(t, IF part = "value" THEN SkipWS(t, s) ELSE Separator(t, SkipWS(t, s), part), part)
<1>1. Reading(t)[<<part, s>>] = ReadPart(t, Reading(t), part, s)
  BY ReadingOnward
<1>2. CASE part = "value"
  <2>1. part \notin {"array", "items"} /\ part \notin {"object", "members"}
    BY <1>2
  <2> QED BY <1>1, <1>2, <2>1, Zenon DEF ReadPart, Inner
<1>3. CASE part \in {"array", "items"}
  <2>1. part # "value" /\ part \notin {"object", "members"}
    BY <1>3
  <2> QED BY <1>1, <1>3, <2>1, Zenon DEF ReadPart, Inner, ReadArray
<1>4. CASE part \in {"object", "members"}
  <2>1. part # "value" /\ part \notin {"array", "items"}
    BY <1>4
  <2> QED BY <1>1, <1>4, <2>1, Zenon DEF ReadPart, Inner, ReadObject
<1> QED BY <1>2, <1>3, <1>4 DEF Parts

(* The two kinds of containers.                                             *)
LEMMA InnerKinds ==
  ASSUME NEW t, NEW s, NEW part \in Parts \ {"value"}
  PROVE  \/ part \in {"array", "items"} /\ Inner(t, s, part) = Element(t, Reading(t), s, part)
         \/ part \in {"object", "members"} /\ Inner(t, s, part) = NamedElement(t, Reading(t), s, part)
<1>1. CASE part \in {"array", "items"}
  <2>1. part # "value" /\ part \notin {"object", "members"}
    BY <1>1
  <2> QED BY <1>1, <2>1, Zenon DEF Inner
<1>2. CASE part \in {"object", "members"}
  <2>1. part # "value" /\ part \notin {"array", "items"}
    BY <1>2
  <2> QED BY <1>2, <2>1, Zenon DEF Inner
<1> QED BY <1>1, <1>2 DEF Parts

(* A container that is over.                                                *)
LEMMA InnerOver ==
  ASSUME NEW t, NEW s, NEW part \in Parts \ {"value"}, Over(t, s, part)
  PROVE  Inner(t, s, part) = Ended(t, s)
BY InnerKinds DEF Element, NamedElement

(* An element, with its value at s.                                         *)
LEMMA ItemReads ==
  ASSUME NEW t, IsText(t), NEW r, r.s \in Cursor
  PROVE  Onward(t, r.s, Item(t, Reading(t), r).s)
<1>1. CASE r.v = Undefined /\ At(t, r.s.p) # ","
  <2>1. Item(t, Reading(t), r).s = Error(r.s, 8)
    BY <1>1, ReturnFields DEF Item
  <2> QED BY <2>1, OnwardError
<1>2. CASE ~(r.v = Undefined /\ At(t, r.s.p) # ",")
  <2>1. Item(t, Reading(t), r).s = Reading(t)[<<"items", r.s>>].s
    BY <1>2, ReturnFields DEF Item, AddItem
  <2>2. "items" \in Parts
    BY DEF Parts
  <2> QED BY <2>1, <2>2, ReadingOnward
<1> QED BY <1>1, <1>2

(* A container is read onward from behind its separator.                    *)
LEMMA InnerOnward ==
  ASSUME NEW t, IsText(t), NEW s \in Cursor, NEW part \in Parts \ {"value"}
  PROVE  Onward(t, s, Inner(t, s, part).s)
<1>1. CASE Over(t, s, part)
  <2>1. Inner(t, s, part) = Ended(t, s)
    BY <1>1, InnerOver
  <2> QED BY <2>1, EndedOnward
<1>2. CASE ~Over(t, s, part) /\ part \in {"array", "items"}
  <2> DEFINE r == Reading(t)[<<"value", s>>]
  <2>1. "value" \in Parts /\ part \notin {"object", "members"}
    BY <1>2 DEF Parts
  <2>2. Inner(t, s, part) = Element(t, Reading(t), s, part)
    BY <2>1, InnerKinds
  <2>3. Inner(t, s, part) = Item(t, Reading(t), r)
    BY <1>2, <2>2 DEF Element
  <2>4. Onward(t, s, r.s) /\ r.s \in Cursor
    BY <2>1, ReadingOnward DEF Onward
  <2> HIDE DEF r
  <2>5. Onward(t, r.s, Item(t, Reading(t), r).s)
    BY <2>4, ItemReads
  <2> QED BY <2>3, <2>4, <2>5, OnwardOnward
<1>3. CASE ~Over(t, s, part) /\ part \in {"object", "members"}
  <2> DEFINE name == ReadName(t, s)
             c == SkipWS(t, name.s)
  <2>1. part \notin {"array", "items"} /\ part \in Parts
    BY <1>3
  <2>2. Inner(t, s, part) = NamedElement(t, Reading(t), s, part)
    BY <2>1, InnerKinds
  <2>3. Inner(t, s, part) = Named(t, Reading(t), name)
    BY <1>3, <2>2 DEF NamedElement
  <2>4. s.p <= Len(t)
    BY <1>3, NotOver
  <2>5. Onward(t, s, name.s) /\ name.s \in Cursor
    BY <2>4, ReadNameOnward DEF Onward
  <2> HIDE DEF name
  <2>6. CASE name.s.p = End(t)
    <3>1. Inner(t, s, part) = Unfinished(name.s)
      BY <2>3, <2>6 DEF Named
    <3> QED BY <2>5, <3>1, EndedOnward, OnwardOnward
  <2>7. CASE name.s.p # End(t)
    <3> DEFINE text1 == name.text
    <3>1. Inner(t, s, part) = BehindName(t, Reading(t), text1, c)
      BY <2>3, <2>7 DEF Named
    <3> HIDE DEF text1
    <3>2. Onward(t, name.s, c)
      BY <2>5, SkipWSOnward
    <3> HIDE DEF c
    <3>3. Onward(t, s, c)
      BY <2>5, <3>2, OnwardOnward
    <3>4. c \in Cursor /\ c.p >= s.p
      BY <3>3 DEF Onward
    <3>5. AgreeBelow(t, part, s, Reading(t), Reading(t))
      BY <2>1, ReadingOnward
    <3>6. Onward(t, c, BehindName(t, Reading(t), text1, c).s)
      BY <1>3, <2>4, <3>4, <3>5, BehindNameOnward
    <3> QED BY <3>1, <3>3, <3>6, OnwardOnward
  <2> QED BY <2>6, <2>7
<1> QED BY <1>1, <1>2, <1>3 DEF Parts

(* Errors stay, and an unfinished container is one.                         *)
LEMMA ErrorsStay ==
  ASSUME NEW t, NEW s, NEW r, Onward(t, s, r), s.errs # {}
  PROVE  r.errs # {}
BY DEF Onward

(* The end of the text in a container.                                      *)
LEMMA UnfinishedFails ==
  ASSUME NEW t, IsText(t), NEW s \in Cursor
  PROVE  Unfinished(s).s.errs # {} /\ (s.p > Len(t) => Ended(t, s).s.errs # {})
<1>1. Unfinished(s).s.errs # {}
  BY ReturnFields, ErrorIsLost DEF Unfinished
<1>2. s.p > Len(t) => s.p >= End(t)
  BY CursorFields DEF End, IsText
<1> QED BY <1>1, <1>2 DEF Ended

(* Beyond the text a container is over.                                     *)
LEMMA BeyondIsOver ==
  ASSUME NEW t, IsText(t), NEW s \in Cursor, s.p > Len(t), NEW part
  PROVE  Over(t, s, part)
<1>1. s.p >= End(t)
  BY CursorFields DEF End, IsText
<1> QED BY <1>1 DEF Over

(* A last slash is none of what a container expects.                        *)
LEMMA LastSlash ==
  ASSUME NEW t, IsText(t), NEW s \in Cursor, s.p = Len(t), t[s.p] = "/", NEW part
  PROVE  At(t, s.p) = "/" /\ ~Over(t, s, part) /\ s.p <= Len(t)
<1>1. s.p \in DOMAIN t /\ ~(s.p >= End(t)) /\ s.p <= Len(t)
  BY CursorFields DEF End, IsText
<1>2. At(t, s.p) = "/"
  BY <1>1 DEF At
<1>3. At(t, s.p) # Close(part)
  BY <1>2 DEF Close
<1> QED BY <1>1, <1>2, <1>3, Zenon DEF Over

(* Where the parser is lost, there are no more elements or members.         *)
LEMMA LaterFails ==
  ASSUME NEW u, IsText(u), NEW s \in Cursor, Lost(u, s), NEW part \in {"items", "members"}
  PROVE  Reading(u)[<<part, s>>].s.errs # {}
<1> DEFINE w == SkipWS(u, s)
           q == Separator(u, w, part)
<1>0. part \in Parts \ {"value"} /\ part \in Parts /\ part # "value" /\ ~First(part)
  BY DEF Parts, First
<1>1. Onward(u, s, w) /\ w \in Cursor /\ (w.p > Len(u) \/ Still(u, w.p))
  BY SkipWSOnward DEF Onward
<1>2. Lost(u, w)
  BY <1>1, LostStays
<1>3. Reading(u)[<<part, s>>] = Inner(u, q, part)
  BY <1>0, InnerIs
<1> HIDE DEF w
<1>4. Onward(u, w, q) /\ q \in Cursor
  BY <1>0, <1>1, SeparatorOnward DEF Onward
<1>5. Onward(u, q, Inner(u, q, part).s)
  BY <1>0, <1>4, InnerOnward
<1>6. CASE w.errs # {}
  BY <1>3, <1>4, <1>5, <1>6, ErrorsStay
<1>7. CASE w.p > Len(u)
  <2>1. Over(u, w, part)
    BY <1>1, <1>7, BeyondIsOver
  <2>2. q = w
    BY <2>1, Zenon DEF Separator
  <2>3. Inner(u, q, part) = Ended(u, w)
    BY <1>0, <2>1, <2>2, InnerOver
  <2> QED BY <1>1, <1>3, <1>7, <2>3, UnfinishedFails
<1>8. CASE w.p = Len(u) /\ u[w.p] = "/"
  <2>1. At(u, w.p) = "/" /\ ~Over(u, w, part)
    BY <1>1, <1>8, LastSlash
  <2>2. At(u, w.p) # ","
    BY <2>1
  <2>3. q = Error(w, 8)
    BY <1>0, <2>1, <2>2, Zenon DEF Separator
  <2>4. q.errs # {}
    BY <1>1, <2>3, ErrorIsLost
  <2> QED BY <1>3, <1>5, <2>4, ErrorsStay
<1> QED BY <1>2, <1>6, <1>7, <1>8 DEF Lost

(* Nor does the member come to its end, behind the colon, the white space   *)
(* behind the name, or the name.                                            *)
LEMMA BehindColonLost ==
  ASSUME NEW u, IsText(u), NEW s \in Cursor, Lost(u, s), NEW name
  PROVE  BehindColon(u, Reading(u), name, s).s.errs # {}
<1>1. CASE s.p = End(u)
  BY <1>1, UnfinishedFails DEF BehindColon
<1>2. CASE s.p # End(u)
  <2> DEFINE r == Reading(u)[<<"value", s>>]
  <2>1. "value" \in Parts /\ "members" \in {"items", "members"}
    BY DEF Parts
  <2>2. Onward(u, s, r.s) /\ r.s \in Cursor
    BY <2>1, ReadingOnward DEF Onward
  <2>3. BehindColon(u, Reading(u), name, s) = Member(Reading(u), name, r)
    BY <1>2 DEF BehindColon
  <2> HIDE DEF r
  <2>4. Reading(u)[<<"members", r.s>>].s.errs # {}
    BY <2>1, <2>2, LostStays, LaterFails
  <2>5. BehindColon(u, Reading(u), name, s).s = Reading(u)[<<"members", r.s>>].s
    BY <2>3, ReturnFields DEF Member, AddMember
  <2> QED BY <2>4, <2>5
<1> QED BY <1>1, <1>2

(* Behind the white space.                                                  *)
LEMMA BehindNameLost ==
  ASSUME NEW u, IsText(u), NEW s \in Cursor, Lost(u, s), NEW name
  PROVE  BehindName(u, Reading(u), name, s).s.errs # {}
<1>0. s.p \in Nat /\ s.p >= 1 /\ Len(u) \in Nat
  BY CursorFields DEF IsText
<1>1. CASE s.p = End(u)
  <2>0. s.p \notin DOMAIN u
    BY <1>0, <1>1 DEF End, IsText
  <2>1. At(u, s.p) # ":" /\ At(u, s.p) # "}"
    BY <2>0 DEF At
  <2>2. BehindName(u, Reading(u), name, s) = Unfinished(s)
    BY <1>1, <2>1, Zenon DEF BehindName
  <2> QED BY <2>2, UnfinishedFails
<1>2. CASE s.p # End(u) /\ At(u, s.p) = ":"
  <2> DEFINE w == Forward(s)
             d == SkipWS(u, w)
  <2>1. BehindName(u, Reading(u), name, s) = BehindColon(u, Reading(u), name, d)
    <3>1. At(u, s.p) # "}"
      BY <1>2
    <3> QED BY <1>2, <3>1, Zenon DEF BehindName
  <2>2. s.p <= Len(u)
    <3>1. At(u, s.p) # "nul"
      BY <1>2
    <3> QED BY <1>0, <3>1, AtInText
  <2>3. Onward(u, s, w) /\ w \in Cursor
    BY <2>2, ForwardOnward
  <2> HIDE DEF w
  <2>4. Onward(u, s, d) /\ d \in Cursor
    BY <2>3, SkipWSOnward, OnwardOnward DEF Onward
  <2> HIDE DEF d
  <2>5. Lost(u, d)
    BY <2>4, LostStays
  <2> QED BY <2>1, <2>4, <2>5, BehindColonLost
<1>3. CASE s.p # End(u) /\ At(u, s.p) = "}"
  <2>1. BehindName(u, Reading(u), name, s) = Return(Error(Forward(s), 6), <<>>)
    <3>1. At(u, s.p) # ":"
      BY <1>3
    <3> QED BY <1>3, <3>1, Zenon DEF BehindName
  <2>2. Forward(s) \in Cursor
    <3>1. s.p + 1 \in Nat \ {0}
      BY <1>0
    <3> QED BY <3>1, GotoFields DEF Forward
  <2>3. Error(Forward(s), 6).errs # {}
    BY <2>2, ErrorIsLost
  <2> QED BY <2>1, <2>3, ReturnFields
<1>4. CASE s.p # End(u) /\ At(u, s.p) \notin {":", "}"}
  <2> DEFINE b == s.p > End(u)
  <2>1. BehindName(u, Reading(u), name, s) = Return(Looked(Error(s, 6), b), <<>>)
    <3>1. At(u, s.p) # ":" /\ At(u, s.p) # "}"
      BY <1>4
    <3> QED BY <1>4, <3>1, Zenon DEF BehindName
  <2>2. b \in BOOLEAN
    OBVIOUS
  <2> HIDE DEF b
  <2>4. Error(s, 6) \in Cursor /\ Error(s, 6).errs # {}
    BY ErrorFields, ErrorIsLost
  <2>3. Looked(Error(s, 6), b).errs # {}
    BY <2>2, <2>4, LookedFields
  <2> QED BY <2>1, <2>3, ReturnFields
<1> QED BY <1>1, <1>2, <1>3, <1>4

(* Behind the name.                                                         *)
LEMMA NamedLost ==
  ASSUME NEW u, IsText(u), NEW name, name.s \in Cursor, Lost(u, name.s)
  PROVE  Named(u, Reading(u), name).s.errs # {}
<1>1. CASE name.s.p = End(u)
  BY <1>1, UnfinishedFails DEF Named
<1>2. CASE name.s.p # End(u)
  <2> DEFINE c == SkipWS(u, name.s)
             text1 == name.text
  <2>1. Onward(u, name.s, c) /\ c \in Cursor
    BY SkipWSOnward DEF Onward
  <2>2. Named(u, Reading(u), name) = BehindName(u, Reading(u), text1, c)
    BY <1>2 DEF Named
  <2> HIDE DEF c, text1
  <2>3. Lost(u, c)
    BY <2>1, LostStays
  <2> QED BY <2>1, <2>2, <2>3, BehindNameLost
<1> QED BY <1>1, <1>2

(* An element whose value is lost.                                          *)
LEMMA ItemLost ==
  ASSUME NEW u, IsText(u), NEW r, r.s \in Cursor, Lost(u, r.s)
  PROVE  Item(u, Reading(u), r).s.errs # {}
<1>1. CASE r.v = Undefined /\ At(u, r.s.p) # ","
  <2>1. Item(u, Reading(u), r).s = Error(r.s, 8)
    BY <1>1, ReturnFields DEF Item
  <2> QED BY <2>1, ErrorIsLost
<1>2. CASE ~(r.v = Undefined /\ At(u, r.s.p) # ",")
  <2>1. Item(u, Reading(u), r).s = Reading(u)[<<"items", r.s>>].s
    BY <1>2, ReturnFields DEF Item, AddItem
  <2> QED BY <2>1, LaterFails
<1> QED BY <1>1, <1>2

(* A container fails if it is lost behind its separator.                    *)
LEMMA InnerLost ==
  ASSUME NEW u, IsText(u), NEW s \in Cursor, Lost(u, s), NEW part \in Parts \ {"value"}
  PROVE  Inner(u, s, part).s.errs # {}
<1>1. CASE s.errs # {}
  BY <1>1, InnerOnward, ErrorsStay
<1>2. CASE s.p > Len(u)
  <2>1. Inner(u, s, part) = Ended(u, s)
    BY <1>2, BeyondIsOver, InnerOver
  <2> QED BY <1>2, <2>1, UnfinishedFails
<1>3. CASE s.p = Len(u) /\ u[s.p] = "/" /\ part \in {"array", "items"}
  <2> DEFINE r == Reading(u)[<<"value", s>>]
  <2>1. ~Over(u, s, part) /\ "value" \in Parts /\ part \notin {"object", "members"}
    BY <1>3, LastSlash DEF Parts
  <2>2. Onward(u, s, r.s) /\ r.s \in Cursor
    BY <2>1, ReadingOnward DEF Onward
  <2>3. Inner(u, s, part) = Element(u, Reading(u), s, part)
    BY <2>1, InnerKinds
  <2>4. Inner(u, s, part) = Item(u, Reading(u), r)
    BY <2>1, <2>3 DEF Element
  <2> HIDE DEF r
  <2> QED BY <2>2, <2>4, LostStays, ItemLost
<1>4. CASE s.p = Len(u) /\ u[s.p] = "/" /\ part \in {"object", "members"}
  <2> DEFINE name == ReadName(u, s)
  <2>1. ~Over(u, s, part) /\ s.p <= Len(u) /\ part \notin {"array", "items"}
    BY <1>4, LastSlash
  <2>2. Onward(u, s, name.s) /\ name.s \in Cursor
    BY <2>1, ReadNameOnward DEF Onward
  <2>3. Inner(u, s, part) = NamedElement(u, Reading(u), s, part)
    BY <2>1, InnerKinds
  <2>4. Inner(u, s, part) = Named(u, Reading(u), name)
    BY <2>1, <2>3 DEF NamedElement
  <2> HIDE DEF name
  <2> QED BY <2>2, <2>4, LostStays, NamedLost
<1>5. part \in {"array", "items"} \/ part \in {"object", "members"}
  BY DEF Parts
<1> QED BY <1>1, <1>2, <1>3, <1>4, <1>5 DEF Lost

(* And if it is lost before.                                                *)
LEMMA LostFails ==
  ASSUME NEW u, IsText(u), NEW s \in Cursor, Lost(u, s), NEW part \in Parts \ {"value"}
  PROVE  Reading(u)[<<part, s>>].s.errs # {}
<1> DEFINE w == SkipWS(u, s)
           q == Separator(u, w, part)
<1>1. Onward(u, s, w) /\ w \in Cursor /\ (w.p > Len(u) \/ Still(u, w.p))
  BY SkipWSOnward DEF Onward
<1>2. Reading(u)[<<part, s>>] = Inner(u, q, part)
  BY InnerIs
<1> HIDE DEF w
<1>3. Onward(u, w, q) /\ q \in Cursor
  BY <1>1, SeparatorOnward DEF Onward
<1> HIDE DEF q
<1> QED BY <1>1, <1>2, <1>3, LostStays, InnerLost

(* A container fails in u, or is the same in both texts and ends in u.      *)
SameContainer(u, a, b) == a.s.errs # {} \/ (a = b /\ a.s.p <= Len(u) + 1)

(* A part at s is read alike in u, which is what is left of t; and all that *)
(* are below it.                                                            *)
Alike(u, t, part, s) ==
  LET a == Reading(u)[<<part, s>>]
      b == Reading(t)[<<part, s>>]
  IN  ~Lost(u, s) => IF part = "value" THEN SameResult(u, a, b) ELSE SameContainer(u, a, b)
AlikeBelow(u, t, part, s) ==
  \A a \in Parts, q \in Cursor :
    Size(u)[<<a, q>>] < Size(u)[<<part, s>>] => Alike(u, t, a, q)

(* A value below a container, and a container below a part.                 *)
LEMMA ValueAlike ==
  ASSUME NEW u, NEW t, NEW part, NEW s, AlikeBelow(u, t, part, s), NEW q \in Cursor,
         Size(u)[<<"value", q>>] < Size(u)[<<part, s>>], ~Lost(u, q)
  PROVE  SameResult(u, Reading(u)[<<"value", q>>], Reading(t)[<<"value", q>>])
<1>1. "value" \in Parts
  BY DEF Parts
<1>2. Alike(u, t, "value", q)
  BY <1>1 DEF AlikeBelow
<1> QED BY <1>2 DEF Alike

(* A container.                                                             *)
LEMMA ContainerAlike ==
  ASSUME NEW u, NEW t, NEW part, NEW s, AlikeBelow(u, t, part, s), NEW q \in Cursor,
         NEW a \in Parts \ {"value"}, Size(u)[<<a, q>>] < Size(u)[<<part, s>>], ~Lost(u, q)
  PROVE  SameContainer(u, Reading(u)[<<a, q>>], Reading(t)[<<a, q>>])
<1>1. a \in Parts /\ a # "value"
  OBVIOUS
<1>2. Alike(u, t, a, q)
  BY <1>1 DEF AlikeBelow
<1> QED BY <1>1, <1>2 DEF Alike

(* An element of an array.                                                  *)
LEMMA ItemBegun ==
  ASSUME NEW u, NEW t, Begun(u, t), NEW part \in {"array", "items"}, NEW s \in Cursor,
         AlikeBelow(u, t, part, s), NEW q \in Cursor, q.p >= s.p, ~Lost(u, q), Moved(u, s, q)
  PROVE  SameContainer(u, Item(u, Reading(u), Reading(u)[<<"value", q>>]),
                       Item(t, Reading(t), Reading(t)[<<"value", q>>]))
<1> DEFINE a == Reading(u)[<<"value", q>>]
           b == Reading(t)[<<"value", q>>]
<1>0. /\ IsText(u) /\ s.p \in Nat /\ q.p \in Nat /\ q.p <= Len(u) /\ Len(u) \in Nat
      /\ s.p <= Len(u) /\ part \in Parts /\ part # "value"
      /\ "value" \in Parts /\ "items" \in Parts \ {"value"} /\ "items" \in Parts
  <2>1. q.p \in Nat /\ s.p \in Nat /\ q.p <= Len(u) /\ IsText(u) /\ Len(u) \in Nat
    BY NotLost, CursorFields DEF Begun, IsText
  <2> QED BY <2>1 DEF Parts
<1>1. SameResult(u, a, b)
  <2>1. Size(u)[<<"value", q>>] < Size(u)[<<part, s>>]
    BY <1>0, SizeShrinks
  <2> QED BY <2>1, ValueAlike
<1>2. Onward(u, q, a.s) /\ a.s \in Cursor /\ Valued(u, SkipWS(u, q), a)
  <2> DEFINE y == <<"value", q>>
  <2>1. y \in Task /\ y[1] = "value" /\ y[2] = q
    BY <1>0 DEF Task
  <2> HIDE DEF y
  <2>2. Good(u, y, Reading(u)[y])
    BY <1>0, <2>1, ReadingGood
  <2>3. Onward(u, q, Reading(u)[y].s) /\ Valued(u, SkipWS(u, q), Reading(u)[y])
    BY <2>1, <2>2 DEF Good
  <2> QED BY <2>3 DEF Onward, y
<1> HIDE DEF a, b
<1>3. CASE Lost(u, a.s)
  <2>1. Item(u, Reading(u), a).s.errs # {}
    BY <1>0, <1>2, <1>3, ItemLost
  <2>2. SameContainer(u, Item(u, Reading(u), a), Item(t, Reading(t), b))
    BY <2>1 DEF SameContainer
  <2> QED BY <2>2 DEF a, b
<1>4. CASE ~Lost(u, a.s)
  <2>1. a = b
    BY <1>1, <1>4 DEF SameResult
  <2>2. At(u, a.s.p) = At(t, a.s.p)
    BY <1>2, <1>4, NotLost
  <2>3. CASE NoItem(u, a)
    <3>1. Item(u, Reading(u), a).s = Error(a.s, 8)
      BY <2>3, ReturnFields DEF Item, NoItem
    <3>2. Item(u, Reading(u), a).s.errs # {}
      BY <1>2, <3>1, ErrorIsLost
    <3>3. SameContainer(u, Item(u, Reading(u), a), Item(t, Reading(t), b))
      BY <3>2 DEF SameContainer
    <3> QED BY <3>3 DEF a, b
  <2>4. CASE ~NoItem(u, a)
    <3> DEFINE c == Reading(u)[<<"items", a.s>>]
               d == Reading(t)[<<"items", a.s>>]
    <3>1. Item(u, Reading(u), a) = AddItem(a.v, c) /\ Item(t, Reading(t), b) = AddItem(a.v, d)
      BY <2>1, <2>2, <2>4 DEF Item, NoItem
    <3>2. SameContainer(u, c, d)
      <4>1. a.s.p > s.p
        BY <1>0, <1>2, <2>4, ItemAdvances
      <4>2. Size(u)[<<"items", a.s>>] < Size(u)[<<part, s>>]
        BY <1>0, <1>2, <4>1, SizeShrinks
      <4> QED BY <1>0, <1>2, <1>4, <4>2, ContainerAlike
    <3> HIDE DEF c, d
    <3>3. AddItem(a.v, c).s = c.s
      BY ReturnFields DEF AddItem
    <3>4. SameContainer(u, AddItem(a.v, c), AddItem(a.v, d))
      BY <3>2, <3>3 DEF SameContainer
    <3> QED BY <3>1, <3>4 DEF a, b
  <2> QED BY <2>3, <2>4
<1> QED BY <1>3, <1>4

(* The value of a member, behind the colon.                                 *)
LEMMA BehindColonBegun ==
  ASSUME NEW u, NEW t, Begun(u, t), NEW part \in {"object", "members"}, NEW s \in Cursor,
         s.p <= Len(u), AlikeBelow(u, t, part, s), NEW q \in Cursor, q.p > s.p, ~Lost(u, q), NEW name
  PROVE  SameContainer(u, BehindColon(u, Reading(u), name, q), BehindColon(t, Reading(t), name, q))
<1> DEFINE a == Reading(u)[<<"value", q>>]
           b == Reading(t)[<<"value", q>>]
<1>0. /\ IsText(u) /\ s.p \in Nat /\ part \in Parts /\ part # "value" /\ q.p >= s.p
      /\ q.p \in Nat /\ "value" \in Parts /\ "members" \in Parts \ {"value"} /\ "members" \in Parts
      /\ "members" \in {"items", "members"}
  BY CursorFields DEF Parts, Begun
<1>1. BehindColon(u, Reading(u), name, q) = Member(Reading(u), name, a)
      /\ BehindColon(t, Reading(t), name, q) = Member(Reading(t), name, b)
  <2>1. q.p # End(u) /\ q.p # End(t)
    <3>1. q.p <= Len(u) /\ q.p <= Len(t) /\ Len(u) \in Nat /\ Len(t) \in Nat
      BY NotLost DEF Begun, IsText
    <3> QED BY <1>0, <3>1 DEF End
  <2> QED BY <2>1 DEF BehindColon
<1>2. SameResult(u, a, b)
  <2>1. Size(u)[<<"value", q>>] < Size(u)[<<part, s>>]
    BY <1>0, SizeShrinks
  <2> QED BY <2>1, ValueAlike
<1>3. Onward(u, q, a.s) /\ a.s \in Cursor
  BY <1>0, ReadingOnward DEF Onward
<1> HIDE DEF a, b
<1> DEFINE c == Reading(u)[<<"members", a.s>>]
           d == Reading(t)[<<"members", a.s>>]
<1>4. Member(Reading(u), name, a) = AddMember(name, a.v, c) /\ AddMember(name, a.v, c).s = c.s
  BY ReturnFields DEF Member, AddMember
<1>5. CASE Lost(u, a.s)
  <2>1. c.s.errs # {}
    BY <1>0, <1>3, <1>5, LaterFails
  <2> QED BY <1>1, <1>4, <2>1 DEF SameContainer
<1>6. CASE ~Lost(u, a.s)
  <2>1. a = b
    BY <1>2, <1>6 DEF SameResult
  <2>2. Member(Reading(t), name, b) = AddMember(name, a.v, d)
    BY <2>1 DEF Member
  <2>3. SameContainer(u, c, d)
    <3>1. a.s.p > s.p
      BY <1>0, <1>3 DEF Onward, Cursor
    <3>2. Size(u)[<<"members", a.s>>] < Size(u)[<<part, s>>]
      BY <1>0, <1>3, <3>1, SizeShrinks
    <3> QED BY <1>0, <1>3, <1>6, <3>2, ContainerAlike
  <2> HIDE DEF c, d
  <2>4. SameContainer(u, AddMember(name, a.v, c), AddMember(name, a.v, d))
    BY <1>4, <2>3 DEF SameContainer
  <2> QED BY <1>1, <1>4, <2>2, <2>4
<1> QED BY <1>5, <1>6

(* A member behind its name and the white space there.                      *)
LEMMA BehindNameBegun ==
  ASSUME NEW u, NEW t, Begun(u, t), NEW part \in {"object", "members"}, NEW s \in Cursor,
         s.p <= Len(u), AlikeBelow(u, t, part, s), NEW q \in Cursor, q.p >= s.p, ~Lost(u, q), NEW name
  PROVE  SameContainer(u, BehindName(u, Reading(u), name, q), BehindName(t, Reading(t), name, q))
<1>0. /\ s.p \in Nat /\ q.p \in Nat /\ q.p >= 1 /\ q.p <= Len(u) /\ At(u, q.p) = At(t, q.p)
      /\ IsText(u) /\ Len(u) \in Nat
  BY NotLost, CursorFields DEF Begun, IsText
<1>1. q.p # End(u) /\ q.p # End(t)
  <2>1. q.p <= Len(t) /\ Len(t) \in Nat
    BY NotLost DEF Begun, IsText
  <2> QED BY <1>0, <2>1 DEF End
<1>2. Forward(q) \in Cursor /\ Forward(q).p > q.p
  BY <1>0, ForwardOnward
<1>3. CASE At(u, q.p) = ":"
  <2> DEFINE c == SkipWS(u, Forward(q))
             d == SkipWS(t, Forward(q))
  <2>1. BehindName(u, Reading(u), name, q) = BehindColon(u, Reading(u), name, c)
        /\ BehindName(t, Reading(t), name, q) = BehindColon(t, Reading(t), name, d)
    <3>1. At(u, q.p) # "}"
      BY <1>3
    <3> QED BY <1>0, <1>1, <1>3, <3>1, Zenon DEF BehindName
  <2>2. Same(u, c, d)
    BY SkipForwardBegun
  <2>3. Onward(u, Forward(q), c) /\ c \in Cursor
    BY <1>0, <1>2, SkipWSOnward DEF Onward
  <2> HIDE DEF c, d
  <2>4. CASE Lost(u, c)
    <3>1. BehindColon(u, Reading(u), name, c).s.errs # {}
      BY <1>0, <2>3, <2>4, BehindColonLost
    <3> QED BY <2>1, <3>1 DEF SameContainer
  <2>5. CASE ~Lost(u, c)
    <3>1. c = d
      BY <2>2, <2>5 DEF Same
    <3>2. c.p > s.p
      <4>1. c.p >= Forward(q).p /\ Forward(q).p \in Nat /\ c.p \in Nat
        BY <1>2, <2>3, CursorFields DEF Onward
      <4> QED BY <1>0, <1>2, <4>1
    <3>3. SameContainer(u, BehindColon(u, Reading(u), name, c), BehindColon(t, Reading(t), name, c))
      BY <2>3, <2>5, <3>2, BehindColonBegun
    <3> QED BY <2>1, <3>1, <3>3
  <2> QED BY <2>4, <2>5
<1>4. CASE At(u, q.p) = "}"
  <2>1. BehindName(u, Reading(u), name, q) = Return(Error(Forward(q), 6), <<>>)
    <3>1. At(u, q.p) # ":"
      BY <1>4
    <3> QED BY <1>1, <1>4, <3>1, Zenon DEF BehindName
  <2>2. Error(Forward(q), 6).errs # {}
    BY <1>2, ErrorIsLost
  <2> QED BY <2>1, <2>2, ReturnFields DEF SameContainer
<1>5. CASE At(u, q.p) \notin {":", "}"}
  <2> DEFINE b == q.p > End(u)
  <2>1. BehindName(u, Reading(u), name, q) = Return(Looked(Error(q, 6), b), <<>>)
    <3>1. At(u, q.p) # ":" /\ At(u, q.p) # "}"
      BY <1>5
    <3> QED BY <1>1, <3>1, Zenon DEF BehindName
  <2>2. b \in BOOLEAN
    OBVIOUS
  <2> HIDE DEF b
  <2>3. Error(q, 6) \in Cursor /\ Error(q, 6).errs # {}
    BY ErrorFields, ErrorIsLost
  <2>4. Looked(Error(q, 6), b).errs # {}
    BY <2>2, <2>3, LookedFields
  <2> QED BY <2>1, <2>4, ReturnFields DEF SameContainer
<1> QED BY <1>3, <1>4, <1>5

(* A member.                                                                *)
LEMMA NamedBegun ==
  ASSUME NEW u, NEW t, Begun(u, t), NEW part \in {"object", "members"}, NEW s \in Cursor,
         AlikeBelow(u, t, part, s), NEW q \in Cursor, q.p >= s.p, ~Lost(u, q)
  PROVE  SameContainer(u, Named(u, Reading(u), ReadName(u, q)), Named(t, Reading(t), ReadName(t, q)))
<1> DEFINE a == ReadName(u, q)
           b == ReadName(t, q)
<1>0. s.p \in Nat /\ q.p \in Nat /\ q.p <= Len(u) /\ Len(u) \in Nat /\ IsText(u) /\ s.p <= Len(u)
  <2>1. s.p \in Nat /\ q.p \in Nat /\ q.p <= Len(u) /\ Len(u) \in Nat /\ IsText(u)
    BY NotLost, CursorFields DEF Begun, IsText
  <2> QED BY <2>1
<1>1. SameResult(u, a, b)
  BY ReadNameBegun
<1>2. Onward(u, q, a.s) /\ a.s \in Cursor
  BY <1>0, ReadNameOnward DEF Onward
<1> HIDE DEF a, b
<1>3. CASE Lost(u, a.s)
  <2>1. Named(u, Reading(u), a).s.errs # {}
    BY <1>0, <1>2, <1>3, NamedLost
  <2>2. SameContainer(u, Named(u, Reading(u), a), Named(t, Reading(t), b))
    BY <2>1 DEF SameContainer
  <2> QED BY <2>2 DEF a, b
<1>4. CASE ~Lost(u, a.s)
  <2> DEFINE c == SkipWS(u, a.s)
             d == SkipWS(t, a.s)
             text1 == a.text
  <2>1. a = b
    BY <1>1, <1>4 DEF SameResult
  <2>2. a.s.p # End(u) /\ a.s.p # End(t)
    <3>1. a.s.p \in Nat /\ a.s.p <= Len(u) /\ a.s.p <= Len(t) /\ Len(t) \in Nat
      BY <1>2, <1>4, NotLost DEF Begun, IsText
    <3> QED BY <1>0, <3>1 DEF End
  <2>3. Named(u, Reading(u), a) = BehindName(u, Reading(u), text1, c)
        /\ Named(t, Reading(t), b) = BehindName(t, Reading(t), text1, d)
    BY <2>1, <2>2 DEF Named
  <2>4. Same(u, c, d)
    BY <1>2, <1>4, SkipWSBegun
  <2>5. Onward(u, a.s, c) /\ c \in Cursor
    BY <1>0, <1>2, SkipWSOnward DEF Onward
  <2> HIDE DEF c, d, text1
  <2>6. CASE Lost(u, c)
    <3>1. BehindName(u, Reading(u), text1, c).s.errs # {}
      BY <1>0, <2>5, <2>6, BehindNameLost
    <3>2. SameContainer(u, Named(u, Reading(u), a), Named(t, Reading(t), b))
      BY <2>3, <3>1 DEF SameContainer
    <3> QED BY <3>2 DEF a, b
  <2>7. CASE ~Lost(u, c)
    <3>1. c = d
      BY <2>4, <2>7 DEF Same
    <3>2. c.p >= s.p
      <4>1. c.p >= a.s.p /\ a.s.p >= q.p /\ a.s.p \in Nat /\ c.p \in Nat
        BY <1>2, <2>5, CursorFields DEF Onward
      <4> QED BY <1>0, <4>1
    <3>3. SameContainer(u, BehindName(u, Reading(u), text1, c), BehindName(t, Reading(t), text1, c))
      BY <1>0, <2>5, <2>7, <3>2, BehindNameBegun
    <3>4. SameContainer(u, Named(u, Reading(u), a), Named(t, Reading(t), b))
      BY <2>3, <3>1, <3>3
    <3> QED BY <3>4 DEF a, b
  <2> QED BY <2>6, <2>7
<1> QED BY <1>3, <1>4

(* A container, from behind its separator on, in u and in t.                *)
LEMMA InnerBegun ==
  ASSUME NEW u, NEW t, Begun(u, t), NEW part \in Parts \ {"value"}, NEW s \in Cursor,
         AlikeBelow(u, t, part, s), NEW q \in Cursor, q.p >= s.p, ~Lost(u, q),
         ~Over(u, q, part) => Moved(u, s, q)
  PROVE  SameContainer(u, Inner(u, q, part), Inner(t, q, part))
<1>1. /\ Over(u, q, part) <=> Over(t, q, part)
      /\ Ended(u, q) = Ended(t, q) /\ Ended(u, q).s.p <= Len(u) + 1
  BY EndedBegun
<1>2. CASE Over(u, q, part)
  <2>1. Inner(u, q, part) = Ended(u, q) /\ Inner(t, q, part) = Ended(t, q)
    BY <1>1, <1>2, InnerOver
  <2> QED BY <1>1, <2>1 DEF SameContainer
<1>3. CASE ~Over(u, q, part) /\ part \in {"array", "items"}
  <2> DEFINE a == Reading(u)[<<"value", q>>]
             b == Reading(t)[<<"value", q>>]
  <2>1. part \notin {"object", "members"}
    BY <1>3
  <2>2. Inner(u, q, part) = Element(u, Reading(u), q, part) /\ Inner(t, q, part) = Element(t, Reading(t), q, part)
    BY <2>1, InnerKinds
  <2>3. Inner(u, q, part) = Item(u, Reading(u), a) /\ Inner(t, q, part) = Item(t, Reading(t), b)
    BY <1>1, <1>3, <2>2 DEF Element
  <2>4. SameContainer(u, Item(u, Reading(u), a), Item(t, Reading(t), b))
    BY <1>3, ItemBegun
  <2> QED BY <2>3, <2>4
<1>4. CASE ~Over(u, q, part) /\ part \in {"object", "members"}
  <2>1. part \notin {"array", "items"}
    BY <1>4
  <2>2. Inner(u, q, part) = NamedElement(u, Reading(u), q, part)
        /\ Inner(t, q, part) = NamedElement(t, Reading(t), q, part)
    BY <2>1, InnerKinds
  <2>3. Inner(u, q, part) = Named(u, Reading(u), ReadName(u, q))
        /\ Inner(t, q, part) = Named(t, Reading(t), ReadName(t, q))
    BY <1>1, <1>4, <2>2 DEF NamedElement
  <2>4. SameContainer(u, Named(u, Reading(u), ReadName(u, q)), Named(t, Reading(t), ReadName(t, q)))
    BY <1>4, NamedBegun
  <2> QED BY <2>3, <2>4
<1> QED BY <1>2, <1>3, <1>4 DEF Parts

(* A container.                                                             *)
LEMMA ContainerBegun ==
  ASSUME NEW u, NEW t, Begun(u, t), NEW part \in Parts \ {"value"}, NEW s \in Cursor,
         AlikeBelow(u, t, part, s), ~Lost(u, s)
  PROVE  SameContainer(u, Reading(u)[<<part, s>>], Reading(t)[<<part, s>>])
<1> DEFINE w == SkipWS(u, s)
           q == Separator(u, w, part)
           v == SkipWS(t, s)
           r == Separator(t, v, part)
           a == Reading(u)[<<part, s>>]
           b == Reading(t)[<<part, s>>]
<1>0. IsText(u) /\ IsText(t) /\ part \in Parts /\ part # "value" /\ s.p \in Nat
  BY CursorFields DEF Begun
<1>1. Onward(u, s, w) /\ w \in Cursor /\ (w.p > Len(u) \/ Still(u, w.p)) /\ Same(u, w, v)
  BY <1>0, SkipWSOnward, SkipWSBegun DEF Onward
<1>2. a = Inner(u, q, part) /\ b = Inner(t, r, part)
  BY <1>0, InnerIs
<1> HIDE DEF w, v, a, b
<1>3. /\ Onward(u, w, q) /\ q \in Cursor
      /\ ~Over(u, q, part) => q.p <= Len(u) /\ (q.p > w.p \/ (Still(u, q.p) /\ At(u, q.p) # ","))
  BY <1>0, <1>1, SeparatorOnward DEF Onward
<1>4. CASE Lost(u, q)
  <2> HIDE DEF q
  <2>1. a.s.errs # {}
    BY <1>0, <1>2, <1>3, <1>4, InnerLost
  <2>2. SameContainer(u, a, b)
    BY <2>1 DEF SameContainer
  <2> QED BY <2>2 DEF a, b
<1>5. CASE ~Lost(u, q)
  <2>1. ~Lost(u, w)
    BY <1>0, <1>1, <1>3, <1>5, LostStays
  <2>2. w = v
    BY <1>1, <2>1 DEF Same
  <2>3. q = r
    <3>1. Same(u, q, Separator(t, w, part))
      BY <1>0, <1>1, <2>1, SeparatorBegun
    <3> QED BY <1>5, <2>2, <3>1 DEF Same
  <2> HIDE DEF q, r
  <2>4. q.p >= s.p /\ (q.p > w.p => q.p > s.p)
    <3>1. w.p >= s.p /\ q.p >= w.p /\ w.p \in Nat /\ q.p \in Nat
      BY <1>1, <1>3, CursorFields DEF Onward
    <3> QED BY <1>0, <3>1
  <2>5. ~Over(u, q, part) => Moved(u, s, q)
    BY <1>3, <2>4, Zenon DEF Moved
  <2>6. SameContainer(u, Inner(u, q, part), Inner(t, q, part))
    BY <1>3, <1>5, <2>4, <2>5, InnerBegun
  <2>7. SameContainer(u, a, b)
    BY <1>2, <2>3, <2>6
  <2> QED BY <2>7 DEF a, b
<1> QED BY <1>4, <1>5

(* A value that is a container.                                             *)
LEMMA ContainerValueBegun ==
  ASSUME NEW u, NEW t, Begun(u, t), NEW s \in Cursor, AlikeBelow(u, t, "value", s),
         NEW q \in Cursor, q.p >= s.p, ~Lost(u, q), NEW part \in {"array", "object"}, NEW kind
  PROVE  SameResult(u, Container(kind, Reading(u)[<<part, Forward(q)>>]),
                    Container(kind, Reading(t)[<<part, Forward(q)>>]))
<1> DEFINE w == Forward(q)
           a == Reading(u)[<<part, w>>]
           b == Reading(t)[<<part, w>>]
<1>0. /\ IsText(u) /\ part \in Parts \ {"value"} /\ part \in Parts /\ "value" \in Parts
      /\ s.p \in Nat /\ q.p \in Nat /\ q.p <= Len(u)
  BY NotLost, CursorFields DEF Begun, Parts
<1>1. w \in Cursor /\ w.p > q.p
  BY <1>0, ForwardOnward
<1> HIDE DEF w
<1>2. Container(kind, a).s = a.s
  BY ReturnFields DEF Container
<1>3. SameContainer(u, a, b)
  <2>1. CASE Lost(u, w)
    <3>1. a.s.errs # {}
      BY <1>0, <1>1, <2>1, LostFails
    <3> QED BY <3>1 DEF SameContainer
  <2>2. CASE ~Lost(u, w)
    <3>1. w.p > s.p /\ s.p <= Len(u)
      <4>1. w.p \in Nat /\ Len(u) \in Nat
        BY <1>0, <1>1, CursorFields DEF IsText
      <4> QED BY <1>0, <1>1, <4>1
    <3>2. Size(u)[<<part, w>>] < Size(u)[<<"value", s>>]
      BY <1>0, <1>1, <3>1, SizeShrinks
    <3> QED BY <1>0, <1>1, <2>2, <3>2, ContainerAlike
  <2> QED BY <2>1, <2>2
<1> HIDE DEF a, b
<1>4. SameResult(u, Container(kind, a), Container(kind, b))
  <2>1. CASE a.s.errs # {}
    BY <1>2, <2>1 DEF SameResult, Lost
  <2>2. CASE a = b
    BY <2>2 DEF SameResult
  <2> QED BY <1>3, <2>1, <2>2 DEF SameContainer
<1> QED BY <1>4 DEF a, b, w

(* A value, behind the white space.                                         *)
LEMMA ValueAtBegun ==
  ASSUME NEW u, NEW t, Begun(u, t), NEW s \in Cursor, AlikeBelow(u, t, "value", s),
         NEW q \in Cursor, q.p >= s.p, ~Lost(u, q)
  PROVE  SameResult(u, ValueAt(u, Reading(u), q), ValueAt(t, Reading(t), q))
<1> DEFINE c == At(u, q.p)
<1>0. At(t, q.p) = c
  BY NotLost
<1> HIDE DEF c
<1>1. CASE c = "quote"
  <2> DEFINE a == ReadString(u, q)
             b == ReadString(t, q)
  <2>1. c # "[" /\ c # "{" /\ c \notin Literals \cup {"n", "hex"} /\ c \notin {"sign", "digit"}
    BY <1>1 DEF Literals
  <2>2. ValueAt(u, Reading(u), q) = StringValue(a) /\ ValueAt(t, Reading(t), q) = StringValue(b)
    BY <1>0, <1>1, <2>1, Zenon DEF ValueAt, c
  <2>3. SameResult(u, a, b)
    BY ReadStringBegun
  <2> HIDE DEF a, b
  <2>4. StringValue(a).s = a.s
    BY ReturnFields DEF StringValue
  <2>5. SameResult(u, StringValue(a), StringValue(b))
    BY <2>3, <2>4 DEF SameResult
  <2> QED BY <2>2, <2>5
<1>2. CASE c = "["
  <2>1. c # "quote" /\ c # "{" /\ c \notin Literals \cup {"n", "hex"} /\ c \notin {"sign", "digit"}
    BY <1>2 DEF Literals
  <2>2. ValueAt(u, Reading(u), q) = Container("array", Reading(u)[<<"array", Forward(q)>>])
        /\ ValueAt(t, Reading(t), q) = Container("array", Reading(t)[<<"array", Forward(q)>>])
    BY <1>0, <1>2, <2>1, Zenon DEF ValueAt, c
  <2> QED BY <2>2, ContainerValueBegun
<1>3. CASE c = "{"
  <2>1. c # "quote" /\ c # "[" /\ c \notin Literals \cup {"n", "hex"} /\ c \notin {"sign", "digit"}
    BY <1>3 DEF Literals
  <2>2. ValueAt(u, Reading(u), q) = Container("object", Reading(u)[<<"object", Forward(q)>>])
        /\ ValueAt(t, Reading(t), q) = Container("object", Reading(t)[<<"object", Forward(q)>>])
    BY <1>0, <1>3, <2>1, Zenon DEF ValueAt, c
  <2> QED BY <2>2, ContainerValueBegun
<1>4. CASE c \in Literals \cup {"n", "hex"}
  <2>1. c # "quote" /\ c # "[" /\ c # "{" /\ c \notin {"sign", "digit"}
    BY <1>4 DEF Literals
  <2>2. ValueAt(u, Reading(u), q) = ReadLit(u, q) /\ ValueAt(t, Reading(t), q) = ReadLit(t, q)
    BY <1>0, <1>4, <2>1, Zenon DEF ValueAt, c
  <2>3. ReadLit(u, q) = ReadLit(t, q)
    BY <1>0, Zenon DEF ReadLit, c
  <2> QED BY <2>2, <2>3 DEF SameResult
<1>5. CASE c \in {"sign", "digit"}
  <2>1. c # "quote" /\ c # "[" /\ c # "{" /\ c \notin Literals \cup {"n", "hex"}
    BY <1>5 DEF Literals
  <2>2. ValueAt(u, Reading(u), q) = ReadNum(u, q) /\ ValueAt(t, Reading(t), q) = ReadNum(t, q)
    BY <1>0, <1>5, <2>1, Zenon DEF ValueAt, c
  <2> QED BY <2>2, ReadNumBegun
<1>6. CASE /\ c # "quote" /\ c # "[" /\ c # "{"
           /\ c \notin Literals \cup {"n", "hex"} /\ c \notin {"sign", "digit"}
  <2>1. ValueAt(u, Reading(u), q) = Return(q, Undefined) /\ ValueAt(t, Reading(t), q) = Return(q, Undefined)
    BY <1>0, <1>6, Zenon DEF ValueAt, c
  <2> QED BY <2>1 DEF SameResult
<1> QED BY <1>1, <1>2, <1>3, <1>4, <1>5, <1>6, Zenon

(* A value.                                                                 *)
LEMMA ValueBegun ==
  ASSUME NEW u, NEW t, Begun(u, t), NEW s \in Cursor, AlikeBelow(u, t, "value", s), ~Lost(u, s)
  PROVE  SameResult(u, Reading(u)[<<"value", s>>], Reading(t)[<<"value", s>>])
<1> DEFINE w == SkipWS(u, s)
           v == SkipWS(t, s)
           a == Reading(u)[<<"value", s>>]
           b == Reading(t)[<<"value", s>>]
<1>0. IsText(u) /\ IsText(t) /\ "value" \in Parts
  BY DEF Begun, Parts
<1>1. Onward(u, s, w) /\ w \in Cursor /\ w.p >= s.p /\ Same(u, w, v)
  BY <1>0, SkipWSOnward, SkipWSBegun DEF Onward
<1>2. a = ValueAt(u, Reading(u), w) /\ b = ValueAt(t, Reading(t), v)
  <2>1. a = Inner(u, w, "value") /\ b = Inner(t, v, "value")
    BY <1>0, InnerIs
  <2> HIDE DEF a, b, w, v
  <2>2. "value" \notin {"array", "items"} /\ "value" \notin {"object", "members"}
    OBVIOUS
  <2> QED BY <2>1, <2>2, Zenon DEF Inner
<1>3. Onward(u, w, a.s)
  <2> DEFINE y == <<"value", s>>
  <2>1. y \in Task /\ y[1] = "value" /\ y[2] = s
    BY <1>0 DEF Task
  <2> HIDE DEF y
  <2>2. Good(u, y, Reading(u)[y])
    BY <1>0, <2>1, ReadingGood
  <2>3. Onward(u, w, Reading(u)[y].s)
    BY <2>1, <2>2 DEF Good, Valued
  <2> QED BY <2>3 DEF y
<1> HIDE DEF w, v, a, b
<1>4. CASE Lost(u, w)
  <2>1. Lost(u, a.s)
    BY <1>0, <1>1, <1>3, <1>4, LostStays
  <2>2. SameResult(u, a, b)
    BY <2>1 DEF SameResult
  <2> QED BY <2>2 DEF a, b
<1>5. CASE ~Lost(u, w)
  <2>1. w = v
    BY <1>1, <1>5 DEF Same
  <2>2. SameResult(u, ValueAt(u, Reading(u), w), ValueAt(t, Reading(t), w))
    BY <1>1, <1>5, ValueAtBegun
  <2>3. SameResult(u, a, b)
    BY <1>2, <2>1, <2>2
  <2> QED BY <2>3 DEF a, b
<1> QED BY <1>4, <1>5

(* Every part of u is read as in t, as far as there is one.                 *)
LEMMA ReadingBegun ==
  ASSUME NEW u, NEW t, Begun(u, t)
  PROVE  \A part \in Parts, s \in Cursor : Alike(u, t, part, s)
<1> DEFINE T == {x \in Task : Alike(u, t, x[1], x[2])}
<1>0. IsText(u)
  BY DEF Begun
<1>1. ASSUME NEW x \in Task, \A y \in Task : Size(u)[y] < Size(u)[x] => y \in T PROVE x \in T
  <2> DEFINE part == x[1]
             s == x[2]
  <2>1. part \in Parts /\ s \in Cursor /\ x = <<part, s>>
    BY TaskParts
  <2>2. AlikeBelow(u, t, part, s)
    <3>1. ASSUME NEW a \in Parts, NEW q \in Cursor, Size(u)[<<a, q>>] < Size(u)[x]
          PROVE  Alike(u, t, a, q)
      <4> DEFINE y == <<a, q>>
      <4>1. y \in Task /\ y[1] = a /\ y[2] = q
        BY DEF Task
      <4> HIDE DEF y
      <4>2. Size(u)[y] < Size(u)[x]
        BY <3>1 DEF y
      <4>3. y \in T
        BY <1>1, <4>1, <4>2
      <4> QED BY <4>1, <4>3
    <3> HIDE DEF part, s
    <3> QED BY <2>1, <3>1 DEF AlikeBelow
  <2> HIDE DEF part, s
  <2>3. Alike(u, t, part, s)
    <3>1. CASE part = "value"
      <4>1. ~Lost(u, s) => SameResult(u, Reading(u)[<<"value", s>>], Reading(t)[<<"value", s>>])
        BY <2>1, <2>2, <3>1, ValueBegun
      <4> QED BY <3>1, <4>1 DEF Alike
    <3>2. CASE part # "value"
      <4>1. ~Lost(u, s) => SameContainer(u, Reading(u)[<<part, s>>], Reading(t)[<<part, s>>])
        BY <2>1, <2>2, <3>2, ContainerBegun
      <4> QED BY <3>2, <4>1 DEF Alike
    <3> QED BY <3>1, <3>2
  <2> QED BY <2>3 DEF part, s
<1> HIDE DEF T
<1>2. \A x \in Task : x \in T
  <2>1. Size(u) \in [Task -> Nat]
    BY <1>0, SizeShrinks
  <2> QED BY <1>1, <2>1, Descent
<1>3. ASSUME NEW part \in Parts, NEW s \in Cursor PROVE Alike(u, t, part, s)
  <2> DEFINE x == <<part, s>>
  <2>1. x \in Task /\ x[1] = part /\ x[2] = s
    BY DEF Task
  <2> HIDE DEF x
  <2>2. x \in T
    BY <1>2, <2>1
  <2> QED BY <2>1, <2>2 DEF T
<1> QED BY <1>3

(* What getvalue has read, by the symbol it began with: a container begins  *)
(* with a bracket.                                                          *)
LEMMA ContainerBegins ==
  ASSUME NEW t, NEW s, LET v == ValueAt(t, Reading(t), s).v IN IsArray(v) \/ IsObject(v)
  PROVE  At(t, s.p) \in {"[", "{"}
<1> DEFINE c == At(t, s.p)
           r == ValueAt(t, Reading(t), s)
<1>0. r.v[1] \in {"array", "object"}
  BY DEF IsArray, IsObject
<1>1. CASE c = "quote"
  <2>1. r = StringValue(ReadString(t, s))
    <3>1. c # "[" /\ c # "{" /\ c \notin Literals \cup {"n", "hex"} /\ c \notin {"sign", "digit"}
      BY <1>1 DEF Literals
    <3> QED BY <1>1, <3>1, Zenon DEF ValueAt
  <2>2. r.v[1] = "string"
    BY <2>1, ReturnFields DEF StringValue
  <2> QED BY <1>0, <2>2
<1>2. CASE c \in Literals \cup {"n", "hex"}
  <2>1. r = ReadLit(t, s)
    <3>1. c # "quote" /\ c # "[" /\ c # "{" /\ c \notin {"sign", "digit"}
      BY <1>2 DEF Literals
    <3> QED BY <1>2, <3>1, Zenon DEF ValueAt
  <2>2. r.v[1] = "literal" \/ r.v[1] = "undefined"
    BY <2>1, ReturnFields DEF ReadLit, Undefined
  <2> QED BY <1>0, <2>2
<1>3. CASE c \in {"sign", "digit"}
  <2>1. r = ReadNum(t, s)
    <3>1. c # "quote" /\ c # "[" /\ c # "{" /\ c \notin Literals \cup {"n", "hex"}
      BY <1>3 DEF Literals
    <3> QED BY <1>3, <3>1, Zenon DEF ValueAt
  <2>2. r.v[1] = "number"
    BY <2>1, ReturnFields DEF ReadNum, Number
  <2> QED BY <1>0, <2>2
<1>4. CASE /\ c # "quote" /\ c # "[" /\ c # "{"
           /\ c \notin Literals \cup {"n", "hex"} /\ c \notin {"sign", "digit"}
  <2>1. r = Return(s, Undefined)
    BY <1>4, Zenon DEF ValueAt
  <2>2. r.v[1] = "undefined"
    BY <2>1, ReturnFields DEF Undefined
  <2> QED BY <1>0, <2>2
<1> QED BY <1>1, <1>2, <1>3, <1>4, Zenon

(* At the end of the text, and at a last slash, no value begins.            *)
LEMMA NothingBegins ==
  ASSUME NEW u, IsText(u), NEW s \in Cursor, Lost(u, s), s.errs = {}
  PROVE  ValueAt(u, Reading(u), s) = Return(s, Undefined)
<1> DEFINE c == At(u, s.p)
<1>1. c \in {"nul", "/"}
  <2>1. CASE s.p > Len(u)
    <3>1. s.p \notin DOMAIN u
      BY <2>1, CursorFields DEF IsText
    <3> QED BY <3>1 DEF At
  <2>2. CASE s.p = Len(u) /\ u[s.p] = "/"
    BY <2>2, LastSlash
  <2> QED BY <2>1, <2>2 DEF Lost
<1> HIDE DEF c
<1>2. /\ c # "quote" /\ c # "[" /\ c # "{"
      /\ c \notin Literals \cup {"n", "hex"} /\ c \notin {"sign", "digit"}
  BY <1>1 DEF Literals
<1> QED BY <1>2, Zenon DEF ValueAt, c

(* Numbers.                                                                 *)
LEMMA NotBehind == \A x, y \in Nat : x <= y + 1 => ~(x > y + 1)
OBVIOUS

(* A container is read as one from its bracket on, or reports an error, or  *)
(* is in u as a whole.                                                      *)
LEMMA ContainerTorn ==
  ASSUME NEW u, NEW t, Begun(u, t), NEW w \in Cursor, ~Lost(u, w), At(t, w.p) \in {"[", "{"},
         ValueAt(t, Reading(t), w).s.p > Len(u) + 1
  PROVE  ValueAt(u, Reading(u), w).s.errs # {}
<1>0. IsText(u) /\ At(u, w.p) = At(t, w.p) /\ w.p <= Len(u)
  <2>1. IsText(u)
    BY DEF Begun
  <2> QED BY <2>1, NotLost
<1>1. Forward(w) \in Cursor
  BY <1>0, ForwardOnward
<1>2. PICK part \in {"array", "object"} :
        /\ ValueAt(u, Reading(u), w) = Container(part, Reading(u)[<<part, Forward(w)>>])
        /\ ValueAt(t, Reading(t), w) = Container(part, Reading(t)[<<part, Forward(w)>>])
  <2> DEFINE c == At(t, w.p)
  <2>1. CASE c = "["
    <3>1. c # "quote" /\ c # "{" /\ c \notin Literals \cup {"n", "hex"} /\ c \notin {"sign", "digit"}
      BY <2>1 DEF Literals
    <3>2. /\ ValueAt(u, Reading(u), w) = Container("array", Reading(u)[<<"array", Forward(w)>>])
          /\ ValueAt(t, Reading(t), w) = Container("array", Reading(t)[<<"array", Forward(w)>>])
      BY <1>0, <2>1, <3>1, Zenon DEF ValueAt
    <3> QED BY <3>2
  <2>2. CASE c = "{"
    <3>1. c # "quote" /\ c # "[" /\ c \notin Literals \cup {"n", "hex"} /\ c \notin {"sign", "digit"}
      BY <2>2 DEF Literals
    <3>2. /\ ValueAt(u, Reading(u), w) = Container("object", Reading(u)[<<"object", Forward(w)>>])
          /\ ValueAt(t, Reading(t), w) = Container("object", Reading(t)[<<"object", Forward(w)>>])
      BY <1>0, <2>2, <3>1, Zenon DEF ValueAt
    <3> QED BY <3>2
  <2> QED BY <2>1, <2>2
<1> DEFINE a == Reading(u)[<<part, Forward(w)>>]
           b == Reading(t)[<<part, Forward(w)>>]
<1>3. ValueAt(u, Reading(u), w).s = a.s /\ ValueAt(t, Reading(t), w).s = b.s
  <2>1. \A k, r : Container(k, r).s = r.s
    BY ReturnFields DEF Container
  <2> QED BY <1>2, <2>1
<1>4. part \in Parts \ {"value"} /\ part \in Parts /\ part # "value"
  BY DEF Parts
<1>5. CASE Lost(u, Forward(w))
  <2>1. a.s.errs # {}
    BY <1>0, <1>1, <1>4, <1>5, LostFails
  <2> QED BY <1>3, <2>1
<1>6. CASE ~Lost(u, Forward(w))
  <2>1. Alike(u, t, part, Forward(w))
    BY <1>1, <1>4, ReadingBegun
  <2>2. SameContainer(u, a, b)
    BY <1>4, <1>6, <2>1 DEF Alike
  <2> HIDE DEF a, b
  <2>3. b.s.p > Len(u) + 1
    BY <1>3
  <2>4. CASE a = b /\ a.s.p <= Len(u) + 1
    <3>1. Onward(u, Forward(w), a.s)
      BY <1>0, <1>1, <1>4, ReadingOnward DEF a
    <3>2. a.s.p \in Nat
      BY <3>1, CursorFields DEF Onward
    <3>3. b.s.p <= Len(u) + 1 /\ b.s.p \in Nat /\ Len(u) \in Nat
      BY <1>0, <2>4, <3>2 DEF IsText
    <3> QED BY <2>3, <3>3, NotBehind, Zenon
  <2> QED BY <1>3, <2>2, <2>4 DEF SameContainer
<1> QED BY <1>5, <1>6

(* What is left of a text.                                                  *)
LEMMA TornIsBegun ==
  ASSUME NEW t \in Seq(Symbol), NEW n \in Nat, n <= Len(t)
  PROVE  LET u == SubSeq(t, 1, n)
         IN  u \in Seq(Symbol) /\ Len(u) = n /\ Begun(u, t)
<1> DEFINE u == SubSeq(t, 1, n)
<1>1. u \in Seq(Symbol) /\ Len(u) = n /\ \A i \in 1 .. n : u[i] = t[i]
  OBVIOUS
<1> HIDE DEF u
<1>2. IsText(u) /\ IsText(t)
  BY <1>1, TextIsText
<1> QED BY <1>1, <1>2 DEF Begun, u

(* A text of an array or object that is torn off anywhere before the last   *)
(* symbol of the container is never taken for a document: an error is       *)
(* reported, or nothing but white space and a comment was left and the      *)
(* value is undefined.                                                      *)
THEOREM TornContainerFails ==
  ASSUME NEW t \in Seq(Symbol), IsArray(Parse(t).v) \/ IsObject(Parse(t).v),
         NEW n \in Nat, n + 1 < Parse(t).s.p
  PROVE  LET torn == Parse(SubSeq(t, 1, n)) IN Fail(torn) \/ torn.v = Undefined
<1> DEFINE u == SubSeq(t, 1, n)
           w == SkipWS(u, Start)
           v == SkipWS(t, Start)
<1>1. n <= Len(t)
  <2>1. Parse(t).s.p \in Nat /\ Parse(t).s.p <= Len(t) + 2
    BY ParserStaysInText, CursorFields DEF Inside
  <2> QED BY <2>1
<1>2. u \in Seq(Symbol) /\ Len(u) = n /\ Begun(u, t)
  BY <1>1, TornIsBegun
<1> HIDE DEF u
<1>3. IsText(u) /\ IsText(t) /\ Start \in Cursor
  BY <1>2, StartIsCursor DEF Begun
<1>4. Parse(u) = ValueAt(u, Reading(u), w) /\ Parse(t) = ValueAt(t, Reading(t), v)
  <2>1. /\ Parse(u) = ReadPart(u, Reading(u), "value", Start)
        /\ Parse(t) = ReadPart(t, Reading(t), "value", Start)
    BY <1>3, ReadingOnward DEF Parse, GetValue, Parts
  <2>2. "value" \notin {"array", "items"} /\ "value" \notin {"object", "members"}
    OBVIOUS
  <2> QED BY <2>1, <2>2, Zenon DEF ReadPart
<1>5. Onward(u, Start, w) /\ w \in Cursor
  BY <1>3, SkipWSOnward DEF Onward
<1>6. Onward(t, Start, v) /\ v \in Cursor
  BY <1>3, SkipWSOnward DEF Onward
<1>7. Lost(u, w) \/ w = v
  <2>1. CASE Lost(u, Start)
    BY <1>3, <1>5, <2>1, LostStays
  <2>2. CASE ~Lost(u, Start)
    BY <1>2, <1>3, <2>2, SkipWSBegun DEF Same
  <2> QED BY <2>1, <2>2
<1> HIDE DEF w, v
<1>8. CASE w.errs # {}
  <2>1. Onward(u, w, ValueAt(u, Reading(u), w).s)
    <3>1. w.p \in Nat /\ w.p >= w.p /\ "value" \in Parts
      BY <1>5, CursorFields DEF Parts
    <3>2. AgreeBelow(u, "value", w, Reading(u), Reading(u))
      BY <1>3, <1>5, <3>1, ReadingOnward
    <3> QED BY <1>3, <1>5, <3>1, <3>2, ValueAtValued DEF Valued
  <2>2. Fail(Parse(u))
    BY <1>4, <1>8, <2>1, ErrorsStay DEF Fail
  <2> QED BY <2>2 DEF u
<1>9. CASE Lost(u, w) /\ w.errs = {}
  <2>1. Parse(u).v = Undefined
    BY <1>3, <1>4, <1>5, <1>9, NothingBegins, ReturnFields
  <2> QED BY <2>1 DEF u
<1>10. CASE ~Lost(u, w)
  <2>1. At(t, w.p) \in {"[", "{"}
    BY <1>4, <1>7, <1>10, ContainerBegins
  <2>2. ValueAt(t, Reading(t), w).s.p > Len(u) + 1
    <3>1. Parse(t).s.p > n + 1
      <4>1. Parse(t).s.p \in Nat
        BY ParserStaysInText, CursorFields
      <4> QED BY <4>1
    <3> QED BY <1>2, <1>4, <1>7, <1>10, <3>1
  <2>3. Fail(Parse(u))
    BY <1>2, <1>4, <1>5, <1>10, <2>1, <2>2, ContainerTorn DEF Fail
  <2> QED BY <2>3 DEF u
<1> QED BY <1>8, <1>9, <1>10

-----------------------------------------------------------------------------
(* The texts of documents.                                                  *)

(* The texts of a value that nothing has happened to, or only a comment.    *)
Whole(d) == {Dump(d, <<"ws">>), Dump(d, <<>>)}
ArrivesWhole(d, t) ==
  \/ t \in Whole(d)
  \/ \E s \in Whole(d), comment \in Comments :
       \E i \in Gaps(s) : t = Commented(s, i, comment)

(* A text is read as an array or an object, up to its last bracket.         *)
ReadWhole(t) ==
  /\ IsArray(Parse(t).v) \/ IsObject(Parse(t).v)
  /\ ~Open(t, Parse(t).s.p - 1)

(* ReadsBack, of the arrays and the objects among the values: what it says  *)
(* of the texts that arrive as they were printed or with a comment.         *)
DocumentsAreRead ==
  \A d \in Docs, t \in Seq(Symbol) :
    (IsArray(d) \/ IsObject(d)) /\ ArrivesWhole(d, t) => ReadWhole(t)

(* A text is not taken for a document.                                      *)
Refused(t) == Fail(Parse(t)) \/ Parse(t).v = Undefined

(* Torn off before a bracket, the text of a document is refused.            *)
LEMMA CutRefused ==
  ASSUME NEW t \in Seq(Symbol), ReadWhole(t), NEW n \in 0 .. Len(t), Open(t, n)
  PROVE  Refused(SubSeq(t, 1, n))
<1>1. Parse(t).s.p \in Nat
  BY ParserStaysInText, CursorFields
<1>2. n + 1 < Parse(t).s.p
  <2> DEFINE p == Parse(t).s.p
  <2>1. PICK i \in (n + 1) .. Len(t) : t[i] \in {"]", "}"}
    BY DEF Open
  <2>2. \A k \in (p - 1 + 1) .. Len(t) : t[k] \notin {"]", "}"}
    BY DEF ReadWhole, Open
  <2> HIDE DEF p
  <2>3. p \in Nat
    BY <1>1 DEF p
  <2>4. i \in Nat /\ n + 1 <= i /\ i <= Len(t) /\ Len(t) \in Nat
    OBVIOUS
  <2>5. ~(p - 1 + 1 <= i)
    <3>1. p - 1 + 1 <= i => i \in (p - 1 + 1) .. Len(t)
      BY <2>3, <2>4
    <3> QED BY <2>1, <2>2, <3>1, Zenon
  <2>6. n + 1 < p
    BY <2>3, <2>4, <2>5
  <2> QED BY <2>6 DEF p
<1>3. n \in Nat
  OBVIOUS
<1> QED BY <1>2, <1>3, TornContainerFails DEF ReadWhole, Refused

(* Until something other than a comment happens to a printed text it is     *)
(* whole, and one that is torn off is refused.                              *)
TornIsRefused ==
  /\ ReadIsParsed
  /\ edits \subseteq {"comment"} => doc \in Docs /\ ArrivesWhole(doc, text)
  /\ edits = {} => text \in Whole(doc)
  /\ "cut" \in edits => Refused(text)

(* At first a printed text is whole.                                        *)
LEMMA InitTornIsRefused == Init => TornIsRefused
<1> SUFFICES ASSUME Init PROVE TornIsRefused
  OBVIOUS
<1>1. ReadIsParsed
  BY InitReadIsParsed
<1>2. \/ doc \in Docs /\ text \in Whole(doc) /\ edits = {}
      \/ edits = {"written"}
  BY DEF Init, Whole
<1>3. "written" # "comment" /\ "written" # "cut"
  OBVIOUS
<1> QED BY <1>1, <1>2, <1>3 DEF TornIsRefused, ArrivesWhole

(* Only a cut tears it off.                                                 *)
LEMMA NextTornIsRefused ==
  ASSUME DocumentsAreRead, TornIsRefused, [Next]_vars
  PROVE  TornIsRefused'
<1>0. ReadIsParsed
  BY DEF TornIsRefused
<1>1. ReadIsParsed'
  BY <1>0, NextReadIsParsed
<1>2. CASE Cut
  <2>1. PICK n \in 0 .. Len(text) : Open(text, n) /\ Edit("cut", SubSeq(text, 1, n))
    BY <1>2 DEF Cut
  <2>2. /\ text \in Seq(Symbol) /\ (IsArray(doc) \/ IsObject(doc))
        /\ doc \in Docs /\ ArrivesWhole(doc, text)
    BY <1>0, <1>2 DEF Cut, ReadIsParsed, TornIsRefused
  <2>3. ReadWhole(text)
    BY <2>2 DEF DocumentsAreRead
  <2>4. Refused(SubSeq(text, 1, n))
    BY <2>1, <2>2, <2>3, CutRefused
  <2>5. doc' = doc /\ text' = SubSeq(text, 1, n) /\ edits' = edits \cup {"cut"}
    BY <2>1 DEF Edit
  <2>6. Refused(text)'
    BY <2>4, <2>5 DEF Refused
  <2> QED BY <1>0, <1>1, <2>5, <2>6 DEF TornIsRefused
<1>3. CASE AddComment
  <2>1. PICK i \in Gaps(text), comment \in Comments : Edit("comment", Commented(text, i, comment))
    BY <1>3 DEF AddComment
  <2>2. edits = {} /\ text \in Whole(doc) /\ doc \in Docs
    BY <1>3 DEF AddComment, TornIsRefused
  <2>3. ArrivesWhole(doc, Commented(text, i, comment))
    BY <2>2 DEF ArrivesWhole
  <2>4. doc' = doc /\ text' = Commented(text, i, comment) /\ edits' = {"comment"}
    BY <2>1, <2>2 DEF Edit
  <2>5. (doc \in Docs /\ ArrivesWhole(doc, text))'
    BY <2>2, <2>3, <2>4
  <2> QED BY <1>0, <1>1, <2>4, <2>5 DEF TornIsRefused
<1>4. CASE LeaveTail \/ Stray
  <2>1. doc' = doc /\ edits = {} /\ edits' \in {{"tail"}, {"stray"}}
    BY <1>4 DEF LeaveTail, Stray, Edit
  <2> QED BY <1>0, <1>1, <2>1 DEF TornIsRefused
<1>5. CASE Read \/ UNCHANGED vars
  <2>1. UNCHANGED <<doc, text, edits>>
    BY <1>5 DEF Read, vars
  <2> QED BY <1>1, <2>1 DEF TornIsRefused, Refused, ArrivesWhole
<1> QED BY <1>2, <1>3, <1>4, <1>5 DEF Next

(* What is read of it is what the parser makes of it.                       *)
LEMMA TornIsRefusedFails == TornIsRefused => TornTextFails
BY DEF TornIsRefused, ReadIsParsed, Refused, TornTextFails

(* Of any values, tails, comments and symbols: if the texts of documents    *)
(* are read when they are whole, they are never taken for a document when   *)
(* they were torn off.                                                      *)
THEOREM TornTextAlways == DocumentsAreRead => (Spec => []TornTextFails)
<1> SUFFICES ASSUME DocumentsAreRead PROVE Spec => []TornTextFails
  OBVIOUS
<1>1. Init => TornIsRefused
  BY InitTornIsRefused
<1>2. TornIsRefused /\ [Next]_vars => TornIsRefused'
  BY NextTornIsRefused
<1>3. TornIsRefused => TornTextFails
  BY TornIsRefusedFails
<1> QED BY <1>1, <1>2, <1>3, PTL DEF Spec
=============================================================================
