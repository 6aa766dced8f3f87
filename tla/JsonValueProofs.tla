--------------------------- MODULE JsonValueProofs ---------------------------
(***************************************************************************)
(* What holds of trees of values for every set of addresses, of values the *)
(* caller keeps, of names and of contents.                                 *)
(***************************************************************************)
EXTENDS JsonValue, SequenceTheorems, FiniteSetTheorems, TLAPS

-----------------------------------------------------------------------------
(* Trees. *)

(* What is pointed to is an address.                                        *)
PointsToNodes == \A n \in Node : \A k \in DOMAIN kids[n] : kids[n][k] \in Node

(* No pointer leads out of C.                                               *)
Closed(C) == \A c \in C : Children(c) \subseteq C

(* Children and Below of pointers g. *)
Targets(g, n) == {g[n][k] : k \in DOMAIN g[n]}
InnerOf(g) == {c \in UNION {Targets(g, b) : b \in Node} : g[c] # <<>>}
SeenFrom(g, n, D) == Targets(g, n) \cup UNION {Targets(g, d) : d \in D}
Inners(g, n) ==
  {m \in InnerOf(g) :
     \A D \in SUBSET InnerOf(g) : SeenFrom(g, n, D) \cap InnerOf(g) \subseteq D => m \in D}
Reach(g, n) == SeenFrom(g, n, Inners(g, n))

(* Nothing that is closed and holds the targets leaves out what is reached. *)
LEMMA ReachIsLeast ==
  ASSUME NEW g, NEW n, NEW C, Targets(g, n) \subseteq C, \A c \in C : Targets(g, c) \subseteq C
  PROVE  Reach(g, n) \subseteq C
<1> DEFINE D == InnerOf(g) \cap C
<1>1. SeenFrom(g, n, D) \subseteq C
  BY DEF SeenFrom
<1>2. D \in SUBSET InnerOf(g) /\ SeenFrom(g, n, D) \cap InnerOf(g) \subseteq D
  BY <1>1
<1>3. Inners(g, n) \subseteq D
  BY <1>2 DEF Inners
<1>4. SeenFrom(g, n, Inners(g, n)) \subseteq SeenFrom(g, n, D)
  BY <1>3 DEF SeenFrom
<1> QED BY <1>1, <1>4 DEF Reach

LEMMA ReachIsClosed ==
  ASSUME NEW g, \A n \in Node : Targets(g, n) \subseteq Node, NEW n \in Node
  PROVE  /\ Reach(g, n) \subseteq Node
         /\ Targets(g, n) \subseteq Reach(g, n)
         /\ \A c \in Reach(g, n) : Targets(g, c) \subseteq Reach(g, n)
<1>1. InnerOf(g) \subseteq Node /\ Inners(g, n) \subseteq InnerOf(g)
  BY DEF InnerOf, Inners
<1>2. Reach(g, n) \subseteq Node /\ Targets(g, n) \subseteq Reach(g, n)
  BY <1>1 DEF Reach, SeenFrom
<1>3. Reach(g, n) \cap InnerOf(g) \subseteq Inners(g, n)
  <2> SUFFICES ASSUME NEW m \in Reach(g, n), m \in InnerOf(g),
                      NEW D \in SUBSET InnerOf(g), SeenFrom(g, n, D) \cap InnerOf(g) \subseteq D
               PROVE  m \in D
    BY DEF Inners
  <2>1. Inners(g, n) \subseteq D
    BY DEF Inners
  <2>2. Reach(g, n) \subseteq SeenFrom(g, n, D)
    BY <2>1 DEF Reach, SeenFrom
  <2> QED BY <2>2
<1>4. ASSUME NEW c \in Reach(g, n), NEW m \in Targets(g, c) PROVE m \in Reach(g, n)
  <2>1. \E b \in Node : c \in Targets(g, b)
    BY <1>1 DEF Reach, SeenFrom
  <2>2. g[c] # <<>>
    BY <1>4 DEF Targets
  <2>3. c \in InnerOf(g)
    BY <2>1, <2>2 DEF InnerOf
  <2>4. c \in Inners(g, n)
    BY <1>3, <2>3
  <2> QED BY <2>4 DEF Reach, SeenFrom
<1> QED BY <1>2, <1>4

LEMMA BelowIsReach ==
  /\ \A n : Below(n) = Reach(kids, n) /\ Children(n) = Targets(kids, n)
  /\ \A n : Below(n)' = Reach(kids', n) /\ Children(n)' = Targets(kids', n)
BY DEF Below, Reach, SeenFrom, Inners, InnerOf, Children, Targets

(* Nothing that is closed and holds the children leaves out what is below.  *)
LEMMA BelowIsLeast ==
  ASSUME NEW n, NEW C \in SUBSET Node, Children(n) \subseteq C, Closed(C)
  PROVE  Below(n) \subseteq C
BY BelowIsReach, ReachIsLeast DEF Closed

(* What is below is closed, and holds the children - before a call and      *)
(* after it.                                                                *)
LEMMA BelowIsClosed ==
  ASSUME PointsToNodes, NEW n \in Node
  PROVE  /\ Below(n) \subseteq Node
         /\ Children(n) \subseteq Below(n)
         /\ Closed(Below(n))
         /\ Closed(Tree(n))
<1>1. \A m \in Node : Targets(kids, m) \subseteq Node
  BY DEF PointsToNodes, Targets
<1>2. Below(n) = Reach(kids, n) /\ \A m : Children(m) = Targets(kids, m)
  BY BelowIsReach
<1> QED BY <1>1, <1>2, ReachIsClosed DEF Closed, Tree

LEMMA BelowIsClosedNext ==
  ASSUME PointsToNodes', NEW n \in Node
  PROVE  /\ Below(n)' \subseteq Node
         /\ Children(n)' \subseteq Below(n)'
         /\ \A c \in Tree(n)' : Children(c)' \subseteq Tree(n)'
         /\ \A c \in Below(n)' : Children(c)' \subseteq Below(n)'
<1>1. \A m \in Node : Targets(kids', m) \subseteq Node
  BY DEF PointsToNodes, Targets
<1>2. Below(n)' = Reach(kids', n) /\ \A m : Children(m)' = Targets(kids', m)
  BY BelowIsReach
<1>3. Tree(n)' = {n} \cup Below(n)'
  BY DEF Tree
<1> QED BY <1>1, <1>2, <1>3, ReachIsClosed

(* What is below is pointed to from within the tree.                        *)
LEMMA Parent ==
  ASSUME PointsToNodes, NEW n \in Node, NEW x \in Below(n)
  PROVE  \E p \in Tree(n) : \E k \in DOMAIN kids[p] : kids[p][k] = x
<1> SUFFICES ASSUME \A p \in Tree(n) : x \notin Children(p) PROVE FALSE
  BY DEF Children
<1> DEFINE C == Below(n) \ {x}
<1>1. C \in SUBSET Node /\ Children(n) \subseteq C
  BY BelowIsClosed DEF Tree
<1>2. Closed(C)
  BY BelowIsClosed DEF Closed, Tree
<1>3. Below(n) \subseteq C
  BY <1>1, <1>2, BelowIsLeast
<1> QED BY <1>3

-----------------------------------------------------------------------------
(* The invariant. *)

(* A container points to values as its datatype says, anything else to none. *)
Shaped ==
  /\ val \in [Node -> Contents]
  /\ kids = [n \in Node |-> kids[n]]
  /\ PointsToNodes
  /\ \A n \in Node :
       /\ val[n] = "array" => kids[n] \in Seq(Node)
       /\ val[n] = "object" => DOMAIN kids[n] \subseteq Name
       /\ val[n] \notin Containers => kids[n] = <<>>
  /\ replaced \subseteq Node

(* The caller's values and nullval are there. *)
StaticLive == \A n \in Static : Live(n)

(* Pointers lead from an earlier value to a later one, so none is below     *)
(* itself.                                                                  *)
Descends(rank) == \A n \in Node : \A k \in DOMAIN kids[n] : rank[n] < rank[kids[n][k]]
Ranked == \E rank \in [Node -> Nat] : Descends(rank)

Own == Shaped /\ SinglePointers /\ NothingDangles /\ StaticLive /\ Ranked

(* Neither a value of the caller's nor nullval is below anything, what is   *)
(* below a value is there, and only the tree it is in points to it.         *)
LEMMA BelowIsOwned ==
  ASSUME Own, NEW n \in Node, NEW x \in Below(n)
  PROVE  /\ x \in Node /\ x \notin Static /\ Live(x)
         /\ \A m \in Node : \A k \in DOMAIN kids[m] : kids[m][k] = x => m \in Tree(n)
<1>1. PICK p \in Tree(n) : \E k \in DOMAIN kids[p] : kids[p][k] = x
  BY Parent DEF Own, Shaped
<1>2. Below(n) \subseteq Node
  BY BelowIsClosed DEF Own, Shaped
<1>3. p \in Node
  BY <1>2 DEF Tree
<1> QED BY <1>1, <1>2, <1>3 DEF Own, NothingDangles, SinglePointers

(* No value is below itself. *)
LEMMA NoCycle ==
  ASSUME Own, NEW n \in Node
  PROVE  n \notin Below(n)
<1>1. PICK rank \in [Node -> Nat] : Descends(rank)
  BY DEF Own, Ranked
<1> DEFINE C == {m \in Node : rank[n] < rank[m]}
<1>2. Children(n) \subseteq C
  BY <1>1 DEF Children, Descends, Own, Shaped, PointsToNodes
<1>3. ASSUME NEW c \in C, NEW d \in Children(c) PROVE d \in C
  <2>1. d \in Node /\ rank[c] < rank[d]
    BY <1>1 DEF Children, Descends, Own, Shaped, PointsToNodes
  <2>2. rank[n] \in Nat /\ rank[c] \in Nat /\ rank[d] \in Nat
    BY <2>1
  <2> QED BY <2>1, <2>2
<1>4. Below(n) \subseteq C
  BY <1>2, <1>3, BelowIsLeast DEF Closed
<1> QED BY <1>4

(* Setting a value, clearing it and deleting it. *)
LEMMA BecomeKeeps ==
  ASSUME Own, NEW n \in Node, Live(n), NEW contents \in Contents \ {"free"},
         Become(n, contents)
  PROVE  Own'
<1> DEFINE gone == {n} \cup Below(n)
<1>1. /\ val' = [m \in Node |-> IF m = n THEN contents
                               ELSE IF m \in Below(n) THEN "free" ELSE val[m]]
      /\ kids' = [m \in Node |-> IF m \in gone THEN <<>> ELSE kids[m]]
      /\ replaced' = replaced
  BY DEF Become, Deleted
<1>2. \A m \in Node : \A k \in DOMAIN kids'[m] :
        m \notin gone /\ k \in DOMAIN kids[m] /\ kids'[m][k] = kids[m][k]
  BY <1>1
<1>3. \A m \in Node : \A k \in DOMAIN kids'[m] : kids'[m][k] \notin Below(n)
  BY <1>2, BelowIsOwned DEF Tree
<1>4. Shaped'
  <2>1. val' \in [Node -> Contents]
    BY <1>1 DEF Own, Shaped, Contents
  <2>2. PointsToNodes'
    BY <1>2 DEF Own, Shaped, PointsToNodes
  <2>3. ASSUME NEW m \in Node
        PROVE  /\ val'[m] = "array" => kids'[m] \in Seq(Node)
               /\ val'[m] = "object" => DOMAIN kids'[m] \subseteq Name
               /\ val'[m] \notin Containers => kids'[m] = <<>>
    BY <1>1 DEF Own, Shaped
  <2> QED BY <1>1, <2>1, <2>2, <2>3 DEF Own, Shaped
<1>5. SinglePointers'
  BY <1>2 DEF Own, SinglePointers
<1>6. NothingDangles'
  <2> SUFFICES ASSUME NEW m \in Node, NEW k \in DOMAIN kids'[m]
               PROVE  val'[kids'[m][k]] # "free" /\ kids'[m][k] \notin Static
    BY DEF NothingDangles, Live
  <2>1. kids[m][k] \in Node /\ val[kids[m][k]] # "free" /\ kids[m][k] \notin Static
    BY <1>2 DEF Own, Shaped, PointsToNodes, NothingDangles, Live
  <2> QED BY <1>1, <1>2, <1>3, <2>1
<1>7. StaticLive'
  <2> SUFFICES ASSUME NEW m \in Static PROVE val'[m] # "free"
    BY DEF StaticLive, Live
  <2>1. m \in Node /\ m \notin Below(n) /\ val[m] # "free"
    BY ValueAssumption, BelowIsOwned DEF Own, StaticLive, Live
  <2> QED BY <1>1, <2>1
<1>8. Ranked'
  BY <1>2 DEF Own, Ranked, Descends
<1> QED BY <1>4, <1>5, <1>6, <1>7, <1>8 DEF Own

(* Any other call gives one value n other contents, from what it had and    *)
(* from values R that were not there, and deletes the values D.             *)
Untouched(n, R) ==
  \A m \in Node \ (R \cup {n}) : \A k \in DOMAIN kids'[m] :
    k \in DOMAIN kids[m] /\ kids'[m][k] = kids[m][k]
Pointed(n, R, D) ==
  /\ \A m \in Node : \A k \in DOMAIN kids'[m] : kids'[m][k] \notin D
  /\ \A k \in DOMAIN kids'[n] : kids'[n][k] \in R \cup Children(n)
  /\ \A m \in R : \A k \in DOMAIN kids'[m] : kids'[m][k] \in R
  /\ \A m, p \in R \cup {n} : \A j \in DOMAIN kids'[m], k \in DOMAIN kids'[p] :
       kids'[m][j] = kids'[p][k] => m = p /\ j = k
RankedNew(R) ==
  \E new \in [R -> Nat] : \A m \in R : \A k \in DOMAIN kids'[m] : new[m] < new[kids'[m][k]]
Rewrites(n, R, D) ==
  /\ R \subseteq Fresh /\ D \subseteq Node \ (Static \cup R \cup {n})
  /\ \A m \in Node \ D : Live(m) \/ m \in R \cup {n} => Live(m)'
  /\ Untouched(n, R) /\ Pointed(n, R, D) /\ RankedNew(R)

LEMMA RewriteKeeps ==
  ASSUME Own, Shaped', NEW n \in Node, Live(n), NEW R, NEW D, Rewrites(n, R, D)
  PROVE  Own'
<1>1. R \subseteq Node /\ n \notin R /\ \A m \in R : ~Live(m)
  BY DEF Rewrites, Fresh
<1>2. \A m \in Node : \A k \in DOMAIN kids[m] : kids[m][k] \in Node \ R /\ kids[m][k] \notin Static
  BY <1>1 DEF Own, Shaped, PointsToNodes, NothingDangles
<1>3. SinglePointers'
  <2> SUFFICES ASSUME NEW m \in Node, NEW p \in Node,
                      NEW j \in DOMAIN kids'[m], NEW k \in DOMAIN kids'[p],
                      kids'[m][j] = kids'[p][k]
               PROVE  m = p /\ j = k
    BY DEF SinglePointers
  <2>1. CASE m \in R \cup {n} /\ p \in R \cup {n}
    BY <2>1 DEF Rewrites, Pointed
  <2>2. CASE m \notin R \cup {n} /\ p \notin R \cup {n}
    BY <2>2 DEF Own, SinglePointers, Rewrites, Untouched
  <2>3. CASE m \in R \cup {n} /\ p \notin R \cup {n}
    <3>1. k \in DOMAIN kids[p] /\ kids'[p][k] = kids[p][k]
      BY <2>3 DEF Rewrites, Untouched
    <3>2. m = n /\ kids'[m][j] \in Children(n)
      BY <1>2, <2>3, <3>1 DEF Rewrites, Pointed
    <3>3. p = n
      BY <3>1, <3>2 DEF Children, Own, SinglePointers
    <3> QED BY <2>3, <3>3
  <2>4. CASE m \notin R \cup {n} /\ p \in R \cup {n}
    <3>1. j \in DOMAIN kids[m] /\ kids'[m][j] = kids[m][j]
      BY <2>4 DEF Rewrites, Untouched
    <3>2. p = n /\ kids'[p][k] \in Children(n)
      BY <1>2, <2>4, <3>1 DEF Rewrites, Pointed
    <3>3. m = n
      BY <3>1, <3>2 DEF Children, Own, SinglePointers
    <3> QED BY <2>4, <3>3
  <2> QED BY <2>1, <2>2, <2>3, <2>4
<1>4. NothingDangles'
  <2> SUFFICES ASSUME NEW m \in Node, NEW k \in DOMAIN kids'[m]
               PROVE  val'[kids'[m][k]] # "free" /\ kids'[m][k] \notin Static
    BY DEF NothingDangles, Live
  <2>1. kids'[m][k] \in Node /\ kids'[m][k] \notin D
    BY DEF Shaped, PointsToNodes, Rewrites, Pointed
  <2>2. kids'[m][k] \in R \/ \E p \in Node : \E j \in DOMAIN kids[p] : kids'[m][k] = kids[p][j]
    BY DEF Rewrites, Pointed, Untouched, Children
  <2>3. Live(kids'[m][k]) \/ kids'[m][k] \in R
    BY <2>2 DEF Own, NothingDangles
  <2>4. kids'[m][k] \notin Static
    BY <1>1, <1>2, <2>2 DEF Own, StaticLive
  <2> QED BY <2>1, <2>3, <2>4 DEF Rewrites, Live
<1>5. StaticLive'
  BY ValueAssumption DEF Own, StaticLive, Rewrites, Live, Static
<1>6. Ranked'
  <2>1. PICK rank \in [Node -> Nat] : Descends(rank)
    BY DEF Own, Ranked
  <2>2. PICK new \in [R -> Nat] : \A m \in R : \A k \in DOMAIN kids'[m] : new[m] < new[kids'[m][k]]
    BY DEF Rewrites, RankedNew
  <2> DEFINE next == [m \in Node |-> IF m \in R THEN rank[n] + 1 + new[m] ELSE rank[m]]
  <2>3. next \in [Node -> Nat]
    OBVIOUS
  <2>4. ASSUME NEW m \in Node, NEW k \in DOMAIN kids'[m]
        PROVE  next[m] < next[kids'[m][k]]
    <3>1. kids'[m][k] \in Node
      BY DEF Shaped, PointsToNodes
    <3>2. CASE m \in R
      <4>1. kids'[m][k] \in R /\ new[m] < new[kids'[m][k]]
        BY <2>2, <3>2 DEF Rewrites, Pointed
      <4>2. new[m] \in Nat /\ new[kids'[m][k]] \in Nat /\ rank[n] \in Nat
        BY <3>2, <4>1
      <4> QED BY <3>1, <3>2, <4>1, <4>2
    <3>3. CASE m = n /\ kids'[m][k] \in R
      BY <1>1, <3>1, <3>3
    <3>4. CASE m \notin R /\ kids'[m][k] \notin R
      <4>1. \E j \in DOMAIN kids[m] : kids'[m][k] = kids[m][j]
        BY <3>4 DEF Rewrites, Pointed, Untouched, Children
      <4>2. rank[m] < rank[kids'[m][k]]
        BY <2>1, <4>1 DEF Descends
      <4> QED BY <3>1, <3>4, <4>2
    <3>5. m \notin R /\ m # n => kids'[m][k] \notin R
      BY <1>2 DEF Rewrites, Untouched
    <3> QED BY <3>2, <3>3, <3>4, <3>5
  <2> QED BY <2>3, <2>4 DEF Ranked, Descends
<1> QED BY <1>3, <1>4, <1>5, <1>6 DEF Own

(* Every value is below one of the caller's or a forgotten one. *)
Rooted == \A x \in Node : Live(x) => \E root \in Static \cup replaced : x \in Tree(root)

(* It stays so if the call forgets, or deletes, what it takes from n and    *)
(* deletes no value without what is below it.                               *)
Leaves(n, D) ==
  /\ n \notin D /\ Closed(D)
  /\ replaced \subseteq replaced'
  /\ \A m \in Node \ (D \cup {n}) : Children(m) \subseteq Children(m)'
  /\ Children(n) \subseteq Children(n)' \cup D \cup replaced'
  /\ \A x \in Node : Live(x)' => (Live(x) /\ x \notin D) \/ x \in Tree(n)'

LEMMA RootedKeeps ==
  ASSUME Own, Shaped', Rooted, NEW n \in Node, Live(n),
         NEW D \in SUBSET Node, Leaves(n, D)
  PROVE  Rooted'
<1> DEFINE Reached == {x \in Node : \E root \in Static \cup replaced' : x \in Tree(root)'}
           C == Reached \cup D
<1>1. Static \subseteq Node /\ replaced \subseteq Node /\ replaced' \subseteq Node
  BY ValueAssumption DEF Own, Shaped
<1>2. PointsToNodes /\ PointsToNodes'
  BY DEF Own, Shaped
<1>3. \A x \in Reached : Children(x)' \subseteq Reached
  <2> SUFFICES ASSUME NEW x \in Reached PROVE Children(x)' \subseteq Reached
    OBVIOUS
  <2>1. PICK root \in Static \cup replaced' : x \in Tree(root)'
    OBVIOUS
  <2>2. root \in Node
    BY <1>1, <2>1
  <2>3. Children(x)' \subseteq Tree(root)'
    BY <1>2, <2>1, <2>2, BelowIsClosedNext
  <2>4. Children(x)' \subseteq Node
    BY <1>2 DEF PointsToNodes, Children
  <2> QED BY <2>1, <2>3, <2>4
<1>4. Static \cup replaced' \subseteq Reached
  BY <1>1 DEF Tree
<1>5. Closed(C)
  <2> SUFFICES ASSUME NEW c \in C PROVE Children(c) \subseteq C
    BY DEF Closed
  <2>1. CASE c \in D
    BY <2>1 DEF Leaves, Closed
  <2>2. CASE c \in Reached /\ c \notin D /\ c # n
    BY <1>3, <2>2 DEF Leaves
  <2>3. CASE c \in Reached /\ c = n
    BY <1>3, <1>4, <2>3 DEF Leaves
  <2> QED BY <2>1, <2>2, <2>3
<1>6. \A root \in Static \cup replaced : Tree(root) \subseteq C
  <2> SUFFICES ASSUME NEW root \in Static \cup replaced PROVE Tree(root) \subseteq C
    OBVIOUS
  <2>1. root \in C
    BY <1>4 DEF Leaves
  <2>2. Children(root) \subseteq C /\ C \in SUBSET Node
    BY <1>5, <2>1 DEF Closed
  <2> QED BY <1>5, <2>1, <2>2, BelowIsLeast DEF Tree
<1>7. \A x \in Node : Live(x) /\ x \notin D => x \in Reached
  BY <1>6 DEF Rooted
<1>8. Tree(n)' \subseteq Reached
  <2>1. PICK root \in Static \cup replaced' : n \in Tree(root)'
    BY <1>7 DEF Leaves
  <2>2. root \in Node
    BY <1>1, <2>1
  <2>3. Tree(n)' \subseteq Tree(root)'
    <3>1. \A c \in Tree(root)' : Children(c)' \subseteq Tree(root)'
      BY <1>2, <2>2, BelowIsClosedNext
    <3>2. Tree(root)' \subseteq Node
      BY <1>2, <2>2, BelowIsClosedNext DEF Tree
    <3>3. \A c : Children(c)' = Targets(kids', c)
      BY DEF Children, Targets
    <3>4. Below(n)' = Reach(kids', n)
      BY BelowIsReach
    <3>5. Reach(kids', n) \subseteq Tree(root)'
      BY <2>1, <3>1, <3>3, ReachIsLeast
    <3> QED BY <2>1, <3>4, <3>5 DEF Tree
  <2>4. Tree(n)' \subseteq Node
    BY <1>2, BelowIsClosedNext DEF Tree
  <2> QED BY <2>1, <2>3, <2>4
<1>9. ASSUME NEW x \in Node, Live(x)' PROVE x \in Reached
  BY <1>7, <1>8, <1>9 DEF Leaves
<1> QED BY <1>9 DEF Rooted, Live

-----------------------------------------------------------------------------
(* The calls. *)

(* An address without a value points to nothing. *)
LEMMA FreeHasNoChildren ==
  ASSUME Shaped, NEW m \in Node, ~Live(m)
  PROVE  kids[m] = <<>> /\ DOMAIN kids[m] = {}
BY DEF Shaped, Live, Containers

LEMMA BecomeRooted ==
  ASSUME Own, Rooted, NEW n \in Node, Live(n), NEW contents \in Contents \ {"free"},
         Become(n, contents)
  PROVE  Rooted'
<1>1. Shaped'
  BY BecomeKeeps DEF Own
<1>2. Below(n) \in SUBSET Node /\ Closed(Below(n)) /\ Children(n) \subseteq Below(n)
  BY BelowIsClosed DEF Own, Shaped
<1>3. n \notin Below(n)
  BY NoCycle
<1>4. \A m \in Node \ (Below(n) \cup {n}) : Children(m) \subseteq Children(m)'
  BY DEF Become, Deleted, Children
<1>5. \A x \in Node : Live(x)' => (Live(x) /\ x \notin Below(n)) \/ x \in Tree(n)'
  BY DEF Become, Deleted, Live, Tree
<1>6. Leaves(n, Below(n))
  BY <1>2, <1>3, <1>4, <1>5 DEF Leaves, Become
<1> QED BY <1>1, <1>2, <1>6, RootedKeeps

(* An entry keeps the others, and leads to the new value. *)
LEMMA EnterRewrites ==
  ASSUME Own, NEW n \in Node, Live(n), NEW R \in SUBSET Fresh, NEW key, NEW top \in R,
         kids'[n] = Entered(kids[n], key, top),
         replaced' = replaced \cup (IF key \in DOMAIN kids[n] THEN {kids[n][key]} ELSE {}),
         \A m \in Node \ (R \cup {n}) : kids'[m] = kids[m],
         \A m \in R : \A k \in DOMAIN kids'[m] : kids'[m][k] \in R \ {top},
         \A m, p \in R : \A j \in DOMAIN kids'[m], k \in DOMAIN kids'[p] :
           kids'[m][j] = kids'[p][k] => m = p /\ j = k,
         RankedNew(R), R \subseteq Tree(n)',
         \A m \in Node : Live(m)' <=> Live(m) \/ m \in R
  PROVE  Rewrites(n, R, {}) /\ Leaves(n, {})
<1>1. /\ n \notin R /\ R \subseteq Node
      /\ \A m \in R : ~Live(m) /\ DOMAIN kids[m] = {}
  BY FreeHasNoChildren DEF Fresh, Own
<1>2. \A k \in DOMAIN kids'[n] :
        \/ k = key /\ kids'[n][k] = top
        \/ k # key /\ k \in DOMAIN kids[n] /\ kids'[n][k] = kids[n][k]
  BY DEF Entered
<1>3. \A k \in DOMAIN kids[n] : k # key => k \in DOMAIN kids'[n] /\ kids'[n][k] = kids[n][k]
  BY DEF Entered
<1>4. \A k \in DOMAIN kids[n] : kids[n][k] \notin R
  BY <1>1 DEF Own, NothingDangles
<1>5. Untouched(n, R)
  BY DEF Untouched
<1>6. Pointed(n, R, {})
  <2>1. \A k \in DOMAIN kids'[n] : kids'[n][k] \in R \cup Children(n)
    BY <1>2 DEF Children
  <2>2. \A j, k \in DOMAIN kids'[n] : kids'[n][j] = kids'[n][k] => j = k
    BY <1>2, <1>4 DEF Own, SinglePointers
  <2>3. \A m \in R : \A j \in DOMAIN kids'[m], k \in DOMAIN kids'[n] : kids'[m][j] # kids'[n][k]
    BY <1>2, <1>4
  <2> QED BY <2>1, <2>2, <2>3 DEF Pointed
<1>7. Rewrites(n, R, {})
  BY <1>1, <1>5, <1>6 DEF Rewrites, Live
<1>8. \A m \in Node \ ({} \cup {n}) : Children(m) \subseteq Children(m)'
  BY <1>1 DEF Children
<1>9. Children(n) \subseteq Children(n)' \cup {} \cup replaced'
  BY <1>3 DEF Children
<1>10. Leaves(n, {})
  <2>1. \A x \in Node : Live(x)' => (Live(x) /\ x \notin {}) \/ x \in Tree(n)'
    BY DEF Live
  <2> QED BY <1>8, <1>9, <2>1 DEF Leaves, Closed
<1> QED BY <1>7, <1>10

(* What an entry makes of the pointers of a container. *)
LEMMA EntryShape ==
  ASSUME Shaped, NEW n \in Node, NEW key \in EntryKeys(n), NEW m \in Node
  PROVE  /\ val[n] \in Containers
         /\ DOMAIN Entered(kids[n], key, m) = {key} \cup DOMAIN kids[n]
         /\ \A k \in DOMAIN Entered(kids[n], key, m) : Entered(kids[n], key, m)[k] \in Node
         /\ val[n] = "array" => Entered(kids[n], key, m) \in Seq(Node)
         /\ val[n] = "object" => DOMAIN Entered(kids[n], key, m) \subseteq Name
<1>1. val[n] \in Containers
  BY DEF EntryKeys, Containers
<1>2. \A k \in DOMAIN kids[n] : kids[n][k] \in Node
  BY DEF Shaped, PointsToNodes
<1>3. /\ DOMAIN Entered(kids[n], key, m) = {key} \cup DOMAIN kids[n]
      /\ \A k \in DOMAIN Entered(kids[n], key, m) : Entered(kids[n], key, m)[k] \in Node
  BY <1>2 DEF Entered
<1>4. ASSUME val[n] = "array" PROVE Entered(kids[n], key, m) \in Seq(Node)
  <2>1. kids[n] \in Seq(Node) /\ key = Len(kids[n]) + 1
    BY <1>4 DEF Shaped, EntryKeys
  <2>2. Entered(kids[n], key, m) = Append(kids[n], m)
    BY <2>1 DEF Entered
  <2> QED BY <2>1, <2>2
<1>5. ASSUME val[n] = "object" PROVE DOMAIN Entered(kids[n], key, m) \subseteq Name
  <2>1. key \in Name /\ DOMAIN kids[n] \subseteq Name
    BY <1>5 DEF Shaped, EntryKeys
  <2> QED BY <1>3, <2>1
<1> QED BY <1>1, <1>3, <1>4, <1>5

(* One new value without contents is entered. *)
LEMMA EnterOne ==
  ASSUME Own, Rooted, Shaped', NEW n \in Node, Live(n), NEW key, NEW new \in Fresh,
         \A m \in Node : Live(m)' <=> Live(m) \/ m = new,
         Enter(n, key, new, kids)
  PROVE  Own' /\ Rooted'
<1> DEFINE R == {new}
<1>1. new \in Node /\ new # n /\ kids[new] = <<>> /\ ~Live(new)
  BY FreeHasNoChildren DEF Fresh, Own
<1>2. kids = [m \in Node |-> kids[m]]
  BY DEF Own, Shaped
<1>3. /\ kids'[n] = Entered(kids[n], key, new)
      /\ \A m \in Node \ {n} : kids'[m] = kids[m]
  BY <1>2 DEF Enter
<1>4. DOMAIN kids'[new] = {}
  BY <1>1, <1>3
<1>5. RankedNew(R)
  <2>1. [m \in R |-> 0] \in [R -> Nat]
    OBVIOUS
  <2> QED BY <1>4, <2>1 DEF RankedNew
<1>6. R \subseteq Tree(n)'
  <2>1. new \in Children(n)'
    BY <1>3 DEF Children, Entered
  <2> QED BY <2>1, BelowIsClosedNext DEF Shaped, Tree
<1>7. Rewrites(n, R, {}) /\ Leaves(n, {})
  <2>1. R \in SUBSET Fresh /\ new \in R
    OBVIOUS
  <2>2. replaced' = replaced \cup (IF key \in DOMAIN kids[n] THEN {kids[n][key]} ELSE {})
    BY DEF Enter
  <2>3. \A m \in Node : Live(m)' <=> Live(m) \/ m \in R
    OBVIOUS
  <2> QED BY <1>3, <1>4, <1>5, <1>6, <2>1, <2>2, <2>3, EnterRewrites
<1> QED BY <1>7, RewriteKeeps, RootedKeeps

LEMMA ReplacedType ==
  ASSUME Shaped, NEW n \in Node, NEW key
  PROVE  replaced \cup (IF key \in DOMAIN kids[n] THEN {kids[n][key]} ELSE {}) \subseteq Node
BY DEF Shaped, PointsToNodes

LEMMA AddNewKeeps ==
  ASSUME Own, Rooted, NEW n \in Node, NEW s \in Scalar, AddNew(n, s)
  PROVE  Own' /\ Rooted'
<1>1. PICK key \in EntryKeys(n), new \in Fresh :
        val' = [val EXCEPT ![new] = s] /\ Enter(n, key, new, kids)
  BY DEF AddNew
<1>2. /\ new \in Node /\ ~Live(new) /\ kids[new] = <<>>
      /\ s \in Contents /\ s # "free" /\ s \notin Containers
  BY ValueAssumption, FreeHasNoChildren DEF Fresh, Contents, Own
<1>3. Live(n) /\ n # new
  BY <1>2, EntryShape DEF Own, Live, Containers
<1>4. kids = [m \in Node |-> kids[m]] /\ val \in [Node -> Contents]
  BY DEF Own, Shaped
<1>5. /\ kids' = [m \in Node |-> IF m = n THEN Entered(kids[n], key, new) ELSE kids[m]]
      /\ val' = [m \in Node |-> IF m = new THEN s ELSE val[m]]
  BY <1>1, <1>4 DEF Enter
<1>6. \A m \in Node : Live(m)' <=> Live(m) \/ m = new
  BY <1>2, <1>5 DEF Live
<1>7. Shaped'
  <2>1. val' \in [Node -> Contents] /\ replaced' \subseteq Node
    BY <1>1, <1>2, <1>4, <1>5, ReplacedType DEF Enter, Own
  <2>2. PointsToNodes'
    BY <1>2, <1>5, EntryShape DEF Own, Shaped, PointsToNodes
  <2>3. ASSUME NEW m \in Node
        PROVE  /\ val'[m] = "array" => kids'[m] \in Seq(Node)
               /\ val'[m] = "object" => DOMAIN kids'[m] \subseteq Name
               /\ val'[m] \notin Containers => kids'[m] = <<>>
    <3>1. CASE m = n
      BY <1>2, <1>3, <1>5, <3>1, EntryShape DEF Own
    <3>2. CASE m = new
      BY <1>2, <1>3, <1>5, <3>2 DEF Containers
    <3>3. CASE m # n /\ m # new
      BY <1>5, <3>3 DEF Own, Shaped
    <3> QED BY <3>1, <3>2, <3>3
  <2> QED BY <1>5, <2>1, <2>2, <2>3 DEF Shaped
<1> QED BY <1>1, <1>3, <1>6, <1>7, EnterOne

(* A search for a name that is not there enters an undefined value.         *)
LEMMA CreateChildKeeps ==
  ASSUME Own, Rooted, NEW n \in Node, NEW name \in Name,
         val[n] \in {"object", "undefined"}, CreateChild(n, name)
  PROVE  Own' /\ Rooted'
<1>1. PICK new \in Fresh :
        /\ val' = [val EXCEPT ![n] = "object", ![new] = "undefined"]
        /\ Enter(n, name, new, kids)
  BY DEF CreateChild
<1>2. new \in Node /\ ~Live(new) /\ kids[new] = <<>>
  BY FreeHasNoChildren DEF Fresh, Own
<1>3. Live(n) /\ n # new
  BY <1>2 DEF Live
<1>4. kids = [m \in Node |-> kids[m]] /\ val \in [Node -> Contents]
  BY DEF Own, Shaped
<1>5. /\ kids' = [m \in Node |-> IF m = n THEN Entered(kids[n], name, new) ELSE kids[m]]
      /\ val' = [m \in Node |-> IF m = new THEN "undefined" ELSE IF m = n THEN "object" ELSE val[m]]
  BY <1>1, <1>4, <1>3 DEF Enter
<1>6. \A m \in Node : Live(m)' <=> Live(m) \/ m = new
  BY <1>3, <1>5 DEF Live
<1>7. /\ DOMAIN Entered(kids[n], name, new) \subseteq Name
      /\ \A k \in DOMAIN Entered(kids[n], name, new) : Entered(kids[n], name, new)[k] \in Node
  <2>1. ASSUME val[n] = "object" PROVE DOMAIN kids[n] \subseteq Name
    BY <2>1 DEF Own, Shaped
  <2>2. ASSUME val[n] # "object" PROVE DOMAIN kids[n] \subseteq Name
    BY <2>2 DEF Own, Shaped, Containers
  <2>3. DOMAIN kids[n] \subseteq Name
    BY <2>1, <2>2
  <2> QED BY <1>2, <2>3 DEF Entered, Own, Shaped, PointsToNodes
<1>8. Shaped'
  <2>0. "undefined" \in Contents /\ "object" \in Contents
    BY DEF Contents, Containers
  <2>1. val' \in [Node -> Contents]
    BY <1>4, <1>5, <2>0
  <2>4. replaced' \subseteq Node
    BY <1>1, ReplacedType DEF Enter, Own
  <2>2. PointsToNodes'
    BY <1>5, <1>7 DEF Own, Shaped, PointsToNodes
  <2>3. ASSUME NEW m \in Node
        PROVE  /\ val'[m] = "array" => kids'[m] \in Seq(Node)
               /\ val'[m] = "object" => DOMAIN kids'[m] \subseteq Name
               /\ val'[m] \notin Containers => kids'[m] = <<>>
    <3>1. CASE m = n
      BY <1>3, <1>5, <1>7, <3>1 DEF Containers
    <3>2. CASE m = new
      BY <1>2, <1>3, <1>5, <3>2 DEF Containers
    <3>3. CASE m # n /\ m # new
      BY <1>5, <3>3 DEF Own, Shaped
    <3> QED BY <3>1, <3>2, <3>3
  <2> QED BY <1>5, <2>1, <2>2, <2>3, <2>4 DEF Shaped
<1> QED BY <1>1, <1>3, <1>6, <1>8, EnterOne

LEMMA GetChildKeeps ==
  ASSUME Own, Rooted, NEW n \in Node, NEW name \in Name, NEW wide \in BOOLEAN,
         GetChild(n, name, wide)
  PROVE  Own' /\ Rooted'
<1>1. val[n] \in {"object", "undefined"} /\ CreateChild(n, name)
  BY DEF GetChild
<1> QED BY <1>1, CreateChildKeeps

(* What an injection reaches, and how one comes back.                       *)
LEMMA ImageFacts ==
  ASSUME NEW S, NEW T, NEW f \in Injection(S, T)
  PROVE  /\ Range(f) \subseteq T
         /\ \A x \in S : f[x] \in Range(f) /\ AntiFunction(f)[f[x]] = x
         /\ \A m \in Range(f) : AntiFunction(f)[m] \in S /\ f[AntiFunction(f)[m]] = m
         /\ \A x, y \in S : f[x] = f[y] => x = y
BY DEF Injection, AntiFunction, Inverse, Range, IsInjective

LEMMA IndexKeeps ==
  ASSUME Own, Rooted, NEW n \in Node, NEW index \in Nat, Index(n, index)
  PROVE  Own' /\ Rooted'
<1> DEFINE size == Len(kids[n])
           more == (size + 1) .. (index + 1)
<1>1. PICK f \in Injection(more, Fresh) :
        /\ val' = [m \in Node |-> IF m = n THEN "array"
                                  ELSE IF m \in Range(f) THEN "undefined" ELSE val[m]]
        /\ kids' = [kids EXCEPT ![n] = [i \in 1 .. (index + 1) |->
                                          IF i <= size THEN @[i] ELSE f[i]]]
  BY DEF Index
<1> DEFINE R == Range(f)
<1>2. kids[n] \in Seq(Node) /\ Live(n) /\ replaced' = replaced
  <2>1. CASE val[n] = "array"
    BY <2>1 DEF Index, Own, Shaped, Live
  <2>2. CASE val[n] = "undefined"
    <3>1. kids[n] = <<>>
      BY <2>2 DEF Own, Shaped, Containers
    <3> QED BY <2>2, <3>1 DEF Index, Live
  <2> QED BY <2>1, <2>2 DEF Index
<1>3. size \in Nat /\ index >= size /\ DOMAIN kids[n] = 1 .. size
  BY <1>2 DEF Index
<1>4. /\ R \subseteq Fresh
      /\ \A i \in more : f[i] \in R
      /\ \A i, j \in more : f[i] = f[j] => i = j
      /\ \A m \in R : \E i \in more : f[i] = m
  BY ImageFacts
<1>5. /\ R \subseteq Node /\ n \notin R
      /\ \A m \in R : ~Live(m) /\ kids[m] = <<>>
  BY <1>2, <1>4, FreeHasNoChildren DEF Fresh, Own
<1>6. /\ kids'[n] = [i \in 1 .. (index + 1) |-> IF i <= size THEN kids[n][i] ELSE f[i]]
      /\ \A m \in Node \ {n} : kids'[m] = kids[m]
      /\ kids' = [m \in Node |-> kids'[m]]
  BY <1>1 DEF Own, Shaped
<1>7. \A i \in 1 .. (index + 1) :
        \/ i \in DOMAIN kids[n] /\ kids'[n][i] = kids[n][i]
        \/ i \in more /\ kids'[n][i] = f[i]
  BY <1>3, <1>6
<1>8. \A m \in R : DOMAIN kids'[m] = {}
  BY <1>5, <1>6
<1>9. Shaped'
  <2>1. "undefined" \in Contents /\ "array" \in Contents
    BY DEF Contents, Containers
  <2>2. val' \in [Node -> Contents]
    BY <1>1, <2>1 DEF Own, Shaped
  <2>3. \A i \in 1 .. (index + 1) : kids'[n][i] \in Node
    BY <1>2, <1>4, <1>5, <1>7 DEF Own, Shaped, PointsToNodes
  <2>4. kids'[n] \in Seq(Node)
    BY <1>3, <1>6, <2>3, IsASeq
  <2>5. PointsToNodes'
    BY <1>6, <2>3 DEF Own, Shaped, PointsToNodes
  <2>6. ASSUME NEW m \in Node
        PROVE  /\ val'[m] = "array" => kids'[m] \in Seq(Node)
               /\ val'[m] = "object" => DOMAIN kids'[m] \subseteq Name
               /\ val'[m] \notin Containers => kids'[m] = <<>>
    <3>1. CASE m = n
      BY <1>1, <2>4, <3>1 DEF Containers
    <3>2. CASE m \in R
      BY <1>1, <1>5, <1>6, <3>2 DEF Containers
    <3>3. CASE m # n /\ m \notin R
      BY <1>1, <1>6, <3>3 DEF Own, Shaped
    <3> QED BY <3>1, <3>2, <3>3
  <2>7. replaced' \subseteq Node
    BY <1>2 DEF Own, Shaped
  <2> QED BY <1>6, <2>2, <2>5, <2>6, <2>7 DEF Shaped
<1>10. \A m \in Node : Live(m)' <=> Live(m) \/ m \in R
  BY <1>1, <1>2, <1>5 DEF Live
<1>11. R \subseteq Tree(n)'
  <2>1. R \subseteq Children(n)'
    <3>1. \A i \in more : i \in DOMAIN kids'[n] /\ kids'[n][i] = f[i]
      BY <1>3, <1>6
    <3> QED BY <1>4, <3>1 DEF Children
  <2> QED BY <1>9, <2>1, BelowIsClosedNext DEF Shaped, Tree
<1>12. Pointed(n, R, {})
  <2>1. \A k \in DOMAIN kids'[n] : kids'[n][k] \in R \cup Children(n)
    BY <1>4, <1>6, <1>7 DEF Children
  <2>2. \A j, k \in DOMAIN kids'[n] : kids'[n][j] = kids'[n][k] => j = k
    <3>1. \A k \in DOMAIN kids[n] : kids[n][k] \notin R
      BY <1>5 DEF Own, NothingDangles
    <3> QED BY <1>4, <1>6, <1>7, <3>1 DEF Own, SinglePointers
  <2> QED BY <1>8, <2>1, <2>2 DEF Pointed
<1>13. Rewrites(n, R, {})
  <2>1. RankedNew(R)
    <3>1. [m \in R |-> 0] \in [R -> Nat]
      OBVIOUS
    <3> QED BY <1>8, <3>1 DEF RankedNew
  <2>2. Untouched(n, R)
    BY <1>6 DEF Untouched
  <2>3. \A m \in Node \ {} : Live(m) \/ m \in R \cup {n} => Live(m)'
    BY <1>2, <1>10 DEF Live
  <2> QED BY <1>4, <1>12, <2>1, <2>2, <2>3 DEF Rewrites
<1>14. Leaves(n, {})
  <2>1. \A m \in Node \ ({} \cup {n}) : Children(m) \subseteq Children(m)'
    BY <1>6 DEF Children
  <2>2. Children(n) \subseteq Children(n)' \cup {} \cup replaced'
    <3>1. \A i \in DOMAIN kids[n] : i \in DOMAIN kids'[n] /\ kids'[n][i] = kids[n][i]
      BY <1>3, <1>6
    <3> QED BY <3>1 DEF Children
  <2>3. \A x \in Node : Live(x)' => (Live(x) /\ x \notin {}) \/ x \in Tree(n)'
    BY <1>10, <1>11 DEF Live
  <2> QED BY <1>2, <2>1, <2>2, <2>3 DEF Leaves, Closed
<1> QED BY <1>2, <1>9, <1>13, <1>14, RewriteKeeps, RootedKeeps

(* A deleted child takes with it what is below it, and nothing else. *)
LEMMA DeleteChildKeeps ==
  ASSUME Own, Rooted, NEW n \in Node, NEW key \in DOMAIN kids[n], DeleteChild(n, key)
  PROVE  Own' /\ Rooted'
<1> DEFINE child == kids[n][key]
           D == {child} \cup Below(child)
<1>1. CASE val[n] = "array"
  <2>1. /\ val' = [m \in Node |-> IF m \in D THEN "free" ELSE val[m]]
        /\ kids' = [m \in Node |-> IF m = n THEN RemoveAt(kids[n], key)
                                   ELSE IF m \in D THEN <<>> ELSE kids[m]]
        /\ replaced' = replaced
    BY <1>1 DEF DeleteChild, Deleted
  <2>2. kids[n] \in Seq(Node) /\ key \in 1 .. Len(kids[n]) /\ Live(n)
    BY <1>1 DEF Own, Shaped, Live
  <2>3. child \in Node /\ child \notin Static /\ child \in Below(n)
    BY BelowIsClosed DEF Own, Shaped, PointsToNodes, NothingDangles, Children
  <2>4. D \subseteq Below(n) /\ Closed(D) /\ D \subseteq Node
    <3>1. Closed(Below(n)) /\ Below(n) \subseteq Node
      BY BelowIsClosed DEF Own, Shaped
    <3>2. Below(child) \subseteq Below(n)
      BY <2>3, <3>1, BelowIsLeast DEF Closed
    <3>3. Closed(D)
      BY <2>3, BelowIsClosed DEF Own, Shaped, Tree
    <3> QED BY <2>3, <3>1, <3>2, <3>3
  <2>5. n \notin D /\ D \cap Static = {}
    BY <2>4, NoCycle, BelowIsOwned
  <2>6. ASSUME NEW m \in Node, NEW k \in DOMAIN kids[m], kids[m][k] \in D
        PROVE  m \in D \/ (m = n /\ k = key)
    <3>1. CASE kids[m][k] = child
      BY <3>1 DEF Own, SinglePointers
    <3>2. CASE kids[m][k] \in Below(child)
      BY <2>3, <3>2, BelowIsOwned DEF Tree
    <3> QED BY <2>6, <3>1, <3>2
  <2> DEFINE s == kids[n]
             left == RemoveAt(s, key)
  <2>7. /\ left \in Seq(Node) /\ Len(left) = Len(s) - 1
        /\ \A j \in 1 .. Len(left) : left[j] = s[IF j < key THEN j ELSE j + 1]
    <3> DEFINE before == SubSeq(s, 1, key - 1)
               after == SubSeq(s, key + 1, Len(s))
    <3>1. Len(s) \in Nat /\ key \in Nat /\ 1 <= key /\ key <= Len(s)
      BY <2>2
    <3>2. /\ before \in Seq(Node) /\ Len(before) = key - 1
          /\ \A j \in 1 .. (key - 1) : before[j] = s[j]
      BY <2>2, <3>1
    <3>3. /\ after \in Seq(Node) /\ Len(after) = Len(s) - key
          /\ \A j \in 1 .. (Len(s) - key) : after[j] = s[key + j]
      BY <2>2, <3>1
    <3>4. left = before \o after
      BY DEF RemoveAt
    <3>5. /\ left \in Seq(Node) /\ Len(left) = Len(s) - 1
          /\ \A j \in 1 .. (Len(s) - 1) :
               left[j] = IF j <= key - 1 THEN before[j] ELSE after[j - (key - 1)]
      <4> HIDE DEF before, after, left
      <4>1. Len(before) + Len(after) = Len(s) - 1
        BY <3>1, <3>2, <3>3
      <4>2. /\ before \o after \in Seq(Node)
            /\ Len(before \o after) = Len(before) + Len(after)
            /\ \A j \in 1 .. Len(before) + Len(after) :
                 (before \o after)[j] = IF j <= Len(before) THEN before[j]
                                         ELSE after[j - Len(before)]
        BY <3>2, <3>3, ConcatProperties, Zenon
      <4> QED BY <3>2, <3>4, <4>1, <4>2
    <3>6. ASSUME NEW j \in 1 .. Len(left) PROVE left[j] = s[IF j < key THEN j ELSE j + 1]
      <4> HIDE DEF before, after, left
      <4>1. CASE j < key
        <5>1. j \in 1 .. (key - 1) /\ j <= key - 1 /\ j \in 1 .. (Len(s) - 1)
          BY <3>1, <3>5, <4>1
        <5>2. left[j] = before[j] /\ before[j] = s[j]
          BY <3>2, <3>5, <5>1
        <5> QED BY <4>1, <5>2
      <4>2. CASE j >= key
        <5>1. j - (key - 1) \in 1 .. (Len(s) - key) /\ ~(j < key) /\ ~(j <= key - 1)
          BY <3>1, <3>5, <4>2
        <5>2. left[j] = after[j - (key - 1)]
          BY <3>1, <3>5, <5>1
        <5>3. after[j - (key - 1)] = s[key + (j - (key - 1))]
          BY <3>3, <5>1
        <5>4. key + (j - (key - 1)) = j + 1
          BY <3>1, <3>5, <4>2
        <5> QED BY <5>1, <5>2, <5>3, <5>4
      <4> QED BY <3>1, <3>5, <4>1, <4>2
    <3> QED BY <3>5, <3>6
  <2>8. /\ kids'[n] = left
        /\ \A m \in D : DOMAIN kids'[m] = {}
        /\ \A m \in Node \ (D \cup {n}) : kids'[m] = kids[m]
    BY <2>1, <2>4, <2>5
  <2>9. \A j \in DOMAIN kids'[n] : \E k \in DOMAIN s \ {key} :
          kids'[n][j] = s[k] /\ k = (IF j < key THEN j ELSE j + 1)
    <3>1. DOMAIN s = 1 .. Len(s) /\ Len(s) \in Nat /\ DOMAIN left = 1 .. (Len(s) - 1)
      BY <2>2, <2>7
    <3> QED BY <2>2, <2>7, <2>8, <3>1
  <2>10. Shaped'
    <3>1. val' \in [Node -> Contents]
      BY <2>1 DEF Own, Shaped, Contents
    <3>2. PointsToNodes'
      BY <2>8, <2>9 DEF Own, Shaped, PointsToNodes
    <3>3. ASSUME NEW m \in Node
          PROVE  /\ val'[m] = "array" => kids'[m] \in Seq(Node)
                 /\ val'[m] = "object" => DOMAIN kids'[m] \subseteq Name
                 /\ val'[m] \notin Containers => kids'[m] = <<>>
      <4>1. CASE m = n
        BY <1>1, <2>1, <2>5, <2>7, <2>8, <4>1 DEF Containers
      <4>2. CASE m \in D
        BY <2>1, <2>5, <4>2
      <4>3. CASE m # n /\ m \notin D
        BY <2>1, <4>3 DEF Own, Shaped
      <4> QED BY <4>1, <4>2, <4>3
    <3> QED BY <2>1, <3>1, <3>2, <3>3 DEF Own, Shaped
  <2>11. Rewrites(n, {}, D)
    <3>1. \A m \in Node : \A k \in DOMAIN kids'[m] : kids'[m][k] \notin D
      BY <2>6, <2>8, <2>9
    <3>2. \A j, k \in DOMAIN kids'[n] : kids'[n][j] = kids'[n][k] => j = k
      <4> SUFFICES ASSUME NEW j \in DOMAIN kids'[n], NEW k \in DOMAIN kids'[n],
                          kids'[n][j] = kids'[n][k]
                   PROVE  j = k
        OBVIOUS
      <4>1. (IF j < key THEN j ELSE j + 1) = (IF k < key THEN k ELSE k + 1)
        BY <2>9 DEF Own, SinglePointers
      <4>2. j \in Nat /\ k \in Nat /\ key \in Nat
        BY <2>2, <2>7, <2>8
      <4> QED BY <4>1, <4>2
    <3>3. Pointed(n, {}, D)
      BY <2>9, <3>1, <3>2 DEF Pointed, Children
    <3>4. Untouched(n, {})
      BY <2>8 DEF Untouched
    <3>5. RankedNew({})
      <4>1. [m \in {} |-> 0] \in [{} -> Nat]
        OBVIOUS
      <4> QED BY <4>1 DEF RankedNew
    <3>6. \A m \in Node \ D : Live(m) \/ m \in {} \cup {n} => Live(m)'
      BY <2>1, <2>2 DEF Live
    <3> QED BY <2>4, <2>5, <3>3, <3>4, <3>5, <3>6 DEF Rewrites
  <2>12. Leaves(n, D)
    <3>1. ASSUME NEW k \in DOMAIN s PROVE s[k] \in Children(n)' \cup D
      <4>1. CASE k = key
        BY <4>1
      <4>2. CASE k # key
        <5>1. DOMAIN s = 1 .. Len(s) /\ Len(s) \in Nat /\ DOMAIN left = 1 .. (Len(s) - 1)
          BY <2>2, <2>7
        <5>2. \E j \in DOMAIN left : left[j] = s[k]
          <6>1. CASE k < key
            BY <2>2, <2>7, <3>1, <5>1, <6>1
          <6>2. CASE k > key
            <7>1. k - 1 \in DOMAIN left /\ ~(k - 1 < key) /\ (k - 1) + 1 = k
              BY <2>2, <3>1, <5>1, <6>2
            <7> QED BY <2>7, <5>1, <7>1
          <6> QED BY <2>2, <3>1, <4>2, <5>1, <6>1, <6>2
        <5> QED BY <2>8, <5>2 DEF Children
      <4> QED BY <4>1, <4>2
    <3>2. Children(n) \subseteq Children(n)' \cup D
      BY <3>1 DEF Children
    <3>3. \A m \in Node \ (D \cup {n}) : Children(m) \subseteq Children(m)'
      BY <2>8 DEF Children
    <3>4. \A x \in Node : Live(x)' => Live(x) /\ x \notin D
      BY <2>1 DEF Live
    <3> QED BY <2>1, <2>4, <2>5, <3>2, <3>3, <3>4 DEF Leaves
  <2> QED BY <2>2, <2>4, <2>10, <2>11, <2>12, RewriteKeeps, RootedKeeps
<1>2. CASE val[n] = "object"
  <2>1. val' = val /\ kids' = kids /\ replaced' = replaced
    BY <1>2 DEF DeleteChild
  <2>2. Own'
    BY <2>1 DEF Own, Shaped, PointsToNodes, SinglePointers, NothingDangles, StaticLive,
                Live, Ranked, Descends
  <2>3. Rooted'
    <3>1. \A m : Tree(m)' = Tree(m)
      BY <2>1 DEF Tree, Below, Children
    <3> QED BY <2>1, <3>1 DEF Rooted, Live
  <2> QED BY <2>2, <2>3
<1> QED BY <1>1, <1>2 DEF DeleteChild

-----------------------------------------------------------------------------
(* Copies. *)

(* The values of a tree are there, and what they point to is below its root. *)
LEMMA TreeFacts ==
  ASSUME Own, NEW src \in Node, Live(src)
  PROVE  /\ \A x \in Tree(src) : x \in Node /\ Live(x)
         /\ \A x \in Tree(src) : \A k \in DOMAIN kids[x] : kids[x][k] \in Tree(src) \ {src}
<1>1. Tree(src) \subseteq Node /\ Closed(Tree(src))
  BY BelowIsClosed DEF Own, Shaped, Tree
<1>2. \A x \in Tree(src) : Live(x)
  BY BelowIsOwned DEF Tree
<1>3. ASSUME NEW x \in Tree(src), NEW k \in DOMAIN kids[x] PROVE kids[x][k] \in Tree(src) \ {src}
  <2>1. Closed(Below(src)) /\ Children(src) \subseteq Below(src)
    BY BelowIsClosed DEF Own, Shaped
  <2>2. kids[x][k] \in Below(src)
    BY <2>1 DEF Tree, Closed, Children
  <2>3. src \notin Below(src)
    BY NoCycle
  <2> QED BY <2>2, <2>3 DEF Tree
<1> QED BY <1>1, <1>2, <1>3

(* The copy f[x] of x in a tree that is copied has the shape of x. *)
LEMMA CopyShape ==
  ASSUME Own, NEW src \in Node, Live(src), NEW T \in SUBSET Node,
         NEW f \in Injection(Tree(src), T), NEW x \in Tree(src)
  PROVE  /\ AntiFunction(f)[f[x]] = x
         /\ Copied(f, src, f[x]) = [k \in DOMAIN kids[x] |-> f[kids[x][k]]]
         /\ \A k \in DOMAIN kids[x] : f[kids[x][k]] \in Range(f) \ {f[src]}
         /\ val[x] = "array" => Copied(f, src, f[x]) \in Seq(Node)
         /\ val[x] = "object" => DOMAIN Copied(f, src, f[x]) \subseteq Name
         /\ val[x] \notin Containers => Copied(f, src, f[x]) = <<>>
<1>1. AntiFunction(f)[f[x]] = x
  BY ImageFacts
<1>2. Copied(f, src, f[x]) = [k \in DOMAIN kids[x] |-> f[kids[x][k]]]
  BY <1>1 DEF Copied
<1>3. \A k \in DOMAIN kids[x] : f[kids[x][k]] \in Range(f) \ {f[src]}
  BY TreeFacts, ImageFacts DEF Tree
<1>4. Range(f) \subseteq Node
  BY ImageFacts
<1>5. x \in Node
  BY TreeFacts
<1>6. ASSUME val[x] = "array" PROVE Copied(f, src, f[x]) \in Seq(Node)
  <2>1. kids[x] \in Seq(Node) /\ Len(kids[x]) \in Nat /\ DOMAIN kids[x] = 1 .. Len(kids[x])
    BY <1>5, <1>6 DEF Own, Shaped
  <2>2. \A k \in 1 .. Len(kids[x]) : f[kids[x][k]] \in Node
    BY <1>3, <1>4, <2>1
  <2>3. [k \in 1 .. Len(kids[x]) |-> f[kids[x][k]]] \in Seq(Node)
    BY <2>1, <2>2, IsASeq
  <2> QED BY <1>2, <2>1, <2>3
<1>7. ASSUME val[x] = "object" PROVE DOMAIN Copied(f, src, f[x]) \subseteq Name
  BY <1>2, <1>5, <1>7 DEF Own, Shaped
<1>8. ASSUME val[x] \notin Containers PROVE Copied(f, src, f[x]) = <<>>
  <2>1. kids[x] = <<>>
    BY <1>5, <1>8 DEF Own, Shaped
  <2> QED BY <1>2, <2>1
<1> QED BY <1>1, <1>2, <1>3, <1>6, <1>7, <1>8

(* The copies R of a tree point to copies, each to its own, in the order of *)
(* the originals.                                                           *)
LEMMA CopyPoints ==
  ASSUME Own, NEW src \in Node, Live(src), NEW T \in SUBSET Node,
         NEW f \in Injection(Tree(src), T),
         \A m \in Range(f) : kids'[m] = Copied(f, src, m),
         NEW R \in SUBSET Range(f)
  PROVE  /\ \A m \in Range(f) : \A k \in DOMAIN kids'[m] : kids'[m][k] \in Range(f) \ {f[src]}
         /\ \A m, p \in Range(f) : \A j \in DOMAIN kids'[m], k \in DOMAIN kids'[p] :
              kids'[m][j] = kids'[p][k] => m = p /\ j = k
         /\ (\A m \in R : \A k \in DOMAIN kids'[m] : kids'[m][k] \in R) => RankedNew(R)
<1>1. \A x \in Tree(src) : /\ f[x] \in Range(f) /\ AntiFunction(f)[f[x]] = x
                           /\ DOMAIN kids'[f[x]] = DOMAIN kids[x]
                           /\ \A k \in DOMAIN kids[x] : kids'[f[x]][k] = f[kids[x][k]]
  <2> SUFFICES ASSUME NEW x \in Tree(src)
               PROVE  /\ f[x] \in Range(f) /\ AntiFunction(f)[f[x]] = x
                      /\ DOMAIN kids'[f[x]] = DOMAIN kids[x]
                      /\ \A k \in DOMAIN kids[x] : kids'[f[x]][k] = f[kids[x][k]]
    OBVIOUS
  <2>1. f[x] \in Range(f) /\ AntiFunction(f)[f[x]] = x
    BY ImageFacts
  <2>2. kids'[f[x]] = [k \in DOMAIN kids[x] |-> f[kids[x][k]]]
    BY <2>1, CopyShape
  <2> QED BY <2>1, <2>2
<1>2. \A m \in Range(f) : \E x \in Tree(src) : f[x] = m
  BY ImageFacts
<1>3. \A x \in Tree(src) : x \in Node /\ \A k \in DOMAIN kids[x] : kids[x][k] \in Tree(src) \ {src}
  BY TreeFacts
<1>4. src \in Tree(src)
  BY DEF Tree
<1>5. ASSUME NEW m \in Range(f), NEW k \in DOMAIN kids'[m]
      PROVE  kids'[m][k] \in Range(f) \ {f[src]}
  <2>1. PICK x \in Tree(src) : f[x] = m
    BY <1>2
  <2>2. kids[x][k] \in Tree(src) \ {src} /\ kids'[m][k] = f[kids[x][k]]
    BY <1>1, <1>3, <2>1
  <2> QED BY <1>1, <1>4, <2>2
<1>6. ASSUME NEW m \in Range(f), NEW p \in Range(f),
             NEW j \in DOMAIN kids'[m], NEW k \in DOMAIN kids'[p],
             kids'[m][j] = kids'[p][k]
      PROVE  m = p /\ j = k
  <2>1. PICK x \in Tree(src) : f[x] = m
    BY <1>2
  <2>2. PICK y \in Tree(src) : f[y] = p
    BY <1>2
  <2>3. /\ j \in DOMAIN kids[x] /\ kids'[m][j] = f[kids[x][j]] /\ kids[x][j] \in Tree(src)
        /\ k \in DOMAIN kids[y] /\ kids'[p][k] = f[kids[y][k]] /\ kids[y][k] \in Tree(src)
    BY <1>1, <1>3, <2>1, <2>2
  <2>4. kids[x][j] = kids[y][k]
    <3>1. AntiFunction(f)[f[kids[x][j]]] = kids[x][j] /\ AntiFunction(f)[f[kids[y][k]]] = kids[y][k]
      BY <1>1, <2>3
    <3>2. f[kids[x][j]] = f[kids[y][k]]
      BY <1>6, <2>3
    <3> QED BY <3>1, <3>2
  <2>5. x = y /\ j = k
    BY <1>3, <2>3, <2>4 DEF Own, SinglePointers
  <2> QED BY <2>1, <2>2, <2>5
<1>7. ASSUME \A m \in R : \A k \in DOMAIN kids'[m] : kids'[m][k] \in R
      PROVE  RankedNew(R)
  <2>1. PICK rank \in [Node -> Nat] : Descends(rank)
    BY DEF Own, Ranked
  <2> DEFINE new == [m \in R |-> rank[AntiFunction(f)[m]]]
  <2>2. new \in [R -> Nat]
    BY <1>1, <1>2, <1>3
  <2>3. ASSUME NEW m \in R, NEW k \in DOMAIN kids'[m] PROVE new[m] < new[kids'[m][k]]
    <3>1. PICK x \in Tree(src) : f[x] = m
      BY <1>2
    <3>2. kids[x][k] \in Tree(src) /\ kids'[m][k] = f[kids[x][k]] /\ k \in DOMAIN kids[x]
      BY <1>1, <1>3, <3>1
    <3>3. AntiFunction(f)[m] = x /\ AntiFunction(f)[kids'[m][k]] = kids[x][k]
      BY <1>1, <3>1, <3>2
    <3>4. rank[x] < rank[kids[x][k]]
      BY <1>3, <2>1, <3>2 DEF Descends
    <3> QED BY <1>7, <3>3, <3>4
  <2> QED BY <2>2, <2>3 DEF RankedNew
<1> QED BY <1>5, <1>6, <1>7

(* The whole copy hangs below n once the copy of the root does. *)
LEMMA CopyReached ==
  ASSUME Own, Shaped', NEW src \in Node, Live(src), NEW n \in Node, NEW f,
         \A x \in Tree(src) : kids'[f[x]] = [k \in DOMAIN kids[x] |-> f[kids[x][k]]],
         f[src] \in Tree(n)'
  PROVE  \A x \in Tree(src) : f[x] \in Tree(n)'
<1> DEFINE C == {x \in Tree(src) : f[x] \in Tree(n)'}
<1>1. \A c \in Tree(n)' : Children(c)' \subseteq Tree(n)'
  BY BelowIsClosedNext DEF Shaped
<1>2. \A x \in Tree(src) : x \in Node /\ \A k \in DOMAIN kids[x] : kids[x][k] \in Tree(src)
  BY TreeFacts
<1>3. ASSUME NEW c \in C PROVE Children(c) \subseteq C
  <2> SUFFICES ASSUME NEW k \in DOMAIN kids[c] PROVE kids[c][k] \in C
    BY DEF Children
  <2>1. k \in DOMAIN kids'[f[c]] /\ kids'[f[c]][k] = f[kids[c][k]]
    OBVIOUS
  <2>2. f[kids[c][k]] \in Children(f[c])'
    BY <2>1 DEF Children
  <2> QED BY <1>1, <1>2, <2>2
<1>4. src \in C
  BY DEF Tree
<1>5. Below(src) \subseteq C
  <2>1. C \in SUBSET Node
    BY <1>2
  <2> QED BY <1>3, <1>4, <2>1, BelowIsLeast DEF Closed
<1> QED BY <1>4, <1>5 DEF Tree

LEMMA AddCopyKeeps ==
  ASSUME Own, Rooted, NEW n \in Node, NEW src \in Node, AddCopy(n, src)
  PROVE  Own' /\ Rooted'
<1>1. PICK key \in EntryKeys(n), f \in Injection(Tree(src), Fresh) :
        /\ val' = [m \in Node |-> IF m \in Range(f) THEN val[AntiFunction(f)[m]] ELSE val[m]]
        /\ Enter(n, key, f[src],
                 [m \in Node |-> IF m \in Range(f) THEN Copied(f, src, m) ELSE kids[m]])
  BY DEF AddCopy
<1> DEFINE R == Range(f)
           top == f[src]
<1>2. Live(src) /\ val[n] \in Containers /\ Live(n)
  BY EntryShape DEF AddCopy, CanSet, Live, Own, Containers
<1>3. Fresh \subseteq Node /\ R \subseteq Fresh
  BY ImageFacts DEF Fresh
<1>4. /\ n \notin R /\ top \in R /\ top \in Node
      /\ \A m \in R : ~Live(m) /\ m \in Node
  BY <1>2, <1>3, ImageFacts DEF Fresh, Tree
<1>5. /\ kids'[n] = Entered(kids[n], key, top)
      /\ \A m \in R : kids'[m] = Copied(f, src, m)
      /\ \A m \in Node \ (R \cup {n}) : kids'[m] = kids[m]
      /\ kids' = [m \in Node |-> kids'[m]]
  BY <1>1, <1>4 DEF Enter
<1>6. \A x \in Tree(src) :
        /\ x \in Node /\ Live(x) /\ AntiFunction(f)[f[x]] = x
        /\ f[x] \in R /\ kids'[f[x]] = [k \in DOMAIN kids[x] |-> f[kids[x][k]]]
        /\ val'[f[x]] = val[x]
        /\ \A k \in DOMAIN kids'[f[x]] : kids'[f[x]][k] \in R \ {top}
        /\ val'[f[x]] = "array" => kids'[f[x]] \in Seq(Node)
        /\ val'[f[x]] = "object" => DOMAIN kids'[f[x]] \subseteq Name
        /\ val'[f[x]] \notin Containers => kids'[f[x]] = <<>>
  <2> SUFFICES ASSUME NEW x \in Tree(src)
               PROVE  /\ x \in Node /\ Live(x) /\ AntiFunction(f)[f[x]] = x
                      /\ f[x] \in R /\ kids'[f[x]] = [k \in DOMAIN kids[x] |-> f[kids[x][k]]]
                      /\ val'[f[x]] = val[x]
                      /\ \A k \in DOMAIN kids'[f[x]] : kids'[f[x]][k] \in R \ {top}
                      /\ val'[f[x]] = "array" => kids'[f[x]] \in Seq(Node)
                      /\ val'[f[x]] = "object" => DOMAIN kids'[f[x]] \subseteq Name
                      /\ val'[f[x]] \notin Containers => kids'[f[x]] = <<>>
    OBVIOUS
  <2>1. x \in Node /\ Live(x) /\ AntiFunction(f)[f[x]] = x /\ f[x] \in R
    BY <1>2, TreeFacts, ImageFacts
  <2>2. kids'[f[x]] = Copied(f, src, f[x]) /\ val'[f[x]] = val[x]
    BY <1>1, <1>3, <1>5, <2>1
  <2> QED BY <1>2, <1>3, <2>1, <2>2, CopyShape
<1>7. \A m \in R : \E x \in Tree(src) : f[x] = m
  BY ImageFacts
<1>8. \A m \in R :
        /\ val'[m] \in Contents /\ val'[m] # "free"
        /\ val'[m] = "array" => kids'[m] \in Seq(Node)
        /\ val'[m] = "object" => DOMAIN kids'[m] \subseteq Name
        /\ val'[m] \notin Containers => kids'[m] = <<>>
  <2> SUFFICES ASSUME NEW m \in R
               PROVE  /\ val'[m] \in Contents /\ val'[m] # "free"
                      /\ val'[m] = "array" => kids'[m] \in Seq(Node)
                      /\ val'[m] = "object" => DOMAIN kids'[m] \subseteq Name
                      /\ val'[m] \notin Containers => kids'[m] = <<>>
    OBVIOUS
  <2>1. PICK x \in Tree(src) : f[x] = m
    BY <1>7
  <2>2. val'[m] = val[x] /\ x \in Node /\ val[x] # "free"
    BY <1>6, <2>1 DEF Live
  <2>3. val[x] \in Contents
    BY <2>2 DEF Own, Shaped
  <2> QED BY <1>6, <2>1, <2>2, <2>3
<1>9. \A m \in Node \ R : val'[m] = val[m]
  BY <1>1
<1>10. \A m \in Node : Live(m)' <=> Live(m) \/ m \in R
  BY <1>8, <1>9 DEF Live
<1>11. Shaped'
  <2>1. val' \in [Node -> Contents]
    <3>1. val' = [m \in Node |-> val'[m]]
      BY <1>1
    <3>2. \A m \in Node : val'[m] \in Contents
      BY <1>8, <1>9 DEF Own, Shaped
    <3> QED BY <3>1, <3>2
  <2>2. PointsToNodes'
    <3>1. ASSUME NEW m \in Node, NEW k \in DOMAIN kids'[m] PROVE kids'[m][k] \in Node
      <4>1. CASE m = n
        BY <1>1, <1>4, <1>5, <4>1, EntryShape DEF Own
      <4>2. CASE m \in R
        BY <1>4, <1>6, <1>7, <4>2
      <4>3. CASE m \notin R \cup {n}
        BY <1>5, <4>3 DEF Own, Shaped, PointsToNodes
      <4> QED BY <4>1, <4>2, <4>3
    <3> QED BY <3>1 DEF PointsToNodes
  <2>3. ASSUME NEW m \in Node
        PROVE  /\ val'[m] = "array" => kids'[m] \in Seq(Node)
               /\ val'[m] = "object" => DOMAIN kids'[m] \subseteq Name
               /\ val'[m] \notin Containers => kids'[m] = <<>>
    <3>1. CASE m = n
      <4>1. val'[n] = val[n]
        BY <1>1, <1>4
      <4>2. /\ val[n] = "array" => kids'[n] \in Seq(Node)
            /\ val[n] = "object" => DOMAIN kids'[n] \subseteq Name
        BY <1>1, <1>4, <1>5, EntryShape DEF Own
      <4> QED BY <1>2, <3>1, <4>1, <4>2
    <3>2. CASE m \in R
      BY <1>8, <3>2
    <3>3. CASE m \notin R \cup {n}
      BY <1>1, <1>5, <3>3 DEF Own, Shaped
    <3> QED BY <3>1, <3>2, <3>3
  <2>4. replaced' \subseteq Node
    BY <1>1, ReplacedType DEF Enter, Own
  <2> QED BY <1>5, <2>1, <2>2, <2>3, <2>4 DEF Shaped
<1>12. R \subseteq Tree(n)'
  <2>1. top \in Children(n)'
    BY <1>5 DEF Children, Entered
  <2>2. top \in Tree(n)'
    BY <1>11, <2>1, BelowIsClosedNext DEF Shaped, Tree
  <2>3. \A x \in Tree(src) : f[x] \in Tree(n)'
    BY <1>2, <1>6, <1>11, <2>2, CopyReached
  <2> QED BY <1>7, <2>3
<1>13. /\ \A m \in R : \A k \in DOMAIN kids'[m] : kids'[m][k] \in R \ {top}
       /\ \A m, p \in R : \A j \in DOMAIN kids'[m], k \in DOMAIN kids'[p] :
            kids'[m][j] = kids'[p][k] => m = p /\ j = k
       /\ RankedNew(R)
  BY <1>2, <1>3, <1>5, CopyPoints
<1>14. Rewrites(n, R, {}) /\ Leaves(n, {})
  <2>1. replaced' = replaced \cup (IF key \in DOMAIN kids[n] THEN {kids[n][key]} ELSE {})
    BY <1>1 DEF Enter
  <2> QED BY <1>2, <1>3, <1>4, <1>5, <1>10, <1>12, <1>13, <2>1, EnterRewrites
<1> QED BY <1>2, <1>11, <1>14, RewriteKeeps, RootedKeeps

LEMMA CloneKeeps ==
  ASSUME Own, Rooted, NEW n \in Node, NEW src \in Node, Clone(n, src)
  PROVE  Own' /\ Rooted'
<1>1. PICK f \in Injection(Tree(src), Fresh \cup {n}) :
        /\ f[src] = n
        /\ val' = [m \in Node |-> IF m \in Range(f) THEN val[AntiFunction(f)[m]]
                                  ELSE IF m \in Below(n) THEN "free" ELSE val[m]]
        /\ kids' = [m \in Node |-> IF m \in Range(f) THEN Copied(f, src, m)
                                   ELSE IF m \in Below(n) THEN <<>> ELSE kids[m]]
  BY DEF Clone, Deleted
<1> DEFINE All == Range(f)
           R == All \ {n}
           D == Below(n)
<1>2. Live(src) /\ Live(n) /\ replaced' = replaced
  BY DEF Clone, CanSet
<1>3. All \subseteq Fresh \cup {n} /\ Fresh \cup {n} \subseteq Node
  BY ImageFacts DEF Fresh
<1>4. /\ n \in All
      /\ R \subseteq Fresh /\ \A m \in R : ~Live(m) /\ kids[m] = <<>>
  BY <1>1, <1>3, ImageFacts, FreeHasNoChildren DEF Fresh, Tree, Own
<1>5. /\ D \subseteq Node /\ Children(n) \subseteq D /\ Closed(D)
      /\ D \cap (Static \cup All) = {} /\ n \notin D
  <2>1. D \subseteq Node /\ Children(n) \subseteq D /\ Closed(D)
    BY BelowIsClosed DEF Own, Shaped
  <2>2. n \notin D /\ \A m \in D : Live(m) /\ m \notin Static
    BY NoCycle, BelowIsOwned
  <2> QED BY <1>3, <1>4, <2>1, <2>2
<1>6. /\ \A m \in All : kids'[m] = Copied(f, src, m)
      /\ \A m \in D : kids'[m] = <<>> /\ val'[m] = "free"
      /\ \A m \in Node \ (All \cup D) : kids'[m] = kids[m] /\ val'[m] = val[m]
  BY <1>1, <1>3, <1>5
<1>7. \A x \in Tree(src) :
        /\ x \in Node /\ Live(x)
        /\ f[x] \in All /\ kids'[f[x]] = [k \in DOMAIN kids[x] |-> f[kids[x][k]]]
        /\ val'[f[x]] = val[x]
        /\ val'[f[x]] = "array" => kids'[f[x]] \in Seq(Node)
        /\ val'[f[x]] = "object" => DOMAIN kids'[f[x]] \subseteq Name
        /\ val'[f[x]] \notin Containers => kids'[f[x]] = <<>>
  <2> SUFFICES ASSUME NEW x \in Tree(src)
               PROVE  /\ x \in Node /\ Live(x)
                      /\ f[x] \in All /\ kids'[f[x]] = [k \in DOMAIN kids[x] |-> f[kids[x][k]]]
                      /\ val'[f[x]] = val[x]
                      /\ val'[f[x]] = "array" => kids'[f[x]] \in Seq(Node)
                      /\ val'[f[x]] = "object" => DOMAIN kids'[f[x]] \subseteq Name
                      /\ val'[f[x]] \notin Containers => kids'[f[x]] = <<>>
    OBVIOUS
  <2>1. x \in Node /\ Live(x) /\ AntiFunction(f)[f[x]] = x /\ f[x] \in All
    BY <1>2, TreeFacts, ImageFacts
  <2>2. kids'[f[x]] = Copied(f, src, f[x]) /\ val'[f[x]] = val[x]
    BY <1>1, <1>3, <1>6, <2>1
  <2> QED BY <1>2, <1>3, <2>1, <2>2, CopyShape
<1>8. \A m \in All : \E x \in Tree(src) : f[x] = m
  BY ImageFacts
<1>9. \A m \in All :
        /\ val'[m] \in Contents /\ val'[m] # "free"
        /\ val'[m] = "array" => kids'[m] \in Seq(Node)
        /\ val'[m] = "object" => DOMAIN kids'[m] \subseteq Name
        /\ val'[m] \notin Containers => kids'[m] = <<>>
  <2> SUFFICES ASSUME NEW m \in All
               PROVE  /\ val'[m] \in Contents /\ val'[m] # "free"
                      /\ val'[m] = "array" => kids'[m] \in Seq(Node)
                      /\ val'[m] = "object" => DOMAIN kids'[m] \subseteq Name
                      /\ val'[m] \notin Containers => kids'[m] = <<>>
    OBVIOUS
  <2>1. PICK x \in Tree(src) : f[x] = m
    BY <1>8
  <2>2. val'[m] = val[x] /\ x \in Node /\ val[x] # "free"
    BY <1>7, <2>1 DEF Live
  <2>3. val[x] \in Contents
    BY <2>2 DEF Own, Shaped
  <2> QED BY <1>7, <2>1, <2>2, <2>3
<1>10. /\ \A m \in All : \A k \in DOMAIN kids'[m] : kids'[m][k] \in R
       /\ \A m, p \in All : \A j \in DOMAIN kids'[m], k \in DOMAIN kids'[p] :
            kids'[m][j] = kids'[p][k] => m = p /\ j = k
       /\ RankedNew(R)
  <2> HIDE DEF R
  <2>1. Fresh \cup {n} \in SUBSET Node /\ R \in SUBSET Range(f)
    BY <1>3 DEF R
  <2>2. /\ \A m \in Range(f) : \A k \in DOMAIN kids'[m] : kids'[m][k] \in Range(f) \ {f[src]}
        /\ \A m, p \in Range(f) : \A j \in DOMAIN kids'[m], k \in DOMAIN kids'[p] :
             kids'[m][j] = kids'[p][k] => m = p /\ j = k
        /\ (\A m \in R : \A k \in DOMAIN kids'[m] : kids'[m][k] \in R) => RankedNew(R)
    BY <1>2, <1>6, <2>1, CopyPoints
  <2>3. R = Range(f) \ {f[src]}
    BY <1>1 DEF R
  <2> QED BY <2>2, <2>3
<1>11. Shaped'
  <2>1. val' = [m \in Node |-> val'[m]] /\ kids' = [m \in Node |-> kids'[m]]
    BY <1>1
  <2>2. ASSUME NEW m \in Node
        PROVE  /\ val'[m] \in Contents
               /\ \A k \in DOMAIN kids'[m] : kids'[m][k] \in Node
               /\ val'[m] = "array" => kids'[m] \in Seq(Node)
               /\ val'[m] = "object" => DOMAIN kids'[m] \subseteq Name
               /\ val'[m] \notin Containers => kids'[m] = <<>>
    <3>1. CASE m \in All
      BY <1>3, <1>9, <1>10, <3>1
    <3>2. CASE m \in D
      BY <1>6, <3>2 DEF Contents
    <3>3. CASE m \notin All \cup D
      BY <1>6, <3>3 DEF Own, Shaped, PointsToNodes
    <3> QED BY <3>1, <3>2, <3>3
  <2> QED BY <1>2, <2>1, <2>2 DEF Own, Shaped, PointsToNodes
<1>12. Rewrites(n, R, D)
  <2>1. Untouched(n, R)
    BY <1>4, <1>6 DEF Untouched
  <2>2. Pointed(n, R, D)
    <3>1. ASSUME NEW m \in Node, NEW k \in DOMAIN kids'[m] PROVE kids'[m][k] \notin D
      <4>1. CASE m \in All
        BY <1>5, <1>10, <4>1
      <4>2. CASE m \in D
        BY <1>6, <4>2
      <4>3. CASE m \notin All \cup D
        <5>1. kids'[m] = kids[m] /\ m # n
          BY <1>4, <1>6, <4>3
        <5> QED BY <4>3, <5>1, BelowIsOwned DEF Tree
      <4> QED BY <4>1, <4>2, <4>3
    <3> QED BY <1>4, <1>10, <3>1 DEF Pointed
  <2>3. \A m \in Node \ D : Live(m) \/ m \in R \cup {n} => Live(m)'
    BY <1>4, <1>6, <1>9 DEF Live
  <2> QED BY <1>4, <1>5, <1>10, <2>1, <2>2, <2>3 DEF Rewrites
<1>13. Leaves(n, D)
  <2>1. \A m \in Node \ (D \cup {n}) : Children(m) \subseteq Children(m)'
    BY <1>4, <1>6 DEF Children
  <2>2. \A x \in Tree(src) : f[x] \in Tree(n)'
    <3>1. f[src] \in Tree(n)'
      BY <1>1 DEF Tree
    <3> QED BY <1>2, <1>7, <1>11, <3>1, CopyReached
  <2>3. ASSUME NEW x \in Node, Live(x)' PROVE (Live(x) /\ x \notin D) \/ x \in Tree(n)'
    <3>1. CASE x \in All
      BY <1>8, <2>2, <3>1
    <3>2. CASE x \in D
      BY <1>6, <2>3, <3>2 DEF Live
    <3>3. CASE x \notin All \cup D
      BY <1>6, <2>3, <3>3 DEF Live
    <3> QED BY <3>1, <3>2, <3>3
  <2> QED BY <1>2, <1>5, <2>1, <2>3 DEF Leaves
<1> QED BY <1>2, <1>5, <1>11, <1>12, <1>13, RewriteKeeps, RootedKeeps

-----------------------------------------------------------------------------
(* nullval. *)

(* The caller's calls but an assignment and a deletion leave nullval alone. *)
LEMMA NullKept ==
  ASSUME Own, NullInert, ~spoiled, Call, ~spoiled'
  PROVE  NullInert'
<1>1. /\ NullVal \in Node /\ NullVal \in Static /\ Live(NullVal) /\ NullVal \notin Fresh
      /\ val[NullVal] = "nullval" /\ kids[NullVal] = <<>> /\ val[NullVal] \notin Containers
  BY ValueAssumption DEF Own, StaticLive, NullInert, Static, Fresh, Containers
<1>2. kids = [m \in Node |-> kids[m]] /\ val \in [Node -> Contents]
  BY DEF Own, Shaped
<1> SUFFICES val'[NullVal] = val[NullVal] /\ kids'[NullVal] = kids[NullVal]
  BY <1>1 DEF NullInert
<1>3. ASSUME NEW n \in Node \ {NullVal}, NEW contents, Become(n, contents)
      PROVE  val'[NullVal] = val[NullVal] /\ kids'[NullVal] = kids[NullVal]
  <2>1. NullVal \notin Below(n)
    BY <1>1, BelowIsOwned
  <2> QED BY <1>1, <1>3, <2>1 DEF Become, Deleted
<1>4. ASSUME NEW n \in Node, NEW s \in Scalar, SetScalar(n, s)
      PROVE  val'[NullVal] = val[NullVal] /\ kids'[NullVal] = kids[NullVal]
  BY <1>1, <1>3, <1>4 DEF SetScalar, CanSet
<1>5. ASSUME NEW n \in Node, NEW c \in Containers, SetContainer(n, c)
      PROVE  val'[NullVal] = val[NullVal] /\ kids'[NullVal] = kids[NullVal]
  BY <1>1, <1>3, <1>5 DEF SetContainer, CanSet
<1>6. ASSUME NEW n \in Node, DeleteValue(n)
      PROVE  val'[NullVal] = val[NullVal] /\ kids'[NullVal] = kids[NullVal]
  BY <1>3, <1>6 DEF DeleteValue
<1>7. ASSUME NEW n \in Node, Clear(n)
      PROVE  val'[NullVal] = val[NullVal] /\ kids'[NullVal] = kids[NullVal]
  BY <1>1, <1>3, <1>7 DEF Clear
<1>8. ASSUME NEW n \in Node, NEW s \in Scalar, AddNew(n, s)
      PROVE  val'[NullVal] = val[NullVal] /\ kids'[NullVal] = kids[NullVal]
  <2>1. n # NullVal
    BY <1>1, <1>8, EntryShape DEF AddNew, Own
  <2> QED BY <1>1, <1>2, <1>8, <2>1 DEF AddNew, Enter
<1>9. ASSUME NEW n \in Node, NEW name \in Name, NEW wide \in BOOLEAN, GetChild(n, name, wide)
      PROVE  val'[NullVal] = val[NullVal] /\ kids'[NullVal] = kids[NullVal]
  <2>1. n # NullVal
    BY <1>1, <1>9 DEF GetChild
  <2> QED BY <1>1, <1>2, <1>9, <2>1 DEF GetChild, CreateChild, Enter
<1>10. ASSUME NEW n \in Node, NEW index \in 0 .. MaxIndex, Index(n, index)
       PROVE  val'[NullVal] = val[NullVal] /\ kids'[NullVal] = kids[NullVal]
  <2>1. n # NullVal
    BY <1>1, <1>10 DEF Index
  <2>2. PICK f \in Injection((Len(kids[n]) + 1) .. (index + 1), Fresh) :
          /\ val' = [m \in Node |-> IF m = n THEN "array"
                                    ELSE IF m \in Range(f) THEN "undefined" ELSE val[m]]
          /\ kids' = [kids EXCEPT ![n] = [i \in 1 .. (index + 1) |->
                                            IF i <= Len(kids[n]) THEN @[i] ELSE f[i]]]
    BY <1>10 DEF Index
  <2>3. NullVal \notin Range(f)
    BY <1>1, ImageFacts
  <2> QED BY <1>1, <1>2, <2>1, <2>2, <2>3
<1>11. ASSUME NEW n \in Node, NEW key \in DOMAIN kids[n], DeleteChild(n, key)
       PROVE  val'[NullVal] = val[NullVal] /\ kids'[NullVal] = kids[NullVal]
  <2> DEFINE gone == {kids[n][key]} \cup Below(kids[n][key])
  <2>1. kids[n][key] \in Node /\ NullVal \notin gone
    BY <1>1, BelowIsOwned DEF Own, Shaped, PointsToNodes, NothingDangles
  <2>2. NullVal # n
    BY <1>1
  <2> QED BY <1>1, <1>11, <2>1, <2>2 DEF DeleteChild, Deleted
<1>12. ASSUME NEW n \in Node, NEW src \in Node, AddCopy(n, src)
       PROVE  val'[NullVal] = val[NullVal] /\ kids'[NullVal] = kids[NullVal]
  <2>1. n # NullVal
    BY <1>1, <1>12, EntryShape DEF AddCopy, Own
  <2>2. PICK key \in EntryKeys(n), f \in Injection(Tree(src), Fresh) :
          /\ val' = [m \in Node |-> IF m \in Range(f) THEN val[AntiFunction(f)[m]] ELSE val[m]]
          /\ Enter(n, key, f[src],
                   [m \in Node |-> IF m \in Range(f) THEN Copied(f, src, m) ELSE kids[m]])
    BY <1>12 DEF AddCopy
  <2>3. NullVal \notin Range(f)
    BY <1>1, ImageFacts
  <2> QED BY <1>1, <2>1, <2>2, <2>3 DEF Enter
<1>13. ASSUME NEW n \in Node, NEW src \in Node, Clone(n, src)
       PROVE  val'[NullVal] = val[NullVal] /\ kids'[NullVal] = kids[NullVal]
  <2>1. n # NullVal /\ NullVal \notin Below(n)
    BY <1>1, <1>13, BelowIsOwned DEF Clone, CanSet
  <2>2. PICK f \in Injection(Tree(src), Fresh \cup {n}) :
          /\ val' = [m \in Node |-> IF m \in Range(f) THEN val[AntiFunction(f)[m]]
                                    ELSE IF m \in Below(n) THEN "free" ELSE val[m]]
          /\ kids' = [m \in Node |-> IF m \in Range(f) THEN Copied(f, src, m)
                                     ELSE IF m \in Below(n) THEN <<>> ELSE kids[m]]
    BY <1>13 DEF Clone, Deleted
  <2>3. NullVal \notin Range(f)
    BY <1>1, <2>1, ImageFacts
  <2> QED BY <1>1, <2>1, <2>2, <2>3
<1>14. ASSUME NEW n \in Node, NEW src \in Node, Assign(n, src)
       PROVE  val'[NullVal] = val[NullVal] /\ kids'[NullVal] = kids[NullVal]
  BY <1>14 DEF Assign
<1> QED BY <1>4, <1>5, <1>6, <1>7, <1>8, <1>9, <1>10, <1>11, <1>12, <1>13, <1>14 DEF Call

-----------------------------------------------------------------------------
(* operator==. *)

(* What a comparison is made of. *)
Keys == Name \cup (Nat \ {0})
CallRecord == [this : Node, v : Node, left : SUBSET Keys]
Pairs == {<<>>} \cup (Node \X Node)
CallLists == Seq(CallRecord)
Answers == {"none", "equal", "different"}
ComparisonRecord == [of : Pairs, calls : CallLists, answer : Answers, grown : BOOLEAN]

LEMMA AnswersAre == "none" \in Answers /\ "equal" \in Answers /\ "different" \in Answers
BY DEF Answers

LEMMA IntervalSize ==
  ASSUME NEW n \in Nat PROVE Cardinality(1 .. n) = n
BY FS_Interval

(* What a step of a comparison makes of its record. *)
LEMMA RecordChanges ==
  ASSUME NEW c \in ComparisonRecord
  PROVE  /\ c.of \in Pairs /\ c.calls \in CallLists
         /\ c.answer \in Answers /\ c.grown \in BOOLEAN
         /\ \A of \in Pairs :
              [c EXCEPT !.of = of] \in ComparisonRecord /\ [c EXCEPT !.of = of].of = of
              /\ [c EXCEPT !.of = of].calls = c.calls
         /\ [c EXCEPT !.grown = TRUE] \in ComparisonRecord
         /\ [c EXCEPT !.grown = TRUE].of = c.of
         /\ [c EXCEPT !.grown = TRUE].calls = c.calls
BY DEF ComparisonRecord

(* x is in the tree of an operand. *)
Operand(of, x) == x \in Tree(of[1]) \/ x \in Tree(of[2])

(* A call is for two values of the operands' trees, of the same datatype if *)
(* they hold anything, with as many elements.                               *)
Fits(of, call) ==
  /\ Operand(of, call.this) /\ Operand(of, call.v)
  /\ call.left \subseteq DOMAIN kids[call.this]
  /\ val[call.this] \in Containers => val[call.v] = val[call.this]
  /\ val[call.this] = "array" => DOMAIN kids[call.v] = DOMAIN kids[call.this]

Operands(of) == of \in Node \X Node /\ Live(of[1]) /\ Live(of[2])
AllFit(c) == \A i \in 1 .. Len(c.calls) : Fits(c.of, c.calls[i])
Going(c) == c \in ComparisonRecord /\ Operands(c.of) /\ AllFit(c)
Comparing == comparison = Idle \/ (Going(comparison) /\ ~spoiled)

(* Every value keeps what it has but for what operator== may do to it.      *)
AllKeep == \A n \in Node : Live(n) => Keeps(n)

(* Trees only grow, then, and what was compared is still there. *)
LEMMA KeptFits ==
  ASSUME Own, PointsToNodes', AllKeep, NEW of, Operands(of)
  PROVE  /\ Operands(of)'
         /\ \A x : Operand(of, x) => Operand(of, x)'
         /\ \A call \in CallRecord : Fits(of, call) => Fits(of, call)'
<1>1. ASSUME NEW n \in Node, NEW k \in DOMAIN kids[n]
      PROVE  k \in DOMAIN kids'[n] /\ kids'[n][k] = kids[n][k]
  <2>1. Live(n)
    BY FreeHasNoChildren DEF Own
  <2> QED BY <2>1 DEF AllKeep, Keeps
<1>2. \A n \in Node : Children(n) \subseteq Children(n)'
  BY <1>1 DEF Children
<1>3. ASSUME NEW o \in Node PROVE Tree(o) \subseteq Tree(o)'
  <2>1. /\ Below(o)' \subseteq Node
        /\ Children(o)' \subseteq Below(o)'
        /\ \A c \in Below(o)' : Children(c)' \subseteq Below(o)'
    BY BelowIsClosedNext
  <2> DEFINE C == Below(o)'
  <2>2. Children(o) \subseteq C /\ Closed(C) /\ C \in SUBSET Node
    BY <1>2, <2>1 DEF Closed
  <2> HIDE DEF C
  <2>3. Below(o) \subseteq C
    BY <2>2, BelowIsLeast
  <2> QED BY <2>3 DEF Tree, C
<1>4. of[1] \in Node /\ of[2] \in Node /\ Live(of[1]) /\ Live(of[2])
  BY DEF Operands
<1>5. \A x : Operand(of, x) => Operand(of, x)'
  BY <1>3, <1>4 DEF Operand
<1>6. ASSUME NEW n \in Node, Live(n)
      PROVE  /\ Live(n)'
             /\ val'[n] \in Containers => val[n] = val'[n]
             /\ val[n] \in Containers => val'[n] = val[n]
             /\ val[n] = "array" => kids'[n] = kids[n]
  <2>1. NullLiteral # "free" /\ NullLiteral \notin Containers /\ "undefined" \notin Containers
    BY ValueAssumption DEF Containers
  <2> QED BY <1>6, <2>1 DEF AllKeep, Keeps, Live
<1>7. Operands(of)'
  BY <1>4, <1>6 DEF Operands
<1>8. ASSUME NEW call \in CallRecord, Fits(of, call) PROVE Fits(of, call)'
  <2> DEFINE a == call.this
             b == call.v
  <2>1. a \in Node /\ b \in Node /\ Operand(of, a) /\ Operand(of, b)
    BY <1>8 DEF CallRecord, Fits
  <2>2. Live(a) /\ Live(b)
    BY <1>4, <2>1, TreeFacts DEF Operand
  <2>3. Operand(of, a)' /\ Operand(of, b)'
    BY <1>5, <2>1
  <2>4. call.left \subseteq DOMAIN kids'[a]
    BY <1>1, <1>8, <2>1 DEF Fits
  <2>5. val'[a] \in Containers => val'[b] = val'[a]
    BY <1>6, <1>8, <2>1, <2>2 DEF Fits
  <2>6. val'[a] = "array" => DOMAIN kids'[b] = DOMAIN kids'[a]
    <3> HAVE val'[a] = "array"
    <3>1. val'[a] \in Containers
      BY DEF Containers
    <3>2. val[a] = "array"
      BY <1>6, <2>1, <2>2, <3>1
    <3>3. val[b] = "array"
      BY <1>8, <3>2 DEF Fits, Containers
    <3> QED BY <1>6, <1>8, <2>1, <2>2, <3>2, <3>3 DEF Fits
  <2> QED BY <2>3, <2>4, <2>5, <2>6 DEF Fits
<1> QED BY <1>5, <1>7, <1>8

(* A call of operator== makes undefined values null. *)
LEMMA EntersKeeps ==
  ASSUME Own, Rooted, NullInert, ~spoiled, NEW sofar, NEW a \in Node, NEW b \in Node,
         Enters(sofar, a, b)
  PROVE  /\ Own' /\ Rooted' /\ NullInert' /\ AllKeep
         /\ spoiled' = spoiled /\ aborted' = aborted /\ kids' = kids
<1>1. /\ kids' = kids /\ replaced' = replaced /\ spoiled' = spoiled /\ aborted' = aborted
      /\ val' = [m \in Node |-> IF m \in {a, b} THEN Settled(m) ELSE val[m]]
  BY DEF Enters
<1>2. ASSUME NEW m \in Node
      PROVE  val'[m] = val[m] \/ (val[m] = "undefined" /\ val'[m] = NullLiteral)
  BY <1>1 DEF Settled
<1>3. NullLiteral # "free" /\ NullLiteral \notin Containers /\ NullLiteral \in Contents
  BY ValueAssumption DEF Containers, Contents
<1>4. \A m \in Node : Live(m)' <=> Live(m)
  BY <1>2, <1>3 DEF Live
<1>5. val' \in [Node -> Contents]
  BY <1>1, <1>2, <1>3 DEF Own, Shaped
<1>6. Shaped'
  <2>1. ASSUME NEW m \in Node
        PROVE  /\ val'[m] = "array" => kids'[m] \in Seq(Node)
               /\ val'[m] = "object" => DOMAIN kids'[m] \subseteq Name
               /\ val'[m] \notin Containers => kids'[m] = <<>>
    BY <1>1, <1>2, <1>3 DEF Own, Shaped, Containers
  <2> QED BY <1>1, <1>5, <2>1 DEF Own, Shaped, PointsToNodes
<1>7. SinglePointers' /\ Ranked'
  BY <1>1 DEF Own, SinglePointers, Ranked, Descends
<1>8. NothingDangles' /\ StaticLive'
  <2>1. \A m \in Node : \A k \in DOMAIN kids[m] : kids[m][k] \in Node
    BY DEF Own, Shaped, PointsToNodes
  <2>2. Static \subseteq Node
    BY ValueAssumption
  <2> QED BY <1>1, <1>4, <2>1, <2>2 DEF Own, NothingDangles, StaticLive
<1>9. Rooted'
  <2>1. \A m : Tree(m)' = Tree(m)
    BY <1>1 DEF Tree, Below, Children
  <2> QED BY <1>1, <1>4, <2>1 DEF Rooted
<1>10. NullInert'
  <2>1. NullVal \in Node
    BY ValueAssumption DEF Static
  <2> QED BY <1>1, <1>2, <2>1 DEF NullInert
<1>11. AllKeep
  BY <1>1, <1>2 DEF AllKeep, Keeps
<1> QED BY <1>1, <1>6, <1>7, <1>8, <1>9, <1>10, <1>11 DEF Own

(* A member that v[name] creates is new.                                    *)
LEMMA CreatesKeeps ==
  ASSUME Own, Rooted, NullInert, ~spoiled, NEW n \in Node, NEW name \in Name,
         val[n] = "object", Missing(n, name), CreateChild(n, name)
  PROVE  /\ Own' /\ Rooted' /\ NullInert' /\ AllKeep
         /\ spoiled' = spoiled /\ aborted' = aborted
<1>1. Own' /\ Rooted'
  BY CreateChildKeeps
<1>2. PICK new \in Fresh :
        /\ val' = [val EXCEPT ![n] = "object", ![new] = "undefined"]
        /\ Enter(n, name, new, kids)
  BY DEF CreateChild
<1>3. kids = [m \in Node |-> kids[m]] /\ val \in [Node -> Contents]
  BY DEF Own, Shaped
<1>4. ASSUME NEW m \in Node, Live(m) PROVE val'[m] = val[m]
  <2>1. m # new
    BY <1>4 DEF Fresh
  <2> QED BY <1>2, <1>3, <2>1
<1>5. \A m \in Node \ {n} : kids'[m] = kids[m]
  BY <1>2, <1>3 DEF Enter
<1>6. kids'[n] = Entered(kids[n], name, new)
  BY <1>2, <1>3 DEF Enter
<1>7. \A k \in DOMAIN kids[n] : k \in DOMAIN kids'[n] /\ kids'[n][k] = kids[n][k]
  BY <1>6 DEF Entered, Missing
<1>8. AllKeep
  BY <1>4, <1>5, <1>7 DEF AllKeep, Keeps
<1>9. NullInert'
  <2>1. NullVal \in Node /\ Live(NullVal) /\ NullVal # n
    BY ValueAssumption DEF Own, StaticLive, Static, NullInert
  <2> QED BY <1>4, <1>5, <2>1 DEF NullInert
<1> QED BY <1>1, <1>2, <1>8, <1>9 DEF Enter

(* Two arrays of the same size have the same places. *)
LEMMA AlikeShapes ==
  ASSUME Own, NEW a \in Node, NEW b \in Node, Alike(a, b), Settled(a) \in Containers
  PROVE  /\ Settled(b) = Settled(a)
         /\ Settled(a) = "array" => DOMAIN kids[b] = DOMAIN kids[a]
<1>1. <<Settled(a), Settled(b)>> \notin Close
  BY ValueAssumption
<1>2. val[a] = val[b] /\ SameSize(a, b) /\ Settled(a) = val[a] /\ Settled(b) = val[b]
  BY <1>1, ValueAssumption DEF Alike, Settled
<1>3. ASSUME val[a] = "array" PROVE DOMAIN kids[b] = DOMAIN kids[a]
  <2>1. kids[a] \in Seq(Node) /\ kids[b] \in Seq(Node)
    BY <1>2, <1>3 DEF Own, Shaped
  <2>2. /\ Len(kids[a]) \in Nat /\ DOMAIN kids[a] = 1 .. Len(kids[a])
        /\ Len(kids[b]) \in Nat /\ DOMAIN kids[b] = 1 .. Len(kids[b])
    BY <2>1
  <2>3. Cardinality(1 .. Len(kids[a])) = Len(kids[a]) /\ Cardinality(1 .. Len(kids[b])) = Len(kids[b])
    BY <2>2, IntervalSize
  <2> QED BY <1>2, <2>2, <2>3 DEF SameSize
<1> QED BY <1>2, <1>3

(* The names and places of a value. *)
LEMMA KeysOf ==
  ASSUME Shaped, NEW n \in Node
  PROVE  DOMAIN kids[n] \subseteq Keys
<1>1. CASE val[n] = "array"
  <2>1. kids[n] \in Seq(Node)
    BY <1>1 DEF Shaped
  <2> QED BY <2>1 DEF Keys
<1>2. CASE val[n] = "object"
  BY <1>2 DEF Shaped, Keys
<1>3. CASE val[n] \notin Containers
  BY <1>3 DEF Shaped
<1> QED BY <1>1, <1>2, <1>3 DEF Containers

(* The call of operator== that is made is for values of the operands' trees.*)
LEMMA EntersGoing ==
  ASSUME Own, Own', AllKeep, kids' = kids, NEW sofar, Going(sofar), NEW a \in Node, NEW b \in Node,
         Operand(sofar.of, a), Operand(sofar.of, b), Enters(sofar, a, b)
  PROVE  Going(comparison)' /\ comparison'.of = sofar.of
<1> DEFINE next == [this |-> a, v |-> b, left |-> DOMAIN kids[a]]
<1>1. /\ sofar \in ComparisonRecord /\ Operands(sofar.of)
      /\ sofar.calls \in Seq(CallRecord)
      /\ \A i \in 1 .. Len(sofar.calls) : Fits(sofar.of, sofar.calls[i])
  BY RecordChanges DEF Going, AllFit, CallLists
<1>2. /\ Operands(sofar.of)'
      /\ Operand(sofar.of, a)' /\ Operand(sofar.of, b)'
      /\ \A call \in CallRecord : Fits(sofar.of, call) => Fits(sofar.of, call)'
  BY <1>1, KeptFits DEF Own, Shaped
<1>3. CASE Alike(a, b)
  <2>1. comparison' = [sofar EXCEPT !.calls = Append(@, next)]
    BY <1>3 DEF Enters
  <2>2. next \in CallRecord
    BY KeysOf DEF CallRecord, Own
  <2>3. /\ comparison' \in ComparisonRecord /\ comparison'.of = sofar.of
        /\ comparison'.calls = Append(sofar.calls, next)
    <3>1. Append(sofar.calls, next) \in CallLists
      BY <1>1, <2>2 DEF CallLists
    <3>2. comparison' = [sofar EXCEPT !.calls = Append(sofar.calls, next)]
      BY <2>1
    <3> QED BY <1>1, <3>1, <3>2 DEF ComparisonRecord
  <2>4. Fits(sofar.of, next)'
    <3>1. val'[a] = Settled(a) /\ val'[b] = Settled(b)
      BY DEF Enters
    <3>2. val'[a] \in Containers => val'[b] = val'[a]
      BY <1>3, <3>1, AlikeShapes
    <3>3. val'[a] = "array" => DOMAIN kids[b] = DOMAIN kids[a]
      BY <1>3, <3>1, AlikeShapes DEF Containers
    <3> QED BY <1>2, <3>2, <3>3 DEF Fits
  <2> PICK c : c = comparison'
    OBVIOUS
  <2>5. ASSUME NEW i \in 1 .. Len(c.calls) PROVE Fits(sofar.of, c.calls[i])'
    <3>1. CASE i <= Len(sofar.calls)
      <4>1. i \in 1 .. Len(sofar.calls) /\ c.calls[i] = sofar.calls[i]
            /\ sofar.calls[i] \in CallRecord
        BY <1>1, <2>2, <2>3, <3>1
      <4>2. Fits(sofar.of, sofar.calls[i])'
        BY <1>1, <1>2, <4>1
      <4> QED BY <4>1, <4>2 DEF Fits
    <3>2. CASE i > Len(sofar.calls)
      <4>1. c.calls[i] = next
        BY <1>1, <2>2, <2>3, <3>2
      <4> QED BY <2>4, <4>1 DEF Fits
    <3> QED BY <1>1, <3>1, <3>2
  <2> QED BY <1>2, <2>3, <2>5 DEF Going, AllFit
<1>4. CASE ~Alike(a, b)
  <2>1. comparison' = [sofar EXCEPT !.calls = <<>>, !.answer = "different"]
    BY <1>4 DEF Enters
  <2>2. comparison' \in ComparisonRecord /\ comparison'.of = sofar.of /\ comparison'.calls = <<>>
    <3>1. <<>> \in CallLists
      BY DEF CallLists
    <3> QED BY <1>1, <2>1, <3>1, AnswersAre DEF ComparisonRecord
  <2> QED BY <1>2, <2>2 DEF Going, AllFit
<1> QED BY <1>3, <1>4

(* What changes is in the operands' trees, or was not there. *)
ChangesOnly(X) == \A m \in Node \ X : val'[m] = val[m] /\ kids'[m] = kids[m]
OperandsChange(of) == \A m \in Node \ Fresh : Operand(of, m) \/ (val'[m] = val[m] /\ kids'[m] = kids[m])

(* What every step of a comparison does. *)
ComparisonKeeps(of) ==
  /\ Own' /\ Rooted' /\ NullInert' /\ AllKeep
  /\ spoiled' = spoiled /\ aborted' = aborted
  /\ Going(comparison)' /\ comparison'.of = of
  /\ OperandsChange(of)

LEMMA CompareKeeps ==
  ASSUME Own, Rooted, NullInert, NEW n \in Node, NEW m \in Node, Compare(n, m)
  PROVE  ComparisonKeeps(<<n, m>>)
<1> DEFINE sofar == [Idle EXCEPT !.of = <<n, m>>]
<1>1. ~spoiled /\ Live(n) /\ Live(m) /\ Enters(sofar, n, m)
  BY DEF Compare, Running
<1>2. sofar \in ComparisonRecord /\ sofar.of = <<n, m>> /\ sofar.calls = <<>>
  <2>1. <<n, m>> \in Pairs /\ <<>> \in Pairs
    BY DEF Pairs
  <2>2. <<>> \in CallLists
    BY DEF CallLists
  <2>3. Idle \in ComparisonRecord /\ Idle.calls = <<>>
    BY <2>1, <2>2, AnswersAre DEF Idle, ComparisonRecord
  <2> QED BY <2>1, <2>3, RecordChanges
<1> HIDE DEF sofar
<1>3. Operand(sofar.of, n) /\ Operand(sofar.of, m) /\ Operands(sofar.of)
  BY <1>1, <1>2 DEF Operand, Operands, Tree
<1>4. Going(sofar)
  BY <1>2, <1>3 DEF Going, AllFit
<1>5. /\ Own' /\ Rooted' /\ NullInert' /\ AllKeep
      /\ spoiled' = spoiled /\ aborted' = aborted /\ kids' = kids
  BY <1>1, EntersKeeps
<1>6. Going(comparison)' /\ comparison'.of = <<n, m>>
  BY <1>1, <1>2, <1>3, <1>4, <1>5, EntersGoing
<1>7. OperandsChange(<<n, m>>)
  <2>1. \A x \in Node : x \in {n, m} \/ val'[x] = val[x]
    BY <1>1 DEF Enters
  <2> QED BY <1>2, <1>3, <1>5, <2>1 DEF OperandsChange
<1> QED BY <1>5, <1>6, <1>7 DEF ComparisonKeeps

(* The call on top with one key less. *)
LEMMA AfterGoing ==
  ASSUME NEW c, Going(c), Len(c.calls) > 0, NEW key, NEW next,
         next = [c EXCEPT !.calls[Len(c.calls)].left = @ \ {key}]
  PROVE  Going(next) /\ next.of = c.of
<1> PICK depth : depth = Len(c.calls)
  OBVIOUS
<1> PICK call : call = c.calls[depth]
  OBVIOUS
<1> PICK less : less = [call EXCEPT !.left = @ \ {key}]
  OBVIOUS
<1>1. c \in ComparisonRecord /\ c.calls \in Seq(CallRecord) /\ depth \in 1 .. depth
  <2>1. c \in ComparisonRecord
    BY DEF Going
  <2>2. c.calls \in Seq(CallRecord)
    BY <2>1 DEF ComparisonRecord, CallLists
  <2>3. depth \in Nat /\ depth > 0
    BY <2>2
  <2> QED BY <2>1, <2>2, <2>3
<1>2. call \in CallRecord
  BY <1>1
<1>3. less \in CallRecord /\ less.this = call.this /\ less.v = call.v /\ less.left \subseteq call.left
  BY <1>2 DEF CallRecord
<1> DEFINE calls == [c.calls EXCEPT ![depth] = less]
<1>4. next = [c EXCEPT !.calls = calls]
  OBVIOUS
<1>5. calls \in Seq(CallRecord) /\ Len(calls) = depth
  BY <1>1, <1>3, ExceptSeq
<1>6. \A i \in 1 .. depth : calls[i] = IF i = depth THEN less ELSE c.calls[i]
  BY <1>1
<1> HIDE DEF calls
<1>7. next \in ComparisonRecord /\ next.of = c.of /\ next.calls = calls
  <2>1. calls \in CallLists
    BY <1>5 DEF CallLists
  <2> QED BY <1>1, <1>4, <2>1 DEF ComparisonRecord
<1>8. ASSUME NEW i \in 1 .. depth PROVE Fits(c.of, calls[i])
  <2>1. CASE i = depth
    <3>1. Fits(c.of, call)
      BY <1>1 DEF Going, AllFit
    <3> QED BY <1>3, <1>6, <2>1, <3>1 DEF Fits
  <2>2. CASE i # depth
    <3>1. Fits(c.of, c.calls[i])
      BY DEF Going, AllFit
    <3> QED BY <1>6, <2>2, <3>1
  <2> QED BY <2>1, <2>2
<1> QED BY <1>5, <1>7, <1>8 DEF Going, AllFit

LEMMA GoOnKeeps ==
  ASSUME Own, Rooted, NullInert, ~spoiled, Going(comparison), GoOn
  PROVE  ComparisonKeeps(comparison.of)
<1> PICK of : of = comparison.of
  OBVIOUS
<1> PICK depth : depth = Len(comparison.calls)
  OBVIOUS
<1> PICK call : call = comparison.calls[depth]
  OBVIOUS
<1> PICK a, b : a = call.this /\ b = call.v
  OBVIOUS
<1> DEFINE after(key) == [comparison EXCEPT !.calls[depth].left = @ \ {key}]
<1>1. depth > 0
  BY DEF GoOn
<1>2. /\ comparison \in ComparisonRecord /\ comparison.calls \in Seq(CallRecord)
      /\ depth \in 1 .. depth /\ Operands(of)
  <2>1. comparison \in ComparisonRecord /\ Operands(of)
    BY DEF Going
  <2>2. comparison.calls \in Seq(CallRecord)
    BY <2>1 DEF ComparisonRecord, CallLists
  <2>3. depth \in Nat /\ depth > 0
    BY <1>1, <2>2
  <2> QED BY <2>1, <2>2, <2>3
<1>3. call \in CallRecord /\ Fits(of, call) /\ a \in Node /\ b \in Node /\ call.left \subseteq Keys
  <2>1. call \in CallRecord /\ Fits(of, call)
    BY <1>2 DEF Going, AllFit
  <2> QED BY <2>1 DEF CallRecord
<1>4. Operand(of, a) /\ Operand(of, b)
  BY <1>3 DEF Fits
<1>5. ASSUME NEW x \in Node, Operand(of, x)
      PROVE  Live(x) /\ \A k \in DOMAIN kids[x] : kids[x][k] \in Node /\ Operand(of, kids[x][k])
  <2>1. of[1] \in Node /\ of[2] \in Node /\ Live(of[1]) /\ Live(of[2])
    BY <1>2 DEF Operands
  <2> QED BY <1>5, <2>1, TreeFacts DEF Operand
<1>6. ASSUME NEW key, NEW x \in Node, NEW y \in Node, Operand(of, x), Operand(of, y),
             Enters(after(key), x, y)
      PROVE  ComparisonKeeps(of)
  <2> PICK next : next = after(key)
    OBVIOUS
  <2>1. Going(next) /\ next.of = of
    BY <1>1, AfterGoing
  <2>2. Enters(next, x, y)
    BY <1>6
  <2>3. /\ Own' /\ Rooted' /\ NullInert' /\ AllKeep
        /\ spoiled' = spoiled /\ aborted' = aborted /\ kids' = kids
    BY <2>2, EntersKeeps
  <2>4. Going(comparison)' /\ comparison'.of = of
    BY <1>6, <2>1, <2>2, <2>3, EntersGoing
  <2>5. OperandsChange(of)
    <3>1. \A m \in Node : m \in {x, y} \/ val'[m] = val[m]
      BY <2>2 DEF Enters
    <3> QED BY <1>6, <2>3, <3>1 DEF OperandsChange
  <2> QED BY <2>3, <2>4, <2>5 DEF ComparisonKeeps
<1>7. ASSUME NEW key \in NextKeys(call), val[a] = "array",
             Enters(after(key), kids[a][key], kids[b][key])
      PROVE  ComparisonKeeps(of)
  <2>1. key \in call.left
    BY <1>7 DEF NextKeys
  <2>2. key \in DOMAIN kids[a] /\ key \in DOMAIN kids[b]
    BY <1>3, <1>7, <2>1 DEF Fits
  <2> QED BY <1>3, <1>4, <1>5, <1>6, <1>7, <2>2
<1>8. ASSUME NEW key \in NextKeys(call), val[a] = "object", key \in DOMAIN kids[b],
             Enters(after(key), kids[b][key], kids[a][key])
      PROVE  ComparisonKeeps(of)
  <2>1. key \in call.left
    BY <1>8 DEF NextKeys
  <2>2. key \in DOMAIN kids[a]
    BY <1>3, <2>1 DEF Fits
  <2> QED BY <1>3, <1>4, <1>5, <1>6, <1>8, <2>2
<1>9. ASSUME NEW key \in NextKeys(call), val[a] = "object", Missing(b, key), CreateChild(b, key),
             comparison' = [comparison EXCEPT !.grown = TRUE]
      PROVE  ComparisonKeeps(of)
  <2>1. key \in Name /\ val[b] = "object"
    <3>1. key \in call.left
      BY <1>9 DEF NextKeys
    <3>2. DOMAIN kids[a] \subseteq Name
      BY <1>3, <1>9 DEF Own, Shaped
    <3> QED BY <1>3, <1>9, <3>1, <3>2 DEF Fits, Containers
  <2>2. /\ Own' /\ Rooted' /\ NullInert' /\ AllKeep
        /\ spoiled' = spoiled /\ aborted' = aborted
    BY <1>3, <1>9, <2>1, CreatesKeeps
  <2>3. /\ comparison' \in ComparisonRecord /\ comparison'.of = of
        /\ comparison'.calls = comparison.calls
    BY <1>2, <1>9, RecordChanges
  <2>4. /\ Operands(of)'
        /\ \A old \in CallRecord : Fits(of, old) => Fits(of, old)'
    <3>1. PointsToNodes'
      BY <2>2 DEF Own, Shaped
    <3> QED BY <1>2, <2>2, <3>1, KeptFits
  <2>5. Going(comparison)'
    <3> PICK c : c = comparison'
      OBVIOUS
    <3>1. ASSUME NEW i \in 1 .. Len(c.calls) PROVE Fits(of, c.calls[i])'
      <4> PICK old : old = c.calls[i]
        OBVIOUS
      <4>1. old \in CallRecord /\ Fits(of, old)
        BY <1>2, <2>3 DEF Going, AllFit
      <4>3. Fits(of, old)'
        BY <2>4, <4>1
      <4> QED BY <4>3
    <3> QED BY <2>3, <2>4, <3>1 DEF Going, AllFit
  <2>6. OperandsChange(of)
    <3>1. PICK new \in Fresh :
            /\ val' = [val EXCEPT ![b] = "object", ![new] = "undefined"]
            /\ Enter(b, key, new, kids)
      BY <1>9 DEF CreateChild
    <3>2. kids = [m \in Node |-> kids[m]] /\ val \in [Node -> Contents]
      BY DEF Own, Shaped
    <3>3. \A m \in Node \ {b, new} : val'[m] = val[m] /\ kids'[m] = kids[m]
      BY <3>1, <3>2 DEF Enter
    <3> QED BY <1>4, <3>1, <3>3 DEF OperandsChange
  <2> QED BY <2>2, <2>3, <2>5, <2>6 DEF ComparisonKeeps
<1>10. ASSUME call.left = {}, UNCHANGED <<val, kids, replaced, spoiled, aborted>>,
              comparison' = [comparison EXCEPT !.calls = Front(@),
                                               !.answer = IF depth = 1 THEN "equal" ELSE @]
       PROVE  ComparisonKeeps(of)
  <2>1. /\ Front(comparison.calls) \in Seq(CallRecord)
        /\ Len(Front(comparison.calls)) = depth - 1
        /\ \A i \in 1 .. (depth - 1) : Front(comparison.calls)[i] = comparison.calls[i]
    <3>1. Front(comparison.calls) = SubSeq(comparison.calls, 1, depth - 1)
      BY DEF Front
    <3> QED BY <1>1, <1>2, <3>1
  <2>2. /\ comparison' \in ComparisonRecord /\ comparison'.of = of
        /\ comparison'.calls = Front(comparison.calls)
    <3>1. (IF depth = 1 THEN "equal" ELSE comparison.answer) \in Answers
      BY <1>2, AnswersAre, RecordChanges
    <3>2. Front(comparison.calls) \in CallLists
      BY <2>1 DEF CallLists
    <3> QED BY <1>2, <1>10, <3>1, <3>2 DEF ComparisonRecord
  <2>3. val' = val /\ kids' = kids /\ replaced' = replaced /\ spoiled' = spoiled /\ aborted' = aborted
    BY <1>10
  <2>4. \A m : Tree(m)' = Tree(m)
    BY <2>3 DEF Tree, Below, Children
  <2>5. Own' /\ NullInert'
    BY <2>3 DEF Own, Shaped, PointsToNodes, SinglePointers, NothingDangles, StaticLive,
                Live, Ranked, Descends, NullInert
  <2>6. Rooted'
    BY <2>3, <2>4 DEF Rooted, Live
  <2>7. AllKeep
    BY <2>3 DEF AllKeep, Keeps
  <2>8. Going(comparison)'
    <3>1. Operands(of)'
      BY <1>2, <2>3 DEF Operands, Live
    <3>2. \A old : Fits(of, old) => Fits(of, old)'
      BY <2>3, <2>4 DEF Fits, Operand
    <3> PICK c : c = comparison'
      OBVIOUS
    <3>3. ASSUME NEW i \in 1 .. Len(c.calls) PROVE Fits(of, c.calls[i])'
      <4> PICK old : old = comparison.calls[i]
        OBVIOUS
      <4>1. i \in 1 .. depth /\ c.calls[i] = old
        BY <1>2, <2>1, <2>2
      <4>2. Fits(of, old)
        BY <4>1 DEF Going, AllFit
      <4>3. Fits(of, old)'
        BY <3>2, <4>2
      <4> QED BY <4>1, <4>3
    <3> QED BY <2>2, <3>1, <3>3 DEF Going, AllFit
  <2>9. OperandsChange(of)
    BY <2>3 DEF OperandsChange
  <2> QED BY <2>2, <2>3, <2>5, <2>6, <2>7, <2>8, <2>9 DEF ComparisonKeeps
<1> QED BY <1>7, <1>8, <1>9, <1>10 DEF GoOn

-----------------------------------------------------------------------------
(* Every step. *)

(* What a value points to, it points to once.                               *)
Distinct == \A n \in Node : IsInjective(kids[n])

Inv ==
  /\ Shaped /\ Distinct
  /\ spoiled \in BOOLEAN /\ aborted \in BOOLEAN
  /\ ~spoiled => Own /\ Rooted /\ NullInert
  /\ Comparing

LEMMA SingleDistinct == SinglePointers => Distinct
BY DEF SinglePointers, Distinct, IsInjective

LEMMA InitInv == Init => Inv
<1> SUFFICES ASSUME Init PROVE Inv
  OBVIOUS
<1>1. \A n \in Node : kids[n] = <<>> /\ DOMAIN kids[n] = {}
  BY DEF Init
<1>2. NullVal \in Node /\ Static \subseteq Node /\ NullVal \in Static
  BY ValueAssumption DEF Static
<1>3. \A n \in Node : /\ val[n] \in {"nullval", "undefined", "free"}
                      /\ (n \in Static <=> val[n] # "free")
  BY DEF Init, Static
<1>4. Shaped
  <2>1. val \in [Node -> Contents]
    BY DEF Init, Contents
  <2>2. PointsToNodes
    BY <1>1 DEF PointsToNodes
  <2>3. kids = [n \in Node |-> kids[n]] /\ replaced \subseteq Node
    BY DEF Init
  <2> QED BY <1>1, <1>3, <2>1, <2>2, <2>3 DEF Shaped, Containers
<1>5. SinglePointers /\ NothingDangles
  BY <1>1 DEF SinglePointers, NothingDangles
<1>6. StaticLive
  BY <1>2, <1>3 DEF StaticLive, Live
<1>7. Ranked
  <2>1. [n \in Node |-> 0] \in [Node -> Nat]
    OBVIOUS
  <2> QED BY <1>1, <2>1 DEF Ranked, Descends
<1>8. Rooted
  BY <1>3 DEF Rooted, Live, Tree
<1>9. NullInert
  BY <1>1, <1>2 DEF Init, NullInert
<1>10. spoiled \in BOOLEAN /\ aborted \in BOOLEAN
  BY DEF Init
<1>11. Comparing
  BY DEF Init, Comparing
<1> QED BY <1>4, <1>5, <1>6, <1>7, <1>8, <1>9, <1>10, <1>11, SingleDistinct DEF Own, Inv

(* A call leaves the values owned, unless it assigns one to another. *)
LEMMA StepOwn ==
  ASSUME Own, Rooted, NullInert, ~spoiled, Call
  PROVE  (Own /\ Rooted)' \/ \E n, src \in Node : Assign(n, src)
<1>1. ASSUME NEW n \in Node, NEW contents \in Contents \ {"free"}, Live(n), Become(n, contents)
      PROVE  (Own /\ Rooted)'
  BY <1>1, BecomeKeeps, BecomeRooted
<1>2. /\ \A s \in Scalar : s \in Contents \ {"free"}
      /\ \A c \in Containers : c \in Contents \ {"free"}
      /\ "undefined" \in Contents \ {"free"}
  BY ValueAssumption DEF Contents, Containers
<1>3. ASSUME NEW n \in Node, NEW s \in Scalar, SetScalar(n, s) PROVE (Own /\ Rooted)'
  BY <1>1, <1>2, <1>3 DEF SetScalar, CanSet
<1>4. ASSUME NEW n \in Node, NEW c \in Containers, SetContainer(n, c) PROVE (Own /\ Rooted)'
  BY <1>1, <1>2, <1>4 DEF SetContainer, CanSet
<1>5. ASSUME NEW n \in Node, DeleteValue(n) PROVE (Own /\ Rooted)'
  BY <1>1, <1>2, <1>5 DEF DeleteValue
<1>6. ASSUME NEW n \in Node, Clear(n) PROVE (Own /\ Rooted)'
  <2>1. val[n] \in Containers /\ Become(n, val[n]) /\ Live(n)
    BY <1>6 DEF Clear, Live, Containers
  <2> QED BY <1>1, <1>2, <2>1
<1>7. ASSUME NEW n \in Node, NEW index \in 0 .. MaxIndex, Index(n, index) PROVE (Own /\ Rooted)'
  <2>1. index \in Nat
    BY ValueAssumption
  <2> QED BY <1>7, <2>1, IndexKeeps
<1>8. CASE \E n \in Node, s \in Scalar : SetScalar(n, s) \/ AddNew(n, s)
  BY <1>3, <1>8, AddNewKeeps
<1>9. CASE \E n \in Node, c \in Containers : SetContainer(n, c)
  BY <1>4, <1>9
<1>10. CASE \E n \in Node : DeleteValue(n) \/ Clear(n)
  BY <1>5, <1>6, <1>10
<1>11. CASE \E n \in Node, name \in Name, wide \in BOOLEAN : GetChild(n, name, wide)
  BY <1>11, GetChildKeeps
<1>12. CASE \E n \in Node, index \in 0 .. MaxIndex : Index(n, index)
  BY <1>7, <1>12
<1>13. CASE \E n \in Node : \E key \in DOMAIN kids[n] : DeleteChild(n, key)
  BY <1>13, DeleteChildKeeps
<1>14. CASE \E n, src \in Node : AddCopy(n, src)
  BY <1>14, AddCopyKeeps
<1>15. CASE \E n, src \in Node : Clone(n, src)
  BY <1>15, CloneKeeps
<1> QED BY <1>8, <1>9, <1>10, <1>11, <1>12, <1>13, <1>14, <1>15 DEF Call

(* An assignment leaves the pointers as many as they are, and only the      *)
(* source may now be pointed to from two values.                            *)
LEMMA AssignShape ==
  ASSUME Shaped, Distinct, NEW n \in Node, NEW src \in Node, Assign(n, src)
  PROVE  Shaped' /\ Distinct' /\ spoiled' = TRUE /\ aborted' = aborted
<1>1. /\ val' = [m \in Node |-> IF m = n THEN val[src] ELSE val[m]]
      /\ kids' = [m \in Node |-> IF m = n THEN kids[src] ELSE kids[m]]
      /\ replaced' = replaced
  BY DEF Assign, Shaped
<1>2. Shaped'
  BY <1>1 DEF Shaped, PointsToNodes
<1>3. Distinct'
  BY <1>1 DEF Distinct
<1> QED BY <1>2, <1>3 DEF Assign

LEMMA SpoiledType ==
  ASSUME spoiled \in BOOLEAN, aborted \in BOOLEAN, Call
  PROVE  spoiled' \in BOOLEAN /\ aborted' \in BOOLEAN
<1>1. CASE \E n \in Node, s \in Scalar : SetScalar(n, s) \/ AddNew(n, s)
  BY <1>1 DEF SetScalar, AddNew, Enter, Become
<1>2. CASE \E n \in Node, c \in Containers : SetContainer(n, c)
  BY <1>2 DEF SetContainer, Become
<1>3. CASE \E n \in Node : DeleteValue(n) \/ Clear(n)
  BY <1>3 DEF DeleteValue, Clear, Become
<1>4. CASE \E n \in Node, name \in Name, wide \in BOOLEAN : GetChild(n, name, wide)
  BY <1>4 DEF GetChild, CreateChild, Enter, Become
<1>5. CASE \E n \in Node, index \in 0 .. MaxIndex : Index(n, index)
  BY <1>5 DEF Index, Enter, Become
<1>6. CASE \E n \in Node : \E key \in DOMAIN kids[n] : DeleteChild(n, key)
  BY <1>6 DEF DeleteChild
<1>7. CASE \E n, src \in Node : AddCopy(n, src) \/ Clone(n, src) \/ Assign(n, src)
  BY <1>7 DEF AddCopy, Clone, Assign, Enter, Become
<1> QED BY <1>1, <1>2, <1>3, <1>4, <1>5, <1>6, <1>7 DEF Call

(* A call other than operator== is made only when none of those is going on.*)
LEMMA CallsRun ==
  ASSUME Call PROVE ~spoiled /\ comparison = Idle
BY DEF Call, SetScalar, SetContainer, DeleteValue, Clear, GetChild, Index, DeleteChild,
       AddCopy, AddNew, Clone, Assign, Running

(* The steps of a comparison. *)
LEMMA ComparisonSteps ==
  ASSUME Inv, NEW n \in Node, NEW m \in Node, Compare(n, m) \/ GoOn
  PROVE  ~spoiled /\ Own /\ \E of : ComparisonKeeps(of)
<1>1. CASE Compare(n, m)
  <2>1. ~spoiled
    BY <1>1 DEF Compare, Running
  <2> QED BY <1>1, <2>1, CompareKeeps DEF Inv
<1>2. CASE GoOn
  <2>1. comparison # Idle
    <3>1. Len(comparison.calls) > 0
      BY <1>2 DEF GoOn
    <3>2. Idle.calls = <<>> /\ Len(<<>>) = 0
      BY DEF Idle
    <3> QED BY <3>1, <3>2
  <2>2. ~spoiled /\ Going(comparison)
    BY <2>1 DEF Inv, Comparing
  <2> QED BY <1>2, <2>2, GoOnKeeps DEF Inv
<1> QED BY <1>1, <1>2

LEMMA StepInv == Inv /\ [Next]_vars => Inv'
<1> SUFFICES ASSUME Inv, [Next]_vars PROVE Inv'
  OBVIOUS
<1>1. CASE Call /\ UNCHANGED comparison
  <2>1. ~spoiled /\ comparison = Idle
    BY <1>1, CallsRun
  <2>2. spoiled' \in BOOLEAN /\ aborted' \in BOOLEAN
    BY <1>1, SpoiledType DEF Inv
  <2>3. Comparing'
    BY <1>1, <2>1 DEF Comparing, Idle
  <2>4. CASE (Own /\ Rooted)'
    <3>1. (Shaped /\ SinglePointers)'
      BY <2>4 DEF Own
    <3>2. SinglePointers' => Distinct'
      BY DEF SinglePointers, Distinct, IsInjective
    <3>3. ~spoiled' => NullInert'
      BY <1>1, <2>1, NullKept DEF Inv
    <3> QED BY <2>2, <2>3, <2>4, <3>1, <3>2, <3>3 DEF Inv
  <2>5. CASE \E n, src \in Node : Assign(n, src)
    <3>1. Shaped' /\ Distinct' /\ spoiled' = TRUE
      BY <2>5, AssignShape DEF Inv
    <3> QED BY <2>2, <2>3, <3>1 DEF Inv
  <2> QED BY <1>1, <2>1, <2>4, <2>5, StepOwn DEF Inv
<1>3. CASE \E n, m \in Node : Compare(n, m) \/ GoOn
  <2>1. PICK of : ~spoiled /\ ComparisonKeeps(of)
    BY <1>3, ComparisonSteps
  <2>2. /\ Own' /\ Rooted' /\ NullInert' /\ Going(comparison)'
        /\ spoiled' = spoiled /\ aborted' = aborted
    BY <2>1 DEF ComparisonKeeps
  <2>3. Comparing'
    BY <2>1, <2>2 DEF Comparing
  <2>4. (Shaped /\ SinglePointers)'
    BY <2>2 DEF Own
  <2>5. SinglePointers' => Distinct'
    BY DEF SinglePointers, Distinct, IsInjective
  <2> QED BY <2>2, <2>3, <2>4, <2>5 DEF Inv
<1>4. ASSUME UNCHANGED <<val, kids, replaced, spoiled, aborted>>, Comparing' PROVE Inv'
  <2>1. val' = val /\ kids' = kids /\ replaced' = replaced /\ spoiled' = spoiled /\ aborted' = aborted
    BY <1>4
  <2>2. Shaped' /\ Distinct'
    BY <2>1 DEF Inv, Shaped, PointsToNodes, Distinct
  <2>3. Own => Own'
    BY <2>1 DEF Own, Shaped, PointsToNodes, SinglePointers, NothingDangles, StaticLive,
                Live, Ranked, Descends
  <2>4. Rooted => Rooted'
    <3>1. \A m : Tree(m)' = Tree(m)
      BY <2>1 DEF Tree, Below, Children
    <3> QED BY <2>1, <3>1 DEF Rooted, Live
  <2>5. NullInert => NullInert'
    BY <2>1 DEF NullInert
  <2> QED BY <1>4, <2>1, <2>2, <2>3, <2>4, <2>5 DEF Inv
<1>5. CASE Answered
  BY <1>4, <1>5 DEF Answered, Comparing, Idle
<1>2. CASE UNCHANGED vars
  <2>1. Comparing'
    <3>1. val' = val /\ kids' = kids /\ comparison' = comparison /\ spoiled' = spoiled
      BY <1>2 DEF vars
    <3>2. \A m : Tree(m)' = Tree(m)
      BY <3>1 DEF Tree, Below, Children
    <3>3. Comparing
      BY DEF Inv
    <3> QED BY <3>1, <3>2, <3>3 DEF Comparing, Going, Operands, AllFit, Fits, Operand, Live, Idle
  <2> QED BY <1>2, <1>4, <2>1 DEF vars
<1> QED BY <1>1, <1>2, <1>3, <1>5, ValueAssumption DEF Next, Static

LEMMA AlwaysInv == Spec => []Inv
<1>1. Init => Inv
  BY InitInv
<1>2. Inv /\ [Next]_vars => Inv'
  BY StepInv
<1> QED BY <1>1, <1>2, PTL DEF Spec

(* An array has no more elements than there are addresses. *)
LEMMA InvType == Inv => TypeOK
<1> SUFFICES ASSUME Inv PROVE TypeOK
  OBVIOUS
<1>1. ASSUME NEW n \in Node
      PROVE  /\ DOMAIN kids[n] \subseteq Name \cup 1 .. Cardinality(Node)
             /\ Children(n) \subseteq Node
             /\ val[n] = "array" => DOMAIN kids[n] = 1 .. Cardinality(DOMAIN kids[n])
             /\ val[n] = "object" => DOMAIN kids[n] \subseteq Name
             /\ val[n] \notin Containers => kids[n] = <<>>
  <2>1. Children(n) \subseteq Node
    BY DEF Inv, Shaped, PointsToNodes, Children
  <2>2. CASE val[n] = "array"
    <3> DEFINE len == Len(kids[n])
    <3>1. kids[n] \in Seq(Node) /\ len \in Nat /\ DOMAIN kids[n] = 1 .. len
      BY <2>2 DEF Inv, Shaped
    <3>2. kids[n] \in Injection(1 .. len, Node)
      <4>1. kids[n] \in [1 .. len -> Node]
        BY <3>1
      <4> QED BY <3>1, <4>1 DEF Injection, Inv, Distinct
    <3>3. Cardinality(1 .. len) = len
      BY <3>1, FS_Interval
    <3>4. len <= Cardinality(Node)
      BY <3>2, <3>3, FS_Injection, ValueAssumption
    <3>5. Cardinality(Node) \in Nat
      BY FS_CardinalityType, ValueAssumption
    <3>6. 1 .. len \subseteq 1 .. Cardinality(Node)
      BY <3>1, <3>4, <3>5
    <3> QED BY <2>1, <2>2, <3>1, <3>3, <3>6 DEF Containers
  <2>3. CASE val[n] # "array"
    <3>1. CASE val[n] = "object"
      BY <2>1, <2>3, <3>1 DEF Inv, Shaped, Containers
    <3>2. CASE val[n] # "object"
      BY <2>1, <2>3, <3>2 DEF Inv, Shaped, Containers
    <3> QED BY <3>1, <3>2
  <2> QED BY <2>2, <2>3
<1>2. comparison \in [of : {<<>>} \cup (Node \X Node),
                     calls : Seq([this : Node, v : Node,
                                  left : SUBSET (Name \cup 1 .. Cardinality(Node))]),
                     answer : {"none", "equal", "different"}, grown : BOOLEAN]
  <2> DEFINE Bounded == [this : Node, v : Node, left : SUBSET (Name \cup 1 .. Cardinality(Node))]
  <2>1. CASE comparison = Idle
    <3>1. <<>> \in Seq(Bounded)
      OBVIOUS
    <3> HIDE DEF Bounded
    <3>2. Idle \in [of : Pairs, calls : Seq(Bounded), answer : Answers, grown : BOOLEAN]
      BY <3>1, AnswersAre DEF Idle, Pairs
    <3> QED BY <2>1, <3>2 DEF Pairs, Answers, Bounded
  <2>2. CASE comparison # Idle
    <3> PICK calls : calls = comparison.calls
      OBVIOUS
    <3>1. comparison \in ComparisonRecord /\ calls \in Seq(CallRecord) /\ AllFit(comparison)
      BY <2>2, RecordChanges DEF Inv, Comparing, Going, CallLists
    <3>2. ASSUME NEW i \in 1 .. Len(calls) PROVE calls[i] \in Bounded
      <4>1. calls[i] \in CallRecord /\ Fits(comparison.of, calls[i])
        BY <3>1 DEF AllFit
      <4> PICK call : call = calls[i]
        OBVIOUS
      <4>2. call.this \in Node /\ call.left \subseteq DOMAIN kids[call.this]
        BY <4>1 DEF CallRecord, Fits
      <4>3. call.left \subseteq Name \cup 1 .. Cardinality(Node)
        BY <1>1, <4>2
      <4> QED BY <4>1, <4>3 DEF CallRecord
    <3> HIDE DEF Bounded
    <3>3. calls \in Seq(Bounded)
      BY <3>1, <3>2
    <3>4. comparison \in [of : Pairs, calls : Seq(Bounded), answer : Answers, grown : BOOLEAN]
      BY <3>1, <3>3 DEF ComparisonRecord
    <3> QED BY <3>4 DEF Pairs, Answers, Bounded
  <2> QED BY <2>1, <2>2
<1> QED BY <1>1, <1>2 DEF TypeOK, Inv, Shaped

-----------------------------------------------------------------------------
(* The theorems. *)

(* An array is a sequence of values, an object a map of names, everything   *)
(* else points to nothing, after every legal sequence of calls.             *)
THEOREM ValueTypeCorrect == Spec => []TypeOK
BY AlwaysInv, InvType, PTL

(* No value is deleted twice and none is used after it was deleted: in      *)
(* whatever order values are copied into each other, overwritten and        *)
(* deleted, each is pointed to once, and only while it is there - whatever  *)
(* the number of values, names and contents.                                *)
THEOREM ValuesOwnedOnce == Spec => []OwnedOnce
<1>1. Inv => OwnedOnce
  BY DEF Inv, Own, OwnedOnce
<1> QED BY <1>1, AlwaysInv, PTL

(* A value that is there is below one the caller holds, below nullval, or   *)
(* below one that a second addvalue under its name has forgotten.           *)
THEOREM ValuesNeverLeak == Spec => []NothingLeaks
<1>1. Inv => NothingLeaks
  BY DEF Inv, Rooted, NothingLeaks, Live
<1> QED BY <1>1, AlwaysInv, PTL

(* A failed search can always be told from one that finds something.        *)
THEOREM NullStaysInert == Spec => []NullInert
<1>1. Inv => NullInert
  BY DEF Inv, NullInert
<1> QED BY <1>1, AlwaysInv, PTL

-----------------------------------------------------------------------------
(* Copies are independent. *)

(* A tree n is in the tree of r or apart from it, if nothing points to r.   *)
LEMMA TreesNest ==
  ASSUME Own, NEW n \in Node, NEW r \in Static, n \notin Tree(r)
  PROVE  Tree(n) \cap Tree(r) = {}
<1> DEFINE C == Tree(n) \ Tree(r)
<1>1. r \in Node
  BY ValueAssumption
<1>2. /\ Tree(n) \subseteq Node /\ Closed(Tree(n))
      /\ Tree(r) \subseteq Node /\ Closed(Tree(r))
  BY <1>1, BelowIsClosed DEF Own, Shaped, Tree
<1>3. ASSUME NEW c \in C, NEW d \in Children(c) PROVE d \in C
  <2>1. PICK k \in DOMAIN kids[c] : d = kids[c][k]
    BY DEF Children
  <2>2. c \in Node /\ d \in Tree(n) /\ d # r
    BY <1>2, <2>1 DEF Closed, Own, NothingDangles
  <2>3. d \notin Below(r)
    BY <1>1, <2>1, <2>2, BelowIsOwned
  <2> QED BY <2>2, <2>3 DEF Tree
<1>4. n \in C /\ C \in SUBSET Node
  BY <1>2 DEF Tree
<1>5. Children(n) \subseteq C /\ Closed(C)
  BY <1>3, <1>4 DEF Closed
<1>6. Below(n) \subseteq C
  BY <1>4, <1>5, BelowIsLeast
<1> QED BY <1>4, <1>6 DEF Tree

(* Any other call changes values of one tree, and ones that were not there. *)
LEMMA ChangesOneTree ==
  ASSUME Own, Call
  PROVE  \E n \in Node : ChangesOnly(Tree(n) \cup Fresh)
<1>1. kids = [m \in Node |-> kids[m]] /\ val \in [Node -> Contents]
  BY DEF Own, Shaped
<1>2. ASSUME NEW n \in Node, NEW contents, Become(n, contents)
      PROVE  ChangesOnly(Tree(n) \cup Fresh)
  BY <1>2 DEF Become, Deleted, ChangesOnly, Tree
<1>3. ASSUME NEW n \in Node, NEW s \in Scalar, AddNew(n, s)
      PROVE  ChangesOnly(Tree(n) \cup Fresh)
  BY <1>1, <1>3 DEF AddNew, Enter, ChangesOnly, Tree
<1>4. ASSUME NEW n \in Node, NEW name \in Name, NEW wide \in BOOLEAN, GetChild(n, name, wide)
      PROVE  ChangesOnly(Tree(n) \cup Fresh)
  BY <1>1, <1>4 DEF GetChild, CreateChild, Enter, ChangesOnly, Tree
<1>5. ASSUME NEW n \in Node, NEW index \in 0 .. MaxIndex, Index(n, index)
      PROVE  ChangesOnly(Tree(n) \cup Fresh)
  <2>1. PICK f \in Injection((Len(kids[n]) + 1) .. (index + 1), Fresh) :
          /\ val' = [m \in Node |-> IF m = n THEN "array"
                                    ELSE IF m \in Range(f) THEN "undefined" ELSE val[m]]
          /\ kids' = [kids EXCEPT ![n] = [i \in 1 .. (index + 1) |->
                                            IF i <= Len(kids[n]) THEN @[i] ELSE f[i]]]
    BY <1>5 DEF Index
  <2>2. Range(f) \subseteq Fresh
    BY ImageFacts
  <2> QED BY <1>1, <2>1, <2>2 DEF ChangesOnly, Tree
<1>6. ASSUME NEW n \in Node, NEW key \in DOMAIN kids[n], DeleteChild(n, key)
      PROVE  ChangesOnly(Tree(n) \cup Fresh)
  <2>1. Closed(Tree(n)) /\ kids[n][key] \in Tree(n) /\ Tree(n) \subseteq Node
    BY BelowIsClosed DEF Own, Shaped, Tree, Children
  <2>2. Below(kids[n][key]) \subseteq Tree(n)
    BY <2>1, BelowIsLeast DEF Closed
  <2> QED BY <1>1, <1>6, <2>1, <2>2 DEF DeleteChild, Deleted, ChangesOnly, Tree
<1>7. ASSUME NEW n \in Node, NEW src \in Node, AddCopy(n, src)
      PROVE  ChangesOnly(Tree(n) \cup Fresh)
  <2>1. PICK key \in EntryKeys(n), f \in Injection(Tree(src), Fresh) :
          /\ val' = [m \in Node |-> IF m \in Range(f) THEN val[AntiFunction(f)[m]] ELSE val[m]]
          /\ Enter(n, key, f[src],
                   [m \in Node |-> IF m \in Range(f) THEN Copied(f, src, m) ELSE kids[m]])
    BY <1>7 DEF AddCopy
  <2>2. Range(f) \subseteq Fresh
    BY ImageFacts
  <2> QED BY <2>1, <2>2 DEF Enter, ChangesOnly, Tree
<1>8. ASSUME NEW n \in Node, NEW src \in Node, Clone(n, src)
      PROVE  ChangesOnly(Tree(n) \cup Fresh)
  <2>1. PICK f \in Injection(Tree(src), Fresh \cup {n}) :
          /\ val' = [m \in Node |-> IF m \in Range(f) THEN val[AntiFunction(f)[m]]
                                    ELSE IF m \in Below(n) THEN "free" ELSE val[m]]
          /\ kids' = [m \in Node |-> IF m \in Range(f) THEN Copied(f, src, m)
                                     ELSE IF m \in Below(n) THEN <<>> ELSE kids[m]]
    BY <1>8 DEF Clone, Deleted
  <2>2. Range(f) \subseteq Fresh \cup {n}
    BY ImageFacts
  <2> QED BY <2>1, <2>2 DEF ChangesOnly, Tree
<1>9. ASSUME NEW n \in Node, NEW src \in Node, Assign(n, src)
      PROVE  ChangesOnly(Tree(n) \cup Fresh)
  BY <1>1, <1>9 DEF Assign, ChangesOnly, Tree
<1>10. CASE \E n \in Node, s \in Scalar : SetScalar(n, s) \/ AddNew(n, s)
  BY <1>2, <1>3, <1>10 DEF SetScalar
<1>11. CASE \E n \in Node, c \in Containers : SetContainer(n, c)
  BY <1>2, <1>11 DEF SetContainer
<1>12. CASE \E n \in Node : DeleteValue(n) \/ Clear(n)
  BY <1>2, <1>12 DEF DeleteValue, Clear
<1>13. CASE \E n \in Node, name \in Name, wide \in BOOLEAN : GetChild(n, name, wide)
  BY <1>4, <1>13
<1>14. CASE \E n \in Node, index \in 0 .. MaxIndex : Index(n, index)
  BY <1>5, <1>14
<1>15. CASE \E n \in Node : \E key \in DOMAIN kids[n] : DeleteChild(n, key)
  BY <1>6, <1>15
<1>16. CASE \E n, src \in Node : AddCopy(n, src) \/ Clone(n, src) \/ Assign(n, src)
  BY <1>7, <1>8, <1>9, <1>16
<1> QED BY <1>10, <1>11, <1>12, <1>13, <1>14, <1>15, <1>16 DEF Call

(* A tree stays as it is if what changes is in a tree that is not within    *)
(* it, or was not there.                                                    *)
LEMMA TreeStays ==
  ASSUME Own, NEW r \in Held, NEW X,
         \A x \in X : x \in Node /\ x \notin Tree(r),
         \A m \in Node \ Fresh :
           (\E x \in X : m \in Tree(x)) \/ (val'[m] = val[m] /\ kids'[m] = kids[m])
  PROVE  ~Changes(r)
<1>1. r \in Static /\ r \in Node
  BY ValueAssumption DEF Static
<1>2. \A x \in X : Tree(x) \cap Tree(r) = {}
  BY <1>1, TreesNest
<1>3. \A m \in Tree(r) : m \in Node /\ Live(m)
  BY <1>1, TreeFacts DEF Own, StaticLive
<1>4. \A m \in Tree(r) : val'[m] = val[m] /\ kids'[m] = kids[m]
  BY <1>2, <1>3 DEF Fresh
<1> QED BY <1>4 DEF Changes

(* A call other than operator== changes the tree of one of the caller's     *)
(* values, and never what another one sees: a copy shares nothing with what *)
(* it was made from.  operator== changes nothing outside the trees its      *)
(* operands are in, and there only makes undefined values null and adds     *)
(* members - whatever the number of values, names and contents.             *)
THEOREM CopiesAreIndependent == Spec => CopiesIndependent
<1> DEFINE OneTree == \E n \in Node : \A r \in Held : Changes(r) => r = n
           InOperands ==
             \A r \in Held : Changes(r) => \E i \in {1, 2} : comparison'.of[i] \in Tree(r)
           Apart ==
             IF comparison' = Idle
             THEN \E n \in Node : \A r \in Held : Changes(r) => r = n
             ELSE /\ \A n \in Node : Live(n) => Keeps(n)
                  /\ \A r \in Held : Changes(r) => \E i \in {1, 2} : comparison'.of[i] \in Tree(r)
<1>1. ASSUME Inv, Call, UNCHANGED comparison PROVE Apart
  <2>1. Own /\ comparison' = Idle
    BY <1>1, CallsRun DEF Inv
  <2>2. PICK n \in Node : ChangesOnly(Tree(n) \cup Fresh)
    BY <1>1, <2>1, ChangesOneTree
  <2>3. ASSUME NEW r \in Held, n \notin Tree(r) PROVE ~Changes(r)
    <3> DEFINE X == {n}
    <3>1. \A m \in Node \ Fresh :
            (\E x \in X : m \in Tree(x)) \/ (val'[m] = val[m] /\ kids'[m] = kids[m])
      BY <2>2 DEF ChangesOnly
    <3>2. \A x \in X : x \in Node /\ x \notin Tree(r)
      BY <2>3
    <3> HIDE DEF X
    <3> QED BY <2>1, <3>1, <3>2, TreeStays
  <2>4. ASSUME NEW r \in Held, NEW s \in Held, r # s PROVE n \notin Tree(r) \/ n \notin Tree(s)
    <3>1. r \in Static /\ r \in Node /\ s \in Static
      BY ValueAssumption DEF Static
    <3>2. r \notin Tree(s)
      BY <2>1, <2>4, <3>1, ValueAssumption, BelowIsOwned DEF Tree
    <3>3. Tree(r) \cap Tree(s) = {}
      BY <2>1, <3>1, <3>2, TreesNest
    <3> QED BY <3>3
  <2>5. OneTree
    <3>1. CASE \E r \in Held : n \in Tree(r)
      <4>1. PICK o \in Held : n \in Tree(o)
        BY <3>1
      <4>2. \A r \in Held : Changes(r) => r = o
        BY <2>3, <2>4, <4>1
      <4>3. o \in Node
        BY ValueAssumption DEF Static
      <4> QED BY <4>2, <4>3
    <3>2. CASE \A r \in Held : n \notin Tree(r)
      BY <2>3, <3>2
    <3> QED BY <3>1, <3>2
  <2> QED BY <2>1, <2>5
<1>2. ASSUME Inv, NEW n \in Node, NEW m \in Node, Compare(n, m) \/ GoOn PROVE Apart
  <2>1. Own /\ \E of : ComparisonKeeps(of)
    BY <1>2, ComparisonSteps
  <2>2. PICK of : ComparisonKeeps(of)
    BY <2>1
  <2>3. Going(comparison)' /\ comparison'.of = of /\ OperandsChange(of) /\ AllKeep
    BY <2>2 DEF ComparisonKeeps
  <2>4. of \in Node \X Node
    BY <2>3 DEF Going, Operands
  <2>5. comparison' # Idle
    BY <2>3, <2>4 DEF Idle
  <2>6. ASSUME NEW r \in Held, \A i \in {1, 2} : of[i] \notin Tree(r) PROVE ~Changes(r)
    <3> DEFINE X == {of[1], of[2]}
    <3>1. \A x \in X : x \in Node /\ x \notin Tree(r)
      BY <2>4, <2>6
    <3>2. \A k \in Node \ Fresh :
            (\E x \in X : k \in Tree(x)) \/ (val'[k] = val[k] /\ kids'[k] = kids[k])
      BY <2>3 DEF OperandsChange, Operand
    <3> HIDE DEF X
    <3> QED BY <2>1, <3>1, <3>2, TreeStays
  <2>7. InOperands
    BY <2>3, <2>6
  <2> QED BY <2>3, <2>5, <2>7 DEF AllKeep
<1>3. Node # {}
  BY ValueAssumption DEF Static
<1>4. ASSUME Inv, Answered PROVE Apart
  <2>1. val' = val /\ kids' = kids /\ comparison' = Idle
    BY <1>4 DEF Answered
  <2>2. \A r : ~Changes(r)
    BY <2>1 DEF Changes
  <2> QED BY <1>3, <2>1, <2>2
<1>5. ASSUME Inv, [Next]_vars PROVE [Apart]_vars
  BY <1>1, <1>2, <1>3, <1>4, <1>5 DEF Next
<1>6. Inv /\ [Next]_vars => [Apart]_vars
  BY <1>5
<1> QED BY <1>6, AlwaysInv, PTL DEF Spec, CopiesIndependent
=============================================================================
