--------------------------- MODULE DenseMapProofs ---------------------------
(***************************************************************************)
(* The hash map and its caller: the inductive invariant, the properties of *)
(* module DenseMap, and that each step is one of the abstract map.         *)
(***************************************************************************)
EXTENDS DenseMap, DenseTableProofs

(* The table, whatever has been called: one in which searches are right, or *)
(* one for which no empty key has been set; after a failed read, one that   *)
(* can be cleared.                                                          *)
TableInv ==
  /\ torn \in BOOLEAN
  /\ Good => Proper(t)
  /\ t.ok /\ torn => Sound(t) \/ Restorable(t)

(* The walk: what is owed has been seen or lies ahead, in a bucket that     *)
(* holds it, and what lies ahead has not been seen.                         *)
Walk ==
  /\ it \in [at : Nat, owed : {it.owed}, seen : {it.seen}, on : BOOLEAN]
  /\ it.on =>
       /\ End(t) \in Nat /\ it.at <= End(t) /\ Occupied(t) \subseteq Buckets(End(t)) /\ ~torn
       /\ \A k \in it.owed \ it.seen : \E b \in Occupied(t) : it.at <= b /\ KeyAt(b) = k
       /\ Good => /\ t.use_empty
                  /\ \A b \in Occupied(t) : it.at <= b => KeyAt(b) \notin it.seen

IInv == TableInv /\ Walk

-----------------------------------------------------------------------------
(* A set of entries as a map. *)
MapOf(C) == [k \in KeysOf(C) |-> (CHOOSE e \in C : e.key = k).value]

(* Entries with a key each of their own. *)
OneEach(C) ==
  \A e \in C : /\ e.key \in Key /\ e.value \in Value /\ e = Bucket(e.key, e.value)
               /\ \A f \in C : e.key = f.key => e = f

LEMMA MapOfRight ==
  ASSUME NEW C, OneEach(C), NEW m
  PROVE  m = MapOf(C) <=> /\ m = [k \in KeysOf(C) |-> m[k]]
                          /\ \A e \in C : m[e.key] = e.value
<1>1. \A e \in C : (CHOOSE f \in C : f.key = e.key) = e
  BY DEF OneEach
<1>2. \A k \in KeysOf(C) : \E e \in C : e.key = k
  BY DEF KeysOf
<1>3. \A e \in C : e.key \in KeysOf(C) /\ MapOf(C)[e.key] = e.value
  BY <1>1 DEF MapOf, KeysOf
<1>4. MapOf(C) = [k \in KeysOf(C) |-> MapOf(C)[k]]
  BY DEF MapOf
<1>5. ASSUME m = [k \in KeysOf(C) |-> m[k]], \A e \in C : m[e.key] = e.value
      PROVE  m = MapOf(C)
  <2>1. \A k \in KeysOf(C) : m[k] = MapOf(C)[k]
    BY <1>2, <1>3, <1>5
  <2> QED BY <1>4, <1>5, <2>1
<1> QED BY <1>3, <1>4, <1>5

LEMMA ContentsOneEach ==
  ASSUME NEW tab, NEW n, NEW del, Layout(tab, n, del)
  PROVE  OneEach(Contents(tab))
<1> SUFFICES ASSUME NEW b \in Live(tab), NEW c \in Live(tab)
             PROVE  /\ tab[b].key \in Key /\ tab[b].value \in Value
                    /\ tab[b] = Bucket(tab[b].key, tab[b].value)
                    /\ tab[b].key = tab[c].key => tab[b] = tab[c]
  BY DEF OneEach, Contents, At
<1> QED BY EntryFields DEF Layout, Distinct

LEMMA ProperOneEach ==
  ASSUME NEW u, Proper(u)
  PROVE  OneEach(Contents(u.table))
BY ContentsOneEach, NothingInNothing DEF Proper, Sound, Unused, OneEach

(* The keys and the entries of a table are those of its contents. *)
LEMMA EntriesOf ==
  ASSUME NEW u, Proper(u)
  PROVE  Keys(u) = KeysOf(Contents(u.table)) /\ Entries(u) = MapOf(Contents(u.table))
<1> DEFINE C == Contents(u.table)
<1>1. CASE Sound(u)
  <2>1. /\ Occupied(u) = Live(u.table)
        /\ \A b, c \in Live(u.table) : u.table[b].key = u.table[c].key => b = c
        /\ Layout(u.table, u.num_buckets, u.delkey)
    BY <1>1, SoundKinds DEF Layout, Distinct
  <2>2. Keys(u) = KeysOf(C)
    BY <2>1 DEF Keys, KeysOf, Contents, At
  <2>3. OneEach(C)
    BY <2>1, ContentsOneEach
  <2>4. \A e \in C : Entries(u)[e.key] = e.value
    <3> SUFFICES ASSUME NEW b \in Live(u.table)
                 PROVE  Entries(u)[u.table[b].key] = u.table[b].value
      BY DEF Contents, At
    <3>1. (CHOOSE c \in Occupied(u) : u.table[c].key = u.table[b].key) = b
      BY <2>1
    <3>2. u.table[b].key \in Keys(u)
      BY <2>1 DEF Keys
    <3> QED BY <3>1, <3>2 DEF Entries
  <2>5. Entries(u) = [k \in KeysOf(C) |-> Entries(u)[k]]
    BY <2>2 DEF Entries
  <2> QED BY <2>2, <2>3, <2>4, <2>5, MapOfRight
<1>2. CASE Unused(u)
  <2>1. Occupied(u) = {} /\ C = {}
    BY <1>2, NothingInNothing DEF Unused, Occupied
  <2> QED BY <2>1 DEF Keys, Entries, KeysOf, MapOf
<1> QED BY <1>1, <1>2 DEF Proper

(* What becomes of the map with its entries. *)
LEMMA MapOfNone == MapOf({}) = [k \in {} |-> k] /\ KeysOf({}) = {}
BY DEF MapOf, KeysOf

LEMMA MapOfPlus ==
  ASSUME NEW C, OneEach(C), NEW k \in Key, NEW v \in Value
  PROVE  OneEach(Plus(C, k, v)) /\ MapOf(Plus(C, k, v)) = Map!WithNew(MapOf(C), k, v)
<1>1. DOMAIN MapOf(C) = KeysOf(C) /\ \A e \in C : MapOf(C)[e.key] = e.value
  BY MapOfRight DEF MapOf
<1>2. CASE k \in KeysOf(C)
  BY <1>1, <1>2 DEF Plus, Map!WithNew
<1>3. CASE k \notin KeysOf(C)
  <2> DEFINE e == Bucket(k, v)
             D == C \cup {e}
             m == Map!With(MapOf(C), k, v)
  <2>1. e.key = k /\ e.value = v /\ e = Bucket(e.key, e.value)
    BY BucketFields
  <2>2. \A f \in C : f.key # k
    BY <1>3 DEF KeysOf
  <2> HIDE DEF e
  <2>3. OneEach(D)
    BY <2>1, <2>2 DEF OneEach
  <2>4. KeysOf(D) = KeysOf(C) \cup {k}
    BY <2>1 DEF KeysOf
  <2>5. m = [j \in KeysOf(D) |-> m[j]]
    BY <1>1, <2>4 DEF Map!With
  <2>6. \A f \in D : m[f.key] = f.value
    BY <1>1, <2>1, <2>2, <2>4 DEF Map!With, KeysOf
  <2> HIDE DEF m, D
  <2>7. m = MapOf(D)
    BY <2>3, <2>5, <2>6, MapOfRight
  <2> QED BY <1>1, <1>3, <2>3, <2>7 DEF Plus, Map!WithNew, m, D, e
<1> QED BY <1>2, <1>3

LEMMA MapOfWith ==
  ASSUME NEW C, OneEach(C), NEW k \in Key, NEW v \in Value, NEW D, D = Minus(C, {k}) \cup {Bucket(k, v)}
  PROVE  MapOf(D) = Map!With(MapOf(C), k, v)
<1> DEFINE e == Bucket(k, v)
           m == Map!With(MapOf(C), k, v)
<1>1. DOMAIN MapOf(C) = KeysOf(C) /\ \A f \in C : MapOf(C)[f.key] = f.value
  BY MapOfRight DEF MapOf
<1>2. e.key = k /\ e.value = v /\ e = Bucket(e.key, e.value)
  BY BucketFields
<1>3. D = Minus(C, {k}) \cup {e}
  OBVIOUS
<1>4. \A f \in Minus(C, {k}) : f \in C /\ f.key # k
  BY DEF Minus
<1>5. \A f \in C : f.key # k => f \in Minus(C, {k})
  BY DEF Minus
<1> HIDE DEF e
<1>6. OneEach(D)
  BY <1>2, <1>3, <1>4 DEF OneEach
<1>7. KeysOf(D) = KeysOf(C) \cup {k}
  BY <1>2, <1>3, <1>4, <1>5 DEF KeysOf
<1>8. m = [j \in KeysOf(D) |-> m[j]]
  BY <1>1, <1>7 DEF Map!With
<1>9. \A f \in D : m[f.key] = f.value
  BY <1>1, <1>2, <1>3, <1>4, <1>7 DEF Map!With, KeysOf
<1> HIDE DEF m
<1>10. m = MapOf(D)
  BY <1>6, <1>8, <1>9, MapOfRight
<1> QED BY <1>10 DEF m

LEMMA MapOfMinus ==
  ASSUME NEW C, OneEach(C), NEW keys
  PROVE  MapOf(Minus(C, keys)) = Map!Without(MapOf(C), keys)
<1> DEFINE D == Minus(C, keys)
           m == Map!Without(MapOf(C), keys)
<1>1. DOMAIN MapOf(C) = KeysOf(C) /\ \A f \in C : MapOf(C)[f.key] = f.value
  BY MapOfRight DEF MapOf
<1>2. \A f \in D : f \in C /\ f.key \notin keys
  BY DEF Minus
<1>3. \A f \in C : f.key \notin keys => f \in D
  BY DEF Minus
<1> HIDE DEF D
<1>4. OneEach(D)
  BY <1>2 DEF OneEach
<1>5. KeysOf(D) = KeysOf(C) \ keys
  BY <1>2, <1>3 DEF KeysOf
<1>6. m = [j \in KeysOf(D) |-> m[j]]
  BY <1>1, <1>5 DEF Map!Without
<1>7. \A f \in D : m[f.key] = f.value
  BY <1>1, <1>2, <1>5 DEF Map!Without, KeysOf
<1> HIDE DEF m
<1>8. m = MapOf(D)
  BY <1>4, <1>6, <1>7, MapOfRight
<1> QED BY <1>8 DEF m, D

-----------------------------------------------------------------------------
(* An assertion that fails leaves the entries; without an empty key there   *)
(* are none.                                                                *)
LEMMA FailEntries ==
  ASSUME NEW u, Fields(u)
  PROVE  Entries(Fail(u)) = Entries(u) /\ Kept(Fail(u), u) /\ ~Fail(u).ok
<1> DEFINE w == Fail(u)
<1>1. ~w.ok /\ Kept(w, u) /\ w.table = u.table /\ w.num_deleted = u.num_deleted
  BY FailFields
<1> HIDE DEF w
<1>2. DOMAIN w.table = DOMAIN u.table /\ w.delkey = u.delkey
  BY <1>1 DEF Kept
<1>3. Occupied(w) = Occupied(u)
  BY <1>1, <1>2 DEF Occupied, test_empty, test_deleted
<1>4. Entries(w) = Entries(u)
  BY <1>1, <1>3 DEF Entries, Keys
<1> QED BY <1>1, <1>4 DEF w

LEMMA FailedEntries ==
  ASSUME NEW u, NEW w, Unused(u), Failed(w, u)
  PROVE  Entries(w) = Entries(u)
<1>1. w.table = Nothing /\ u.table = Nothing
  BY DEF Failed, Unused
<1>2. Occupied(w) = {} /\ Occupied(u) = {}
  BY <1>1, NothingInNothing DEF Occupied
<1> QED BY <1>2 DEF Entries, Keys

-----------------------------------------------------------------------------
(* What a step of the table is a step of the map for: it keeps the entries, *)
(* it fails, or it makes other entries of them.                             *)
LEMMA Keeping ==
  ASSUME torn \in BOOLEAN, Good, Proper(t), Rebuilt(t', t), torn' = torn
  PROVE  TableInv' /\ UNCHANGED Map!vars
<1>1. Proper(t') /\ Kept(t', t) /\ Contents(t'.table) = Contents(t.table)
  BY DEF Rebuilt
<1>2. Entries(t') = Entries(t)
  BY <1>1, EntriesOf
<1>3. t.ok /\ t'.ok /\ ~torn /\ ~torn'
  BY <1>1, ProperKinds DEF Good
<1> QED BY <1>1, <1>2, <1>3 DEF TableInv, Good, Map!vars, Kept

LEMMA Failing ==
  ASSUME torn \in BOOLEAN, Good, Entries(t') = Entries(t), Kept(t', t), ~t'.ok, torn' = torn
  PROVE  TableInv' /\ Map!Fail
<1>1. ~torn /\ ~torn'
  BY DEF Good
<1> QED BY <1>1 DEF TableInv, Good, Map!Fail, Kept

LEMMA Changing ==
  ASSUME torn \in BOOLEAN, Good, Proper(t), Proper(t'), Kept(t', t), torn' = torn
  PROVE  /\ TableInv' /\ Map!Keep
         /\ Entries(t) = MapOf(Contents(t.table)) /\ Entries(t') = MapOf(Contents(t'.table))
<1>1. t.ok /\ t'.ok /\ ~torn /\ ~torn'
  BY ProperKinds DEF Good
<1>2. Entries(t) = MapOf(Contents(t.table)) /\ Entries(t') = MapOf(Contents(t'.table))
  BY EntriesOf
<1> QED BY <1>1, <1>2 DEF TableInv, Good, Map!Keep, Kept


-----------------------------------------------------------------------------
(* The calls, one by one. *)
StepRight == TableInv' /\ (Map!Next \/ UNCHANGED Map!vars)

(* What the invariant says where a call may be made. *)
LEMMA AtCall ==
  ASSUME TableInv, Good
  PROVE  /\ torn \in BOOLEAN /\ ~torn /\ Proper(t) /\ Fields(t)
         /\ t.use_empty => Sound(t)
         /\ ~t.use_empty => Unused(t)
BY ProperApart, ProperKinds DEF TableInv, Good

(* insert *)
LEMMA InsertStep ==
  ASSUME TableInv, NEW k \in Key, NEW v \in Value, Insert(k, v)
  PROVE  StepRight
<1> DEFINE u == Inserted(t, k, v)
<1>1. Good /\ ~Throws(t, 1) /\ t' = u /\ torn' = torn
  BY DEF Insert, Fits, ToIdle
<1>2. torn \in BOOLEAN /\ ~torn /\ t.ok /\ Proper(t) /\ Fields(t)
  BY <1>1, AtCall DEF Good
<1>3. CASE t.use_empty
  <2>1. Sound(t)
    BY <1>1, <1>3, AtCall
  <2>2. Sound(u) /\ Kept(u, t) /\ Contents(u.table) = Plus(Contents(t.table), k, v)
    BY <1>1, <2>1, InsertedRight
  <2> HIDE DEF u
  <2>3. Proper(t')
    BY <1>1, <2>2 DEF Proper
  <2>4. /\ TableInv' /\ Map!Keep
        /\ Entries(t) = MapOf(Contents(t.table)) /\ Entries(t') = MapOf(Contents(t'.table))
    BY <1>1, <1>2, <2>2, <2>3, Changing
  <2>5. MapOf(Plus(Contents(t.table), k, v)) = Map!WithNew(MapOf(Contents(t.table)), k, v)
    BY <1>2, ProperOneEach, MapOfPlus
  <2>6. Entries(t') = Map!WithNew(Entries(t), k, v)
    BY <1>1, <2>2, <2>4, <2>5
  <2>7. Map!Insert(k, v)
    BY <1>1, <1>2, <1>3, <2>4, <2>6 DEF Map!Insert
  <2> QED BY <1>2, <2>4, <2>7 DEF StepRight, Map!Next
<1>4. CASE ~t.use_empty
  <2>1. Unused(t)
    BY <1>1, <1>4, AtCall
  <2>2. Failed(u, t)
    BY <1>1, <2>1, UnusedFails
  <2>3. Entries(u) = Entries(t) /\ Kept(u, t) /\ ~u.ok
    BY <2>1, <2>2, FailedEntries DEF Failed
  <2> HIDE DEF u
  <2>4. TableInv' /\ Map!Fail
    BY <1>1, <1>2, <2>3, Failing
  <2> QED BY <1>2, <1>4, <2>4 DEF StepRight, Map!Next, Map!UsedTooEarly
<1> QED BY <1>3, <1>4

(* operator[] *)
LEMMA AssignStep ==
  ASSUME TableInv, NEW k \in Key, NEW v \in Value, Assign(k, v)
  PROVE  StepRight
<1> DEFINE u == AssignedTo(t, k, v)
<1>1. Good /\ (Holds(t, k) \/ ~Throws(t, 1)) /\ t' = u /\ torn' = torn
  BY DEF Assign, Fits, ToIdle
<1>2. torn \in BOOLEAN /\ ~torn /\ t.ok /\ Proper(t) /\ Fields(t)
  BY <1>1, AtCall DEF Good
<1>3. CASE t.use_empty
  <2> DEFINE D == Minus(Contents(t.table), {k}) \cup {Bucket(k, v)}
  <2>1. Sound(t)
    BY <1>1, <1>3, AtCall
  <2>2. Sound(u) /\ Kept(u, t) /\ Contents(u.table) = D
    BY <1>1, <2>1, AssignedToRight
  <2> HIDE DEF u
  <2>3. Proper(t')
    BY <1>1, <2>2 DEF Proper
  <2>4. /\ TableInv' /\ Map!Keep
        /\ Entries(t) = MapOf(Contents(t.table)) /\ Entries(t') = MapOf(Contents(t'.table))
    BY <1>1, <1>2, <2>2, <2>3, Changing
  <2>5. OneEach(Contents(t.table))
    BY <1>2, ProperOneEach
  <2>6. MapOf(D) = Map!With(MapOf(Contents(t.table)), k, v)
    BY <2>5, MapOfWith
  <2>7. Entries(t') = Map!With(Entries(t), k, v)
    BY <1>1, <2>2, <2>4, <2>6
  <2>8. Map!Assign(k, v)
    BY <1>1, <1>2, <1>3, <2>4, <2>7 DEF Map!Assign
  <2> QED BY <1>2, <2>4, <2>8 DEF StepRight, Map!Next
<1>4. CASE ~t.use_empty
  <2>1. Unused(t)
    BY <1>1, <1>4, AtCall
  <2>2. u = Fail(t)
    BY <2>1, UnusedFails
  <2>3. Entries(u) = Entries(t) /\ Kept(u, t) /\ ~u.ok
    BY <1>2, <2>2, FailEntries
  <2> HIDE DEF u
  <2>4. TableInv' /\ Map!Fail
    BY <1>1, <1>2, <2>3, Failing
  <2> QED BY <1>2, <1>4, <2>4 DEF StepRight, Map!Next, Map!UsedTooEarly
<1> QED BY <1>3, <1>4

(* insert of two entries *)
LEMMA InsertRangeStep ==
  ASSUME TableInv, NEW k \in Key, NEW l \in Key, NEW v \in Value, InsertRange(k, l, v)
  PROVE  StepRight
<1> DEFINE u == InsertedAll(t, <<Bucket(k, v), Bucket(l, Default)>>)
<1>1. Good /\ ~Throws(t, 2) /\ t' = u /\ torn' = torn
  BY DEF InsertRange, Fits, ToIdle
<1>2. torn \in BOOLEAN /\ ~torn /\ t.ok /\ Proper(t) /\ Fields(t)
  BY <1>1, AtCall DEF Good
<1>3. Default \in Value
  BY TableAssumption
<1>4. CASE t.use_empty
  <2> DEFINE C == Contents(t.table)
             D == Plus(C, k, v)
  <2>1. Sound(t)
    BY <1>1, <1>4, AtCall
  <2>2. Sound(u) /\ Kept(u, t) /\ Contents(u.table) = Plus(D, l, Default)
    BY <1>1, <1>3, <2>1, InsertedAllRight
  <2> HIDE DEF u
  <2>3. Proper(t')
    BY <1>1, <2>2 DEF Proper
  <2>4. /\ TableInv' /\ Map!Keep
        /\ Entries(t) = MapOf(C) /\ Entries(t') = MapOf(Contents(t'.table))
    BY <1>1, <1>2, <2>2, <2>3, Changing
  <2>5. OneEach(C)
    BY <1>2, ProperOneEach
  <2>6. OneEach(D) /\ MapOf(D) = Map!WithNew(MapOf(C), k, v)
    BY <2>5, MapOfPlus
  <2> HIDE DEF D
  <2>7. MapOf(Plus(D, l, Default)) = Map!WithNew(MapOf(D), l, Default)
    BY <1>3, <2>6, MapOfPlus
  <2>8. Entries(t') = Map!WithNew(Map!WithNew(Entries(t), k, v), l, Default)
    BY <1>1, <2>2, <2>4, <2>6, <2>7
  <2>9. Map!InsertTwo(k, l, v, Default)
    BY <1>1, <1>2, <1>4, <2>4, <2>8 DEF Map!InsertTwo
  <2> QED BY <1>2, <1>3, <2>4, <2>9 DEF StepRight, Map!Next
<1>5. CASE ~t.use_empty
  <2>1. Unused(t)
    BY <1>1, <1>5, AtCall
  <2>2. Failed(u, t)
    BY <1>1, <1>3, <2>1, UnusedFails
  <2>3. Entries(u) = Entries(t) /\ Kept(u, t) /\ ~u.ok
    BY <2>1, <2>2, FailedEntries DEF Failed
  <2> HIDE DEF u
  <2>4. TableInv' /\ Map!Fail
    BY <1>1, <1>2, <2>3, Failing
  <2> QED BY <1>2, <1>5, <2>4 DEF StepRight, Map!Next, Map!UsedTooEarly
<1> QED BY <1>4, <1>5

(* Without a deleted key erase fails an assertion, if there is an entry.    *)
LEMMA EraseFails ==
  ASSUME TableInv, Good, t.use_empty, t.delkey = NoKey, NEW b \in Occupied(t),
         t' = Fail(t), torn' = torn
  PROVE  StepRight
<1> DEFINE u == Fail(t)
<1>1. torn \in BOOLEAN /\ ~torn /\ t.ok /\ Proper(t) /\ Fields(t) /\ Sound(t)
  BY AtCall DEF Good
<1>2. Entries(u) = Entries(t) /\ Kept(u, t) /\ ~u.ok
  BY <1>1, FailEntries
<1>3. t' = u
  OBVIOUS
<1> HIDE DEF u
<1>4. TableInv' /\ Map!Fail
  BY <1>1, <1>2, <1>3, Failing
<1>5. t.table[b].key \in DOMAIN Entries(t)
  BY DEF Entries, Keys
<1>6. Entries(t) # [k \in {} |-> k]
  BY <1>5
<1>7. Map!EraseTooEarly
  BY <1>1, <1>4, <1>6 DEF Map!EraseTooEarly, Map!NoEntries
<1> QED BY <1>1, <1>4, <1>7 DEF StepRight, Map!Next

(* With one, entries are taken out. *)
LEMMA EraseWorks ==
  ASSUME TableInv, Good, NEW keys \in SUBSET Key, t.delkey # NoKey \/ keys = {},
         Sound(t), Sound(t'), Kept(t', t), Contents(t'.table) = Minus(Contents(t.table), keys),
         torn' = torn
  PROVE  StepRight
<1>1. torn \in BOOLEAN /\ ~torn /\ t.ok /\ Proper(t) /\ Proper(t')
  BY AtCall DEF Good, Proper
<1>2. /\ TableInv' /\ Map!Keep
      /\ Entries(t) = MapOf(Contents(t.table)) /\ Entries(t') = MapOf(Contents(t'.table))
  BY <1>1, Changing
<1>3. OneEach(Contents(t.table))
  BY <1>1, ProperOneEach
<1>4. MapOf(Minus(Contents(t.table), keys)) = Map!Without(MapOf(Contents(t.table)), keys)
  BY <1>3, MapOfMinus
<1>5. Map!Erase(keys)
  BY <1>1, <1>2, <1>4 DEF Map!Erase
<1> QED BY <1>1, <1>2, <1>5 DEF StepRight, Map!Next

(* A bucket that holds an entry is marked as deleted. *)
LEMMA EraseOne ==
  ASSUME TableInv, Good, t.use_empty, NEW b \in Occupied(t), t' = ErasedAt(t, b), torn' = torn
  PROVE  StepRight
<1>1. Sound(t)
  BY AtCall
<1>2. b \in Live(t.table)
  BY <1>1, SoundKinds
<1>3. CASE t.delkey = NoKey
  BY <1>3, EraseFails DEF ErasedAt
<1>4. CASE t.delkey # NoKey
  <2> DEFINE u == ErasedAt(t, b)
             k == t.table[b].key
  <2>1. Sound(u) /\ Kept(u, t) /\ Contents(u.table) = Minus(Contents(t.table), {k})
    BY <1>1, <1>2, <1>4, ErasedAtRight
  <2>2. t' = u
    OBVIOUS
  <2>3. k \in Key
    BY <1>2 DEF Live
  <2> HIDE DEF u, k
  <2>4. {k} \in SUBSET Key
    BY <2>3
  <2> QED BY <1>1, <1>4, <2>1, <2>2, <2>4, EraseWorks
<1> QED BY <1>3, <1>4

(* erase of a key *)
LEMMA EraseStep ==
  ASSUME TableInv, NEW k \in Key, Erase(k)
  PROVE  StepRight
<1>1. Good /\ t' = Erased(t, k) /\ torn' = torn
  BY DEF Erase
<1>2. torn \in BOOLEAN /\ Proper(t) /\ Fields(t)
  BY <1>1, AtCall
<1>3. ASSUME t' = t PROVE StepRight
  <2>1. Rebuilt(t', t)
    BY <1>2, <1>3, RebuiltSame
  <2> QED BY <1>1, <1>2, <2>1, Keeping DEF StepRight
<1>4. CASE ~t.use_empty
  <2>1. Unused(t)
    BY <1>1, <1>4, AtCall
  <2>2. Default \in Value
    BY TableAssumption
  <2>3. Erased(t, k) = t
    BY <2>1, <2>2, UnusedFails
  <2> QED BY <1>1, <1>3, <2>3
<1>5. CASE t.use_empty
  <2> DEFINE u == Erased(t, k)
  <2>1. Sound(t)
    BY <1>1, <1>5, AtCall
  <2>2. /\ k \notin KeysOf(Contents(t.table)) => u = t
        /\ k \in KeysOf(Contents(t.table)) /\ t.delkey = NoKey => u = Fail(t)
        /\ k \in KeysOf(Contents(t.table)) /\ t.delkey # NoKey =>
             \E b \in Live(t.table) : t.table[b].key = k /\ u = ErasedAt(t, b)
    BY <2>1, ErasedRight
  <2> HIDE DEF u
  <2>3. Occupied(t) = Live(t.table)
    BY <2>1, SoundKinds
  <2>4. CASE k \notin KeysOf(Contents(t.table))
    BY <1>1, <1>3, <2>2, <2>4 DEF u
  <2>5. CASE k \in KeysOf(Contents(t.table)) /\ t.delkey = NoKey
    <3>1. PICK b \in Occupied(t) : t.table[b].key = k
      BY <2>3, <2>5 DEF KeysOf, Contents, At
    <3>2. t' = Fail(t)
      BY <1>1, <2>2, <2>5 DEF u
    <3> QED BY <1>1, <1>5, <2>5, <3>2, EraseFails
  <2>6. CASE k \in KeysOf(Contents(t.table)) /\ t.delkey # NoKey
    <3>1. PICK b \in Occupied(t) : u = ErasedAt(t, b)
      BY <2>2, <2>3, <2>6
    <3>2. t' = ErasedAt(t, b)
      BY <1>1, <3>1 DEF u
    <3> QED BY <1>1, <1>5, <3>2, EraseOne
  <2> QED BY <2>4, <2>5, <2>6
<1> QED BY <1>4, <1>5

(* erase of a range *)
LEMMA EraseRangeStep ==
  ASSUME TableInv, NEW from, NEW to, EraseRange(from, to)
  PROVE  StepRight
<1> DEFINE u == ErasedRange(t, from, to)
<1>1. Good /\ t' = u /\ torn' = torn
  BY DEF EraseRange, ToIdle
<1>2. torn \in BOOLEAN /\ Proper(t) /\ Fields(t)
  BY <1>1, AtCall
<1>3. CASE ~t.use_empty
  <2>1. Unused(t)
    BY <1>1, <1>3, AtCall
  <2>2. Rebuilt(u, t)
    BY <2>1, ErasedRangeUnused
  <2> HIDE DEF u
  <2> QED BY <1>1, <1>2, <2>2, Keeping DEF StepRight
<1>4. CASE t.use_empty
  <2> DEFINE gone == {b \in Occupied(t) : from <= b /\ b < to}
             keys == KeysOf(At(t.table, gone))
  <2>1. Sound(t)
    BY <1>1, <1>4, AtCall
  <2>2. /\ gone # {} /\ t.delkey = NoKey => u = Fail(t)
        /\ gone = {} \/ t.delkey # NoKey =>
             Sound(u) /\ Kept(u, t) /\ Contents(u.table) = Minus(Contents(t.table), keys)
    BY <2>1, ErasedRangeRight
  <2>3. Occupied(t) = Live(t.table) /\ gone \subseteq Occupied(t)
    BY <2>1, SoundKinds
  <2> HIDE DEF u, gone
  <2>4. keys \in SUBSET Key /\ (gone = {} => keys = {})
    BY <2>3 DEF KeysOf, At, Live
  <2> HIDE DEF keys
  <2>5. CASE gone # {} /\ t.delkey = NoKey
    <3>1. PICK b \in Occupied(t) : b \in gone
      BY <2>3, <2>5
    <3>2. t' = Fail(t)
      BY <1>1, <2>2, <2>5
    <3> QED BY <1>1, <1>4, <2>5, <3>2, EraseFails
  <2>6. CASE gone = {} \/ t.delkey # NoKey
    <3>1. /\ Sound(t') /\ Kept(t', t) /\ Contents(t'.table) = Minus(Contents(t.table), keys)
          /\ t.delkey # NoKey \/ keys = {}
      BY <1>1, <2>2, <2>4, <2>6
    <3> QED BY <1>1, <2>1, <2>4, <3>1, EraseWorks
  <2> QED BY <2>5, <2>6
<1> QED BY <1>3, <1>4

(* clear, also after a failed read *)
LEMMA ClearStep ==
  ASSUME TableInv, Clear
  PROVE  StepRight
<1> DEFINE u == Emptied(t)
<1>1. t.ok /\ t.use_empty /\ t' = u /\ torn' = FALSE
  BY DEF Clear
<1>2. Sound(t) \/ Restorable(t)
  BY <1>1, ProperApart DEF TableInv, Good
<1>3. Sound(u) /\ Kept(u, t) /\ Contents(u.table) = {}
  BY <1>2, RestorableRight
<1> HIDE DEF u
<1>4. Proper(t') /\ t'.ok
  BY <1>1, <1>3, SoundKinds DEF Proper
<1>5. Entries(t') = [k \in {} |-> k]
  BY <1>1, <1>3, <1>4, EntriesOf, MapOfNone
<1>6. TableInv'
  BY <1>1, <1>4 DEF TableInv, Good
<1>7. Map!Clear
  BY <1>1, <1>3, <1>4, <1>5 DEF Map!Clear, Map!NoEntries, Kept
<1>8. Map!Next
  BY <1>1, <1>7 DEF Map!Next
<1> QED BY <1>6, <1>8 DEF StepRight

(* clear_no_resize *)
LEMMA ClearNoResizeStep ==
  ASSUME TableInv, ClearNoResize
  PROVE  StepRight
<1> DEFINE u == EmptiedNoResize(t)
<1>1. Good /\ t.use_empty /\ t' = u /\ torn' = torn
  BY DEF ClearNoResize, ToIdle
<1>2. torn \in BOOLEAN /\ ~torn /\ t.ok /\ Sound(t)
  BY <1>1, AtCall DEF Good
<1>3. Sound(u) /\ Kept(u, t) /\ Contents(u.table) = {}
  BY <1>2, EmptiedNoResizeRight
<1> HIDE DEF u
<1>4. Proper(t') /\ t'.ok
  BY <1>1, <1>3, SoundKinds DEF Proper
<1>5. Entries(t') = [k \in {} |-> k]
  BY <1>1, <1>3, <1>4, EntriesOf, MapOfNone
<1>6. TableInv'
  BY <1>1, <1>2, <1>4 DEF TableInv, Good
<1>7. Map!Clear
  BY <1>1, <1>2, <1>3, <1>4, <1>5 DEF Map!Clear, Map!NoEntries, Kept
<1>8. Map!Next
  BY <1>2, <1>7 DEF Map!Next
<1> QED BY <1>6, <1>8 DEF StepRight

(* Whatever only builds the table anew. *)
LEMMA RebuildStep ==
  ASSUME TableInv, Good, Rebuilt(t', t), torn' = torn
  PROVE  StepRight
<1>1. torn \in BOOLEAN /\ Proper(t)
  BY AtCall
<1> QED BY <1>1, Keeping DEF StepRight

(* resize *)
LEMMA ResizeStep ==
  ASSUME TableInv, NEW n \in Room, Resize(n)
  PROVE  StepRight
<1>1. Good /\ ~ResizeThrows(t, n) /\ t' = Resized(t, n) /\ torn' = torn
  BY DEF Resize, ToIdle
<1>2. n \in Nat
  BY PercentsAssumption
<1>3. Rebuilt(Resized(t, n), t)
  BY <1>1, <1>2, AtCall, ResizedRight
<1> QED BY <1>1, <1>3, RebuildStep

(* the copy constructor and operator= *)
LEMMA CopyStep ==
  ASSUME TableInv, Copy
  PROVE  StepRight
<1>1. /\ Good /\ ~CopyThrows(t) /\ torn' = torn
      /\ t' = CopyOf(t, StartBuckets) \/ t' = Assigned(t)
  BY DEF Copy, ToIdle
<1>2. Proper(t)
  BY <1>1, AtCall
<1>3. (\A n \in Sizes : Rebuilt(CopyOf(t, n), t)) /\ Rebuilt(Assigned(t), t)
  BY <1>1, <1>2, CopiesRight
<1>4. Rebuilt(CopyOf(t, StartBuckets), t)
  BY <1>3, NamedSizes
<1>5. Rebuilt(t', t)
  BY <1>1, <1>3, <1>4
<1> QED BY <1>1, <1>5, RebuildStep

(* set_empty_key *)
LEMMA SetEmptyKeyStep ==
  ASSUME TableInv, SetEmptyKey
  PROVE  StepRight
<1> DEFINE u == WithEmptyKey(t)
<1>1. Good /\ t' = u /\ torn' = torn
  BY DEF SetEmptyKey, ToIdle
<1>2. torn \in BOOLEAN /\ ~torn /\ t.ok /\ Proper(t) /\ Fields(t)
  BY <1>1, AtCall DEF Good
<1>3. /\ t.use_empty => u = Fail(t)
      /\ ~t.use_empty => Sound(u) /\ u.delkey = t.delkey /\ Contents(u.table) = {}
  BY <1>2, WithEmptyKeyRight
<1> HIDE DEF u
<1>4. CASE t.use_empty
  <2>1. Entries(t') = Entries(t) /\ Kept(t', t) /\ ~t'.ok
    BY <1>1, <1>2, <1>3, <1>4, FailEntries
  <2>2. TableInv' /\ Map!Fail
    BY <1>1, <1>2, <2>1, Failing
  <2> QED BY <1>2, <1>4, <2>2 DEF StepRight, Map!Next, Map!SetEmptyKeyAgain
<1>5. CASE ~t.use_empty
  <2>1. Sound(t') /\ t'.delkey = t.delkey /\ Contents(t'.table) = {}
    BY <1>1, <1>3, <1>5
  <2>2. Proper(t') /\ t'.ok /\ t'.use_empty
    BY <2>1, SoundKinds DEF Proper
  <2>3. t'.use_empty \in BOOLEAN /\ t'.use_empty = TRUE
    BY <2>1, <2>2 DEF Sound, Fields
  <2>4. Contents(t.table) = {}
    BY <1>1, <1>5, AtCall, NothingInNothing DEF Unused
  <2>5. Entries(t') = Entries(t)
    BY <1>2, <2>1, <2>2, <2>4, EntriesOf
  <2>6. TableInv'
    BY <1>1, <1>2, <2>2 DEF TableInv, Good
  <2>7. Map!SetEmptyKey
    BY <1>1, <1>2, <1>5, <2>1, <2>2, <2>3, <2>5 DEF Map!SetEmptyKey
  <2>8. Map!Next
    BY <1>2, <2>7 DEF Map!Next
  <2> QED BY <2>6, <2>8 DEF StepRight
<1> QED BY <1>4, <1>5

(* set_deleted_key, clear_deleted_key *)
LEMMA SetDeletedKeyStep ==
  ASSUME TableInv, NEW mark \in Mark \cup {NoKey}, SetDeletedKey(mark)
  PROVE  StepRight
<1> DEFINE u == WithDeletedKey(t, mark)
           use == mark # NoKey
<1>1. Good /\ (t.num_deleted > 0 => ~CopyThrows(t)) /\ t' = u /\ torn' = torn
  BY DEF SetDeletedKey, ToIdle
<1>2. torn \in BOOLEAN /\ ~torn /\ t.ok /\ Proper(t)
  BY <1>1, AtCall DEF Good
<1>3. /\ Proper(u) /\ u.use_empty = t.use_empty /\ u.delkey = mark
      /\ Contents(u.table) = Contents(t.table)
  BY <1>1, <1>2, WithDeletedKeyRight
<1> HIDE DEF u
<1>4. Proper(t') /\ t'.ok
  BY <1>1, <1>3, ProperKinds
<1>5. Entries(t') = Entries(t)
  BY <1>1, <1>2, <1>3, EntriesOf
<1>6. TableInv'
  BY <1>1, <1>2, <1>4 DEF TableInv, Good
<1>7. use \in BOOLEAN
  OBVIOUS
<1>8. Map!UseDeletedKey(use)
  BY <1>1, <1>2, <1>3, <1>4, <1>5 DEF Map!UseDeletedKey
<1> HIDE DEF use
<1>9. Map!Next
  BY <1>2, <1>7, <1>8 DEF Map!Next
<1> QED BY <1>6, <1>9 DEF StepRight

(* set_resizing_parameters *)
LEMMA SetResizingStep ==
  ASSUME TableInv, NEW p \in Percents, p[2] < 100, SetResizing(p)
  PROVE  StepRight
<1> DEFINE shrink == p[1]
           grow == p[2]
           u == [Resizing(t, shrink, grow) EXCEPT !.consider_shrink = FALSE]
<1>1. Good /\ t' = u /\ torn' = torn
  BY DEF SetResizing, ToIdle
<1>2. torn \in BOOLEAN /\ ~torn /\ t.ok /\ Proper(t)
  BY <1>1, AtCall DEF Good
<1>3. shrink \in Nat /\ grow \in 1 .. 99 /\ grow % 2 = 0 /\ \E n \in Sizes : n * grow >= 100
  BY PercentsAssumption
<1> HIDE DEF shrink, grow
<1>4. Proper(u) /\ u.use_empty = t.use_empty /\ u.delkey = t.delkey /\ u.table = t.table
  BY <1>2, <1>3, ResizingRight
<1> HIDE DEF u
<1>5. Proper(t') /\ t'.ok
  BY <1>1, <1>4, ProperKinds
<1>6. Entries(t') = Entries(t)
  BY <1>1, <1>2, <1>4, EntriesOf
<1>7. TableInv'
  BY <1>1, <1>2, <1>5 DEF TableInv, Good
<1>8. UNCHANGED Map!vars
  BY <1>1, <1>2, <1>4, <1>5, <1>6 DEF Map!vars
<1> QED BY <1>7, <1>8 DEF StepRight

(* serialize and unserialize *)
LEMMA SaveAndLoadStep ==
  ASSUME TableInv, SaveAndLoad
  PROVE  StepRight
<1> DEFINE s == Squashed(t)
           file == Written(s)
<1>1. Good /\ t.use_empty /\ (t.num_deleted > 0 => ~CopyThrows(t))
  BY DEF SaveAndLoad
<1>2. PICK n \in 0 .. Len(file) :
        LET r == Read(s, SubSeq(file, 1, n)) IN t' = r.t /\ torn' = ~r.whole
  BY DEF SaveAndLoad
<1>3. torn \in BOOLEAN /\ ~torn /\ t.ok /\ Proper(t) /\ Sound(t)
  BY <1>1, AtCall DEF Good
<1>4. Rebuilt(s, t) /\ s.num_deleted = 0
  BY <1>1, <1>3, SquashedRight
<1> HIDE DEF s
<1>5. Sound(s) /\ Kept(s, t) /\ Contents(s.table) = Contents(t.table)
  BY <1>3, <1>4, RebuiltSound DEF Rebuilt
<1>6. \E len : FileOf(s, file, len)
  BY <1>5, WrittenRight
<1>7. Len(file) \in Nat
  BY <1>6 DEF FileOf
<1>8. n \in Nat /\ n <= Len(file)
  BY <1>7
<1> DEFINE f == SubSeq(file, 1, n)
           r == Read(s, f)
<1>9. t' = r.t /\ torn' = ~r.whole
  BY <1>2
<1>10. /\ r.whole \in BOOLEAN /\ Kept(r.t, s) /\ r.t.ok
       /\ r.whole => Sound(r.t) /\ Contents(r.t.table) = Contents(s.table)
       /\ ~r.whole => Sound(r.t) \/ Restorable(r.t)
  BY <1>4, <1>5, <1>8, ReadRight
<1> HIDE DEF file, f, r
<1>11. Kept(t', t) /\ t'.ok /\ torn' \in BOOLEAN
  BY <1>5, <1>9, <1>10 DEF Kept
<1>12. CASE r.whole
  <2>1. torn' = torn
    BY <1>3, <1>9, <1>12
  <2>2. Rebuilt(t', t)
    BY <1>5, <1>9, <1>10, <1>11, <1>12 DEF Rebuilt, Proper
  <2> QED BY <1>1, <2>1, <2>2, RebuildStep
<1>13. CASE ~r.whole
  <2>1. torn' = TRUE /\ (Sound(t') \/ Restorable(t'))
    BY <1>9, <1>10, <1>13
  <2>2. TableInv'
    BY <1>11, <2>1 DEF TableInv, Good
  <2>3. Map!Tear
    BY <1>1, <1>11, <2>1 DEF Map!Tear, Map!NoEntries, Kept
  <2>4. Map!Next
    BY <1>3, <2>3 DEF Map!Next
  <2> QED BY <2>2, <2>4 DEF StepRight
<1> QED BY <1>12, <1>13

(* begin, operator++, erase of what an iterator points to *)
LEMMA BeginStep ==
  ASSUME TableInv, Begin
  PROVE  StepRight
<1>1. Good /\ torn' = torn
  BY DEF Begin
<1>2. torn \in BOOLEAN /\ ~torn /\ t.ok /\ Proper(t) /\ Fields(t)
  BY <1>1, AtCall DEF Good
<1>3. CASE t.use_empty
  <2>1. t' = t
    BY <1>3 DEF Begin
  <2>2. Rebuilt(t', t)
    BY <1>2, <2>1, RebuiltSame
  <2> QED BY <1>1, <2>2, RebuildStep
<1>4. CASE ~t.use_empty
  <2>1. t' = Fail(t)
    BY <1>4 DEF Begin
  <2>2. Entries(t') = Entries(t) /\ Kept(t', t) /\ ~t'.ok
    BY <1>2, <2>1, FailEntries
  <2>3. TableInv' /\ Map!Fail
    BY <1>1, <1>2, <2>2, Failing
  <2> QED BY <1>2, <1>4, <2>3 DEF StepRight, Map!Next, Map!UsedTooEarly
<1> QED BY <1>3, <1>4

LEMMA AdvanceStep ==
  ASSUME TableInv, Advance
  PROVE  StepRight
<1>1. Good /\ t' = t /\ torn' = torn
  BY DEF Advance
<1>2. Rebuilt(t', t)
  BY <1>1, AtCall, RebuiltSame
<1> QED BY <1>1, <1>2, RebuildStep

LEMMA EraseHereStep ==
  ASSUME TableInv, EraseHere
  PROVE  StepRight
<1>1. Good /\ it.at \in Occupied(t) /\ t' = ErasedAt(t, it.at) /\ torn' = torn
  BY DEF EraseHere
<1>2. t.use_empty
  BY <1>1, AtCall, NothingInNothing DEF Unused, Occupied
<1> QED BY <1>1, <1>2, EraseOne

-----------------------------------------------------------------------------
(* The walk. *)

(* A table with less in it: entries with some keys may be gone, the others  *)
(* are where they were.                                                     *)
Less(u, s, keys) ==
  /\ End(u) = End(s) /\ Occupied(u) \subseteq Occupied(s)
  /\ \A b \in Occupied(u) : u.table[b].key = s.table[b].key
  /\ \A b \in Occupied(s) : s.table[b].key \notin keys => b \in Occupied(u)

(* An assertion that fails takes nothing out. *)
LEMMA FailLess ==
  ASSUME NEW s, Fields(s), NEW keys
  PROVE  Less(s, s, keys) /\ Less(Fail(s), s, keys)
<1> DEFINE w == Fail(s)
<1>1. /\ w.table = s.table /\ w.num_deleted = s.num_deleted /\ w.delkey = s.delkey
      /\ w.num_buckets = s.num_buckets
  BY FailFields DEF Kept
<1> HIDE DEF w
<1>2. Occupied(w) = Occupied(s)
  BY <1>1 DEF Occupied, test_empty, test_deleted
<1>3. Less(w, s, keys)
  BY <1>1, <1>2 DEF Less, End
<1>4. Less(s, s, keys)
  BY DEF Less
<1> QED BY <1>3, <1>4 DEF w

(* erase of one bucket, of a key *)
LEMMA ErasedAtLess ==
  ASSUME NEW s, Sound(s), NEW b \in Live(s.table)
  PROVE  Less(ErasedAt(s, b), s, {s.table[b].key})
<1>1. Fields(s)
  BY DEF Sound
<1>2. CASE s.delkey = NoKey
  BY <1>1, <1>2, FailLess DEF ErasedAt
<1>3. CASE s.delkey # NoKey
  <2> DEFINE u == ErasedAt(s, b)
  <2>1. /\ Sound(u) /\ u.num_buckets = s.num_buckets
        /\ Live(u.table) = Live(s.table) \ {b}
        /\ \A c \in Live(u.table) : u.table[c] = s.table[c]
    BY <1>3, ErasedAtRight
  <2> HIDE DEF u
  <2>2. Occupied(u) = Live(u.table) /\ Occupied(s) = Live(s.table)
    BY <2>1, SoundKinds
  <2>3. Less(u, s, {s.table[b].key})
    BY <2>1, <2>2 DEF Less, End
  <2> QED BY <2>3 DEF u
<1> QED BY <1>2, <1>3

LEMMA ErasedLess ==
  ASSUME NEW s, Sound(s), NEW k \in Key
  PROVE  Less(Erased(s, k), s, {k})
<1> DEFINE u == Erased(s, k)
<1>1. /\ k \notin KeysOf(Contents(s.table)) => u = s
      /\ k \in KeysOf(Contents(s.table)) /\ s.delkey = NoKey => u = Fail(s)
      /\ k \in KeysOf(Contents(s.table)) /\ s.delkey # NoKey =>
           \E b \in Live(s.table) : s.table[b].key = k /\ u = ErasedAt(s, b)
  BY ErasedRight
<1>2. Less(s, s, {k}) /\ Less(Fail(s), s, {k})
  BY FailLess DEF Sound
<1>3. \A b \in Live(s.table) : s.table[b].key = k => Less(ErasedAt(s, b), s, {k})
  BY ErasedAtLess
<1> HIDE DEF u
<1>4. Less(u, s, {k})
  BY <1>1, <1>2, <1>3
<1> QED BY <1>4 DEF u

(* The next bucket that holds an entry. *)
LEMMA NextRight ==
  ASSUME NEW u, End(u) \in Nat, Occupied(u) \subseteq Buckets(End(u)), NEW b \in Nat, b <= End(u),
         NEW next, next = NextOccupied(u, b)
  PROVE  /\ next \in Nat /\ b <= next /\ next <= End(u)
         /\ \A d \in Occupied(u) : d \in Nat /\ d < End(u) /\ (b <= d => next <= d)
<1> DEFINE S == {c \in b .. End(u) : c = End(u) \/ c \in Occupied(u)}
<1>1. S \in SUBSET Nat /\ \A c \in S : b <= c /\ c <= End(u)
  OBVIOUS
<1>2. End(u) \in S
  OBVIOUS
<1>3. \A d \in Occupied(u) : d \in Nat /\ d < End(u) /\ (b <= d => d \in S)
  BY DEF Buckets
<1>4. next = Min(S)
  BY DEF NextOccupied
<1> HIDE DEF S
<1>5. next \in S /\ \A m \in S : next <= m
  BY <1>1, <1>2, <1>4, MinOf
<1> QED BY <1>1, <1>3, <1>5

(* A step of the walk: what it leaves behind has been seen. *)
LEMMA WalkOn ==
  ASSUME Walk, Sound(t), it.on, it.at # End(t), NEW keys, keys \subseteq {KeyAt(it.at)},
         Less(t', t, keys), ~torn', t'.use_empty,
         it' \in [at : {NextOccupied(t', it.at + 1)}, owed : {it.owed \ keys},
                  seen : {it.seen \cup {KeyAt(it.at)}}, on : {TRUE}]
  PROVE  Walk'
<1> DEFINE at == it.at
           next == NextOccupied(t', at + 1)
           K == KeyAt(at)
<1>1. it'.at = next /\ it'.owed = it.owed \ keys /\ it'.seen = it.seen \cup {K} /\ it'.on = TRUE
  OBVIOUS
<1>2. /\ at \in Nat /\ End(t) \in Nat /\ at <= End(t) /\ Occupied(t) \subseteq Buckets(End(t))
      /\ \A k \in it.owed \ it.seen : \E b \in Occupied(t) : at <= b /\ KeyAt(b) = k
  BY DEF Walk
<1>3. \A b \in Occupied(t) : at <= b => KeyAt(b) \notin it.seen
  <2>1. Good
    BY SoundKinds DEF Walk, Good
  <2> QED BY <2>1 DEF Walk
<1>4. at + 1 \in Nat /\ at + 1 <= End(t)
  BY <1>2
<1>5. /\ End(t') = End(t) /\ Occupied(t') \subseteq Occupied(t)
      /\ \A b \in Occupied(t') : t'.table[b].key = KeyAt(b)
      /\ \A b \in Occupied(t) : KeyAt(b) \notin keys => b \in Occupied(t')
  BY DEF Less, KeyAt
<1>6. End(t') \in Nat /\ Occupied(t') \subseteq Buckets(End(t'))
  BY <1>2, <1>5
<1>7. /\ next \in Nat /\ at + 1 <= next /\ next <= End(t')
      /\ \A d \in Occupied(t') : d \in Nat /\ d < End(t') /\ (at + 1 <= d => next <= d)
  <2> DEFINE n1 == at + 1
  <2>1. n1 \in Nat /\ n1 <= End(t') /\ next = NextOccupied(t', n1)
    BY <1>4, <1>5
  <2> HIDE DEF n1, next
  <2>2. /\ next \in Nat /\ n1 <= next /\ next <= End(t')
        /\ \A d \in Occupied(t') : d \in Nat /\ d < End(t') /\ (n1 <= d => next <= d)
    BY <1>6, <2>1, NextRight
  <2> QED BY <2>2 DEF n1
<1> HIDE DEF next
<1>8. \A b \in Occupied(t) : b # at => KeyAt(b) # K
  <2>1. Occupied(t) = Live(t.table) /\ Distinct(t.table)
    BY SoundKinds DEF Layout
  <2>2. DOMAIN t.table = Buckets(End(t)) /\ at \in Buckets(End(t))
    BY <1>2, SoundKinds DEF End, Buckets
  <2> HIDE DEF at
  <2>3. CASE at \in Live(t.table)
    BY <2>1, <2>3 DEF Distinct, KeyAt
  <2>4. CASE at \notin Live(t.table)
    BY <2>1, <2>2, <2>4 DEF Live, KeyAt
  <2> QED BY <2>3, <2>4
<1>9. \A k \in (it.owed \ keys) \ (it.seen \cup {K}) :
        \E b \in Occupied(t') : next <= b /\ t'.table[b].key = k
  <2> TAKE k \in (it.owed \ keys) \ (it.seen \cup {K})
  <2>1. PICK b \in Occupied(t) : at <= b /\ KeyAt(b) = k
    BY <1>2
  <2>2. b \in Occupied(t') /\ b # at
    BY <1>5, <2>1
  <2>3. b \in Nat /\ at + 1 <= b
    BY <1>2, <1>7, <2>1, <2>2
  <2>4. next <= b
    BY <1>7, <2>2, <2>3
  <2> QED BY <1>5, <2>1, <2>2, <2>4
<1>10. \A b \in Occupied(t') : next <= b => t'.table[b].key \notin it.seen \cup {K}
  <2> SUFFICES ASSUME NEW b \in Occupied(t'), next <= b
               PROVE  t'.table[b].key \notin it.seen \cup {K}
    OBVIOUS
  <2>1. b \in Nat /\ at <= b /\ b # at /\ b \in Occupied(t)
    BY <1>2, <1>5, <1>7
  <2> QED BY <1>3, <1>5, <1>8, <2>1
<1>11. it' \in [at : Nat, owed : {it'.owed}, seen : {it'.seen}, on : BOOLEAN]
  BY <1>7 DEF next
<1> QED BY <1>1, <1>5, <1>6, <1>7, <1>9, <1>10, <1>11 DEF Walk, KeyAt

(* A walk that has not begun, or has been given up. *)
LEMMA IdleWalk ==
  ASSUME it' = NoWalk
  PROVE  Walk'
BY DEF Walk, NoWalk

(* The empty key stays set. *)
LEMMA ErasedKept ==
  ASSUME NEW s, Sound(s)
  PROVE  /\ \A b \in Live(s.table) : ErasedAt(s, b).use_empty
         /\ \A k \in Key : Erased(s, k).use_empty
<1>1. s.use_empty /\ Fail(s).use_empty
  BY FailFields DEF Kept, Sound
<1>2. ASSUME NEW b \in Live(s.table) PROVE ErasedAt(s, b).use_empty
  <2>1. CASE s.delkey = NoKey
    BY <1>1, <2>1 DEF ErasedAt
  <2>2. CASE s.delkey # NoKey
    BY <1>1, <2>2, ErasedAtRight DEF Kept
  <2> QED BY <2>1, <2>2
<1>3. ASSUME NEW k \in Key PROVE Erased(s, k).use_empty
  BY <1>1, <1>2, ErasedRight
<1> QED BY <1>2, <1>3

(* erase of a key during a walk *)
LEMMA EraseWalk ==
  ASSUME IInv, NEW k \in Key, Erase(k)
  PROVE  Walk'
<1> DEFINE u == Erased(t, k)
<1>1. Good /\ t' = u /\ torn' = torn /\ it' = [it EXCEPT !.owed = @ \ {k}]
  BY DEF Erase
<1>2. it \in [at : Nat, owed : {it.owed}, seen : {it.seen}, on : BOOLEAN]
  BY DEF IInv, Walk
<1>3. /\ it' \in [at : Nat, owed : {it'.owed}, seen : {it'.seen}, on : BOOLEAN]
      /\ it'.at = it.at /\ it'.owed = it.owed \ {k} /\ it'.seen = it.seen /\ it'.on = it.on
  BY <1>1, <1>2
<1>4. CASE ~it.on
  BY <1>3, <1>4 DEF Walk
<1>5. CASE it.on
  <2>1. Sound(t) /\ ~torn /\ t.use_empty
    BY <1>1, <1>5, AtCall DEF IInv, Walk
  <2>2. Less(u, t, {k})
    BY <2>1, ErasedLess
  <2> HIDE DEF u
  <2>3. /\ End(t') = End(t) /\ Occupied(t') \subseteq Occupied(t)
        /\ \A b \in Occupied(t') : t'.table[b].key = KeyAt(b)
        /\ \A b \in Occupied(t) : KeyAt(b) # k => b \in Occupied(t')
    BY <1>1, <2>2 DEF Less, KeyAt
  <2>4. /\ End(t) \in Nat /\ it.at <= End(t) /\ Occupied(t) \subseteq Buckets(End(t))
        /\ \A j \in it.owed \ it.seen : \E b \in Occupied(t) : it.at <= b /\ KeyAt(b) = j
        /\ \A b \in Occupied(t) : it.at <= b => KeyAt(b) \notin it.seen
    BY <1>1, <1>5 DEF IInv, Walk
  <2>5. \A j \in it'.owed \ it'.seen : \E b \in Occupied(t') : it'.at <= b /\ t'.table[b].key = j
    BY <1>3, <2>3, <2>4
  <2>6. \A b \in Occupied(t') : it'.at <= b => t'.table[b].key \notin it'.seen
    BY <1>3, <2>3, <2>4
  <2>7. t'.use_empty
    BY <1>1, <2>1, ErasedKept DEF u
  <2> QED BY <1>1, <1>3, <2>1, <2>3, <2>4, <2>5, <2>6, <2>7 DEF Walk, KeyAt
<1> QED BY <1>4, <1>5

(* begin *)
LEMMA BeginWalk ==
  ASSUME IInv, Begin
  PROVE  Walk'
<1>1. Good /\ ~it.on /\ torn' = torn
  BY DEF Begin
<1>2. it \in [at : Nat, owed : {it.owed}, seen : {it.seen}, on : BOOLEAN]
  BY DEF IInv, Walk
<1>3. CASE ~t.use_empty
  <2>1. it' = it
    BY <1>3 DEF Begin
  <2> QED BY <1>1, <1>2, <2>1 DEF Walk
<1>4. CASE t.use_empty
  <2> DEFINE next == NextOccupied(t, 0)
             owed == Keys(t)
  <2>1. t' = t /\ it' = [at |-> next, owed |-> owed, seen |-> {}, on |-> TRUE]
    BY <1>4 DEF Begin
  <2>2. Sound(t) /\ ~torn /\ ~torn'
    BY <1>1, <1>4, AtCall DEF IInv
  <2>3. End(t) \in Nat /\ Occupied(t) \subseteq Buckets(End(t))
    BY <2>2, SoundKinds DEF End, Live
  <2>4. 0 \in Nat /\ 0 <= End(t)
    BY <2>3
  <2>5. /\ next \in Nat /\ 0 <= next /\ next <= End(t)
        /\ \A d \in Occupied(t) : d \in Nat /\ d < End(t) /\ (0 <= d => next <= d)
    BY <2>3, <2>4, NextRight
  <2>6. \A k \in owed : \E b \in Occupied(t) : next <= b /\ t.table[b].key = k
    BY <2>5 DEF Keys
  <2> HIDE DEF next, owed
  <2>7. /\ it' \in [at : Nat, owed : {it'.owed}, seen : {it'.seen}, on : BOOLEAN]
        /\ it'.at = next /\ it'.owed = owed /\ it'.seen = {} /\ it'.on = TRUE
    BY <2>1, <2>5
  <2> QED BY <1>4, <2>1, <2>2, <2>3, <2>5, <2>6, <2>7 DEF Walk, KeyAt
<1> QED BY <1>3, <1>4

(* operator++ *)
LEMMA AdvanceWalk ==
  ASSUME IInv, Advance
  PROVE  Walk'
<1>1. Good /\ it.on /\ it.at # End(t) /\ it' = Advanced(t) /\ t' = t /\ torn' = torn
  BY DEF Advance
<1>2. Walk /\ Sound(t) /\ ~torn /\ t.use_empty /\ Fields(t)
  BY <1>1, AtCall DEF IInv, Walk
<1> DEFINE keys == {}
           K == KeyAt(it.at)
<1>3. Less(t', t, keys)
  BY <1>1, <1>2, FailLess
<1>4. it \in [at : Nat, owed : {it.owed}, seen : {it.seen}, on : BOOLEAN]
  BY <1>2 DEF Walk
<1>5. it' \in [at : {NextOccupied(t', it.at + 1)}, owed : {it.owed \ keys},
               seen : {it.seen \cup {K}}, on : {TRUE}]
  BY <1>1, <1>4 DEF Advanced
<1>6. keys \subseteq {K}
  OBVIOUS
<1> HIDE DEF keys
<1> QED BY <1>1, <1>2, <1>3, <1>5, <1>6, WalkOn

(* erase of what the iterator points to *)
LEMMA EraseHereWalk ==
  ASSUME IInv, EraseHere
  PROVE  Walk'
<1> DEFINE K == KeyAt(it.at)
           keys == {K}
<1>1. /\ Good /\ it.on /\ it.at \in Occupied(t) /\ t' = ErasedAt(t, it.at) /\ torn' = torn
      /\ it' = [Advanced(t') EXCEPT !.owed = @ \ keys]
  BY DEF EraseHere
<1>2. Walk /\ Sound(t) /\ ~torn /\ t.use_empty
  BY <1>1, AtCall DEF IInv, Walk
<1>3. it.at \in Live(t.table) /\ it.at # End(t)
  <2>1. it.at \in Live(t.table) /\ DOMAIN t.table = Buckets(t.num_buckets) /\ t.num_buckets \in Nat
    BY <1>1, <1>2, SoundKinds
  <2>2. it.at \in Buckets(t.num_buckets)
    BY <2>1 DEF Live
  <2> QED BY <2>1, <2>2 DEF End, Buckets
<1>4. Less(t', t, keys)
  BY <1>1, <1>2, <1>3, ErasedAtLess DEF KeyAt
<1>5. t'.use_empty
  BY <1>1, <1>2, <1>3, ErasedKept
<1>6. it \in [at : Nat, owed : {it.owed}, seen : {it.seen}, on : BOOLEAN]
  BY <1>2 DEF Walk
<1>7. it' \in [at : {NextOccupied(t', it.at + 1)}, owed : {it.owed \ keys},
               seen : {it.seen \cup {K}}, on : {TRUE}]
  BY <1>1, <1>6 DEF Advanced
<1>8. keys \subseteq {K}
  OBVIOUS
<1> HIDE DEF keys
<1> QED BY <1>1, <1>2, <1>3, <1>4, <1>5, <1>7, <1>8, WalkOn

-----------------------------------------------------------------------------
(* The beginning. *)
LEMMA ConstructedRight ==
  ASSUME NEW max \in Room, NEW u, u = Constructed(max), u.num_buckets # 0
  PROVE  Unused(u) /\ u.delkey = NoKey
<1> DEFINE R(n, del, no, yes) ==
             [table |-> Nothing, num_buckets |-> n, num_elements |-> 0, num_deleted |-> 0,
              use_empty |-> no, delkey |-> del, consider_shrink |-> no,
              grow |-> 50, shrink |-> 20, ok |-> yes]
           s == R(0, NoKey, FALSE, TRUE)
           m == R(StartBuckets, NoKey, FALSE, TRUE)
           n == IF max = 0 THEN StartBuckets ELSE MinBucketsFor(s, max, 0)
           o == R(n, NoKey, FALSE, TRUE)
<1>1. u = o
  BY DEF Constructed
<1>2. StartBuckets \in Sizes /\ max \in Nat
  BY NamedSizes, PercentsAssumption
<1>3. \E e \in Sizes : e * 50 >= 100
  <2> DEFINE p == <<20, 50>>
  <2>1. p \in Percents \cup {<<20, 50>>} /\ p[2] = 50
    OBVIOUS
  <2> HIDE DEF p
  <2>2. \E e \in Sizes : e * p[2] >= 100
    BY <2>1, PercentsAssumption
  <2> QED BY <2>1, <2>2
<1>4. Fields(m) /\ m.grow = 50
  BY <1>2 DEF Fields
<1>5. MinBucketsFor(s, max, 0) = MinBucketsFor(m, max, 0)
  BY DEF MinBucketsFor, EnlargeSize
<1> HIDE DEF m, s
<1>6. n # 0 => n \in Sizes
  <2> DEFINE w == MinBucketsFor(m, max, 0)
  <2>1. 0 \in Nat
    OBVIOUS
  <2>2. w # 0 => w \in Sizes
    BY <1>2, <1>4, <2>1, MinBucketsRight
  <2> HIDE DEF w
  <2> QED BY <1>2, <1>5, <2>2 DEF w
<1> HIDE DEF n
<1>7. n \in Sizes
  BY <1>1, <1>6
<1>8. Fields(o)
  BY <1>7 DEF Fields
<1>9. Thresholds(o)
  BY <1>3 DEF Thresholds
<1> QED BY <1>1, <1>8, <1>9 DEF Unused

LEMMA InitRight ==
  ASSUME Init
  PROVE  IInv /\ Map!Init
<1>1. PICK max \in Room : t = Constructed(max)
  BY DEF Init
<1>2. t.num_buckets # 0 /\ torn = FALSE /\ it = NoWalk
  BY DEF Init
<1>3. Unused(t) /\ t.delkey = NoKey
  BY <1>1, <1>2, ConstructedRight
<1>4. Proper(t) /\ t.ok /\ t.use_empty = FALSE /\ Contents(t.table) = {}
  BY <1>3, NothingInNothing DEF Proper, Unused, Fields
<1>5. Entries(t) = [k \in {} |-> k]
  BY <1>4, EntriesOf, MapOfNone
<1>6. TableInv
  BY <1>2, <1>4 DEF TableInv, Good
<1>7. Walk
  BY <1>2 DEF Walk, NoWalk
<1>8. Map!Init
  BY <1>2, <1>3, <1>4, <1>5 DEF Map!Init, Map!NoEntries
<1> QED BY <1>6, <1>7, <1>8 DEF IInv

(* The percentages leave room in a table: with 100 it may be filled, and a  *)
(* search for what is not there finds no end.                               *)
Roomy == \A p \in Percents : p[2] < 100

(* Each step keeps the invariant, and is one of the map, or none.           *)
LEMMA StepsRight ==
  ASSUME Roomy, IInv, [Next]_vars
  PROVE  IInv' /\ (Map!Next \/ UNCHANGED Map!vars)
<1> TableInv
  BY DEF IInv
<1>1. ASSUME StepRight, Walk' PROVE IInv' /\ (Map!Next \/ UNCHANGED Map!vars)
  BY <1>1 DEF StepRight, IInv
<1>2. CASE UNCHANGED vars
  BY <1>2 DEF vars, IInv, TableInv, Walk, Good, KeyAt, Map!vars
<1>3. ASSUME NEW k \in Key, NEW v \in Value, Insert(k, v) PROVE StepRight /\ Walk'
  BY <1>3, InsertStep, IdleWalk DEF Insert, ToIdle
<1>4. ASSUME NEW k \in Key, NEW v \in Value, Assign(k, v) PROVE StepRight /\ Walk'
  BY <1>4, AssignStep, IdleWalk DEF Assign, ToIdle
<1>5. ASSUME NEW k \in Key, NEW l \in Key, NEW v \in Value, InsertRange(k, l, v)
      PROVE  StepRight /\ Walk'
  BY <1>5, InsertRangeStep, IdleWalk DEF InsertRange, ToIdle
<1>6. ASSUME NEW k \in Key, Erase(k) PROVE StepRight /\ Walk'
  BY <1>6, EraseStep, EraseWalk
<1>7. ASSUME NEW from, NEW to, EraseRange(from, to) PROVE StepRight /\ Walk'
  BY <1>7, EraseRangeStep, IdleWalk DEF EraseRange, ToIdle
<1>8. ASSUME Clear PROVE StepRight /\ Walk'
  BY <1>8, ClearStep, IdleWalk DEF Clear
<1>9. ASSUME ClearNoResize PROVE StepRight /\ Walk'
  BY <1>9, ClearNoResizeStep, IdleWalk DEF ClearNoResize, ToIdle
<1>10. ASSUME Copy PROVE StepRight /\ Walk'
  BY <1>10, CopyStep, IdleWalk DEF Copy, ToIdle
<1>11. ASSUME SetEmptyKey PROVE StepRight /\ Walk'
  BY <1>11, SetEmptyKeyStep, IdleWalk DEF SetEmptyKey, ToIdle
<1>12. ASSUME SaveAndLoad PROVE StepRight /\ Walk'
  BY <1>12, SaveAndLoadStep, IdleWalk DEF SaveAndLoad
<1>13. ASSUME NEW n \in Room, Resize(n) PROVE StepRight /\ Walk'
  BY <1>13, ResizeStep, IdleWalk DEF Resize, ToIdle
<1>14. ASSUME NEW mark \in Mark \cup {NoKey}, SetDeletedKey(mark) PROVE StepRight /\ Walk'
  BY <1>14, SetDeletedKeyStep, IdleWalk DEF SetDeletedKey, ToIdle
<1>15. ASSUME NEW p \in Percents, SetResizing(p) PROVE StepRight /\ Walk'
  <2>1. p[2] < 100
    BY DEF Roomy
  <2> QED BY <1>15, <2>1, SetResizingStep, IdleWalk DEF SetResizing, ToIdle
<1>16. ASSUME Begin PROVE StepRight /\ Walk'
  BY <1>16, BeginStep, BeginWalk
<1>17. ASSUME Advance PROVE StepRight /\ Walk'
  BY <1>17, AdvanceStep, AdvanceWalk
<1>18. ASSUME EraseHere PROVE StepRight /\ Walk'
  BY <1>18, EraseHereStep, EraseHereWalk
<1> QED
  BY <1>1, <1>2, <1>3, <1>4, <1>5, <1>6, <1>7, <1>8, <1>9, <1>10, <1>11, <1>12, <1>13, <1>14,
     <1>15, <1>16, <1>17, <1>18 DEF Next

-----------------------------------------------------------------------------
(* What holds of the map, for any keys and values, any hasher, any sizes    *)
(* and any percentages below 100.                                           *)

(* The inductive invariant. *)
THEOREM Invariant ==
  ASSUME Roomy
  PROVE  Spec => []IInv
<1>1. Init => IInv
  BY InitRight
<1>2. IInv /\ [Next]_vars => IInv'
  BY StepsRight
<1> QED BY <1>1, <1>2, PTL DEF Spec

(* Whatever has been called, the map does what a map does: every call makes *)
(* of the entries what it should, and an assertion fails only where the     *)
(* caller breaks a rule.                                                    *)
THEOREM Refinement ==
  ASSUME Roomy
  PROVE  Spec => ActsAsMap
<1>1. Init => Map!Init
  BY InitRight
<1>2. IInv /\ [Next]_vars => [Map!Next]_(Map!vars)
  BY StepsRight
<1>3. Spec => []IInv
  BY Invariant
<1> QED BY <1>1, <1>2, <1>3, PTL DEF Spec, ActsAsMap, Map!Spec

(* The counts are those of the buckets in use and of the deleted ones.      *)
LEMMA TypeFollows ==
  ASSUME IInv
  PROVE  TypeOK
<1>1. torn \in BOOLEAN
  BY DEF IInv, TableInv
<1> SUFFICES ASSUME t.ok, ~torn
             PROVE  /\ DOMAIN t.table = IF t.use_empty THEN Buckets(t.num_buckets) ELSE {}
                    /\ \A b \in DOMAIN t.table : t.table[b] \in BucketOf(t.delkey)
                    /\ t.num_elements = Cardinality(Used(t.table))
                    /\ t.num_deleted = Cardinality(Gone(t.table, t.delkey))
  BY <1>1 DEF TypeOK, BucketOf, Used, Gone
<1>2. Good
  BY DEF Good
<1>3. CASE t.use_empty
  <2>1. Sound(t)
    BY <1>2, <1>3, AtCall DEF IInv
  <2>2. t.table \in [Buckets(t.num_buckets) -> BucketOf(t.delkey)]
    BY <2>1 DEF Sound, Layout
  <2> QED BY <1>3, <2>1, <2>2 DEF Sound, Counted
<1>4. CASE ~t.use_empty
  <2>1. t.table = Nothing /\ t.num_elements = 0 /\ t.num_deleted = 0
    BY <1>2, <1>4, AtCall DEF IInv, Unused
  <2>2. DOMAIN t.table = {} /\ Used(t.table) = {} /\ Gone(t.table, t.delkey) = {}
    BY <2>1, NothingInNothing DEF Used, Gone
  <2> QED BY <1>4, <2>1, <2>2, FS_EmptySet
<1> QED BY <1>3, <1>4

(* A search finds the one bucket of an entry, and ends if there is none.    *)
LEMMA LookupFollows ==
  ASSUME IInv
  PROVE  LookupRight
<1> SUFFICES ASSUME Good, t.use_empty, NEW k \in Key
             PROVE  ~Full(t, k) /\ {b \in Occupied(t) : KeyAt(b) = k} = {Find(t, k)} \ {End(t)}
  BY DEF LookupRight
<1>1. Sound(t)
  BY AtCall DEF IInv
<1>2. /\ Occupied(t) = Live(t.table) /\ Distinct(t.table)
      /\ Live(t.table) \in SUBSET Buckets(t.num_buckets) /\ t.num_buckets \in Nat
  BY <1>1, SoundKinds, BucketKinds DEF Layout
<1>3. ~Full(t, k)
  BY <1>1, SearchRight
<1>4. /\ Found(t, k) <=> k \in KeysOf(Contents(t.table))
      /\ Found(t, k) => Find(t, k) \in Live(t.table) /\ t.table[Find(t, k)].key = k
      /\ ~Found(t, k) => Find(t, k) = End(t)
  BY <1>1, FindRight
<1>5. CASE Found(t, k)
  <2>1. Find(t, k) # End(t)
    BY <1>2, <1>4, <1>5 DEF End, Buckets
  <2> QED BY <1>2, <1>3, <1>4, <1>5, <2>1 DEF Distinct, KeyAt
<1>6. CASE ~Found(t, k)
  BY <1>2, <1>3, <1>4, <1>6 DEF KeysOf, Contents, At, KeyAt
<1> QED BY <1>5, <1>6

(* A copy of any size is equal to the table. *)
LEMMA EqualFollows ==
  ASSUME IInv
  PROVE  EqualInAnyLayout
<1> SUFFICES ASSUME Good, t.use_empty, ~CopyThrows(t), NEW n \in Sizes
             PROVE  Equal(t, CopyOf(t, n)) /\ Equal(CopyOf(t, n), t)
  BY DEF EqualInAnyLayout
<1>1. Sound(t) /\ Proper(t)
  BY AtCall DEF IInv
<1> DEFINE u == CopyOf(t, n)
<1>2. Rebuilt(u, t)
  BY <1>1, CopiesRight
<1> HIDE DEF u
<1>3. Sound(u) /\ Contents(u.table) = Contents(t.table)
  BY <1>1, <1>2, RebuiltSound DEF Rebuilt
<1>4. Equal(t, u) /\ Equal(u, t)
  BY <1>1, <1>3, SameEntriesEqual
<1> QED BY <1>4 DEF u

(* At the end all that is owed has been seen, and before, what the iterator *)
(* is at has not.                                                           *)
LEMMA WalkFollows ==
  ASSUME IInv
  PROVE  WalkComplete
<1>1. ASSUME it.on, it.at = End(t) PROVE it.owed \subseteq it.seen
  <2>1. /\ End(t) \in Nat /\ Occupied(t) \subseteq Buckets(End(t))
        /\ \A k \in it.owed \ it.seen : \E b \in Occupied(t) : it.at <= b /\ KeyAt(b) = k
    BY <1>1 DEF IInv, Walk
  <2>2. \A b \in Occupied(t) : ~(it.at <= b)
    BY <1>1, <2>1 DEF Buckets
  <2> QED BY <2>1, <2>2
<1>2. ASSUME Good, it.on, it.at \in Occupied(t) PROVE KeyAt(it.at) \notin it.seen
  BY <1>2 DEF IInv, Walk
<1> QED BY <1>1, <1>2 DEF WalkComplete

(* What each call makes of the entries. *)
LEMMA CallsFollow ==
  ASSUME IInv
  PROVE  CallsRight
<1> SUFFICES ASSUME Good, t.use_empty
             PROVE  /\ Fits(1) => \A k \in Key, v \in Value :
                         /\ Entries(Inserted(t, k, v)) = Map!WithNew(Entries(t), k, v)
                         /\ Entries(AssignedTo(t, k, v)) = Map!With(Entries(t), k, v)
                    /\ t.delkey # NoKey => \A k \in Key :
                         Entries(Erased(t, k)) = Map!Without(Entries(t), {k})
                    /\ Entries(MaybeShrunk(t)) = Entries(t)
                    /\ ~CopyThrows(t) =>
                         \A u \in {Squashed(t), Assigned(t)} : Entries(u) = Entries(t)
  BY DEF CallsRight
<1> DEFINE C == Contents(t.table)
<1>1. Sound(t) /\ Proper(t)
  BY AtCall DEF IInv
<1>2. OneEach(C) /\ Entries(t) = MapOf(C)
  BY <1>1, ProperOneEach, EntriesOf
<1>3. \A u : Sound(u) => Entries(u) = MapOf(Contents(u.table))
  BY EntriesOf DEF Proper
<1>4. \A u : Rebuilt(u, t) => Entries(u) = Entries(t)
  BY <1>2, EntriesOf DEF Rebuilt
<1>5. ASSUME Fits(1), NEW k \in Key, NEW v \in Value
      PROVE  Entries(Inserted(t, k, v)) = Map!WithNew(Entries(t), k, v)
  <2> DEFINE u == Inserted(t, k, v)
  <2>1. Sound(u) /\ Contents(u.table) = Plus(C, k, v)
    BY <1>1, <1>5, InsertedRight DEF Fits
  <2> HIDE DEF u, C
  <2>2. Entries(u) = MapOf(Plus(C, k, v))
    BY <1>3, <2>1
  <2>3. MapOf(Plus(C, k, v)) = Map!WithNew(MapOf(C), k, v)
    BY <1>2, MapOfPlus
  <2>4. Entries(u) = Map!WithNew(Entries(t), k, v)
    BY <1>2, <2>2, <2>3
  <2> QED BY <2>4 DEF u
<1>6. ASSUME Fits(1), NEW k \in Key, NEW v \in Value
      PROVE  Entries(AssignedTo(t, k, v)) = Map!With(Entries(t), k, v)
  <2> DEFINE u == AssignedTo(t, k, v)
             D == Minus(C, {k}) \cup {Bucket(k, v)}
  <2>1. Sound(u) /\ Contents(u.table) = D
    BY <1>1, <1>6, AssignedToRight DEF Fits
  <2> HIDE DEF u, C
  <2>2. MapOf(D) = Map!With(MapOf(C), k, v)
    BY <1>2, MapOfWith
  <2> HIDE DEF D
  <2>3. Entries(u) = MapOf(D)
    BY <1>3, <2>1
  <2>4. Entries(u) = Map!With(Entries(t), k, v)
    BY <1>2, <2>2, <2>3
  <2> QED BY <2>4 DEF u
<1>7. ASSUME t.delkey # NoKey, NEW k \in Key
      PROVE  Entries(Erased(t, k)) = Map!Without(Entries(t), {k})
  <2> DEFINE u == Erased(t, k)
             D == Minus(C, {k})
  <2>1. /\ k \notin KeysOf(C) => u = t
        /\ k \in KeysOf(C) => \E b \in Live(t.table) : t.table[b].key = k /\ u = ErasedAt(t, b)
    BY <1>1, <1>7, ErasedRight
  <2> HIDE DEF u
  <2>2. Sound(u) /\ Contents(u.table) = D
    <3>1. CASE k \notin KeysOf(C)
      <4>1. D = C
        BY <3>1 DEF Minus, KeysOf
      <4> QED BY <1>1, <2>1, <3>1, <4>1
    <3>2. CASE k \in KeysOf(C)
      <4>1. PICK b \in Live(t.table) : t.table[b].key = k /\ u = ErasedAt(t, b)
        BY <2>1, <3>2
      <4> QED BY <1>1, <1>7, <4>1, ErasedAtRight
    <3> QED BY <3>1, <3>2
  <2> HIDE DEF C
  <2>3. MapOf(D) = Map!Without(MapOf(C), {k})
    BY <1>2, MapOfMinus
  <2> HIDE DEF D
  <2>4. Entries(u) = MapOf(D)
    BY <1>3, <2>2
  <2>5. Entries(u) = Map!Without(Entries(t), {k})
    BY <1>2, <2>3, <2>4
  <2> QED BY <2>5 DEF u
<1>8. Entries(MaybeShrunk(t)) = Entries(t)
  BY <1>1, <1>4, MaybeShrunkRight
<1>9. ASSUME ~CopyThrows(t) PROVE Entries(Squashed(t)) = Entries(t) /\ Entries(Assigned(t)) = Entries(t)
  BY <1>1, <1>4, <1>9, SquashedRight, CopiesRight
<1> QED BY <1>5, <1>6, <1>7, <1>8, <1>9

(* The counts of a table are those of its buckets. *)
THEOREM TypeCorrect ==
  ASSUME Roomy
  PROVE  Spec => []TypeOK
BY Invariant, TypeFollows, PTL

(* Whatever has been inserted, erased and moved before, a search ends, and  *)
(* it finds an entry if there is one for the key.                           *)
THEOREM LookupsRight ==
  ASSUME Roomy
  PROVE  Spec => []LookupRight
BY Invariant, LookupFollows, PTL

(* A table and its copies are equal, however its buckets came to be filled. *)
THEOREM EqualityRight ==
  ASSUME Roomy
  PROVE  Spec => []EqualInAnyLayout
BY Invariant, EqualFollows, PTL

(* A walk meets each entry that stays, and none twice, whatever is erased   *)
(* on the way.                                                              *)
THEOREM WalksComplete ==
  ASSUME Roomy
  PROVE  Spec => []WalkComplete
BY Invariant, WalkFollows, PTL

(* insert keeps, an assignment overwrites, erase takes out one, and what is *)
(* built anew is the same map, in every state that can be reached.          *)
THEOREM CallsAreRight ==
  ASSUME Roomy
  PROVE  Spec => []CallsRight
BY Invariant, CallsFollow, PTL
=============================================================================
