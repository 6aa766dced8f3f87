----------------------------- MODULE JsonValue -----------------------------
(***************************************************************************)
(* JSON::value of value.cpp: trees of values that own what they hold, by   *)
(* raw pointers.  A caller keeps some values of its own and works on them, *)
(* and on any value below them, through references; copies are deep, and a *)
(* value that gets new contents deletes the old ones with everything below *)
(* them.                                                                   *)
(*                                                                         *)
(* A node is the address of a value.  What a scalar holds, with its        *)
(* datatype, is one of Scalar; the names and elements of a container map   *)
(* to the nodes they point to.  A call that returns false, or a reference  *)
(* to nullval, without changing anything is a stutter.  operator== takes   *)
(* several steps, since it makes values of both its operands on the way;   *)
(* the caller does nothing else meanwhile.                                 *)
(***************************************************************************)
EXTENDS Naturals, Sequences, SequencesExt, FiniteSets, Functions, TLC

CONSTANTS
  Node,      \* bound: the addresses values can be at
  Held,      \* the values the caller has constructed; nullval is not one
  NullVal,   \* value::nullval
  Name,      \* names of members
  Scalar,    \* strings, numbers and literals
  NullLiteral, \* literals::_null
  Close,     \* the scalars that are equal for operator==: for floats, no more
             \* than epsilon apart
  MaxIndex,  \* bound: the largest index the caller uses
  Compared   \* bound: the values the caller compares with each other

Static == Held \cup {NullVal}
Containers == {"array", "object"}
Contents == Scalar \cup Containers \cup {"undefined", "nullval", "free"}

ASSUME ValueAssumption ==
  /\ IsFiniteSet(Node)
  /\ Static \subseteq Node /\ NullVal \notin Held
  /\ Scalar \cap (Containers \cup {"undefined", "nullval", "free"}) = {}
  /\ Name \cap (Nat \ {0}) = {}
  /\ NullLiteral \in Scalar
  /\ Close \subseteq Scalar \X Scalar /\ <<NullLiteral, NullLiteral>> \in Close
  /\ \A pair \in Close : <<pair[2], pair[1]>> \in Close
  /\ MaxIndex \in Nat
  /\ Compared \subseteq Node \X Node

VARIABLES
  val,       \* val[n]: the datatype at n, or the scalar; "free" if no value is there
  kids,      \* kids[n]: the raw_array_t or raw_object_t of n, or nothing
  replaced,  \* observer: values whose owner was made to point elsewhere
  spoiled,   \* observer: a value was assigned to another, or nullval deleted
  aborted,   \* an assertion of dense_hash_map has ended the program
  comparison \* the operator== the caller is in: its operands, the calls of it
             \* that have not returned, each with the elements or members left to
             \* compare, the answer, and (observer) if a member was created

vars == <<val, kids, replaced, spoiled, aborted, comparison>>

Idle == [of |-> <<>>, calls |-> <<>>, answer |-> "none", grown |-> FALSE]

-----------------------------------------------------------------------------
Children(n) == {kids[n][k] : k \in DOMAIN kids[n]}

(* Everything a destructor reaches from n, without n: what n points to, and *)
(* the least set of values below it that have something in them.            *)
Below(n) ==
  LET Inner == {c \in UNION {Children(b) : b \in Node} : kids[c] # <<>>}
      Seen(D) == Children(n) \cup UNION {Children(d) : d \in D}
  IN Seen({m \in Inner : \A D \in SUBSET Inner : Seen(D) \cap Inner \subseteq D => m \in D})
Tree(n) == {n} \cup Below(n)

Live(n) == val[n] # "free"
Fresh == {n \in Node : ~Live(n)}

(* Mutant: the setters do not look for nullval.                             *)
CanSetBlind(n) == Live(n)

(* The setters give up on nullval. *)
CanSet(n) == Live(n) /\ val[n] # "nullval"

(* The caller goes on as long as the program does.  It is not followed      *)
(* beyond an operator=, since with two values on one pointer the first      *)
(* deletion leaves the other dangling, nor beyond the deletion of nullval.  *)
Running == ~spoiled /\ ~aborted /\ comparison = Idle

(* Mutant: only the pointers are copied.                                    *)
CopiedShallow(f, src, n) ==
  [k \in DOMAIN kids[src] |-> kids[src][k]]

(* What the copy of n points to: the copies of what n points to; f maps the *)
(* nodes of the source to the ones of the copy.                             *)
Copied(f, src, n) ==
  LET original == AntiFunction(f)[n]
  IN  [k \in DOMAIN kids[original] |-> f[kids[original][k]]]

(* Mutant: clear forgets the values below the first ones.                   *)
DeletedShallow(n) == Children(n)

(* clear and deletevalue: the values that are deleted.                      *)
Deleted(n) == Below(n)

-----------------------------------------------------------------------------
Init ==
  /\ val = [n \in Node |-> IF n = NullVal THEN "nullval"
                           ELSE IF n \in Held THEN "undefined" ELSE "free"]
  /\ kids = [n \in Node |-> <<>>]
  /\ replaced = {}
  /\ spoiled = FALSE
  /\ aborted = FALSE
  /\ comparison = Idle

(* deletevalue, then a new datatype with nothing in it. *)
Become(n, contents) ==
  /\ val' = [m \in Node |-> IF m = n THEN contents
                            ELSE IF m \in Deleted(n) THEN "free" ELSE val[m]]
  /\ kids' = [m \in Node |-> IF m \in {n} \cup Deleted(n) THEN <<>> ELSE kids[m]]
  /\ UNCHANGED <<replaced, aborted>>

(* setstring, setnumber, setliteral, and the operator= and constructors     *)
(* that call them.                                                          *)
SetScalar(n, s) == Running /\ CanSet(n) /\ Become(n, s) /\ UNCHANGED spoiled

(* setarray() and setobject(). *)
SetContainer(n, c) == Running /\ CanSet(n) /\ Become(n, c) /\ UNCHANGED spoiled

(* deletevalue, setdt(_undefined), and the destructor of a caller's value.  *)
(* deletevalue takes nullval, whose pointer is NULL, for one with nothing   *)
(* in it and makes it undefined.                                            *)
DeleteValue(n) ==
  /\ Running /\ Live(n)
  /\ Become(n, "undefined")
  /\ spoiled' = (n = NullVal)

(* What a container points to with one more entry, or another one.          *)
Entered(entries, key, m) ==
  [k \in {key} \cup DOMAIN entries |-> IF k = key THEN m ELSE entries[k]]

(* A value is entered under a key: by push_back, or by an assignment to the *)
(* map's entry, which forgets what the name pointed to.                     *)
Enter(n, key, m, others) ==
  /\ kids' = [others EXCEPT ![n] = Entered(others[n], key, m)]
  /\ replaced' = replaced \cup (IF key \in DOMAIN kids[n] THEN {kids[n][key]} ELSE {})
  /\ UNCHANGED <<spoiled, aborted>>

(* Mutant: the element after the next one.                                  *)
EntryKeysOneMore(n) == IF val[n] = "array" THEN {Len(kids[n]) + 2}
                       ELSE IF val[n] = "object" THEN Name ELSE {}

(* Where addvalue may enter a value: at the end, or under any name.         *)
EntryKeys(n) == IF val[n] = "array" THEN {Len(kids[n]) + 1}
                ELSE IF val[n] = "object" THEN Name ELSE {}

(* addvalue(const value &) and operator+=, and addvalue(name, const value&):*)
(* the value is copied with everything below it before it is entered.  An   *)
(* object is not added to itself: the two sides of that assignment are not  *)
(* ordered.                                                                 *)
AddCopy(n, src) ==
  /\ Running /\ val[n] \in Containers /\ CanSet(src)
  /\ val[n] = "object" => n \notin Tree(src)
  /\ \E key \in EntryKeys(n), f \in Injection(Tree(src), Fresh) :
       /\ val' = [m \in Node |-> IF m \in Range(f) THEN val[AntiFunction(f)[m]] ELSE val[m]]
       /\ Enter(n, key, f[src],
                [m \in Node |-> IF m \in Range(f) THEN Copied(f, src, m) ELSE kids[m]])

(* The addvalue that takes a pointer, with a new scalar, which is how the   *)
(* tests use it, and the others with a temporary.                           *)
AddNew(n, s) ==
  /\ Running
  /\ \E key \in EntryKeys(n), new \in Fresh :
       /\ val' = [val EXCEPT ![new] = s]
       /\ Enter(n, key, new, kids)

(* Mutant: the name is not looked for first.                                *)
MissingBlind(n, name) == name \in Name

Missing(n, name) == name \notin DOMAIN kids[n]

(* An undefined value under a new name.                                     *)
CreateChild(n, name) ==
  \E new \in Fresh :
    /\ val' = [val EXCEPT ![n] = "object", ![new] = "undefined"]
    /\ Enter(n, name, new, kids)

(* getchild and operator[](name) of a name that is not there.  The wchar_t  *)
(* form makes an object of an undefined value first.                        *)
GetChild(n, name, wide) ==
  /\ Running
  /\ val[n] = "object" \/ (wide /\ val[n] = "undefined")
  /\ Missing(n, name)
  /\ CreateChild(n, name)

(* operator[](index): the array is filled up with undefined values.  An     *)
(* undefined value becomes an array.                                        *)
Index(n, index) ==
  LET size == Len(kids[n])
  IN /\ Running
     /\ val[n] \in {"array", "undefined"} /\ index >= size
     /\ \E f \in Injection((size + 1) .. (index + 1), Fresh) :
          /\ val' = [m \in Node |-> IF m = n THEN "array"
                                    ELSE IF m \in Range(f) THEN "undefined" ELSE val[m]]
          /\ kids' = [kids EXCEPT ![n] = [i \in 1 .. (index + 1) |->
                                            IF i <= size THEN @[i] ELSE f[i]]]
     /\ UNCHANGED <<replaced, spoiled, aborted>>

(* deletechild: the child is deleted with everything below it, and taken    *)
(* out of the array.  In an object it is deleted, and then the assertion of *)
(* erase that a deleted key has been set fails.                             *)
DeleteChild(n, key) ==
  /\ Running /\ key \in DOMAIN kids[n]
  /\ LET gone == {kids[n][key]} \cup Deleted(kids[n][key])
     IN \/ /\ val[n] = "array"
           /\ val' = [m \in Node |-> IF m \in gone THEN "free" ELSE val[m]]
           /\ kids' = [m \in Node |-> IF m = n THEN RemoveAt(kids[n], key)
                                      ELSE IF m \in gone THEN <<>> ELSE kids[m]]
           /\ UNCHANGED aborted
        \/ /\ val[n] = "object"
           /\ aborted' = TRUE
           /\ UNCHANGED <<val, kids>>
  /\ UNCHANGED <<replaced, spoiled>>

(* clear() *)
Clear(n) ==
  Running /\ val[n] \in Containers /\ Become(n, val[n]) /\ UNCHANGED spoiled

(* clone and the copy constructor: the old contents are deleted, what is    *)
(* below the source is copied.  The clone of an undefined value changes     *)
(* nothing.  A value is cloned neither into itself, which empties it, nor   *)
(* into or from one below it.                                               *)
Clone(n, src) ==
  /\ Running /\ CanSet(n) /\ CanSet(src) /\ val[src] # "undefined"
  /\ n \notin Tree(src) /\ src \notin Below(n)
  /\ \E f \in Injection(Tree(src), Fresh \cup {n}) :
       /\ f[src] = n
       /\ val' = [m \in Node |-> IF m \in Range(f) THEN val[AntiFunction(f)[m]]
                                 ELSE IF m \in Deleted(n) THEN "free" ELSE val[m]]
       /\ kids' = [m \in Node |-> IF m \in Range(f) THEN Copied(f, src, m)
                                  ELSE IF m \in Deleted(n) THEN <<>> ELSE kids[m]]
  /\ UNCHANGED <<replaced, spoiled, aborted>>

(* value = value: the class declares no such operator, so the compiler's    *)
(* copies the datatype and the pointer, and does not look for nullval.      *)
Assign(n, src) ==
  /\ Running /\ Live(n) /\ Live(src) /\ n # src
  /\ val' = [val EXCEPT ![n] = val[src]]
  /\ kids' = [kids EXCEPT ![n] = kids[src]]
  /\ spoiled' = TRUE
  /\ UNCHANGED <<replaced, aborted>>

(* One call other than operator==.                                          *)
Call ==
  \E n \in Node :
    \/ \E s \in Scalar : SetScalar(n, s) \/ AddNew(n, s)
    \/ \E c \in Containers : SetContainer(n, c)
    \/ DeleteValue(n) \/ Clear(n)
    \/ \E name \in Name, wide \in BOOLEAN : GetChild(n, name, wide)
    \/ \E index \in 0 .. MaxIndex : Index(n, index)
    \/ \E key \in DOMAIN kids[n] : DeleteChild(n, key)
    \/ \E src \in Node : AddCopy(n, src) \/ Clone(n, src) \/ Assign(n, src)

-----------------------------------------------------------------------------
(* operator==. *)

(* An undefined operand is assigned null.                                   *)
Settled(n) == IF val[n] = "undefined" THEN NullLiteral ELSE val[n]

(* Mutant: the second may have more.                                        *)
NoLarger(a, b) == Cardinality(DOMAIN kids[a]) <= Cardinality(DOMAIN kids[b])

SameSize(a, b) == Cardinality(DOMAIN kids[a]) = Cardinality(DOMAIN kids[b])

(* Nothing but what is in them can still make them differ.                  *)
Alike(a, b) ==
  \/ <<Settled(a), Settled(b)>> \in Close
  \/ val[a] = val[b] /\ val[a] \in Containers \cup {"nullval"} /\ SameSize(a, b)

(* In the comparison so far, operator== is called on a with b: it returns   *)
(* false, which every call before it returns too, or turns to what is in    *)
(* them.                                                                    *)
Enters(sofar, a, b) ==
  /\ val' = [m \in Node |-> IF m \in {a, b} THEN Settled(m) ELSE val[m]]
  /\ comparison' =
       IF Alike(a, b)
       THEN [sofar EXCEPT !.calls = Append(@, [this |-> a, v |-> b, left |-> DOMAIN kids[a]])]
       ELSE [sofar EXCEPT !.calls = <<>>, !.answer = "different"]
  /\ UNCHANGED <<kids, replaced, spoiled, aborted>>

(* The caller compares two values, of which neither is below the other.     *)
Compare(n, m) ==
  /\ Running /\ Live(n) /\ Live(m)
  /\ <<n, m>> \in Compared
  /\ n = m \/ (n \notin Tree(m) /\ m \notin Tree(n))
  /\ Enters([Idle EXCEPT !.of = <<n, m>>], n, m)

(* The elements come in their order, members in that of the hash map.       *)
NextKeys(call) ==
  IF val[call.this] = "array"
  THEN {key \in call.left : \A other \in call.left : key <= other}
  ELSE call.left

(* The call on top goes on with an element, or with a member, which v[name] *)
(* creates in the other object if it is not there; the member found is the  *)
(* one whose operator== is called.  With nothing left the call returns true.*)
GoOn ==
  LET depth == Len(comparison.calls)
      call  == comparison.calls[depth]
      after(key) == [comparison EXCEPT !.calls[depth].left = @ \ {key}]
  IN /\ depth > 0
     /\ \/ \E key \in NextKeys(call) :
             \/ /\ val[call.this] = "array"
                /\ Enters(after(key), kids[call.this][key], kids[call.v][key])
             \/ /\ val[call.this] = "object" /\ key \in DOMAIN kids[call.v]
                /\ Enters(after(key), kids[call.v][key], kids[call.this][key])
             \/ /\ val[call.this] = "object" /\ Missing(call.v, key)
                /\ CreateChild(call.v, key)
                /\ comparison' = [comparison EXCEPT !.grown = TRUE]
        \/ /\ call.left = {}
           /\ comparison' = [comparison EXCEPT !.calls = Front(@),
                                               !.answer = IF depth = 1 THEN "equal" ELSE @]
           /\ UNCHANGED <<val, kids, replaced, spoiled, aborted>>

(* The caller has its answer.                                               *)
Answered ==
  /\ comparison.answer # "none"
  /\ comparison' = Idle
  /\ UNCHANGED <<val, kids, replaced, spoiled, aborted>>

Next ==
  \/ Call /\ UNCHANGED comparison
  \/ \E n, m \in Node : Compare(n, m)
  \/ GoOn
  \/ Answered

Spec == Init /\ [][Next]_vars

-----------------------------------------------------------------------------
TypeOK ==
  /\ val \in [Node -> Contents]
  /\ \A n \in Node :
       /\ DOMAIN kids[n] \subseteq Name \cup 1 .. Cardinality(Node)
       /\ Children(n) \subseteq Node
       /\ val[n] = "array" => DOMAIN kids[n] = 1 .. Cardinality(DOMAIN kids[n])
       /\ val[n] = "object" => DOMAIN kids[n] \subseteq Name
       /\ val[n] \notin Containers => kids[n] = <<>>
  /\ replaced \subseteq Node
  /\ spoiled \in BOOLEAN /\ aborted \in BOOLEAN
  /\ comparison \in [of : {<<>>} \cup (Node \X Node),
                     calls : Seq([this : Node, v : Node,
                                  left : SUBSET (Name \cup 1 .. Cardinality(Node))]),
                     answer : {"none", "equal", "different"}, grown : BOOLEAN]

(* Every destructor deletes what its value points to, so no value may be    *)
(* pointed to twice, none may point to one that is deleted, and none to a   *)
(* value of the caller's or to nullval - in whatever order values are       *)
(* copied into each other, overwritten and deleted.                         *)
SinglePointers ==
  \A m, n \in Node : \A j \in DOMAIN kids[m], k \in DOMAIN kids[n] :
    kids[m][j] = kids[n][k] => m = n /\ j = k
NothingDangles ==
  \A n \in Node : \A k \in DOMAIN kids[n] : Live(kids[n][k]) /\ kids[n][k] \notin Static
OwnedOnce == ~spoiled => SinglePointers /\ NothingDangles

(* Nothing leaks but what a second addvalue under a name forgets: any other *)
(* value is below one the caller holds.                                     *)
NothingLeaks ==
  ~spoiled => {n \in Node : Live(n)} \subseteq UNION {Tree(root) : root \in Static \cup replaced}

(* Whatever is done through a reference to nullval, short of assigning to   *)
(* it or deleting it, it stays what a failed search returns and holds       *)
(* nothing, so the next failed search can still be told from one that finds *)
(* something.                                                               *)
NullInert == ~spoiled => val[NullVal] = "nullval" /\ kids[NullVal] = <<>>

(* A step changes what one sees of a value: it, or something below it.      *)
Changes(r) ==
  \E n \in Node : (val'[n] # val[n] \/ kids'[n] # kids[n]) /\ n \in Tree(r)
(* What operator== may do to a value.                                       *)
Keeps(n) ==
  /\ val'[n] = val[n] \/ (val[n] = "undefined" /\ val'[n] = NullLiteral)
  /\ \/ kids'[n] = kids[n]
     \/ /\ val[n] = "object"
        /\ \A k \in DOMAIN kids[n] : k \in DOMAIN kids'[n] /\ kids'[n][k] = kids[n][k]

(* Copies are independent: a call changes the tree of one held value, and   *)
(* never what another one sees.  operator== may change the trees its        *)
(* operands are in, and nothing of them but that an undefined value becomes *)
(* null, and that an object gets a member it did not have.                  *)
CopiesIndependent ==
  [][IF comparison' = Idle
     THEN \E n \in Node : \A r \in Held : Changes(r) => r = n
     ELSE /\ \A n \in Node : Live(n) => Keeps(n)
          /\ \A r \in Held : Changes(r) => \E i \in {1, 2} : comparison'.of[i] \in Tree(r)]_vars

(* Two values are the same if their trees correspond, scalar to close       *)
(* scalar and each name or place to itself.                                 *)
Same(n, m) ==
  \E f \in Bijection(Tree(n), Tree(m)) :
    /\ f[n] = m
    /\ \A a \in Tree(n) :
         /\ IF val[a] \in Scalar THEN <<val[a], val[f[a]]>> \in Close ELSE val[a] = val[f[a]]
         /\ DOMAIN kids[a] = DOMAIN kids[f[a]]
         /\ \A k \in DOMAIN kids[a] : f[kids[a][k]] = kids[f[a]][k]

(* operator== tells whether its operands are the same, as they are when it  *)
(* returns: it goes through both of them, with the operands changing places *)
(* at every object, finds all that differs and nothing else - unless it     *)
(* created a member on the way.                                             *)
EqualDecides ==
  LET of == comparison.of
  IN  /\ comparison.answer = "equal" /\ ~comparison.grown => Same(of[1], of[2])
      /\ comparison.answer = "different" => ~Same(of[1], of[2])
=============================================================================
