------------------------------ MODULE JsonText ------------------------------
(***************************************************************************)
(* A text on its way to the parser: a value is printed, by getstring or by *)
(* the page's json.dump, and something may happen to the text, or somebody *)
(* has written it by hand; and it is read by the parser of bytes.          *)
(***************************************************************************)
EXTENDS JsonParser

CONSTANTS
  Docs,      \* bound: the values that are printed
  Dump(_, _), \* the text of a value: JsonTree's Printed
  Tails,     \* what an older, longer document may have left behind a text
  Comments,  \* comments, each with what ends it
  Strays,    \* symbols that may get into a text
  Written    \* bound: the texts that are written by hand

ASSUME SymbolsAssumption ==
  /\ \A d \in Docs, space \in {<<"ws">>, <<>>} : Dump(d, space) \in Seq(Symbol)
  /\ Tails \subseteq Seq(Symbol) /\ Comments \subseteq Seq(Symbol)
  /\ Strays \subseteq Symbol
  /\ Written \subseteq Seq(Symbol)

VARIABLES
  doc,    \* the value, if one was printed
  text,   \* its text
  edits,  \* observer: what has been done to the text, or that it was written
  read,   \* the text has been parsed
  result  \* what the parser made of it

vars == <<doc, text, edits, read, result>>

Init ==
  /\ \/ /\ doc \in Docs /\ edits = {}
        /\ text \in {Dump(doc, <<"ws">>), Dump(doc, <<>>)}
     \/ /\ doc = Undefined /\ edits = {"written"}
        /\ text \in Written
  /\ read = FALSE
  /\ result = Parse(<<>>)

(* A bracket is to come in a text, behind position n. *)
Open(t, n) == \E i \in (n + 1) .. Len(t) : t[i] \in {"]", "}"}

Edit(kind, t) ==
  /\ ~read
  /\ text' = t
  /\ edits' = edits \cup {kind}
  /\ UNCHANGED <<doc, read, result>>

(* The text is torn off before its last bracket. *)
Cut ==
  /\ edits \subseteq {"comment"} /\ (IsArray(doc) \/ IsObject(doc))
  /\ \E n \in 0 .. Len(text) : Open(text, n) /\ Edit("cut", SubSeq(text, 1, n))

LeaveTail ==
  /\ edits = {} /\ (IsArray(doc) \/ IsObject(doc))
  /\ \E tail \in Tails : Edit("tail", text \o tail)

(* White space of a printed value is always between two tokens; the comment *)
(* is put behind one before the last bracket.                               *)
Gaps(t) == {i \in DOMAIN t : t[i] = "ws" /\ Open(t, i)}
Commented(t, i, comment) == SubSeq(t, 1, i) \o comment \o SubSeq(t, i + 1, Len(t))
AddComment ==
  /\ edits = {}
  /\ \E i \in Gaps(text), comment \in Comments : Edit("comment", Commented(text, i, comment))

Stray ==
  /\ edits = {}
  /\ \E i \in DOMAIN text, c \in Strays : Edit("stray", [text EXCEPT ![i] = c])

(* parse(rv, s) *)
Read ==
  /\ ~read
  /\ read' = TRUE
  /\ result' = Parse(text)
  /\ UNCHANGED <<doc, text, edits>>

Next == Cut \/ LeaveTail \/ AddComment \/ Stray \/ Read
Spec == Init /\ [][Next]_vars

-----------------------------------------------------------------------------
(* What was printed is read back as it was and without an error, through    *)
(* comments between the tokens up to the last bracket, and in front of what *)
(* an older text has left - if no string in it ends in a backslash.         *)
ReadsBack ==
  read /\ edits \subseteq {"comment", "tail"} =>
    /\ result.v = doc /\ ~Fail(result) /\ ~result.s.wild
    /\ "tail" \notin edits => ~Open(text, result.s.p - 1)

(* A text that was torn off is never taken for a document: it fails, or     *)
(* there was nothing in it.                                                 *)
TornTextFails == read /\ "cut" \in edits => Fail(result) \/ result.v = Undefined

(* Whatever is in the text the parser stays within it, unless a comment is  *)
(* not closed, or the text ends in the middle of an escape or at once after *)
(* the two slashes of a comment.                                            *)
StaysInText ==
  read /\ result.s.wild /\ ~HaveError(result, 4) =>
    /\ Len(text) >= 2
    /\ SubSeq(text, Len(text) - 1, Len(text)) \in {<<"bslash", "quote">>, <<"/", "/">>}
=============================================================================
