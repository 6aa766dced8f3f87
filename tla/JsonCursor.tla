---------------------------- MODULE JsonCursor ----------------------------
(***************************************************************************)
(* What a JSON::value holds, as a tree, and what the two parsers share: a  *)
(* text, the pointer into it and the list of errors, in a record that one  *)
(* function of a parser passes on to the next; an error does not stop a    *)
(* parser.                                                                 *)
(*                                                                         *)
(* Text is a sequence of symbols, one for each character the code treats   *)
(* in a way of its own; a literal is one symbol.  Where the value of a     *)
(* character matters "digit" is a 2 and "hex" an f.  The character behind  *)
(* the text is a NUL.                                                      *)
(***************************************************************************)
EXTENDS Naturals, Sequences, SequencesExt, FiniteSetsExt, TLC

Literals == {"true", "false", "null"}
Undefined == <<"undefined">>
Null == <<"literal", "null">>
IsArray(v) == v[1] = "array"
IsObject(v) == v[1] = "object"

-----------------------------------------------------------------------------
White == {"ws", "eol"}
Hex == {"digit", "hex"}
Symbol ==
  White \cup Hex \cup Literals \cup
  {"/", "*", "quote", "bslash", "[", "]", "{", "}", ":", ",", "sign", "point",
   "n", "x", "u", "wide", "other", "byte", "latin", "?", "nul"}

At(t, p) == IF p \in DOMAIN t THEN t[p] ELSE "nul"
End(t) == Len(t) + 1

(* p: the pointer; errs: the numbers in errs; wild: the text was left, or a *)
(* string copied from behind its end.                                       *)
Cursor == [p : Nat \ {0}, errs : SUBSET Nat, wild : BOOLEAN]
Start == [p |-> 1, errs |-> {}, wild |-> FALSE]
Goto(s, p) == [s EXCEPT !.p = p]
Forward(s) == Goto(s, s.p + 1)
Error(s, num) == [s EXCEPT !.errs = @ \cup {num}]
Looked(s, outside) == [s EXCEPT !.wild = @ \/ outside]

(* memchr and wmemchr: 0 is NULL. *)
Find(t, p, c) ==
  IF \E i \in p .. Len(t) : t[i] = c THEN Min({i \in p .. Len(t) : t[i] = c}) ELSE 0

(* strtol and wcstol, and strtod and wcstod if there is a point: the prefix *)
(* of a number that is one.                                                 *)
Digits(n, i) == Min({k \in i .. End(n) : k = End(n) \/ n[k] # "digit"})
Converted(n) ==
  LET first == IF At(n, 1) = "sign" THEN 2 ELSE 1
      whole == Digits(n, first)
      stop == IF At(n, whole) = "point" THEN Digits(n, whole + 1) ELSE whole
  IN  IF \E i \in first .. (stop - 1) : n[i] = "digit" THEN SubSeq(n, 1, stop - 1) ELSE <<"zero">>

-----------------------------------------------------------------------------
(* A piece of a string: its length in the text, its characters, the errors. *)
Piece(len, chars) == [len |-> len, chars |-> chars, errs |-> {}]
BadPiece(len, chars, num) == [len |-> len, chars |-> chars, errs |-> {num}]

(* What has been read of a string; wild: an escape took its end.            *)
Nothing == [chars |-> <<>>, errs |-> {}, wild |-> FALSE]

(* What a function of a parser returns: a value, or the text of a string.   *)
Return(s, v) == [s |-> s, v |-> v]
ReturnText(s, str) ==
  [s |-> [s EXCEPT !.errs = @ \cup str.errs, !.wild = @ \/ str.wild], text |-> str.chars]

(* createrandomname: none that the text spells. *)
RandomName(s) == <<"!anon_", ToString(s.p)>>
Anonymous(s, num) == [s |-> Error(s, num), text |-> RandomName(s)]

(* fail and haveerror, when a parser has returned r. *)
Fail(r) == r.s.errs # {}
HaveError(r, e) == e \in r.s.errs
=============================================================================
