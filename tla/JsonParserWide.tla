-------------------------- MODULE JsonParserWide --------------------------
(***************************************************************************)
(* parser_UNI: the copy of the parser that reads wide characters.  It      *)
(* tests single characters where the other one skips byte sequences, and   *)
(* puts codes into strings as they are.                                    *)
(***************************************************************************)
EXTENDS JsonCursor

IsWS(t, p) == At(t, p) \in White
IsEOL(t, p) == At(t, p) = "eol"
IsNumeric(t, p) == At(t, p) \in {"sign", "digit", "point"}
Slash(t, p, second) == At(t, p) = "/" /\ At(t, p + 1) = second

-----------------------------------------------------------------------------
(* A line comment is read up to behind its end of line, or as far as the    *)
(* text goes, but for two characters at least.                              *)
AfterLine(t, p) == Min({q \in (p + 3) .. (Len(t) + 2) : IsEOL(t, q - 1) \/ q >= End(t)})

(* The other comment is read from star to star; wmemchr is told to look two *)
(* characters too far.                                                      *)
RECURSIVE AfterComment(_, _)
StarOrGiveUp(t, s, star) ==
  IF star = 0 \/ star >= Len(t) THEN Looked(Error(s, 4), star = 0)
  ELSE AfterComment(t, Goto(s, star))
AfterComment(t, s) ==
  IF At(t, s.p + 1) = "/" THEN Goto(s, s.p + 2)
  ELSE StarOrGiveUp(t, s, Find(t, s.p + 2, "*"))

(* skipWS: white space, then a line comment, then another comment, and this *)
(* again if there was any of them.                                          *)
RECURSIVE SkipWS(_, _)
Space(t, s) == Looked(IF IsWS(t, s.p) THEN Forward(s) ELSE s, s.p > End(t))
Line(t, s) == IF Slash(t, s.p, "/") THEN Goto(s, AfterLine(t, s.p)) ELSE s
Comment(t, s) == IF Slash(t, s.p, "*") THEN AfterComment(t, s) ELSE s
Continue(t, from, s) == IF from < s.p /\ s.p < End(t) THEN SkipWS(t, s) ELSE s
SkipWS(t, s) == Continue(t, s.p, Comment(t, Line(t, Space(t, s))))

(* readhexcode: the code is the character. *)
ReadHexCode(a, b) ==
  IF ~({a, b} \subseteq Hex) THEN "?"
  ELSE IF a = "hex" THEN "latin" ELSE IF b = "hex" THEN "/" ELSE "quote"

(* readhexquad. *)
ReadHexQuad(q) ==
  IF ~(ToSet(q) \subseteq Hex) THEN "?" ELSE IF "hex" \in ToSet(q) THEN "other" ELSE "wide"

(* What stands for an escape behind its backslash at i. *)
Code(c, len, num) == IF c = "?" THEN BadPiece(len, <<c>>, num) ELSE Piece(len, <<c>>)
Escaped(t, i, end) ==
  CASE t[i] \in {"bslash", "/", "quote"} -> Piece(1, <<t[i]>>)
    [] t[i] = "n" -> Piece(1, <<"eol">>)
    [] t[i] = "x" -> IF end < i + 3 THEN BadPiece(1, <<>>, 2)
                     ELSE Code(ReadHexCode(t[i + 1], t[i + 2]), 3, 2)
    [] t[i] = "u" -> IF end < i + 5 THEN BadPiece(1, <<>>, 3)
                     ELSE Code(ReadHexQuad(SubSeq(t, i + 1, i + 4)), 5, 3)
    [] OTHER -> Piece(0, <<"bslash">>)

(* parseEscapes, from the round of its loop that begins at i. *)
With(str, piece) ==
  [str EXCEPT !.chars = @ \o piece.chars, !.errs = @ \cup piece.errs]
RECURSIVE ParseEscapes(_, _, _, _)
BehindEscape(t, i, end, str, piece) == ParseEscapes(t, i + piece.len, end, With(str, piece))
Segment(t, i, escape, end, str) ==
  BehindEscape(t, escape + 1, end, With(str, Piece(0, SubSeq(t, i, escape - 1))),
               IF escape = Len(t) THEN Piece(0, <<"bslash">>) ELSE Escaped(t, escape + 1, end))
ParseEscapes(t, i, end, str) ==
  IF i > end THEN [str EXCEPT !.wild = TRUE]
  ELSE IF Find(SubSeq(t, 1, end - 1), i, "bslash") = 0
  THEN With(str, Piece(0, SubSeq(t, i, end - 1)))
  ELSE Segment(t, i, Find(t, i, "bslash"), end, str)

(* The text of a string or a name between from and end; the pointer goes on *)
(* at s.p.                                                                  *)
Text(t, from, end, s) == ReturnText(s, ParseEscapes(t, from, end, Nothing))

(* readunquotedstring: up to white space or a colon, neither of which is    *)
(* taken.                                                                   *)
Name(t, s, end) == Text(t, s.p, end, Goto(s, end))
ReadUnquotedString(t, s) ==
  Name(t, s, Min({i \in s.p .. End(t) : i = End(t) \/ IsWS(t, i) \/ t[i] = ":"}))

(* Mutant: the quote that ends a string may be preceded by anything.        *)
ClosesAny(t, q) == TRUE

(* A quote ends a string if it is the last character, or no backslash is    *)
(* before it.                                                               *)
Closes(t, q) == q = Len(t) \/ t[q - 1] # "bslash"

(* readstring, at a quote, with the other quotes of the text. *)
Closed(t, s, q) == Text(t, s.p + 1, q, Goto(s, q + 1))
UpToQuote(t, s, quotes) ==
  IF \E q \in quotes : Closes(t, q) THEN Closed(t, s, Min({q \in quotes : Closes(t, q)}))
  ELSE Text(t, s.p + 1, End(t), Error(Goto(s, Max(quotes \cup {s.p}) + 1), 1))
ReadString(t, s) == UpToQuote(t, s, {q \in (s.p + 1) .. Len(t) : t[q] = "quote"})

(* readnum. *)
Number(t, s, end) == Return(Goto(s, end), <<"number", Converted(SubSeq(t, s.p, end - 1))>>)
ReadNum(t, s) == Number(t, s, Min({i \in s.p .. End(t) : ~IsNumeric(t, i)}))

(* readlit: a letter that does not begin a literal is left. *)
ReadLit(t, s) ==
  IF At(t, s.p) \in Literals THEN Return(Forward(s), <<"literal", At(t, s.p)>>)
  ELSE Return(s, Undefined)

-----------------------------------------------------------------------------
RECURSIVE GetValue(_, _), ReadArray(_, _, _), ReadObject(_, _, _)

(* The bracket that closes a container, and that nothing is in it yet.      *)
Close(v) == IF IsArray(v) THEN "]" ELSE "}"
First(v) == DOMAIN v[2] = {}

(* Each of these errors ends the reading of a container. *)
Missing(s, v, num) == Return(Error(s, num), v)

(* What readarray and readobject do in a round of their loops: they return, *)
(* at the end of the text or behind the closing bracket, or go on, with the *)
(* comma read if there is one.                                              *)
Onward(t, s, v) == IF IsArray(v) THEN ReadArray(t, s, v) ELSE ReadObject(t, s, v)
BehindComma(t, s, v) ==
  IF s.p >= End(t) THEN Missing(s, v, 5)
  ELSE IF At(t, s.p) = Close(v) THEN Return(Forward(s), v) ELSE Onward(t, s, v)
Round(t, s, v) ==
  IF At(t, s.p) = "," THEN BehindComma(t, SkipWS(t, Forward(s)), v)
  ELSE IF s.p >= End(t) \/ At(t, s.p) = Close(v) THEN BehindComma(t, s, v)
  ELSE Onward(t, IF First(v) THEN s ELSE Error(s, 8), v)

(* readarray, from where its loop reads an element. *)
Item(t, r, v) ==
  IF r.v = Undefined /\ At(t, r.s.p) # "," THEN Missing(r.s, v, 8)
  ELSE Round(t, SkipWS(t, r.s), <<"array", Append(v[2], r.v)>>)
ReadArray(t, s, v) == Item(t, GetValue(t, s), v)

(* The name of a member. *)
OrAnonymous(t, r) == IF r.text = <<>> /\ r.s.p # End(t) THEN Anonymous(r.s, 7) ELSE r
ReadName(t, s) ==
  IF At(t, s.p) = ":" THEN Anonymous(s, 6)
  ELSE OrAnonymous(t, IF At(t, s.p) = "quote" THEN ReadString(t, s) ELSE ReadUnquotedString(t, s))

(* readobject, from where its loop reads a member. *)
Member(t, name, r, v) ==
  Round(t, SkipWS(t, r.s), <<"object", (name :> r.v) @@ v[2]>>)
AfterColon(t, name, s, v) ==
  IF s.p = End(t) THEN Missing(s, v, 5) ELSE Member(t, name, GetValue(t, s), v)
AfterName(t, name, s, v) ==
  IF s.p = End(t) THEN Missing(s, v, 5)
  ELSE IF At(t, s.p) = ":" THEN AfterColon(t, name, SkipWS(t, Forward(s)), v)
  ELSE Missing(Looked(IF At(t, s.p) = "}" THEN Forward(s) ELSE s, s.p > End(t)), v, 6)
Named(t, name, v) ==
  IF name.s.p = End(t) THEN Missing(name.s, v, 5)
  ELSE AfterName(t, name.text, SkipWS(t, name.s), v)
ReadObject(t, s, v) == Named(t, ReadName(t, s), v)

(* getvalue *)
Empty(kind) == <<kind, <<>>>>
StringValue(r) == Return(r.s, <<"string", r.text>>)
Value(t, s, c) ==
  CASE c = "quote" -> StringValue(ReadString(t, s))
    [] c = "[" -> Round(t, SkipWS(t, Forward(s)), Empty("array"))
    [] c = "{" -> Round(t, SkipWS(t, Forward(s)), Empty("object"))
    [] c \in Literals \cup {"n", "hex"} -> ReadLit(t, s)
    [] c \in {"sign", "digit"} -> ReadNum(t, s)
    [] OTHER -> Return(s, Undefined)
ValueHere(t, s) == Value(t, s, At(t, s.p))
GetValue(t, s) == ValueHere(t, SkipWS(t, s))

Parse(t) == GetValue(t, Start)
=============================================================================
