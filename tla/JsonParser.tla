---------------------------- MODULE JsonParser ----------------------------
(***************************************************************************)
(* parser_UTF8: from the text to a tree, one operator for each function of *)
(* the parser, and one for each point in it at which the pointer has moved *)
(* on.  A loop is a function of the cursor at which a round of it begins,  *)
(* and the round an operator with that function as a parameter.            *)
(***************************************************************************)
EXTENDS JsonCursor

-----------------------------------------------------------------------------
Begins(t, p, second) == At(t, p) = "/" /\ At(t, p + 1) = second

(* charskipWS looks at the character under the pointer, wherever that is.   *)
SkipSpace(t, s) ==
  Looked(IF At(t, s.p) \in White THEN Forward(s) ELSE s, s.p > End(t))

(* A line comment ends at its end of line, which charskipEOL leaves there,  *)
(* at the end of the text, or beyond it if nothing is behind the slashes.   *)
LineEnd(t, p) ==
  Min({q \in p .. (Len(t) + 2) : At(t, q) = "eol" \/ (q > p /\ q >= End(t))})
SkipLine(t, s) == IF Begins(t, s.p, "/") THEN Goto(s, LineEnd(t, s.p + 2)) ELSE s

(* The rest of a comment, from star to star.  memchr is told to look two    *)
(* bytes too far.                                                           *)
AtStar(t, comment, s) ==
  LET star == Find(t, s.p + 2, "*")
  IN  CASE At(t, s.p + 1) = "/" -> Goto(s, s.p + 2)
        [] At(t, s.p + 1) # "/" /\ (star = 0 \/ star >= Len(t)) -> Looked(Error(s, 4), star = 0)
        [] OTHER -> comment[Goto(s, star)]
InComment(t) == LET comment[s \in Cursor] == AtStar(t, comment, s) IN comment

SkipComment(t, s) == IF Begins(t, s.p, "*") THEN InComment(t)[s] ELSE s

(* skipWS, as long as it moves the pointer and the text goes on.            *)
SkipOnce(t, s) == SkipComment(t, SkipLine(t, SkipSpace(t, s)))
SkipOn(t, skip, before, s) == IF s.p = before.p \/ s.p > Len(t) THEN s ELSE skip[s]
Skipping(t) == LET skip[s \in Cursor] == SkipOn(t, skip, s, SkipOnce(t, s)) IN skip

(* Mutants: white space is skipped once; the end of a line comment is       *)
(* skipped too.                                                             *)
SkipWSOnce(t, s) == SkipSpace(t, s)
SkipWSOver(t, s) ==
  IF At(t, s.p) = "/" THEN Goto(s, End(t) + 1) ELSE SkipSpace(t, s)

SkipWS(t, s) == Skipping(t)[s]

-----------------------------------------------------------------------------
(* readhexcode: a code of 128 or more becomes one byte, which is no         *)
(* character of the text's encoding.                                        *)
ReadHexCode(a, b) ==
  CASE {a, b} \subseteq Hex /\ a = "hex" -> "byte"
    [] <<a, b>> = <<"digit", "digit">> -> "quote"
    [] <<a, b>> = <<"digit", "hex">> -> "/"
    [] OTHER -> "?"

(* readhexquad: the character, in UTF-8. *)
ReadHexQuad(q) ==
  CASE ToSet(q) = {"digit"} -> "wide"
    [] ToSet(q) \subseteq Hex /\ "hex" \in ToSet(q) -> "other"
    [] OTHER -> "?"

Coded(len, c, num) == IF c = "?" THEN BadPiece(len, <<c>>, num) ELSE Piece(len, <<c>>)

(* The escape at i, in a string that ends at end. *)
Escaped(t, i, end, c) ==
  CASE c \in {"bslash", "/", "quote"} -> Piece(2, <<c>>)
    [] c = "n" -> Piece(2, <<"eol">>)
    [] c = "x" /\ end - (i + 2) < 2 -> BadPiece(2, <<>>, 2)
    [] c = "x" /\ end - (i + 2) >= 2 -> Coded(4, ReadHexCode(t[i + 2], t[i + 3]), 2)
    [] c = "u" /\ end - (i + 2) < 4 -> BadPiece(2, <<>>, 3)
    [] c = "u" /\ end - (i + 2) >= 4 -> Coded(6, ReadHexQuad(SubSeq(t, i + 2, i + 5)), 3)
    [] OTHER -> Piece(1, <<"bslash">>)

(* parseEscapes, from i on. *)
PieceAt(t, i, end) ==
  IF t[i] = "bslash" THEN Escaped(t, i, end, At(t, i + 1)) ELSE Piece(1, <<t[i]>>)
Before(piece, rest) ==
  [rest EXCEPT !.chars = piece.chars \o @, !.errs = piece.errs \cup @]
Unescaped(t, end, parse, i) ==
  LET piece == PieceAt(t, i, end)
  IN  IF i >= end THEN [Nothing EXCEPT !.wild = i > end] ELSE Before(piece, parse[i + piece.len])
ParseEscapes(t, end) == LET parse[i \in 1 .. (end + 1)] == Unescaped(t, end, parse, i) IN parse

(* The string or name between from and r.end. *)
Text(t, from, r) == ReturnText(r.s, ParseEscapes(t, r.end)[from])

(* The end of a string: the next quote that is the last symbol or not       *)
(* preceded by a backslash.  If there is none the pointer stays behind the  *)
(* last one looked at.                                                      *)
AtQuote(t, close, s) ==
  LET quote == Find(t, s.p, "quote")
  IN  CASE quote = 0 -> [end |-> End(t), s |-> Error(s, 1)]
        [] quote # 0 /\ (quote = Len(t) \/ t[quote - 1] # "bslash") ->
             [end |-> quote, s |-> Goto(s, quote + 1)]
        [] OTHER -> close[Goto(s, quote + 1)]
StringEnd(t) == LET close[s \in Cursor] == AtQuote(t, close, s) IN close

(* readstring, at a quote. *)
ReadString(t, s) == Text(t, s.p + 1, StringEnd(t)[Forward(s)])

(* readunquotedstring: up to white space, which is taken too, or a colon.   *)
Unquoted(t, s, end) ==
  Text(t, s.p, [end |-> end, s |-> Goto(s, IF At(t, end) \in White THEN end + 1 ELSE end)])
ReadUnquotedString(t, s) ==
  Unquoted(t, s, Min({i \in s.p .. End(t) : At(t, i) \in White \cup {":", "nul"}}))

(* readnum: that not all of the number can be converted is not reported.    *)
Numeric == {"sign", "digit", "point"}
Number(t, s, end) == Return(Goto(s, end), <<"number", Converted(SubSeq(t, s.p, end - 1))>>)
ReadNum(t, s) == Number(t, s, Min({i \in s.p .. End(t) : At(t, i) \notin Numeric}))

(* readlit, at a letter that a literal begins with; one that does not go on *)
(* as a literal is left.                                                    *)
ReadLit(t, s) ==
  IF At(t, s.p) \in Literals THEN Return(Forward(s), <<"literal", At(t, s.p)>>)
  ELSE Return(s, Undefined)

-----------------------------------------------------------------------------
(* The name of a member, by the symbol it begins with; an empty one is      *)
(* replaced, unless the text has ended.                                     *)
NotEmpty(t, name) ==
  IF name.text = <<>> /\ name.s.p # End(t) THEN Anonymous(name.s, 7) ELSE name
ReadName(t, s) ==
  CASE At(t, s.p) = ":" -> Anonymous(s, 6)
    [] At(t, s.p) = "quote" -> NotEmpty(t, ReadString(t, s))
    [] OTHER -> NotEmpty(t, ReadUnquotedString(t, s))

(* The value, and the two containers, in the first round of their loops and *)
(* in a later one.                                                          *)
Parts == {"value", "array", "items", "object", "members"}
First(part) == part \in {"array", "object"}
Close(part) == IF part \in {"array", "items"} THEN "]" ELSE "}"

(* Mutant: the end of the text ends a container without an error.           *)
UnfinishedSilently(s) == Return(s, <<>>)

(* The end of the text in the middle of an array or object: nothing more is *)
(* in it.                                                                   *)
Unfinished(s) == Return(Error(s, 5), <<>>)

(* The closing bracket is here, or the text has ended. *)
Over(t, s, part) == s.p >= End(t) \/ At(t, s.p) = Close(part)
Ended(t, s) == IF s.p >= End(t) THEN Unfinished(s) ELSE Return(Forward(s), <<>>)

(* The comma before an element or a member, and the white space behind it.  *)
Separator(t, s, part) ==
  CASE Over(t, s, part) -> s
    [] ~Over(t, s, part) /\ At(t, s.p) = "," -> SkipWS(t, Forward(s))
    [] OTHER -> IF First(part) THEN s ELSE Error(s, 8)

(* readarray, from a round of its loop on: the items it adds.  read is the  *)
(* function that reads the parts.                                           *)
AddItem(v, rest) == Return(rest.s, <<v>> \o rest.v)
Item(t, read, r) ==
  IF r.v = Undefined /\ At(t, r.s.p) # "," THEN Return(Error(r.s, 8), <<>>)
  ELSE AddItem(r.v, read[<<"items", r.s>>])
Element(t, read, s, part) ==
  IF Over(t, s, part) THEN Ended(t, s) ELSE Item(t, read, read[<<"value", s>>])
ReadArray(t, read, s, part) == Element(t, read, Separator(t, SkipWS(t, s), part), part)

(* readobject, from a round of its loop on: the members it adds; a later    *)
(* one of the same name replaces an earlier one.  From the name on the      *)
(* checks for the end of the text are for the end itself.                   *)
AddMember(name, v, rest) == Return(rest.s, rest.v @@ (name :> v))
Member(read, name, r) == AddMember(name, r.v, read[<<"members", r.s>>])
BehindColon(t, read, name, s) ==
  IF s.p = End(t) THEN Unfinished(s) ELSE Member(read, name, read[<<"value", s>>])
BehindName(t, read, name, s) ==
  CASE s.p = End(t) -> Unfinished(s)
    [] At(t, s.p) = ":" -> BehindColon(t, read, name, SkipWS(t, Forward(s)))
    [] At(t, s.p) = "}" -> Return(Error(Forward(s), 6), <<>>)
    [] OTHER -> Return(Looked(Error(s, 6), s.p > End(t)), <<>>)
Named(t, read, name) ==
  IF name.s.p = End(t) THEN Unfinished(name.s)
  ELSE BehindName(t, read, name.text, SkipWS(t, name.s))
NamedElement(t, read, s, part) ==
  IF Over(t, s, part) THEN Ended(t, s) ELSE Named(t, read, ReadName(t, s))
ReadObject(t, read, s, part) == NamedElement(t, read, Separator(t, SkipWS(t, s), part), part)

(* getvalue: a symbol no value begins with is left where it is. *)
StringValue(r) == Return(r.s, <<"string", r.text>>)
Container(kind, r) == Return(r.s, <<kind, r.v>>)
ValueAt(t, read, s) ==
  CASE At(t, s.p) = "quote" -> StringValue(ReadString(t, s))
    [] At(t, s.p) = "[" -> Container("array", read[<<"array", Forward(s)>>])
    [] At(t, s.p) = "{" -> Container("object", read[<<"object", Forward(s)>>])
    [] At(t, s.p) \in Literals \cup {"n", "hex"} -> ReadLit(t, s)
    [] At(t, s.p) \in {"sign", "digit"} -> ReadNum(t, s)
    [] OTHER -> Return(s, Undefined)

ReadPart(t, read, part, s) ==
  CASE part = "value" -> ValueAt(t, read, SkipWS(t, s))
    [] part \in {"array", "items"} -> ReadArray(t, read, s, part)
    [] part \in {"object", "members"} -> ReadObject(t, read, s, part)
Task == Parts \X Cursor
Reading(t) == LET read[task \in Task] == ReadPart(t, read, task[1], task[2]) IN read
GetValue(t, s) == Reading(t)[<<"value", s>>]

Parse(t) == GetValue(t, Start)
=============================================================================
