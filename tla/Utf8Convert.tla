---------------------------- MODULE Utf8Convert ----------------------------
(***************************************************************************)
(* convert.cpp: text in wide characters, a sequence of code points, and    *)
(* text in UTF-8, a sequence of bytes, turned into each other.             *)
(***************************************************************************)
EXTENDS Naturals, Sequences

Byte == 0 .. 255

-----------------------------------------------------------------------------
(* cranges, pfx and masks.  A character of n bytes is below Ranges[n], not  *)
(* up to it, so that 127, 2047 and 65535 take a byte more than they need    *)
(* and the last code point cannot be converted.                             *)
Ranges == <<127, 2047, 65535, 1114111>>
Prefix == <<0, 192, 224, 240>>
Place == <<1, 64, 4096, 262144>>

CodePoint == 0 .. (Ranges[4] - 1)

(* The number of bytes that is counted for c. *)
Size(c) ==
  IF c < Ranges[1] THEN 1 ELSE IF c < Ranges[2] THEN 2 ELSE IF c < Ranges[3] THEN 3 ELSE 4

(* Mutant: the prefix of the size below.                                    *)
EncodedLow(c) ==
  LET n == Size(c)
  IN  IF n = 1 THEN <<c>>
      ELSE [i \in 1 .. n |-> (IF i = 1 THEN Prefix[n - 1] ELSE 128) + ((c \div Place[n - i + 1]) % 64)]

(* Mutant: the bits of the bytes before are not masked away.                *)
EncodedUnmasked(c) ==
  LET n == Size(c)
  IN  IF n = 1 THEN <<c>>
      ELSE [i \in 1 .. n |-> (IF i = 1 THEN Prefix[n] ELSE 128) + (c \div Place[n - i + 1])]

Encoded(c) ==
  LET n == Size(c)
  IN  IF n = 1 THEN <<c>>
      ELSE [i \in 1 .. n |-> (IF i = 1 THEN Prefix[n] ELSE 128) + ((c \div Place[n - i + 1]) % 64)]

(* tochar: the bytes of text[i] end up behind those of the ones before it.  *)
(* A text with a character that is too large is not converted: the result   *)
(* is NULL.                                                                 *)
NoText == <<256>>
Written(text) ==
  LET bytes[i \in 0 .. Len(text)] == IF i = 0 THEN <<>> ELSE bytes[i - 1] \o Encoded(text[i])
  IN  bytes
ToChar(text) ==
  IF \E i \in DOMAIN text : text[i] >= Ranges[4] THEN NoText ELSE Written(text)[Len(text)]

-----------------------------------------------------------------------------
(* The bytes a character takes that begins with b; a byte that should only  *)
(* follow another counts as a character of its own.                         *)
Taken(b) == IF b >= Prefix[4] THEN 4 ELSE IF b >= Prefix[3] THEN 3 ELSE IF b >= Prefix[2] THEN 2 ELSE 1

(* What is left of such a byte by the mask. *)
LeadMod == <<256, 32, 16, 8>>

(* Mutant: one byte more is asked for than the character takes.             *)
MalformedLate(s, i) ==
  LET n == Taken(s[i])
  IN  i + n > Len(s) \/ \E k \in 1 .. (n - 1) : s[i + k] < 128

(* The character that begins at i ends before its bytes do, or one of them  *)
(* cannot follow.                                                           *)
Malformed(s, i) ==
  LET n == Taken(s[i])
  IN  i + n - 1 > Len(s) \/ \E k \in 1 .. (n - 1) : s[i + k] < 128

Decoded(s, i) ==
  LET n == Taken(s[i])
      follow(k) == IF k < n THEN (s[i + k] % 64) * Place[n - k] ELSE 0
  IN  (s[i] % LeadMod[n]) * Place[n] + follow(1) + follow(2) + follow(3)

(* towchar_t.  One cell is allotted for each character; a malformed one     *)
(* takes two: a question mark, and a cell that nothing is written to.  The  *)
(* buffer is not initialised, so that such a cell holds whatever the memory *)
(* held before: Unset, which no bytes are decoded to, stands for that.      *)
QuestionMark == 63
Unset == 8 * Place[4]

(* Mutant: a malformed character takes three cells.                         *)
CellsShort(s, i) == IF Malformed(s, i) THEN <<QuestionMark, Unset, Unset>> ELSE <<Decoded(s, i)>>

Cells(s, i) == IF Malformed(s, i) THEN <<QuestionMark, Unset>> ELSE <<Decoded(s, i)>>

(* Walk(s)[i]: the cells from the character at i on, and how many are       *)
(* allotted, not counting the last one, which is for the terminator.        *)
Walk(s) ==
  LET walk[i \in 1 .. (Len(s) + 4)] ==
        IF i > Len(s) THEN [cells |-> <<>>, olen |-> 0]
        ELSE LET rest == walk[i + Taken(s[i])]
             IN  [cells |-> Cells(s, i) \o rest.cells, olen |-> rest.olen + 1]
  IN  walk

(* The text of olen characters, and whether something was written behind    *)
(* the buffer.                                                              *)
ToWide(s) ==
  LET w == Walk(s)[1]
  IN  [text |-> SubSeq(w.cells, 1, w.olen),
       spilt |-> \E i \in (w.olen + 2) .. Len(w.cells) : w.cells[i] # Unset]

-----------------------------------------------------------------------------
(* tostr, and toastr in the build for bytes: the converted characters are    *)
(* assigned, without the terminator.  The text of ToWide is what towstr     *)
(* assigns.                                                                 *)
ToStr(text) == ToChar(text)
=============================================================================
