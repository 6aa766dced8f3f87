----------------------------- MODULE JsonCopies -----------------------------
(***************************************************************************)
(* The two copies of the parser, beside each other: one reads bytes, the   *)
(* other wide characters.                                                  *)
(***************************************************************************)
EXTENDS JsonText, Functions

Wide == INSTANCE JsonParserWide

(* What only the parser of bytes cannot put into a string as it is: a       *)
(* character with its highest bit set, given as an escape of one byte.      *)
ByteEscape(i) ==
  i + 3 \in DOMAIN text /\ SubSeq(text, i, i + 2) = <<"bslash", "x", "hex">>

(* Two values are the same but for names that createrandomname made.        *)
Random(name) == name # <<>> /\ name[1] = "!anon_"
RECURSIVE SameValue(_, _)
SameValue(a, b) ==
  \/ a = b
  \/ /\ IsArray(a) /\ IsArray(b) /\ DOMAIN a[2] = DOMAIN b[2]
     /\ \A i \in DOMAIN a[2] : SameValue(a[2][i], b[2][i])
  \/ /\ IsObject(a) /\ IsObject(b)
     /\ \E f \in Bijection(DOMAIN a[2], DOMAIN b[2]) :
          \A name \in DOMAIN a[2] :
            /\ f[name] = name \/ (Random(name) /\ Random(f[name]))
            /\ SameValue(a[2][name], b[2][f[name]])

(* The two copies of the parser have drifted apart in two places only.      *)
(* They make the same value, random names aside, but for escapes of one     *)
(* byte with its highest bit set.  They find the same errors, but for a     *)
(* text that ends with the white space behind an empty name: the parser of  *)
(* bytes has read over it and is at the end, the other one is not and       *)
(* reports the name too.                                                    *)
ParsersAgree ==
  read =>
    LET wide == Wide!Parse(text)
    IN  /\ SameValue(wide.v, result.v) \/ \E i \in DOMAIN text : ByteEscape(i)
        /\ wide.s.wild = result.s.wild
        /\ \/ wide.s.errs = result.s.errs
           \/ /\ wide.s.errs = result.s.errs \cup {7} /\ 5 \in result.s.errs
              /\ text[Len(text)] \in White
=============================================================================
