----------------------------- MODULE TextBorder -----------------------------
(***************************************************************************)
(* A text at the border of the library: its wide characters become bytes,  *)
(* the bytes may be torn off or one of them replaced on their way, and     *)
(* they become wide characters again.                                      *)
(***************************************************************************)
EXTENDS Utf8Convert

CONSTANTS
  Texts,  \* bound: the texts
  Damage  \* bound: the bytes that may take another one's place

ASSUME BorderAssumption == Texts \subseteq Seq(CodePoint) /\ Damage \subseteq Byte

VARIABLES
  wide,   \* the text
  bytes,  \* its bytes
  harm,   \* observer: what has happened to them
  stage,  \* what there is: "wide", "bytes" too, or the text read "back" as well
  back    \* the result of towchar_t

vars == <<wide, bytes, harm, stage, back>>

Init ==
  /\ wide \in Texts
  /\ bytes = <<>> /\ harm = "none"
  /\ stage = "wide"
  /\ back = [text |-> <<>>, spilt |-> FALSE]

(* tostr *)
ToBytes ==
  /\ stage = "wide"
  /\ bytes' = ToStr(wide)
  /\ stage' = "bytes"
  /\ UNCHANGED <<wide, harm, back>>

Happens(kind, b) ==
  /\ stage = "bytes" /\ harm = "none"
  /\ bytes' = b
  /\ harm' = kind
  /\ UNCHANGED <<wide, stage, back>>

(* The bytes end anywhere. *)
Tear == \E n \in 0 .. (Len(bytes) - 1) : Happens("torn", SubSeq(bytes, 1, n))

(* One byte is another one. *)
Replace == \E i \in DOMAIN bytes, b \in Damage : Happens("replaced", [bytes EXCEPT ![i] = b])

(* towstr, with what it does to the buffer *)
ToCharacters ==
  /\ stage = "bytes"
  /\ back' = ToWide(bytes)
  /\ stage' = "back"
  /\ UNCHANGED <<wide, bytes, harm>>

Next == ToBytes \/ Tear \/ Replace \/ ToCharacters
Spec == Init /\ [][Next]_vars

-----------------------------------------------------------------------------
(* Bytes are bytes, and every character that is read, from whatever bytes,  *)
(* fits the bits that the masks leave, or is a cell that was not written.   *)
Cell == 0 .. Unset
TypeOK ==
  /\ wide \in Texts /\ bytes \in Seq(Byte)
  /\ harm \in {"none", "torn", "replaced"} /\ stage \in {"wide", "bytes", "back"}
  /\ back \in [text : Seq(Cell), spilt : BOOLEAN]

(* The place of the last byte of the first k characters. *)
Ends(k) == Len(ToStr(SubSeq(wide, 1, k)))

(* A text that is turned into bytes and back is what it was, whatever the   *)
(* sizes of its characters; and a byte that is an ASCII character is one of *)
(* the text, in its place, so that a parser of bytes finds the symbols in   *)
(* it that a parser of wide characters finds.                               *)
Transcoded ==
  /\ stage = "back" /\ harm = "none" => back = [text |-> wide, spilt |-> FALSE]
  /\ stage # "wide" /\ harm = "none" =>
       /\ \A i \in DOMAIN bytes :
            bytes[i] < 128 => \E k \in DOMAIN wide : wide[k] = bytes[i] /\ Ends(k) = i
       /\ \A k \in DOMAIN wide : wide[k] < 127 => bytes[Ends(k)] = wide[k]

(* Bytes that end anywhere become the characters before the end, and a      *)
(* question mark if, and only if, the end is within one.                    *)
TornContained ==
  stage = "back" /\ harm = "torn" =>
    /\ ~back.spilt
    /\ \E k \in 0 .. Len(wide) :
         \/ Len(bytes) = Ends(k) /\ back.text = SubSeq(wide, 1, k)
         \/ /\ k < Len(wide) /\ Ends(k) < Len(bytes) /\ Len(bytes) < Ends(k + 1)
            /\ back.text = Append(SubSeq(wide, 1, k), QuestionMark)

(* With one byte replaced towchar_t still writes nothing behind its buffer, *)
(* whose size it has counted in a walk of its own, and the characters       *)
(* before that byte are read as they were.                                  *)
DamageContained ==
  stage = "back" /\ harm = "replaced" =>
    /\ ~back.spilt
    /\ \A k \in DOMAIN wide :
         (\A i \in 1 .. Ends(k) : bytes[i] = ToStr(wide)[i]) =>
           Len(back.text) >= k /\ SubSeq(back.text, 1, k) = SubSeq(wide, 1, k)
=============================================================================
