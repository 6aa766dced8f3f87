----------------------------- MODULE ConfigLoad -----------------------------
(***************************************************************************)
(* config.cpp: how a parsed configuration document becomes the five        *)
(* machine words of config_t.  The parser is abstracted to "the text       *)
(* parses to an object with these members"; the arithmetic, the            *)
(* conversions between float, long and unsigned long, and the ways         *)
(* load_config gives up are kept.  Every operator is a plain function of   *)
(* its arguments, so the module is used by the hub, by the run that        *)
(* enumerates documents, and by the proofs.                                *)
(***************************************************************************)
EXTENDS Floats

CONSTANTS
  Word,       \* 2^64 in the program: unsigned long and long count modulo Word
  IntMod,     \* 2^32 in the program: int counts modulo IntMod
  FloatBits,  \* 24 in the program: significant bits of a float
  DoubleBits, \* 53 in the program: significant bits of a double
  NsPerS,     \* 10^9 in the program: nanoseconds of one second
  KiB,        \* 1024 in the program: bytes of one KiB
  Den         \* a document's numbers are multiples of 1/Den

ASSUME ConfigAssumption ==
  /\ Word \in Nat \ {0}
  /\ IntMod \in Nat \ {0}
  /\ NsPerS \in Nat \ {0}
  /\ KiB \in Nat \ {0}
  /\ Den \in Nat \ {0}

(* A double is longer than a float by three bits at least; a product with   *)
(* Word or KiB is a matter of the exponent, and NsPerS fits a double.       *)
ASSUME FloatAssumption ==
  /\ FloatBits \in Nat /\ FloatBits >= 3
  /\ DoubleBits \in Nat /\ DoubleBits >= FloatBits + 3
  /\ \E k \in 2 .. Word : Word = Two[k]
  /\ \E k \in 0 .. KiB : KiB = Two[k]
  /\ NsPerS < Two[DoubleBits]

Ulong == 0 .. (Word - 1)
LongMax == (Word \div 2) - 1
LongMin == -(Word \div 2)

Fields == {"drop_percent", "corrupt_packet_percent", "corrupt_packet_bytes",
           "truncate_len", "bandwidth"}

(* JSON::datatype: the two numeric types, and the ones that hold no number. *)
NumericTypes == {"fixed_number", "number"}
OtherTypes == {"string", "literal", "array", "object", "undefined"}

(* A value of a document: num / Den is the number its text says, or for a   *)
(* string the number it spells.  A fixed_number has no point.               *)
Value == {v \in [type : NumericTypes \cup OtherTypes, num : Int] :
            v.type = "fixed_number" => v.num % Den = 0}

(* What /etc/brokenhub.conf holds: text the parser refuses, or an object    *)
(* with some of the five members.                                           *)
IsDoc(doc) ==
  /\ DOMAIN doc = {"parses", "fields"}
  /\ doc.parses \in BOOLEAN
  /\ DOMAIN doc.fields \subseteq Fields
  /\ \A key \in DOMAIN doc.fields : doc.fields[key] \in Value

config_t == [drop : Ulong, corrupt_packets : Ulong, corrupt_bytes : Ulong,
             truncate_len : Ulong, bandwidth : Ulong]

ZeroConfig == [drop |-> 0, corrupt_packets |-> 0, corrupt_bytes |-> 0,
               truncate_len |-> 0, bandwidth |-> 0]

-----------------------------------------------------------------------------
(* Conversion towards zero of the quotient n / d, d > 0.                    *)
Trunc(n, d) == IF n >= 0 THEN n \div d ELSE -((-n) \div d)

(* Mutant: the conversion does not stay within the word.                    *)
FloatToUlongUnchecked(n, d) == {Trunc(n, d)}

(* Conversion of the real n / d, d > 0, to unsigned long.  Out of range it  *)
(* is undefined: an x86-64 build yields 0 above the range and the wrapped   *)
(* word below it, a saturating instruction set yields an end of the range.  *)
FloatToUlong(n, d) ==
  LET t == Trunc(n, d)
  IN  IF t \in Ulong THEN {t} ELSE {0, t % Word, Word - 1}

(* readnumber: a number without a point goes through strtol, which stops    *)
(* at the ends of a long, the others through strtod.                        *)
ReadFixed(v) ==
  LET i == v.num \div Den
  IN  IF i > LongMax THEN LongMax ELSE IF i < LongMin THEN LongMin ELSE i
ReadFloat(v) == Rounded(DoubleBits)[Real(v.num, Den)]

(* Conversion of a double to long: out of range it is undefined, and usual  *)
(* builds yield an end of the range.                                        *)
FloatToLong(x) ==
  LET t == Trunc(x.num, x.den)
  IN  IF LongMin <= t /\ t <= LongMax THEN {t} ELSE {LongMin, LongMax}

(* value::getinteger and value::getfloat with their default of 0.           *)
GetInteger(v) ==
  CASE v.type = "fixed_number" -> {ReadFixed(v)}
    [] v.type = "number" -> FloatToLong(ReadFloat(v))
    [] OTHER -> {0}
GetFloat(v) ==
  CASE v.type = "fixed_number" -> Rounded(DoubleBits)[Real(ReadFixed(v), 1)]
    [] v.type = "number" -> ReadFloat(v)
    [] OTHER -> Real(0, 1)

(* The double that getfloat returns, stored in a float.                     *)
ToFloat(x) == Rounded(FloatBits)[x]

(* Mutant: UIMAX is that of a signed long.                                  *)
PercentToLongSigned(perc) ==
  LET share == Rounded(DoubleBits)[Real(perc.num, 100 * perc.den)]
  IN  FloatToUlong(share.num * (Word \div 2), share.den)

(* percent_to_long: (perc / 100.0) * UIMAX in doubles, where UIMAX has      *)
(* become 2^64, so that the product is exact.                               *)
PercentToLong(perc) ==
  LET share == Rounded(DoubleBits)[Real(perc.num, 100 * perc.den)]
  IN  FloatToUlong(share.num * Word, share.den)

(* aint (64 bits) stored in an int.                                         *)
ToInt(i) == ((i + (IntMod \div 2)) % IntMod) - (IntMod \div 2)

(* Mutant: every count goes through an int.                                 *)
ToUlongByInt(i) == ToInt(i) % Word

(* An int or an aint stored in an unsigned long.                            *)
ToUlong(i) == i % Word

(* Mutant: KiB is forgotten.                                                *)
NsPerByteOfBytes(v) ==
  LET sPerByte == Rounded(DoubleBits)[Reciprocal(ToFloat(GetFloat(v)))]
      ns == Rounded(DoubleBits)[Real(sPerByte.num * NsPerS, sPerByte.den)]
  IN  IF GetInteger(v) = {0} THEN {0} ELSE FloatToUlong(ns.num, ns.den)

(* The bandwidth member, KiB/s, as nanoseconds per byte: tested as an       *)
(* integer, stored in a float, multiplied by KiB exactly, and the rest in   *)
(* doubles.                                                                 *)
NsPerByte(v) ==
  LET kps == ToFloat(GetFloat(v))
      sPerByte == Rounded(DoubleBits)[Reciprocal(Real(kps.num * KiB, kps.den))]
      ns == Rounded(DoubleBits)[Real(sPerByte.num * NsPerS, sPerByte.den)]
  IN  IF GetInteger(v) = {0} THEN {0} ELSE FloatToUlong(ns.num, ns.den)

(* load_config: the configurations one load may leave behind; none when the *)
(* program aborts, because the text does not parse or a member is missing.  *)
Percent(v) == PercentToLong(ToFloat(GetFloat(v)))
LoadResults(doc) ==
  IF doc.parses /\ DOMAIN doc.fields = Fields
  THEN [drop            : Percent(doc.fields["drop_percent"]),
        corrupt_packets : Percent(doc.fields["corrupt_packet_percent"]),
        corrupt_bytes   : {ToUlong(ToInt(i)) : i \in GetInteger(doc.fields["corrupt_packet_bytes"])},
        truncate_len    : {ToUlong(i) : i \in GetInteger(doc.fields["truncate_len"])},
        bandwidth       : NsPerByte(doc.fields["bandwidth"])]
  ELSE {}
=============================================================================
