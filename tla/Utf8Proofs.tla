---------------------------- MODULE Utf8Proofs ----------------------------
(***************************************************************************)
(* That what convert.cpp writes in UTF-8 is what it reads back, for every  *)
(* text of the characters it can convert, and what it makes of bytes that  *)
(* are torn off or of which one is damaged.  A character is split in       *)
(* digits of base 64, and the first byte says how many there are: the      *)
(* first part is about one character.  The second is about texts, by       *)
(* induction over their length; the library's induction theorems take an   *)
(* operator, so the induction is derived here, for sets of numbers, from   *)
(* the theorem that every set of numbers has a least one.  The third is    *)
(* about bytes that are not as they were: where the walk meets the         *)
(* characters that are unharmed, and what it makes of the others.  The     *)
(* last is the invariant of TextBorder and its theorems.                   *)
(***************************************************************************)
EXTENDS TextBorder, SequenceTheorems, WellFoundedInduction, TLAPS

(* The code points are numbers, seventeen planes of them at the most.      *)
LEMMA CodePoints == \A c \in CodePoint : c \in Nat /\ c < 17 * 65536
BY SMT DEF CodePoint, Ranges

(* The four sizes: the bytes of c, digit by digit.                         *)
OneByte(c) == c < 127 /\ Encoded(c) = <<c>>
TwoBytes(c) ==
  c >= 127 /\ c < 2047 /\ Encoded(c) = <<192 + ((c \div 64) % 64), 128 + (c % 64)>>
ThreeBytes(c) ==
  /\ c >= 2047 /\ c < 65535
  /\ Encoded(c) = <<224 + ((c \div 4096) % 64), 128 + ((c \div 64) % 64), 128 + (c % 64)>>
FourBytes(c) ==
  /\ c >= 65535
  /\ Encoded(c) = <<240 + ((c \div 262144) % 64), 128 + ((c \div 4096) % 64),
                    128 + ((c \div 64) % 64), 128 + (c % 64)>>

(* Every character has one of them.                                         *)
LEMMA EncodedShape ==
  ASSUME NEW c \in CodePoint
  PROVE  OneByte(c) \/ TwoBytes(c) \/ ThreeBytes(c) \/ FourBytes(c)
<1>0. c \in Nat /\ c < 17 * 65536
  BY CodePoints
<1>1. CASE c < 127
  BY <1>0, <1>1, SMT DEF Encoded, Size, Ranges, OneByte
<1>2. CASE c >= 127 /\ c < 2047
  <2>1. Size(c) = 2
    BY <1>0, <1>2, SMT DEF Size, Ranges
  <2>2. Encoded(c) = [i \in 1 .. 2 |-> (IF i = 1 THEN Prefix[2] ELSE 128) + ((c \div Place[2 - i + 1]) % 64)]
    BY <2>1, SMT DEF Encoded
  <2>3. Encoded(c) = <<192 + ((c \div 64) % 64), 128 + (c % 64)>>
    BY <1>0, <2>2, SMT DEF Prefix, Place
  <2> QED BY <1>2, <2>3, SMT DEF TwoBytes
<1>3. CASE c >= 2047 /\ c < 65535
  <2>1. Size(c) = 3
    BY <1>0, <1>3, SMT DEF Size, Ranges
  <2>2. Encoded(c) = [i \in 1 .. 3 |-> (IF i = 1 THEN Prefix[3] ELSE 128) + ((c \div Place[3 - i + 1]) % 64)]
    BY <2>1, SMT DEF Encoded
  <2>3. Encoded(c) = <<224 + ((c \div 4096) % 64), 128 + ((c \div 64) % 64), 128 + (c % 64)>>
    BY <1>0, <2>2, SMT DEF Prefix, Place
  <2> QED BY <1>3, <2>3, SMT DEF ThreeBytes
<1>4. CASE c >= 65535
  <2>1. Size(c) = 4
    BY <1>0, <1>4, SMT DEF Size, Ranges
  <2>2. Encoded(c) = [i \in 1 .. 4 |-> (IF i = 1 THEN Prefix[4] ELSE 128) + ((c \div Place[4 - i + 1]) % 64)]
    BY <2>1, SMT DEF Encoded
  <2>3. Encoded(c) = <<240 + ((c \div 262144) % 64), 128 + ((c \div 4096) % 64),
                       128 + ((c \div 64) % 64), 128 + (c % 64)>>
    BY <1>0, <2>2, SMT DEF Prefix, Place
  <2> QED BY <1>4, <2>3, SMT DEF FourBytes
<1> QED BY <1>0, <1>1, <1>2, <1>3, <1>4, SMT

(* The digits of c in base 64, and that the first one fits what the prefix  *)
(* leaves free.                                                             *)
LEMMA Digits ==
  ASSUME NEW c \in Nat, c < 17 * 65536
  PROVE  /\ c % 64 \in 0 .. 63 /\ (c \div 64) % 64 \in 0 .. 63 /\ (c \div 4096) % 64 \in 0 .. 63
         /\ c = 64 * (c \div 64) + (c % 64)
         /\ c \div 64 = 64 * (c \div 4096) + ((c \div 64) % 64)
         /\ c \div 4096 = 64 * (c \div 262144) + ((c \div 4096) % 64)
         /\ c \div 262144 \in 0 .. 4 /\ (c \div 262144) % 64 = c \div 262144
         /\ c < 2047 => c \div 64 \in 0 .. 31 /\ (c \div 64) % 64 = c \div 64
         /\ c < 65535 => c \div 4096 \in 0 .. 15 /\ (c \div 4096) % 64 = c \div 4096
<1>1. c % 64 \in 0 .. 63 /\ c = 64 * (c \div 64) + (c % 64) /\ c \div 64 \in Nat
  BY SMT
<1>2. (c \div 64) % 64 \in 0 .. 63 /\ c \div 64 = 64 * (c \div 4096) + ((c \div 64) % 64)
  BY SMT
<1>3. (c \div 4096) % 64 \in 0 .. 63 /\ c \div 4096 = 64 * (c \div 262144) + ((c \div 4096) % 64)
  BY SMT
<1>4. c \div 262144 \in 0 .. 4
  BY SMT
<1>5. (c \div 262144) % 64 = c \div 262144
  BY <1>4, SMT
<1>6. c < 2047 => c \div 64 \in 0 .. 31 /\ (c \div 64) % 64 = c \div 64
  BY SMT
<1>7. c < 65535 => c \div 4096 \in 0 .. 15 /\ (c \div 4096) % 64 = c \div 4096
  BY SMT
<1> QED BY <1>1, <1>2, <1>3, <1>4, <1>5, <1>6, <1>7, SMT

(* The four sizes with the digits by name.                                  *)
OneByteOf(c, e) == c < 127 /\ e = <<c>>
TwoBytesOf(c, e) ==
  \E a \in 0 .. 31, d \in 0 .. 63 : c = 64 * a + d /\ e = <<192 + a, 128 + d>>
ThreeBytesOf(c, e) ==
  \E a \in 0 .. 15, b, d \in 0 .. 63 :
    c = 64 * (64 * a + b) + d /\ e = <<224 + a, 128 + b, 128 + d>>
FourBytesOf(c, e) ==
  \E a \in 0 .. 4, b, d, f \in 0 .. 63 :
    c = 64 * (64 * (64 * a + b) + d) + f /\ e = <<240 + a, 128 + b, 128 + d, 128 + f>>

(* Every character has one of them, in this form too.                       *)
LEMMA EncodedDigits ==
  ASSUME NEW c \in CodePoint
  PROVE  \/ OneByteOf(c, Encoded(c)) \/ TwoBytesOf(c, Encoded(c))
         \/ ThreeBytesOf(c, Encoded(c)) \/ FourBytesOf(c, Encoded(c))
<1>0. c \in Nat /\ c < 17 * 65536
  BY CodePoints
<1>1. CASE OneByte(c)
  BY <1>1, SMT DEF OneByte, OneByteOf
<1>2. CASE TwoBytes(c)
  <2>1. /\ (c \div 64) % 64 = c \div 64 /\ c \div 64 \in 0 .. 31 /\ c % 64 \in 0 .. 63
        /\ c = 64 * (c \div 64) + (c % 64)
    BY <1>0, <1>2, Digits, SMT DEF TwoBytes
  <2> DEFINE a == c \div 64
             d == c % 64
  <2>2. a \in 0 .. 31 /\ d \in 0 .. 63 /\ c = 64 * a + d /\ Encoded(c) = <<192 + a, 128 + d>>
    BY <1>2, <2>1, SMT DEF TwoBytes
  <2> HIDE DEF a, d
  <2>3. TwoBytesOf(c, Encoded(c))
    BY <2>2, SMT DEF TwoBytesOf
  <2> QED BY <2>3
<1>3. CASE ThreeBytes(c)
  <2>1. /\ (c \div 4096) % 64 = c \div 4096 /\ c \div 4096 \in 0 .. 15
        /\ (c \div 64) % 64 \in 0 .. 63 /\ c % 64 \in 0 .. 63
        /\ c = 64 * (c \div 64) + (c % 64)
        /\ c \div 64 = 64 * (c \div 4096) + ((c \div 64) % 64)
    BY <1>0, <1>3, Digits, SMT DEF ThreeBytes
  <2> DEFINE a == c \div 4096
             b == (c \div 64) % 64
             d == c % 64
             q == c \div 64
  <2>2. /\ a \in 0 .. 15 /\ b \in 0 .. 63 /\ d \in 0 .. 63
        /\ c = 64 * q + d /\ q = 64 * a + b
        /\ Encoded(c) = <<224 + a, 128 + b, 128 + d>>
    BY <1>3, <2>1, SMT DEF ThreeBytes
  <2> HIDE DEF a, b, d, q
  <2>3. c = 64 * (64 * a + b) + d
    BY <2>2, SMT
  <2>4. \E x \in 0 .. 15, y, z \in 0 .. 63 :
          c = 64 * (64 * x + y) + z /\ Encoded(c) = <<224 + x, 128 + y, 128 + z>>
    <3> a \in 0 .. 15 /\ b \in 0 .. 63 /\ d \in 0 .. 63
      BY <2>2
    <3> WITNESS a \in 0 .. 15, b \in 0 .. 63, d \in 0 .. 63
    <3> QED BY <2>2, <2>3, SMT
  <2> QED BY <2>4 DEF ThreeBytesOf
<1>4. CASE FourBytes(c)
  <2>1. /\ (c \div 262144) % 64 = c \div 262144 /\ c \div 262144 \in 0 .. 4
        /\ (c \div 4096) % 64 \in 0 .. 63 /\ (c \div 64) % 64 \in 0 .. 63 /\ c % 64 \in 0 .. 63
        /\ c = 64 * (c \div 64) + (c % 64)
        /\ c \div 64 = 64 * (c \div 4096) + ((c \div 64) % 64)
        /\ c \div 4096 = 64 * (c \div 262144) + ((c \div 4096) % 64)
    BY <1>0, Digits, SMT
  <2> DEFINE a == c \div 262144
             b == (c \div 4096) % 64
             d == (c \div 64) % 64
             f == c % 64
             q == c \div 64
             r == c \div 4096
  <2>2. /\ a \in 0 .. 4 /\ b \in 0 .. 63 /\ d \in 0 .. 63 /\ f \in 0 .. 63
        /\ c = 64 * q + f /\ q = 64 * r + d /\ r = 64 * a + b
        /\ Encoded(c) = <<240 + a, 128 + b, 128 + d, 128 + f>>
    BY <1>4, <2>1, SMT DEF FourBytes
  <2> HIDE DEF a, b, d, f, q, r
  <2>3. c = 64 * (64 * (64 * a + b) + d) + f
    BY <2>2, SMT
  <2>4. \E x \in 0 .. 4, y, z, w \in 0 .. 63 :
          /\ c = 64 * (64 * (64 * x + y) + z) + w
          /\ Encoded(c) = <<240 + x, 128 + y, 128 + z, 128 + w>>
    <3> a \in 0 .. 4 /\ b \in 0 .. 63 /\ d \in 0 .. 63 /\ f \in 0 .. 63
      BY <2>2
    <3> WITNESS a \in 0 .. 4, b \in 0 .. 63, d \in 0 .. 63, f \in 0 .. 63
    <3> QED BY <2>2, <2>3, SMT
  <2> QED BY <2>4 DEF FourBytesOf
<1> QED BY <1>1, <1>2, <1>3, <1>4, EncodedShape

(* One to four bytes are written, each of them in range.                    *)
LEMMA EncodedIsBytes ==
  ASSUME NEW c \in CodePoint
  PROVE  Encoded(c) \in Seq(Byte) /\ Len(Encoded(c)) \in 1 .. 4
<1>0. c \in Nat
  BY CodePoints, SMT
<1>1. CASE OneByteOf(c, Encoded(c))
  BY <1>0, <1>1, SMT DEF OneByteOf, Byte
<1>2. CASE TwoBytesOf(c, Encoded(c))
  <2>1. PICK a \in 0 .. 31, d \in 0 .. 63 : Encoded(c) = <<192 + a, 128 + d>>
    BY <1>2 DEF TwoBytesOf
  <2> QED BY <2>1, SMT DEF Byte
<1>3. CASE ThreeBytesOf(c, Encoded(c))
  <2>1. PICK a \in 0 .. 15, b \in 0 .. 63, d \in 0 .. 63 : Encoded(c) = <<224 + a, 128 + b, 128 + d>>
    BY <1>3 DEF ThreeBytesOf
  <2> QED BY <2>1, SMT DEF Byte
<1>4. CASE FourBytesOf(c, Encoded(c))
  <2>1. PICK a \in 0 .. 4, b \in 0 .. 63, d \in 0 .. 63, f \in 0 .. 63 :
          Encoded(c) = <<240 + a, 128 + b, 128 + d, 128 + f>>
    BY <1>4 DEF FourBytesOf
  <2> DEFINE w == 240 + a
             x == 128 + b
             y == 128 + d
             z == 128 + f
  <2>2. w \in Byte /\ x \in Byte /\ y \in Byte /\ z \in Byte
    BY SMT DEF Byte
  <2>3. Encoded(c) = <<w, x, y, z>>
    BY <2>1
  <2> HIDE DEF w, x, y, z
  <2> QED BY <2>2, <2>3
<1> QED BY <1>1, <1>2, <1>3, <1>4, EncodedDigits

(* A byte that stands alone is its character.                               *)
LEMMA OneMask == \A d \in 0 .. 126 : d % 256 = d /\ Taken(d) = 1
BY SMT DEF Taken, Prefix

(* A byte that follows gives its digit back.                                *)
LEMMA FollowMask == \A d \in 0 .. 63 : (128 + d) % 64 = d
BY SMT

(* So does the first byte of two.                                           *)
LEMMA TwoMask == \A d \in 0 .. 31 : (192 + d) % 32 = d /\ Taken(192 + d) = 2
BY SMT DEF Taken, Prefix

(* So does the first byte of three.                                         *)
LEMMA ThreeMask == \A d \in 0 .. 15 : (224 + d) % 16 = d /\ Taken(224 + d) = 3
BY SMT DEF Taken, Prefix

(* So does the first byte of four.                                          *)
LEMMA FourMask == \A d \in 0 .. 4 : (240 + d) % 8 = d /\ Taken(240 + d) = 4
BY SMT DEF Taken, Prefix

(* The digits put together again, in either grouping.                       *)
LEMMA Sums ==
  ASSUME NEW a \in Nat, NEW b \in Nat, NEW d \in Nat, NEW f \in Nat
  PROVE  /\ a * 4096 + b * 64 + d * 1 + 0 = 64 * (64 * a + b) + d
         /\ a * 262144 + b * 4096 + d * 64 + f * 1 = 64 * (64 * (64 * a + b) + d) + f
<1>1. 64 * (64 * a + b) = 4096 * a + 64 * b
  BY SMT
<1>2. 64 * (4096 * a + 64 * b + d) = 262144 * a + 4096 * b + 64 * d
  BY SMT
<1>3. 64 * (64 * (64 * a + b) + d) = 262144 * a + 4096 * b + 64 * d
  BY <1>1, <1>2, SMT
<1> QED BY <1>1, <1>3, SMT

(* A character is read back from its bytes, wherever they are in a text:    *)
(* as many bytes are taken as were written, none of them is found           *)
(* malformed, and the masks and shifts give the number that was split.      *)
THEOREM CharacterReadBack ==
  ASSUME NEW s \in Seq(Byte), NEW i \in Nat \ {0}, NEW c \in CodePoint,
         i + Len(Encoded(c)) <= Len(s) + 1,
         \A k \in 1 .. Len(Encoded(c)) : s[i + k - 1] = Encoded(c)[k]
  PROVE  Taken(s[i]) = Len(Encoded(c)) /\ Cells(s, i) = <<c>>
<1> DEFINE e == Encoded(c)
<1>0. c \in Nat /\ i \in Nat /\ Len(s) \in Nat
  BY CodePoints, SMT
<1>1. CASE OneByteOf(c, e)
  <2>1. s[i] = c /\ c \in 0 .. 126 /\ i <= Len(s) /\ Len(e) = 1
    BY <1>0, <1>1, SMT DEF OneByteOf
  <2>2. Taken(s[i]) = 1 /\ s[i] % 256 = c
    <3>1. Taken(c) = 1 /\ c % 256 = c
      BY <2>1, OneMask, Zenon
    <3> QED BY <2>1, <3>1
  <2>3. ~Malformed(s, i)
    BY <1>0, <2>1, <2>2, SMT DEF Malformed
  <2>4. Decoded(s, i) = (s[i] % 256) * 1 + 0 + 0 + 0
    BY <2>2, SMT DEF Decoded, LeadMod, Place
  <2>5. Decoded(s, i) = c
    BY <1>0, <2>2, <2>4, SMT
  <2> QED BY <2>1, <2>2, <2>3, <2>5, SMT DEF Cells
<1>2. CASE TwoBytesOf(c, e)
  <2>0. PICK a \in 0 .. 31, d \in 0 .. 63 : c = 64 * a + d /\ e = <<192 + a, 128 + d>>
    BY <1>2 DEF TwoBytesOf
  <2>1. s[i] = 192 + a /\ s[i + 1] = 128 + d /\ i + 1 <= Len(s) /\ Len(e) = 2
    <3>1. Len(e) = 2 /\ e[1] = 192 + a /\ e[2] = 128 + d
      BY <2>0, SMT
    <3>2. s[i + 1 - 1] = e[1] /\ s[i + 2 - 1] = e[2]
      BY <3>1, SMT
    <3> QED BY <1>0, <3>1, <3>2, SMT
  <2>2. Taken(s[i]) = 2 /\ s[i] % 32 = a /\ s[i + 1] % 64 = d
    <3>1. Taken(192 + a) = 2 /\ (192 + a) % 32 = a
      BY <2>0, TwoMask, Zenon
    <3>2. (128 + d) % 64 = d
      BY <2>0, FollowMask, Zenon
    <3> QED BY <2>1, <3>1, <3>2
  <2>3. ~Malformed(s, i)
    BY <1>0, <2>1, <2>2, SMT DEF Malformed
  <2>4. Decoded(s, i) = (s[i] % 32) * 64 + (s[i + 1] % 64) * 1 + 0 + 0
    BY <2>2, SMT DEF Decoded, LeadMod, Place
  <2>5. Decoded(s, i) = c
    BY <2>0, <2>2, <2>4, SMT
  <2> QED BY <2>1, <2>2, <2>3, <2>5, SMT DEF Cells
<1>3. CASE ThreeBytesOf(c, e)
  <2>0. PICK a \in 0 .. 15, b \in 0 .. 63, d \in 0 .. 63 :
          c = 64 * (64 * a + b) + d /\ e = <<224 + a, 128 + b, 128 + d>>
    BY <1>3 DEF ThreeBytesOf
  <2>1. /\ s[i] = 224 + a /\ s[i + 1] = 128 + b /\ s[i + 2] = 128 + d
        /\ i + 2 <= Len(s) /\ Len(e) = 3
    <3>1. Len(e) = 3 /\ e[1] = 224 + a /\ e[2] = 128 + b /\ e[3] = 128 + d
      BY <2>0, SMT
    <3>2. s[i + 1 - 1] = e[1] /\ s[i + 2 - 1] = e[2] /\ s[i + 3 - 1] = e[3]
      BY <3>1, SMT
    <3> QED BY <1>0, <3>1, <3>2, SMT
  <2>2. Taken(s[i]) = 3 /\ s[i] % 16 = a /\ s[i + 1] % 64 = b /\ s[i + 2] % 64 = d
    <3>1. Taken(224 + a) = 3 /\ (224 + a) % 16 = a
      BY <2>0, ThreeMask, Zenon
    <3>2. (128 + b) % 64 = b /\ (128 + d) % 64 = d
      BY <2>0, FollowMask, Zenon
    <3> QED BY <2>1, <3>1, <3>2
  <2>3. ~Malformed(s, i)
    <3>1. \A k \in 1 .. 2 : ~(s[i + k] < 128)
      <4> SUFFICES ASSUME NEW k \in 1 .. 2 PROVE ~(s[i + k] < 128)
        OBVIOUS
      <4>1. CASE k = 1
        <5>1. s[i + k] = 128 + b
          BY <2>1, <4>1
        <5>2. ~(128 + b < 128)
          BY <2>0, SMT
        <5> QED BY <5>1, <5>2
      <4>2. CASE k = 2
        <5>1. s[i + k] = 128 + d
          BY <2>1, <4>2
        <5>2. ~(128 + d < 128)
          BY <2>0, SMT
        <5> QED BY <5>1, <5>2
      <4> QED BY <4>1, <4>2, SMT
    <3>2. i + 3 - 1 <= Len(s) /\ 3 - 1 = 2
      BY <1>0, <2>1, SMT
    <3> QED BY <1>0, <2>2, <3>1, <3>2, SMT DEF Malformed
  <2>4. Decoded(s, i) = (s[i] % 16) * 4096 + (s[i + 1] % 64) * 64 + (s[i + 2] % 64) * 1 + 0
    BY <2>2, SMT DEF Decoded, LeadMod, Place
  <2>5. Decoded(s, i) = c
    <3>1. Decoded(s, i) = a * 4096 + b * 64 + d * 1 + 0
      BY <2>2, <2>4
    <3> QED BY <2>0, <3>1, Sums, SMT
  <2> QED BY <2>1, <2>2, <2>3, <2>5, SMT DEF Cells
<1>4. CASE FourBytesOf(c, e)
  <2>0. PICK a \in 0 .. 4, b \in 0 .. 63, d \in 0 .. 63, f \in 0 .. 63 :
          c = 64 * (64 * (64 * a + b) + d) + f /\ e = <<240 + a, 128 + b, 128 + d, 128 + f>>
    BY <1>4 DEF FourBytesOf
  <2>1. /\ s[i] = 240 + a /\ s[i + 1] = 128 + b /\ s[i + 2] = 128 + d /\ s[i + 3] = 128 + f
        /\ i + 3 <= Len(s) /\ Len(e) = 4
    <3>1. Len(e) = 4 /\ e[1] = 240 + a /\ e[2] = 128 + b /\ e[3] = 128 + d /\ e[4] = 128 + f
      BY <2>0, SMT
    <3>2. s[i + 1 - 1] = e[1] /\ s[i + 2 - 1] = e[2] /\ s[i + 3 - 1] = e[3] /\ s[i + 4 - 1] = e[4]
      BY <3>1, SMT
    <3> QED BY <1>0, <3>1, <3>2, SMT
  <2>2. Taken(s[i]) = 4 /\ s[i] % 8 = a /\ s[i + 1] % 64 = b /\ s[i + 2] % 64 = d /\ s[i + 3] % 64 = f
    <3>1. Taken(240 + a) = 4 /\ (240 + a) % 8 = a
      BY <2>0, FourMask, Zenon
    <3>2. (128 + b) % 64 = b /\ (128 + d) % 64 = d /\ (128 + f) % 64 = f
      BY <2>0, FollowMask, Zenon
    <3> QED BY <2>1, <3>1, <3>2
  <2>3. ~Malformed(s, i)
    <3>1. \A k \in 1 .. 3 : ~(s[i + k] < 128)
      <4> SUFFICES ASSUME NEW k \in 1 .. 3 PROVE ~(s[i + k] < 128)
        OBVIOUS
      <4>1. CASE k = 1
        <5>1. s[i + k] = 128 + b
          BY <2>1, <4>1
        <5>2. ~(128 + b < 128)
          BY <2>0, SMT
        <5> QED BY <5>1, <5>2
      <4>2. CASE k = 2
        <5>1. s[i + k] = 128 + d
          BY <2>1, <4>2
        <5>2. ~(128 + d < 128)
          BY <2>0, SMT
        <5> QED BY <5>1, <5>2
      <4>3. CASE k = 3
        <5>1. s[i + k] = 128 + f
          BY <2>1, <4>3
        <5>2. ~(128 + f < 128)
          BY <2>0, SMT
        <5> QED BY <5>1, <5>2
      <4> QED BY <4>1, <4>2, <4>3, SMT
    <3>2. i + 4 - 1 <= Len(s) /\ 4 - 1 = 3
      BY <1>0, <2>1, SMT
    <3> QED BY <1>0, <2>2, <3>1, <3>2, SMT DEF Malformed
  <2>4. Decoded(s, i) = (s[i] % 8) * 262144 + (s[i + 1] % 64) * 4096
                        + (s[i + 2] % 64) * 64 + (s[i + 3] % 64) * 1
    BY <2>2, SMT DEF Decoded, LeadMod, Place
  <2>5. Decoded(s, i) = c
    <3>1. Decoded(s, i) = a * 262144 + b * 4096 + d * 64 + f * 1
      BY <2>2, <2>4
    <3>2. a \in Nat /\ b \in Nat /\ d \in Nat /\ f \in Nat
      BY <2>0, SMT
    <3>3. a * 262144 + b * 4096 + d * 64 + f * 1 = 64 * (64 * (64 * a + b) + d) + f
      BY <3>2, Sums
    <3> QED BY <2>0, <3>1, <3>3
  <2> QED BY <2>1, <2>2, <2>3, <2>5, SMT DEF Cells
<1> QED BY <1>1, <1>2, <1>3, <1>4, EncodedDigits

-----------------------------------------------------------------------------
(* Every set of numbers has a least one.                                    *)
LEMMA LeastNumber ==
  ASSUME NEW T \in SUBSET Nat, T # {}
  PROVE  \E m \in T : \A n \in T : m <= n
<1>1. IsWellFoundedOn(OpToRel(<, Nat), Nat)
  BY NatLessThanWellFounded
<1>2. \E m \in T : \A n \in T : ~(<<n, m>> \in OpToRel(<, Nat))
  <2> DEFINE R == OpToRel(<, Nat)
  <2>1. IsWellFoundedOn(R, Nat)
    BY <1>1
  <2> HIDE DEF R
  <2>2. \E m \in T : \A n \in T : ~(<<n, m>> \in R)
    BY <2>1, WFMin
  <2> QED BY <2>2 DEF R
<1>3. \A m, n \in Nat : <<n, m>> \notin OpToRel(<, Nat) => ~(n < m)
  BY DEF OpToRel
<1>4. \A m, n \in Nat : ~(n < m) => m <= n
  OBVIOUS
<1> QED BY <1>2, <1>3, <1>4

(* Induction up to N, for a set of numbers.                                 *)
LEMMA CountedInduction ==
  ASSUME NEW N \in Nat, NEW T, 0 \in T, \A n \in 0 .. (N - 1) : n \in T => n + 1 \in T
  PROVE  \A n \in 0 .. N : n \in T
<1> DEFINE B == {n \in 0 .. N : n \notin T}
<1> SUFFICES ASSUME B # {} PROVE FALSE
  OBVIOUS
<1>1. B \in SUBSET Nat
  OBVIOUS
<1>2. PICK m \in B : \A n \in B : m <= n
  <2> HIDE DEF B
  <2> QED BY <1>1, LeastNumber
<1>3. m \in 0 .. N /\ m \notin T /\ m # 0
  OBVIOUS
<1>4. m - 1 \in 0 .. (N - 1) /\ m - 1 + 1 = m
  BY <1>3
<1>5. m - 1 \notin B
  BY <1>2, <1>3
<1>6. m - 1 \in T
  BY <1>4, <1>5
<1> QED BY <1>3, <1>4, <1>6

(* g is Written up to the n-th character.                                  *)
WrittenTo(text, n, g) ==
  g = [i \in 0 .. n |-> IF i = 0 THEN <<>> ELSE g[i - 1] \o Encoded(text[i])]

(* There is such a function for every text.                                 *)
LEMMA WrittenExists ==
  ASSUME NEW text, Len(text) \in Nat
  PROVE  \E g : WrittenTo(text, Len(text), g)
<1> DEFINE N == Len(text)
           T == {n \in 0 .. N : \E g : WrittenTo(text, n, g)}
<1>1. 0 \in T
  <2> DEFINE g == [i \in 0 .. 0 |-> <<>>]
  <2>1. WrittenTo(text, 0, g)
    BY DEF WrittenTo
  <2> QED BY <2>1
<1>2. ASSUME NEW n \in 0 .. (N - 1), n \in T PROVE n + 1 \in T
  <2>1. PICK g : WrittenTo(text, n, g)
    BY <1>2
  <2> DEFINE h == [i \in 0 .. (n + 1) |-> IF i = n + 1 THEN g[n] \o Encoded(text[n + 1]) ELSE g[i]]
  <2>2. \A i \in 0 .. n : h[i] = g[i] /\ g[i] = IF i = 0 THEN <<>> ELSE g[i - 1] \o Encoded(text[i])
    BY <2>1 DEF WrittenTo
  <2>3. \A i \in 0 .. (n + 1) : h[i] = IF i = 0 THEN <<>> ELSE h[i - 1] \o Encoded(text[i])
    <3>1. ASSUME NEW i \in 0 .. (n + 1)
          PROVE  h[i] = IF i = 0 THEN <<>> ELSE h[i - 1] \o Encoded(text[i])
      <4>1. CASE i = n + 1
        <5>0. n + 1 \in 0 .. (n + 1)
          OBVIOUS
        <5>1. h[n + 1] = g[n] \o Encoded(text[n + 1])
          BY <5>0, Zenon
        <5>3. i # 0 /\ i - 1 = n
          BY <4>1
        <5>2. h[n] = g[n]
          BY <2>2
        <5> HIDE DEF h
        <5> QED BY <4>1, <5>1, <5>2, <5>3
      <4>2. CASE i \in 0 .. n
        <5>1. i # 0 => i - 1 \in 0 .. n /\ h[i - 1] = g[i - 1]
          BY <2>2, <4>2
        <5>2. h[i] = g[i] /\ g[i] = IF i = 0 THEN <<>> ELSE g[i - 1] \o Encoded(text[i])
          BY <2>2, <4>2
        <5> HIDE DEF h
        <5> QED BY <5>1, <5>2
      <4> QED BY <4>1, <4>2
    <3> HIDE DEF h
    <3> QED BY <3>1
  <2>4. h = [i \in 0 .. (n + 1) |-> h[i]]
    OBVIOUS
  <2>5. WrittenTo(text, n + 1, h)
    <3> HIDE DEF h
    <3>1. [i \in 0 .. (n + 1) |-> h[i]] =
          [i \in 0 .. (n + 1) |-> IF i = 0 THEN <<>> ELSE h[i - 1] \o Encoded(text[i])]
      BY <2>3
    <3> QED BY <2>4, <3>1 DEF WrittenTo
  <2>6. n + 1 \in 0 .. N
    OBVIOUS
  <2> HIDE DEF h
  <2> QED BY <2>5, <2>6
<1>3. N \in T
  <2>1. N \in Nat /\ N \in 0 .. N
    OBVIOUS
  <2> HIDE DEF N, T
  <2> QED BY <1>1, <1>2, <2>1, CountedInduction
<1> QED BY <1>3

(* So Written is what its recursion says.                                   *)
LEMMA WrittenSteps ==
  ASSUME NEW text, Len(text) \in Nat
  PROVE  /\ Written(text)[0] = <<>>
         /\ \A i \in 1 .. Len(text) : Written(text)[i] = Written(text)[i - 1] \o Encoded(text[i])
         /\ \A i \in 0 .. (Len(text) - 1) :
              Written(text)[i + 1] = Written(text)[i] \o Encoded(text[i + 1])
<1> DEFINE w == CHOOSE g : WrittenTo(text, Len(text), g)
<1>1. WrittenTo(text, Len(text), w)
  BY WrittenExists
<1>2. Written(text) = w
  BY DEF Written, WrittenTo
<1> HIDE DEF w
<1>3. \A i \in 0 .. Len(text) : w[i] = IF i = 0 THEN <<>> ELSE w[i - 1] \o Encoded(text[i])
  BY <1>1 DEF WrittenTo
<1>4. w[0] = <<>>
  BY <1>3
<1>5. ASSUME NEW i \in 1 .. Len(text)
      PROVE  w[i] = w[i - 1] \o Encoded(text[i])
  <2>1. i \in 0 .. Len(text) /\ i # 0
    OBVIOUS
  <2> QED BY <1>3, <2>1
<1>6. ASSUME NEW i \in 0 .. (Len(text) - 1)
      PROVE  w[i + 1] = w[i] \o Encoded(text[i + 1])
  <2>1. i + 1 \in 1 .. Len(text) /\ (i + 1) - 1 = i
    OBVIOUS
  <2>2. w[i + 1] = w[(i + 1) - 1] \o Encoded(text[i + 1])
    BY <1>5, <2>1, Zenon
  <2> QED BY <2>1, <2>2
<1> QED BY <1>2, <1>4, <1>5, <1>6

(* What is written are bytes.                                               *)
LEMMA WrittenIsBytes ==
  ASSUME NEW text \in Seq(CodePoint)
  PROVE  \A i \in 0 .. Len(text) : Written(text)[i] \in Seq(Byte)
<1> DEFINE N == Len(text)
           w == Written(text)
           T == {i \in 0 .. N : w[i] \in Seq(Byte)}
<1>0. N \in Nat /\ \A i \in 1 .. N : text[i] \in CodePoint
  BY LenProperties, ElementOfSeq
<1>1. /\ w[0] = <<>> /\ \A i \in 0 .. (N - 1) : w[i + 1] = w[i] \o Encoded(text[i + 1])
  BY <1>0, WrittenSteps
<1> HIDE DEF w
<1>2. 0 \in T
  <2>1. 0 \in 0 .. N /\ <<>> \in Seq(Byte)
    BY <1>0, EmptySeq
  <2> HIDE DEF N
  <2> QED BY <1>1, <2>1
<1>3. ASSUME NEW i \in 0 .. (N - 1), i \in T PROVE i + 1 \in T
  <2>1. i + 1 \in 1 .. N /\ i + 1 - 1 = i /\ i + 1 \in 0 .. N
    BY <1>0
  <2>2. w[i + 1] = w[i] \o Encoded(text[i + 1])
    BY <1>1
  <2>3. Encoded(text[i + 1]) \in Seq(Byte)
    BY <1>0, <2>1, EncodedIsBytes
  <2>4. w[i] \in Seq(Byte)
    BY <1>3
  <2>5. w[i + 1] \in Seq(Byte)
    BY <2>2, <2>3, <2>4, ConcatProperties
  <2> QED BY <2>1, <2>5
<1>4. \A i \in 0 .. N : i \in T
  <2> HIDE DEF T, N
  <2> QED BY <1>0, <1>2, <1>3, CountedInduction
<1> QED BY <1>4 DEF w

(* What is written stays: the bytes of text[i] are behind those of the      *)
(* characters before it, in the whole.                                      *)
LEMMA WrittenStays ==
  ASSUME NEW text \in Seq(CodePoint), NEW i \in 0 .. Len(text)
  PROVE  \A j \in i .. Len(text) :
           /\ Len(Written(text)[i]) <= Len(Written(text)[j])
           /\ \A k \in 1 .. Len(Written(text)[i]) : Written(text)[j][k] = Written(text)[i][k]
<1> DEFINE N == Len(text)
           w == Written(text)
           Keeps(j) == /\ Len(w[i]) <= Len(w[j])
                       /\ \A k \in 1 .. Len(w[i]) : w[j][k] = w[i][k]
           T == {n \in 0 .. (N - i) : Keeps(i + n)}
<1>0. /\ N \in Nat /\ i \in Nat /\ N - i \in Nat
      /\ \A j \in 1 .. N : text[j] \in CodePoint
      /\ \A j \in 0 .. N : w[j] \in Seq(Byte) /\ Len(w[j]) \in Nat
  BY LenProperties, ElementOfSeq, WrittenIsBytes
<1>1. \A j \in 0 .. (N - 1) : w[j + 1] = w[j] \o Encoded(text[j + 1])
  BY <1>0, WrittenSteps
<1> HIDE DEF w
<1>2. 0 \in T
  BY <1>0
<1>3. ASSUME NEW n \in 0 .. (N - i - 1), n \in T PROVE n + 1 \in T
  <2> DEFINE j == i + n
  <2>1. j \in 0 .. N /\ j \in 0 .. (N - 1) /\ j + 1 \in 1 .. N /\ n + 1 \in 0 .. (N - i) /\ i + (n + 1) = j + 1
    BY <1>0
  <2>2. Keeps(j)
    BY <1>3
  <2> HIDE DEF j
  <2>3. w[j + 1] = w[j] \o Encoded(text[j + 1])
    BY <1>1, <2>1
  <2> DEFINE a == w[j]
             b == Encoded(text[j + 1])
  <2>4. a \in Seq(Byte) /\ b \in Seq(Byte) /\ Len(a) \in Nat /\ Len(b) \in Nat
    BY <1>0, <2>1, EncodedIsBytes
  <2>5. Len(w[i]) \in Nat /\ w[j + 1] = a \o b /\ Len(w[i]) <= Len(a) /\ \A k \in 1 .. Len(w[i]) : a[k] = w[i][k]
    BY <1>0, <2>2, <2>3
  <2> HIDE DEF a, b
  <2>6. Len(a \o b) = Len(a) + Len(b) /\ \A k \in 1 .. Len(a) : (a \o b)[k] = a[k]
    <3>1. /\ Len(a \o b) = Len(a) + Len(b)
          /\ \A k \in 1 .. Len(a) + Len(b) : (a \o b)[k] = IF k <= Len(a) THEN a[k] ELSE b[k - Len(a)]
      BY <2>4, ConcatProperties
    <3> QED BY <2>4, <3>1
  <2>7. Keeps(j + 1)
    BY <2>4, <2>5, <2>6
  <2> QED BY <2>1, <2>7
<1>4. \A n \in 0 .. (N - i) : n \in T
  <2> HIDE DEF T, N
  <2> QED BY <1>0, <1>2, <1>3, CountedInduction
<1>5. ASSUME NEW j \in i .. N PROVE Keeps(j)
  <2>1. j - i \in 0 .. (N - i) /\ i + (j - i) = j
    BY <1>0
  <2>2. Keeps(i + (j - i))
    BY <1>4, <2>1
  <2> HIDE DEF Keeps
  <2> QED BY <2>1, <2>2
<1> QED BY <1>5 DEF w

(* The bytes of text[i] in the whole.                                       *)
LEMMA BytesOf ==
  ASSUME NEW text \in Seq(CodePoint), NEW i \in 1 .. Len(text)
  PROVE  LET w == Written(text)
             s == w[Len(text)]
             b == Encoded(text[i])
         IN  /\ Len(w[i]) = Len(w[i - 1]) + Len(b) /\ Len(w[i]) <= Len(s)
             /\ \A k \in 1 .. Len(b) : s[Len(w[i - 1]) + k] = b[k]
<1> DEFINE w == Written(text)
           N == Len(text)
           s == w[N]
           a == w[i - 1]
           b == Encoded(text[i])
<1>0. N \in Nat /\ i \in 0 .. N /\ N \in i .. N /\ i - 1 \in 0 .. N /\ text[i] \in CodePoint
  BY LenProperties, ElementOfSeq
<1>1. w[i] = a \o b
  BY <1>0, WrittenSteps
<1>2. a \in Seq(Byte) /\ b \in Seq(Byte) /\ Len(a) \in Nat /\ Len(b) \in Nat
  BY <1>0, WrittenIsBytes, EncodedIsBytes, LenProperties
<1>3. Len(w[i]) <= Len(s) /\ \A k \in 1 .. Len(w[i]) : s[k] = w[i][k]
  BY <1>0, WrittenStays
<1> HIDE DEF w, a, b, s
<1>4. /\ Len(a \o b) = Len(a) + Len(b)
      /\ \A k \in 1 .. Len(a) + Len(b) : (a \o b)[k] = IF k <= Len(a) THEN a[k] ELSE b[k - Len(a)]
  BY <1>2, ConcatProperties
<1>5. ASSUME NEW k \in 1 .. Len(b) PROVE s[Len(a) + k] = b[k]
  <2>1. Len(a) + k \in 1 .. Len(a) + Len(b) /\ ~(Len(a) + k <= Len(a)) /\ Len(a) + k - Len(a) = k
    BY <1>2
  <2>2. (a \o b)[Len(a) + k] = b[k]
    BY <1>4, <2>1
  <2> QED BY <1>1, <1>3, <1>4, <2>1, <2>2
<1>6. Len(w[i]) = Len(a) + Len(b) /\ Len(w[i]) <= Len(s)
  BY <1>1, <1>3, <1>4
<1> QED BY <1>5, <1>6 DEF w, a, b, s

(* Walk, with its two cases by name; WalkTo: g is Walk on the last n bytes. *)
EmptyWalk == [cells |-> <<>>, olen |-> 0]
Put(s, i, rest) == [cells |-> Cells(s, i) \o rest.cells, olen |-> rest.olen + 1]
WalkAt(s, g, i) == IF i > Len(s) THEN EmptyWalk ELSE Put(s, i, g[i + Taken(s[i])])
WalkTo(s, n, g) == g = [i \in (Len(s) + 1 - n) .. (Len(s) + 4) |-> WalkAt(s, g, i)]

(* Whatever the byte, one to four are taken.                                *)
LEMMA TakenIsSmall == \A b : Taken(b) \in 1 .. 4
BY DEF Taken

(* There is such a function for every sequence of bytes.                    *)
LEMMA WalkExists ==
  ASSUME NEW s, Len(s) \in Nat
  PROVE  \E g : WalkTo(s, Len(s), g)
<1> DEFINE N == Len(s)
           T == {n \in 0 .. N : \E g : WalkTo(s, n, g)}
<1>1. 0 \in T
  <2> DEFINE g == [i \in (Len(s) + 1 - 0) .. (Len(s) + 4) |-> EmptyWalk]
  <2>1. WalkTo(s, 0, g)
    BY DEF WalkTo, WalkAt
  <2> HIDE DEF g
  <2> QED BY <2>1
<1>2. ASSUME NEW n \in 0 .. (N - 1), n \in T PROVE n + 1 \in T
  <2>1. PICK g : WalkTo(s, n, g)
    BY <1>2
  <2> DEFINE p == N - n
             h == [i \in (N + 1 - (n + 1)) .. (N + 4) |-> IF i = p THEN WalkAt(s, g, p) ELSE g[i]]
  <2>2. /\ p \in (N + 1 - (n + 1)) .. (N + 4) /\ p \in 1 .. N
        /\ \A i \in (p + 1) .. (N + 4) : i # p /\ i \in Nat /\ i \in (N + 1 - n) .. (N + 4)
                                         /\ i \in (N + 1 - (n + 1)) .. (N + 4)
        /\ \A i \in (N + 1 - (n + 1)) .. (N + 4) : i = p \/ i \in (p + 1) .. (N + 4)
    OBVIOUS
  <2>3. \A i \in (p + 1) .. (N + 4) : g[i] = WalkAt(s, g, i)
    BY <2>1, <2>2 DEF WalkTo
  <2>4. h[p] = WalkAt(s, g, p) /\ \A i \in (p + 1) .. (N + 4) : h[i] = g[i]
    BY <2>2, Zenon
  <2>5. h = [i \in (N + 1 - (n + 1)) .. (N + 4) |-> h[i]]
    OBVIOUS
  <2> HIDE DEF h
  <2>6. ASSUME NEW i \in (N + 1 - (n + 1)) .. (N + 4) PROVE h[i] = WalkAt(s, h, i)
    <3>1. i \in p .. (N + 4) /\ p \in Nat
      OBVIOUS
    <3>2. WalkAt(s, h, i) = WalkAt(s, g, i)
      <4>1. CASE i > N
        BY <4>1 DEF WalkAt
      <4>2. CASE i <= N
        <5>1. i + Taken(s[i]) \in (p + 1) .. (N + 4)
          BY <3>1, <4>2, TakenIsSmall
        <5>2. h[i + Taken(s[i])] = g[i + Taken(s[i])]
          BY <2>4, <5>1
        <5> QED BY <5>2 DEF WalkAt
      <4> QED BY <3>1, <4>1, <4>2
    <3>3. h[i] = WalkAt(s, g, i)
      <4>1. CASE i = p
        BY <2>4, <4>1
      <4>2. CASE i \in (p + 1) .. (N + 4)
        <5>1. h[i] = g[i]
          BY <2>4, <4>2
        <5>2. g[i] = WalkAt(s, g, i)
          BY <2>3, <4>2
        <5> QED BY <5>1, <5>2
      <4> QED BY <2>2, <4>1, <4>2
    <3> QED BY <3>2, <3>3
  <2>7. WalkTo(s, n + 1, h)
    <3>1. [i \in (N + 1 - (n + 1)) .. (N + 4) |-> h[i]] =
          [i \in (N + 1 - (n + 1)) .. (N + 4) |-> WalkAt(s, h, i)]
      BY <2>6
    <3> QED BY <2>5, <3>1 DEF WalkTo
  <2>8. n + 1 \in 0 .. N
    OBVIOUS
  <2> QED BY <2>7, <2>8
<1>3. N \in T
  <2>1. N \in Nat /\ N \in 0 .. N
    OBVIOUS
  <2> HIDE DEF N, T
  <2> QED BY <1>1, <1>2, <2>1, CountedInduction
<1> QED BY <1>3

(* So Walk is what its recursion says.                                      *)
LEMMA WalkSteps ==
  ASSUME NEW s, Len(s) \in Nat, NEW i \in 1 .. (Len(s) + 4)
  PROVE  Walk(s)[i] = WalkAt(s, Walk(s), i)
<1> DEFINE g == CHOOSE f : WalkTo(s, Len(s), f)
<1>1. WalkTo(s, Len(s), g)
  BY WalkExists
<1>2. Len(s) + 1 - Len(s) = 1
  OBVIOUS
<1>3. Walk(s) = g
  BY <1>2 DEF Walk, WalkTo, WalkAt, Put, EmptyWalk
<1> HIDE DEF g
<1>4. g = [k \in 1 .. (Len(s) + 4) |-> WalkAt(s, g, k)]
  BY <1>1, <1>2 DEF WalkTo
<1> QED BY <1>3, <1>4

(* From where text[k + 1] begins, the walk reads what is left of the text.  *)
LEMMA WalksBack ==
  ASSUME NEW text \in Seq(CodePoint), NEW k \in 0 .. Len(text)
  PROVE  Walk(Written(text)[Len(text)])[Len(Written(text)[k]) + 1] =
           [cells |-> SubSeq(text, k + 1, Len(text)), olen |-> Len(text) - k]
<1> DEFINE N == Len(text)
           w == Written(text)
           s == w[N]
           W == Walk(s)
           Back(j) == W[Len(w[j]) + 1] = [cells |-> SubSeq(text, j + 1, N), olen |-> N - j]
           T == {n \in 0 .. N : Back(N - n)}
<1>0. /\ N \in Nat /\ k \in Nat
      /\ \A j \in 1 .. N : text[j] \in CodePoint
      /\ \A j \in 0 .. N : w[j] \in Seq(Byte) /\ Len(w[j]) \in Nat
      /\ s \in Seq(Byte) /\ Len(s) \in Nat
  BY LenProperties, ElementOfSeq, WrittenIsBytes
<1>1. \A i \in 1 .. (Len(s) + 4) : W[i] = WalkAt(s, W, i)
  BY <1>0, WalkSteps
<1>2. ASSUME NEW j \in 1 .. N
      PROVE  LET b == Encoded(text[j])
             IN  /\ Len(w[j]) = Len(w[j - 1]) + Len(b) /\ Len(w[j]) <= Len(s)
                 /\ \A i \in 1 .. Len(b) : s[Len(w[j - 1]) + i] = b[i]
  BY <1>0, BytesOf
<1> HIDE DEF W
<1>3. Back(N)
  <2>1. Len(s) + 1 \in 1 .. (Len(s) + 4) /\ Len(s) + 1 > Len(s) /\ N - N = 0 /\ w[N] = s
    BY <1>0
  <2>2. W[Len(s) + 1] = EmptyWalk
    BY <1>1, <2>1 DEF WalkAt
  <2>3. SubSeq(text, N + 1, N) = <<>>
    BY <1>0, SubSeqEmpty
  <2> QED BY <2>1, <2>2, <2>3 DEF EmptyWalk
<1>4. ASSUME NEW j \in 1 .. N, Back(j) PROVE Back(j - 1)
  <2> DEFINE c == text[j]
             b == Encoded(c)
             p == Len(w[j - 1]) + 1
             q == Len(w[j]) + 1
  <2>1. /\ Len(w[j]) = Len(w[j - 1]) + Len(b) /\ Len(w[j]) <= Len(s)
        /\ \A i \in 1 .. Len(b) : s[Len(w[j - 1]) + i] = b[i]
    BY <1>2
  <2>2. /\ c \in CodePoint /\ Len(b) \in 1 .. 4 /\ Len(w[j - 1]) \in Nat /\ Len(w[j]) \in Nat
    BY <1>0, EncodedIsBytes
  <2>3. W[q] = [cells |-> SubSeq(text, j + 1, N), olen |-> N - j]
    BY <1>4
  <2> HIDE DEF w, s, c, b
  <2>4. p \in Nat \ {0} /\ p + Len(b) <= Len(s) + 1 /\ q = p + Len(b) /\ p <= Len(s)
    <3>1. Len(b) \in Nat /\ Len(b) >= 1
      <4>1. \A n \in 1 .. 4 : n \in Nat /\ n >= 1
        BY SMT
      <4> QED BY <2>2, <4>1, Zenon
    <3>2. Len(w[j]) = Len(w[j - 1]) + Len(b) /\ Len(w[j]) <= Len(s)
      BY <2>1
    <3> QED BY <1>0, <2>2, <3>1, <3>2
  <2>5. \A i \in 1 .. Len(b) : s[p + i - 1] = b[i]
    <3>1. ASSUME NEW i \in 1 .. Len(b) PROVE s[p + i - 1] = b[i]
      <4>1. p + i - 1 = Len(w[j - 1]) + i
        BY <2>2
      <4> QED BY <2>1, <4>1
    <3> QED BY <3>1
  <2>6. Taken(s[p]) = Len(b) /\ Cells(s, p) = <<c>>
    BY <1>0, <2>2, <2>4, <2>5, CharacterReadBack DEF b
  <2>7. p \in 1 .. (Len(s) + 4) /\ ~(p > Len(s))
    BY <1>0, <2>4
  <2>8. W[p] = Put(s, p, W[q])
    <3>1. W[p] = WalkAt(s, W, p)
      BY <1>1, <2>7
    <3> HIDE DEF p, q
    <3> QED BY <2>4, <2>6, <2>7, <3>1 DEF WalkAt
  <2>9. SubSeq(text, j, N) = <<c>> \o SubSeq(text, j + 1, N)
    <3>1. j \in 1 .. Len(text) /\ N \in j .. Len(text)
      BY <1>0
    <3> HIDE DEF N
    <3> QED BY <3>1, SubSeqRecursiveFirst DEF c
  <2>10. W[p] = [cells |-> SubSeq(text, j, N), olen |-> N - j + 1]
    <3> HIDE DEF N, p, q
    <3> QED BY <2>3, <2>6, <2>8, <2>9 DEF Put
  <2>11. (j - 1) + 1 = j /\ N - (j - 1) = N - j + 1
    BY <1>0
  <2>12. W[Len(w[j - 1]) + 1] = [cells |-> SubSeq(text, (j - 1) + 1, N), olen |-> N - (j - 1)]
    <3> HIDE DEF N
    <3> QED BY <2>10, <2>11
  <2> QED BY <2>12
<1> HIDE DEF w, s
<1>5. 0 \in T
  <2>1. 0 \in 0 .. N /\ N - 0 = N
    BY <1>0
  <2> HIDE DEF Back, N
  <2> QED BY <1>3, <2>1
<1>6. ASSUME NEW n \in 0 .. (N - 1), n \in T PROVE n + 1 \in T
  <2>1. N - n \in 1 .. N /\ (N - n) - 1 = N - (n + 1) /\ n + 1 \in 0 .. N
    BY <1>0
  <2> HIDE DEF Back
  <2>2. Back((N - n) - 1)
    BY <1>4, <1>6, <2>1
  <2>3. Back(N - (n + 1))
    BY <2>1, <2>2
  <2> QED BY <2>1, <2>3
<1>7. N - k \in 0 .. N /\ N - (N - k) = k
  BY <1>0
<1>8. N - k \in T
  <2> HIDE DEF T, N
  <2> QED BY <1>0, <1>5, <1>6, <1>7, CountedInduction
<1>9. Back(k)
  <2> HIDE DEF Back
  <2>1. Back(N - (N - k))
    BY <1>8
  <2> QED BY <1>7, <2>1
<1> QED BY <1>9 DEF w, s, W

(* tochar refuses no text of such characters.                               *)
LEMMA NoneTooLarge == \A c \in CodePoint : ~(c >= Ranges[4])
BY SMT DEF CodePoint, Ranges

(* Every text of characters that can be converted comes back from UTF-8     *)
(* character by character, and nothing is written behind the buffer.        *)
THEOREM TextReadBack ==
  ASSUME NEW text \in Seq(CodePoint)
  PROVE  ToWide(ToChar(text)) = [text |-> text, spilt |-> FALSE]
<1> DEFINE N == Len(text)
           s == Written(text)[N]
<1>0. N \in Nat /\ \A i \in 1 .. N : text[i] \in CodePoint
  BY LenProperties, ElementOfSeq
<1>1. ToChar(text) = s
  <2>1. DOMAIN text = 1 .. N
    BY LenProperties
  <2>2. \A i \in 1 .. N : ~(text[i] >= Ranges[4])
    BY <1>0, NoneTooLarge, Zenon
  <2> HIDE DEF s, N
  <2> QED BY <2>1, <2>2 DEF ToChar, s, N
<1>2. Walk(s)[1] = [cells |-> text, olen |-> N]
  <2>1. Written(text)[0] = <<>> /\ 0 \in 0 .. N /\ Len(<<>>) + 1 = 1 /\ N - 0 = N /\ 0 + 1 = 1
    <3>1. Written(text)[0] = <<>>
      BY <1>0, WrittenSteps
    <3>2. Len(<<>>) = 0
      BY EmptySeq
    <3> HIDE DEF N
    <3> QED BY <1>0, <3>1, <3>2
  <2>2. Walk(s)[Len(Written(text)[0]) + 1] = [cells |-> SubSeq(text, 0 + 1, N), olen |-> N - 0]
    BY <2>1, WalksBack
  <2>3. SubSeq(text, 1, N) = text
    BY SubSeqFull
  <2> HIDE DEF s, N
  <2> QED BY <2>1, <2>2, <2>3
<1> HIDE DEF s
<1>3. SubSeq(text, 1, N) = text
  BY SubSeqFull
<1>4. ~ \E i \in (N + 2) .. N : text[i] # Unset
  BY <1>0
<1>5. ToWide(s) = [text |-> SubSeq(text, 1, N),
                   spilt |-> \E i \in (N + 2) .. Len(text) : text[i] # Unset]
  BY <1>2 DEF ToWide
<1> QED BY <1>1, <1>3, <1>4, <1>5

(* Only ASCII characters take one byte.                                    *)
LEMMA OneByteIsAscii ==
  ASSUME NEW c \in CodePoint
  PROVE  c < 127 <=> Len(Encoded(c)) = 1
<1>0. c \in Nat
  BY CodePoints, SMT
<1>1. CASE OneByte(c)
  BY <1>1, SMT DEF OneByte
<1>2. CASE TwoBytes(c)
  BY <1>0, <1>2, SMT DEF TwoBytes
<1>3. CASE ThreeBytes(c)
  BY <1>0, <1>3, SMT DEF ThreeBytes
<1>4. CASE FourBytes(c)
  BY <1>0, <1>4, SMT DEF FourBytes
<1> QED BY <1>1, <1>2, <1>3, <1>4, EncodedShape

(* The first byte tells the size, and no other byte looks like a first one; *)
(* an ASCII character is its byte.                                          *)
LEMMA EncodedParts ==
  ASSUME NEW c \in CodePoint
  PROVE  LET e == Encoded(c)
         IN  /\ Taken(e[1]) = Len(e)
             /\ \A k \in 2 .. Len(e) : e[k] \in 128 .. 191
             /\ e[1] < 128 <=> Len(e) = 1
             /\ c < 127 <=> Len(e) = 1
             /\ Len(e) = 1 => e[1] = c
<1> DEFINE e == Encoded(c)
<1>0. c \in Nat
  BY CodePoints, SMT
<1>1. CASE OneByteOf(c, e)
  <2>1. e = <<c>> /\ c \in 0 .. 126
    BY <1>0, <1>1, SMT DEF OneByteOf
  <2>2. Taken(c) = 1
    BY <2>1, OneMask, Zenon
  <2>3. e[1] = c /\ Len(e) = 1
    BY <2>1
  <2>4. Taken(e[1]) = 1
    BY <2>2, <2>3
  <2> HIDE DEF e
  <2>5. \A k \in 2 .. Len(e) : e[k] \in 128 .. 191
    BY <2>3
  <2>6. /\ Taken(e[1]) = Len(e) /\ e[1] < 128 /\ Len(e) = 1 /\ c < 127 /\ e[1] = c
    BY <2>1, <2>3, <2>4
  <2> QED BY <2>5, <2>6 DEF e
<1>2. CASE TwoBytesOf(c, e)
  <2>0. PICK a \in 0 .. 31, d \in 0 .. 63 : c = 64 * a + d /\ e = <<192 + a, 128 + d>>
    BY <1>2 DEF TwoBytesOf
  <2>1. Taken(192 + a) = 2
    BY TwoMask, Zenon
  <2>2. Len(e) = 2 /\ e[1] = 192 + a /\ e[2] = 128 + d
    BY <2>0
  <2>3. Taken(e[1]) = 2
    BY <2>1, <2>2
  <2> HIDE DEF e
  <2>4. \A k \in 2 .. Len(e) : e[k] \in 128 .. 191
    <3>1. \A k \in 2 .. Len(e) : k = 2
      BY <2>2
    <3> QED BY <2>2, <3>1
  <2>5. ~(e[1] < 128) /\ Len(e) # 1
    BY <2>2
  <2> QED BY <2>2, <2>3, <2>4, <2>5, OneByteIsAscii DEF e
<1>3. CASE ThreeBytesOf(c, e)
  <2>0. PICK a \in 0 .. 15, b \in 0 .. 63, d \in 0 .. 63 : e = <<224 + a, 128 + b, 128 + d>>
    BY <1>3 DEF ThreeBytesOf
  <2>1. Taken(224 + a) = 3
    BY ThreeMask, Zenon
  <2>2. Len(e) = 3 /\ e[1] = 224 + a /\ e[2] = 128 + b /\ e[3] = 128 + d
    BY <2>0
  <2>3. Taken(e[1]) = 3
    BY <2>1, <2>2
  <2> HIDE DEF e
  <2>4. \A k \in 2 .. Len(e) : e[k] \in 128 .. 191
    <3>1. \A k \in 2 .. Len(e) : k = 2 \/ k = 3
      BY <2>2
    <3> QED BY <2>2, <3>1
  <2>5. ~(e[1] < 128) /\ Len(e) # 1
    BY <2>2
  <2> QED BY <2>2, <2>3, <2>4, <2>5, OneByteIsAscii DEF e
<1>4. CASE FourBytesOf(c, e)
  <2>0. PICK a \in 0 .. 4, b \in 0 .. 63, d \in 0 .. 63, f \in 0 .. 63 :
          e = <<240 + a, 128 + b, 128 + d, 128 + f>>
    BY <1>4 DEF FourBytesOf
  <2>1. Taken(240 + a) = 4
    BY FourMask, Zenon
  <2>2. Len(e) = 4 /\ e[1] = 240 + a /\ e[2] = 128 + b /\ e[3] = 128 + d /\ e[4] = 128 + f
    BY <2>0
  <2>3. Taken(e[1]) = 4
    BY <2>1, <2>2
  <2> HIDE DEF e
  <2>4. \A k \in 2 .. Len(e) : e[k] \in 128 .. 191
    <3>1. \A k \in 2 .. Len(e) : k = 2 \/ k = 3 \/ k = 4
      BY <2>2
    <3> QED BY <2>2, <3>1
  <2>5. ~(e[1] < 128) /\ Len(e) # 1
    BY <2>2
  <2> QED BY <2>2, <2>3, <2>4, <2>5, OneByteIsAscii DEF e
<1> QED BY <1>1, <1>2, <1>3, <1>4, EncodedDigits

(* Bytes and readable characters by their bounds.                           *)
LEMMA ByteBound == \A b \in Byte : b \in Nat /\ b < 256
BY SMT DEF Byte

(* What the masks leave is below 2^21, and so is less than what stands for  *)
(* a cell that was not written.                                             *)
LEMMA ReadableBound == Unset \in Cell /\ \A x \in Nat : x <= 2097151 => x \in Cell
<1>1. Place[4] = 262144
  BY SMT DEF Place
<1>2. Unset \in Nat /\ \A x \in Nat : x <= 2097151 => x <= Unset
  BY <1>1, SMT DEF Unset
<1>3. Unset \in Nat
  BY <1>2, SMT
<1>4. ASSUME NEW x \in Nat, x <= Unset PROVE x \in Cell
  <2>1. x \in 0 .. Unset
    BY <1>3, <1>4
  <2> QED BY <2>1 DEF Cell
<1>5. Unset \in Cell
  BY <1>3, <1>4
<1> QED BY <1>2, <1>4, <1>5, SMT

(* Every cell holds what fits the masks, the question mark, or nothing; a   *)
(* character takes one cell, or two if it is malformed.                     *)
LEMMA CellsType ==
  ASSUME NEW s \in Seq(Byte), NEW i \in Nat \ {0}, i <= Len(s)
  PROVE  /\ Cells(s, i) \in Seq(Cell)
         /\ Malformed(s, i) => Len(Cells(s, i)) = 2
         /\ ~Malformed(s, i) => Len(Cells(s, i)) = 1
<1>0. i \in Nat /\ Len(s) \in Nat /\ \A k \in 1 .. Len(s) : s[k] \in Nat
  <2>1. \A k \in 1 .. Len(s) : s[k] \in Byte
    BY ElementOfSeq
  <2> QED BY <2>1, LenProperties, ByteBound
<1>2. CASE Malformed(s, i)
  <2>1. QuestionMark \in Cell /\ Unset \in Cell
    <3>1. QuestionMark \in Nat /\ QuestionMark <= 2097151
      BY SMT DEF QuestionMark
    <3> QED BY <3>1, ReadableBound, SMT
  <2>2. Cells(s, i) = <<QuestionMark, Unset>>
    BY <1>2 DEF Cells
  <2> QED BY <1>2, <2>1, <2>2
<1>3. CASE ~Malformed(s, i)
  <2>1. Decoded(s, i) \in Cell
    <3>0. i + Taken(s[i]) - 1 <= Len(s)
      BY <1>0, <1>3, TakenIsSmall DEF Malformed
    <3>1. CASE Taken(s[i]) = 1
      <4> DEFINE a == s[i] % 256
      <4>1. Decoded(s, i) = a * 1 + 0 + 0 + 0
        BY <3>1, SMT DEF Decoded, LeadMod, Place
      <4>2. s[i] \in Nat
        BY <1>0, <3>0, <3>1
      <4>3. a \in Nat /\ a <= 255
        BY <4>2, SMT
      <4> HIDE DEF a
      <4>4. a * 1 + 0 + 0 + 0 \in Nat /\ a * 1 + 0 + 0 + 0 <= 2097151
        BY <4>3, SMT
      <4> QED BY <4>1, <4>4, ReadableBound, SMT
    <3>2. CASE Taken(s[i]) = 2
      <4> DEFINE b == s[i] % 32
                 e == s[i + 1] % 64
      <4>1. Decoded(s, i) = b * 64 + e * 1 + 0 + 0
        BY <3>2, SMT DEF Decoded, LeadMod, Place
      <4>2. s[i] \in Nat /\ s[i + 1] \in Nat
        BY <1>0, <3>0, <3>2
      <4>3. b \in Nat /\ b <= 31 /\ e \in Nat /\ e <= 63
        BY <4>2, SMT
      <4> HIDE DEF b, e
      <4>4. b * 64 + e * 1 + 0 + 0 \in Nat /\ b * 64 + e * 1 + 0 + 0 <= 2097151
        BY <4>3, SMT
      <4> QED BY <4>1, <4>4, ReadableBound, SMT
    <3>3. CASE Taken(s[i]) = 3
      <4> DEFINE c == s[i] % 16
                 e == s[i + 1] % 64
                 f == s[i + 2] % 64
      <4>1. Decoded(s, i) = c * 4096 + e * 64 + f * 1 + 0
        BY <3>3, SMT DEF Decoded, LeadMod, Place
      <4>2. s[i] \in Nat /\ s[i + 1] \in Nat /\ s[i + 2] \in Nat
        BY <1>0, <3>0, <3>3
      <4>3. c \in Nat /\ c <= 15 /\ e \in Nat /\ e <= 63 /\ f \in Nat /\ f <= 63
        BY <4>2, SMT
      <4> HIDE DEF c, e, f
      <4>4. c * 4096 + e * 64 + f * 1 + 0 \in Nat /\ c * 4096 + e * 64 + f * 1 + 0 <= 2097151
        BY <4>3, SMT
      <4> QED BY <4>1, <4>4, ReadableBound, SMT
    <3>4. CASE Taken(s[i]) = 4
      <4> DEFINE d == s[i] % 8
                 e == s[i + 1] % 64
                 f == s[i + 2] % 64
                 g == s[i + 3] % 64
      <4>1. Decoded(s, i) = d * 262144 + e * 4096 + f * 64 + g * 1
        BY <3>4, SMT DEF Decoded, LeadMod, Place
      <4>2. s[i] \in Nat /\ s[i + 1] \in Nat /\ s[i + 2] \in Nat /\ s[i + 3] \in Nat
        BY <1>0, <3>0, <3>4
      <4>3. d \in Nat /\ d <= 7 /\ e \in Nat /\ e <= 63
        BY <4>2, SMT
      <4>5. f \in Nat /\ f <= 63 /\ g \in Nat /\ g <= 63
        BY <4>2, SMT
      <4> HIDE DEF d, e, f, g
      <4>4. d * 262144 + e * 4096 + f * 64 + g * 1 \in Nat /\ d * 262144 + e * 4096 + f * 64 + g * 1 <= 2097151
        BY <4>3, <4>5, SMT
      <4> QED BY <4>1, <4>4, ReadableBound, SMT
    <3>5. Taken(s[i]) = 1 \/ Taken(s[i]) = 2 \/ Taken(s[i]) = 3 \/ Taken(s[i]) = 4
      BY DEF Taken
    <3> QED BY <3>1, <3>2, <3>3, <3>4, <3>5
  <2>2. Cells(s, i) = <<Decoded(s, i)>>
    BY <1>3 DEF Cells
  <2> QED BY <1>3, <2>1, <2>2
<1> QED BY <1>2, <1>3

(* From wherever the walk begins it has a cell at least for each character  *)
(* it counts.                                                               *)
Walked == [cells : Seq(Cell), olen : Nat]
LEMMA WalkType ==
  ASSUME NEW s \in Seq(Byte), NEW i \in 1 .. (Len(s) + 4)
  PROVE  Walk(s)[i] \in Walked /\ Walk(s)[i].olen <= Len(Walk(s)[i].cells)
<1> DEFINE W == Walk(s)
           M == Len(s) + 4
           Typed(j) == W[j] \in Walked /\ W[j].olen <= Len(W[j].cells)
           Bad == {n \in Nat : \E j \in 1 .. M : n = M - j /\ ~Typed(j)}
<1>0. Len(s) \in Nat
  BY LenProperties
<1>1. \A j \in 1 .. M : W[j] = WalkAt(s, W, j)
  BY <1>0, WalkSteps
<1> HIDE DEF W, Typed
<1>2. Bad = {}
  <2> SUFFICES ASSUME Bad # {} PROVE FALSE
    OBVIOUS
  <2>1. PICK n \in Bad : \A k \in Bad : n <= k
    <3>1. Bad \in SUBSET Nat
      OBVIOUS
    <3> HIDE DEF Bad
    <3> QED BY <3>1, LeastNumber
  <2>2. PICK j \in 1 .. M : n = M - j /\ ~Typed(j)
    OBVIOUS
  <2>3. ASSUME NEW k \in (j + 1) .. M PROVE Typed(k)
    <3> SUFFICES ASSUME ~Typed(k) PROVE FALSE
      OBVIOUS
    <3>1. k \in 1 .. M /\ M - k \in Nat /\ M - k < n
      BY <1>0, <2>2
    <3>2. M - k \in Bad
      BY <3>1
    <3>3. n <= M - k
      BY <2>1, <3>2
    <3> HIDE DEF Bad
    <3> QED BY <1>0, <2>2, <3>1, <3>3
  <2>4. CASE j > Len(s)
    <3>1. W[j] = EmptyWalk
      BY <1>1, <2>4 DEF WalkAt
    <3>2. EmptyWalk \in Walked /\ EmptyWalk.olen <= Len(EmptyWalk.cells)
      BY EmptySeq DEF EmptyWalk, Walked
    <3> QED BY <2>2, <3>1, <3>2 DEF Typed
  <2>5. CASE j <= Len(s)
    <3> DEFINE q == j + Taken(s[j])
               C == Cells(s, j)
    <3>1. q \in (j + 1) .. M
      BY <1>0, <2>5, TakenIsSmall
    <3>2. Typed(q)
      BY <2>3, <3>1
    <3>3. W[j] = Put(s, j, W[q])
      BY <1>0, <1>1, <2>5 DEF WalkAt
    <3>4. C \in Seq(Cell) /\ Len(C) \in {1, 2}
      <4>1. j \in Nat \ {0}
        BY <1>0, <2>5
      <4> QED BY <2>5, <4>1, CellsType
    <3> HIDE DEF q, C
    <3> DEFINE r == W[q]
    <3>5. r.cells \in Seq(Cell) /\ r.olen \in Nat /\ r.olen <= Len(r.cells) /\ Len(r.cells) \in Nat
      BY <3>2, LenProperties DEF Typed, Walked
    <3>6. W[j] = [cells |-> C \o r.cells, olen |-> r.olen + 1]
      BY <3>3 DEF Put, C
    <3> HIDE DEF r
    <3>7. C \o r.cells \in Seq(Cell) /\ Len(C \o r.cells) = Len(C) + Len(r.cells)
      BY <3>4, <3>5, ConcatProperties
    <3> DEFINE o == r.olen
               l == Len(r.cells)
               m == Len(C)
    <3>8. o + 1 <= m + l /\ o + 1 \in Nat
      <4>1. o \in Nat /\ l \in Nat /\ o <= l /\ (m = 1 \/ m = 2)
        BY <3>4, <3>5
      <4> HIDE DEF o, l, m
      <4> QED BY <4>1, SMT
    <3>9. Typed(j)
      BY <3>6, <3>7, <3>8 DEF Typed, Walked
    <3> QED BY <2>2, <3>9
  <2> QED BY <1>0, <2>4, <2>5
<1>3. Typed(i)
  <2> SUFFICES ASSUME ~Typed(i) PROVE FALSE
    OBVIOUS
  <2>1. M - i \in Nat
    BY <1>0
  <2>2. M - i \in Bad
    BY <2>1
  <2> QED BY <1>2, <2>2
<1> QED BY <1>3 DEF Typed, W

(* The bytes of the first k characters are those of that text.              *)
LEMMA WrittenPrefix ==
  ASSUME NEW text \in Seq(CodePoint), NEW k \in 0 .. Len(text)
  PROVE  LET first == SubSeq(text, 1, k)
         IN  first \in Seq(CodePoint) /\ Len(first) = k /\ Written(first)[k] = Written(text)[k]
<1> DEFINE first == SubSeq(text, 1, k)
           w == Written(text)
           v == Written(first)
           T == {i \in 0 .. k : v[i] = w[i]}
<1>0. Len(text) \in Nat /\ k \in Nat /\ \A i \in 1 .. Len(text) : text[i] \in CodePoint
  BY LenProperties, ElementOfSeq
<1>1. first \in Seq(CodePoint) /\ Len(first) = k /\ \A i \in 1 .. k : first[i] = text[i]
  <2>1. \A i \in 1 .. k : text[i] \in CodePoint
    BY <1>0
  <2>2. /\ SubSeq(text, 1, k) \in Seq(CodePoint)
        /\ Len(SubSeq(text, 1, k)) = IF 1 <= k THEN k - 1 + 1 ELSE 0
        /\ \A i \in 1 .. (k - 1 + 1) : SubSeq(text, 1, k)[i] = text[1 + i - 1]
    BY <1>0, <2>1, SubSeqProperties
  <2> HIDE DEF first
  <2>3. Len(first) = k
    BY <1>0, <2>2 DEF first
  <2>4. ASSUME NEW i \in 1 .. k PROVE first[i] = text[i]
    <3>1. i \in 1 .. (k - 1 + 1) /\ 1 + i - 1 = i
      BY <1>0
    <3>2. SubSeq(text, 1, k)[i] = text[1 + i - 1]
      BY <2>2, <3>1
    <3> QED BY <3>1, <3>2 DEF first
  <2> QED BY <2>2, <2>3, <2>4 DEF first
<1> HIDE DEF first
<1>2. /\ w[0] = <<>> /\ \A i \in 0 .. (Len(text) - 1) : w[i + 1] = w[i] \o Encoded(text[i + 1])
      /\ v[0] = <<>> /\ \A i \in 0 .. (Len(first) - 1) : v[i + 1] = v[i] \o Encoded(first[i + 1])
  BY <1>0, <1>1, WrittenSteps
<1> HIDE DEF v, w
<1>3. 0 \in T
  BY <1>0, <1>2
<1>4. ASSUME NEW i \in 0 .. (k - 1), i \in T PROVE i + 1 \in T
  <2>1. i + 1 \in 1 .. k /\ i + 1 \in 0 .. k /\ i \in 0 .. (Len(text) - 1) /\ i \in 0 .. (Len(first) - 1)
    BY <1>0, <1>1
  <2>2. v[i] = w[i] /\ first[i + 1] = text[i + 1]
    BY <1>1, <1>4, <2>1
  <2>3. v[i + 1] = w[i + 1]
    BY <1>2, <2>1, <2>2
  <2> QED BY <2>1, <2>3
<1>5. k \in T
  <2>1. k \in 0 .. k
    BY <1>0
  <2> HIDE DEF T
  <2> QED BY <1>0, <1>3, <1>4, <2>1, CountedInduction
<1> QED BY <1>1, <1>5 DEF first, v, w

(* tochar in terms of the text as it is written.                            *)
LEMMA ToStrIsWritten ==
  ASSUME NEW text \in Seq(CodePoint)
  PROVE  ToStr(text) = Written(text)[Len(text)]
<1>0. Len(text) \in Nat /\ DOMAIN text = 1 .. Len(text)
  BY LenProperties
<1>1. \A i \in 1 .. Len(text) : ~(text[i] >= Ranges[4])
  BY ElementOfSeq, NoneTooLarge, Zenon
<1> QED BY <1>0, <1>1 DEF ToStr, ToChar

(* The first k characters are written as the first of those bytes.          *)
LEMMA PrefixBytes ==
  ASSUME NEW text \in Seq(CodePoint), NEW k \in 0 .. Len(text)
  PROVE  ToStr(SubSeq(text, 1, k)) = Written(text)[k]
<1> DEFINE first == SubSeq(text, 1, k)
<1>1. first \in Seq(CodePoint) /\ Len(first) = k /\ Written(first)[k] = Written(text)[k]
  BY WrittenPrefix
<1> HIDE DEF first
<1>2. ToStr(first) = Written(text)[k]
  BY <1>1, ToStrIsWritten
<1> QED BY <1>2 DEF first

(* Every byte is one of a character.                                        *)
LEMMA Within ==
  ASSUME NEW text \in Seq(CodePoint), NEW q \in Nat \ {0},
         q <= Len(Written(text)[Len(text)])
  PROVE  \E j \in 1 .. Len(text) :
           Len(Written(text)[j - 1]) < q /\ q <= Len(Written(text)[j])
<1> DEFINE N == Len(text)
           w == Written(text)
           T == {j \in 0 .. N : q <= Len(w[j])}
<1>0. N \in Nat /\ w[0] = <<>> /\ \A j \in 0 .. N : Len(w[j]) \in Nat
  BY LenProperties, WrittenSteps, WrittenIsBytes
<1> HIDE DEF w
<1>1. N \in T /\ T \in SUBSET Nat
  BY <1>0 DEF w
<1>2. PICK j \in T : \A n \in T : j <= n
  <2> HIDE DEF T
  <2> QED BY <1>1, LeastNumber
<1>3. j # 0 /\ j \in 0 .. N /\ q <= Len(w[j])
  <2>1. Len(<<>>) = 0
    BY EmptySeq
  <2> QED BY <1>0, <1>2, <2>1
<1>4. j \in 1 .. N /\ j - 1 \in 0 .. N /\ ~(j <= j - 1)
  BY <1>0, <1>3
<1>5. ~(q <= Len(w[j - 1]))
  BY <1>2, <1>4
<1>6. Len(w[j - 1]) < q
  BY <1>0, <1>4, <1>5
<1> QED BY <1>3, <1>4, <1>6 DEF w

(* The walk passes the characters whose bytes are as they were, and goes on *)
(* from behind them.                                                        *)
LEMMA WalksOver ==
  ASSUME NEW text \in Seq(CodePoint), NEW m \in 0 .. Len(text), NEW s \in Seq(Byte),
         Len(Written(text)[m]) <= Len(s),
         \A k \in 1 .. Len(Written(text)[m]) : s[k] = Written(text)[m][k]
  PROVE  LET rest == Walk(s)[Len(Written(text)[m]) + 1]
         IN  Walk(s)[1] = [cells |-> SubSeq(text, 1, m) \o rest.cells, olen |-> m + rest.olen]
<1> DEFINE N == Len(text)
           w == Written(text)
           W == Walk(s)
           rest == W[Len(w[m]) + 1]
           Over(j) == W[Len(w[j]) + 1] = [cells |-> SubSeq(text, j + 1, m) \o rest.cells,
                                          olen |-> (m - j) + rest.olen]
           T == {n \in 0 .. m : Over(m - n)}
<1>0. /\ N \in Nat /\ m \in Nat
      /\ \A j \in 1 .. N : text[j] \in CodePoint
      /\ \A j \in 0 .. N : w[j] \in Seq(Byte) /\ Len(w[j]) \in Nat
      /\ Len(s) \in Nat
  BY LenProperties, ElementOfSeq, WrittenIsBytes
<1>1. \A i \in 1 .. (Len(s) + 4) : W[i] = WalkAt(s, W, i) /\ W[i] \in Walked
  BY <1>0, WalkSteps, WalkType
<1>2. ASSUME NEW j \in 1 .. m
      PROVE  LET b == Encoded(text[j])
             IN  /\ Len(w[j]) = Len(w[j - 1]) + Len(b) /\ Len(w[j]) <= Len(w[m])
                 /\ \A i \in 1 .. Len(b) : s[Len(w[j - 1]) + i] = b[i]
  <2> DEFINE b == Encoded(text[j])
             p == Len(w[j - 1])
  <2>1. j \in 1 .. N /\ j \in 0 .. N /\ j - 1 \in 0 .. N /\ m \in j .. N /\ text[j] \in CodePoint
    BY <1>0
  <2>2. w[j] = w[j - 1] \o b
    <3>1. j - 1 \in 0 .. (N - 1) /\ (j - 1) + 1 = j
      BY <2>1
    <3>2. w[(j - 1) + 1] = w[j - 1] \o Encoded(text[(j - 1) + 1])
      BY <1>0, <3>1, WrittenSteps
    <3> QED BY <3>1, <3>2
  <2>3. w[j - 1] \in Seq(Byte) /\ b \in Seq(Byte) /\ p \in Nat /\ Len(b) \in Nat
    BY <1>0, <2>1, EncodedIsBytes, LenProperties
  <2>4. Len(w[j]) <= Len(w[m]) /\ \A i \in 1 .. Len(w[j]) : w[m][i] = w[j][i]
    BY <2>1, WrittenStays
  <2> HIDE DEF b, w
  <2>5. /\ Len(w[j]) = p + Len(b)
        /\ \A i \in 1 .. p + Len(b) : w[j][i] = IF i <= p THEN w[j - 1][i] ELSE b[i - p]
    BY <2>2, <2>3, ConcatProperties
  <2>6. ASSUME NEW i \in 1 .. Len(b) PROVE s[p + i] = b[i]
    <3>0. Len(w[m]) \in Nat /\ Len(w[j]) <= Len(w[m]) /\ Len(w[j]) = p + Len(b)
      <4>1. m \in 0 .. N
        BY <1>0
      <4> QED BY <1>0, <2>4, <2>5, <4>1 DEF w
    <3> DEFINE x == Len(w[j])
               y == Len(w[m])
    <3> HIDE DEF x, y, p
    <3>1. p + i \in 1 .. x /\ ~(p + i <= p) /\ (p + i) - p = i /\ p + i \in 1 .. y
      BY <2>3, <3>0 DEF x, y
    <3> USE DEF x, y, p
    <3>2. s[p + i] = w[m][p + i]
      BY <3>1 DEF w
    <3> QED BY <2>4, <2>5, <3>1, <3>2
  <2> QED BY <2>4, <2>5, <2>6 DEF b, w
<1>3. Len(w[m]) + 1 \in 1 .. (Len(s) + 4) /\ Len(w[m]) <= Len(s)
  BY <1>0
<1>4. rest \in Walked
  BY <1>1, <1>3
<1> HIDE DEF W, w
<1>5. Over(m)
  <2>1. SubSeq(text, m + 1, m) = <<>>
    BY <1>0, SubSeqEmpty
  <2> HIDE DEF rest
  <2>2. <<>> \o rest.cells = rest.cells /\ rest.olen \in Nat /\ rest = [cells |-> rest.cells, olen |-> rest.olen]
    BY <1>4, ConcatEmptySeq DEF Walked
  <2>3. (m - m) + rest.olen = rest.olen
    BY <1>0, <2>2
  <2>4. rest = [cells |-> SubSeq(text, m + 1, m) \o rest.cells, olen |-> (m - m) + rest.olen]
    BY <2>1, <2>2, <2>3
  <2> QED BY <2>4 DEF rest
<1>6. ASSUME NEW j \in 1 .. m, Over(j) PROVE Over(j - 1)
  <2> DEFINE c == text[j]
             b == Encoded(c)
             p == Len(w[j - 1]) + 1
             q == Len(w[j]) + 1
             X == SubSeq(text, j + 1, m)
  <2>1. /\ Len(w[j]) = Len(w[j - 1]) + Len(b) /\ Len(w[j]) <= Len(s)
        /\ \A i \in 1 .. Len(b) : s[Len(w[j - 1]) + i] = b[i]
    <3>1. Len(w[j]) \in Nat /\ Len(w[m]) \in Nat
      BY <1>0
    <3>2. Len(w[j]) <= Len(w[m])
      BY <1>2
    <3>3. Len(w[j]) <= Len(s)
      BY <1>0, <1>3, <3>1, <3>2
    <3> QED BY <1>2, <3>3
  <2>2. c \in CodePoint /\ Len(b) \in 1 .. 4 /\ Len(w[j - 1]) \in Nat /\ Len(w[j]) \in Nat
    BY <1>0, EncodedIsBytes
  <2>3. W[q] = [cells |-> X \o rest.cells, olen |-> (m - j) + rest.olen]
    BY <1>6
  <2> HIDE DEF w, c, b
  <2>4. p \in Nat \ {0} /\ p + Len(b) <= Len(s) + 1 /\ q = p + Len(b) /\ p <= Len(s)
    <3>1. Len(b) \in Nat /\ Len(b) >= 1
      <4>1. \A n \in 1 .. 4 : n \in Nat /\ n >= 1
        BY SMT
      <4> QED BY <2>2, <4>1, Zenon
    <3>2. Len(w[j]) = Len(w[j - 1]) + Len(b) /\ Len(w[j]) <= Len(s)
      BY <2>1
    <3> QED BY <1>0, <2>2, <3>1, <3>2
  <2>5. \A i \in 1 .. Len(b) : s[p + i - 1] = b[i]
    <3>1. ASSUME NEW i \in 1 .. Len(b) PROVE s[p + i - 1] = b[i]
      <4>1. p + i - 1 = Len(w[j - 1]) + i
        BY <2>2
      <4> QED BY <2>1, <4>1
    <3> QED BY <3>1
  <2>6. Taken(s[p]) = Len(b) /\ Cells(s, p) = <<c>>
    BY <1>0, <2>2, <2>4, <2>5, CharacterReadBack DEF b
  <2>7. p \in 1 .. (Len(s) + 4) /\ ~(p > Len(s))
    BY <1>0, <2>4
  <2>8. W[p] = Put(s, p, W[q])
    <3>1. W[p] = WalkAt(s, W, p)
      BY <1>1, <2>7
    <3> HIDE DEF p, q
    <3> QED BY <2>4, <2>6, <2>7, <3>1 DEF WalkAt
  <2>9. SubSeq(text, j, m) = <<c>> \o X
    <3>1. j \in 1 .. Len(text) /\ m \in j .. Len(text)
      BY <1>0
    <3> HIDE DEF N
    <3> QED BY <3>1, SubSeqRecursiveFirst DEF c
  <2>10. (<<c>> \o X) \o rest.cells = <<c>> \o (X \o rest.cells)
    <3>1. c \in Nat
      BY <2>2, CodePoints
    <3>2. \A i \in (j + 1) .. m : text[i] \in CodePoint
      BY <1>0
    <3>3. X \in Seq(CodePoint)
      BY <1>0, <3>2, SubSeqProperties
    <3>4. rest.cells \in Seq(Cell)
      BY <1>4 DEF Walked
    <3> DEFINE S == CodePoint \cup Cell
               y == rest.cells
    <3>5. CodePoint \subseteq S /\ Cell \subseteq S
      OBVIOUS
    <3> HIDE DEF X, y, S
    <3>6. X \in Seq(S) /\ y \in Seq(S)
      BY <3>3, <3>4, <3>5, SeqMonotonic DEF y
    <3>7. <<c>> \in Seq(S)
      BY <2>2, <3>5
    <3>8. (<<c>> \o X) \o y = <<c>> \o (X \o y)
      BY <3>6, <3>7, ConcatAssociative
    <3> QED BY <3>8 DEF y
  <2>11. W[p] = [cells |-> SubSeq(text, j, m) \o rest.cells, olen |-> (m - j) + rest.olen + 1]
    <3> DEFINE r == W[q]
               y == rest.cells
               o == (m - j) + rest.olen
    <3>1. r.cells = X \o y /\ r.olen = o
      <4> HIDE DEF q, X, y, o
      <4>1. r = [cells |-> X \o y, olen |-> o]
        BY <2>3 DEF y, o
      <4> HIDE DEF r
      <4> QED BY <4>1
    <3>2. W[p] = [cells |-> <<c>> \o r.cells, olen |-> r.olen + 1]
      <4> HIDE DEF p, q
      <4> QED BY <2>6, <2>8 DEF Put
    <3>3. SubSeq(text, j, m) \o y = <<c>> \o (X \o y)
      <4> HIDE DEF X, rest
      <4> QED BY <2>9, <2>10
    <3> HIDE DEF X, y, o, r, p
    <3>4. W[p] = [cells |-> SubSeq(text, j, m) \o y, olen |-> o + 1]
      BY <3>1, <3>2, <3>3
    <3> QED BY <3>4 DEF y, o
  <2>12. (j - 1) + 1 = j /\ (m - j) + rest.olen + 1 = (m - (j - 1)) + rest.olen
    <3>1. rest.olen \in Nat
      BY <1>4 DEF Walked
    <3> DEFINE o == rest.olen
    <3> HIDE DEF o
    <3>2. o \in Nat
      BY <3>1 DEF o
    <3>3. (m - j) + o + 1 = (m - (j - 1)) + o
      BY <1>0, <3>2
    <3> QED BY <1>0, <3>3 DEF o
  <2>13. W[Len(w[j - 1]) + 1] = [cells |-> SubSeq(text, (j - 1) + 1, m) \o rest.cells,
                                 olen |-> (m - (j - 1)) + rest.olen]
    <3> HIDE DEF N, rest
    <3> QED BY <2>11, <2>12
  <2> QED BY <2>13
<1> HIDE DEF rest
<1>7. 0 \in T
  <2>1. 0 \in 0 .. m /\ m - 0 = m
    BY <1>0
  <2> HIDE DEF Over
  <2> QED BY <1>5, <2>1
<1>8. ASSUME NEW n \in 0 .. (m - 1), n \in T PROVE n + 1 \in T
  <2>1. m - n \in 1 .. m /\ (m - n) - 1 = m - (n + 1) /\ n + 1 \in 0 .. m
    BY <1>0
  <2> HIDE DEF Over
  <2>2. Over((m - n) - 1)
    BY <1>6, <1>8, <2>1
  <2>3. Over(m - (n + 1))
    BY <2>1, <2>2
  <2> QED BY <2>1, <2>3
<1>9. m \in T
  <2>1. m \in 0 .. m
    BY <1>0
  <2> HIDE DEF T
  <2> QED BY <1>0, <1>7, <1>8, <2>1, CountedInduction
<1>10. Over(0)
  <2> HIDE DEF Over
  <2>1. m - m = 0
    BY <1>0
  <2>2. Over(m - m)
    BY <1>9
  <2> QED BY <2>1, <2>2
<1>11. w[0] = <<>>
  BY <1>0, WrittenSteps DEF w
<1>12. Len(<<>>) + 1 = 1 /\ 0 + 1 = 1 /\ m - 0 = m
  <2>1. Len(<<>>) = 0
    BY EmptySeq
  <2> QED BY <1>0, <2>1
<1>13. W[1] = [cells |-> SubSeq(text, 1, m) \o rest.cells, olen |-> m + rest.olen]
  BY <1>10, <1>11, <1>12
<1> QED BY <1>13 DEF rest, W, w

(* Behind a byte that has been replaced every character is whole again: a   *)
(* byte that follows another counts as a character by itself, and the first *)
(* one of a character still tells its size.                                 *)
LEMMA WholeBehind ==
  ASSUME NEW text \in Seq(CodePoint), NEW d \in Seq(Byte), NEW i \in Nat \ {0},
         Len(d) = Len(Written(text)[Len(text)]),
         \A k \in 1 .. Len(d) : k # i => d[k] = Written(text)[Len(text)][k],
         NEW q \in Nat \ {0}, i < q, q <= Len(d)
  PROVE  ~Malformed(d, q)
<1> DEFINE N == Len(text)
           w == Written(text)
           s == w[N]
<1>0. N \in Nat /\ Len(d) \in Nat /\ s \in Seq(Byte) /\ Len(s) = Len(d)
  <2>1. N \in Nat /\ N \in 0 .. N
    BY LenProperties
  <2> QED BY <2>1, LenProperties, WrittenIsBytes
<1>1. PICK j \in 1 .. N : Len(w[j - 1]) < q /\ q <= Len(w[j])
  BY Within
<1> DEFINE p == Len(w[j - 1])
           b == Encoded(text[j])
<1>2. p \in Nat /\ text[j] \in CodePoint /\ Len(b) \in Nat
  <2>1. j - 1 \in 0 .. N
    BY <1>0, <1>1
  <2>2. w[j - 1] \in Seq(Byte)
    BY <2>1, WrittenIsBytes
  <2>3. text[j] \in CodePoint
    BY ElementOfSeq
  <2>4. b \in Seq(Byte)
    BY <2>3, EncodedIsBytes
  <2> HIDE DEF w, b
  <2> QED BY <2>2, <2>3, <2>4, LenProperties
<1>3. /\ Len(w[j]) = p + Len(b) /\ Len(w[j]) <= Len(d)
      /\ \A k \in 1 .. Len(b) : s[p + k] = b[k]
  BY <1>0, BytesOf
<1>4. /\ Taken(b[1]) = Len(b) /\ \A k \in 2 .. Len(b) : b[k] \in 128 .. 191
  BY <1>2, EncodedParts
<1>5. \A k \in q .. Len(d) : d[k] = s[k]
  BY <1>0
<1> HIDE DEF N, w, s, b, p
<1>6. CASE q = p + 1
  <2> DEFINE n == Len(b)
  <2>1. n \in Nat /\ n >= 1 /\ q + n - 1 <= Len(d)
    BY <1>0, <1>1, <1>2, <1>3, <1>6 DEF p
  <2>2. d[q] = b[1]
    <3>1. q \in q .. Len(d) /\ 1 \in 1 .. Len(b)
      BY <1>0, <2>1
    <3> QED BY <1>3, <1>5, <1>6, <3>1
  <2>3. Taken(d[q]) = n
    BY <1>4, <2>2
  <2>4. ASSUME NEW k \in 1 .. (n - 1) PROVE ~(d[q + k] < 128)
    <3> HIDE DEF n
    <3>1. k + 1 \in 2 .. n /\ q + k = p + (k + 1) /\ q + k \in q .. Len(d) /\ k + 1 \in 1 .. n
      BY <1>0, <1>2, <1>6, <2>1
    <3>2. d[q + k] = b[k + 1]
      BY <1>3, <1>5, <3>1 DEF n
    <3>3. b[k + 1] \in 128 .. 191
      BY <1>4, <3>1 DEF n
    <3>4. \A x \in 128 .. 191 : ~(x < 128)
      BY SMT
    <3> QED BY <3>2, <3>3, <3>4
  <2> HIDE DEF n
  <2>5. ~(q + n - 1 > Len(d))
    BY <1>0, <2>1
  <2> QED BY <2>3, <2>4, <2>5 DEF Malformed
<1>7. CASE q # p + 1
  <2> DEFINE k == q - p
  <2>1. k \in 2 .. Len(b) /\ q = p + k /\ k \in 1 .. Len(b)
    <3>1. p < q /\ q <= p + Len(b) /\ p \in Nat /\ Len(b) \in Nat /\ q \in Nat
      BY <1>1, <1>2, <1>3 DEF p
    <3> DEFINE l == Len(b)
    <3> HIDE DEF l
    <3>2. q - p \in 2 .. l /\ q = p + (q - p) /\ q - p \in 1 .. l
      BY <1>7, <3>1, SMT DEF l
    <3> QED BY <3>2 DEF l
  <2> HIDE DEF k
  <2>2. d[q] = b[k]
    BY <1>0, <1>3, <1>5, <2>1
  <2>3. \A x \in 128 .. 191 : Taken(x) = 1
    BY SMT DEF Taken, Prefix
  <2>4. Taken(d[q]) = 1
    BY <1>4, <2>1, <2>2, <2>3
  <2>5. ~(q + 1 - 1 > Len(d)) /\ 1 .. (1 - 1) = {}
    BY <1>0
  <2> QED BY <2>4, <2>5 DEF Malformed
<1> QED BY <1>6, <1>7

(* So from there on the walk writes as many cells as it has counted.        *)
LEMMA QuietBehind ==
  ASSUME NEW text \in Seq(CodePoint), NEW d \in Seq(Byte), NEW i \in Nat \ {0},
         Len(d) = Len(Written(text)[Len(text)]),
         \A k \in 1 .. Len(d) : k # i => d[k] = Written(text)[Len(text)][k],
         NEW q \in 1 .. (Len(d) + 4), i < q
  PROVE  Len(Walk(d)[q].cells) = Walk(d)[q].olen
<1> DEFINE W == Walk(d)
           M == Len(d) + 4
           Quiet(j) == Len(W[j].cells) = W[j].olen
           Bad == {n \in Nat : \E j \in 1 .. M : i < j /\ n = M - j /\ ~Quiet(j)}
<1>0. Len(d) \in Nat
  BY LenProperties
<1>1. \A j \in 1 .. M : W[j] = WalkAt(d, W, j) /\ W[j] \in Walked
  BY <1>0, WalkSteps, WalkType
<1>2. ASSUME NEW j \in Nat \ {0}, i < j, j <= Len(d) PROVE ~Malformed(d, j)
  BY <1>2, WholeBehind
<1> HIDE DEF W, Quiet
<1>3. Bad = {}
  <2> SUFFICES ASSUME Bad # {} PROVE FALSE
    OBVIOUS
  <2>1. PICK n \in Bad : \A k \in Bad : n <= k
    <3>1. Bad \in SUBSET Nat
      OBVIOUS
    <3> HIDE DEF Bad
    <3> QED BY <3>1, LeastNumber
  <2>2. PICK j \in 1 .. M : i < j /\ n = M - j /\ ~Quiet(j)
    OBVIOUS
  <2>3. ASSUME NEW k \in (j + 1) .. M PROVE Quiet(k)
    <3> SUFFICES ASSUME ~Quiet(k) PROVE FALSE
      OBVIOUS
    <3>1. k \in 1 .. M /\ M - k \in Nat /\ M - k < n /\ i < k
      BY <1>0, <2>2
    <3>2. M - k \in Bad
      BY <3>1
    <3>3. n <= M - k
      BY <2>1, <3>2
    <3> HIDE DEF Bad
    <3> QED BY <1>0, <2>2, <3>1, <3>3
  <2>4. CASE j > Len(d)
    <3>1. W[j] = EmptyWalk
      BY <1>1, <2>4 DEF WalkAt
    <3>2. Len(EmptyWalk.cells) = EmptyWalk.olen
      BY EmptySeq DEF EmptyWalk
    <3> QED BY <2>2, <3>1, <3>2 DEF Quiet
  <2>5. CASE j <= Len(d)
    <3> DEFINE r == j + Taken(d[j])
               rest == W[r]
               C == Cells(d, j)
               l == Len(rest.cells)
    <3>1. r \in (j + 1) .. M /\ r \in 1 .. M
      <4> DEFINE x == Taken(d[j])
      <4>0. x \in 1 .. 4
        BY TakenIsSmall
      <4> HIDE DEF x
      <4>1. r \in (j + 1) .. M
        BY <1>0, <2>5, <4>0 DEF x
      <4> HIDE DEF r
      <4> QED BY <1>0, <4>1
    <3>2. Quiet(r) /\ rest \in Walked
      BY <1>1, <2>3, <3>1
    <3>3. W[j] = Put(d, j, rest)
      BY <1>0, <1>1, <2>5 DEF WalkAt
    <3>4. C \in Seq(Cell) /\ Len(C) = 1
      <4>1. j \in Nat \ {0}
        BY <1>0, <2>5
      <4>2. ~Malformed(d, j)
        BY <1>2, <2>2, <2>5, <4>1
      <4> QED BY <2>5, <4>1, <4>2, CellsType
    <3> HIDE DEF r, C
    <3>5. rest.cells \in Seq(Cell) /\ l = rest.olen /\ l \in Nat
      BY <3>2, LenProperties DEF Quiet, Walked
    <3> HIDE DEF rest
    <3>6. W[j].cells = C \o rest.cells /\ W[j].olen = rest.olen + 1
      BY <3>3 DEF Put, C
    <3>7. Len(C \o rest.cells) = Len(C) + l
      BY <3>4, <3>5, ConcatProperties
    <3>8. Len(C) + l = l + 1
      <4> HIDE DEF l
      <4> QED BY <3>4, <3>5
    <3>9. Quiet(j)
      BY <3>5, <3>6, <3>7, <3>8 DEF Quiet
    <3> QED BY <2>2, <3>9
  <2> QED BY <1>0, <2>4, <2>5
<1>4. Quiet(q)
  <2> SUFFICES ASSUME ~Quiet(q) PROVE FALSE
    OBVIOUS
  <2>1. M - q \in Nat
    BY <1>0
  <2>2. M - q \in Bad
    BY <2>1
  <2> QED BY <1>3, <2>2
<1> QED BY <1>4 DEF Quiet, W

(* A damaged byte costs one cell at the most, which is the terminator's.    *)
LEMMA OneByteStays ==
  ASSUME NEW text \in Seq(CodePoint), NEW d \in Seq(Byte), NEW i \in Nat \ {0},
         Len(d) = Len(Written(text)[Len(text)]), i <= Len(d),
         \A k \in 1 .. Len(d) : k # i => d[k] = Written(text)[Len(text)][k]
  PROVE  ~ToWide(d).spilt
<1> DEFINE N == Len(text)
           w == Written(text)
           s == w[N]
           W == Walk(d)
<1>0. N \in Nat /\ Len(d) \in Nat /\ Len(s) = Len(d)
  BY LenProperties
<1>1. PICK j \in 1 .. N : Len(w[j - 1]) < i /\ i <= Len(w[j])
  BY Within
<1> DEFINE p == Len(w[j - 1]) + 1
           n == Taken(d[p])
           R == W[p]
           Q == W[p + n]
           b == Encoded(text[j])
<1>2. /\ j - 1 \in 0 .. N /\ Len(w[j - 1]) \in Nat /\ Len(b) \in Nat /\ Len(b) >= 1
      /\ Taken(b[1]) = Len(b)
  <2>1. j - 1 \in 0 .. N
    BY <1>0, <1>1
  <2>2. Len(w[j - 1]) \in Nat
    BY <2>1, WrittenIsBytes, LenProperties
  <2>3. text[j] \in CodePoint
    BY ElementOfSeq
  <2>4. Len(b) \in 1 .. 4 /\ Taken(b[1]) = Len(b)
    BY <2>3, EncodedIsBytes, EncodedParts
  <2> HIDE DEF w, b
  <2>5. \A x \in 1 .. 4 : x \in Nat /\ x >= 1
    BY SMT
  <2> QED BY <2>1, <2>2, <2>4, <2>5
<1>3. /\ Len(w[j]) = Len(w[j - 1]) + Len(b) /\ Len(w[j]) <= Len(d)
      /\ \A k \in 1 .. Len(b) : s[Len(w[j - 1]) + k] = b[k]
  BY <1>0, BytesOf
<1>4. \A k \in 1 .. Len(w[j - 1]) : d[k] = w[j - 1][k]
  <2>1. N \in (j - 1) .. N
    BY <1>0, <1>1
  <2>2. \A k \in 1 .. Len(w[j - 1]) : s[k] = w[j - 1][k]
    BY <1>2, <2>1, WrittenStays
  <2> HIDE DEF w, s
  <2>3. \A k \in 1 .. Len(w[j - 1]) : k # i /\ k \in 1 .. Len(d)
    BY <1>0, <1>1, <1>2, <1>3
  <2> QED BY <2>2, <2>3 DEF s, w
<1>5. W[1] = [cells |-> SubSeq(text, 1, j - 1) \o R.cells, olen |-> (j - 1) + R.olen]
  <2>1. Len(w[j - 1]) <= Len(d)
    <3> HIDE DEF w, b
    <3> QED BY <1>0, <1>2, <1>3
  <2> QED BY <1>2, <1>4, <2>1, WalksOver
<1> HIDE DEF b
<1>6. /\ p \in Nat \ {0} /\ p <= Len(d) /\ n \in 1 .. 4 /\ i < p + n
      /\ p + n \in 1 .. (Len(d) + 4) /\ p \in 1 .. (Len(d) + 4)
  <2> DEFINE x == Len(w[j - 1])
             y == Len(w[j])
             l == Len(b)
  <2>1. n \in 1 .. 4
    BY TakenIsSmall
  <2>2. x \in Nat /\ x < i /\ i <= y /\ y = x + l /\ l \in Nat /\ l >= 1 /\ y <= Len(d)
    BY <1>1, <1>2, <1>3
  <2>3. i # p => n = l
    <3>1. CASE i # p
      <4>1. p \in 1 .. Len(d) /\ p = x + 1 /\ 1 \in 1 .. l
        <5> HIDE DEF x, y, l
        <5> QED BY <1>0, <2>2 DEF x
      <4>2. d[p] = s[p]
        BY <3>1, <4>1
      <4>3. s[p] = b[1]
        <5> HIDE DEF s, w
        <5> QED BY <1>3, <4>1
      <4> QED BY <1>2, <4>2, <4>3
    <3> QED BY <3>1
  <2>4. p = x + 1
    OBVIOUS
  <2> HIDE DEF x, y, l, n, p
  <2> QED BY <1>0, <2>1, <2>2, <2>3, <2>4
<1> HIDE DEF p, n
<1>7. Len(Q.cells) = Q.olen
  <2>1. \A k \in 1 .. Len(d) : k # i => d[k] = s[k]
    OBVIOUS
  <2> QED BY <1>6, <2>1, QuietBehind
<1>8. Q \in Walked /\ R \in Walked
  BY <1>6, WalkType
<1>9. R.cells = Cells(d, p) \o Q.cells /\ R.olen = Q.olen + 1
  <2>1. R = WalkAt(d, W, p)
    BY <1>0, <1>6, WalkSteps
  <2>2. ~(p > Len(d))
    BY <1>0, <1>6
  <2> HIDE DEF W
  <2>3. R = Put(d, p, Q)
    BY <2>1, <2>2 DEF WalkAt, n
  <2> HIDE DEF R, Q
  <2> QED BY <2>3 DEF Put
<1> DEFINE C == Cells(d, p)
           P == SubSeq(text, 1, j - 1)
           o == Q.olen
<1>10. C \in Seq(Cell) /\ Len(C) \in Nat /\ Len(C) <= 2
  <2>1. C \in Seq(Cell) /\ (Len(C) = 1 \/ Len(C) = 2)
    BY <1>6, CellsType
  <2> DEFINE c == Len(C)
  <2>2. c = 1 \/ c = 2
    BY <2>1
  <2> HIDE DEF c
  <2>3. c \in Nat /\ c <= 2
    BY <2>2
  <2> QED BY <2>1, <2>3 DEF c
<1>11. P \in Seq(CodePoint) /\ Len(P) = j - 1
  BY <1>2, WrittenPrefix
<1> HIDE DEF C, P, R, Q, W
<1>12. Q.cells \in Seq(Cell) /\ Len(Q.cells) = o /\ o \in Nat
  BY <1>7, <1>8 DEF Walked
<1>13. Len(C \o Q.cells) = Len(C) + o /\ C \o Q.cells \in Seq(Cell)
  BY <1>10, <1>12, ConcatProperties
<1> DEFINE X == P \o R.cells
           olen == (j - 1) + R.olen
<1>14. Len(X) = (j - 1) + (Len(C) + o)
  <2> DEFINE S == CodePoint \cup Cell
             y == R.cells
  <2>1. CodePoint \subseteq S /\ Cell \subseteq S
    OBVIOUS
  <2>2. y \in Seq(Cell) /\ Len(y) = Len(C) + o
    BY <1>9, <1>13 DEF C
  <2> HIDE DEF S, y
  <2>3. P \in Seq(S) /\ y \in Seq(S)
    BY <1>11, <2>1, <2>2, SeqMonotonic
  <2>4. Len(P \o y) = Len(P) + Len(y)
    BY <2>3, ConcatProperties
  <2> QED BY <1>11, <2>2, <2>4 DEF y
<1>15. olen = (j - 1) + (o + 1)
  BY <1>9
<1>16. ToWide(d).spilt = \E k \in (olen + 2) .. Len(X) : X[k] # Unset
  <2>1. Walk(d)[1] = [cells |-> X, olen |-> olen]
    BY <1>5 DEF W, P
  <2> HIDE DEF X, olen
  <2> QED BY <2>1 DEF ToWide
<1>17. (olen + 2) .. Len(X) = {}
  <2> DEFINE l == Len(X)
             c == Len(C)
  <2>1. l = (j - 1) + (c + o) /\ c \in Nat /\ c <= 2 /\ o \in Nat
    BY <1>10, <1>12, <1>14
  <2> HIDE DEF l, c, o, X, olen
  <2> QED BY <1>0, <1>1, <1>15, <2>1 DEF l
<1> QED
  <2> HIDE DEF X, olen
  <2> QED BY <1>16, <1>17

(* What is before a damaged byte is read as it was.                         *)
LEMMA KeptBefore ==
  ASSUME NEW text \in Seq(CodePoint), NEW d \in Seq(Byte), NEW k \in 0 .. Len(text),
         Len(Written(text)[k]) <= Len(d),
         \A i \in 1 .. Len(Written(text)[k]) : d[i] = Written(text)[k][i]
  PROVE  Len(ToWide(d).text) >= k /\ SubSeq(ToWide(d).text, 1, k) = SubSeq(text, 1, k)
<1> DEFINE w == Written(text)
           W == Walk(d)
           R == W[Len(w[k]) + 1]
           P == SubSeq(text, 1, k)
           S == CodePoint \cup Cell
           y == R.cells
           o == R.olen
           X == P \o y
           c == k + o
<1>0. Len(text) \in Nat /\ k \in Nat /\ Len(d) \in Nat /\ Len(w[k]) \in Nat
  BY LenProperties, WrittenIsBytes
<1>1. W[1] = [cells |-> X, olen |-> c]
  BY WalksOver
<1>2. R \in Walked /\ R.olen <= Len(R.cells)
  <2>1. Len(w[k]) + 1 \in 1 .. (Len(d) + 4)
    BY <1>0
  <2> QED BY <2>1, WalkType
<1>3. P \in Seq(CodePoint) /\ Len(P) = k
  BY WrittenPrefix
<1> HIDE DEF W, w, P, R
<1>4. y \in Seq(S) /\ P \in Seq(S) /\ o \in Nat /\ o <= Len(y) /\ Len(y) \in Nat
  <2>1. y \in Seq(Cell) /\ o \in Nat /\ o <= Len(y)
    BY <1>2 DEF Walked
  <2>2. CodePoint \subseteq S /\ Cell \subseteq S
    OBVIOUS
  <2> HIDE DEF S, y, o
  <2> QED BY <1>3, <2>1, <2>2, SeqMonotonic, LenProperties
<1> HIDE DEF S, y, o
<1>5. /\ X \in Seq(S) /\ Len(X) = k + Len(y)
      /\ \A i \in 1 .. k + Len(y) : X[i] = IF i <= k THEN P[i] ELSE y[i - k]
  BY <1>3, <1>4, ConcatProperties
<1> HIDE DEF X
<1>6. c \in Nat /\ k <= c /\ c <= Len(X)
  BY <1>0, <1>4, <1>5
<1> DEFINE T == SubSeq(X, 1, c)
<1>7. ToWide(d).text = T
  <2> HIDE DEF c
  <2> DEFINE spilt == \E i \in (c + 2) .. Len(X) : X[i] # Unset
  <2>1. ToWide(d) = [text |-> T, spilt |-> spilt]
    BY <1>1 DEF ToWide, W
  <2> HIDE DEF spilt, T
  <2> QED BY <2>1
<1> HIDE DEF c
<1>8. T \in Seq(S) /\ Len(T) = c /\ \A i \in 1 .. c : T[i] = X[i]
  <2>1. \A i \in 1 .. c : X[i] \in S
    BY <1>5, <1>6, ElementOfSeq
  <2>2. /\ SubSeq(X, 1, c) \in Seq(S)
        /\ Len(SubSeq(X, 1, c)) = IF 1 <= c THEN c - 1 + 1 ELSE 0
        /\ \A i \in 1 .. (c - 1 + 1) : SubSeq(X, 1, c)[i] = X[1 + i - 1]
    BY <1>6, <2>1, SubSeqProperties
  <2> HIDE DEF T
  <2>3. Len(T) = c
    BY <1>6, <2>2 DEF T
  <2>4. ASSUME NEW i \in 1 .. c PROVE T[i] = X[i]
    <3>1. i \in 1 .. (c - 1 + 1) /\ 1 + i - 1 = i
      BY <1>6
    <3> QED BY <2>2, <3>1 DEF T
  <2> QED BY <2>2, <2>3, <2>4 DEF T
<1> HIDE DEF T
<1> DEFINE F == SubSeq(T, 1, k)
<1>9. F \in Seq(S) /\ Len(F) = k /\ \A i \in 1 .. k : F[i] = T[i]
  <2>1. \A i \in 1 .. k : T[i] \in S
    <3>1. \A i \in 1 .. k : i \in 1 .. Len(T)
      BY <1>0, <1>6, <1>8
    <3> QED BY <1>8, <3>1, ElementOfSeq
  <2>2. /\ SubSeq(T, 1, k) \in Seq(S)
        /\ Len(SubSeq(T, 1, k)) = IF 1 <= k THEN k - 1 + 1 ELSE 0
        /\ \A i \in 1 .. (k - 1 + 1) : SubSeq(T, 1, k)[i] = T[1 + i - 1]
    BY <1>0, <2>1, SubSeqProperties
  <2> HIDE DEF F
  <2>3. Len(F) = k
    BY <1>0, <2>2 DEF F
  <2>4. ASSUME NEW i \in 1 .. k PROVE F[i] = T[i]
    <3>1. i \in 1 .. (k - 1 + 1) /\ 1 + i - 1 = i
      BY <1>0
    <3> QED BY <2>2, <3>1 DEF F
  <2> QED BY <2>2, <2>3, <2>4 DEF F
<1> HIDE DEF F
<1>10. \A i \in 1 .. Len(F) : F[i] = P[i]
  <2>1. ASSUME NEW i \in 1 .. k PROVE F[i] = P[i]
    <3>1. i \in 1 .. c /\ i \in 1 .. k + Len(y) /\ i <= k
      BY <1>0, <1>4, <1>6
    <3> QED BY <1>5, <1>8, <1>9, <3>1
  <2> QED BY <1>9, <2>1
<1>11. F = P
  BY <1>3, <1>4, <1>9, <1>10, SeqEqual
<1>12. Len(T) >= k
  BY <1>0, <1>6, <1>8
<1> QED BY <1>7, <1>11, <1>12 DEF F, P

(* Bytes that end before their text does: the characters before the end,    *)
(* and a question mark if it is within one.                                 *)
TornAt(text, d) ==
  /\ ~ToWide(d).spilt
  /\ \E k \in 0 .. Len(text) :
       \/ Len(d) = Len(Written(text)[k]) /\ ToWide(d).text = SubSeq(text, 1, k)
       \/ /\ k < Len(text)
          /\ Len(Written(text)[k]) < Len(d) /\ Len(d) < Len(Written(text)[k + 1])
          /\ ToWide(d).text = Append(SubSeq(text, 1, k), QuestionMark)

LEMMA TornIsContained ==
  ASSUME NEW text \in Seq(CodePoint), NEW d \in Seq(Byte),
         Len(d) < Len(Written(text)[Len(text)]),
         \A k \in 1 .. Len(d) : d[k] = Written(text)[Len(text)][k]
  PROVE  TornAt(text, d)
<1> DEFINE N == Len(text)
           w == Written(text)
           s == w[N]
           n == Len(d)
           W == Walk(d)
<1>0. /\ N \in Nat /\ n \in Nat /\ w[0] = <<>> /\ Len(<<>>) = 0
      /\ \A j \in 0 .. N : Len(w[j]) \in Nat
  BY LenProperties, WrittenSteps, WrittenIsBytes, EmptySeq
<1>1. PICK j \in 1 .. N : Len(w[j - 1]) < n + 1 /\ n + 1 <= Len(w[j])
  <2>1. n + 1 \in Nat \ {0} /\ n + 1 <= Len(s)
    <3>1. Len(s) \in Nat
      BY <1>0
    <3> HIDE DEF s
    <3> QED BY <1>0, <3>1 DEF s
  <2> QED BY <2>1, Within
<1> DEFINE m == j - 1
           P == SubSeq(text, 1, m)
           R == W[Len(w[m]) + 1]
           X == P \o R.cells
           olen == m + R.olen
<1>2. m \in 0 .. N /\ m \in Nat /\ m < N /\ Len(w[m]) \in Nat /\ Len(w[m]) <= n /\ n < Len(w[m + 1])
  <2>1. m \in 0 .. N /\ m \in Nat /\ m < N /\ m + 1 = j /\ j \in 0 .. N
    BY <1>0, <1>1
  <2>2. Len(w[m]) \in Nat /\ Len(w[j]) \in Nat
    BY <1>0, <2>1
  <2> DEFINE x == Len(w[m])
             y == Len(w[j])
  <2>3. x < n + 1 /\ n + 1 <= y
    BY <1>1
  <2> HIDE DEF x, y, m
  <2>4. x <= n /\ n < y
    BY <1>0, <2>2, <2>3 DEF x, y
  <2> QED BY <2>1, <2>2, <2>4 DEF x, y
<1>3. \A k \in 1 .. Len(w[m]) : d[k] = w[m][k]
  <2>1. N \in m .. N
    BY <1>0, <1>2
  <2>2. \A k \in 1 .. Len(w[m]) : s[k] = w[m][k]
    BY <1>2, <2>1, WrittenStays
  <2> HIDE DEF w, s, m
  <2>3. \A k \in 1 .. Len(w[m]) : k \in 1 .. n
    BY <1>0, <1>2
  <2> QED BY <2>2, <2>3 DEF s, w
<1>4. W[1] = [cells |-> X, olen |-> olen]
  BY <1>2, <1>3, WalksOver
<1>5. P \in Seq(CodePoint) /\ Len(P) = m
  BY <1>2, WrittenPrefix
<1>6. /\ ToWide(d).text = SubSeq(X, 1, olen)
      /\ ToWide(d).spilt = \E k \in (olen + 2) .. Len(X) : X[k] # Unset
  <2> DEFINE T == SubSeq(X, 1, olen)
             spilt == \E k \in (olen + 2) .. Len(X) : X[k] # Unset
  <2> HIDE DEF X, olen
  <2>1. ToWide(d) = [text |-> T, spilt |-> spilt]
    BY <1>4 DEF ToWide, W
  <2> HIDE DEF spilt, T
  <2>2. ToWide(d).text = T /\ ToWide(d).spilt = spilt
    BY <2>1
  <2> QED BY <2>2 DEF spilt, T
<1>7. CASE Len(w[m]) = n
  <2>1. n + 1 \in 1 .. (n + 4) /\ n + 1 > n
    BY <1>0
  <2>2. R = WalkAt(d, W, n + 1)
    BY <1>0, <1>7, <2>1, WalkSteps
  <2> HIDE DEF P, R, W, n
  <2>3. R = EmptyWalk
    BY <2>1, <2>2 DEF WalkAt, n
  <2>4. X = P /\ olen = m
    BY <1>2, <1>5, <2>3, ConcatEmptySeq DEF EmptyWalk
  <2>5. SubSeq(X, 1, olen) = P /\ Len(X) = m
    BY <1>5, <2>4, SubSeqFull
  <2> HIDE DEF X, olen
  <2>6. (olen + 2) .. Len(X) = {}
    BY <1>2, <2>4, <2>5
  <2>7. ToWide(d).text = P /\ ~ToWide(d).spilt
    BY <1>6, <2>5, <2>6
  <2> HIDE DEF m
  <2> QED BY <1>2, <1>7, <2>7 DEF TornAt, P, n, N, w
<1>8. CASE Len(w[m]) < n
  <2> DEFINE c == text[m + 1]
             b == Encoded(c)
             p == Len(w[m]) + 1
             l == Len(b)
             bad == <<QuestionMark, Unset>>
  <2>1. m + 1 \in 1 .. N /\ (m + 1) - 1 = m /\ c \in CodePoint
    <3>1. m + 1 \in 1 .. N /\ (m + 1) - 1 = m
      <4>1. m \in Nat /\ m < N
        BY <1>2
      <4> HIDE DEF m, N
      <4> QED BY <1>0, <4>1
    <3> QED BY <3>1, ElementOfSeq
  <2>2. /\ Len(w[m + 1]) = Len(w[m]) + l /\ \A k \in 1 .. l : s[Len(w[m]) + k] = b[k]
    BY <2>1, BytesOf
  <2>3. l \in 1 .. 4 /\ Taken(b[1]) = l
    BY <2>1, EncodedIsBytes, EncodedParts
  <2> HIDE DEF b, m
  <2>4. /\ p \in Nat \ {0} /\ p <= n /\ l \in Nat /\ 1 <= l /\ n < p + l - 1
        /\ p + l \in 1 .. (n + 4) /\ p \in 1 .. (n + 4) /\ p + l > n
    <3> DEFINE x == Len(w[m])
               y == Len(w[m + 1])
    <3>1. x \in Nat /\ x < n /\ n < y /\ y = x + l /\ p = x + 1
      BY <1>2, <1>8, <2>2
    <3> HIDE DEF x, y, l, p, n
    <3> QED BY <1>0, <2>3, <3>1 DEF n
  <2>5. Taken(d[p]) = l
    <3>1. d[p] = s[p]
      <4>1. p \in 1 .. n
        <5> HIDE DEF n, p
        <5> QED BY <1>0, <2>4
      <4> QED BY <4>1
    <3>2. s[p] = b[1]
      <4>1. 1 \in 1 .. l
        BY <2>4
      <4> HIDE DEF s, w
      <4> QED BY <2>2, <4>1
    <3> QED BY <2>3, <3>1, <3>2
  <2> HIDE DEF p, l
  <2>6. Malformed(d, p)
    <3>1. p + l - 1 > Len(d)
      BY <1>0, <2>4
    <3> QED BY <2>5, <3>1 DEF Malformed
  <2>7. R = Put(d, p, EmptyWalk)
    <3>1. W[p] = WalkAt(d, W, p) /\ W[p + l] = WalkAt(d, W, p + l)
      BY <1>0, <2>4, WalkSteps
    <3> HIDE DEF W
    <3>2. W[p + l] = EmptyWalk
      BY <2>4, <3>1 DEF WalkAt
    <3>3. ~(p > Len(d))
      BY <1>0, <2>4
    <3>4. W[p] = Put(d, p, W[p + l])
      BY <2>5, <3>1, <3>3 DEF WalkAt
    <3> QED BY <3>2, <3>4 DEF p
  <2> HIDE DEF P, R
  <2>8. R.cells = bad /\ R.olen = 1
    <3>1. Cells(d, p) = bad
      BY <2>6 DEF Cells
    <3>2. bad \in Seq(Nat)
      BY SMT DEF QuestionMark, Unset, Place
    <3> HIDE DEF bad
    <3>3. bad \o <<>> = bad
      BY <3>2, ConcatEmptySeq
    <3>4. R.cells = bad \o <<>> /\ R.olen = 0 + 1
      BY <2>7, <3>1 DEF Put, EmptyWalk
    <3> QED BY <3>3, <3>4
  <2>9. X = P \o bad /\ olen = m + 1
    BY <2>8
  <2>10. /\ P \in Seq(Nat) /\ bad \in Seq(Nat) /\ Len(bad) = 2 /\ bad[1] = QuestionMark /\ QuestionMark \in Nat
    <3>1. CodePoint \subseteq Nat
      BY CodePoints
    <3>2. P \in Seq(Nat)
      BY <1>5, <3>1, SeqMonotonic
    <3>3. bad \in Seq(Nat) /\ QuestionMark \in Nat
      BY SMT DEF QuestionMark, Unset, Place
    <3>4. Len(bad) = 2 /\ bad[1] = QuestionMark
      BY Zenon
    <3> QED BY <3>2, <3>3, <3>4
  <2> HIDE DEF bad
  <2>11. /\ X \in Seq(Nat) /\ Len(X) = m + 2
         /\ \A k \in 1 .. m + 2 : X[k] = IF k <= m THEN P[k] ELSE bad[k - m]
    <3>1. Len(P) + Len(bad) = m + 2 /\ Len(P) = m
      BY <1>2, <1>5, <2>10
    <3>2. /\ P \o bad \in Seq(Nat) /\ Len(P \o bad) = Len(P) + Len(bad)
          /\ \A k \in 1 .. Len(P) + Len(bad) :
               (P \o bad)[k] = IF k <= Len(P) THEN P[k] ELSE bad[k - Len(P)]
      BY <2>10, ConcatProperties
    <3> HIDE DEF X
    <3> QED BY <2>9, <3>1, <3>2
  <2> HIDE DEF X, olen
  <2>12. (olen + 2) .. Len(X) = {}
    BY <1>2, <2>9, <2>11
  <2> DEFINE A == Append(P, QuestionMark)
             T == SubSeq(X, 1, m + 1)
  <2>13. /\ A \in Seq(Nat) /\ Len(A) = m + 1
         /\ \A k \in 1 .. m : A[k] = P[k]
         /\ A[m + 1] = QuestionMark
    BY <1>5, <2>10, AppendProperties
  <2>14. /\ T \in Seq(Nat) /\ Len(T) = m + 1
         /\ \A k \in 1 .. (m + 1) : T[k] = X[k]
    <3>1. \A k \in 1 .. (m + 1) : X[k] \in Nat
      <4>1. \A k \in 1 .. (m + 1) : k \in 1 .. Len(X)
        BY <1>2, <2>11
      <4> QED BY <2>11, <4>1, ElementOfSeq
    <3> DEFINE e == m + 1
    <3>2. e \in Nat
      BY <1>2
    <3> HIDE DEF e
    <3>3. /\ SubSeq(X, 1, e) \in Seq(Nat)
          /\ Len(SubSeq(X, 1, e)) = IF 1 <= e THEN e - 1 + 1 ELSE 0
          /\ \A k \in 1 .. (e - 1 + 1) : SubSeq(X, 1, e)[k] = X[1 + k - 1]
      <4>1. \A k \in 1 .. e : X[k] \in Nat
        BY <3>1 DEF e
      <4> QED BY <3>2, <4>1, SubSeqProperties
    <3>4. /\ T = SubSeq(X, 1, e) /\ e = m + 1
      BY DEF e
    <3> HIDE DEF T
    <3>5. Len(T) = e
      BY <3>2, <3>3, <3>4, <1>2
    <3>6. ASSUME NEW k \in 1 .. e PROVE T[k] = X[k]
      <4>1. k \in 1 .. (e - 1 + 1) /\ 1 + k - 1 = k
        BY <3>2
      <4> QED BY <3>3, <3>4, <4>1
    <3> QED BY <3>3, <3>4, <3>5, <3>6
  <2> HIDE DEF A, T
  <2>15. \A k \in 1 .. Len(T) : T[k] = A[k]
    <3>1. ASSUME NEW k \in 1 .. (m + 1) PROVE T[k] = A[k]
      <4>1. CASE k = m + 1
        <5>1. k \in 1 .. m + 2 /\ ~(k <= m) /\ k - m = 1
          BY <1>2, <4>1
        <5> QED BY <2>10, <2>11, <2>13, <2>14, <4>1, <5>1
      <4>2. CASE k # m + 1
        <5>1. k \in 1 .. m + 2 /\ k <= m /\ k \in 1 .. m
          BY <1>2, <4>2
        <5> QED BY <2>11, <2>13, <2>14, <5>1
      <4> QED BY <4>1, <4>2
    <3> QED BY <2>14, <3>1
  <2>16. T = A
    BY <2>13, <2>14, <2>15, SeqEqual
  <2>17. ToWide(d).text = Append(P, QuestionMark) /\ ~ToWide(d).spilt
    BY <1>6, <2>9, <2>12, <2>16 DEF A, T
  <2> QED BY <1>2, <1>8, <2>17 DEF TornAt, P, n, N, w
<1> QED BY <1>0, <1>2, <1>7, <1>8

(* A byte below 128 is the last of its character and the only one, and an   *)
(* ASCII character is such a byte.                                          *)
LEMMA AsciiStands ==
  ASSUME NEW text \in Seq(CodePoint)
  PROVE  LET s == Written(text)[Len(text)]
         IN  /\ \A i \in 1 .. Len(s) : s[i] < 128 =>
                  \E k \in 1 .. Len(text) : text[k] = s[i] /\ Len(Written(text)[k]) = i
             /\ \A k \in 1 .. Len(text) : text[k] < 127 =>
                  s[Len(Written(text)[k])] = text[k]
<1> DEFINE N == Len(text)
           w == Written(text)
           s == w[N]
<1>0. N \in Nat /\ Len(s) \in Nat /\ \A j \in 0 .. N : Len(w[j]) \in Nat
  <2>1. N \in Nat /\ N \in 0 .. N
    BY LenProperties
  <2> QED BY <2>1, LenProperties, WrittenIsBytes
<1>1. ASSUME NEW j \in 1 .. N
      PROVE  LET b == Encoded(text[j])
                 p == Len(w[j - 1])
             IN  /\ p \in Nat /\ Len(b) \in Nat
                 /\ Len(w[j]) = p + Len(b)
                 /\ \A k \in 1 .. Len(b) : s[p + k] = b[k]
                 /\ \A k \in 2 .. Len(b) : b[k] \in 128 .. 191
                 /\ b[1] < 128 <=> Len(b) = 1
                 /\ text[j] < 127 <=> Len(b) = 1
                 /\ Len(b) = 1 => b[1] = text[j]
  <2>1. text[j] \in CodePoint /\ j - 1 \in 0 .. N
    BY <1>0, ElementOfSeq
  <2>2. Encoded(text[j]) \in Seq(Byte)
    BY <2>1, EncodedIsBytes
  <2>3. Len(Encoded(text[j])) \in Nat /\ Len(w[j - 1]) \in Nat
    BY <1>0, <2>1, <2>2, LenProperties
  <2>4. /\ Len(w[j]) = Len(w[j - 1]) + Len(Encoded(text[j]))
        /\ \A k \in 1 .. Len(Encoded(text[j])) : s[Len(w[j - 1]) + k] = Encoded(text[j])[k]
    BY BytesOf, Zenon
  <2> DEFINE b == Encoded(text[j])
  <2>5. /\ \A k \in 2 .. Len(b) : b[k] \in 128 .. 191
        /\ b[1] < 128 <=> Len(b) = 1
        /\ text[j] < 127 <=> Len(b) = 1
        /\ Len(b) = 1 => b[1] = text[j]
    BY <2>1, EncodedParts, Zenon
  <2> HIDE DEF s, w
  <2> QED BY <2>3, <2>4, <2>5
<1>2. ASSUME NEW i \in 1 .. Len(s), s[i] < 128
      PROVE  \E k \in 1 .. N : text[k] = s[i] /\ Len(w[k]) = i
  <2>1. PICK j \in 1 .. N : Len(w[j - 1]) < i /\ i <= Len(w[j])
    <3>1. i \in Nat \ {0} /\ i <= Len(s)
      BY <1>0
    <3> QED BY <3>1, Within
  <2> DEFINE b == Encoded(text[j])
             p == Len(w[j - 1])
             k == i - p
  <2>2. /\ p \in Nat /\ Len(b) \in Nat /\ Len(w[j]) = p + Len(b)
        /\ \A x \in 1 .. Len(b) : s[p + x] = b[x]
        /\ \A x \in 2 .. Len(b) : b[x] \in 128 .. 191
        /\ b[1] < 128 <=> Len(b) = 1
        /\ Len(b) = 1 => b[1] = text[j]
    BY <1>1
  <2>3. p < i /\ i <= Len(w[j])
    BY <2>1
  <2> HIDE DEF b, p, s, w
  <2>4. k \in 1 .. Len(b) /\ p + k = i
    BY <1>0, <2>2, <2>3
  <2> HIDE DEF k
  <2>5. s[i] = b[k]
    BY <2>2, <2>4
  <2>6. k = 1
    <3>1. \A x \in 128 .. 191 : ~(x < 128)
      BY SMT
    <3>2. k \notin 2 .. Len(b)
      BY <1>2, <2>2, <2>5, <3>1
    <3> QED BY <2>2, <2>4, <3>2
  <2>7. Len(b) = 1
    BY <1>2, <2>2, <2>5, <2>6
  <2>8. text[j] = s[i] /\ Len(w[j]) = i
    BY <2>2, <2>4, <2>5, <2>6, <2>7
  <2> QED BY <2>8
<1>3. ASSUME NEW k \in 1 .. N, text[k] < 127
      PROVE  s[Len(w[k])] = text[k]
  <2> DEFINE b == Encoded(text[k])
             p == Len(w[k - 1])
  <2>1. /\ Len(w[k]) = p + Len(b)
        /\ \A x \in 1 .. Len(b) : s[p + x] = b[x]
        /\ Len(b) = 1 /\ b[1] = text[k]
    BY <1>1, <1>3
  <2> HIDE DEF b, p, s, w
  <2> QED BY <2>1
<1> QED BY <1>2, <1>3

(* Whatever the bytes, what is read are characters the masks leave.         *)
LEMMA ToWideType ==
  ASSUME NEW d \in Seq(Byte)
  PROVE  ToWide(d) \in [text : Seq(Cell), spilt : BOOLEAN]
<1> DEFINE r == Walk(d)[1]
           X == r.cells
           c == r.olen
           T == SubSeq(X, 1, c)
           spilt == \E i \in (c + 2) .. Len(X) : X[i] # Unset
<1>1. r \in Walked /\ c <= Len(X)
  <2>1. 1 \in 1 .. (Len(d) + 4)
    BY LenProperties
  <2> QED BY <2>1, WalkType
<1>2. ToWide(d) = [text |-> T, spilt |-> spilt]
  BY DEF ToWide
<1> HIDE DEF r
<1>3. X \in Seq(Cell) /\ c \in Nat /\ Len(X) \in Nat
  BY <1>1, LenProperties DEF Walked
<1> HIDE DEF X, c
<1>4. \A i \in 1 .. c : X[i] \in Cell
  <2>1. \A i \in 1 .. c : i \in 1 .. Len(X)
    BY <1>1, <1>3
  <2> QED BY <1>3, <2>1, ElementOfSeq
<1>5. T \in Seq(Cell)
  BY <1>3, <1>4, SubSeqProperties
<1>6. spilt \in BOOLEAN
  OBVIOUS
<1> HIDE DEF T, spilt
<1> QED BY <1>2, <1>5, <1>6

-----------------------------------------------------------------------------
(* How the bytes of a state come from those of its text.                    *)
Derived(d, s, kind) ==
  /\ kind = "none" => d = s
  /\ kind = "torn" => Len(d) < Len(s) /\ \A k \in 1 .. Len(d) : d[k] = s[k]
  /\ kind = "replaced" =>
       /\ Len(d) = Len(s)
       /\ \E i \in 1 .. Len(s) : \A k \in 1 .. Len(s) : k # i => d[k] = s[k]

Unread == [text |-> <<>>, spilt |-> FALSE]
BorderInv ==
  /\ wide \in Texts /\ bytes \in Seq(Byte)
  /\ harm \in {"none", "torn", "replaced"} /\ stage \in {"wide", "bytes", "back"}
  /\ stage # "wide" => Derived(bytes, ToStr(wide), harm)
  /\ stage = "wide" => harm = "none"
  /\ back = IF stage = "back" THEN ToWide(bytes) ELSE Unread

(* The bytes of a text of TextBorder.                                       *)
LEMMA TextBytes ==
  ASSUME NEW text \in Texts
  PROVE  /\ text \in Seq(CodePoint) /\ ToStr(text) = Written(text)[Len(text)]
         /\ ToStr(text) \in Seq(Byte) /\ Len(ToStr(text)) \in Nat
<1>1. text \in Seq(CodePoint)
  BY BorderAssumption
<1>2. ToStr(text) = Written(text)[Len(text)]
  BY <1>1, ToStrIsWritten
<1>3. Len(text) \in 0 .. Len(text)
  BY <1>1, LenProperties
<1>4. ToStr(text) \in Seq(Byte)
  BY <1>1, <1>2, <1>3, WrittenIsBytes
<1> QED BY <1>1, <1>2, <1>4, LenProperties

(* Every step keeps it: a text is harmed once at most, before it is read.   *)
LEMMA BorderInvariant == Spec => []BorderInv
<1>1. Init => BorderInv
  BY EmptySeq DEF Init, BorderInv, Unread
<1>2. ASSUME BorderInv, [Next]_vars PROVE BorderInv'
  <2> USE <1>2
  <2>0. /\ wide \in Texts /\ bytes \in Seq(Byte) /\ Len(bytes) \in Nat
        /\ \A k \in 1 .. Len(bytes) : bytes[k] \in Byte
    BY LenProperties, ElementOfSeq DEF BorderInv
  <2>1. CASE ToBytes
    <3>1. ToStr(wide) \in Seq(Byte)
      BY <2>0, TextBytes
    <3>2. Derived(ToStr(wide), ToStr(wide), "none")
      BY DEF Derived
    <3> QED BY <2>1, <3>1, <3>2 DEF ToBytes, BorderInv
  <2>2. CASE Tear
    <3>1. PICK n \in 0 .. (Len(bytes) - 1) : Happens("torn", SubSeq(bytes, 1, n))
      BY <2>2 DEF Tear
    <3> DEFINE d == SubSeq(bytes, 1, n)
    <3>2. \A k \in 1 .. n : k \in 1 .. Len(bytes)
      BY <2>0
    <3>3. \A k \in 1 .. n : bytes[k] \in Byte
      BY <2>0, <3>2
    <3>4. /\ d \in Seq(Byte)
          /\ Len(d) = IF 1 <= n THEN n - 1 + 1 ELSE 0
          /\ \A k \in 1 .. (n - 1 + 1) : d[k] = bytes[1 + k - 1]
      BY <3>3, SubSeqProperties
    <3> HIDE DEF d
    <3>5. Len(d) = n
      BY <3>4
    <3>6. ASSUME NEW k \in 1 .. n PROVE d[k] = bytes[k]
      <4>1. k \in 1 .. (n - 1 + 1) /\ 1 + k - 1 = k
        OBVIOUS
      <4> QED BY <3>4, <4>1
    <3>7. stage = "bytes" /\ harm = "none" /\ bytes = ToStr(wide)
      BY <3>1 DEF Happens, BorderInv, Derived
    <3>8. Derived(d, ToStr(wide), "torn")
      <4>1. n < Len(bytes)
        BY <2>0
      <4> QED BY <3>5, <3>6, <3>7, <4>1 DEF Derived
    <3>9. /\ bytes' = d /\ harm' = "torn" /\ wide' = wide /\ stage' = stage /\ back' = back
      BY <3>1 DEF Happens, d
    <3> QED BY <3>4, <3>7, <3>8, <3>9 DEF BorderInv
  <2>3. CASE Replace
    <3>1. PICK i \in DOMAIN bytes, b \in Damage : Happens("replaced", [bytes EXCEPT ![i] = b])
      BY <2>3 DEF Replace
    <3> DEFINE d == [bytes EXCEPT ![i] = b]
    <3>2. i \in 1 .. Len(bytes) /\ b \in Byte
      BY <2>0, LenProperties, BorderAssumption
    <3>3. d \in Seq(Byte) /\ Len(d) = Len(bytes) /\ \A k \in 1 .. Len(bytes) : k # i => d[k] = bytes[k]
      <4>1. bytes \in [1 .. Len(bytes) -> Byte]
        BY <2>0, LenProperties
      <4>2. \A k \in 1 .. Len(bytes) : k # i => d[k] = bytes[k]
        BY <4>1
      <4> QED BY <2>0, <3>2, <4>2, ExceptSeq
    <3>4. stage = "bytes" /\ harm = "none" /\ bytes = ToStr(wide)
      BY <3>1 DEF Happens, BorderInv, Derived
    <3>5. /\ bytes' = d /\ harm' = "replaced" /\ wide' = wide /\ stage' = stage /\ back' = back
      BY <3>1 DEF Happens
    <3> HIDE DEF d
    <3>6. Derived(d, ToStr(wide), "replaced")
      BY <3>2, <3>3, <3>4 DEF Derived
    <3> QED BY <3>3, <3>4, <3>5, <3>6 DEF BorderInv
  <2>4. CASE ToCharacters
    BY <2>4 DEF ToCharacters, BorderInv
  <2>5. CASE UNCHANGED vars
    BY <2>5 DEF vars, BorderInv
  <2> QED BY <1>2, <2>1, <2>2, <2>3, <2>4, <2>5 DEF Next
<1> QED BY <1>1, <1>2, PTL DEF Spec

(* Bytes are bytes, and what is read from any bytes fits the masks.         *)
THEOREM BorderTypeCorrect == Spec => []TypeOK
<1>1. BorderInv => TypeOK
  <2> SUFFICES ASSUME BorderInv PROVE TypeOK
    OBVIOUS
  <2>1. Unread \in [text : Seq(Cell), spilt : BOOLEAN]
    BY EmptySeq DEF Unread
  <2>2. ToWide(bytes) \in [text : Seq(Cell), spilt : BOOLEAN]
    BY ToWideType DEF BorderInv
  <2> QED BY <2>1, <2>2 DEF BorderInv, TypeOK
<1> QED BY <1>1, BorderInvariant, PTL

(* The last byte of k characters, in the proofs' terms.                     *)
LEMMA EndsIsWritten ==
  ASSUME BorderInv, NEW k \in 0 .. Len(wide)
  PROVE  Ends(k) = Len(Written(wide)[k])
<1>1. wide \in Seq(CodePoint)
  BY TextBytes DEF BorderInv
<1> QED BY <1>1, PrefixBytes DEF Ends

(* An unharmed text comes back, and its ASCII characters are its only bytes *)
(* below 128, in their places.                                              *)
THEOREM TextsComeBack == Spec => []Transcoded
<1>1. BorderInv => Transcoded
  <2> SUFFICES ASSUME BorderInv PROVE Transcoded
    OBVIOUS
  <2>1. /\ wide \in Seq(CodePoint) /\ ToStr(wide) = Written(wide)[Len(wide)]
        /\ bytes \in Seq(Byte)
    BY TextBytes DEF BorderInv
  <2>2. DOMAIN wide = 1 .. Len(wide) /\ DOMAIN bytes = 1 .. Len(bytes) /\ Len(wide) \in Nat
    BY <2>1, LenProperties
  <2>3. ASSUME stage = "back", harm = "none" PROVE back = [text |-> wide, spilt |-> FALSE]
    <3>1. back = ToWide(bytes) /\ bytes = ToStr(wide)
      BY <2>3 DEF BorderInv, Derived
    <3> QED BY <2>1, <3>1, TextReadBack DEF ToStr
  <2>4. ASSUME stage # "wide", harm = "none"
        PROVE  /\ \A i \in DOMAIN bytes :
                    bytes[i] < 128 => \E k \in DOMAIN wide : wide[k] = bytes[i] /\ Ends(k) = i
               /\ \A k \in DOMAIN wide : wide[k] < 127 => bytes[Ends(k)] = wide[k]
    <3>1. bytes = ToStr(wide)
      BY <2>4 DEF BorderInv, Derived
    <3>2. \A k \in 1 .. Len(wide) : Ends(k) = Len(Written(wide)[k])
      <4>1. \A k \in 1 .. Len(wide) : k \in 0 .. Len(wide)
        BY <2>2
      <4> QED BY <4>1, EndsIsWritten
    <3>3. /\ \A i \in 1 .. Len(bytes) : bytes[i] < 128 =>
                  \E k \in 1 .. Len(wide) : wide[k] = bytes[i] /\ Len(Written(wide)[k]) = i
          /\ \A k \in 1 .. Len(wide) : wide[k] < 127 =>
                  bytes[Len(Written(wide)[k])] = wide[k]
      BY <2>1, <3>1, AsciiStands
    <3> QED BY <2>2, <3>2, <3>3
  <2> QED BY <2>3, <2>4 DEF Transcoded
<1> QED BY <1>1, BorderInvariant, PTL

(* A text torn off anywhere is what was before, and perhaps a question      *)
(* mark.                                                                    *)
THEOREM TornTextsContained == Spec => []TornContained
<1>1. BorderInv => TornContained
  <2> SUFFICES ASSUME BorderInv, stage = "back", harm = "torn"
               PROVE  /\ ~back.spilt
                      /\ \E k \in 0 .. Len(wide) :
                           \/ Len(bytes) = Ends(k) /\ back.text = SubSeq(wide, 1, k)
                           \/ /\ k < Len(wide) /\ Ends(k) < Len(bytes) /\ Len(bytes) < Ends(k + 1)
                              /\ back.text = Append(SubSeq(wide, 1, k), QuestionMark)
    BY DEF TornContained
  <2>1. /\ wide \in Seq(CodePoint) /\ ToStr(wide) = Written(wide)[Len(wide)]
        /\ bytes \in Seq(Byte) /\ back = ToWide(bytes)
        /\ Len(bytes) < Len(ToStr(wide)) /\ \A k \in 1 .. Len(bytes) : bytes[k] = ToStr(wide)[k]
    BY TextBytes DEF BorderInv, Derived
  <2>2. TornAt(wide, bytes)
    BY <2>1, TornIsContained
  <2>3. \A k \in 0 .. Len(wide) : k < Len(wide) => k + 1 \in 0 .. Len(wide)
    BY <2>1, LenProperties
  <2> QED BY <2>1, <2>2, <2>3, EndsIsWritten DEF TornAt
<1> QED BY <1>1, BorderInvariant, PTL

(* One damaged byte takes nothing out of the buffer and leaves what is      *)
(* before it.                                                               *)
THEOREM DamageStaysContained == Spec => []DamageContained
<1>1. BorderInv => DamageContained
  <2> SUFFICES ASSUME BorderInv, stage = "back", harm = "replaced"
               PROVE  /\ ~back.spilt
                      /\ \A k \in DOMAIN wide :
                           (\A i \in 1 .. Ends(k) : bytes[i] = ToStr(wide)[i]) =>
                             Len(back.text) >= k /\ SubSeq(back.text, 1, k) = SubSeq(wide, 1, k)
    BY DEF DamageContained
  <2> DEFINE s == ToStr(wide)
  <2>1. /\ wide \in Seq(CodePoint) /\ s = Written(wide)[Len(wide)] /\ Len(s) \in Nat
        /\ bytes \in Seq(Byte) /\ back = ToWide(bytes) /\ Len(bytes) = Len(s)
        /\ Len(wide) \in Nat /\ DOMAIN wide = 1 .. Len(wide)
    BY TextBytes, LenProperties DEF BorderInv, Derived
  <2>2. PICK i \in 1 .. Len(s) : \A k \in 1 .. Len(s) : k # i => bytes[k] = s[k]
    BY DEF BorderInv, Derived
  <2>3. ~back.spilt
    <3>1. i \in Nat \ {0} /\ i <= Len(bytes)
      BY <2>1
    <3> QED BY <2>1, <2>2, <3>1, OneByteStays
  <2>4. ASSUME NEW k \in DOMAIN wide, \A x \in 1 .. Ends(k) : bytes[x] = s[x]
        PROVE  Len(back.text) >= k /\ SubSeq(back.text, 1, k) = SubSeq(wide, 1, k)
    <3> DEFINE w == Written(wide)
    <3>1. k \in 0 .. Len(wide) /\ Len(wide) \in k .. Len(wide)
      BY <2>1
    <3>2. Ends(k) = Len(w[k])
      BY <3>1, EndsIsWritten
    <3>3. Len(w[k]) <= Len(w[Len(wide)]) /\ \A x \in 1 .. Len(w[k]) : w[Len(wide)][x] = w[k][x]
      BY <2>1, <3>1, WrittenStays
    <3>4. Len(w[k]) <= Len(bytes) /\ \A x \in 1 .. Len(w[k]) : bytes[x] = w[k][x]
      <4> HIDE DEF w, s
      <4> QED BY <2>1, <2>4, <3>2, <3>3 DEF w
    <3> QED BY <2>1, <3>1, <3>4, KeptBefore
  <2> QED BY <2>3, <2>4
<1> QED BY <1>1, BorderInvariant, PTL
=============================================================================
