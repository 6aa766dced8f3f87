---------------------------- MODULE TextBorderMC ----------------------------
(***************************************************************************)
(* Texts of up to three characters around the ends of the ranges, and      *)
(* bytes around those of the prefixes, for TLC.                            *)
(***************************************************************************)
EXTENDS TextBorder

Ordinary == {126, 127, 2046, 2047, 65534, 65535, 1114110}
MCTexts == UNION {[1 .. n -> Ordinary] : n \in 0 .. 3}
                \cup {<<c>> : c \in {0, 128, 2048, 65536}}
MCDamage == {0, 127, 128, 191, 192, 223, 224, 239, 240, 255}
=============================================================================
