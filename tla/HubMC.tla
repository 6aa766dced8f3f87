-------------------------------- MODULE HubMC --------------------------------
(***************************************************************************)
(* The hub for TLC: addresses, frames and documents small enough to        *)
(* enumerate.  The word, the second and the KiB are scaled down together,  *)
(* so that a pause can span less than, exactly and more than a second, and *)
(* a word still holds many seconds.                                        *)
(***************************************************************************)
EXTENDS HubProps, TLC

(* The interfaces and a station behind each.                                *)
IfaceA == <<2, 1, 1, 1, 1, 1>>
IfaceB == <<2, 1, 1, 1, 1, 2>>
StationA == <<2, 7, 1, 1, 1, 1>>
StationB == <<2, 7, 1, 1, 1, 2>>

MCMac == [s \in Ports |-> IF s = "a" THEN IfaceA ELSE IfaceB]

ByteFrame == [dst |-> StationB, src |-> StationA, len |-> 1]
LongFrame == [dst |-> StationB, src |-> StationA, len |-> 2]
JumboFrame == [dst |-> StationB, src |-> StationA, len |-> 4]
OwnFrame == [dst |-> StationB, src |-> IfaceA, len |-> 1]

OneFrame == {ByteFrame}
PacedFrames == {ByteFrame, JumboFrame}
OwnFrames == {ByteFrame, OwnFrame}
AllFrames == {LongFrame, JumboFrame, OwnFrame}

(* Documents: percentages, the two byte counts and the bandwidth.           *)
Num(n) == [type |-> "fixed_number", num |-> n]
MCDoc(drop, percent, bytes, trunc, bandwidth) ==
  [parses |-> TRUE,
   fields |-> ("drop_percent" :> Num(drop) @@ "corrupt_packet_percent" :> Num(percent)
               @@ "corrupt_packet_bytes" :> Num(bytes) @@ "truncate_len" :> Num(trunc)
               @@ "bandwidth" :> Num(bandwidth))]

OpenDoc == MCDoc(0, 0, 0, 0, 0)
ThrottleDoc == MCDoc(0, 0, 0, 0, 1)
FastDoc == MCDoc(0, 0, 0, 0, 2)
LossyDoc == MCDoc(50, 0, 0, 1, 1)
DropAllDoc == MCDoc(100, 0, 0, 0, 0)
TruncDoc == MCDoc(0, 0, 0, 1, 0)
CorruptDoc == MCDoc(0, 50, 2, 0, 0)
TornDoc == [parses |-> FALSE, fields |-> <<>>]

OpenDocs == {OpenDoc}
ThrottleDocs == {ThrottleDoc}
PacedDocs == {ThrottleDoc, FastDoc}
BrokenDocs == {LossyDoc, DropAllDoc, CorruptDoc, TornDoc}
ReloadDocs == {OpenDoc, TruncDoc}
=============================================================================
