--------------------------- MODULE MCZfsSnapshots ---------------------------
(* Small instances of ZfsSnapshots for TLC. *)
EXTENDS ZfsSnapshots

OneDataset  == <<1>>
TwoDatasets == <<1, 2>>

(* Labels of which none begins with another, and labels like "a" and "a-b". *)
AllAlone   == [l \in Labels |-> {}]
OneLonger  == [l \in Labels |-> IF l = 1 THEN {2} ELSE {}]
=============================================================================
