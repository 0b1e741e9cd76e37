------------------------------ MODULE MCCauses ------------------------------
(* Causes for TLC: all causes and statuses of the table, and one more each.*)
EXTENDS Causes

AllCauses   == {cause_map[i][2] : i \in 1 .. Rows} \cup {"OTHER"}
AllStatuses == ({cause_map[i][1] : i \in 1 .. Rows} \ {200}) \cup {487}
=============================================================================
