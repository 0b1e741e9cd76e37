---------------------------- MODULE MCNumbering -----------------------------
(* Numbering for TLC: numbers around the size of the field (NumberSize is  *)
(* scaled down, the length of an IMSI is real), of every type.             *)
EXTENDS Numbering

Digits(n) == [i \in 1 .. n |-> IF i % 2 = 0 THEN "0" ELSE "1"]

Lengths == {1, NumberSize - 1, NumberSize}
Plans   == {"UNKNOWN", "ISDN", "PRIVATE"}
Numbers == {[type |-> t, plan |-> p, text |-> Digits(n)] : t \in Type, p \in Plans, n \in Lengths}

Numbers0    == Numbers \cup {NoNumber}
Subscribers == {[imsi |-> Digits(n), number |-> m] :
                   n \in {14, 15}, m \in {NoNumber} \cup {d \in Numbers : d.plan = "ISDN"}}
=============================================================================
