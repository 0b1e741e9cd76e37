---------------------------- MODULE MCConnector -----------------------------
(* Connector for TLC: the slots of CallId are interchangeable.             *)
EXTENDS Connector, TLC

Symmetry == Permutations(CallId)
=============================================================================
