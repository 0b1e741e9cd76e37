---------------------------- MODULE LeastNumber -----------------------------
(***************************************************************************)
(* A nonempty set of natural numbers has a least element: what the proofs  *)
(* about osmo_timers_nearest and about the search of cause_map use in      *)
(* place of induction.                                                     *)
(***************************************************************************)
EXTENDS Integers, WellFoundedInduction, TLAPS

\* The naturals are well founded, hence the least element.
LEMMA LeastElement ==
    ASSUME NEW S, S \subseteq Nat, S # {}
    PROVE  \E m \in S : \A n \in S : m <= n
<1>1. PICK m \in S : \A n \in S : ~ (<<n, m>> \in OpToRel(<, Nat))
    BY WFMin, NatLessThanWellFounded, Zenon
<1>2. ASSUME NEW n \in S PROVE m <= n
    <2>1. ~ (<<n, m>> \in {ss \in Nat \X Nat : ss[1] < ss[2]})
        BY <1>1, <1>2, Zenon DEF OpToRel
    <2>2. <<n, m>> \in Nat \X Nat
        OBVIOUS
    <2>3. ~ (n < m)
        BY <2>1, <2>2
    <2>4. QED BY <2>3
<1>3. QED BY <1>2
=============================================================================
