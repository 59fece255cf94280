----------------------------- MODULE MCAdmission -----------------------------
(* Small instances of Admission.                                           *)
EXTENDS Admission, TLC

Leg(a, C) == [account |-> a, causes |-> C]

CONSTANTS a1, a2, r1, r2, r3

(* r1 is scarce on a1 and in the lower tier; r2 and r3 may spill to a2.    *)
Spill == <<Leg(a1, {"primary"}), Leg(a2, {"capacity", "quota", "failure"})>>
MCRoute == (r1 :> <<Leg(a1, {"primary"})>>) @@ (r2 :> Spill) @@ (r3 :> Spill)

(* Routes in which two legs serve a failure.                               *)
TwoFailures ==
    [r \in Request |-> <<Leg(a2, {"primary"}), Leg(a1, {"failure"}), Leg(a2, {"failure"})>>]
PrimaryAgain ==
    [r \in Request |-> <<Leg(a1, {"primary", "failure"}), Leg(a2, {"failure"})>>]

MCQos == (r1 :> [key |-> 1, tier |-> 1, weight |-> 1])
      @@ (r2 :> [key |-> 2, tier |-> 0, weight |-> 1])
      @@ (r3 :> [key |-> 2, tier |-> 0, weight |-> 1])

One == [a \in Account |-> 1]

(* A rate window fills and opens, a circuit opens.                         *)
MCMoves == {<<a1, "rpm", "open">>} \cup
           {<<a1, "open", g>> : g \in {"rpm", "tpm", "broken"}}
NoMoves == {}

(* r2 and r3 ask for the same with the same key.                           *)
Symmetry == Permutations({r2, r3})
=============================================================================
