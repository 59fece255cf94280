---------------------------- MODULE MCWDRRQueue ----------------------------
(* Small instances of WDRRQueue.                                           *)
EXTENDS WDRRQueue, TLC

Ask(K, T, W, C) == [key : K, tier : T, weight : W, class : C]

(* Both classes and two keys in one tier; two tiers of one class; one lane *)
ClassOffer == Ask({1}, {0}, Weight, Class) \cup Ask({2}, {0}, {2}, {"scarce"})
TierOffer  == Ask(Key, Tier, {1}, {"scarce"})
LaneOffer  == Ask(Key, {0}, Weight, {"scarce"})

Symmetry == Permutations(Request)
=============================================================================
