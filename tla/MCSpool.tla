------------------------------ MODULE MCSpool ------------------------------
(* An instance of the lifecycle spool: one request with an event between   *)
(* its first and its terminal one, and one without.                        *)
EXTENDS LifecycleSpool

CONSTANTS r1, r2

MCRequest == {r1, r2}
MCBudget  == (r1 :> 3) @@ (r2 :> 2)
=============================================================================
