------------------------- MODULE MCRequestLifecycle -------------------------
(* Two requests over two permits.  The first has a shadow leg, and a       *)
(* fallback where Sends allows it.                                         *)
EXTENDS RequestLifecycle, TLC

CONSTANTS r1, r2

MCRequest   == {r1, r2}
MCHasShadow == (r1 :> TRUE) @@ (r2 :> FALSE)
Fallback    == (r1 :> 2) @@ (r2 :> 1)
=============================================================================
