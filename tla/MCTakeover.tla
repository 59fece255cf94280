----------------------------- MODULE MCTakeover -----------------------------
(* Two installations that hand over back and forth.                        *)
EXTENDS Takeover
=============================================================================
