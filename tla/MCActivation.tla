---------------------------- MODULE MCActivation ----------------------------
(* Small instances of Activation.                                          *)
EXTENDS Activation
=============================================================================
