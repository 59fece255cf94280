-------------------------- MODULE MCAttemptJournal --------------------------
(* Small instances of AttemptJournal.                                      *)
EXTENDS AttemptJournal

(* Two kills, or two power losses; or one of each.                         *)
OneKind == {[stop |-> 2, power |-> 0], [stop |-> 0, power |-> 2]}
BothKinds == {[stop |-> 1, power |-> 1]}

Symmetry == Permutations(Value)
=============================================================================
