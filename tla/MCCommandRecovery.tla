------------------------- MODULE MCCommandRecovery -------------------------
(* Instances of CommandRecovery for TLC.                                   *)
EXTENDS CommandRecovery, TLC

Symmetry == Permutations(Form) \cup Permutations(Key)
=============================================================================
