-------------------------- MODULE MCJournalWorkflow --------------------------
(* Instances of JournalWorkflow for TLC.                                   *)
EXTENDS JournalWorkflow, TLC

(* Everybody may do everything: only the row's own actors stop a command.  *)
AllHold == [permission \in Permission |-> Actor]

ActorSymmetry == Permutations(Actor)
JournalSymmetry == Permutations(Journal)

(* The commands compare actors, and journals, for equality only.           *)
Symmetry == ActorSymmetry \cup JournalSymmetry
=============================================================================
