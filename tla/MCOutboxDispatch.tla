-------------------------- MODULE MCOutboxDispatch --------------------------
(* Instances of OutboxDispatch for TLC.                                    *)
EXTENDS OutboxDispatch, TLC

CONSTANT service

(* A deployment has one dedicated service actor, which the old and the new *)
(* process share while the one replaces the other.                         *)
OneActor == {service}
SharedActor == [p \in Process |-> service]

(* Processes of separate deployments, each with its own actor.             *)
OwnActor == [p \in Process |-> p]

Symmetry == Permutations(Process) \cup Permutations(Event \ (Malformed \cup Refused))
=============================================================================
