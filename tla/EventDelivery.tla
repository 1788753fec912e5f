---------------------------- MODULE EventDelivery ----------------------------
(***************************************************************************)
(* What the outbox promises the accounting kernel about the events its     *)
(* commands commit (server/outbox-consumer/README.md: at-least-once        *)
(* delivery with idempotent retention): the consumer retains an event at   *)
(* most once, an event recorded as published is retained, a verdict is     *)
(* final, and every event gets one.                                        *)
(***************************************************************************)
CONSTANTS
  Event,       \* committed outbox events
  Deliverable  \* those the consumer is able to take

VARIABLES
  verdict,     \* the producer's record of each event
  retained     \* rows of the consumer: the event and the attempt it came with

vars == <<verdict, retained>>

Init ==
  /\ verdict = [e \in Event |-> "PENDING"]
  /\ retained = {}

(* Acceptance may come after the producer gave the event up.               *)
Retain(row) ==
  /\ row.event \in Deliverable
  /\ \A old \in retained : old.event # row.event
  /\ retained' = retained \cup {row}
  /\ UNCHANGED verdict

Publish(e) ==
  /\ verdict[e] = "PENDING"
  /\ \E row \in retained : row.event = e
  /\ verdict' = [verdict EXCEPT ![e] = "PUBLISHED"]
  /\ UNCHANGED retained

GiveUp(e) ==
  /\ verdict[e] = "PENDING"
  /\ verdict' = [verdict EXCEPT ![e] = "FAILED"]
  /\ UNCHANGED retained

(* The row is named after the step: the consumer, not the producer, says   *)
(* which attempt it was.                                                   *)
Next ==
  \/ \E row \in retained' : Retain(row)
  \/ \E e \in Event : Publish(e) \/ GiveUp(e)

Spec == Init /\ [][Next]_vars

(* Every event committed with a command is published or visibly failed.    *)
EventuallySettled == \A e \in Event : <>(verdict[e] # "PENDING")

LiveSpec == Spec /\ EventuallySettled
=============================================================================
