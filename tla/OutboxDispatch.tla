--------------------------- MODULE OutboxDispatch ---------------------------
(***************************************************************************)
(* Delivery of committed outbox events: dispatch processes                 *)
(* (server/runtime/outbox-dispatcher.mjs) claim rows under a lease         *)
(* (migration 299), publish them over HTTP to the consumer                 *)
(* (server/outbox-consumer) one after another, and record the result       *)
(* (migration 279).  Claim, completion and acceptance are one transaction  *)
(* each; between them a process may be slower than its lease, crash, or    *)
(* lose an answer, and a request it gave up may still be accepted.         *)
(*                                                                         *)
(* Time is abstracted: a row is due or not, its lease ran out or not.      *)
(***************************************************************************)
EXTENDS Integers, FiniteSets

CONSTANTS
  Process,      \* dispatch processes
  Event,        \* committed outbox events, in the scope of all processes
  Malformed,    \* events validateClaimedOutboxEvent refuses to send
  Refused,      \* events the consumer answers with a final 4xx
  Actor,        \* service actors
  ActorOf,      \* the actor each process runs as
  Limit,        \* rows one claim may take
  MaxAttempts,  \* OUTBOX_DISPATCH_MAX_ATTEMPTS
  MaxMishaps,   \* bound: crashes, failed calls and leases outlived by work
  None          \* SQL NULL, or nothing under way

ASSUME DispatchAssumption ==
  /\ Malformed \subseteq Event
  /\ Refused \subseteq Event
  /\ ActorOf \in [Process -> Actor]
  /\ Limit \in Nat \ {0}
  /\ MaxAttempts \in Nat \ {0}
  /\ MaxMishaps \in Nat
  /\ None \notin Actor

VARIABLES
  outbox,    \* outbox_event rows
  batch,     \* claims a process was given and has not begun
  call,      \* the claim it is working on and what it knows of the publish
  wire,      \* publish requests on their way to the consumer
  answer,    \* what the consumer answered to the request a process waits on
  ledger,    \* event_ledger rows of the consumer
  mishaps    \* crashes and late processes so far

vars == <<outbox, batch, call, wire, answer, ledger, mishaps>>

Claim == [event : Event, attempt : Nat \ {0}]
Outcome == {"SUCCESS", "RETRYABLE", "REJECTED"}
Status == {"PENDING", "PUBLISHED", "FAILED"}

Init ==
  /\ outbox = [e \in Event |->
       [status |-> "PENDING", attempt |-> 0, lockedBy |-> None, due |-> TRUE,
        expired |-> FALSE]]
  /\ batch = [p \in Process |-> {}]
  /\ call = [p \in Process |-> None]
  /\ wire = {}
  /\ answer = [p \in Process |-> None]
  /\ ledger = {}
  /\ mishaps = 0

(* The claims a process still holds in memory.                             *)
Holds(p) == batch[p] \cup IF call[p] = None THEN {} ELSE {call[p].claim}
Holders(e) == {p \in Process : \E c \in Holds(p) : c.event = e}

LastClaim(e) == [event |-> e, attempt |-> outbox[e].attempt]
UnderWay(e) == \E p \in Process : LastClaim(e) \in Holds(p)

-----------------------------------------------------------------------------
(* Faulty variants for mutation testing: each is named after the           *)
(* definition below whose place it takes and the bug it plants there.      *)

LeaseFree_Ignored(row) == TRUE
LeaseFree_NeverReclaimed(row) == row.lockedBy = None
OwnsLock_Anyone(p, row) == row.status = "PENDING"
Verdict_NoRetry(outcome, attempt) ==
  IF outcome = "SUCCESS" THEN "PUBLISHED" ELSE "FAILED"
Verdict_Retrying(outcome, attempt) ==
  CASE outcome = "SUCCESS" -> "PUBLISHED"
    [] outcome = "RETRYABLE" /\ attempt < MaxAttempts -> "RETRYING"
    [] OTHER -> "FAILED"

-----------------------------------------------------------------------------
(* Claims                                                                  *)

LeaseFree(row) == row.lockedBy = None \/ row.expired

Claimable(e) ==
  /\ outbox[e].status = "PENDING"
  /\ outbox[e].due
  /\ LeaseFree(outbox[e])

ClaimRow(p, row) ==
  [status |-> row.status, attempt |-> row.attempt + 1, lockedBy |-> ActorOf[p],
   due |-> row.due, expired |-> FALSE]

(* refs_claim_outbox_v3.  The oldest rows come first, but SKIP LOCKED      *)
(* passes over those another transaction holds: any few may be taken.      *)
ClaimRows(p, rows) ==
  /\ batch[p] = {} /\ call[p] = None
  /\ rows # {}
  /\ Cardinality(rows) <= Limit
  /\ \A e \in rows : Claimable(e)
  /\ outbox' = [e \in Event |->
       IF e \in rows THEN ClaimRow(p, outbox[e]) ELSE outbox[e]]
  /\ batch' = [batch EXCEPT ![p] =
       {[event |-> e, attempt |-> outbox[e].attempt + 1] : e \in rows}]
  /\ UNCHANGED <<call, wire, answer, ledger, mishaps>>

-----------------------------------------------------------------------------
(* Publishing                                                              *)

(* The next row of the claimed batch, whose order the UPDATE leaves open:  *)
(* a malformed one is never sent.                                          *)
Begin(p, c) ==
  /\ call[p] = None
  /\ c \in batch[p]
  /\ batch' = [batch EXCEPT ![p] = @ \ {c}]
  /\ \/ /\ c.event \in Malformed
        /\ call' = [call EXCEPT ![p] = [claim |-> c, at |-> "REJECTED"]]
        /\ UNCHANGED wire
     \/ /\ c.event \notin Malformed
        /\ call' = [call EXCEPT ![p] = [claim |-> c, at |-> "WAIT"]]
        /\ wire' = wire \cup {[process |-> p, claim |-> c]}
  /\ UNCHANGED <<outbox, answer, ledger, mishaps>>

Waiting(p) == call[p] # None /\ call[p].at = "WAIT"

(* The answer travels on the connection of its request: it is of use only  *)
(* while the process still waits for that one.                             *)
Reply(request, outcome) ==
  LET p == request.process
  IN answer' = IF Waiting(p) /\ call[p].claim = request.claim
                 THEN [answer EXCEPT ![p] = outcome] ELSE answer

(* refs_outbox_consumer.accept keeps one row per event.                    *)
Retained(c) == IF \E row \in ledger : row.event = c.event
                 THEN ledger ELSE ledger \cup {c}

Accept(request) ==
  /\ request \in wire
  /\ request.claim.event \notin Refused
  /\ wire' = wire \ {request}
  /\ ledger' = Retained(request.claim)
  /\ Reply(request, "SUCCESS")
  /\ UNCHANGED <<outbox, batch, call, mishaps>>

Refuse(request) ==
  /\ request \in wire
  /\ request.claim.event \in Refused
  /\ wire' = wire \ {request}
  /\ Reply(request, "REJECTED")
  /\ UNCHANGED <<outbox, batch, call, ledger, mishaps>>

(* 503: the consumer's database is away, or lost the answer to its commit. *)
Unavailable(request) ==
  /\ request \in wire
  /\ wire' = wire \ {request}
  /\ \/ UNCHANGED ledger
     \/ request.claim.event \notin Refused /\ ledger' = Retained(request.claim)
  /\ Reply(request, "RETRYABLE")
  /\ UNCHANGED <<outbox, batch, call, mishaps>>

Learn(p, outcome) ==
  /\ call' = [call EXCEPT ![p].at = outcome]
  /\ answer' = [answer EXCEPT ![p] = None]
  /\ UNCHANGED <<outbox, batch, wire, ledger, mishaps>>

Receive(p) == Waiting(p) /\ answer[p] # None /\ Learn(p, answer[p])

(* The one deadline over headers and receipt; the request may live on.     *)
TimeOut(p) == Waiting(p) /\ Learn(p, "RETRYABLE")

-----------------------------------------------------------------------------
(* Completion                                                              *)

Verdict(outcome, attempt) ==
  CASE outcome = "SUCCESS" -> "PUBLISHED"
    [] outcome = "RETRYABLE" /\ attempt < MaxAttempts -> "PENDING"
    [] OTHER -> "FAILED"

(* The lock names an actor, not a claim.                                   *)
OwnsLock(p, row) == row.status = "PENDING" /\ row.lockedBy = ActorOf[p]

CompleteRow(outcome, row) ==
  [status |-> Verdict(outcome, row.attempt), attempt |-> row.attempt,
   lockedBy |-> None, expired |-> FALSE,
   due |-> Verdict(outcome, row.attempt) # "PENDING"]

(* refs_complete_outbox_v2, then validateOutboxCompletion: if the row was  *)
(* not the process's any more, or answers with another attempt than the    *)
(* one claimed, the rest of the batch is dropped.                          *)
Complete(p) ==
  /\ call[p] # None
  /\ call[p].at \in Outcome
  /\ LET c == call[p].claim
         row == outbox[c.event]
     IN /\ outbox' = IF OwnsLock(p, row)
                       THEN [outbox EXCEPT ![c.event] = CompleteRow(call[p].at, row)]
                       ELSE outbox
        /\ batch' = IF OwnsLock(p, row) /\ row.attempt = c.attempt
                      THEN batch ELSE [batch EXCEPT ![p] = {}]
  /\ call' = [call EXCEPT ![p] = None]
  /\ UNCHANGED <<wire, answer, ledger, mishaps>>

-----------------------------------------------------------------------------
(* Time and failure                                                        *)

BackoffElapses(e) ==
  /\ ~outbox[e].due
  /\ outbox' = [outbox EXCEPT ![e].due = TRUE]
  /\ UNCHANGED <<batch, call, wire, answer, ledger, mishaps>>

(* The lease of work nobody is doing any more runs out; that of work under *)
(* way runs out when the process is late, which is a mishap.               *)
LeaseRunsOut(e) ==
  /\ outbox[e].lockedBy # None /\ ~outbox[e].expired
  /\ outbox' = [outbox EXCEPT ![e].expired = TRUE]
  /\ UNCHANGED <<batch, call, wire, answer, ledger>>

AbandonedLease(e) == LeaseRunsOut(e) /\ ~UnderWay(e) /\ UNCHANGED mishaps

OutlivedLease(e) ==
  /\ LeaseRunsOut(e)
  /\ UnderWay(e)
  /\ mishaps < MaxMishaps
  /\ mishaps' = mishaps + 1

(* The process dies, or a database call of its cycle fails for good        *)
(* (whether or not it took effect): what it held in memory is gone.        *)
Crash(p) ==
  /\ Holds(p) # {}
  /\ mishaps < MaxMishaps
  /\ mishaps' = mishaps + 1
  /\ batch' = [batch EXCEPT ![p] = {}]
  /\ call' = [call EXCEPT ![p] = None]
  /\ answer' = [answer EXCEPT ![p] = None]
  /\ UNCHANGED <<outbox, wire, ledger>>

-----------------------------------------------------------------------------
(* Specification                                                           *)

Dispatch(p) ==
  \/ \E rows \in SUBSET Event : ClaimRows(p, rows)
  \/ \E c \in batch[p] : Begin(p, c)
  \/ Receive(p)
  \/ TimeOut(p)
  \/ Complete(p)

Consumer ==
  \E request \in wire : Accept(request) \/ Refuse(request) \/ Unavailable(request)

Passage(e) == BackoffElapses(e) \/ AbandonedLease(e)

Next ==
  \/ \E p \in Process : Dispatch(p) \/ Crash(p)
  \/ Consumer
  \/ \E e \in Event : Passage(e) \/ OutlivedLease(e)

Spec == Init /\ [][Next]_vars

(* The loop of every process polls again and again, its deadline always    *)
(* fires, a process supervisor restarts it, and time passes.  Nothing is   *)
(* asked of the consumer.                                                  *)
Fairness ==
  /\ \A p \in Process : WF_vars(Dispatch(p))
  /\ \A e \in Event : WF_vars(Passage(e))

FairSpec == Spec /\ Fairness

-----------------------------------------------------------------------------
(* Properties                                                              *)

(* Every row, claim and request is of its type; a lock belongs to a row    *)
(* still pending, and an answer to a process that waits.                   *)
TypeOK ==
  /\ outbox \in [Event -> [status : Status, attempt : Nat,
                           lockedBy : Actor \cup {None}, due : BOOLEAN,
                           expired : BOOLEAN]]
  /\ batch \in [Process -> SUBSET Claim]
  /\ call \in [Process -> [claim : Claim, at : Outcome \cup {"WAIT"}] \cup {None}]
  /\ wire \subseteq [process : Process, claim : Claim]
  /\ answer \in [Process -> Outcome \cup {None}]
  /\ ledger \subseteq Claim
  /\ mishaps \in 0..MaxMishaps
  /\ \A e \in Event : outbox[e].lockedBy # None => outbox[e].status = "PENDING"
  /\ \A p \in Process : answer[p] # None => Waiting(p)

(* An event is dead-lettered for cause only: nobody could ever have taken  *)
(* it, or it was claimed as often as the configuration allows.             *)
DeadLettersJustified ==
  \A e \in Event :
    outbox[e].status = "FAILED" =>
      e \in Malformed \cup Refused \/ outbox[e].attempt >= MaxAttempts

(* The lease keeps deliveries of one event apart: as long as nothing went  *)
(* wrong one process works on it, and afterwards never more than one on    *)
(* the same attempt.                                                       *)
LeaseExcludes ==
  /\ mishaps = 0 => \A e \in Event : Cardinality(Holders(e)) <= 1
  /\ \A p, q \in Process : p # q => Holds(p) \cap Holds(q) = {}

(* A completion settles the claim the process was given: no row is         *)
(* released on behalf of an attempt that is no longer the row's.           *)
SettlesItsClaim ==
  [][\A e \in Event :
       outbox[e].lockedBy # None /\ outbox'[e].lockedBy = None =>
         \E p \in Process :
           /\ call[p] # None
           /\ call[p].claim = LastClaim(e)
           /\ call'[p] = None]_vars

(* The dispatcher, the lease and the consumer together deliver as          *)
(* EventDelivery promises.                                                 *)
Delivery == INSTANCE EventDelivery WITH
  Deliverable <- Event \ (Refused \cup Malformed),
  verdict <- [e \in Event |-> outbox[e].status],
  retained <- ledger

DeliversEvents == Delivery!LiveSpec
=============================================================================
