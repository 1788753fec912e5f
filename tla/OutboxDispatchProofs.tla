------------------------ MODULE OutboxDispatchProofs ------------------------
(***************************************************************************)
(* Proofs about OutboxDispatch: for any processes, events, actors, batch   *)
(* sizes and attempt limits, and any number of mishaps.                    *)
(***************************************************************************)
EXTENDS OutboxDispatch, FiniteSetTheorems, TLAPS

-----------------------------------------------------------------------------
(* Type correctness                                                        *)

(* A completed row is a row without a lock.                                *)
LEMMA CompletedRow ==
  ASSUME NEW outcome \in Outcome,
         NEW row \in [status : Status, attempt : Nat, lockedBy : Actor \cup {None},
                      due : BOOLEAN, expired : BOOLEAN]
  PROVE  /\ CompleteRow(outcome, row) \in
              [status : Status, attempt : Nat, lockedBy : Actor \cup {None},
               due : BOOLEAN, expired : BOOLEAN]
         /\ CompleteRow(outcome, row).status = Verdict(outcome, row.attempt)
         /\ CompleteRow(outcome, row).attempt = row.attempt
         /\ CompleteRow(outcome, row).lockedBy = None
  BY DEF CompleteRow, Verdict, Outcome, Status

LEMMA ClaimedRow ==
  ASSUME NEW p \in Process,
         NEW row \in [status : Status, attempt : Nat, lockedBy : Actor \cup {None},
                      due : BOOLEAN, expired : BOOLEAN]
  PROVE  /\ ClaimRow(p, row) \in
              [status : Status, attempt : Nat, lockedBy : Actor \cup {None},
               due : BOOLEAN, expired : BOOLEAN]
         /\ ClaimRow(p, row).status = row.status
         /\ ClaimRow(p, row).attempt = row.attempt + 1
         /\ ClaimRow(p, row).lockedBy = ActorOf[p]
  BY DispatchAssumption DEF ClaimRow

LEMMA DispatchTypes ==
  ASSUME TypeOK, NEW p \in Process, Dispatch(p)
  PROVE  TypeOK'
<1>. USE DispatchAssumption
<1>1. ASSUME NEW rows \in SUBSET Event, ClaimRows(p, rows)
      PROVE  TypeOK'
  <2>1. /\ outbox' \in [Event -> [status : Status, attempt : Nat,
                                  lockedBy : Actor \cup {None}, due : BOOLEAN,
                                  expired : BOOLEAN]]
        /\ \A e \in Event : outbox'[e].lockedBy # None => outbox'[e].status = "PENDING"
    BY <1>1, ClaimedRow DEF TypeOK, ClaimRows, Claimable
  <2>2. \A e \in rows : [event |-> e, attempt |-> outbox[e].attempt + 1] \in Claim
    BY DEF TypeOK, Claim
  <2>3. batch' \in [Process -> SUBSET Claim]
    BY <1>1, <2>2 DEF TypeOK, ClaimRows
  <2>. QED  BY <1>1, <2>1, <2>3 DEF TypeOK, ClaimRows, Waiting
<1>2. ASSUME NEW c \in batch[p], Begin(p, c)
      PROVE  TypeOK'
  <2>1. c \in Claim /\ batch' \in [Process -> SUBSET Claim]
    BY <1>2 DEF TypeOK, Begin
  <2>2. call' \in [Process -> [claim : Claim, at : Outcome \cup {"WAIT"}] \cup {None}]
    <3>1. PICK at \in {"REJECTED", "WAIT"} :
            call' = [call EXCEPT ![p] = [claim |-> c, at |-> at]]
      BY <1>2 DEF Begin
    <3>. QED  BY <3>1, <2>1 DEF TypeOK, Outcome
  <2>3. wire' \subseteq [process : Process, claim : Claim]
    BY <1>2, <2>1 DEF TypeOK, Begin
  <2>4. \A q \in Process : answer'[q] # None => Waiting(q)'
    BY <1>2 DEF TypeOK, Begin, Waiting
  <2>. QED  BY <1>2, <2>1, <2>2, <2>3, <2>4 DEF TypeOK, Begin
<1>3. ASSUME NEW outcome \in Outcome, Waiting(p), Learn(p, outcome)
      PROVE  TypeOK'
  BY <1>3 DEF TypeOK, Learn, Waiting, Outcome
<1>4. CASE Receive(p)
  BY <1>4, <1>3 DEF Receive, TypeOK
<1>5. CASE TimeOut(p)
  BY <1>5, <1>3 DEF TimeOut, Outcome
<1>6. CASE Complete(p)
  <2>. DEFINE c == call[p].claim
  <2>1. c \in Claim /\ c.event \in Event /\ call[p].at \in Outcome
    BY <1>6 DEF Complete, TypeOK, Claim
  <2>2. /\ outbox' \in [Event -> [status : Status, attempt : Nat,
                                  lockedBy : Actor \cup {None}, due : BOOLEAN,
                                  expired : BOOLEAN]]
        /\ \A e \in Event : outbox'[e].lockedBy # None => outbox'[e].status = "PENDING"
    BY <1>6, <2>1, CompletedRow DEF Complete, TypeOK
  <2>3. batch' \in [Process -> SUBSET Claim]
    BY <1>6 DEF Complete, TypeOK
  <2>4. /\ call' \in [Process -> [claim : Claim, at : Outcome \cup {"WAIT"}] \cup {None}]
        /\ \A q \in Process : answer'[q] # None => Waiting(q)'
    BY <1>6 DEF Complete, TypeOK, Waiting, Outcome
  <2>. QED  BY <1>6, <2>2, <2>3, <2>4 DEF Complete, TypeOK
<1>. QED  BY <1>1, <1>2, <1>4, <1>5, <1>6 DEF Dispatch

LEMMA ConsumerTypes ==
  ASSUME TypeOK, Consumer
  PROVE  TypeOK'
<1>1. PICK request \in wire :
        Accept(request) \/ Refuse(request) \/ Unavailable(request)
  BY DEF Consumer
<1>2. request \in [process : Process, claim : Claim]
  BY DEF TypeOK
<1>3. ASSUME NEW outcome \in Outcome, Reply(request, outcome), UNCHANGED call
      PROVE  /\ answer' \in [Process -> Outcome \cup {None}]
             /\ \A q \in Process : answer'[q] # None => Waiting(q)'
  BY <1>2, <1>3 DEF Reply, TypeOK, Waiting
<1>4. Retained(request.claim) \subseteq Claim
  BY <1>2 DEF Retained, TypeOK
<1>. QED  BY <1>1, <1>3, <1>4 DEF Accept, Refuse, Unavailable, TypeOK, Outcome

LEMMA PassageTypes ==
  ASSUME TypeOK, NEW e \in Event, Passage(e) \/ OutlivedLease(e)
  PROVE  TypeOK'
<1>. USE DispatchAssumption
<1>1. CASE BackoffElapses(e)
  BY <1>1 DEF BackoffElapses, TypeOK, Waiting
<1>2. ASSUME LeaseRunsOut(e), mishaps' \in 0..MaxMishaps
      PROVE  TypeOK'
  BY <1>2 DEF LeaseRunsOut, TypeOK, Waiting
<1>. QED  BY <1>1, <1>2 DEF Passage, AbandonedLease, OutlivedLease, TypeOK

LEMMA CrashTypes ==
  ASSUME TypeOK, NEW p \in Process, Crash(p)
  PROVE  TypeOK'
  BY DispatchAssumption DEF Crash, TypeOK, Waiting

LEMMA TypesKept == TypeOK /\ [Next]_vars => TypeOK'
<1>. SUFFICES ASSUME TypeOK, [Next]_vars
              PROVE  TypeOK'
  OBVIOUS
<1>1. CASE UNCHANGED vars
  BY <1>1 DEF vars, TypeOK, Waiting
<1>. QED
  BY <1>1, DispatchTypes, CrashTypes, ConsumerTypes, PassageTypes DEF Next

(* The tables, the processes' memory and the requests stay well typed; a   *)
(* lock is on a pending row only, and only a waiting process has an        *)
(* answer.                                                                 *)
THEOREM DispatchTyped == Spec => []TypeOK
<1>1. Init => TypeOK
  BY DispatchAssumption DEF Init, TypeOK, Status, Waiting
<1>. QED  BY <1>1, TypesKept, PTL DEF Spec

-----------------------------------------------------------------------------
(* What a process may believe about the event it works on                  *)

Kept(e) == \E row \in ledger : row.event = e

(* A process that is told of success, or remembers it, has an event the    *)
(* consumer keeps; one that was told of a rejection has an event nobody    *)
(* could take; and no malformed event was ever sent.                       *)
Belief(e, outcome) ==
  /\ outcome = "SUCCESS" => Kept(e)
  /\ outcome = "REJECTED" => e \in Malformed \cup Refused

CallInformed(p) == call[p] # None => Belief(call[p].claim.event, call[p].at)
AnswerInformed(p) == answer[p] # None => Belief(call[p].claim.event, answer[p])

Informed ==
  /\ \A p \in Process : CallInformed(p) /\ AnswerInformed(p)
  /\ \A request \in wire : request.claim.event \notin Malformed

Settled ==
  /\ \A e \in Event : outbox[e].status = "PUBLISHED" => Kept(e)
  /\ DeadLettersJustified
  /\ \A row \in ledger : row.event \notin Malformed \cup Refused

(* The strengthening of DeadLettersJustified that is inductive.            *)
DeliveryInv == TypeOK /\ Informed /\ Settled

LEMMA InformedInit == Init => Informed /\ Settled
  BY DEF Init, Informed, CallInformed, AnswerInformed, Settled, DeadLettersJustified

LEMMA ClaimRowsInformed ==
  ASSUME DeliveryInv, NEW p \in Process, NEW rows \in SUBSET Event, ClaimRows(p, rows)
  PROVE  Informed' /\ Settled'
<1>. USE DEF DeliveryInv
<1>1. Informed'
  BY DEF ClaimRows, Informed, CallInformed, AnswerInformed, Belief, Kept
<1>2. \A e \in Event : /\ outbox'[e].status = outbox[e].status
                       /\ outbox'[e].attempt >= outbox[e].attempt
  BY ClaimedRow DEF ClaimRows, TypeOK
<1>3. \A e \in Event : outbox[e].attempt \in Nat /\ outbox'[e].attempt \in Nat
  BY ClaimedRow DEF ClaimRows, TypeOK
<1>4. ledger' = ledger
  BY DEF ClaimRows
<1>5. DeadLettersJustified'
  BY <1>2, <1>3, DispatchAssumption DEF Settled, DeadLettersJustified
<1>. QED  BY <1>1, <1>2, <1>4, <1>5 DEF Settled, Kept

LEMMA BeginInformed ==
  ASSUME DeliveryInv, NEW p \in Process, NEW c \in batch[p], Begin(p, c)
  PROVE  Informed' /\ Settled'
<1>1. Settled'
  BY DEF DeliveryInv, Begin, Settled, Kept, DeadLettersJustified
<1>2. \A q \in Process : call'[q] # None => Belief(call'[q].claim.event, call'[q].at)
  BY DEF DeliveryInv, TypeOK, Begin, Informed, CallInformed, AnswerInformed, Belief,
         Kept
<1>3. \A q \in Process : answer'[q] # None => Belief(call'[q].claim.event, answer'[q])
  BY DEF DeliveryInv, TypeOK, Begin, Informed, CallInformed, AnswerInformed, Waiting
<1>4. \A request \in wire' : request.claim.event \notin Malformed
  BY DEF DeliveryInv, Begin, Informed
<1>. QED
  BY <1>1, <1>2, <1>3, <1>4
     DEF Begin, Informed, CallInformed, AnswerInformed, Belief, Kept

LEMMA LearnInformed ==
  ASSUME DeliveryInv, NEW p \in Process, Receive(p) \/ TimeOut(p)
  PROVE  Informed' /\ Settled'
<1>1. Settled'
  BY DEF DeliveryInv, Receive, TimeOut, Learn, Settled, Kept, DeadLettersJustified
<1>2. PICK outcome \in Outcome :
        /\ Waiting(p)
        /\ Learn(p, outcome)
        /\ Belief(call[p].claim.event, outcome)
  BY DEF DeliveryInv, Receive, TimeOut, TypeOK, Informed, AnswerInformed, Belief, Outcome
<1>3. \A q \in Process :
        /\ call'[q] # None =>
             /\ call[q] # None
             /\ call'[q].claim = call[q].claim
             /\ call'[q].at = IF q = p THEN outcome ELSE call[q].at
        /\ answer'[q] # None => answer'[q] = answer[q] /\ q # p
  BY <1>2 DEF DeliveryInv, TypeOK, Learn, Waiting
<1>4. /\ \A q \in Process : call'[q] # None => Belief(call'[q].claim.event, call'[q].at)
      /\ \A q \in Process : answer'[q] # None => Belief(call'[q].claim.event, answer'[q])
  BY <1>2, <1>3
     DEF DeliveryInv, Informed, CallInformed, AnswerInformed, Learn, TypeOK, Waiting
<1>. QED
  BY <1>1, <1>2, <1>4
     DEF DeliveryInv, Informed, CallInformed, AnswerInformed, Learn, Belief, Kept

LEMMA CompleteInformed ==
  ASSUME DeliveryInv, NEW p \in Process, Complete(p)
  PROVE  Informed' /\ Settled'
<1>1. Informed'
  <2>1. \A q \in Process : answer'[q] # None => q # p
    BY DEF DeliveryInv, TypeOK, Complete, Waiting, Outcome
  <2>2. \A q \in Process \ {p} : call'[q] = call[q]
    BY DEF DeliveryInv, TypeOK, Complete
  <2>3. call'[p] = None /\ answer' = answer /\ wire' = wire /\ ledger' = ledger
    BY DEF DeliveryInv, TypeOK, Complete
  <2>. QED
    BY <2>1, <2>2, <2>3
       DEF DeliveryInv, Informed, CallInformed, AnswerInformed, Belief, Kept
<1>2. Settled'
  <2>. DEFINE c == call[p].claim
  <2>1. c.event \in Event /\ call[p].at \in Outcome /\ Belief(c.event, call[p].at)
    BY DEF DeliveryInv, TypeOK, Claim, Complete, Informed, CallInformed
  <2>2. ASSUME NEW e \in Event, outbox'[e] # outbox[e]
        PROVE  /\ e = c.event
               /\ outbox'[e].status = Verdict(call[p].at, outbox[e].attempt)
               /\ outbox'[e].attempt = outbox[e].attempt
    BY <2>1, <2>2, CompletedRow DEF DeliveryInv, TypeOK, Complete
  <2>3. ASSUME NEW e \in Event, outbox'[e] # outbox[e]
        PROVE  /\ outbox'[e].status = "PUBLISHED" => Kept(e)
               /\ outbox'[e].status = "FAILED" =>
                    e \in Malformed \cup Refused \/ outbox'[e].attempt >= MaxAttempts
    BY <2>1, <2>2, <2>3, DispatchAssumption
       DEF DeliveryInv, TypeOK, Verdict, Belief, Outcome
  <2>4. ledger' = ledger
    BY DEF Complete
  <2>. QED  BY <2>3, <2>4 DEF DeliveryInv, Settled, DeadLettersJustified, Kept
<1>. QED  BY <1>1, <1>2

LEMMA ConsumerInformed ==
  ASSUME DeliveryInv, Consumer
  PROVE  Informed' /\ Settled'
<1>1. PICK request \in wire :
        Accept(request) \/ Refuse(request) \/ Unavailable(request)
  BY DEF Consumer
<1>. DEFINE e == request.claim.event
<1>2. request.claim \in Claim /\ e \in Event /\ e \notin Malformed
  BY DEF DeliveryInv, TypeOK, Claim, Informed
<1>3. UNCHANGED <<outbox, call>> /\ wire' \subseteq wire
  BY <1>1 DEF Accept, Refuse, Unavailable
<1>4. /\ ledger' = ledger \/ (e \notin Refused /\ ledger' = Retained(request.claim))
      /\ Accept(request) => ledger' = Retained(request.claim)
  BY <1>1 DEF Accept, Refuse, Unavailable
<1>5. /\ \A row \in ledger' : row.event \notin Malformed \cup Refused
      /\ \A f \in Event : Kept(f) => Kept(f)'
      /\ ledger' = Retained(request.claim) => Kept(e)'
  BY <1>2, <1>4 DEF DeliveryInv, Settled, Retained, Kept
<1>6. Settled'
  BY <1>3, <1>5 DEF DeliveryInv, Settled, DeadLettersJustified
<1>7. PICK outcome \in Outcome : Reply(request, outcome) /\ Belief(e, outcome)'
  BY <1>1, <1>4, <1>5 DEF Accept, Refuse, Unavailable, Belief, Outcome
<1>8. \A q \in Process : call[q] # None => call[q].claim.event \in Event
  BY DEF DeliveryInv, TypeOK, Claim
<1>9. \A q \in Process : CallInformed(q)'
  BY <1>3, <1>5, <1>8 DEF DeliveryInv, Informed, CallInformed, Belief
<1>10. ASSUME NEW q \in Process
       PROVE  AnswerInformed(q)'
  <2>1. CASE answer'[q] = answer[q]
    BY <2>1, <1>3, <1>5, <1>8
       DEF DeliveryInv, Informed, AnswerInformed, TypeOK, Waiting, Belief
  <2>2. CASE answer'[q] # answer[q]
    <3>1. answer'[q] = outcome /\ call[q].claim.event = e
      BY <2>2, <1>7 DEF Reply, DeliveryInv, TypeOK
    <3>. QED  BY <3>1, <1>3, <1>7 DEF AnswerInformed, Belief, Kept
  <2>. QED  BY <2>1, <2>2
<1>. QED  BY <1>3, <1>6, <1>9, <1>10 DEF DeliveryInv, Informed

LEMMA PassageInformed ==
  ASSUME DeliveryInv, NEW e \in Event, Passage(e) \/ OutlivedLease(e)
  PROVE  Informed' /\ Settled'
<1>1. UNCHANGED <<batch, call, wire, answer, ledger>>
  BY DEF Passage, OutlivedLease, AbandonedLease, LeaseRunsOut, BackoffElapses
<1>2. \A f \in Event : /\ outbox'[f].status = outbox[f].status
                       /\ outbox'[f].attempt = outbox[f].attempt
  BY DEF DeliveryInv, TypeOK, Passage, OutlivedLease, AbandonedLease, LeaseRunsOut,
         BackoffElapses
<1>. QED
  BY <1>1, <1>2
     DEF DeliveryInv, Informed, CallInformed, AnswerInformed, Settled,
         DeadLettersJustified, Belief, Kept

LEMMA CrashInformed ==
  ASSUME DeliveryInv, NEW p \in Process, Crash(p)
  PROVE  Informed' /\ Settled'
<1>1. UNCHANGED <<outbox, wire, ledger>>
  BY DEF Crash
<1>2. \A q \in Process :
        /\ call'[q] # None => call'[q] = call[q]
        /\ answer'[q] # None => answer'[q] = answer[q] /\ call'[q] = call[q]
  BY DEF DeliveryInv, TypeOK, Crash
<1>. QED
  BY <1>1, <1>2
     DEF DeliveryInv, Informed, CallInformed, AnswerInformed, Settled,
         DeadLettersJustified, Belief, Kept

LEMMA DeliveryInvKept == DeliveryInv /\ [Next]_vars => DeliveryInv'
<1>. SUFFICES ASSUME DeliveryInv, [Next]_vars
              PROVE  DeliveryInv'
  OBVIOUS
<1>1. TypeOK'
  BY DispatchTypes, CrashTypes, ConsumerTypes, PassageTypes
     DEF DeliveryInv, Next, vars, TypeOK, Waiting
<1>2. Informed' /\ Settled'
  <2>1. CASE UNCHANGED vars
    BY <2>1
       DEF vars, DeliveryInv, Informed, CallInformed, AnswerInformed, Settled,
           DeadLettersJustified, Belief, Kept
  <2>2. ASSUME NEW p \in Process, Dispatch(p)
        PROVE  Informed' /\ Settled'
    BY <2>2, ClaimRowsInformed, BeginInformed, LearnInformed, CompleteInformed
       DEF Dispatch
  <2>. QED
    BY <2>1, <2>2, CrashInformed, ConsumerInformed, PassageInformed DEF Next
<1>. QED  BY <1>1, <1>2 DEF DeliveryInv

LEMMA DeliveryInvHolds == Spec => []DeliveryInv
<1>1. Init => DeliveryInv
  BY InformedInit, DispatchAssumption DEF Init, DeliveryInv, TypeOK, Status, Waiting
<1>. QED  BY <1>1, DeliveryInvKept, PTL DEF Spec

(* Dead letters are justified: an event is given up only when it could not *)
(* be taken at all or was claimed as often as configured, whatever crashes *)
(* and late completions there were.                                        *)
THEOREM DeadLetters == Spec => []DeadLettersJustified
<1>1. DeliveryInv => DeadLettersJustified
  BY DEF DeliveryInv, Settled
<1>. QED  BY <1>1, DeliveryInvHolds, PTL

-----------------------------------------------------------------------------
(* Refinement                                                              *)

LEMMA DeliveryStep ==
  DeliveryInv /\ [Next]_vars => [Delivery!Next]_(Delivery!vars)
<1>. SUFFICES ASSUME DeliveryInv, DeliveryInv', [Next]_vars
              PROVE  [Delivery!Next]_(Delivery!vars)
  BY DeliveryInvKept
<1>. DEFINE verdict == [e \in Event |-> outbox[e].status]
<1>1. ASSUME ledger' = ledger,
             \A e \in Event : outbox'[e].status = outbox[e].status
      PROVE  UNCHANGED Delivery!vars
  BY <1>1 DEF Delivery!vars
<1>2. ASSUME NEW p \in Process, NEW rows \in SUBSET Event, ClaimRows(p, rows)
      PROVE  UNCHANGED Delivery!vars
  BY <1>1, <1>2, ClaimedRow DEF ClaimRows, DeliveryInv, TypeOK
<1>3. ASSUME NEW p \in Process, Complete(p)
      PROVE  [Delivery!Next]_(Delivery!vars)
  <2>. DEFINE e == call[p].claim.event
  <2>1. e \in Event /\ call[p].at \in Outcome /\ ledger' = ledger
    BY <1>3 DEF DeliveryInv, TypeOK, Claim, Complete
  <2>2. CASE outbox' = outbox
    BY <2>1, <2>2, <1>1
  <2>3. CASE outbox' # outbox
    <3>1. /\ outbox[e].status = "PENDING"
          /\ outbox' = [outbox EXCEPT ![e] = CompleteRow(call[p].at, outbox[e])]
      BY <1>3, <2>3 DEF Complete, OwnsLock
    <3>2. /\ outbox'[e].status \in Status
          /\ verdict' = [verdict EXCEPT ![e] = outbox'[e].status]
      BY <3>1, <2>1, CompletedRow DEF DeliveryInv, TypeOK
    <3>3. CASE outbox'[e].status = "PENDING"
      BY <3>1, <3>2, <3>3, <2>1 DEF Delivery!vars
    <3>4. CASE outbox'[e].status = "PUBLISHED"
      <4>1. \E row \in ledger : row.event = e
        BY <3>4, <2>1 DEF DeliveryInv, Settled, Kept
      <4>. QED
        BY <3>1, <3>2, <3>4, <4>1, <2>1 DEF Delivery!Next, Delivery!Publish
    <3>5. CASE outbox'[e].status = "FAILED"
      BY <3>1, <3>2, <3>5, <2>1 DEF Delivery!Next, Delivery!GiveUp
    <3>. QED  BY <3>2, <3>3, <3>4, <3>5 DEF Status
  <2>. QED  BY <2>2, <2>3
<1>4. ASSUME NEW p \in Process, Dispatch(p), ~Complete(p)
      PROVE  UNCHANGED Delivery!vars
  BY <1>4, <1>1, <1>2 DEF Dispatch, Begin, Receive, TimeOut, Learn
<1>5. ASSUME Consumer
      PROVE  [Delivery!Next]_(Delivery!vars)
  <2>1. PICK request \in wire :
          /\ UNCHANGED outbox
          /\ ledger' = ledger \/ ledger' = Retained(request.claim)
    BY <1>5 DEF Consumer, Accept, Refuse, Unavailable
  <2>2. CASE ledger' = ledger
    BY <2>1, <2>2, <1>1
  <2>3. CASE ledger' # ledger
    <3>. DEFINE row == request.claim
    <3>1. /\ ledger' = ledger \cup {row}
          /\ \A old \in ledger : old.event # row.event
      BY <2>1, <2>3 DEF Retained
    <3>2. row.event \in Event \ (Refused \cup Malformed)
      BY <3>1 DEF DeliveryInv, TypeOK, Settled, Claim
    <3>3. Delivery!Retain(row)
      BY <3>1, <3>2, <2>1 DEF Delivery!Retain
    <3>. QED  BY <3>1, <3>3 DEF Delivery!Next
  <2>. QED  BY <2>2, <2>3
<1>6. ASSUME NEW e \in Event, Passage(e) \/ OutlivedLease(e)
      PROVE  UNCHANGED Delivery!vars
  BY <1>6, <1>1 DEF Passage, OutlivedLease, AbandonedLease, LeaseRunsOut,
     BackoffElapses, DeliveryInv, TypeOK
<1>7. ASSUME NEW p \in Process, Crash(p)
      PROVE  UNCHANGED Delivery!vars
  BY <1>7, <1>1 DEF Crash
<1>. QED
  BY <1>1, <1>3, <1>4, <1>5, <1>6, <1>7 DEF Next, vars

(* The dispatcher, its lease and the consumer implement the at-least-once  *)
(* promise: one retained row per event, published only when retained, and  *)
(* verdicts that are never taken back, with processes sharing an actor or  *)
(* not.                                                                    *)
THEOREM ImplementsDelivery == Spec => Delivery!Spec
<1>1. Init => Delivery!Init
  BY DEF Init, Delivery!Init
<1>. QED
  BY <1>1, DeliveryStep, DeliveryInvHolds, PTL DEF Spec, Delivery!Spec

-----------------------------------------------------------------------------
(* Processes that share no actor                                           *)

(* A claim is the last one of its event as long as its actor holds the     *)
(* row.                                                                    *)
ClaimsCurrent ==
  \A p \in Process : \A c \in Holds(p) :
    outbox[c.event].lockedBy = ActorOf[p] => outbox[c.event].attempt = c.attempt

OwnActors == \A p, q \in Process : ActorOf[p] = ActorOf[q] => p = q

LEMMA ClaimsStayCurrent ==
  ASSUME OwnActors, TypeOK, ClaimsCurrent, Next
  PROVE  ClaimsCurrent'
<1>1. ASSUME NEW p \in Process, NEW rows \in SUBSET Event, ClaimRows(p, rows)
      PROVE  ClaimsCurrent'
  <2>. SUFFICES ASSUME NEW q \in Process, NEW c \in Holds(q)',
                       outbox'[c.event].lockedBy = ActorOf[q]
                PROVE  outbox'[c.event].attempt = c.attempt
    BY DEF ClaimsCurrent
  <2>1. c \in Claim /\ c.event \in Event
    BY <1>1, DispatchTypes DEF Dispatch, TypeOK, Holds, Claim
  <2>2. CASE q = p
    <3>1. PICK e \in rows : c = [event |-> e, attempt |-> outbox[e].attempt + 1]
      BY <1>1, <2>2 DEF ClaimRows, Holds, TypeOK
    <3>. QED  BY <1>1, <3>1, ClaimedRow DEF ClaimRows, TypeOK
  <2>3. CASE q # p
    <3>1. c \in Holds(q)
      BY <1>1, <2>3 DEF ClaimRows, Holds, TypeOK
    <3>2. c.event \notin rows
      <4>. SUFFICES ASSUME c.event \in rows
                    PROVE  FALSE
        OBVIOUS
      <4>1. outbox'[c.event] = ClaimRow(p, outbox[c.event])
        BY <1>1, <2>1 DEF ClaimRows
      <4>2. outbox'[c.event].lockedBy = ActorOf[p]
        BY <4>1, <2>1, ClaimedRow DEF TypeOK
      <4>. QED  BY <4>2, <2>3 DEF OwnActors
    <3>3. outbox'[c.event] = outbox[c.event]
      BY <1>1, <2>1, <3>2 DEF ClaimRows
    <3>. QED  BY <3>1, <3>3 DEF ClaimsCurrent
  <2>. QED  BY <2>2, <2>3
<1>2. ASSUME \A q \in Process : Holds(q)' \subseteq Holds(q),
             \A e \in Event : /\ outbox'[e].attempt = outbox[e].attempt
                              /\ \/ outbox'[e].lockedBy = outbox[e].lockedBy
                                 \/ outbox'[e].lockedBy = None
      PROVE  ClaimsCurrent'
  BY <1>2, DispatchAssumption DEF ClaimsCurrent, TypeOK, Holds, Claim
<1>3. ASSUME NEW p \in Process, Dispatch(p) \/ Crash(p),
             ~ \E rows \in SUBSET Event : ClaimRows(p, rows)
      PROVE  ClaimsCurrent'
  <2>1. \A q \in Process : Holds(q)' \subseteq Holds(q)
    BY <1>3 DEF Dispatch, Begin, Receive, TimeOut, Learn, Waiting, Complete, Crash,
                Holds, TypeOK
  <2>2. \A e \in Event : /\ outbox'[e].attempt = outbox[e].attempt
                         /\ \/ outbox'[e].lockedBy = outbox[e].lockedBy
                            \/ outbox'[e].lockedBy = None
    BY <1>3, CompletedRow DEF Dispatch, Begin, Receive, TimeOut, Learn, Complete,
       Crash, TypeOK, Claim
  <2>. QED  BY <1>2, <2>1, <2>2
<1>4. ASSUME Consumer
      PROVE  ClaimsCurrent'
  BY <1>2, <1>4 DEF Consumer, Accept, Refuse, Unavailable, Holds
<1>5. ASSUME NEW e \in Event, Passage(e) \/ OutlivedLease(e)
      PROVE  ClaimsCurrent'
  <2>1. /\ UNCHANGED <<batch, call>>
        /\ \A f \in Event : /\ outbox'[f].attempt = outbox[f].attempt
                            /\ outbox'[f].lockedBy = outbox[f].lockedBy
    BY <1>5 DEF Passage, OutlivedLease, AbandonedLease, LeaseRunsOut, BackoffElapses,
       TypeOK
  <2>. QED  BY <1>2, <2>1 DEF Holds
<1>. QED  BY <1>1, <1>3, <1>4, <1>5 DEF Next, Dispatch

LEMMA ReleaseSettles ==
  ASSUME TypeOK, ClaimsCurrent, Next,
         NEW e \in Event, outbox[e].lockedBy # None, outbox'[e].lockedBy = None
  PROVE  \E p \in Process : /\ call[p] # None
                            /\ call[p].claim = LastClaim(e)
                            /\ call'[p] = None
<1>1. ~ \E p \in Process, rows \in SUBSET Event : ClaimRows(p, rows)
  <2>. SUFFICES ASSUME NEW p \in Process, NEW rows \in SUBSET Event,
                       ClaimRows(p, rows)
                PROVE  FALSE
    OBVIOUS
  <2>1. outbox'[e] = IF e \in rows THEN ClaimRow(p, outbox[e]) ELSE outbox[e]
    BY DEF ClaimRows
  <2>2. ClaimRow(p, outbox[e]).lockedBy = ActorOf[p] /\ ActorOf[p] # None
    BY ClaimedRow, DispatchAssumption DEF TypeOK
  <2>. QED  BY <2>1, <2>2
<1>2. PICK p \in Process : Complete(p)
  BY <1>1 DEF Next, Dispatch, Begin, Receive, TimeOut, Learn, Crash, Consumer, Accept,
     Refuse, Unavailable, Passage, OutlivedLease, AbandonedLease, LeaseRunsOut,
     BackoffElapses, TypeOK
<1>3. /\ call[p] # None /\ call'[p] = None
      /\ call[p].claim \in Claim
      /\ call[p].claim.event = e
      /\ outbox[e].lockedBy = ActorOf[p]
  BY <1>2 DEF Complete, OwnsLock, TypeOK, Claim
<1>4. call[p].claim.attempt = outbox[e].attempt
  BY <1>3 DEF ClaimsCurrent, Holds
<1>5. call[p].claim = LastClaim(e)
  BY <1>3, <1>4 DEF LastClaim, Claim
<1>. QED  BY <1>3, <1>5

(* As long as no two processes share an actor, which is what the lock      *)
(* names, every completion settles the claim it was given for: a process   *)
(* that comes too late never releases another one's row.                   *)
THEOREM OwnActorsSettle ==
  ASSUME OwnActors
  PROVE  Spec => SettlesItsClaim
<1>1. Init => ClaimsCurrent
  BY DEF Init, ClaimsCurrent, Holds
<1>2. TypeOK /\ ClaimsCurrent /\ [Next]_vars => ClaimsCurrent'
  <2>1. UNCHANGED vars /\ ClaimsCurrent => ClaimsCurrent'
    BY DEF vars, ClaimsCurrent, Holds
  <2>. QED  BY <2>1, ClaimsStayCurrent
<1>3. TypeOK /\ ClaimsCurrent /\ [Next]_vars =>
        [\A e \in Event :
           outbox[e].lockedBy # None /\ outbox'[e].lockedBy = None =>
             \E p \in Process : /\ call[p] # None
                                /\ call[p].claim = LastClaim(e)
                                /\ call'[p] = None]_vars
  BY ReleaseSettles
<1>. QED  BY <1>1, <1>2, <1>3, DispatchTyped, PTL DEF Spec, SettlesItsClaim

-----------------------------------------------------------------------------
(* The lease                                                               *)

(* What a process holds is no later than its row; no two hold the same;    *)
(* what is being published has left the batch.                             *)
HeldApart ==
  /\ \A p \in Process : \A c \in Holds(p) : c.attempt <= outbox[c.event].attempt
  /\ \A p, q \in Process : p # q => Holds(p) \cap Holds(q) = {}
  /\ \A p \in Process : call[p] # None => call[p].claim \notin batch[p]

(* As long as nothing went wrong, a claim is the last one of its row, and  *)
(* its lease is running.                                                   *)
LeaseRunning(c) ==
  /\ outbox[c.event].attempt = c.attempt
  /\ outbox[c.event].lockedBy # None
  /\ ~outbox[c.event].expired

LeaseHeld == mishaps = 0 => \A p \in Process : \A c \in Holds(p) : LeaseRunning(c)

LeaseInv == TypeOK /\ HeldApart /\ LeaseHeld

LEMMA ClaimsHeld ==
  ASSUME TypeOK
  PROVE  \A p \in Process : \A c \in Holds(p) : c \in Claim /\ c.event \in Event /\ c.attempt \in Nat
  BY DEF TypeOK, Holds, Claim

LEMMA SameAttempt ==
  ASSUME NEW c \in Claim, NEW d \in Claim, c.event = d.event, c.attempt = d.attempt
  PROVE  c = d
  BY DEF Claim

LEMMA ClaimRowsLease ==
  ASSUME LeaseInv, NEW p \in Process, NEW rows \in SUBSET Event, ClaimRows(p, rows)
  PROVE  HeldApart' /\ LeaseHeld'
<1>. DEFINE new == {[event |-> e, attempt |-> outbox[e].attempt + 1] : e \in rows}
<1>1. \A q \in Process : Holds(q)' = IF q = p THEN new ELSE Holds(q)
  BY DEF ClaimRows, Holds, LeaseInv, TypeOK
<1>2. \A c \in new : /\ c.event \in rows /\ c.event \in Event
                     /\ c.attempt = outbox[c.event].attempt + 1
  OBVIOUS
<1>3. \A e \in Event :
        /\ outbox[e].attempt \in Nat
        /\ e \in rows => /\ outbox'[e].attempt = outbox[e].attempt + 1
                         /\ outbox'[e].lockedBy # None /\ ~outbox'[e].expired
                         /\ outbox[e].lockedBy = None \/ outbox[e].expired
        /\ e \notin rows => outbox'[e] = outbox[e]
  BY DispatchAssumption DEF ClaimRows, ClaimRow, Claimable, LeaseFree, LeaseInv, TypeOK
<1>4. \A q \in Process : \A c \in Holds(q) :
        c.event \in Event /\ c.attempt \in Nat /\ c.attempt <= outbox[c.event].attempt
  BY ClaimsHeld DEF LeaseInv, HeldApart
<1>5. ASSUME NEW q \in Process, NEW c \in Holds(q)'
      PROVE  c.attempt <= outbox'[c.event].attempt
  <2>1. CASE q = p
    BY <1>1, <1>2, <1>3, <2>1
  <2>2. CASE q # p
    BY <1>1, <1>3, <1>4, <2>2
  <2>. QED  BY <2>1, <2>2
<1>6. ASSUME NEW q \in Process, NEW o \in Process, q # o, NEW c \in Holds(q)', c \in Holds(o)'
      PROVE  FALSE
  <2>1. CASE q = p
    BY <1>1, <1>2, <1>3, <1>4, <1>6, <2>1
  <2>2. CASE o = p
    BY <1>1, <1>2, <1>3, <1>4, <1>6, <2>2
  <2>3. CASE q # p /\ o # p
    BY <1>1, <1>6, <2>3 DEF LeaseInv, HeldApart
  <2>. QED  BY <2>1, <2>2, <2>3
<1>7. \A q \in Process : call'[q] # None => call'[q].claim \notin batch'[q]
  BY DEF ClaimRows, LeaseInv, HeldApart, TypeOK
<1>8. ASSUME mishaps = 0, NEW q \in Process, NEW c \in Holds(q)'
      PROVE  LeaseRunning(c)'
  <2>1. CASE q = p
    BY <1>1, <1>2, <1>3, <2>1 DEF LeaseRunning
  <2>2. CASE q # p
    <3>1. c \in Holds(q) /\ LeaseRunning(c)
      BY <1>1, <1>8, <2>2 DEF LeaseInv, LeaseHeld
    <3>2. c.event \in Event /\ c.event \notin rows
      BY <1>3, <1>4, <3>1 DEF LeaseRunning
    <3>. QED  BY <1>3, <3>1, <3>2 DEF LeaseRunning
  <2>. QED  BY <2>1, <2>2
<1>9. mishaps' = mishaps
  BY DEF ClaimRows
<1>. QED  BY <1>5, <1>6, <1>7, <1>8, <1>9 DEF HeldApart, LeaseHeld

(* Every other step takes claims away, if it touches them at all.          *)
LEMMA FewerClaims ==
  ASSUME LeaseInv,
         \A q \in Process : Holds(q)' \subseteq Holds(q),
         \A e \in Event : outbox'[e].attempt = outbox[e].attempt,
         \A q \in Process : call'[q] # None => call'[q].claim \notin batch'[q]
  PROVE  HeldApart'
  BY ClaimsHeld DEF LeaseInv, HeldApart

LEMMA CompleteLease ==
  ASSUME LeaseInv, NEW p \in Process, Complete(p)
  PROVE  HeldApart' /\ LeaseHeld'
<1>. DEFINE done == call[p].claim
<1>1. /\ \A q \in Process : Holds(q)' \subseteq Holds(q)
      /\ done \in Holds(p) /\ done \notin batch[p] /\ Holds(p)' \subseteq batch[p]
  BY DEF Complete, Holds, LeaseInv, HeldApart, TypeOK
<1>2. /\ \A e \in Event : outbox'[e].attempt = outbox[e].attempt
      /\ \A e \in Event : e # done.event => outbox'[e] = outbox[e]
      /\ mishaps' = mishaps
  BY CompletedRow DEF Complete, LeaseInv, TypeOK
<1>3. \A q \in Process : call'[q] # None => call'[q].claim \notin batch'[q]
  BY DEF Complete, LeaseInv, HeldApart, TypeOK
<1>4. ASSUME mishaps = 0, NEW q \in Process, NEW c \in Holds(q)'
      PROVE  LeaseRunning(c)'
  <2>1. c \in Holds(q) /\ LeaseRunning(c) /\ LeaseRunning(done)
    BY <1>1, <1>4 DEF LeaseInv, LeaseHeld
  <2>2. c \in Claim /\ done \in Claim /\ c.event \in Event
    BY <1>1, <2>1, ClaimsHeld DEF LeaseInv
  <2>3. c # done
    BY <1>1, <1>4 DEF LeaseInv, HeldApart
  <2>4. c.event # done.event
    BY <2>1, <2>2, <2>3, SameAttempt DEF LeaseRunning
  <2>. QED  BY <1>2, <2>1, <2>2, <2>4 DEF LeaseRunning
<1>. QED  BY <1>1, <1>2, <1>3, <1>4, FewerClaims DEF LeaseHeld

LEMMA PassageLease ==
  ASSUME LeaseInv, NEW e \in Event, Passage(e) \/ OutlivedLease(e)
  PROVE  HeldApart' /\ LeaseHeld'
<1>1. /\ \A q \in Process : Holds(q)' = Holds(q)
      /\ \A q \in Process : call'[q] # None => call'[q].claim \notin batch'[q]
      /\ \A f \in Event : /\ outbox'[f].attempt = outbox[f].attempt
                          /\ outbox'[f].lockedBy = outbox[f].lockedBy
                          /\ f # e => outbox'[f] = outbox[f]
  BY DEF Passage, OutlivedLease, AbandonedLease, LeaseRunsOut, BackoffElapses, Holds,
         LeaseInv, HeldApart, TypeOK
<1>2. ASSUME mishaps' = 0, NEW q \in Process, NEW c \in Holds(q)'
      PROVE  LeaseRunning(c)'
  <2>1. ~OutlivedLease(e) /\ mishaps = 0
    BY <1>2 DEF OutlivedLease, LeaseInv, TypeOK, Passage, AbandonedLease, BackoffElapses
  <2>2. c \in Claim /\ c \in Holds(q) /\ c.event \in Event /\ LeaseRunning(c)
    BY <1>1, <1>2, <2>1, ClaimsHeld DEF LeaseInv, LeaseHeld
  <2>3. CASE c.event # e
    BY <1>1, <2>2, <2>3 DEF LeaseRunning
  <2>4. CASE c.event = e
    <3>1. c = LastClaim(e)
      BY <2>2, <2>4 DEF LastClaim, LeaseRunning, Claim
    <3>2. BackoffElapses(e)
      BY <2>1, <2>2, <3>1 DEF Passage, AbandonedLease, UnderWay
    <3>3. outbox'[e].expired = outbox[e].expired
      BY <3>2 DEF BackoffElapses, LeaseInv, TypeOK
    <3>. QED  BY <1>1, <2>2, <2>4, <3>3 DEF LeaseRunning
  <2>. QED  BY <2>3, <2>4
<1>. QED  BY <1>1, <1>2, FewerClaims DEF LeaseHeld

LEMMA LeaseInvKept == LeaseInv /\ [Next]_vars => LeaseInv'
<1>. SUFFICES ASSUME LeaseInv, [Next]_vars
              PROVE  HeldApart' /\ LeaseHeld'
  BY TypesKept DEF LeaseInv
<1>1. ASSUME NEW p \in Process,
             \/ \E c \in batch[p] : Begin(p, c)
             \/ Receive(p) \/ TimeOut(p)
      PROVE  HeldApart' /\ LeaseHeld'
  <2>1. /\ \A q \in Process : Holds(q)' \subseteq Holds(q)
        /\ \A q \in Process : call'[q] # None => call'[q].claim \notin batch'[q]
        /\ outbox' = outbox /\ mishaps' = mishaps
    BY <1>1 DEF Begin, Receive, TimeOut, Learn, Waiting, Holds, LeaseInv, HeldApart, TypeOK
  <2>. QED  BY <2>1, FewerClaims DEF LeaseInv, LeaseHeld, LeaseRunning
<1>2. ASSUME NEW p \in Process, Crash(p)
      PROVE  HeldApart' /\ LeaseHeld'
  <2>1. /\ \A q \in Process : Holds(q)' \subseteq Holds(q)
        /\ \A q \in Process : call'[q] # None => call'[q].claim \notin batch'[q]
        /\ outbox' = outbox /\ mishaps' # 0
    BY <1>2 DEF Crash, Holds, LeaseInv, HeldApart, TypeOK
  <2>. QED  BY <2>1, FewerClaims DEF LeaseHeld
<1>3. CASE Consumer \/ UNCHANGED vars
  <2>1. UNCHANGED <<outbox, batch, call, mishaps>>
    BY <1>3 DEF Consumer, Accept, Refuse, Unavailable, vars
  <2>. QED  BY <2>1 DEF LeaseInv, HeldApart, LeaseHeld, LeaseRunning, Holds
<1>. QED
  BY <1>1, <1>2, <1>3, ClaimRowsLease, CompleteLease, PassageLease DEF Next, Dispatch

(* Whatever the batch size and the attempt limit: until something goes     *)
(* wrong one process works on an event, and never do two work on the same  *)
(* attempt.                                                                *)
THEOREM LeasesExclude == Spec => []LeaseExcludes
<1>1. Init => LeaseInv
  <2>1. Init => TypeOK
    BY DispatchAssumption DEF Init, TypeOK, Status, Waiting
  <2>. QED  BY <2>1 DEF Init, LeaseInv, HeldApart, LeaseHeld, Holds
<1>2. LeaseInv => LeaseExcludes
  <2>. SUFFICES ASSUME LeaseInv, mishaps = 0, NEW e \in Event
                PROVE  Cardinality(Holders(e)) <= 1
    BY DEF LeaseExcludes, LeaseInv, HeldApart
  <2>1. ASSUME NEW p \in Holders(e), NEW q \in Holders(e)
        PROVE  p = q
    <3>1. PICK c \in Holds(p), d \in Holds(q) : c.event = e /\ d.event = e
      BY DEF Holders
    <3>2. c \in Claim /\ d \in Claim /\ LeaseRunning(c) /\ LeaseRunning(d)
      BY ClaimsHeld DEF LeaseInv, LeaseHeld, Holders
    <3>3. c = d
      BY <3>1, <3>2, SameAttempt DEF LeaseRunning
    <3>. QED  BY <3>3 DEF LeaseInv, HeldApart, Holders
  <2>2. CASE Holders(e) = {}
    BY <2>2, FS_EmptySet
  <2>3. ASSUME NEW p \in Holders(e)
        PROVE  Cardinality(Holders(e)) <= 1
    <3>1. Holders(e) = {p}
      BY <2>1
    <3>2. Cardinality({p}) = 1
      BY FS_Singleton
    <3>. QED  BY <3>1, <3>2
  <2>. QED  BY <2>2, <2>3
<1>. QED  BY <1>1, <1>2, LeaseInvKept, PTL DEF Spec
=============================================================================
