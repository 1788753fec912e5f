------------------------- MODULE JournalRecordProofs -------------------------
(***************************************************************************)
(* Proofs about the records JournalWorkflow keeps beside the journals: the *)
(* outbox events, the staging items, the ledger and the audit trail of the *)
(* periods.                                                                *)
(***************************************************************************)
EXTENDS JournalWorkflowProofs

-----------------------------------------------------------------------------
(* Outbox events                                                           *)

(* OutboxComplete said of each event and each revision.                    *)
Complete(j) ==
  /\ \A e \in reported : e.journal = j => j \in Rows /\ e.revision <= journal[j].revision
  /\ j \in Rows => \A n \in 0..journal[j].revision :
                     \E e \in reported : e.journal = j /\ e.revision = n
  /\ \A e, f \in reported : e.journal = j /\ f.journal = j /\ e.revision = f.revision => e = f

LEMMA CompleteByEvent ==
  ASSUME JournalTypes
  PROVE  OutboxComplete <=> \A j \in Journal : Complete(j)
  <1>1. ASSUME NEW j \in Journal
        PROVE  Complete(j) <=>
                 LET events == {e \in reported : e.journal = j}
                 IN /\ {e.revision : e \in events} =
                         IF j \in Rows THEN 0..journal[j].revision ELSE {}
                    /\ \A e, f \in events : e.revision = f.revision => e = f
    <2> DEFINE events == {e \in reported : e.journal = j}
    <2> DEFINE revisions == {e.revision : e \in events}
    <2>1. \A e \in events : e.revision \in 0..MaxRevision
      BY DEF JournalTypes
    <2>2. j \in Rows => journal[j].revision \in 0..MaxRevision
      BY DEF JournalTypes, Row
    <2>3. CASE j \in Rows
      <3>1. revisions = 0..journal[j].revision <=>
              /\ \A e \in events : e.revision <= journal[j].revision
              /\ \A n \in 0..journal[j].revision : \E e \in events : e.revision = n
        <4>1. revisions \subseteq 0..journal[j].revision <=>
                \A e \in events : e.revision <= journal[j].revision
          BY <2>1, <2>2, <2>3
        <4>2. 0..journal[j].revision \subseteq revisions <=>
                \A n \in 0..journal[j].revision : \E e \in events : e.revision = n
          OBVIOUS
        <4> QED
          BY <4>1, <4>2
      <3> QED
        BY <2>3, <3>1 DEF Complete
    <2>4. CASE j \notin Rows
      <3>1. revisions = {} <=> events = {}
        OBVIOUS
      <3> QED
        BY <2>4, <3>1 DEF Complete
    <2> QED
      BY <2>3, <2>4
  <1> QED
    BY <1>1 DEF OutboxComplete

(* The event of a workflow command carries the row's new revision.         *)
LEMMA WorkflowReport ==
  ASSUME JournalTypes, NEW a \in Actor, NEW j \in Rows, NEW r \in 0..MaxRevision,
         WorkflowCommand(a, j, r)
  PROVE  /\ journal[j].revision = r
         /\ journal'[j].revision = r + 1
         /\ \E action \in {"EDIT", "SUBMIT", "REVIEW", "APPROVE", "REJECT", "POST"} :
              Report(j, action, r + 1)
  <1>1. journal[j] \in Row
    BY DEF JournalTypes
  <1>2. RowStep(a, j, r)
    BY WorkflowEffect
  <1>3. journal'[j].revision = r + 1
    BY <1>1, <1>2 DEF RowStep, Row
  <1>4. journal[j].revision = r
    BY DEF WorkflowCommand, Submit, Review, Approve, Reject, EditDescription, Post, Current
  <1>5. \E action \in {"EDIT", "SUBMIT", "REVIEW", "APPROVE", "REJECT", "POST"} :
          Report(j, action, r + 1)
    BY DEF WorkflowCommand, Submit, Review, Approve, Reject, EditDescription, Post, UpdateRow
  <1> QED
    BY <1>3, <1>4, <1>5

(* The events of a journal are its revisions, each once: a workflow        *)
(* command reports the revision after the one it found.                    *)
THEOREM OutboxHoldsEveryRevision == Spec => []OutboxComplete
  <1> DEFINE Inv == \A j \in Journal : Complete(j)
  <1>1. Init => Inv
    BY DEF Init, Complete, Rows
  <1>2. TypeOK /\ Inv /\ [Next]_vars => Inv'
    <2> SUFFICES ASSUME JournalTypes, Inv, [Next]_vars, NEW k \in Journal
                 PROVE  Complete(k)'
      BY DEF TypeOK
    <2>1. ASSUME NEW a \in Actor, NEW j \in Journal, DraftCommand(a, j)
          PROVE  Complete(k)'
      <3>1. /\ j \notin Rows /\ Rows' = Rows \cup {j}
            /\ \A i \in Rows : journal'[i] = journal[i]
            /\ journal'[j].revision = 0
            /\ reported' = reported \cup {[journal |-> j, action |-> "CREATE", revision |-> 0]}
        BY <2>1, DraftEffect DEF Report
      <3>2. CASE k = j
        <4>1. \A e \in reported : e.journal # k
          BY <3>1, <3>2 DEF Complete
        <4>2. /\ \A e \in reported' : e.journal = k => e.revision = 0 /\ e.action = "CREATE"
              /\ \E e \in reported' : e.journal = k /\ e.revision = 0
              /\ \A e, f \in reported' : e.journal = k /\ f.journal = k => e = f
          <5> DEFINE new == [journal |-> j, action |-> "CREATE", revision |-> 0]
          <5>1. reported' = reported \cup {new} /\ new.journal = k
            BY <3>1, <3>2
          <5>2. new.revision = 0 /\ new.action = "CREATE"
            OBVIOUS
          <5>3. \A e \in reported' : e.journal = k => e = new
            BY <4>1, <5>1
          <5> HIDE DEF new
          <5> QED
            BY <5>1, <5>2, <5>3
        <4>3. 0..journal'[k].revision = {0} /\ k \in Rows'
          BY <3>1, <3>2
        <4> QED
          BY <3>1, <3>2, <4>2, <4>3 DEF Complete
      <3>3. CASE k # j
        BY <3>1, <3>3 DEF Complete
      <3> QED
        BY <3>2, <3>3
    <2>2. ASSUME NEW a \in Actor, NEW j \in Rows, NEW r \in 0..MaxRevision,
                 WorkflowCommand(a, j, r)
          PROVE  Complete(k)'
      <3>1. PICK action : Report(j, action, r + 1)
        BY <2>2, WorkflowReport
      <3>2. /\ Rows' = Rows /\ j \in Journal
            /\ \A i \in Rows : i # j => journal'[i] = journal[i]
            /\ journal[j].revision = r /\ journal'[j].revision = r + 1
        BY <2>2, WorkflowEffect, WorkflowReport DEF JournalTypes
      <3>3. reported' = reported \cup {[journal |-> j, action |-> action, revision |-> r + 1]}
        BY <3>1 DEF Report
      <3>4. \A e \in reported : e.revision \in 0..MaxRevision
        BY DEF JournalTypes
      <3>5. CASE k = j
        <4> DEFINE new == [journal |-> j, action |-> action, revision |-> r + 1]
        <4>1. \A e \in reported : e.journal = k => e.revision <= r
          BY <3>2, <3>5 DEF Complete
        <4>2. \A e \in reported' : e.journal = k => k \in Rows' /\ e.revision <= journal'[k].revision
          BY <3>2, <3>3, <3>4, <3>5, <4>1
        <4>3. \A n \in 0..r + 1 : \E e \in reported' : e.journal = k /\ e.revision = n
          <5> SUFFICES ASSUME NEW n \in 0..r + 1
                       PROVE  \E e \in reported' : e.journal = k /\ e.revision = n
            OBVIOUS
          <5>1. CASE n = r + 1
            <6>1. new \in reported' /\ new.journal = k /\ new.revision = n
              BY <3>3, <3>5, <5>1
            <6> QED
              BY <6>1
          <5>2. CASE n \in 0..r
            BY <3>2, <3>3, <3>5, <5>2 DEF Complete
          <5> QED
            BY <5>1, <5>2
        <4>4. \A e, f \in reported' :
                e.journal = k /\ f.journal = k /\ e.revision = f.revision => e = f
          <5>1. \A e \in reported : e.journal = k => e.revision # new.revision
            BY <3>4, <4>1
          <5>2. reported' = reported \cup {new}
            BY <3>3
          <5> HIDE DEF new
          <5> QED
            BY <3>5, <5>1, <5>2 DEF Complete
        <4> QED
          BY <3>2, <3>5, <4>2, <4>3, <4>4 DEF Complete
      <3>6. CASE k # j
        BY <3>2, <3>3, <3>6 DEF Complete
      <3> QED
        BY <3>5, <3>6
    <2>3. ASSUME NEW a \in Actor, StatementCommand(a) \/ PeriodCommand(a)
          PROVE  Complete(k)'
      BY <2>3, Untouched DEF Complete, journalVars, Rows
    <2>4. CASE UNCHANGED vars
      BY <2>4 DEF Complete, vars, Rows
    <2> QED
      BY <2>1, <2>2, <2>3, <2>4 DEF Next
  <1>3. TypeOK /\ Inv => OutboxComplete
    BY CompleteByEvent DEF TypeOK
  <1> HIDE DEF Inv
  <1> QED
    BY <1>1, <1>2, <1>3, TypeCorrect, PTL DEF Spec
-----------------------------------------------------------------------------
(* Sign-off and content                                                    *)

(* One of the later events of j is after each of the earlier ones.         *)
After(j, later, earlier) ==
  \E e \in reported :
    /\ e.journal = j /\ e.action \in later
    /\ \A f \in reported : f.journal = j /\ f.action \in earlier => f.revision < e.revision

(* The same, said of their revisions as SignOffCoversContent does.         *)
Revisions(j, actions) ==
  {e.revision : e \in {d \in reported : d.journal = j /\ d.action \in actions}}
Outlasts(j, later, earlier) ==
  \E m \in Revisions(j, later) : \A n \in Revisions(j, earlier) : n < m

Content == {"CREATE", "EDIT", "SUBMIT", "REJECT"}

Covered(j) ==
  /\ journal[j].status \in {"PENDING_APPROVAL", "APPROVED", "POSTED"} =>
       After(j, {"REVIEW"}, Content)
  /\ journal[j].status \in {"APPROVED", "POSTED"} =>
       After(j, {"APPROVE"}, Content \cup {"REVIEW"})

(* The status each command leaves its row in.                              *)
LEMMA StatusAfter ==
  ASSUME JournalTypes, NEW a \in Actor, NEW j \in Rows, NEW r \in 0..MaxRevision
  PROVE  /\ Submit(a, j, r) => journal'[j].status = "PENDING_REVIEW"
         /\ Review(a, j, r) => journal'[j].status = "PENDING_APPROVAL"
         /\ Approve(a, j, r) => journal'[j].status = "APPROVED"
         /\ Reject(a, j, r) => journal'[j].status = "DRAFT"
         /\ EditDescription(a, j, r) => journal'[j].status = "DRAFT"
         /\ Post(a, j, r) => journal'[j].status = "POSTED"
  <1>1. journal[j] \in Row
    BY DEF JournalTypes
  <1>2. ASSUME NEW action, NEW row \in Row, UpdateRow(j, r, action, row)
        PROVE  journal'[j].status = row.status
    BY <1>2 DEF UpdateRow, Rows, Row
  <1>4. Submit(a, j, r) => journal'[j].status = "PENDING_REVIEW"
    <2>1. [journal[j] EXCEPT !.status = "PENDING_REVIEW"] \in Row
      BY <1>1 DEF Row, JournalStatus
    <2> QED
      BY <1>1, <1>2, <2>1 DEF Submit, Row
  <1>5. Review(a, j, r) => journal'[j].status = "PENDING_APPROVAL"
    <2>1. [journal[j] EXCEPT !.status = "PENDING_APPROVAL", !.reviewedBy = a] \in Row
      BY <1>1 DEF Row, JournalStatus
    <2> QED
      BY <1>1, <1>2, <2>1 DEF Review, Row
  <1>6. Approve(a, j, r) => journal'[j].status = "APPROVED"
    <2>1. [journal[j] EXCEPT !.status = "APPROVED", !.approvedBy = a] \in Row
      BY <1>1 DEF Row, JournalStatus
    <2> QED
      BY <1>1, <1>2, <2>1 DEF Approve, Row
  <1>7. Reject(a, j, r) => journal'[j].status = "DRAFT"
    <2>1. Returned(journal[j]) \in Row
      BY <1>1 DEF Row, JournalStatus, Returned
    <2> QED
      BY <1>1, <1>2, <2>1 DEF Reject, Row, Returned
  <1>8. EditDescription(a, j, r) => journal'[j].status = "DRAFT"
    BY <1>1, <1>2 DEF EditDescription, Editable, Row
  <1>9. Post(a, j, r) => journal'[j].status = "POSTED"
    <2>1. [journal[j] EXCEPT !.status = "POSTED", !.postedBy = a] \in Row
      BY <1>1 DEF Row, JournalStatus
    <2> QED
      BY <1>1, <1>2, <2>1 DEF Post, Row
  <1> QED
    BY <1>4, <1>5, <1>6, <1>7, <1>8, <1>9

(* What was reviewed and approved is what is posted.  A review reports the *)
(* highest revision there is, and no later command both changes the        *)
(* content and leaves the journal signed.                                  *)
THEOREM SignOffIsOfContent == Spec => []SignOffCoversContent
  <1> DEFINE Inv == \A j \in Rows : Covered(j)
  <1>1. Init => Inv
    BY DEF Init, Rows
  <1>2. TypeOK /\ OutboxComplete /\ Inv /\ [Next]_vars => Inv'
    <2> SUFFICES ASSUME JournalTypes, OutboxComplete, Inv, [Next]_vars, NEW k \in Rows'
                 PROVE  Covered(k)'
      BY DEF TypeOK
    <2>1. ASSUME NEW a \in Actor, NEW j \in Journal, DraftCommand(a, j)
          PROVE  Covered(k)'
      <3>1. /\ j \notin Rows /\ Rows' = Rows \cup {j}
            /\ \A i \in Rows : journal'[i] = journal[i]
            /\ journal'[j].status = "DRAFT"
            /\ reported' = reported \cup {[journal |-> j, action |-> "CREATE", revision |-> 0]}
        BY <2>1, DraftEffect DEF Report
      <3>2. CASE k = j
        BY <3>1, <3>2 DEF Covered
      <3>3. CASE k # j
        <4>1. \A e \in reported' : e.journal = k => e \in reported
          BY <3>1, <3>3
        <4>2. k \in Rows /\ journal'[k] = journal[k] /\ reported \subseteq reported'
          BY <3>1, <3>3
        <4> QED
          BY <4>1, <4>2 DEF Covered, After
      <3> QED
        BY <3>2, <3>3
    <2>2. ASSUME NEW a \in Actor, NEW j \in Rows, NEW r \in 0..MaxRevision,
                 WorkflowCommand(a, j, r)
          PROVE  Covered(k)'
      <3>1. /\ Rows' = Rows /\ j \in Journal
            /\ \A i \in Rows : i # j => journal'[i] = journal[i]
            /\ journal[j].revision = r /\ journal[j] \in Row
        BY <2>2, WorkflowEffect, WorkflowReport DEF JournalTypes
      <3>2. \A e \in reported : e.journal = j => e.revision <= r
        BY <3>1, CompleteByEvent DEF Complete
      <3>3. ASSUME NEW action \in JournalAction, Report(j, action, r + 1)
            PROVE  LET new == [journal |-> j, action |-> action, revision |-> r + 1]
                   IN reported' = reported \cup {new}
        BY <3>3 DEF Report
      <3>4. CASE k # j
        <4>1. PICK action \in JournalAction : Report(j, action, r + 1)
          BY <2>2, WorkflowReport DEF JournalAction
        <4>2. \A e \in reported' : e.journal = k => e \in reported
          BY <3>3, <3>4, <4>1
        <4>3. k \in Rows /\ journal'[k] = journal[k] /\ reported \subseteq reported'
          BY <3>1, <3>3, <3>4, <4>1
        <4> QED
          BY <4>2, <4>3 DEF Covered, After
      <3>5. CASE k = j
        <4>1. ASSUME NEW action \in JournalAction, Report(j, action, r + 1)
              PROVE  /\ \A later, earlier :
                          action \notin earlier /\ After(j, later, earlier) =>
                            After(j, later, earlier)'
                     /\ \A later, earlier :
                          action \in later /\ action \notin earlier =>
                            After(j, later, earlier)'
          <5> DEFINE new == [journal |-> j, action |-> action, revision |-> r + 1]
          <5>1. reported' = reported \cup {new}
            BY <3>3, <4>1
          <5>2. new.journal = j /\ new.action = action /\ new.revision = r + 1
            OBVIOUS
          <5>3. \A f \in reported : f.journal = j => f.revision < new.revision
            BY <3>2, <5>2 DEF JournalTypes
          <5> HIDE DEF new
          <5> QED
            BY <5>1, <5>2, <5>3 DEF After
        <4>2. CASE Submit(a, j, r) \/ Reject(a, j, r) \/ EditDescription(a, j, r)
          <5>1. journal'[j].status \in {"DRAFT", "PENDING_REVIEW"}
            BY <4>2, StatusAfter
          <5> QED
            BY <3>5, <5>1 DEF Covered
        <4>3. CASE Review(a, j, r)
          <5>1. journal'[j].status = "PENDING_APPROVAL"
            BY <4>3, StatusAfter
          <5>2. Report(j, "REVIEW", r + 1)
            BY <4>3 DEF Review, UpdateRow
          <5> QED
            BY <3>5, <4>1, <5>1, <5>2 DEF Covered, Content, JournalAction
        <4>4. CASE Approve(a, j, r)
          <5>1. journal[j].status = "PENDING_APPROVAL" /\ Report(j, "APPROVE", r + 1)
            BY <4>4 DEF Approve, UpdateRow
          <5>2. After(j, {"REVIEW"}, Content)
            BY <5>1 DEF Covered
          <5> QED
            BY <3>5, <4>1, <5>1, <5>2 DEF Covered, Content, JournalAction
        <4>5. CASE Post(a, j, r)
          <5>1. journal[j].status = "APPROVED" /\ Report(j, "POST", r + 1)
            BY <4>5 DEF Post, UpdateRow
          <5>2. After(j, {"REVIEW"}, Content) /\ After(j, {"APPROVE"}, Content \cup {"REVIEW"})
            BY <5>1 DEF Covered
          <5> QED
            BY <3>5, <4>1, <5>1, <5>2 DEF Covered, Content, JournalAction
        <4> QED
          BY <2>2, <4>2, <4>3, <4>4, <4>5 DEF WorkflowCommand
      <3> QED
        BY <3>4, <3>5
    <2>3. ASSUME NEW a \in Actor, StatementCommand(a) \/ PeriodCommand(a)
          PROVE  Covered(k)'
      BY <2>3, Untouched DEF Covered, After, journalVars, Rows
    <2>4. CASE UNCHANGED vars
      BY <2>4 DEF Covered, After, vars, Rows
    <2> QED
      BY <2>1, <2>2, <2>3, <2>4 DEF Next
  <1>3. Inv => SignOffCoversContent
    <2> SUFFICES ASSUME NEW j \in Rows, Covered(j)
                 PROVE
                   /\ journal[j].status \in {"PENDING_APPROVAL", "APPROVED", "POSTED"} =>
                        Outlasts(j, {"REVIEW"}, {"CREATE", "EDIT", "SUBMIT", "REJECT"})
                   /\ journal[j].status \in {"APPROVED", "POSTED"} =>
                        Outlasts(j, {"APPROVE"}, {"CREATE", "EDIT", "SUBMIT", "REJECT", "REVIEW"})
      BY DEF SignOffCoversContent, Outlasts, Revisions
    <2>1. ASSUME NEW later, NEW earlier, After(j, later, earlier)
          PROVE  Outlasts(j, later, earlier)
      <3>1. PICK e \in reported :
              /\ e.journal = j /\ e.action \in later
              /\ \A f \in reported : f.journal = j /\ f.action \in earlier => f.revision < e.revision
        BY <2>1 DEF After
      <3>2. e.revision \in Revisions(j, later)
        BY <3>1 DEF Revisions
      <3> QED
        BY <3>1, <3>2 DEF Outlasts, Revisions
    <2>2. Content \cup {"REVIEW"} = {"CREATE", "EDIT", "SUBMIT", "REJECT", "REVIEW"}
      BY DEF Content
    <2> QED
      BY <2>1, <2>2 DEF Covered, Content
  <1> HIDE DEF Inv
  <1> QED
    BY <1>1, <1>2, <1>3, TypeCorrect, OutboxHoldsEveryRevision, PTL DEF Spec
-----------------------------------------------------------------------------
(* Staging items                                                           *)

(* An automatic journal, and no other, names a staging item.               *)
Sourced(j) ==
  IF journal[j].type = "AUTO" THEN journal[j].source \in Staging
  ELSE journal[j].source = None

(* StagingInStep said of each journal and each item.                       *)
InStep(s) ==
  /\ \A j, k \in Rows : journal[j].source = s /\ journal[k].source = s => j = k
  /\ (\A j \in Rows : journal[j].source # s) => staging[s].status = "READY_FOR_DRAFT"
  /\ \A j \in Rows : journal[j].source = s =>
       /\ staging[s].status = StagingOf(journal[j].status)
       /\ staging[s].period = journal[j].period

(* What a draft takes from its staging item.                               *)
LEMMA DraftSource ==
  ASSUME NEW a \in Actor, NEW j \in Journal, DraftCommand(a, j)
  PROVE  \/ /\ journal'[j].type # "AUTO" /\ journal'[j].source = None
            /\ staging' = staging
         \/ \E s \in Staging :
              /\ journal'[j].type = "AUTO" /\ journal'[j].source = s
              /\ staging[s].status = "READY_FOR_DRAFT"
              /\ staging[s].period = journal'[j].period
              /\ StagingAt(s, "DRAFT_CREATED")
  <1>1. ASSUME NEW p, NEW type, NEW x, NEW original, NEW source,
               InsertDraft(a, j, p, type, x, original, source)
        PROVE  /\ journal'[j].type = type /\ journal'[j].source = source
               /\ journal'[j].period = p
    BY <1>1 DEF InsertDraft
  <1> QED
    BY <1>1
    DEF DraftCommand, CreateManual, CreateReclass, CreateAuto, CreateReversal, ReadyForDraft

(* A workflow command moves its journal's staging item to the status the   *)
(* journal gets, and an edit leaves both.                                  *)
LEMMA WorkflowSource ==
  ASSUME JournalTypes, NEW a \in Actor, NEW j \in Rows, NEW r \in 0..MaxRevision,
         WorkflowCommand(a, j, r)
  PROVE  \/ MoveStaging(j, StagingOf(journal'[j].status))
         \/ staging' = staging /\ journal'[j].status = journal[j].status
  <1>1. CASE Submit(a, j, r)
    BY <1>1, StatusAfter DEF Submit, StagingOf
  <1>2. CASE Review(a, j, r)
    BY <1>2, StatusAfter DEF Review, StagingOf
  <1>3. CASE Approve(a, j, r)
    BY <1>3, StatusAfter DEF Approve, StagingOf
  <1>4. CASE Reject(a, j, r)
    BY <1>4, StatusAfter DEF Reject, StagingOf
  <1>5. CASE EditDescription(a, j, r)
    BY <1>5, StatusAfter DEF EditDescription, Editable
  <1>6. CASE Post(a, j, r)
    BY <1>6, StatusAfter DEF Post, StagingOf
  <1> QED
    BY <1>1, <1>2, <1>3, <1>4, <1>5, <1>6 DEF WorkflowCommand

(* A staging item is drafted from once and follows its journal from then   *)
(* on, although no command of the workflow reads it.                       *)
THEOREM StagingFollowsJournal == Spec => []StagingInStep
  <1> DEFINE Inv == (\A j \in Rows : Sourced(j)) /\ (\A s \in Staging : InStep(s))
  <1>1. Init => Inv
    BY DEF Init, Rows, InStep
  <1>2. TypeOK /\ Inv /\ [Next]_vars => Inv'
    <2> SUFFICES ASSUME JournalTypes, Inv, [Next]_vars PROVE Inv'
      BY DEF TypeOK
    <2>0. DOMAIN staging = Staging
      BY DEF JournalTypes
    <2>1. ASSUME NEW a \in Actor, NEW j \in Journal, DraftCommand(a, j)
          PROVE  Inv'
      <3>1. /\ j \notin Rows /\ Rows' = Rows \cup {j}
            /\ \A i \in Rows : journal'[i] = journal[i]
            /\ journal'[j].status = "DRAFT"
        BY <2>1, DraftEffect
      <3>2. CASE /\ journal'[j].type # "AUTO" /\ journal'[j].source = None
                 /\ staging' = staging
        BY <3>1, <3>2, KernelAssumption DEF Sourced, InStep
      <3>3. CASE \E s \in Staging :
                   /\ journal'[j].type = "AUTO" /\ journal'[j].source = s
                   /\ staging[s].status = "READY_FOR_DRAFT"
                   /\ staging[s].period = journal'[j].period
                   /\ StagingAt(s, "DRAFT_CREATED")
        <4>1. PICK s \in Staging :
                /\ journal'[j].type = "AUTO" /\ journal'[j].source = s
                /\ staging[s].status = "READY_FOR_DRAFT"
                /\ staging[s].period = journal'[j].period
                /\ StagingAt(s, "DRAFT_CREATED")
          BY <3>3
        <4>2. /\ \A u \in Staging \ {s} : staging'[u] = staging[u]
              /\ staging'[s].status = "DRAFT_CREATED"
              /\ staging'[s].period = staging[s].period
          BY <2>0, <4>1 DEF StagingAt
        <4>3. \A i \in Rows : journal[i].source # s
          <5>1. \A i \in Rows : StagingOf(journal[i].status) # "READY_FOR_DRAFT"
            BY DEF JournalTypes, Row, JournalStatus, StagingOf
          <5> QED
            BY <4>1, <5>1 DEF InStep
        <4>4. InStep(s)'
          BY <3>1, <4>1, <4>2, <4>3 DEF InStep, StagingOf
        <4>5. \A u \in Staging \ {s} : InStep(u)'
          BY <3>1, <4>1, <4>2 DEF InStep
        <4> QED
          BY <3>1, <4>1, <4>4, <4>5 DEF Sourced
      <3> QED
        BY <2>1, <3>2, <3>3, DraftSource
    <2>2. ASSUME NEW a \in Actor, NEW j \in Rows, NEW r \in 0..MaxRevision,
                 WorkflowCommand(a, j, r)
          PROVE  Inv'
      <3>1. /\ Rows' = Rows
            /\ \A i \in Rows : i # j => journal'[i] = journal[i]
            /\ journal'[j].source = journal[j].source
            /\ journal'[j].type = journal[j].type
            /\ journal'[j].period = journal[j].period
        BY <2>2, WorkflowEffect DEF SameJournal
      <3>2. \A i \in Rows : Sourced(i)'
        BY <3>1 DEF Sourced
      <3>3. CASE staging' = staging /\ journal'[j].status = journal[j].status
        <4>1. \A s \in Staging : InStep(s)'
          BY <3>1, <3>3 DEF InStep
        <4> QED
          BY <3>1, <3>2, <4>1
      <3>4. CASE MoveStaging(j, StagingOf(journal'[j].status)) /\ journal[j].type = "AUTO"
        <4>1. /\ journal[j].source \in Staging
              /\ staging'[journal[j].source].status = StagingOf(journal'[j].status)
              /\ staging'[journal[j].source].period = staging[journal[j].source].period
              /\ \A u \in Staging \ {journal[j].source} : staging'[u] = staging[u]
          BY <2>0, <3>4 DEF MoveStaging, StagingAt, Sourced
        <4>2. \A s \in Staging \ {journal[j].source} : InStep(s)'
          BY <3>1, <4>1 DEF InStep
        <4>3. InStep(journal[j].source)'
          BY <3>1, <4>1 DEF InStep
        <4> QED
          BY <3>1, <3>2, <4>2, <4>3
      <3>5. CASE MoveStaging(j, StagingOf(journal'[j].status)) /\ journal[j].type # "AUTO"
        <4>1. staging' = staging /\ journal[j].source = None
          BY <3>5 DEF MoveStaging, Sourced
        <4>2. \A s \in Staging : InStep(s)'
          BY <3>1, <4>1, KernelAssumption DEF InStep
        <4> QED
          BY <3>1, <3>2, <4>2
      <3> QED
        BY <2>2, <3>3, <3>4, <3>5, WorkflowSource
    <2>3. ASSUME NEW a \in Actor, StatementCommand(a) \/ PeriodCommand(a)
          PROVE  Inv'
      BY <2>3, Untouched DEF Sourced, InStep, journalVars, Rows
    <2>4. CASE UNCHANGED vars
      BY <2>4 DEF Sourced, InStep, vars, Rows
    <2> QED
      BY <2>1, <2>2, <2>3, <2>4 DEF Next
  <1>3. Inv => StagingInStep
    BY DEF InStep, StagingInStep
  <1> HIDE DEF Inv
  <1> QED
    BY <1>1, <1>2, <1>3, TypeCorrect, PTL DEF Spec
-----------------------------------------------------------------------------
(* The ledger                                                              *)

(* A ledger batch is that of its posted journal.                           *)
Batch(j) == [journal |-> j, period |-> journal[j].period, amount |-> journal[j].amount]

(* A reversal negates an original that is posted, and nothing else does.   *)
Reversing(j) ==
  journal[j].type = "REVERSAL" =>
    LET o == journal[j].original
    IN /\ Posted(o) /\ journal[j].amount = -journal[o].amount
       /\ \A k \in Rows : journal[k].type = "REVERSAL" /\ journal[k].original = o => k = j

LedgerInv ==
  /\ ledger = {Batch(j) : j \in {k \in Rows : Posted(k)}}
  /\ \A j \in Rows : Reversing(j)

LEMMA DraftOriginal ==
  ASSUME NEW a \in Actor, NEW j \in Journal, DraftCommand(a, j)
  PROVE  journal'[j].type = "REVERSAL" =>
           LET o == journal'[j].original
           IN /\ Posted(o) /\ journal'[j].amount = -journal[o].amount
              /\ \A k \in Rows : journal[k].type = "REVERSAL" => journal[k].original # o
  <1>1. ASSUME NEW p, NEW type, NEW x, NEW original, NEW source,
               InsertDraft(a, j, p, type, x, original, source)
        PROVE  /\ journal'[j].type = type /\ journal'[j].original = original
               /\ journal'[j].amount = x
    BY <1>1 DEF InsertDraft
  <1> QED
    BY <1>1
    DEF DraftCommand, CreateManual, CreateReclass, CreateAuto, CreateReversal,
        Adjustable, NotReversed

(* A reversal is drafted from a posted, and so immutable, row that no      *)
(* other reversal names.                                                   *)
LEMMA LedgerOfPosted == Spec => []LedgerInv
  <1>1. Init => LedgerInv
    BY DEF Init, LedgerInv, Rows
  <1>2. TypeOK /\ LedgerInv /\ [Next]_vars => LedgerInv'
    <2> SUFFICES ASSUME JournalTypes, LedgerInv, [Next]_vars PROVE LedgerInv'
      BY DEF TypeOK
    <2>1. ASSUME NEW a \in Actor, NEW j \in Journal, DraftCommand(a, j)
          PROVE  LedgerInv'
      <3>1. /\ j \notin Rows /\ Rows' = Rows \cup {j}
            /\ \A i \in Rows : journal'[i] = journal[i]
            /\ journal'[j].status = "DRAFT" /\ ledger' = ledger
        BY <2>1, DraftEffect
      <3>2. {k \in Rows : Posted(k)}' = {k \in Rows : Posted(k)}
        BY <3>1 DEF Posted
      <3>3. \A k \in Rows : Batch(k)' = Batch(k)
        BY <3>1 DEF Batch
      <3>4. \A k \in Rows' : Reversing(k)'
        BY <2>1, <3>1, DraftOriginal DEF Reversing, Posted, LedgerInv
      <3>5. ledger' = {Batch(k)' : k \in {i \in Rows : Posted(i)}'}
        BY <3>1, <3>2, <3>3 DEF LedgerInv
      <3> QED
        BY <3>4, <3>5 DEF LedgerInv
    <2>2. ASSUME NEW a \in Actor, NEW j \in Rows, NEW r \in 0..MaxRevision,
                 WorkflowCommand(a, j, r)
          PROVE  LedgerInv'
      <3>1. /\ Rows' = Rows
            /\ \A i \in Rows : i # j => journal'[i] = journal[i]
            /\ SameJournal(journal'[j], journal[j])
            /\ ~ Posted(j)
        BY <2>2, WorkflowEffect, PostedIsFinal
      <3>2. \A k \in Rows' : Reversing(k)'
        BY <3>1 DEF Reversing, Posted, SameJournal, LedgerInv
      <3>3. \A k \in Rows : Batch(k)' = Batch(k)
        BY <3>1 DEF Batch, SameJournal
      <3>4. CASE Post(a, j, r)
        <4>1. journal'[j].status = "POSTED" /\ ledger' = ledger \cup {Batch(j)}
          BY <3>4, StatusAfter DEF Post, Batch
        <4>2. {k \in Rows : Posted(k)}' = {k \in Rows : Posted(k)} \cup {j}
          BY <3>1, <4>1 DEF Posted
        <4>3. ledger' = {Batch(k)' : k \in {i \in Rows : Posted(i)}'}
          BY <3>3, <4>1, <4>2 DEF LedgerInv
        <4> QED
          BY <3>2, <4>3 DEF LedgerInv
      <3>5. CASE ~ Post(a, j, r)
        <4>1. journal'[j].status # "POSTED" /\ ledger' = ledger
          BY <2>2, <3>5, StatusAfter
          DEF WorkflowCommand, Submit, Review, Approve, Reject, EditDescription
        <4>2. {k \in Rows : Posted(k)}' = {k \in Rows : Posted(k)}
          BY <3>1, <4>1 DEF Posted
        <4>3. ledger' = {Batch(k)' : k \in {i \in Rows : Posted(i)}'}
          BY <3>3, <4>1, <4>2 DEF LedgerInv
        <4> QED
          BY <3>2, <4>3 DEF LedgerInv
      <3> QED
        BY <3>4, <3>5
    <2>3. ASSUME NEW a \in Actor, StatementCommand(a) \/ PeriodCommand(a)
          PROVE  LedgerInv'
      BY <2>3, Untouched DEF LedgerInv, Batch, Reversing, Posted, journalVars, Rows
    <2>4. CASE UNCHANGED vars
      BY <2>4 DEF LedgerInv, Batch, Reversing, Posted, vars, Rows
    <2> QED
      BY <2>1, <2>2, <2>3, <2>4 DEF Next
  <1> QED
    BY <1>1, <1>2, TypeCorrect, PTL DEF Spec

(* The ledger holds the posted journals, each once, and a reversal of an   *)
(* original nets it to zero.                                               *)
THEOREM LedgerNets == Spec => []LedgerNetsReversals
  <1>1. TypeOK /\ LedgerInv => LedgerNetsReversals
    <2> SUFFICES ASSUME JournalTypes, LedgerInv PROVE LedgerNetsReversals
      BY DEF TypeOK
    <2>1. \A e \in ledger : e = Batch(e.journal) /\ e.journal \in Rows /\ Posted(e.journal)
      BY DEF LedgerInv, Batch
    <2>2. \A j \in Rows : Posted(j) => Batch(j) \in ledger /\ Batch(j).journal = j
      BY DEF LedgerInv, Batch
    <2>3. {e.journal : e \in ledger} = {j \in Rows : Posted(j)}
      BY <2>1, <2>2
    <2>4. \A e, f \in ledger : e.journal = f.journal => e = f
      BY <2>1
    <2>5. ASSUME NEW e \in ledger, NEW f \in ledger,
                 journal[f.journal].type = "REVERSAL",
                 journal[f.journal].original = e.journal
          PROVE  e.amount + f.amount = 0
      <3>1. journal[f.journal].amount = -journal[e.journal].amount
        BY <2>1, <2>5 DEF LedgerInv, Reversing
      <3>2. e.amount = journal[e.journal].amount /\ f.amount = journal[f.journal].amount
        BY <2>1 DEF Batch
      <3>3. journal[e.journal].amount \in Int
        BY <2>1 DEF JournalTypes, Row
      <3> QED
        BY <3>1, <3>2, <3>3
    <2>6. ASSUME NEW j \in Rows, NEW k \in Rows,
                 journal[j].type = "REVERSAL", journal[k].type = "REVERSAL",
                 journal[j].original = journal[k].original
          PROVE  j = k
      BY <2>6 DEF LedgerInv, Reversing
    <2> QED
      BY <2>3, <2>4, <2>5, <2>6 DEF LedgerNetsReversals
  <1> QED
    BY <1>1, LedgerOfPosted, TypeCorrect, PTL
-----------------------------------------------------------------------------
(* Periods                                                                 *)

(* No command but a close or a reopening changes what a period shows.      *)
PostedIn(p) == {j \in Rows : Posted(j) /\ journal[j].period = p}

(* The close that stands for a CLOSED period.                              *)
Certified(p) ==
  \E c \in closes :
    /\ c.period = p
    /\ c.version = period[p].version
    /\ c.actor = period[p].closedBy
    /\ {j \in c.statement : journal[j].period = p} = PostedIn(p)

CertifiedInv ==
  /\ \A c \in closes : c.statement \subseteq Rows
  /\ \A p \in Period : period[p].status = "CLOSED" => Certified(p)

(* Nothing posts into a closed period, and the close compared the approved *)
(* statement with the ledger.                                              *)
LEMMA CertificatesStand == Spec => []CertifiedInv
  <1>1. Init => CertifiedInv
    BY DEF Init, CertifiedInv
  <1>2. TypeOK /\ CertifiedInv /\ [Next]_vars => CertifiedInv'
    <2> SUFFICES ASSUME TypeOK, CertifiedInv, [Next]_vars PROVE CertifiedInv'
      OBVIOUS
    <2>1. ASSUME NEW a \in Actor, NEW j \in Journal, DraftCommand(a, j)
          PROVE  CertifiedInv'
      <3>1. /\ j \notin Rows /\ Rows' = Rows \cup {j}
            /\ \A i \in Rows : journal'[i] = journal[i]
            /\ journal'[j].status = "DRAFT"
            /\ closes' = closes /\ period' = period
        BY <2>1, DraftEffect, Untouched DEF periodVars
      <3>2. \A p \in Period : PostedIn(p)' = PostedIn(p)
        BY <3>1 DEF PostedIn, Posted
      <3>3. \A c \in closes, p \in Period :
              {i \in c.statement : journal[i].period = p}' = {i \in c.statement : journal[i].period = p}
        BY <3>1 DEF CertifiedInv
      <3>4. \A p \in Period : Certified(p) => Certified(p)'
        BY <3>1, <3>2, <3>3 DEF Certified
      <3> QED
        BY <3>1, <3>4 DEF CertifiedInv
    <2>2. ASSUME NEW a \in Actor, NEW j \in Rows, NEW r \in 0..MaxRevision,
                 WorkflowCommand(a, j, r)
          PROVE  CertifiedInv'
      <3>1. /\ Rows' = Rows
            /\ \A i \in Rows : i # j => journal'[i] = journal[i]
            /\ journal'[j].period = journal[j].period
            /\ closes' = closes /\ period' = period
            /\ ~ Posted(j)
        BY <2>2, WorkflowEffect, Untouched, PostedIsFinal
        DEF SameJournal, periodVars, TypeOK
      <3>2. Posted(j)' => period[journal[j].period].status = "OPEN"
        <4>1. Posted(j)' => Post(a, j, r)
          BY <2>2, <3>1, StatusAfter DEF WorkflowCommand, Posted, TypeOK
        <4> QED
          BY <4>1 DEF Post, InOpenPeriod
      <3>3. \A p \in Period : period[p].status = "CLOSED" => PostedIn(p)' = PostedIn(p)
        BY <3>1, <3>2 DEF PostedIn, Posted
      <3>4. \A c \in closes, p \in Period :
              {i \in c.statement : journal[i].period = p}' = {i \in c.statement : journal[i].period = p}
        BY <3>1 DEF CertifiedInv
      <3>5. \A p \in Period : period[p].status = "CLOSED" /\ Certified(p) => Certified(p)'
        BY <3>1, <3>3, <3>4 DEF Certified
      <3> QED
        BY <3>1, <3>5 DEF CertifiedInv
    <2>3. ASSUME NEW a \in Actor, StatementCommand(a)
          PROVE  CertifiedInv'
      BY <2>3, Untouched
      DEF CertifiedInv, Certified, PostedIn, Posted, journalVars, periodVars, Rows
    <2>4. ASSUME NEW a \in Actor, PeriodCommand(a)
          PROVE  CertifiedInv'
      <3>1. journal' = journal /\ Rows' = Rows
        BY <2>4, Untouched DEF journalVars, Rows
      <3>2. PICK p \in Period, v \in 0..MaxVersion :
              \/ ClosePeriod(a, p, v)
              \/ \E c \in closes : ReopenPeriod(a, p, v, c)
        BY <2>4 DEF PeriodCommand
      <3>3. \A q \in Period : PostedIn(q)' = PostedIn(q)
        BY <3>1 DEF PostedIn, Posted
      <3>4. closes \subseteq closes' /\ \A q \in Period \ {p} : period'[q] = period[q]
        BY <3>2 DEF ClosePeriod, ReopenPeriod, TypeOK, PeriodTypes
      <3>5. \A q \in Period \ {p} : Certified(q) => Certified(q)'
        BY <3>1, <3>3, <3>4 DEF Certified
      <3>6. CASE ClosePeriod(a, p, v)
        <4> DEFINE new == [period |-> p, version |-> v + 1, actor |-> a,
                           statement |-> proposals[snapshot[p]].statement]
        <4>1. closes' = closes \cup {new} /\ new.statement = Statement(p)
          BY <3>6 DEF ClosePeriod, SnapshotIsCurrent
        <4>2. Statement(p) \subseteq Rows
          BY DEF Statement
        <4>3. {j \in Statement(p) : journal[j].period = p} = PostedIn(p)
          BY DEF Statement, PostedIn, Period
        <4>4. /\ period'[p].version = v + 1 /\ period'[p].closedBy = a
              /\ new.period = p /\ new.version = v + 1 /\ new.actor = a
          BY <3>6 DEF ClosePeriod, TypeOK, PeriodTypes
        <4> HIDE DEF new
        <4>5. Certified(p)'
          BY <3>1, <3>3, <4>1, <4>3, <4>4 DEF Certified
        <4>6. \A c \in closes' : c.statement \subseteq Rows'
          BY <3>1, <4>1, <4>2 DEF CertifiedInv
        <4> QED
          BY <3>4, <3>5, <4>5, <4>6 DEF CertifiedInv
      <3>7. CASE \E c \in closes : ReopenPeriod(a, p, v, c)
        <4>1. closes' = closes /\ period'[p].status = "OPEN"
          BY <3>7 DEF ReopenPeriod, TypeOK, PeriodTypes
        <4> QED
          BY <3>1, <3>4, <3>5, <4>1 DEF CertifiedInv
      <3> QED
        BY <3>2, <3>6, <3>7
    <2>5. CASE UNCHANGED vars
      BY <2>5 DEF CertifiedInv, Certified, PostedIn, Posted, vars, Rows
    <2> QED
      BY <2>1, <2>2, <2>3, <2>4, <2>5 DEF Next
  <1> QED
    BY <1>1, <1>2, TypeCorrect, PTL DEF Spec

(* While a period is closed, the statement its close certified shows what  *)
(* is posted in it.                                                        *)
THEOREM CloseCertifies == Spec => []CloseCertifiesPeriod
  <1>1. CertifiedInv => CloseCertifiesPeriod
    BY DEF CertifiedInv, Certified, PostedIn, CloseCertifiesPeriod
  <1> QED
    BY <1>1, CertificatesStand, PTL

LEMMA Parity ==
  ASSUME NEW n \in Nat
  PROVE  /\ n % 2 \in {0, 1}
         /\ n % 2 = 0 => (n + 1) % 2 = 1
         /\ n % 2 = 1 => (n + 1) % 2 = 0
  OBVIOUS

(* The audit trail of one period.                                          *)
Alternates(p) ==
  /\ \A c \in closes : c.period = p => c.version \in 1..period[p].version /\ c.version % 2 = 1
  /\ \A e \in reopens : e.period = p => e.version \in 1..period[p].version /\ e.version % 2 = 0
  /\ \A v \in 1..period[p].version :
       /\ v % 2 = 1 => \E c \in closes : c.period = p /\ c.version = v
       /\ v % 2 = 0 => \E e \in reopens : e.period = p /\ e.version = v
  /\ period[p].status = "CLOSED" <=> period[p].version % 2 = 1
  /\ \A c, d \in closes : c.period = p /\ d.period = p /\ c.version = d.version => c = d
  /\ \A e \in reopens : e.period = p =>
       /\ e.close \in closes /\ e.close.period = p
       /\ e.version = e.close.version + 1
       /\ e.actor # e.close.actor

HistoryInv == \A p \in Period : Alternates(p)

(* The version a close has is the row's, so no other close has it.         *)
LEMMA HistoryKept == Spec => []HistoryInv
  <1>1. Init => HistoryInv
    BY DEF Init, HistoryInv, Alternates
  <1>2. TypeOK /\ HistoryInv /\ [Next]_vars => HistoryInv'
    <2> SUFFICES ASSUME TypeOK, \A p \in Period : Alternates(p), [Next]_vars, NEW q \in Period
                 PROVE  Alternates(q)'
      BY DEF HistoryInv
    <2>1. ASSUME UNCHANGED periodVars
          PROVE  Alternates(q)'
      BY <2>1 DEF Alternates, periodVars
    <2>2. ASSUME NEW a \in Actor, NEW p \in Period, NEW v \in 0..MaxVersion,
                 ClosePeriod(a, p, v)
          PROVE  Alternates(q)'
      <3> DEFINE new == [period |-> p, version |-> v + 1, actor |-> a,
                         statement |-> proposals[snapshot[p]].statement]
      <3>1. /\ closes' = closes \cup {new} /\ reopens' = reopens
            /\ new.period = p /\ new.version = v + 1
            /\ \A u \in Period \ {p} : period'[u] = period[u]
            /\ period'[p].status = "CLOSED" /\ period'[p].version = v + 1
            /\ period[p].status = "OPEN" /\ period[p].version = v
        BY <2>2 DEF ClosePeriod, TypeOK, PeriodTypes
      <3> HIDE DEF new
      <3>2. CASE q # p
        <4>1. /\ \A c \in closes' : c.period = q => c \in closes
              /\ closes \subseteq closes' /\ reopens' = reopens
              /\ period'[q] = period[q]
          BY <3>1, <3>2
        <4> QED
          BY <4>1 DEF Alternates
      <3>3. CASE q = p
        <4>1. v \in Nat /\ v % 2 = 0 /\ (v + 1) % 2 = 1
          BY <3>1, Parity, KernelAssumption DEF Alternates
        <4>2. 1..(v + 1) = (1..v) \cup {v + 1} /\ v + 1 \notin 1..v
          BY <4>1
        <4>3. \A c \in closes : c.period = q => c.version \in 1..v
          BY <3>1, <3>3 DEF Alternates
        <4>4. /\ \A c \in closes' : c.period = q => c.version \in 1..(v + 1) /\ c.version % 2 = 1
              /\ \A e \in reopens' : e.period = q => e.version \in 1..(v + 1) /\ e.version % 2 = 0
          BY <3>1, <3>3, <4>1, <4>2 DEF Alternates
        <4>5. \A u \in 1..(v + 1) :
                /\ u % 2 = 1 => \E c \in closes' : c.period = q /\ c.version = u
                /\ u % 2 = 0 => \E e \in reopens' : e.period = q /\ e.version = u
          BY <3>1, <3>3, <4>1, <4>2 DEF Alternates
        <4>6. \A c, d \in closes' : c.period = q /\ d.period = q /\ c.version = d.version => c = d
          BY <3>1, <3>3, <4>2, <4>3 DEF Alternates
        <4>7. \A e \in reopens' : e.period = q =>
                /\ e.close \in closes' /\ e.close.period = q
                /\ e.version = e.close.version + 1
                /\ e.actor # e.close.actor
          BY <3>1, <3>3 DEF Alternates
        <4> QED
          BY <3>1, <3>3, <4>1, <4>4, <4>5, <4>6, <4>7 DEF Alternates
      <3> QED
        BY <3>2, <3>3
    <2>3. ASSUME NEW a \in Actor, NEW p \in Period, NEW v \in 0..MaxVersion, NEW c \in closes,
                 ReopenPeriod(a, p, v, c)
          PROVE  Alternates(q)'
      <3> DEFINE new == [period |-> p, version |-> v + 1, actor |-> a, close |-> c]
      <3>1. /\ reopens' = reopens \cup {new} /\ closes' = closes
            /\ new.period = p /\ new.version = v + 1 /\ new.actor = a /\ new.close = c
            /\ \A u \in Period \ {p} : period'[u] = period[u]
            /\ period'[p].status = "OPEN" /\ period'[p].version = v + 1
            /\ period[p].status = "CLOSED" /\ period[p].version = v
            /\ c.period = p /\ c.version = v /\ a # c.actor
        BY <2>3 DEF ReopenPeriod, RetainedClose, TypeOK, PeriodTypes
      <3> HIDE DEF new
      <3>2. CASE q # p
        BY <3>1, <3>2 DEF Alternates
      <3>3. CASE q = p
        <4>1. v \in Nat /\ v % 2 = 1 /\ (v + 1) % 2 = 0
          BY <3>1, Parity, KernelAssumption DEF Alternates
        <4>2. 1..(v + 1) = (1..v) \cup {v + 1} /\ v + 1 \notin 1..v
          BY <4>1
        <4>3. /\ \A d \in closes' : d.period = q => d.version \in 1..(v + 1) /\ d.version % 2 = 1
              /\ \A e \in reopens' : e.period = q => e.version \in 1..(v + 1) /\ e.version % 2 = 0
          BY <3>1, <3>3, <4>1, <4>2 DEF Alternates
        <4>4. \A u \in 1..(v + 1) :
                /\ u % 2 = 1 => \E d \in closes' : d.period = q /\ d.version = u
                /\ u % 2 = 0 => \E e \in reopens' : e.period = q /\ e.version = u
          BY <3>1, <3>3, <4>1, <4>2 DEF Alternates
        <4>5. \A e \in reopens' : e.period = q =>
                /\ e.close \in closes' /\ e.close.period = q
                /\ e.version = e.close.version + 1
                /\ e.actor # e.close.actor
          BY <3>1, <3>3 DEF Alternates
        <4> QED
          <5>1. \A d, e \in closes' : d.period = q /\ e.period = q /\ d.version = e.version => d = e
            BY <3>1 DEF Alternates
          <5>2. period'[q].version = v + 1 /\ period'[q].status = "OPEN"
            BY <3>1, <3>3
          <5> QED
            BY <4>1, <4>3, <4>4, <4>5, <5>1, <5>2 DEF Alternates
      <3> QED
        BY <3>2, <3>3
    <2>4. ASSUME NEW a \in Actor, NEW j, NEW r,
                 DraftCommand(a, j) \/ WorkflowCommand(a, j, r) \/ StatementCommand(a)
          PROVE  UNCHANGED periodVars
      BY <2>4, Untouched
    <2>5. CASE UNCHANGED vars
      BY <2>1, <2>5 DEF vars, periodVars
    <2> QED
      BY <2>1, <2>2, <2>3, <2>4, <2>5 DEF Next, PeriodCommand
  <1> QED
    BY <1>1, <1>2, TypeCorrect, PTL DEF Spec

(* Closes and reopenings of a period alternate, and each reopening names   *)
(* the close right before it, by another actor.                            *)
THEOREM HistoryAlternates == Spec => []PeriodHistoryAlternates
  <1>1. TypeOK /\ HistoryInv => PeriodHistoryAlternates
    <2> SUFFICES ASSUME TypeOK, NEW p \in Period, Alternates(p)
                 PROVE
                   LET closed == {c.version : c \in {d \in closes : d.period = p}}
                       reopened == {e.version : e \in {d \in reopens : d.period = p}}
                   IN /\ closed = {v \in 1..period[p].version : v % 2 = 1}
                      /\ reopened = {v \in 1..period[p].version : v % 2 = 0}
                      /\ period[p].status = "CLOSED" <=> period[p].version % 2 = 1
                      /\ \A e \in reopens : \A c \in closes :
                           e.period = p /\ c.period = p /\ e.version = c.version + 1 =>
                             e.close = c /\ e.actor # c.actor
      BY DEF PeriodHistoryAlternates, HistoryInv
    <2>1. {c.version : c \in {d \in closes : d.period = p}} =
            {v \in 1..period[p].version : v % 2 = 1}
      BY DEF Alternates
    <2>2. {e.version : e \in {d \in reopens : d.period = p}} =
            {v \in 1..period[p].version : v % 2 = 0}
      BY DEF Alternates
    <2>3. ASSUME NEW e \in reopens, NEW c \in closes,
                 e.period = p, c.period = p, e.version = c.version + 1
          PROVE  e.close = c /\ e.actor # c.actor
      <3>1. /\ e.close \in closes /\ e.close.period = p
            /\ e.version = e.close.version + 1 /\ e.actor # e.close.actor
        BY <2>3 DEF Alternates
      <3>2. c.version \in Int /\ e.close.version \in Int
        BY <3>1 DEF TypeOK, PeriodTypes, CloseEvent
      <3>3. c.version = e.close.version
        BY <2>3, <3>1, <3>2
      <3> QED
        BY <2>3, <3>1, <3>3 DEF Alternates
    <2> QED
      BY <2>1, <2>2, <2>3 DEF Alternates
  <1> QED
    BY <1>1, HistoryKept, TypeCorrect, PTL
=============================================================================
