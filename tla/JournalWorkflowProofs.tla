------------------------ MODULE JournalWorkflowProofs ------------------------
(***************************************************************************)
(* Proofs about JournalWorkflow for any actors, journals, staging items,   *)
(* periods and bounds.                                                     *)
(***************************************************************************)
EXTENDS JournalWorkflow, TLAPS

LEMMA SequenceUpdate ==
  ASSUME NEW S, NEW q \in Seq(S), NEW n \in 1..Len(q), NEW e \in S
  PROVE  [q EXCEPT ![n] = e] \in Seq(S) /\ Len([q EXCEPT ![n] = e]) = Len(q)
  OBVIOUS

(* A workflow command steps one row, by one revision, and reports it.      *)
LEMMA UpdatedRow ==
  ASSUME NEW j \in Rows, NEW r \in 0..MaxRevision, NEW action \in JournalAction,
         NEW row \in Row, JournalTypes, row.revision = r, UpdateRow(j, r, action, row)
  PROVE  /\ DOMAIN journal' = Rows
         /\ journal'[j] = [row EXCEPT !.revision = r + 1]
         /\ journal'[j] \in Row
         /\ \A k \in Rows : k # j => journal'[k] = journal[k]
         /\ reported' = reported \cup
              {[journal |-> j, action |-> action, revision |-> r + 1]}
  <1>1. r + 1 \in 0..MaxRevision
    BY KernelAssumption DEF UpdateRow
  <1>2. [row EXCEPT !.revision = r + 1] \in Row
    BY <1>1 DEF Row
  <1> QED
    BY <1>2 DEF UpdateRow, Report, Rows, Row

(* Moving a staging item keeps the table's type.                           *)
LEMMA StagingMoved ==
  ASSUME NEW s, NEW status \in StagingStatus, JournalTypes, StagingAt(s, status)
  PROVE  staging' \in
           [Staging -> [status : StagingStatus, version : Nat, period : Period]]
  <1> DEFINE Item == [status : StagingStatus, version : Nat, period : Period]
  <1> DEFINE moved ==
        [status |-> status, version |-> staging[s].version + 1, period |-> staging[s].period]
  <1>1. staging \in [Staging -> Item] /\ staging' = [staging EXCEPT ![s] = moved]
    BY DEF JournalTypes, StagingAt
  <1>2. s \in Staging => moved \in Item
    BY <1>1
  <1> HIDE DEF Item, moved
  <1>3. staging' \in [Staging -> Item]
    BY <1>1, <1>2
  <1> QED
    BY <1>3 DEF Item

LEMMA MovedStaging ==
  ASSUME NEW j \in Rows, NEW status \in StagingStatus, JournalTypes, MoveStaging(j, status)
  PROVE  staging' \in
           [Staging -> [status : StagingStatus, version : Nat, period : Period]]
  BY StagingMoved DEF MoveStaging, JournalTypes

LEMMA DraftTypes ==
  ASSUME JournalTypes, NEW a \in Actor, NEW j \in Journal, DraftCommand(a, j)
  PROVE  JournalTypes'
  <1>1. ASSUME NEW p \in Period, NEW x \in Int, NEW original \in Journal \cup {None},
               NEW type \in {"MANUAL", "AUTO", "REVERSAL", "RECLASS"},
               NEW source \in Staging \cup {None},
               InsertDraft(a, j, p, type, x, original, source),
               staging' \in
                 [Staging -> [status : StagingStatus, version : Nat, period : Period]]
        PROVE  JournalTypes'
    <2>1. Rows' \subseteq Journal /\ \A k \in Rows' : journal'[k] \in Row
      <3>1. /\ Rows' = Rows \cup {j}
            /\ journal'[j] \in Row
            /\ \A k \in Rows : journal'[k] = journal[k]
        BY <1>1, KernelAssumption DEF InsertDraft, Row, Rows, JournalStatus
      <3> QED
        BY <3>1 DEF JournalTypes
    <2>2. reported' \subseteq
            [journal : Journal, action : JournalAction, revision : 0..MaxRevision]
      BY <1>1, KernelAssumption DEF JournalTypes, InsertDraft, Report, JournalAction
    <2>3. ledger' = ledger
      BY <1>1 DEF InsertDraft
    <2> QED
      BY <1>1, <2>1, <2>2, <2>3 DEF JournalTypes
  <1>2. PICK p \in Period :
          \/ \E x \in Amount :
               \/ CreateManual(a, j, p, x)
               \/ \E o \in Rows : CreateReclass(a, j, p, o, x)
               \/ \E s \in Staging, v \in 0..MaxRevision : CreateAuto(a, j, p, s, v, x)
          \/ \E o \in Rows : CreateReversal(a, j, p, o)
    BY DEF DraftCommand
  <1>3. CASE \E x \in Amount : CreateManual(a, j, p, x)
    BY <1>1, <1>3, KernelAssumption DEF CreateManual, JournalTypes
  <1>4. CASE \E x \in Amount, o \in Rows : CreateReclass(a, j, p, o, x)
    BY <1>1, <1>4, KernelAssumption DEF CreateReclass, JournalTypes
  <1>5. CASE \E x \in Amount, s \in Staging, v \in 0..MaxRevision :
               CreateAuto(a, j, p, s, v, x)
    BY <1>1, <1>5, StagingMoved, KernelAssumption DEF CreateAuto, StagingStatus
  <1>6. CASE \E o \in Rows : CreateReversal(a, j, p, o)
    <2>1. PICK o \in Rows : CreateReversal(a, j, p, o)
      BY <1>6
    <2>2. -journal[o].amount \in Int
      BY DEF JournalTypes, Row
    <2> QED
      BY <1>1, <2>1, <2>2 DEF CreateReversal, JournalTypes
  <1> QED
    BY <1>2, <1>3, <1>4, <1>5, <1>6

LEMMA WorkflowTypes ==
  ASSUME JournalTypes, NEW a \in Actor, NEW j \in Rows, NEW r \in 0..MaxRevision,
         WorkflowCommand(a, j, r)
  PROVE  JournalTypes'
  <1>1. j \in Journal /\ journal[j] \in Row
    BY DEF JournalTypes
  <1>2. ASSUME NEW action \in JournalAction, NEW row \in Row, row.revision = r,
               UpdateRow(j, r, action, row),
               ledger' \subseteq [journal : Journal, period : Period, amount : Int],
               staging' \in
                 [Staging -> [status : StagingStatus, version : Nat, period : Period]]
        PROVE  JournalTypes'
    <2>1. \A k \in Rows' : journal'[k] \in Row
      <3>1. /\ Rows' = Rows
            /\ journal'[j] \in Row
            /\ \A k \in Rows : k # j => journal'[k] = journal[k]
        BY <1>2, UpdatedRow DEF Rows
      <3> QED
        BY <3>1 DEF JournalTypes
    <2>2. r + 1 \in 0..MaxRevision
      BY <1>2, KernelAssumption DEF UpdateRow
    <2>3. reported' \subseteq
            [journal : Journal, action : JournalAction, revision : 0..MaxRevision]
      BY <1>1, <1>2, <2>2 DEF JournalTypes, UpdateRow, Report
    <2>4. Rows' = Rows
      BY <1>2, UpdatedRow DEF Rows
    <2> QED
      BY <1>2, <2>1, <2>3, <2>4 DEF JournalTypes
  <1>3. ledger \subseteq [journal : Journal, period : Period, amount : Int]
    BY DEF JournalTypes
  <1>4. CASE Submit(a, j, r)
    BY <1>1, <1>2, <1>3, <1>4, MovedStaging
    DEF Submit, Current, Row, JournalStatus, JournalAction, StagingStatus
  <1>5. CASE Review(a, j, r)
    BY <1>1, <1>2, <1>3, <1>5, MovedStaging
    DEF Review, Current, Row, JournalStatus, JournalAction, StagingStatus
  <1>6. CASE Approve(a, j, r)
    BY <1>1, <1>2, <1>3, <1>6, MovedStaging
    DEF Approve, Current, Row, JournalStatus, JournalAction, StagingStatus
  <1>7. CASE Reject(a, j, r)
    BY <1>1, <1>2, <1>3, <1>7, MovedStaging
    DEF Reject, Returned, Current, Row, JournalStatus, JournalAction, StagingStatus
  <1>8. CASE EditDescription(a, j, r)
    BY <1>1, <1>2, <1>3, <1>8 DEF EditDescription, Current, JournalAction, JournalTypes
  <1>9. CASE Post(a, j, r)
    <2>1. [journal |-> j, period |-> journal[j].period, amount |-> journal[j].amount]
            \in [journal : Journal, period : Period, amount : Int]
      BY <1>1 DEF Row
    <2>2. [journal[j] EXCEPT !.status = "POSTED", !.postedBy = a] \in Row
      BY <1>1 DEF Row, JournalStatus
    <2> QED
      BY <1>1, <1>2, <1>3, <1>9, <2>1, <2>2, MovedStaging
      DEF Post, Current, Row, JournalAction, StagingStatus
  <1> QED
    BY <1>4, <1>5, <1>6, <1>7, <1>8, <1>9 DEF WorkflowCommand

LEMMA StatementTyped ==
  ASSUME JournalTypes, StatementTypes, NEW a \in Actor, StatementCommand(a)
  PROVE  StatementTypes'
  <1>1. CASE \E p \in Period : PrepareSnapshot(a, p)
    <2>1. PICK p \in Period : PrepareSnapshot(a, p)
      BY <1>1
    <2>2. Statement(p) \in SUBSET Journal
      BY DEF Statement, JournalTypes
    <2>3. [period |-> p, statement |-> Statement(p), preparedBy |-> a,
           approvedBy |-> None] \in Proposal
      BY <2>2 DEF Proposal
    <2>4. proposals' \in Seq(Proposal) /\ Len(proposals') = Len(proposals) + 1
      BY <2>1, <2>3 DEF PrepareSnapshot, StatementTypes
    <2>5. snapshot' = snapshot /\ Len(proposals) \in Nat
      BY <2>1 DEF PrepareSnapshot, StatementTypes
    <2> QED
      BY <2>4, <2>5 DEF StatementTypes
  <1>2. CASE \E n \in 1..Len(proposals) : ApproveSnapshot(a, n)
    <2>1. PICK n \in 1..Len(proposals) : ApproveSnapshot(a, n)
      BY <1>2
    <2>2. proposals \in Seq(Proposal) /\ proposals[n] \in Proposal
      BY DEF StatementTypes
    <2>3. [proposals[n] EXCEPT !.approvedBy = a] \in Proposal
      BY <2>2 DEF Proposal
    <2>4. proposals' = [proposals EXCEPT ![n] = [proposals[n] EXCEPT !.approvedBy = a]]
      BY <2>1 DEF ApproveSnapshot
    <2>5. proposals' \in Seq(Proposal) /\ Len(proposals') = Len(proposals)
      <3> DEFINE signed == [proposals[n] EXCEPT !.approvedBy = a]
      <3>1. signed \in Proposal /\ proposals' = [proposals EXCEPT ![n] = signed]
        BY <2>3, <2>4
      <3> HIDE DEF signed
      <3> QED
        BY <2>2, <3>1, SequenceUpdate
    <2>6. snapshot' \in [Period -> 0..Len(proposals)]
      <3>1. snapshot' = [snapshot EXCEPT ![proposals[n].period] = n]
        BY <2>1 DEF ApproveSnapshot
      <3>2. n \in 0..Len(proposals)
        BY <2>2
      <3> QED
        BY <3>1, <3>2 DEF StatementTypes
    <2> QED
      BY <2>5, <2>6 DEF StatementTypes
  <1> QED
    BY <1>1, <1>2 DEF StatementCommand

LEMMA PeriodTyped ==
  ASSUME PeriodTypes, StatementTypes, NEW a \in Actor, PeriodCommand(a)
  PROVE  PeriodTypes'
  <1>1. PICK p \in Period, v \in 0..MaxVersion :
          \/ ClosePeriod(a, p, v)
          \/ \E c \in closes : ReopenPeriod(a, p, v, c)
    BY DEF PeriodCommand
  <1>2. v < MaxVersion => v + 1 \in 1..MaxVersion
    BY KernelAssumption
  <1>3. CASE ClosePeriod(a, p, v)
    <2>1. proposals[snapshot[p]].statement \in SUBSET Journal
      <3>1. snapshot[p] \in 1..Len(proposals)
        BY <1>3 DEF ClosePeriod, SnapshotIsCurrent, PeriodTypes, StatementTypes
      <3>2. proposals[snapshot[p]] \in Proposal
        BY <3>1 DEF PeriodTypes, StatementTypes
      <3> QED
        BY <3>2 DEF Proposal
    <2>2. [period |-> p, version |-> v + 1, actor |-> a,
           statement |-> proposals[snapshot[p]].statement] \in CloseEvent
      BY <1>2, <1>3, <2>1 DEF ClosePeriod, CloseEvent
    <2>3. closes' \subseteq CloseEvent /\ reopens' \subseteq ReopenEvent
      BY <1>3, <2>2 DEF ClosePeriod, PeriodTypes, StatementTypes
    <2> QED
      BY <1>2, <1>3, <2>3 DEF ClosePeriod, PeriodTypes, StatementTypes
  <1>4. CASE \E c \in closes : ReopenPeriod(a, p, v, c)
    <2>1. PICK c \in closes : ReopenPeriod(a, p, v, c)
      BY <1>4
    <2>2. [period |-> p, version |-> v + 1, actor |-> a, close |-> c] \in ReopenEvent
      BY <1>2, <2>1 DEF ReopenPeriod, ReopenEvent, PeriodTypes, StatementTypes
    <2>3. closes' \subseteq CloseEvent /\ reopens' \subseteq ReopenEvent
      BY <2>1, <2>2 DEF ReopenPeriod, PeriodTypes, StatementTypes
    <2> QED
      BY <1>2, <2>1, <2>3 DEF ReopenPeriod, PeriodTypes, StatementTypes
  <1> QED
    BY <1>1, <1>3, <1>4

(* What each kind of command leaves alone.                                 *)
LEMMA Untouched ==
  ASSUME NEW a
  PROVE  /\ \A j : DraftCommand(a, j) => UNCHANGED <<ledger, periodVars, statementVars>>
         /\ \A j, r : WorkflowCommand(a, j, r) => UNCHANGED <<periodVars, statementVars>>
         /\ StatementCommand(a) => UNCHANGED <<journalVars, periodVars>>
         /\ PeriodCommand(a) => UNCHANGED <<journalVars, statementVars>>
  <1>1. \A j : DraftCommand(a, j) => UNCHANGED <<ledger, periodVars, statementVars>>
    BY DEF DraftCommand, CreateManual, CreateReclass, CreateAuto, CreateReversal, InsertDraft
  <1>2. \A j, r : WorkflowCommand(a, j, r) => UNCHANGED <<periodVars, statementVars>>
    BY DEF WorkflowCommand, Submit, Review, Approve, Reject, EditDescription, Post, UpdateRow
  <1>3. StatementCommand(a) => UNCHANGED <<journalVars, periodVars>>
    BY DEF StatementCommand, PrepareSnapshot, ApproveSnapshot
  <1>4. PeriodCommand(a) => UNCHANGED <<journalVars, statementVars>>
    BY DEF PeriodCommand, ClosePeriod, ReopenPeriod, periodVars
  <1> QED
    BY <1>1, <1>2, <1>3, <1>4

(* Every reachable state is typed.                                         *)
THEOREM TypeCorrect == Spec => []TypeOK
  <1>1. Init => TypeOK
    BY KernelAssumption
    DEF Init, TypeOK, JournalTypes, PeriodTypes, StatementTypes, Rows, StagingStatus, Period
  <1>2. TypeOK /\ [Next]_vars => TypeOK'
    <2> SUFFICES ASSUME TypeOK, [Next]_vars PROVE TypeOK'
      OBVIOUS
    <2>1. ASSUME NEW a \in Actor, NEW j \in Journal, DraftCommand(a, j)
          PROVE  TypeOK'
      BY <2>1, DraftTypes, Untouched
      DEF TypeOK, PeriodTypes, StatementTypes, periodVars, statementVars
    <2>2. ASSUME NEW a \in Actor, NEW j \in Rows, NEW r \in 0..MaxRevision,
                 WorkflowCommand(a, j, r)
          PROVE  TypeOK'
      BY <2>2, WorkflowTypes, Untouched
      DEF TypeOK, PeriodTypes, StatementTypes, periodVars, statementVars
    <2>3. ASSUME NEW a \in Actor, StatementCommand(a)
          PROVE  TypeOK'
      BY <2>3, StatementTyped, Untouched
      DEF TypeOK, JournalTypes, PeriodTypes, journalVars, periodVars, Rows
    <2>4. ASSUME NEW a \in Actor, PeriodCommand(a)
          PROVE  TypeOK'
      BY <2>4, PeriodTyped, Untouched
      DEF TypeOK, JournalTypes, StatementTypes, journalVars, statementVars, Rows
    <2>5. CASE UNCHANGED vars
      BY <2>5 DEF TypeOK, JournalTypes, PeriodTypes, StatementTypes, vars, Rows
    <2> QED
      BY <2>1, <2>2, <2>3, <2>4, <2>5 DEF Next
  <1> QED
    BY <1>1, <1>2, PTL DEF Spec
-----------------------------------------------------------------------------
(* A draft command adds one unsigned row, in an OPEN period, and leaves    *)
(* the other rows as they are.                                             *)
LEMMA DraftEffect ==
  ASSUME NEW a \in Actor, NEW j \in Journal, DraftCommand(a, j)
  PROVE  /\ j \notin Rows
         /\ Rows' = Rows \cup {j}
         /\ \A k \in Rows : journal'[k] = journal[k]
         /\ journal'[j].status = "DRAFT"
         /\ journal'[j].revision = 0
         /\ journal'[j].createdBy = a
         /\ journal'[j].reviewedBy = None
         /\ journal'[j].approvedBy = None
         /\ journal'[j].postedBy = None
         /\ period[journal'[j].period].status = "OPEN"
         /\ Report(j, "CREATE", 0)
         /\ ledger' = ledger
  BY DEF DraftCommand, CreateManual, CreateReclass, CreateAuto, CreateReversal,
         InsertDraft, OpenForDraft, Rows

(* What each workflow command does to its row.                             *)
RowStep(a, j, r) ==
  \/ /\ Submit(a, j, r)
     /\ journal'[j] = [journal[j] EXCEPT !.status = "PENDING_REVIEW",
                                        !.revision = r + 1]
  \/ /\ Review(a, j, r)
     /\ journal'[j] = [journal[j] EXCEPT !.status = "PENDING_APPROVAL",
                                        !.reviewedBy = a,
                                        !.revision = r + 1]
  \/ /\ Approve(a, j, r)
     /\ journal'[j] = [journal[j] EXCEPT !.status = "APPROVED",
                                        !.approvedBy = a,
                                        !.revision = r + 1]
  \/ /\ Reject(a, j, r)
     /\ journal'[j] = [journal[j] EXCEPT !.status = "DRAFT",
                                        !.reviewedBy = None,
                                        !.approvedBy = None,
                                        !.revision = r + 1]
  \/ /\ EditDescription(a, j, r)
     /\ journal'[j] = [journal[j] EXCEPT !.revision = r + 1]
  \/ /\ Post(a, j, r)
     /\ journal'[j] = [journal[j] EXCEPT !.status = "POSTED",
                                        !.postedBy = a,
                                        !.revision = r + 1]

(* What no workflow command changes in its row.                            *)
SameJournal(row, old) ==
  /\ row.type = old.type
  /\ row.period = old.period
  /\ row.amount = old.amount
  /\ row.createdBy = old.createdBy
  /\ row.original = old.original
  /\ row.source = old.source

(* A workflow command steps its row and leaves the others as they are.     *)
LEMMA WorkflowEffect ==
  ASSUME JournalTypes, NEW a \in Actor, NEW j \in Rows, NEW r \in 0..MaxRevision,
         WorkflowCommand(a, j, r)
  PROVE  /\ Rows' = Rows
         /\ \A k \in Rows : k # j => journal'[k] = journal[k]
         /\ SameJournal(journal'[j], journal[j])
         /\ RowStep(a, j, r)
  <1>1. journal[j] \in Row
    BY DEF JournalTypes
  <1>2. ASSUME NEW action \in JournalAction, NEW row \in Row, row.revision = r,
               SameJournal(row, journal[j]), UpdateRow(j, r, action, row)
        PROVE  /\ Rows' = Rows
               /\ \A k \in Rows : k # j => journal'[k] = journal[k]
               /\ journal'[j] = [row EXCEPT !.revision = r + 1]
               /\ SameJournal(journal'[j], journal[j])
    <2>1. DOMAIN journal' = Rows /\ journal'[j] = [row EXCEPT !.revision = r + 1]
      BY <1>2, UpdatedRow
    <2>2. SameJournal([row EXCEPT !.revision = r + 1], row)
      BY DEF Row, SameJournal
    <2>3. SameJournal(journal'[j], journal[j])
      BY <1>2, <2>1, <2>2 DEF SameJournal
    <2> QED
      BY <1>2, <2>1, <2>3, UpdatedRow DEF Rows
  <1>4. CASE Submit(a, j, r)
    <2>1. [journal[j] EXCEPT !.status = "PENDING_REVIEW"] \in Row
      BY <1>1 DEF Row, JournalStatus
    <2>2. SameJournal([journal[j] EXCEPT !.status = "PENDING_REVIEW"], journal[j])
      BY <1>1 DEF Row, SameJournal
    <2> QED
      BY <1>1, <1>2, <1>4, <2>1, <2>2 DEF RowStep, Submit, Current, Row, JournalAction
  <1>5. CASE Review(a, j, r)
    <2>1. [journal[j] EXCEPT !.status = "PENDING_APPROVAL", !.reviewedBy = a] \in Row
      BY <1>1 DEF Row, JournalStatus
    <2>2. SameJournal([journal[j] EXCEPT !.status = "PENDING_APPROVAL", !.reviewedBy = a], journal[j])
      BY <1>1 DEF Row, SameJournal
    <2> QED
      BY <1>1, <1>2, <1>5, <2>1, <2>2 DEF RowStep, Review, Current, Row, JournalAction
  <1>6. CASE Approve(a, j, r)
    <2>1. [journal[j] EXCEPT !.status = "APPROVED", !.approvedBy = a] \in Row
      BY <1>1 DEF Row, JournalStatus
    <2>2. SameJournal([journal[j] EXCEPT !.status = "APPROVED", !.approvedBy = a], journal[j])
      BY <1>1 DEF Row, SameJournal
    <2> QED
      BY <1>1, <1>2, <1>6, <2>1, <2>2 DEF RowStep, Approve, Current, Row, JournalAction
  <1>7. CASE Reject(a, j, r)
    <2>1. Returned(journal[j]) \in Row
      BY <1>1 DEF Row, JournalStatus, Returned
    <2>2. SameJournal(Returned(journal[j]), journal[j])
      BY <1>1 DEF Row, SameJournal, Returned
    <2> QED
      BY <1>1, <1>2, <1>7, <2>1, <2>2 DEF RowStep, Reject, Returned, Current, Row, JournalAction
  <1>8. CASE EditDescription(a, j, r)
    BY <1>1, <1>2, <1>8 DEF RowStep, SameJournal, EditDescription, Current, Row, JournalAction
  <1>9. CASE Post(a, j, r)
    <2>1. [journal[j] EXCEPT !.status = "POSTED", !.postedBy = a] \in Row
      BY <1>1 DEF Row, JournalStatus
    <2>2. SameJournal([journal[j] EXCEPT !.status = "POSTED", !.postedBy = a], journal[j])
      BY <1>1 DEF Row, SameJournal
    <2> QED
      BY <1>1, <1>2, <1>9, <2>1, <2>2 DEF RowStep, Post, Current, Row, JournalAction
  <1> QED
    BY <1>4, <1>5, <1>6, <1>7, <1>8, <1>9 DEF WorkflowCommand

(* Every row is signed by the right actors, all different.                 *)
THEOREM FourEyesHold == Spec => []FourEyes
  <1>1. Init => FourEyes
    BY DEF Init, FourEyes, Rows
  <1>2. TypeOK /\ FourEyes /\ [Next]_vars => FourEyes'
    <2> SUFFICES ASSUME JournalTypes, FourEyes, [Next]_vars PROVE FourEyes'
      BY DEF TypeOK
    <2>1. ASSUME NEW a \in Actor, NEW j \in Journal, DraftCommand(a, j)
          PROVE  FourEyes'
      BY <2>1, DraftEffect, KernelAssumption DEF FourEyes, Signed
    <2>2. ASSUME NEW a \in Actor, NEW j \in Rows, NEW r \in 0..MaxRevision,
                 WorkflowCommand(a, j, r)
          PROVE  FourEyes'
      <3>1. journal[j] \in Row /\ Signed(journal[j]) /\ a # None
        BY KernelAssumption DEF JournalTypes, FourEyes
      <3>2. RowStep(a, j, r)
        BY <2>2, WorkflowEffect
      <3>3. Signed(journal'[j])
        <4>1. CASE /\ Submit(a, j, r)
                   /\ journal'[j] = [journal[j] EXCEPT !.status = "PENDING_REVIEW", !.revision = r + 1]
          BY <3>1, <4>1 DEF Submit, Signed, Row
        <4>2. CASE /\ Review(a, j, r)
                   /\ journal'[j] = [journal[j] EXCEPT !.status = "PENDING_APPROVAL",
                                                   !.reviewedBy = a, !.revision = r + 1]
          BY <3>1, <4>2 DEF Review, Signed, Row
        <4>3. CASE /\ Approve(a, j, r)
                   /\ journal'[j] = [journal[j] EXCEPT !.status = "APPROVED",
                                                   !.approvedBy = a, !.revision = r + 1]
          BY <3>1, <4>3 DEF Approve, MayApprove, Signed, Row
        <4>4. CASE /\ Reject(a, j, r)
                   /\ journal'[j] = [journal[j] EXCEPT !.status = "DRAFT",
                                                   !.reviewedBy = None, !.approvedBy = None,
                                                   !.revision = r + 1]
          BY <3>1, <4>4, KernelAssumption DEF Reject, Signed, Row
        <4>5. CASE /\ EditDescription(a, j, r)
                   /\ journal'[j] = [journal[j] EXCEPT !.revision = r + 1]
          BY <3>1, <4>5 DEF EditDescription, Signed, Row
        <4>6. CASE /\ Post(a, j, r)
                   /\ journal'[j] = [journal[j] EXCEPT !.status = "POSTED",
                                                   !.postedBy = a, !.revision = r + 1]
          BY <3>1, <4>6 DEF Post, Signed, Row
        <4> QED
          BY <3>2, <4>1, <4>2, <4>3, <4>4, <4>5, <4>6 DEF RowStep
      <3> QED
        BY <2>2, <3>3, WorkflowEffect DEF FourEyes
    <2>3. ASSUME NEW a \in Actor, StatementCommand(a) \/ PeriodCommand(a)
          PROVE  FourEyes'
      BY <2>3, Untouched DEF FourEyes, journalVars, Rows
    <2>4. CASE UNCHANGED vars
      BY <2>4 DEF FourEyes, vars, Rows
    <2> QED
      BY <2>1, <2>2, <2>3, <2>4 DEF Next
  <1> QED
    BY <1>1, <1>2, TypeCorrect, PTL DEF Spec

(* No workflow command takes a posted row.                                 *)
LEMMA PostedIsFinal ==
  ASSUME NEW a, NEW j, NEW r, WorkflowCommand(a, j, r)
  PROVE  ~ Posted(j)
  BY DEF WorkflowCommand, Submit, Review, Approve, Reject, EditDescription, Editable, Post,
         Posted

(* No journal is ever left unposted in a closed period.  Inductive with    *)
(* the types: a close looks at every row of the period, and nothing is     *)
(* drafted into a closed one.                                              *)
THEOREM NothingStranded == Spec => []NoJournalStranded
  <1>1. Init => NoJournalStranded
    BY DEF Init, NoJournalStranded, Rows
  <1>2. TypeOK /\ NoJournalStranded /\ [Next]_vars => NoJournalStranded'
    <2> SUFFICES ASSUME TypeOK, NoJournalStranded, [Next]_vars PROVE NoJournalStranded'
      OBVIOUS
    <2>1. ASSUME NEW a \in Actor, NEW j \in Journal, DraftCommand(a, j)
          PROVE  NoJournalStranded'
      BY <2>1, DraftEffect, Untouched
      DEF NoJournalStranded, Posted, InOpenPeriod, periodVars
    <2>2. ASSUME NEW a \in Actor, NEW j \in Rows, NEW r \in 0..MaxRevision,
                 WorkflowCommand(a, j, r)
          PROVE  NoJournalStranded'
      <3>1. period' = period /\ Rows' = Rows
        BY <2>2, Untouched, WorkflowEffect DEF periodVars, TypeOK
      <3>2. journal'[j].period = journal[j].period
        BY <2>2, WorkflowEffect DEF TypeOK, SameJournal
      <3>3. \A k \in Rows : k # j => journal'[k] = journal[k]
        BY <2>2, WorkflowEffect DEF TypeOK
      <3>4. InOpenPeriod(j)
        BY <2>2, PostedIsFinal DEF NoJournalStranded
      <3> QED
        BY <3>1, <3>2, <3>3, <3>4 DEF NoJournalStranded, Posted, InOpenPeriod
    <2>3. ASSUME NEW a \in Actor, StatementCommand(a)
          PROVE  NoJournalStranded'
      BY <2>3, Untouched
      DEF NoJournalStranded, Posted, InOpenPeriod, journalVars, periodVars, Rows
    <2>4. ASSUME NEW a \in Actor, PeriodCommand(a)
          PROVE  NoJournalStranded'
      <3>1. journal' = journal
        BY <2>4, Untouched DEF journalVars
      <3>2. period \in [Period -> [status : {"OPEN", "CLOSED"}, version : 0..MaxVersion,
                                   closedBy : Actor \cup {None}]]
        BY DEF TypeOK, PeriodTypes
      <3>3. \A p \in Period : period'[p].status = "OPEN" \/ period'[p].status = period[p].status
                             \/ NothingUnposted(p)
        BY <2>4, <3>2 DEF PeriodCommand, ClosePeriod, ReopenPeriod
      <3>4. \A j \in Rows : journal[j].period \in Period
        BY DEF TypeOK, JournalTypes, Row
      <3> QED
        BY <3>1, <3>3, <3>4
        DEF NoJournalStranded, NothingUnposted, Posted, InOpenPeriod, Rows
    <2>5. CASE UNCHANGED vars
      BY <2>5 DEF NoJournalStranded, Posted, InOpenPeriod, vars, Rows
    <2> QED
      BY <2>1, <2>2, <2>3, <2>4, <2>5 DEF Next
  <1> QED
    BY <1>1, <1>2, TypeCorrect, PTL DEF Spec

(* No step changes a posted row or takes a ledger line away.               *)
THEOREM PostedEvidenceKept == Spec => PostedImmutable
  <1> DEFINE Kept ==
        /\ \A j \in Rows : Posted(j) => j \in DOMAIN journal' /\ journal'[j] = journal[j]
        /\ ledger \subseteq ledger'
  <1>1. TypeOK /\ [Next]_vars => [Kept]_vars
    <2> SUFFICES ASSUME JournalTypes, Next PROVE Kept
      BY DEF TypeOK
    <2>1. ASSUME NEW a \in Actor, NEW j \in Journal, DraftCommand(a, j)
          PROVE  Kept
      BY <2>1, DraftEffect DEF Rows
    <2>2. ASSUME NEW a \in Actor, NEW j \in Rows, NEW r \in 0..MaxRevision,
                 WorkflowCommand(a, j, r)
          PROVE  Kept
      <3>1. ledger \subseteq ledger'
        BY <2>2 DEF WorkflowCommand, Submit, Review, Approve, Reject, EditDescription, Post
      <3>2. ~ Posted(j) /\ DOMAIN journal' = Rows
        BY <2>2, PostedIsFinal, WorkflowEffect DEF Rows
      <3>3. \A k \in Rows : k # j => journal'[k] = journal[k]
        BY <2>2, WorkflowEffect
      <3> QED
        BY <3>1, <3>2, <3>3
    <2>3. ASSUME NEW a \in Actor, StatementCommand(a) \/ PeriodCommand(a)
          PROVE  Kept
      BY <2>3, Untouched DEF journalVars, Rows
    <2> QED
      BY <2>1, <2>2, <2>3 DEF Next
  <1> QED
    BY <1>1, TypeCorrect, PTL DEF Spec, PostedImmutable
=============================================================================
