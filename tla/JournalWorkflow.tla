--------------------------- MODULE JournalWorkflow ---------------------------
(***************************************************************************)
(* The journal, period and statement-snapshot commands of one entity of    *)
(* the accounting kernel (server/db/migrations 001, 002, 027, 288, 289,    *)
(* 293).  Every command is one SERIALIZABLE transaction                    *)
(* (server/runtime/db.mjs), so each is one atomic action here; what the    *)
(* interleaving leaves open is the order in which commands of different    *)
(* actors commit, and that a command may carry a revision or a version     *)
(* that was current when its caller read it and no longer is.              *)
(*                                                                         *)
(* Journal lines are abstracted to one signed amount moved between two     *)
(* accounts: balanced by construction, and a reversal negates it.          *)
(* CHECK constraints and triggers that repeat a guard of every command     *)
(* (posted rows are immutable, the actors of a row differ) are not guards  *)
(* here: the invariants say that the guards already imply them.            *)
(***************************************************************************)
EXTENDS Integers, Sequences, FiniteSets

CONSTANTS
  Actor,         \* authenticated human or service actors
  Journal,       \* identities journal_entry rows may take
  Staging,       \* staging items an automatic journal is drafted from
  Holders,       \* the actors whose grants give them a permission, for life
  Amount,        \* amounts a caller may put on a new journal
  LastPeriod,    \* accounting periods are 1..LastPeriod, in calendar order
  MaxRevision,   \* bound: no command takes a journal beyond this revision
  MaxVersion,    \* bound: no command takes a period beyond this version
  MaxProposal,   \* bound: statement snapshot proposals of the entity
  None           \* SQL NULL

Period == 1..LastPeriod

Permission ==
  {"GL.JE.CREATE", "GL.JE.REVERSE", "GL.JE.RECLASS", "GL.JE.AUTO.CREATE",
   "GL.JE.EDIT", "GL.JE.SUBMIT", "GL.JE.REVIEW", "GL.JE.APPROVE",
   "GL.JE.REJECT", "GL.JE.POST", "GL.PERIOD.CLOSE", "GL.PERIOD.REOPEN",
   "GL.REPORT.VIEW", "GL.REPORT.SNAPSHOT.PREPARE", "GL.REPORT.SNAPSHOT.APPROVE"}

ASSUME KernelAssumption ==
  /\ LastPeriod \in Nat \ {0}
  /\ MaxRevision \in Nat
  /\ MaxVersion \in Nat
  /\ MaxProposal \in Nat
  /\ Amount \subseteq Int
  /\ Holders \in [Permission -> SUBSET Actor]
  /\ None \notin Actor \cup Journal \cup Staging \cup Int

VARIABLES
  journal,       \* journal_entry rows by identity, only the rows there are
  ledger,        \* ledger_line rows: one record per posting batch
  staging,       \* staging_item status and version, and the period its
                 \* source document is dated in
  reported,      \* revision each committed journal command put in its outbox
                 \* event (POST: in its response, migration 051)
  period,        \* accounting_period rows
  closes,        \* PERIOD_CLOSED_V2 audit events
  reopens,       \* PERIOD_REOPENED_V1 audit events
  proposals,     \* financial_statement_snapshot_proposal rows, in order
  snapshot       \* latest approved financial_statement_snapshot per period

journalVars == <<journal, ledger, staging, reported>>
periodVars == <<period, closes, reopens>>
statementVars == <<proposals, snapshot>>
vars == <<journal, ledger, staging, reported, period, closes, reopens,
          proposals, snapshot>>

JournalStatus ==
  {"DRAFT", "PENDING_REVIEW", "PENDING_APPROVAL", "APPROVED", "POSTED"}
JournalAction ==
  {"CREATE", "EDIT", "SUBMIT", "REVIEW", "APPROVE", "REJECT", "POST"}
StagingStatus == {"READY_FOR_DRAFT", "DRAFT_CREATED", "PENDING_JE_REVIEW",
                  "PENDING_JE_APPROVAL", "APPROVED", "POSTED"}

(* A row of journal_entry, with the amount its lines move and the staging  *)
(* item its SOURCE_TO_JE link names.                                       *)
Row == [type : {"MANUAL", "AUTO", "REVERSAL", "RECLASS"},
        status : JournalStatus, period : Period, amount : Int,
        createdBy : Actor, reviewedBy : Actor \cup {None},
        approvedBy : Actor \cup {None}, postedBy : Actor \cup {None},
        revision : 0..MaxRevision, original : Journal \cup {None},
        source : Staging \cup {None}]

(* Audit events of the period commands, and statement proposals.           *)
CloseEvent == [period : Period, version : 1..MaxVersion, actor : Actor,
               statement : SUBSET Journal]
ReopenEvent == [period : Period, version : 1..MaxVersion, actor : Actor,
                close : CloseEvent]
Proposal == [period : Period, statement : SUBSET Journal, preparedBy : Actor,
             approvedBy : Actor \cup {None}]

Rows == DOMAIN journal
Posted(j) == j \in Rows /\ journal[j].status = "POSTED"

(* refs_get_financial_statements: the posted journals dated up to the end  *)
(* of the period, earlier periods included.                                *)
Statement(p) == {j \in Rows : Posted(j) /\ journal[j].period <= p}

Init ==
  /\ journal = [j \in {} |-> None]
  /\ ledger = {}
  /\ \E dated \in [Staging -> Period] :
       staging = [s \in Staging |-> [status |-> "READY_FOR_DRAFT", version |-> 0,
                                     period |-> dated[s]]]
  /\ reported = {}
  /\ period = [p \in Period |->
       [status |-> "OPEN", version |-> 0, closedBy |-> None]]
  /\ closes = {}
  /\ reopens = {}
  /\ proposals = <<>>
  /\ snapshot = [p \in Period |-> 0]

(* Every change of a staging item's status bumps its version.              *)
StagingAt(s, status) ==
  staging' = [staging EXCEPT ![s] =
    [status |-> status, version |-> @.version + 1, period |-> @.period]]

-----------------------------------------------------------------------------
(* Faulty variants for mutation testing: each is named after the           *)
(* definition below whose place it takes and the bug it plants there.      *)

OpenForDraft_Unchecked(p) == TRUE
NotReversed_OnlyPosted(o) ==
  \A k \in Rows :
    journal[k].type = "REVERSAL" /\ Posted(k) => journal[k].original # o
Current_Unchecked(j, r) == TRUE
MoveStaging_NotBack(j, status) ==
  IF journal[j].type = "AUTO" /\ status # "DRAFT_CREATED"
    THEN StagingAt(journal[j].source, status)
    ELSE UNCHANGED staging
MayApprove_Reviewer(a, j) == a # journal[j].createdBy
Returned_KeepsApprover(row) ==
  [row EXCEPT !.status = "DRAFT", !.reviewedBy = None]
Returned_Rejected(row) ==
  [row EXCEPT !.status = "REJECTED", !.reviewedBy = None, !.approvedBy = None]
Editable_Unposted(j) == journal[j].status # "POSTED"
Editable_Always(j) == TRUE
NothingUnposted_Approved(p) ==
  \A j \in Rows : journal[j].period = p => journal[j].status \in {"APPROVED", "POSTED"}
SnapshotIsCurrent_Exists(p) == snapshot[p] # 0
RetainedClose_Any(c, p, v) == c.period = p

-----------------------------------------------------------------------------
(* Drafts                                                                  *)

Report(j, action, revision) ==
  reported' = reported \cup
    {[journal |-> j, action |-> action, revision |-> revision]}

OpenForDraft(p) == period[p].status = "OPEN"

InsertDraft(a, j, p, type, x, original, source) ==
  /\ j \notin Rows
  /\ OpenForDraft(p)
  /\ journal' = [k \in Rows \cup {j} |->
       IF k = j
         THEN [type |-> type, status |-> "DRAFT", period |-> p, amount |-> x,
               createdBy |-> a, reviewedBy |-> None, approvedBy |-> None,
               postedBy |-> None, revision |-> 0, original |-> original,
               source |-> source]
         ELSE journal[k]]
  /\ Report(j, "CREATE", 0)
  /\ UNCHANGED <<ledger, periodVars, statementVars>>

CreateManual(a, j, p, x) ==
  /\ a \in Holders["GL.JE.CREATE"]
  /\ InsertDraft(a, j, p, "MANUAL", x, None, None)
  /\ UNCHANGED staging

(* Only posted manual and reclass journals take the generic adjustment     *)
(* path; business-linked ones belong to their owning workflow.             *)
Adjustable(o) == Posted(o) /\ journal[o].type \in {"MANUAL", "RECLASS"}

(* The unique index journal_entry_one_reversal_uq.                         *)
NotReversed(o) ==
  \A k \in Rows : journal[k].type = "REVERSAL" => journal[k].original # o

CreateReversal(a, j, p, o) ==
  /\ a \in Holders["GL.JE.REVERSE"]
  /\ Adjustable(o)
  /\ NotReversed(o)
  /\ InsertDraft(a, j, p, "REVERSAL", -journal[o].amount, o, None)
  /\ UNCHANGED staging

CreateReclass(a, j, p, o, x) ==
  /\ a \in Holders["GL.JE.RECLASS"]
  /\ Adjustable(o)
  /\ InsertDraft(a, j, p, "RECLASS", x, o, None)
  /\ UNCHANGED staging

(* v is the staging version the caller read.                               *)
ReadyForDraft(s, v) ==
  staging[s].version = v /\ staging[s].status = "READY_FOR_DRAFT"

CreateAuto(a, j, p, s, v, x) ==
  /\ a \in Holders["GL.JE.AUTO.CREATE"]
  /\ ReadyForDraft(s, v)
  /\ staging[s].period = p
  /\ InsertDraft(a, j, p, "AUTO", x, None, s)
  /\ StagingAt(s, "DRAFT_CREATED")

-----------------------------------------------------------------------------
(* Workflow.  r is the revision the caller expects.                        *)

Current(j, r) == journal[j].revision = r

InOpenPeriod(j) == period[journal[j].period].status = "OPEN"

(* The row steps from the revision it has; the event carries r + 1.        *)
UpdateRow(j, r, action, row) ==
  /\ r < MaxRevision
  /\ journal' = [journal EXCEPT ![j] = [row EXCEPT !.revision = @ + 1]]
  /\ Report(j, action, r + 1)
  /\ UNCHANGED <<periodVars, statementVars>>

(* An automatic journal carries its staging item along, whatever status    *)
(* the item has; refs_post_journal alone asks for APPROVED.                *)
MoveStaging(j, status) ==
  IF journal[j].type = "AUTO"
    THEN StagingAt(journal[j].source, status)
    ELSE UNCHANGED staging

Submit(a, j, r) ==
  /\ a \in Holders["GL.JE.SUBMIT"]
  /\ Current(j, r)
  /\ InOpenPeriod(j)
  /\ journal[j].status = "DRAFT"
  /\ UpdateRow(j, r, "SUBMIT", [journal[j] EXCEPT !.status = "PENDING_REVIEW"])
  /\ MoveStaging(j, "PENDING_JE_REVIEW")
  /\ UNCHANGED ledger

Review(a, j, r) ==
  /\ a \in Holders["GL.JE.REVIEW"]
  /\ Current(j, r)
  /\ InOpenPeriod(j)
  /\ journal[j].status = "PENDING_REVIEW"
  /\ a # journal[j].createdBy
  /\ UpdateRow(j, r, "REVIEW",
       [journal[j] EXCEPT !.status = "PENDING_APPROVAL", !.reviewedBy = a])
  /\ MoveStaging(j, "PENDING_JE_APPROVAL")
  /\ UNCHANGED ledger

MayApprove(a, j) == a \notin {journal[j].createdBy, journal[j].reviewedBy}

Approve(a, j, r) ==
  /\ a \in Holders["GL.JE.APPROVE"]
  /\ Current(j, r)
  /\ InOpenPeriod(j)
  /\ journal[j].status = "PENDING_APPROVAL"
  /\ MayApprove(a, j)
  /\ UpdateRow(j, r, "APPROVE",
       [journal[j] EXCEPT !.status = "APPROVED", !.approvedBy = a])
  /\ MoveStaging(j, "APPROVED")
  /\ UNCHANGED ledger

Returned(row) ==
  [row EXCEPT !.status = "DRAFT", !.reviewedBy = None, !.approvedBy = None]

(* The only transition that does not ask for an OPEN period.               *)
Reject(a, j, r) ==
  /\ a \in Holders["GL.JE.REJECT"]
  /\ Current(j, r)
  /\ journal[j].status \in {"PENDING_REVIEW", "PENDING_APPROVAL", "APPROVED"}
  /\ a # journal[j].createdBy
  /\ UpdateRow(j, r, "REJECT", Returned(journal[j]))
  /\ MoveStaging(j, "DRAFT_CREATED")
  /\ UNCHANGED ledger

(* Any holder of GL.JE.EDIT, the creator or not, in any period.            *)
Editable(j) == journal[j].status = "DRAFT"

EditDescription(a, j, r) ==
  /\ a \in Holders["GL.JE.EDIT"]
  /\ Current(j, r)
  /\ Editable(j)
  /\ UpdateRow(j, r, "EDIT", journal[j])
  /\ UNCHANGED <<ledger, staging>>

(* What a journal must still be when it is posted: the inverse of its      *)
(* posted original (migration 027 skips the clause for AUTO originals,     *)
(* which only business reversals have), a reclass of a posted one, or      *)
(* drafted from a staging item that is APPROVED.                           *)
PostingEvidence(j) ==
  LET o == journal[j].original IN
  CASE journal[j].type = "REVERSAL" ->
         Posted(o) /\ journal[j].amount = -journal[o].amount
    [] journal[j].type = "RECLASS" ->
         Posted(o) /\ journal[o].type \in {"MANUAL", "RECLASS", "AUTO"}
    [] journal[j].type = "AUTO" -> staging[journal[j].source].status = "APPROVED"
    [] OTHER -> TRUE

Post(a, j, r) ==
  /\ a \in Holders["GL.JE.POST"]
  /\ Current(j, r)
  /\ InOpenPeriod(j)
  /\ journal[j].status = "APPROVED"
  /\ a \notin {journal[j].createdBy, journal[j].reviewedBy, journal[j].approvedBy}
  /\ PostingEvidence(j)
  /\ ledger' = ledger \cup
       {[journal |-> j, period |-> journal[j].period, amount |-> journal[j].amount]}
  /\ UpdateRow(j, r, "POST",
       [journal[j] EXCEPT !.status = "POSTED", !.postedBy = a])
  /\ MoveStaging(j, "POSTED")

-----------------------------------------------------------------------------
(* Statement snapshots.  Reading the statement takes GL.REPORT.VIEW.       *)

PrepareSnapshot(a, p) ==
  /\ a \in Holders["GL.REPORT.SNAPSHOT.PREPARE"] \cap Holders["GL.REPORT.VIEW"]
  /\ Len(proposals) < MaxProposal
  /\ Statement(p) # {}
  /\ proposals' = Append(proposals, [period |-> p, statement |-> Statement(p),
                                     preparedBy |-> a, approvedBy |-> None])
  /\ UNCHANGED <<journalVars, periodVars, snapshot>>

(* Approval does not compare the proposal with the ledger of today: an old *)
(* proposal may be approved after a newer one and is then the latest.      *)
ApproveSnapshot(a, n) ==
  /\ a \in Holders["GL.REPORT.SNAPSHOT.APPROVE"]
  /\ proposals[n].approvedBy = None
  /\ a # proposals[n].preparedBy
  /\ proposals' = [proposals EXCEPT ![n].approvedBy = a]
  /\ snapshot' = [snapshot EXCEPT ![proposals[n].period] = n]
  /\ UNCHANGED <<journalVars, periodVars>>

-----------------------------------------------------------------------------
(* Periods                                                                 *)

(* refs_read_period_close_readiness without its external blockers (close   *)
(* policy settings, admitted source findings).                             *)
NothingUnposted(p) == \A j \in Rows : journal[j].period = p => Posted(j)

SnapshotIsCurrent(p) ==
  snapshot[p] # 0 /\ proposals[snapshot[p]].statement = Statement(p)

ClosePeriod(a, p, v) ==
  /\ a \in Holders["GL.PERIOD.CLOSE"] \cap Holders["GL.REPORT.VIEW"]
  /\ v < MaxVersion
  /\ period[p].status = "OPEN"
  /\ period[p].version = v
  /\ NothingUnposted(p)
  /\ SnapshotIsCurrent(p)
  /\ period' = [period EXCEPT ![p] =
       [status |-> "CLOSED", version |-> v + 1, closedBy |-> a]]
  /\ closes' = closes \cup
       {[period |-> p, version |-> v + 1, actor |-> a,
         statement |-> proposals[snapshot[p]].statement]}
  /\ UNCHANGED <<journalVars, reopens, statementVars>>

(* c is the close event the caller names: the latest of the period, in     *)
(* agreement with the row, and somebody else's.                            *)
RetainedClose(c, p, v) ==
  /\ c.period = p
  /\ \A d \in closes : d.period = p => d.version <= c.version
  /\ c.version = v
  /\ c.actor = period[p].closedBy

ReopenPeriod(a, p, v, c) ==
  /\ a \in Holders["GL.PERIOD.REOPEN"]
  /\ v < MaxVersion
  /\ period[p].status = "CLOSED"
  /\ period[p].version = v
  /\ RetainedClose(c, p, v)
  /\ a # c.actor
  /\ period' = [period EXCEPT ![p] =
       [status |-> "OPEN", version |-> v + 1, closedBy |-> None]]
  /\ reopens' = reopens \cup
       {[period |-> p, version |-> v + 1, actor |-> a, close |-> c]}
  /\ UNCHANGED <<journalVars, closes, statementVars>>

-----------------------------------------------------------------------------
(* Specification                                                           *)

DraftCommand(a, j) ==
  \E p \in Period :
    \/ \E x \in Amount :
         \/ CreateManual(a, j, p, x)
         \/ \E o \in Rows : CreateReclass(a, j, p, o, x)
         \/ \E s \in Staging, v \in 0..MaxRevision : CreateAuto(a, j, p, s, v, x)
    \/ \E o \in Rows : CreateReversal(a, j, p, o)

WorkflowCommand(a, j, r) ==
  \/ Submit(a, j, r)
  \/ Review(a, j, r)
  \/ Approve(a, j, r)
  \/ Reject(a, j, r)
  \/ EditDescription(a, j, r)
  \/ Post(a, j, r)

StatementCommand(a) ==
  \/ \E p \in Period : PrepareSnapshot(a, p)
  \/ \E n \in 1..Len(proposals) : ApproveSnapshot(a, n)

PeriodCommand(a) ==
  \E p \in Period, v \in 0..MaxVersion :
    \/ ClosePeriod(a, p, v)
    \/ \E c \in closes : ReopenPeriod(a, p, v, c)

Next ==
  \E a \in Actor :
    \/ \E j \in Journal : DraftCommand(a, j)
    \/ \E j \in Rows, r \in 0..MaxRevision : WorkflowCommand(a, j, r)
    \/ StatementCommand(a)
    \/ PeriodCommand(a)

Spec == Init /\ [][Next]_vars

-----------------------------------------------------------------------------
(* Properties                                                              *)

JournalTypes ==
  /\ Rows \subseteq Journal
  /\ \A j \in Rows : journal[j] \in Row
  /\ ledger \subseteq [journal : Journal, period : Period, amount : Int]
  /\ staging \in [Staging -> [status : StagingStatus, version : Nat, period : Period]]
  /\ reported \subseteq
       [journal : Journal, action : JournalAction, revision : 0..MaxRevision]

PeriodTypes ==
  /\ period \in [Period -> [status : {"OPEN", "CLOSED"}, version : 0..MaxVersion,
                            closedBy : Actor \cup {None}]]
  /\ closes \subseteq CloseEvent
  /\ reopens \subseteq ReopenEvent

StatementTypes ==
  /\ proposals \in Seq(Proposal)
  /\ snapshot \in [Period -> 0..Len(proposals)]

(* Every table holds rows of its type; the nullable columns are NULL or an *)
(* identity, counters stay within their bounds.                            *)
TypeOK == JournalTypes /\ PeriodTypes /\ StatementTypes

(* A row that reached a status names the actors who took it there, all     *)
(* different; one back in DRAFT, or waiting for review, shows no sign-off  *)
(* left over from an earlier round.                                        *)
Signed(row) ==
  /\ row.reviewedBy # None <=> row.status \in {"PENDING_APPROVAL", "APPROVED", "POSTED"}
  /\ row.approvedBy # None <=> row.status \in {"APPROVED", "POSTED"}
  /\ row.postedBy # None <=> row.status = "POSTED"
  /\ row.reviewedBy # row.createdBy
  /\ row.approvedBy # None => row.approvedBy \notin {row.createdBy, row.reviewedBy}
  /\ row.postedBy # None =>
       row.postedBy \notin {row.createdBy, row.reviewedBy, row.approvedBy}

(* The CHECK constraints of journal_entry never fire: every row is signed  *)
(* by the right actors, whatever revisions the commands carried.           *)
FourEyes == \A j \in Rows : Signed(journal[j])

(* Each command of a journal reports its own revision: the reported ones   *)
(* are exactly 0 up to the row's, each once.  The outbox UNIQUE key over   *)
(* (aggregate, event type, payload) therefore never refuses a legal        *)
(* command, although the event carries the expected revision plus one and  *)
(* the row its own plus one, and a consumer can order the events.          *)
OutboxComplete ==
  \A j \in Journal :
    LET events == {e \in reported : e.journal = j}
    IN /\ {e.revision : e \in events} =
            IF j \in Rows THEN 0..journal[j].revision ELSE {}
       /\ \A e, f \in events : e.revision = f.revision => e = f

StagingOf(status) ==
  CASE status = "DRAFT" -> "DRAFT_CREATED"
    [] status = "PENDING_REVIEW" -> "PENDING_JE_REVIEW"
    [] status = "PENDING_APPROVAL" -> "PENDING_JE_APPROVAL"
    [] OTHER -> status

(* The workflow moves the linked staging item without reading it, so it is *)
(* the journal's history that keeps the two in step: the item has the      *)
(* status of its one journal, and so is drafted and posted at most once.   *)
StagingInStep ==
  \A s \in Staging :
    LET drafted == {j \in Rows : journal[j].source = s}
    IN /\ \A j, k \in drafted : j = k
       /\ drafted = {} => staging[s].status = "READY_FOR_DRAFT"
       /\ \A j \in drafted :
            /\ staging[s].status = StagingOf(journal[j].status)
            /\ staging[s].period = journal[j].period

(* What was reviewed and approved is what is posted: the review is later   *)
(* than every edit, submission and rejection of the journal, the approval  *)
(* later still.                                                            *)
SignOffCoversContent ==
  \A j \in Rows :
    LET last(actions) ==
          {e.revision : e \in {d \in reported : d.journal = j /\ d.action \in actions}}
        after(later, actions) ==
          \E m \in last(later) : \A n \in last(actions) : n < m
    IN /\ journal[j].status \in {"PENDING_APPROVAL", "APPROVED", "POSTED"} =>
            after({"REVIEW"}, {"CREATE", "EDIT", "SUBMIT", "REJECT"})
       /\ journal[j].status \in {"APPROVED", "POSTED"} =>
            after({"APPROVE"}, {"CREATE", "EDIT", "SUBMIT", "REJECT", "REVIEW"})

(* No journal is left unposted in a closed period, where only a rejection  *)
(* could still move it and nothing could post it.                          *)
NoJournalStranded == \A j \in Rows : Posted(j) \/ InOpenPeriod(j)

(* While a period is closed, the statement its close certified shows the   *)
(* journals of that period that are posted, and no more: what the approver *)
(* of the snapshot saw is what the period holds.  (Of earlier periods,     *)
(* which may still be open, it may fall behind.)                           *)
CloseCertifiesPeriod ==
  \A p \in Period :
    period[p].status = "CLOSED" =>
      \E c \in closes :
        /\ c.period = p
        /\ c.version = period[p].version
        /\ c.actor = period[p].closedBy
        /\ {j \in c.statement : journal[j].period = p} =
             {j \in Rows : Posted(j) /\ journal[j].period = p}

(* The audit trail of a period reads close, reopen, close, ...: its events *)
(* have the versions 1 up to the row's, closes the odd ones; each reopen   *)
(* names the close right before it and is another actor's.                 *)
PeriodHistoryAlternates ==
  \A p \in Period :
    LET closed == {c.version : c \in {d \in closes : d.period = p}}
        reopened == {e.version : e \in {d \in reopens : d.period = p}}
    IN /\ closed = {v \in 1..period[p].version : v % 2 = 1}
       /\ reopened = {v \in 1..period[p].version : v % 2 = 0}
       /\ period[p].status = "CLOSED" <=> period[p].version % 2 = 1
       /\ \A e \in reopens : \A c \in closes :
            e.period = p /\ c.period = p /\ e.version = c.version + 1 =>
              e.close = c /\ e.actor # c.actor

(* The ledger holds one batch per posted journal, and an original is       *)
(* reversed at most once and then exactly: the two batches net to zero.    *)
LedgerNetsReversals ==
  /\ {e.journal : e \in ledger} = {j \in Rows : Posted(j)}
  /\ \A e, f \in ledger :
       /\ e.journal = f.journal => e = f
       /\ journal[f.journal].type = "REVERSAL" /\ journal[f.journal].original = e.journal =>
            e.amount + f.amount = 0
  /\ \A j, k \in Rows :
       /\ journal[j].type = "REVERSAL"
       /\ journal[k].type = "REVERSAL"
       /\ journal[j].original = journal[k].original
       => j = k

(* Posted evidence is immutable: no step changes a posted row or takes a   *)
(* ledger line away.                                                       *)
PostedImmutable ==
  [][/\ \A j \in Rows : Posted(j) => j \in DOMAIN journal' /\ journal'[j] = journal[j]
     /\ ledger \subseteq ledger']_vars

(* The books the tables add up to.  An entry takes its period and amount   *)
(* from its ledger batch and the rest from its journal; a certificate is a *)
(* close event with what its statement shows of the period itself and the  *)
(* reopenings that name it.                                                *)
Entry(e) ==
  LET row == journal[e.journal]
  IN [journal |-> e.journal, period |-> e.period, amount |-> e.amount,
      type |-> row.type, original |-> row.original, source |-> row.source,
      createdBy |-> row.createdBy, reviewedBy |-> row.reviewedBy,
      approvedBy |-> row.approvedBy, postedBy |-> row.postedBy]

Certificate(c) ==
  [period |-> c.period, number |-> c.version, closedBy |-> c.actor,
   entries |-> {j \in c.statement : journal[j].period = c.period},
   endedBy |-> {e.actor : e \in {d \in reopens : d.close = c}}]

Books == INSTANCE AccountBook WITH
  book <- {Entry(e) : e \in ledger},
  certificates <- {Certificate(c) : c \in closes}

(* Whatever order the commands commit in and whatever revisions and        *)
(* versions they carry, they keep proper books: every posting enters one   *)
(* finished entry, vouched for by four people, into an open period; every  *)
(* close certifies exactly what its period holds, and only another actor   *)
(* takes that back; no step changes an entry or a certificate after that.  *)
KeepsBooks == Books!Spec
=============================================================================
