# REFS accounting kernel: TLA+ verification

REFS is a real-estate accounting platform: a browser application, a Node API
server with a few workers, and an accounting kernel that lives in PostgreSQL as
some 420 ordered migrations of PL/pgSQL functions.  Everything that changes the
books is a kernel function called in one SERIALIZABLE transaction; the rest of
the repository prepares those calls, delivers what they emit, or reads.

Paths below are relative to the repository root (`server/...`, `src/...`);
`NNN` names the migration `server/db/migrations/NNN_*.sql`.

## 1. Inventory

| Component | State it keeps | Operations | Hard behaviour | What makes it correct |
|---|---|---|---|---|
| Journal workflow (001, 002, 027, 051) | `journal_entry`, `ledger_line`, `posting_batch`, `staging_item`, outbox and audit events | create manual / reversal / reclass / auto, submit, review, approve, reject, edit, post | stale revisions, order of commands of many actors, rounds of rejection | four eyes, sign-off covers the content, posted rows immutable, reversals net to zero, no gap in the outbox |
| Period control (289, 293) | `accounting_period`, close and reopen audit events | close, reopen | a close racing drafts and postings; reopen against an old close | nothing stranded in a closed period, certified statement matches the period, history alternates |
| Statement snapshots (062, 288) | proposals, approved snapshots | prepare, approve | approval of an outdated proposal | a close rests on a snapshot of today's ledger |
| Command runtime (`runtime/db.mjs`, `kernel-repository.mjs`, `api/accounting-http.mjs`) | none | transaction, retry of 40001 and 40P01, mapping of errors | unknown outcome of COMMIT | a command is atomic, applied at most once |
| Receipts and client recovery (`idempotency_receipt`, `src/native-*-recovery.js`) | receipts; the page's pending request | prepare, send, retain, retry, release | lost answers, remounts, two mounts, a permission lost in between | one effect per request, none forgotten |
| Credit allocation (008, 018, 035, 036, 313) | credits, documents, allocations | apply, post | two allocations against one capacity | no credit over-applied, no document over-paid |
| Outbox dispatch (`runtime/outbox-*.mjs`, 279, 299) | `outbox_event` status, lease, attempts | claim, publish, complete, retry, dead-letter | crash, lease expiry, late completion, lost answer | at least once with a recorded end |
| Outbox consumer (`outbox-consumer/`) | `event_ledger` | accept | duplicates | exactly one ledger row per event |
| Attachments and scanner bridge (`runtime/attachment-*.mjs`, `scanner-sidecar/`, 003, 101, 303) | reservations, object versions | reserve, upload, finalize, purge | upload during the scan, expiry during finalization, purge that fails half way | evidence is the scanned object and is never purged |
| Runtime contexts and grants (`context-issuer.mjs`, 274, 307, 308, 414) | contexts, grant sets | issue, consume, revoke | revocation between issue and use | no command without a live grant |
| Deployment identity (301) | attestations, tokens | attest, consume | replay, concurrent deployments | one identity per deployment |
| Bank matching and reconciliation (061, 063, 067, 068, 178, 180, 321, 323, 385, 400, 403, 418) | statement lines, matches, statements, items, adjustment drafts, snapshots | match, unmatch, start, clear, unclear, draft and post an adjustment, review, sign off, reopen | matches, reversals and items moving between clearance, review and sign-off; reopening | what a signed statement rests on stands, its sums and its chain hold, four eyes |
| Cash and unit transfer (375, 370, 371, 406, 411) | transfers, paired journals | create, approve, post, reverse | one leg without the other | both entities agree |
| Recurring scheduler (390, 398, 412-416) | schedules, runs | activate, run, pause | the same occurrence run twice | one draft per occurrence |
| AP / AR documents (004-048) | documents, open balances | draft, pay, void, refund | allocation against a void document | open balance is what the ledger says |
| Fixed assets (236-360) | registers, schedules | acquire, depreciate, dispose | decimal schedules | ledger agrees with the register |
| Accounting page (`src/authoritative-app.jsx`, `authoritative-read-guard.js`, `authoritative-release-gate.js`, `oidc-client.js`) | phase, selected company and period, shared rows, open journal, read guard, session | check identity and release, refresh, select, open a journal, call back after a command, renew, sign out | answers and callbacks that arrive after the page moved on | no company's rows under another's name, no half-read bundle, a sign-out stands, Loading ends |
| WBS ingest, AI reviews, reports, demonstration ledgers | evidence, read models | admit, analyse, show | mostly stateless per call | not modelled, see section 9 |

How they interact: the browser sends a command with an idempotency key through
the API server; the server issues a one-shot authority context and runs the
kernel function and the receipt in one transaction; the function writes its
audit event and its outbox event in that same transaction; the dispatch worker
claims outbox events under a lease and delivers them to the consumer over HTTP;
attachments are uploaded straight to object storage and tied to the accounting
rows by `source_link` once they are verified.

## 2. Plan

Order, with the abstract specification or the theorem worth having for each:

1. `JournalWorkflow` with `JournalWorkflowProofs`, `JournalRecordProofs` and
   `JournalBookProofs` (this version), implementing the abstract `AccountBook`:
   journals, staging, periods, snapshots.
2. `OutboxDispatch` with `OutboxDispatchProofs` (this version), implementing the
   abstract `EventDelivery`: claim, lease, publish, completion, crash, consumer;
   liveness of delivery.
3. `CommandRecovery` with `CommandRecoveryProofs` (this version): the client
   that retains an unconfirmed request, and the receipt that answers its retry.
4. `AttachmentEvidence` with `AttachmentEvidenceProofs` (this version),
   implementing the abstract `EvidenceVault`: reservation, upload, scan,
   finalization and cleanup of supporting documents.
5. `BankReconciliation` with `BankReconciliationProofs` (this version),
   implementing the abstract `SignedStatements`: matching and the life cycle of
   statements.
6. `AccountingPage` with `AccountingPageProofs` (this version): the signed-in page
   and everything that may answer after it has moved on.
   `CommandRecovery` and `AccountingPage` have no abstract specification: what
   they promise is said of single commands and answers, by their properties.
7. Left: the balances of AP and AR documents (payments, credits, their
   reversals and post reducers; the open balance is the gross amount less what
   is active), paired transfers, the recurring scheduler, grants and contexts,
   deployment identity.

The modules do not compose into one state space: what they share is a contract.
The kernel's outbox revisions are stated in `JournalWorkflow` (`OutboxComplete`),
their delivery in `OutboxDispatch`; attachments enter the ledger as verified rows,
which `AttachmentEvidence` promises to keep; `BankReconciliation` takes payments
as posted or reversed, what `JournalWorkflow` makes of their journals; `AccountingPage`
reads rows of a company and sends commands, whose forms `CommandRecovery` describes.

## 3. JournalWorkflow and AccountBook

One entity of the kernel.  Variables are the tables: `journal` is
`journal_entry` by identity (only the rows that exist are in its domain), with
the amount its two lines move and the staging item of its SOURCE_TO_JE link;
`ledger` is one record per posting batch; `staging` the staging items' status
and version; `reported` the revision each command put in its outbox event;
`period`, `closes`, `reopens` the period rows and their audit events;
`proposals` and `snapshot` the statement proposals and the latest approved
snapshot of each period.  `Statement(p)` is the posted population of
`refs_get_financial_statements`.

Each action is one kernel function, with its permission, its row guards, the
update of the row, of the staging item and of the outbox.  A command is one
SERIALIZABLE transaction, so one action.  The interleaving is the order of
commits; what makes it hard is that a caller's revision (`r`), staging version
or period version (`v`) and close event (`c`) are inputs from what it read at
some earlier time, so every value in the bounds is tried.  A command the code
refuses changes nothing and is no step.

Database CHECK constraints and triggers that repeat what the functions
establish (four different actors, posted rows immutable) are not guards: the
invariants state that the functions alone keep them.

Modelled periods: close readiness demands that no journal of the period is
unposted and that the latest approved snapshot equals the current statement.
Its external blockers (policy settings, source findings) are dropped.  The
"latest" close of a period is chosen in 293 by `occurred_at`, the time the
transaction began; because a close must hash the period version it read, the
closes of one period are causally ordered and the model orders them by version.

`AccountBook` is what all this comes to for a reader of the books: entries, which
only join, and certificates, one per close.  The mapping (`Books`):

| Abstract | In the tables |
|---|---|
| `book` | the `ledger` batches, each with its journal's type, original, source and four signatures (`Entry`) |
| `certificates` | the `closes`, each with the journals of its own period in the statement it retained, and the actor of a reopening that names it (`Certificate`) |
| `Enter` | `Post`: the period is open, the journal new in the book, its original there and not reversed before, its staging item not booked before, the signatures four people |
| `Close`, `Reopen` | `ClosePeriod`, `ReopenPeriod`; every other command is a stutter |

An entry carries what its journal's row says *now*, so the refinement also states
that no later command changes a posted row's type, signatures or source; and a
certificate keeps the journals it listed, so no later posting makes it wrong.

### Runs

Three runs share the module; each bounds the part it is not about.

| Run | Instance | Checks |
|---|---|---|
| `journal_sign_off` | two journals, one staging item, one period, actors with overlapping duties, revisions up to the bound | `TypeOK`, `FourEyes`, `OutboxComplete`, `StagingInStep`, `SignOffCoversContent`, `PostedImmutable` |
| `journal_periods` | two periods, duties split among actors, journals, snapshots, closes and reopens repeated up to the version bound | `NoJournalStranded`, `CloseCertifiesPeriod`, `PeriodHistoryAlternates`, `KeepsBooks` (refinement) |
| `journal_reversal` | reversals, reclasses and rejected reversals of posted journals | `LedgerNetsReversals` |

The revision bound lets a journal go through a full cycle with a rejection or an
edit in between; the version bound allows close, reopen, close, reopen.  The
bounds stop the system, so deadlock is not checked.  No fairness is assumed: the
kernel never acts on its own.

`CloseCertifiesPeriod` speaks of the period's own journals: closes are not
ordered by calendar, so an earlier period that is still open may post later
and change the cumulative statement of a closed one.

### Proofs

`JournalWorkflowProofs` proves, for all actors, journals, periods, permissions
and bounds satisfying `KernelAssumption`:

- `TypeCorrect`: `Spec => []TypeOK`, from one lemma per group of commands;
- `FourEyesHold`: `Spec => []FourEyes`.  `FourEyes` is inductive together with
  `TypeOK`; the proof rests on `WorkflowEffect`, which describes what any
  workflow command does to its row (`RowStep`) and to no other;
- `NothingStranded`: `Spec => []NoJournalStranded`, needs that a draft enters
  open periods only, that a close sees the whole period posted, and that no
  command takes a row out of POSTED or changes its period;
- `PostedEvidenceKept`: `Spec => PostedImmutable`, the action property.

`JournalRecordProofs` continues with what is kept beside the journals, so that every
property of the three runs is a theorem:

- `OutboxHoldsEveryRevision`: `Spec => []OutboxComplete`, from `Complete`, the same
  said of each event and each revision;
- `SignOffIsOfContent`: `Spec => []SignOffCoversContent`.  A review or an approval
  reports the highest revision there is (`OutboxComplete`), and the commands that
  change the content leave the journal in DRAFT or waiting for review (`StatusAfter`);
- `StagingFollowsJournal`: `Spec => []StagingInStep`, with `Sourced` (an automatic
  journal, and no other, names an item), since the code moves the item by the
  journal's type;
- `LedgerNets`: `Spec => []LedgerNetsReversals`, with `Reversing`: a reversal negates
  a row that is posted, hence immutable, and that no other reversal names, from the
  moment it is drafted;
- `CloseCertifies`: `Spec => []CloseCertifiesPeriod`: the close compared the statement
  with the ledger, and nothing posts into a closed period;
- `HistoryAlternates`: `Spec => []PeriodHistoryAlternates`, from `Alternates`: the
  version of the row is that of its last event, so no two closes share one.

`JournalBookProofs` proves the refinement from the invariants of the other two
modules (`BookInv`), with one more, that only adjusting journals name an original:

- `ImplementsBook`: `Spec => KeepsBooks`.  The guards of `Enter` that the code of
  `Post` does not state are the work: that the journal is not yet in the book, that
  a reversal's original was not reversed by another, that the staging item was not
  booked, that the four signatures are pairwise different although `Post` compares
  only the poster, and that the open status of the period row means that every
  close of it was taken back (`OpenByCertificates`).  For every other command the
  entries and certificates are shown to be the same sets.

## 4. OutboxDispatch and EventDelivery

`EventDelivery` is the promise to the kernel (`server/outbox-consumer/README.md`:
at-least-once delivery with idempotent retention): the consumer keeps one row
per event, an event is published only when it is kept, a verdict is never taken
back, and every event gets one.  `OutboxDispatch` is how the code keeps it.

| In the model | In the code |
|---|---|
| `outbox` | `outbox_event`: status, `attempt_count`, `locked_by`; `due` is `available_at <= now`, `expired` is a `locked_at` older than the lease |
| `batch`, `call` | the rows `runOnce` was given and has not begun; the row it works on and what it knows of the publish |
| `wire`, `answer` | HTTP requests on their way, and the response on the connection a process still reads |
| `ledger` | the consumer's `event_ledger` (event and first attempt) |
| `ClaimRows` | `refs_claim_outbox_v3` (299) |
| `Begin`, `Receive`, `TimeOut` | one iteration of `runOnce`: validation, `publish` with its one deadline, mapping of the status to success, retryable or rejected |
| `Accept`, `Refuse`, `Unavailable` | the consumer's handler: 200 once the row is durable, a final 4xx, 503 with or without effect |
| `Complete` | `refs_complete_outbox_v2` (279) and `validateOutboxCompletion`; a row that is no longer the actor's raises 42501, another attempt than the claimed one is seen after the commit, and both end the cycle |
| `AbandonedLease`, `OutlivedLease` | a lease reaching its age while nobody, or somebody, works on its claim |
| `Crash` | death of the process, or a database call that fails for good: what it held in memory is gone |

A request lives on when its process stopped waiting: `TimeOut` leaves it on the
wire and it may be accepted at any later time, after another attempt, or never.
`SKIP LOCKED` and the ordering by `available_at` are abstracted to "any claimable
rows up to the limit".  A refused permission or grant revision fails the call,
which is a crash here.  Responses no consumer of this repository gives (cacheable,
oversized or foreign receipts) are left out, as are health states and metrics.

| Run | Instance | Checks |
|---|---|---|
| `outbox` | two processes with an actor each, a deliverable, a refused and a malformed event, batches of one, 2 attempts, 1 mishap, fairness | `TypeOK`, `DeadLettersJustified`, `LeaseExcludes`, `SettlesItsClaim`, `DeliversEvents` (refinement and liveness) |
| `outbox_shared_actor` | two processes sharing an actor, one event, no fairness | `SettlesItsClaim`, violated: see below |

Bounds: attempts are bounded by the code itself; `MaxMishaps` bounds crashes and
outlived leases, and one is enough for every race of two processes over one
event, since each needs exactly one late or dead process.  The three events are
the three ways an event can end.  A batch of one still lets a process hold an
event it has not begun; batches of any size are covered by the proofs.

Fairness: `WF(Dispatch(p))`, because a worker's loop polls forever, its publish
deadline always fires and its supervisor restarts it; `WF(Passage(e))`, because
back-off and leases run out with time.  Nothing is asked of the consumer: a
consumer that never answers leads to FAILED through timeouts.  Mishaps are
finitely many: a process that crashed after every claim would raise the attempt
count for ever without a verdict, since only a completion compares it with the
maximum.

`outbox_shared_actor` records a disagreement: a test says the service "seals the
exact claim" (`server/tests/outbox-dispatcher.test.mjs:108`), and the completion
names only the actor.  Two processes of the one dedicated actor, as during a
deployment, let a late completion settle the other's newer claim.  What is lost
is that the attempt is judged on its own result; `ImplementsDelivery` assumes
nothing of the actors, so no event is published unless it is kept even then.

### Proofs

`OutboxDispatchProofs` proves, under `DispatchAssumption` only:

- `DispatchTyped`: `Spec => []TypeOK`.
- `DeadLetters`: `Spec => []DeadLettersJustified`.  Not inductive alone: a
  process remembers an outcome and settles later.  `DeliveryInv` adds `Informed`
  (who remembers success has an event the consumer keeps; who remembers rejection
  has one nobody can take; no malformed event is on the wire) and `Settled` (what
  is published is kept, what is kept was acceptable).
- `ImplementsDelivery`: `Spec => Delivery!Spec`, each step being a `Retain`, a
  `Publish`, a `GiveUp` or a stutter, from `DeliveryInv`.
- `OwnActorsSettle`: if no two processes share an actor, `Spec => SettlesItsClaim`,
  from `ClaimsCurrent`: a claim is the row's last one as long as its actor holds
  the row.

- `LeasesExclude`: `Spec => []LeaseExcludes`, shared actors included.
  `LeaseInv` adds `HeldApart` (no process holds a claim beyond its row's attempt
  count, no two hold the same) and `LeaseHeld` (while nothing went wrong, a claim
  somebody holds is its row's current one and its lease runs).

Model-checked only: the liveness half of `DeliversEvents` (fairness is out of the
proof system's reach).

## 5. CommandRecovery

A user applies a posted credit to a document.  The browser draws an idempotency
key, retains the command in a session-wide store, checks the identity, POSTs, and
releases the command when its result is certain.  A form may be left at any time
and goes on saving; the next form recovers the retained command and may send it
too.  The server answers a repeated key from its receipt.

| In the model | In the code |
|---|---|
| `pending` | the entry of `native-credit-allocation-recovery.js` for one company, period, credit and actor |
| `form` | `NativeCreditAllocationForm`: `mounted`, `command`, the `uncertain` ref, `done` (a receipt is shown), `at` (how far `save` is and which result it holds) |
| `lost` | requests whose connection failed, and which may still arrive |
| `receipts`, `applied` | `idempotency_receipt` and `business_allocation` |
| `Open`, `Leave` | mount (recovering `pending`) and unmount |
| `Begin`, `NotPrepared`, `Prepare`, `Retry` | `save` up to the first `await` of the send, with the retain that may throw |
| `IdentityChecked` | the access check of `sendNativeCreditAllocation`; its failure is a definite result without `unconfirmed` |
| `Succeed`, `Fail`, `LoseAnswer`, `GiveUp`, `LateArrival` | the server's transaction (008 with the guard of 313) and what becomes of the answer; `statusFor` makes 4xx definite, 5xx and protocol errors unconfirmed |
| `Settle` | lines 34 to 37 of the form: release or retain, and the state updates of a mounted form |

Permissions are not a variable: the identity check and the scope assertion, which
comes before the receipt, may fail at any time.  All commands ask for one amount,
of which the credit covers `Cover`.  The load of the targets, validation and the
`beforeunload` warning are left out; a browser restart loses the store by design
and is not modelled.

| Run | Instance | Checks |
|---|---|---|
| `recovery` | three forms, 3 keys, cover 2, 1 lost copy | `TypeOK`, `AllocatedOnce`, `OneUnresolved`, `UnlockedWhenDead`, `KeptWhileSerial` |
| `recovery_denied` | two forms, the rest as above | `KeptUntilResolved`, violated: see below |

`overlapped` is a history variable, read by properties only: a form was opened while
an earlier one, left by its user, still saved.  `KeptWhileSerial` and `OneUnresolved`
are what the code keeps of the document's promise, up to that moment; `AllocatedOnce`
and `UnlockedWhenDead` hold after it too.

Bounds: three keys let a command be confirmed, a second be stuck and a third be
drawn beside it; a cover of two makes the third a refusal.  Three forms are the one
on screen and two that still save, one of them for a command the other recovered.
One copy of each request may be on its way after its form gave up; more are covered
by the proofs.  Safety only, so no fairness is assumed: whether a command is ever
confirmed depends on the user and the network.

`recovery_denied` records a disagreement with `docs/native-inflight-recovery.md`
("A later permission failure must not discard a previously uncertain request").
The first form's `uncertain` ref is false as long as its own first send lasts.  If
it is left then, a second form recovers the command as uncertain and sends it, and
the first form's identity check fails afterwards, the first form releases the
entry under the second form's request.  With that answer lost too, the next form
starts empty.  The scenario the document describes, a denied retry of the *second*
form, is handled: `UnlockedWhenDead` holds with both forms.  The key of the
command keeps it from allocating twice (`AllocatedOnce`); what is lost is that a
different command is not entered meanwhile.  Another effect seen in the model: a
form that was left and ends without an answer puts a command back that its
successor already confirmed; the next form then offers it for a harmless replay.

### Proofs

`CommandRecoveryProofs` proves, under `RecoveryAssumption` only:

- `AllocatesOnce`: `Spec => []AllocatedOnce`, from `Receipted` (an allocation is
  counted exactly where a receipt is).
- `UnlocksWhenDead`: `Spec => UnlockedWhenDead`.  The step is a definite refusal of
  a form that knows of no earlier attempt.  That this form's knowledge is right is
  `SoleSender`: while it is on screen no other form has its command, the store keeps
  the command while it is sent, and nothing of it holds or is on its way unless its
  own answer says so.  It is inductive together with `FormsSound` (one form on
  screen, only prepared commands are sent).
- `SerialFormsResolve`: `Spec => KeptWhileSerial`, with `SerialKept`: as long as no
  form was opened beside one that saves, what is unresolved is in the store.
- `SerialFormsShareCommand`: `Spec => []OneUnresolved`, from the same: the store holds
  one command, so no two are unresolved.
- `RecoveryTyped`: `Spec => []TypeOK`.

The same lemma `RecoveryStep` carries all five; the module's type invariant is its
first conjunct.

## 6. AttachmentEvidence and EvidenceVault

A supporting document is a row of `attachment` and an object in a versioned
store that the browser writes with a presigned URL.  Between two database calls
anything may happen to the object: the module is about the steps in between.

| In the model | In the code |
|---|---|
| `attachment` | the rows (003): status, declared hash, object version, upload window (`closed`), cleanup status, attempt and lease (`stale`) |
| `asked`, `urls` | requests whose lookup found no receipt; presigned URLs in somebody's hands, some of which outlive the window of their row |
| `uploads`, `held` | every version ever put, and those the store still has |
| `call` | a finalization between its steps |
| `sweep` | a cleanup run: its batch, the claim it works on, the versions it listed, the failures it saw |
| `Ask`, `Reserve`, `ReserveAgain`, `Resume` | `AttachmentEvidenceService.reserve` on the direct route (lookup first, 303) and on the payable route (101) |
| `Put` | the browser's PUT (`src/attachment-api.js`) |
| `RequestFinalize`, `Inspect`, `Scan`, `Finalize`, `CallFails` | `finalize`: request, HEAD of the latest version, scan of that version through the bridge, `refs_finalize_attachment` |
| `ClaimExpired`, `Purge`, `Delete`, `VerifyEmpty`, `PurgeFails`, `Complete`, `CompletionLost`, `AnswerLost`, `SweepDies` | `AttachmentCleanupService.runOnce`: claim, list, delete one by one, list again, record |
| `WindowCloses`, `AbandonedLease`, `OutlivedLease` | passing time |

`EvidenceVault` is the promise to whoever books on a document: a reservation is
verified, rejected or cleaned; a verified one names bytes that were declared, are
clean and stay; a cleaned one has nothing left that came in its time.  The mapping
(`Vault`):

| Abstract | In the model |
|---|---|
| `status` | the row's status; `CLEANED` is REJECTED with cleanup COMPLETE |
| `declares`, `evidence` | the declared file; the version and file the row names once verified |
| `stock` | the versions the store has of the row's object, but those put with a URL that outlived the window (`InTime`) |
| `Reserve`, `Arrive`, `Discard`, `Verify`, `Reject`, `Clean` | `Reserve` and `ReserveAgain`, `Put`, `Delete`, the two verdicts of `Finalize`, a `Record` that settles |

`Verify` asks for what the code cannot see in that transaction, that the version
is still in the store; `Clean` for an empty stock, two calls after the listing.

| Run | Instance | Checks |
|---|---|---|
| `attachments` | one reservation on the direct route, a clean and an infected file, two uploads, two finalizations, two cleanup runs, batches of one, one fault, fairness | `TypeOK`, `EvidenceKept`, `EvidenceIsDeclared`, `SettledByItsClaim`, `KeepsEvidence` (refinement), `EveryUploadSettles` |
| `attachment_shared_key` | one request on each route with the same idempotency key, one upload, one finalization, one cleanup run | `EvidenceKept`, violated: see below |

Bounds: all guards concern one row and one object, so one reservation meets every
race of finalization, upload and cleanup; two uploads put other bytes before,
while or after the first are scanned; two runs and two finalizations race for one
row; one fault is one late, dead or failing run beside a healthy one.  Larger
numbers, and reservations on both routes, are covered by the proofs.

Fairness: `WF(Passage(r))`, since windows and leases run out, and `WF(RunOnce(w))`,
since the worker's loop starts a cycle every interval and a supervisor restarts it.
Nothing is asked of the browser, of finalizations or of the scanner.  Faults are
finitely many.

`attachment_shared_key` records a disagreement: the object key comes from tenant,
entity and idempotency key alone, but the two routes keep receipts of their own, so
one key used on both gives two rows one object, and the cleanup of the row that
expires deletes the evidence the other one verified.

### Proofs

`AttachmentEvidenceProofs` proves, under `EvidenceAssumption` and `NoneAssumption`:

- `EvidenceTyped`, `VerifiedAsDeclared`: from `EvidenceInv`, which says of every
  finalization under way that its verdict belongs to the version it looked at
  (`CallSound`), and of every cleanup run that what it is about to delete belongs
  to the object of a row whose window is closed (`SweepSound`).  Every step is
  described once by what it does to the rows (`RowsMove`), the calls and the runs.
- `OnlyTheClaimSettles`: the action property, from the same invariant.
- `VerifiedIsKept`, `CleanedIsGone` (`CleanedLeavesNothing`): if no two reservations share an object
  (`OwnObjects`, the assumption `attachment_shared_key` shows to be needed).
  `StoreInv` adds that the version a finalization looked at is still there while
  the window is open, that a verified row's version is there, and that a run about
  to report an empty object left late uploads only.
- `ImplementsVault`: under the same assumption, `Spec => KeepsEvidence`.  Each step is
  a `Reserve`, `Arrive`, `Discard`, `Verify`, `Reject`, `Clean` or a stutter;
  `StoreInv` gives `Verify` its deposit and `Clean` its empty stock, and keeps
  `Arrive` from a cleaned row and `Discard` from a verified one.

`NoneAssumption` says that the value for SQL NULL is no number, claim, row, verdict or
status; a model value is none of them.

`KeepsEvidence` implies `CleanedLeavesNothing`, so no run checks that one by itself.

Model-checked only: `EveryUploadSettles`, a liveness property under fairness.

## 7. BankReconciliation and SignedStatements

One bank account: the lines the bank reports, the matches of lines with posted
payments, receipts and sales receipts, and the statements that are started,
worked on, reviewed, signed off and reopened.

| In the model | In the code |
|---|---|
| `bank_source` | the reported lines (001, 091); their date and amount are constants |
| `payment` | `payment_occurrence` or `sales_receipt`: posted, its reversal drafted (`REVERSING`), reversed on a day |
| `bank_match` | matches, active or taken back |
| `reconciliation` | statements; `tied` is `difference = 0` as stored, which clearance commands alone bring up to date |
| `item`, `draft` | `reconciliation_item`, and `reconciliation_adjustment_draft` with its journal posted or not |
| `snapshot` | the statements with a row in `reconciliation_snapshot` |
| `CreateMatch`, `Unmatch` | 323 for payments, 321 for sales receipts |
| `RequestReversal`, `PostReversal` | 015, 016 with the trigger of 061 |
| `Start` | `refs_start_reconciliation` (063) |
| `Clear`, `Unclear` | `refs_set_reconciliation_clearance` as 403 leaves it (418 wraps it with the check of the receipt's actor) |
| `MakeDraft`, `PostDraft` | 067 as 178 and 180 rewrite it: an adjustment books one line, not the difference |
| `ClearAdjusted`, `UnclearAdjusted` | `refs_set_reconciliation_adjustment_clearance` (067) |
| `Review`, `SignOff`, `Reopen` | `refs_transition_reconciliation_adjustment_aware_385` as 400 leaves it, with the trigger of 067 on the drafts' authors |
| `Book(day)` | the posted ledger lines of the account up to a day |

The functions were redefined many times; each definition is mapped to the text that
is in force after all migrations.  A command is one SERIALIZABLE transaction, and
those that must not overlap take the account's advisory lock besides, so a command is
one action.  Row versions and receipts are left out: they refuse a repeated or
outdated request.  Currencies and the evidence rows of `source_link` repeat what the
commands that create a match or a draft established.  A journal date inside a
statement's window counts from the statement's end, the only day the ledger is read
at.  An adjustment's journal goes through the journal workflow; here it is posted or
not.

`SignedStatements` is the promise to whoever relies on the signed statements of an
account: they are a stack.  The mapping (`Statements`):

| Abstract | In the model |
|---|---|
| `signed` | the RECONCILED statements, each with its face (end, opening and ending balance), the sum of its items, their payments, reviewer and signer (`Certified`) |
| `withdrawn` | the face of a statement that is in the snapshots and not RECONCILED: the one that was reopened |
| `gone` | payments that are being or have been reversed (`Undone`) |
| `Sign`, `TakeOff`, `Undo` | `SignOff`, `Reopen`, `RequestReversal`; every other command is a stutter |

A signed statement's items, payments and signers are part of the abstract value, so
every stutter says that a command changed none of them.  `Sign` states the opening
balance, which only `Start` checks and long before, and that no payment backs
another statement, which no command checks by itself.

| Run | Instance | Checks |
|---|---|---|
| `statements` | two days, two lines of the same amount, one per day, a payment and a sales receipt that fit both, two matches, two statements, three actors, balances 0 to 2 | `TypeOK`, `SignedEvidenceStands`, `StatementsChain`, `SeparateHands`, `SharedLinesAdjusted`, `KeepsStatements` (refinement) |
| `statement_line_twice` | the same with one payment | `LineSignedOnce`, violated: see below |

Bounds: two statements are a predecessor and a successor, which either may become
again by reopening; equal amounts let lines, payments and adjustments stand in for
each other, which is where the counts of the transition could go wrong; two matches
let one be taken back and made again; three actors let drafter, reviewer and signer
be three or fewer.  Longer chains are covered by the proofs.  The system may stop when
everything is used up, so deadlock is not checked; nobody is obliged to act, so no
fairness is assumed.

`statement_line_twice` records a disagreement.  Clearance by a match refuses a line
that "belongs to a prior signed-off statement" (403:42).  An adjustment draft
(067:92) looks for a treatment of the line in its own statement only and does not ask
whether its date is covered by an earlier signed one; its clearance asks no more, and
review and sign-off compare the number of items with the number of lines in the window
(400:260).  So a line that was signed as an adjustment can be drafted, booked and signed
again, in the place of a line of the same amount that nobody treated.

`SharedLinesAdjusted` draws the exact boundary of this: a line that two signed
statements hold is in both as an adjustment.  It depends on `Unmatched`, the one
guard of the draft that looks beyond its own statement (067:100-101: no active match
of the line).  The run `statements` has states with such lines, since
`LineSignedOnce` fails in it as well.

Two more observations of the model are not runs (see the hazards): after 403 no line of
a matched sales receipt can be cleared, although 400 had added it and the sign-off
still accepts it; and a line that arrives while a statement is in review can be cleared
by a match only, with no way back to DRAFT for an adjustment.

### Proofs

`BankReconciliationProofs` proves, under `BankAssumption` and `BankNoneAssumption`:

- `BankTyped`: with `Dated` (an item or a draft is of a reported line no later than
  its statement's end) the type invariant is inductive (`Rows`).
- `EvidenceStands`: the sign-off found every item backed; afterwards the items of a
  signed statement stay (`Work`), and a match of such an item cannot be taken back nor
  its payment reversed, because `Dated` puts the line inside the dates that matching
  and unmatching refuse.
- `StatementsAddUp`: the sum is proved where it is signed and nothing touches it then.
  The book balance is never expanded: the argument does not depend on it.
- `HandsSeparate`: the signer's check never looks at the reviewer's drafts, so
  `ReviewedApart` is needed: from review on, the reviewer drafted nothing.
- `StatementsChained`: `Chained` adds that some statement ever signed is the latest,
  that every signed statement is in the snapshots, that an open one ends after all
  others that were ever signed, and that a new one opens where the latest ended.
- `PaymentsSignedOnce`: from `EvidenceStands` both matches are active, from `OneMatch`
  they are the same match and so the same line, and from `Later` (an item by match is
  of a day after every earlier signed statement) a line belongs to one statement only.
  `LineSignedOnce` fails where `Later` does not reach: at items without a match.
- `SharedLinesBookedTwice`: `Spec => []SharedLinesAdjusted`.  An item by match in one
  statement and an adjustment of the same line in another are excluded one way round
  by `Later`, the other by `DraftsApart`: a line a statement drafted is no matched item
  of a statement that ends before it and was ever signed.
- `ImplementsStatements`: `Spec => KeepsStatements`, from all invariants above
  (`StackInv`).  `SignOffMapped` is the sign-off: `Chained` puts the statement on top
  with the right opening balance, the invariants *after* the step give sum, evidence
  and disjoint payments.  `ReopenMapped` shows that the latest snapshot is the top of
  the stack.  `CertifiedKept` is the stutter: no other command touches a face, an item
  or a match behind a signed statement.

`SignedStatementAddsUp` and `PaymentSignedOnce` follow from `KeepsStatements`; they
are proved, and no run checks them by themselves.

## 8. AccountingPage

One tab of the authoritative application, with OIDC configured.  The page holds the
AP, AR and journal rows that five of its workspaces share, for one selected company
and period.  Nearly everything it does is asynchronous: a refresh, the callback of a
command that succeeded, the journal a workspace asked to be opened, the silent renewal
of the session.  Meanwhile the user navigates, selects another company, refreshes or
signs out.  `authoritative-read-guard.js` is what keeps the two apart.

| In the model | In the code |
|---|---|
| `phase`, `route`, `workflow`, `scope` | the state of the same names; `workflow` keeps the rows the open journal was picked from, `scope` is `selectedScope` or the configured one |
| `data`, `loaded` | the shared rows, as the scope they were read for and whether the guard let them in; `sharedAccountingLoaded` |
| `guard` | the generation and the latest request of each channel; `Begun`, `Revoked`, `MayBegin`, `IsCurrent` are its methods |
| `calls` | reads on their way, and commands whose callback will read, with the scope and the generation of the render they were started from |
| `granted`, `catalogued` | the scopes the server lets the actor read, and whether the page knows them |
| `session`, `renewing` | the one record in sessionStorage (a token or the pending login), a renewal in flight |
| `checked`, `overridden` | history: the release stamps matched; the user pressed Try again before that |
| `IdentityChecked`, `ReleaseChecked` | the effects at lines 537 and 289 with `bootstrapAuthoritativeIdentity`, `verifyAuthoritativeApiRelease` |
| `EnterAccounting`, `LoadShared`, `Fallback`, `CatalogRead` | the effects at lines 567, 572, 637 and 620 |
| `RefreshAnswered` ... `SettlementAnswered`, `NothingAnswered` | what follows each `await` (lines 475 to 529, 652, 668, 781), or that nothing does |
| `CommandDone`, `CommandDropped` | `onAccountingRefresh` of a workspace, called with the closure of the render its command was started from |
| `SessionRefused` | `requireAuthentication`: a 401, or no usable token |
| `RenewalStarted`, `RenewalAnswered`, `Expire` | `renewSilently` and `completeRenewal`, which reads the session again before it saves |
| the actions under `UserActs` | navigation, the address bar, company and period, refresh and Try again, opening and changing a journal, sign-out, sign-in, reload |

React runs the effects of a render before it hands over the next event, so a user acts
only when no such effect is due (`Act`).  Answers may come between any two steps.  A new
configuration object is made in every phase, which is why a settlement whose page
changed its phase is dropped (`Surviving`).

| Run | Instance | Checks |
|---|---|---|
| `page` | two periods of one company and one of another, any of them granted, three acts of the user, fairness | `TypeOK`, `ShownInScope`, `WorkflowInScope`, `LoadedIsWhole`, `ReleaseBeforeReads`, `SignedOutStays`, `LoadingEnds` |

Bounds: the three scopes are the selected one, one a settlement may move to, and one
only the user or the fallback selects.  Three acts start something, move the page on and
do a third thing before the answer; everything else the page does is unbounded.  The
safety properties hold for any number of acts by the proofs.  The system stops when the
acts are used up, so deadlock is not checked.

Fairness: `WF(EnterAccounting)`, since React runs an effect it owes, and `WF(CallEnds)`,
since a request is answered or given up by the browser in the end.  Nothing is asked of
the user, the identity provider or the renewal.  `LoadingEnds` uses both: a read that
the guard drops must have left another refresh behind.

What the properties had to be stated around, because the code does it:

- The AutoRec page's callback (line 781) reads without the guard, although
  `authoritative-read-guard.js:1-2` says each accounting read owns a generation.  Its
  late answer puts the rows of the company that was left under the selected one, until
  the next refresh.  In the model such rows carry `guarded |-> FALSE`, and
  `ShownInScope` and `WorkflowInScope` speak of the others.
- Try again on the release mismatch page (line 684) refreshes at once, while the comment
  at lines 285-288 says no reader starts until the stamps match: `overridden` in
  `ReleaseBeforeReads`.
- A sign-in started from the page that cannot be stored leaves the page at
  IDENTITY_FAILED with rows and calls kept; only LOGIN_REQUIRED clears and revokes.
- `refresh` and the callback of a command are channels of their own, so of two answers
  for one scope the older may overwrite the newer.  Both are of the right company; no
  property orders them.

Three corners of the page are simplified, and no property depends on them: an answer of
the identity provider in the address bar (`?code=`) while a token is still stored, a 401
during the release check, and the exact render whose callback settles late when the
generation has not changed since.

### Proofs

`AccountingPageProofs` proves, under `PageAssumption` only, everything but `LoadingEnds`,
from one invariant, `PageInv`.  The properties are not inductive: rows are wrong because
a call was let in long after it was started.  `PageInv` therefore says of every call
whose generation is still the guard's that it *belongs* to the page (`CallsSound`): its
scope is the selected one, nobody has signed out, and, if the page counts as loaded or
the call is an adjustment's, both parts of the bundle are there.  It is kept because
whatever changes the scope or clears the rows revokes the generation in the same step.
`Unverified` says that nothing is under way before the release check, and `LoadedSound`
that the flag is right except after a sign-out, which clears the rows and not the flag.

- `PageTyped`, `ScopesKeptApart` (`ShownInScope`), `WorkflowKeptApart`
  (`WorkflowInScope`), `NeverHalfLoaded`, `ReleaseComesFirst`: conjuncts or
  consequences of `PageInv`;
- `SignOutIsFinal`: `SignedOutStays`, since a signed-out page has no call that belongs to
  it, and a renewal saves only over a token it finds.

## 9. Not modelled, and why

The kernel's logic is SQL, and so is most of what the modules model.  The bulk of the
repository's JavaScript is presentation, read models, request validation and the
admission of evidence, which keep no state between calls that a model checker could
interleave; the parts that do (dispatch, consumption, attachments, recovery of
commands, the signed-in page) are modelled.

- Journals linked to business documents, assets or transfers: their triggers
  add guards of their own; they would come with their components.
- Balances of AP and AR documents, paired transfers, the recurring scheduler: next in
  the plan.
- Grants, contexts and deployment identity: every model lets every actor hold every
  permission, so its safety properties do not depend on them.
- Statements imported with a WBS receipt (092, 098), and the controlled-test batches.
- Decimal amounts, currencies, dimensions, hashes and layout of statements:
  data no property here distinguishes.
- Of the page: the workspaces' own reads and forms (each is dropped when its workspace
  unmounts), details and list views, the exchange with the identity provider, and the
  mode without login of the internal test deployment.
- WBS ingest, AI reviews, report reads and the demonstration ledgers: reads, or
  admission of evidence one delivery at a time.
- Row locks and their order: each command is atomic in the model; deadlocks
  between them are ended by PostgreSQL and retried by `withSerializableRetry`.
- Liveness under fairness and facts about sums over arbitrary sets are out of the
  proof system's reach here; the runs check the first, and the proofs are laid out so
  as not to need the second.
