------------------------- MODULE AttachmentEvidence -------------------------
(***************************************************************************)
(* Supporting documents of accounting entries: a row of the attachment     *)
(* table (migrations 003, 101, 303) and the versions of one object in a    *)
(* versioned store.  AttachmentEvidenceService                             *)
(* (server/runtime/attachment-storage.mjs) reserves a row and hands out a  *)
(* presigned URL, the browser puts bytes there, and finalization looks at  *)
(* the latest version, has that version scanned and records the verdict.   *)
(* AttachmentCleanupService deletes what was never finalized in time.      *)
(*                                                                         *)
(* Each database call is one transaction; everything between two calls may *)
(* interleave.  Time is abstracted: an upload window is open or closed,    *)
(* the lease of a cleanup claim ran out or not.  The web server's clock    *)
(* agrees with the database's.  A URL that outlives the window of its row  *)
(* may be used at any time.                                                *)
(***************************************************************************)
EXTENDS Integers, Sequences, FiniteSets

CONSTANTS
  Reservation,  \* upload requests: a route and an idempotency key
  ByRow,        \* those made for a payable row: no lookup comes first
  Object,       \* object keys of the store
  ObjectOf,     \* the key derived from tenant, entity and idempotency key
  File,         \* contents
  Infected,     \* files the virus scanner finds infected
  Call,         \* finalization requests in progress
  Sweep,        \* runs of the cleanup service in progress
  Limit,        \* rows one cleanup claim may take
  MaxUploads,   \* bound: versions ever put
  MaxFaults,    \* bound: failed calls, crashes and leases outlived by work
  None          \* SQL NULL, or nothing under way

ASSUME EvidenceAssumption ==
  /\ ByRow \subseteq Reservation
  /\ ObjectOf \in [Reservation -> Object]
  /\ Infected \subseteq File
  /\ Limit \in Nat \ {0}
  /\ MaxUploads \in Nat
  /\ MaxFaults \in Nat

VARIABLES
  attachment,  \* attachment rows
  asked,       \* requests whose lookup found no receipt, which may still go on
  urls,        \* presigned URLs that were handed out
  uploads,     \* every version ever put
  held,        \* the versions the store still has
  call,        \* what each finalization request is about to do
  sweep,       \* what each cleanup run claimed and is doing
  faults       \* failures so far

vars == <<attachment, asked, urls, uploads, held, call, sweep, faults>>
service == <<attachment, asked, urls, call>>
store == <<uploads, held>>

Version == Nat \ {0}
Upload == [object : Object, hash : File, file : File, late : BOOLEAN]
Url == [reservation : Reservation, outlives : BOOLEAN]
Claim == [reservation : Reservation, attempt : Nat \ {0}]
Failure == {"RETENTION", "STORAGE"}
Row ==
  [declares : File, status : {"PENDING", "VERIFIED_CLEAN", "REJECTED"},
   version : Version \cup {None}, requested : BOOLEAN, closed : BOOLEAN,
   cleanup : {"NONE", "PENDING", "COMPLETE", "FAILED", "RETAINED"}, attempt : Nat,
   stale : BOOLEAN]

ASSUME NoneAssumption ==
  None \notin Nat \cup Claim \cup Row \cup
    {"CLEAN", "INFECTED", "PENDING", "VERIFIED_CLEAN", "REJECTED"}

NewRow(file) ==
  [declares |-> file, status |-> "PENDING", version |-> None, requested |-> FALSE,
   closed |-> FALSE, cleanup |-> "NONE", attempt |-> 0, stale |-> FALSE]

Idle == [batch |-> {}, claim |-> None, at |-> "IDLE", todo |-> {}, failed |-> {}]

Init ==
  /\ attachment = [r \in Reservation |-> None]
  /\ asked = {}
  /\ urls = {}
  /\ uploads = <<>>
  /\ held = {}
  /\ call = [c \in Call |-> None]
  /\ sweep = [w \in Sweep |-> Idle]
  /\ faults = 0

Exists(r) == attachment[r] # None
Versions(o) == {i \in held : uploads[i].object = o}
Fault == faults < MaxFaults /\ faults' = faults + 1

-----------------------------------------------------------------------------
(* Reservation                                                             *)

(* refs_find_attachment_reservation finds no receipt, and the service goes *)
(* on to reserve; the payable route never asks.  Any number of requests    *)
(* with one key may look before the first of them reserves.                *)
Ask(r) ==
  /\ r \notin ByRow
  /\ ~Exists(r)
  /\ asked' = asked \cup {r}
  /\ UNCHANGED <<attachment, urls, store, call, sweep, faults>>

(* UNIQUE (tenant_id, storage_ref, storage_version): all rows of one       *)
(* object carry the same pending version until they are verified.          *)
KeyFree(r) ==
  \A s \in Reservation :
    Exists(s) /\ ObjectOf[s] = ObjectOf[r] => attachment[s].status = "VERIFIED_CLEAN"

(* The answer with the URL may be lost.                                    *)
HandOut(url) == urls' \in {urls, urls \cup {url}}

(* refs_reserve_attachment by the first request of a key, which declares   *)
(* the hash of the file.  The URL was presigned before the row's deadline  *)
(* was set: it does not outlive it.                                        *)
Reserve(r, file) ==
  /\ r \in asked \cup ByRow
  /\ ~Exists(r) /\ KeyFree(r)
  /\ attachment' = [attachment EXCEPT ![r] = NewRow(file)]
  /\ HandOut([reservation |-> r, outlives |-> FALSE])
  /\ UNCHANGED <<asked, store, call, sweep, faults>>

(* A request that looked before the first one committed, or any repetition *)
(* on the payable route: the receipt answers whatever became of the row,   *)
(* and the URL presigned for this request lives its full time.  (One that  *)
(* declares another file is refused.)                                      *)
ReserveAgain(r) ==
  /\ Exists(r)
  /\ r \in asked \cup ByRow
  /\ HandOut([reservation |-> r, outlives |-> TRUE])
  /\ UNCHANGED <<attachment, asked, store, call, sweep, faults>>

(* The lookup found the row: the lifetime of the URL is cut to what is     *)
(* left of the row's window, however long the service took in between.     *)
Resume(r) ==
  /\ r \notin ByRow
  /\ Exists(r)
  /\ attachment[r].status = "PENDING"
  /\ attachment[r].cleanup = "NONE"
  /\ ~attachment[r].closed
  /\ urls' = urls \cup {[reservation |-> r, outlives |-> FALSE]}
  /\ UNCHANGED <<attachment, asked, store, call, sweep, faults>>

(* PUT with the signed hash in the metadata and any bytes; a version that  *)
(* arrives when the window of its URL's reservation is over is late.       *)
Put(url, file) ==
  /\ url \in urls
  /\ url.outlives \/ ~attachment[url.reservation].closed
  /\ Len(uploads) < MaxUploads
  /\ uploads' = Append(uploads,
       [object |-> ObjectOf[url.reservation],
        hash |-> attachment[url.reservation].declares, file |-> file,
        late |-> attachment[url.reservation].closed])
  /\ held' = held \cup {Len(uploads) + 1}
  /\ UNCHANGED <<service, sweep, faults>>

-----------------------------------------------------------------------------
(* Faulty variants for mutation testing.                                   *)

Verified_Bare(row, version) == [row EXCEPT !.status = "VERIFIED_CLEAN"]
BridgeVerdict_Trusting(i) ==
  IF uploads[i].file \in Infected THEN {"INFECTED"} ELSE {"CLEAN"}
Claimable_InWindow(r) ==
  /\ Exists(r)
  /\ attachment[r].status = "PENDING"
  /\ attachment[r].cleanup \in {"NONE", "FAILED", "RETAINED"} \/ attachment[r].stale
Claimable_NotStale(r) ==
  /\ Exists(r)
  /\ attachment[r].status = "PENDING" /\ attachment[r].closed
  /\ attachment[r].cleanup \in {"NONE", "FAILED", "RETAINED"}
PurgeOutcome_NotVerified(w) == "DELETED"
OwnsClaim_Anyone(c) ==
  attachment[c.reservation].status = "PENDING"
    /\ attachment[c.reservation].cleanup = "PENDING"

-----------------------------------------------------------------------------
(* Finalization                                                            *)

Pending(r) == Exists(r) /\ attachment[r].status = "PENDING"

(* refs_request_attachment_finalize: the first request needs an open       *)
(* window, its repetition finds the receipt.                               *)
RequestFinalize(c, r) ==
  /\ call[c] = None
  /\ Pending(r)
  /\ attachment[r].requested \/ ~attachment[r].closed
  /\ attachment' = [attachment EXCEPT ![r].requested = TRUE]
  /\ call' = [call EXCEPT ![c] =
       [reservation |-> r, version |-> None, verdict |-> None]]
  /\ UNCHANGED <<asked, urls, store, sweep, faults>>

Latest(o) == {i \in Versions(o) : \A j \in Versions(o) : j <= i}

(* storage.inspect: HEAD of the object's latest version.                   *)
Inspect(c) ==
  /\ call[c] # None /\ call[c].version = None
  /\ LET o == ObjectOf[call[c].reservation]
     IN \/ /\ Versions(o) = {}
           /\ call' = [call EXCEPT ![c] = None]
        \/ \E i \in Latest(o) : call' = [call EXCEPT ![c].version = i]
  /\ UNCHANGED <<attachment, asked, urls, store, sweep, faults>>

(* The bridge reads the bytes of that version and refuses to give any      *)
(* verdict unless they have the hash of its metadata.                      *)
BridgeVerdict(i) ==
  IF uploads[i].file # uploads[i].hash THEN {}
  ELSE IF uploads[i].file \in Infected THEN {"INFECTED"} ELSE {"CLEAN"}

Scan(c) ==
  /\ call[c] # None /\ call[c].version # None /\ call[c].verdict = None
  /\ LET i == call[c].version
     IN IF i \in held /\ BridgeVerdict(i) # {}
          THEN \E verdict \in BridgeVerdict(i) :
                 call' = [call EXCEPT ![c].verdict = verdict]
          ELSE call' = [call EXCEPT ![c] = None]
  /\ UNCHANGED <<attachment, asked, urls, store, sweep, faults>>

(* The scanned version has the size, type and hash the row declares.       *)
Accepts(r, seen) == seen.verdict = "CLEAN" /\ seen.hash = attachment[r].declares

Verified(row, version) == [row EXCEPT !.status = "VERIFIED_CLEAN", !.version = version]
VersionTaken(r, version) ==
  \E s \in Reservation : Exists(s) /\ ObjectOf[s] = ObjectOf[r] /\ attachment[s].version = version

(* refs_finalize_attachment: too late, or another row already has this     *)
(* version of the object, is an error; anything else is a final verdict.   *)
Finalize(c) ==
  /\ call[c] # None /\ call[c].verdict # None
  /\ LET r == call[c].reservation
         i == call[c].version
         seen == [verdict |-> call[c].verdict, hash |-> uploads[i].hash]
     IN attachment' =
          IF ~Pending(r) \/ attachment[r].closed THEN attachment
          ELSE IF ~Accepts(r, seen) THEN [attachment EXCEPT ![r].status = "REJECTED"]
          ELSE IF VersionTaken(r, i) THEN attachment
          ELSE [attachment EXCEPT ![r] = Verified(@, i)]
  /\ call' = [call EXCEPT ![c] = None]
  /\ UNCHANGED <<asked, urls, store, sweep, faults>>

(* The scanner or the store does not answer, or the server dies.           *)
CallFails(c) ==
  /\ call[c] # None
  /\ Fault
  /\ call' = [call EXCEPT ![c] = None]
  /\ UNCHANGED <<attachment, asked, urls, store, sweep>>

-----------------------------------------------------------------------------
(* Cleanup                                                                 *)

Claimable(r) ==
  /\ Exists(r)
  /\ attachment[r].status = "PENDING" /\ attachment[r].closed
  /\ attachment[r].cleanup \in {"NONE", "FAILED", "RETAINED"} \/ attachment[r].stale

(* refs_claim_expired_attachments.  A claim has a token of its own; the    *)
(* attempt count tells the claims of a row apart as well.                  *)
ClaimExpired(w, rows) ==
  /\ sweep[w] = Idle
  /\ rows # {} /\ Cardinality(rows) <= Limit
  /\ \A r \in rows : Claimable(r)
  /\ attachment' = [r \in Reservation |->
       IF r \notin rows THEN attachment[r]
       ELSE [attachment[r] EXCEPT !.cleanup = "PENDING", !.attempt = @ + 1,
                                  !.stale = FALSE]]
  /\ sweep' = [sweep EXCEPT ![w].batch =
       {[reservation |-> r, attempt |-> attachment[r].attempt + 1] : r \in rows}]
  /\ UNCHANGED <<asked, urls, store, call, faults>>

(* purgeAllVersions begins with a listing.                                 *)
Purge(w, c) ==
  /\ sweep[w].at = "IDLE" /\ c \in sweep[w].batch
  /\ sweep' = [sweep EXCEPT ![w] =
       [batch |-> @.batch \ {c}, claim |-> c, at |-> "DELETE",
        todo |-> Versions(ObjectOf[c.reservation]), failed |-> {}]]
  /\ UNCHANGED <<service, store, faults>>

(* One DELETE: the version is gone, perhaps already, or the store refuses  *)
(* and the next one is tried all the same.                                 *)
Delete(w, i) ==
  /\ sweep[w].at = "DELETE" /\ i \in sweep[w].todo
  /\ \/ /\ held' = held \ {i}
        /\ sweep' = [sweep EXCEPT ![w].todo = @ \ {i}]
        /\ UNCHANGED faults
     \/ /\ Fault
        /\ \E failure \in Failure :
             sweep' = [sweep EXCEPT ![w].todo = @ \ {i}, ![w].failed = @ \cup {failure}]
        /\ UNCHANGED held
  /\ UNCHANGED <<service, uploads>>

(* The second listing must be empty and no deletion may have failed.       *)
PurgeOutcome(w) ==
  LET left == Versions(ObjectOf[sweep[w].claim.reservation])
  IN CASE sweep[w].failed = {} /\ left = {} -> "DELETED"
       [] "RETENTION" \in sweep[w].failed -> "RETENTION"
       [] OTHER -> "STORAGE"

VerifyEmpty(w) ==
  /\ sweep[w].at = "DELETE" /\ sweep[w].todo = {}
  /\ sweep' = [sweep EXCEPT ![w].at = PurgeOutcome(w)]
  /\ UNCHANGED <<service, store, faults>>

(* A listing fails.                                                        *)
PurgeFails(w) ==
  /\ sweep[w].at = "DELETE"
  /\ Fault
  /\ sweep' = [sweep EXCEPT ![w].at = "STORAGE"]
  /\ UNCHANGED <<service, store>>

OwnsClaim(c) ==
  LET row == attachment[c.reservation]
  IN row.status = "PENDING" /\ row.cleanup = "PENDING" /\ row.attempt = c.attempt

CompleteRow(row, outcome) ==
  IF outcome = "DELETED"
    THEN [row EXCEPT !.cleanup = "COMPLETE", !.status = "REJECTED", !.stale = FALSE]
    ELSE [row EXCEPT !.cleanup = IF outcome = "RETENTION" THEN "RETAINED" ELSE "FAILED",
                     !.stale = FALSE]

Record(w) ==
  LET c == sweep[w].claim
  IN attachment' = [attachment EXCEPT ![c.reservation] = CompleteRow(@, sweep[w].at)]

Done(w) == [Idle EXCEPT !.batch = sweep[w].batch]
Completing(w) == sweep[w].at \in Failure \cup {"DELETED"}

(* refs_complete_attachment_cleanup.  If the claim is another run's by now *)
(* the call fails, so does the one that reports the failure, and the rest  *)
(* of the batch is dropped.                                                *)
Complete(w) ==
  /\ Completing(w)
  /\ IF OwnsClaim(sweep[w].claim)
       THEN Record(w) /\ sweep' = [sweep EXCEPT ![w] = Done(w)]
       ELSE sweep' = [sweep EXCEPT ![w] = Idle] /\ UNCHANGED attachment
  /\ UNCHANGED <<asked, urls, store, call, faults>>

(* The completion is lost on its way: a deletion is then reported as a     *)
(* storage failure, while a lost failure report ends the run.              *)
CompletionLost(w) ==
  /\ Completing(w)
  /\ Fault
  /\ sweep' = IF sweep[w].at = "DELETED" THEN [sweep EXCEPT ![w].at = "STORAGE"]
                                         ELSE [sweep EXCEPT ![w] = Idle]
  /\ UNCHANGED <<service, store>>

(* Its answer is lost: the report of a failure that follows a recorded     *)
(* deletion is refused.                                                    *)
AnswerLost(w) ==
  /\ Completing(w)
  /\ OwnsClaim(sweep[w].claim)
  /\ Fault
  /\ Record(w)
  /\ sweep' = [sweep EXCEPT ![w] = Idle]
  /\ UNCHANGED <<asked, urls, store, call>>

SweepDies(w) ==
  /\ sweep[w] # Idle
  /\ Fault
  /\ sweep' = [sweep EXCEPT ![w] = Idle]
  /\ UNCHANGED <<service, store>>

-----------------------------------------------------------------------------
(* Time                                                                    *)

WindowCloses(r) ==
  /\ Exists(r) /\ ~attachment[r].closed
  /\ attachment' = [attachment EXCEPT ![r].closed = TRUE]
  /\ UNCHANGED <<asked, urls, store, call, sweep, faults>>

Claims(w) == sweep[w].batch \cup IF sweep[w].claim = None THEN {} ELSE {sweep[w].claim}
UnderWay(r) ==
  \E w \in Sweep : [reservation |-> r, attempt |-> attachment[r].attempt] \in Claims(w)

(* Five minutes after the claim; while the run still works on it, that is  *)
(* a fault.                                                                *)
LeaseRunsOut(r) ==
  /\ Exists(r)
  /\ attachment[r].cleanup = "PENDING" /\ ~attachment[r].stale
  /\ attachment' = [attachment EXCEPT ![r].stale = TRUE]
  /\ UNCHANGED <<asked, urls, store, call, sweep>>

AbandonedLease(r) == LeaseRunsOut(r) /\ ~UnderWay(r) /\ UNCHANGED faults
OutlivedLease(r) == LeaseRunsOut(r) /\ UnderWay(r) /\ Fault

-----------------------------------------------------------------------------
(* Specification                                                           *)

Client(r) ==
  \/ Ask(r)
  \/ \E file \in File : Reserve(r, file)
  \/ ReserveAgain(r)
  \/ Resume(r)

Finalization(c) ==
  \/ \E r \in Reservation : RequestFinalize(c, r)
  \/ Inspect(c)
  \/ Scan(c)
  \/ Finalize(c)

(* AttachmentCleanupWorker starts the next cycle when a consumer failed,   *)
(* without waiting for the others: runs of one scope may overlap.          *)
RunOnce(w) ==
  \/ \E rows \in SUBSET Reservation : ClaimExpired(w, rows)
  \/ \E c \in sweep[w].batch : Purge(w, c)
  \/ \E i \in sweep[w].todo : Delete(w, i)
  \/ VerifyEmpty(w)
  \/ Complete(w)

RunFails(w) == PurgeFails(w) \/ CompletionLost(w) \/ AnswerLost(w) \/ SweepDies(w)

Passage(r) == WindowCloses(r) \/ AbandonedLease(r)

Next ==
  \/ \E r \in Reservation : Client(r) \/ Passage(r) \/ OutlivedLease(r)
  \/ \E url \in urls, file \in File : Put(url, file)
  \/ \E c \in Call : Finalization(c) \/ CallFails(c)
  \/ \E w \in Sweep : RunOnce(w) \/ RunFails(w)

Spec == Init /\ [][Next]_vars

(* Time passes and the worker's loop runs the service again and again.     *)
(* Nobody has to upload or finalize anything.                              *)
Fairness ==
  /\ \A r \in Reservation : WF_vars(Passage(r))
  /\ \A w \in Sweep : WF_vars(RunOnce(w))

FairSpec == Spec /\ Fairness

-----------------------------------------------------------------------------
(* Properties                                                              *)

(* Rows, versions, requests and runs are of their types, a row names a     *)
(* version exactly if it is verified, and only versions once put are held. *)
TypeOK ==
  /\ attachment \in [Reservation -> Row \cup {None}]
  /\ asked \subseteq Reservation
  /\ urls \subseteq Url
  /\ uploads \in Seq(Upload)
  /\ held \subseteq DOMAIN uploads
  /\ call \in [Call -> [reservation : Reservation, version : Version \cup {None},
                        verdict : {"CLEAN", "INFECTED", None}] \cup {None}]
  /\ sweep \in [Sweep -> [batch : SUBSET Claim, claim : Claim \cup {None},
                          at : {"IDLE", "DELETE", "DELETED"} \cup Failure,
                          todo : SUBSET Version, failed : SUBSET Failure]]
  /\ faults \in 0..MaxFaults
  /\ \A url \in urls : Exists(url.reservation)
  /\ \A r \in Reservation :
       Exists(r) => /\ attachment[r].status = "VERIFIED_CLEAN" <=> attachment[r].version # None
                    /\ attachment[r].version # None => attachment[r].version \in DOMAIN uploads

(* What was verified stays: whatever cleanup runs were under way while the *)
(* scan came in, and whatever they listed before, no run deletes the       *)
(* version an accounting entry is going to rest on.                        *)
EvidenceKept ==
  \A r \in Reservation :
    Exists(r) /\ attachment[r].status = "VERIFIED_CLEAN" => attachment[r].version \in held

(* The verified version has the content its reservation declared, and the  *)
(* scanner looked at exactly that content, although the uploader may put   *)
(* other bytes under the same key before, while and after it is scanned.   *)
EvidenceIsDeclared ==
  \A r \in Reservation :
    Exists(r) /\ attachment[r].status = "VERIFIED_CLEAN" =>
      LET version == uploads[attachment[r].version]
      IN version.file = attachment[r].declares /\ version.file \notin Infected

(* A row recorded as cleaned left nothing in the store but what a URL that *)
(* outlives the window brought in afterwards.                              *)
CleanedLeavesNothing ==
  \A r \in Reservation :
    Exists(r) /\ attachment[r].cleanup = "COMPLETE" =>
      \A i \in Versions(ObjectOf[r]) : uploads[i].late

(* A cleanup result is recorded by the run that holds the row's current    *)
(* claim: a run that lost its lease neither closes nor reopens the row.    *)
SettledByItsClaim ==
  [][\A r \in Reservation :
       /\ Exists(r)
       /\ attachment[r].cleanup = "PENDING" /\ attachment'[r].cleanup # "PENDING"
       => \E w \in Sweep :
            /\ sweep[w].claim =
                 [reservation |-> r, attempt |-> attachment[r].attempt]
            /\ sweep'[w].claim = None]_vars

(* The vault the rows and the store add up to: how a row stands, what it   *)
(* declares, the version it was verified with, and of the versions of its  *)
(* object those that came in time.                                         *)
Deposit(i) == [id |-> i, file |-> uploads[i].file]
InTime(r) == {i \in Versions(ObjectOf[r]) : ~uploads[i].late}
Standing(r) ==
  IF ~Exists(r) THEN None
  ELSE IF attachment[r].status = "REJECTED" /\ attachment[r].cleanup = "COMPLETE"
    THEN "CLEANED"
    ELSE attachment[r].status
Declared(r) == IF Exists(r) THEN attachment[r].declares ELSE None
Evidence(r) ==
  IF Exists(r) /\ attachment[r].version # None
    THEN Deposit(attachment[r].version)
    ELSE None

Vault == INSTANCE EvidenceVault WITH
  status <- [r \in Reservation |-> Standing(r)],
  declares <- [r \in Reservation |-> Declared(r)],
  evidence <- [r \in Reservation |-> Evidence(r)],
  stock <- [r \in Reservation |-> {Deposit(i) : i \in InTime(r)}]

(* The service keeps the vault EvidenceVault describes, whatever bytes are *)
(* put under a key and whichever calls, runs and leases overlap: what is   *)
(* verified was declared, is clean, was there at that moment and is never  *)
(* deleted; what is recorded as cleaned had nothing left of its time.      *)
KeepsEvidence == Vault!Spec

(* Every reservation is verified, rejected or cleaned in the end, although *)
(* uploads may never come, runs may die and deletions may fail.            *)
EveryUploadSettles ==
  \A r \in Reservation : Exists(r) ~> Exists(r) /\ attachment[r].status # "PENDING"
=============================================================================
