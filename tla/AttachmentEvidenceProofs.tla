----------------------- MODULE AttachmentEvidenceProofs -----------------------
(***************************************************************************)
(* Proofs about AttachmentEvidence: for any requests, files, finalization  *)
(* calls, cleanup runs and any number of faults.                           *)
(***************************************************************************)
EXTENDS AttachmentEvidence, TLAPS

-----------------------------------------------------------------------------
(* The inductive invariant                                                 *)

Linked(row, put) ==
  /\ row.status = "VERIFIED_CLEAN" <=> row.version # None
  /\ row.version # None => row.version \in put

(* A row moves on only: it keeps what it declares, does not open its       *)
(* window again, is not verified when the window is over, and keeps its    *)
(* version once it is verified.                                            *)
Follows(old, new) ==
  /\ new.declares = old.declares
  /\ old.closed => new.closed
  /\ old.closed /\ old.status # "VERIFIED_CLEAN" => new.status # "VERIFIED_CLEAN"
  /\ old.status = "VERIFIED_CLEAN" =>
       new.status = "VERIFIED_CLEAN" /\ new.version = old.version

(* Versions are put, never changed.                                        *)
Growing ==
  /\ DOMAIN uploads \subseteq DOMAIN uploads'
  /\ \A i \in DOMAIN uploads : uploads'[i] = uploads[i]

(* What a finalization request knows: a version it looked at was put, and  *)
(* one found clean has the bytes its hash says.                            *)
CallSound(c) ==
  call[c] # None =>
    /\ Exists(call[c].reservation)
    /\ call[c].version # None => call[c].version \in DOMAIN uploads
    /\ call[c].verdict # None => call[c].version # None
    /\ call[c].verdict = "CLEAN" =>
         /\ uploads[call[c].version].file = uploads[call[c].version].hash
         /\ uploads[call[c].version].file \notin Infected

(* A cleanup run works on rows whose window is over and that were not      *)
(* verified, which they cannot be any more, and deletes their object only. *)
Expired(r) ==
  Exists(r) /\ attachment[r].closed /\ attachment[r].status # "VERIFIED_CLEAN"

SweepSound(w) ==
  /\ sweep[w].claim = None <=> sweep[w].at = "IDLE"
  /\ \A c \in sweep[w].batch : Expired(c.reservation)
  /\ sweep[w].claim # None => Expired(sweep[w].claim.reservation)
  /\ sweep[w].at = "DELETE" =>
       \A i \in sweep[w].todo :
         /\ i \in DOMAIN uploads
         /\ uploads[i].object = ObjectOf[sweep[w].claim.reservation]

EvidenceInv ==
  /\ TypeOK
  /\ \A c \in Call : CallSound(c)
  /\ \A w \in Sweep : SweepSound(w)
  /\ EvidenceIsDeclared

-----------------------------------------------------------------------------
(* What every step does to the rows                                        *)

RowsMove ==
  /\ attachment' \in [Reservation -> Row \cup {None}]
  /\ \A r \in Reservation :
       Exists(r) => Exists(r)' /\ Follows(attachment[r], attachment'[r])
  /\ \A r \in Reservation : Exists(r)' => Linked(attachment'[r], DOMAIN uploads')

LEMMA RowsTyped ==
  ASSUME TypeOK
  PROVE  /\ attachment \in [Reservation -> Row \cup {None}]
         /\ \A r \in Reservation : Exists(r) => attachment[r] \in Row /\ Linked(attachment[r], DOMAIN uploads)
  BY DEF TypeOK, Exists, Linked

LEMMA OneRowMoves ==
  ASSUME TypeOK, UNCHANGED uploads,
         NEW r \in Reservation, Exists(r),
         NEW row \in Row, Linked(row, DOMAIN uploads), Follows(attachment[r], row),
         attachment' = [attachment EXCEPT ![r] = row]
  PROVE  RowsMove
<1>1. /\ attachment' \in [Reservation -> Row \cup {None}]
      /\ attachment'[r] = row
      /\ \A s \in Reservation : s # r => attachment'[s] = attachment[s]
  BY RowsTyped
<1>2. \A s \in Reservation : s # r /\ Exists(s) => Linked(attachment[s], DOMAIN uploads)
  BY RowsTyped
<1>3. Linked(row, DOMAIN uploads') /\ row # None
  BY NoneAssumption DEF Linked
<1>4. ASSUME NEW s \in Reservation
      PROVE  Exists(s) => Exists(s)' /\ Follows(attachment[s], attachment'[s])
  BY <1>1, <1>3 DEF Exists, Follows
<1>5. ASSUME NEW s \in Reservation, Exists(s)'
      PROVE  Linked(attachment'[s], DOMAIN uploads')
  BY <1>1, <1>2, <1>3, <1>5 DEF Exists, Linked
<1>. QED  BY <1>1, <1>4, <1>5 DEF RowsMove

LEMMA RowsStay ==
  ASSUME TypeOK, UNCHANGED attachment, DOMAIN uploads \subseteq DOMAIN uploads'
  PROVE  RowsMove
<1>1. \A r \in Reservation : Exists(r)' => Linked(attachment'[r], DOMAIN uploads')
  BY RowsTyped DEF Exists, Linked
<1>. QED  BY <1>1, RowsTyped DEF RowsMove, Exists, Follows

LEMMA ReserveMoves ==
  ASSUME TypeOK, NEW r \in Reservation, NEW file \in File, Reserve(r, file)
  PROVE  RowsMove
<1>1. /\ NewRow(file) \in Row
      /\ NewRow(file).status # "VERIFIED_CLEAN" /\ NewRow(file).version = None
  BY DEF NewRow, Row
<1>2. uploads' = uploads /\ attachment' = [attachment EXCEPT ![r] = NewRow(file)]
  BY DEF Reserve, store
<1>3. /\ attachment' \in [Reservation -> Row \cup {None}]
      /\ attachment'[r] = NewRow(file)
      /\ \A s \in Reservation : s # r => attachment'[s] = attachment[s]
  BY <1>1, <1>2, RowsTyped
<1>4. ASSUME NEW s \in Reservation
      PROVE  Exists(s) => Exists(s)' /\ Follows(attachment[s], attachment'[s])
  BY <1>3 DEF Exists, Follows, Reserve
<1>5. ASSUME NEW s \in Reservation, Exists(s)'
      PROVE  Linked(attachment'[s], DOMAIN uploads')
  <2>1. s = r => Linked(attachment'[s], DOMAIN uploads')
    BY <1>1, <1>3 DEF Linked
  <2>2. s # r => Linked(attachment'[s], DOMAIN uploads')
    BY <1>2, <1>3, <1>5, RowsTyped DEF Linked, Exists
  <2>. QED  BY <2>1, <2>2 DEF Linked
<1>. QED  BY <1>3, <1>4, <1>5 DEF RowsMove

LEMMA FinalizationMoves ==
  ASSUME EvidenceInv, NEW c \in Call, Finalization(c)
  PROVE  RowsMove
<1>. USE DEF EvidenceInv
<1>1. ASSUME NEW r \in Reservation, RequestFinalize(c, r)
      PROVE  RowsMove
  <2>. DEFINE row == [attachment[r] EXCEPT !.requested = TRUE]
  <2>1. attachment[r] \in Row /\ Linked(attachment[r], DOMAIN uploads) /\ Exists(r)
    BY <1>1, RowsTyped DEF RequestFinalize, Pending
  <2>2. row \in Row /\ Linked(row, DOMAIN uploads) /\ Follows(attachment[r], row)
    BY <2>1 DEF Row, Linked, Follows
  <2>3. uploads' = uploads /\ attachment' = [attachment EXCEPT ![r] = row]
    BY <1>1 DEF RequestFinalize, store
  <2>. HIDE DEF row
  <2>. QED  BY <2>1, <2>2, <2>3, OneRowMoves
<1>2. CASE Inspect(c) \/ Scan(c)
  BY <1>2, RowsStay DEF Inspect, Scan, store
<1>3. CASE Finalize(c)
  <2>. DEFINE r == call[c].reservation
              i == call[c].version
              seen == [verdict |-> call[c].verdict, hash |-> uploads[i].hash]
              rejected == [attachment[r] EXCEPT !.status = "REJECTED"]
              verified == Verified(attachment[r], i)
  <2>1. /\ r \in Reservation
        /\ Exists(r) /\ attachment[r] \in Row /\ Linked(attachment[r], DOMAIN uploads)
        /\ i \in DOMAIN uploads /\ i \in Version /\ i # None
    <3>1. call[c] \in [reservation : Reservation, version : Version \cup {None},
                       verdict : {"CLEAN", "INFECTED", None}]
      BY <1>3 DEF Finalize, TypeOK
    <3>2. r \in Reservation /\ Exists(r) /\ i # None /\ i \in DOMAIN uploads
      BY <1>3, <3>1 DEF Finalize, CallSound
    <3>. QED  BY <3>1, <3>2, RowsTyped
  <2>2. uploads' = uploads
    BY <1>3 DEF Finalize, store
  <2>3. \/ attachment' = attachment
        \/ /\ Pending(r) /\ ~attachment[r].closed
           /\ \/ attachment' = [attachment EXCEPT ![r] = rejected]
              \/ attachment' = [attachment EXCEPT ![r] = verified]
    BY <1>3 DEF Finalize
  <2>4. CASE attachment' = attachment
    BY <2>2, <2>4, RowsStay
  <2>5. CASE Pending(r) /\ ~attachment[r].closed
             /\ attachment' = [attachment EXCEPT ![r] = rejected]
    <3>1. rejected \in Row /\ Linked(rejected, DOMAIN uploads) /\ Follows(attachment[r], rejected)
      BY <2>1, <2>5 DEF Row, Linked, Follows, Pending
    <3>. HIDE DEF rejected, r
    <3>. QED  BY <3>1, <2>1, <2>2, <2>5, OneRowMoves
  <2>6. CASE Pending(r) /\ ~attachment[r].closed
             /\ attachment' = [attachment EXCEPT ![r] = verified]
    <3>1. verified \in Row /\ Linked(verified, DOMAIN uploads) /\ Follows(attachment[r], verified)
      BY <2>1, <2>6 DEF Row, Linked, Follows, Pending, Verified
    <3>. HIDE DEF verified, r
    <3>. QED  BY <3>1, <2>1, <2>2, <2>6, OneRowMoves
  <2>. HIDE DEF r
  <2>. QED  BY <2>3, <2>4, <2>5, <2>6
<1>. QED  BY <1>1, <1>2, <1>3 DEF Finalization

LEMMA RecordMoves ==
  ASSUME EvidenceInv, NEW w \in Sweep, Completing(w), OwnsClaim(sweep[w].claim),
         Record(w), UNCHANGED uploads
  PROVE  RowsMove
<1>. DEFINE r == sweep[w].claim.reservation
            row == CompleteRow(attachment[r], sweep[w].at)
<1>1. r \in Reservation /\ Exists(r) /\ attachment[r] \in Row /\ Linked(attachment[r], DOMAIN uploads)
  BY RowsTyped
     DEF EvidenceInv, TypeOK, SweepSound, Completing, Expired, Claim, Failure
<1>2. row \in Row /\ Linked(row, DOMAIN uploads) /\ Follows(attachment[r], row)
  BY <1>1 DEF OwnsClaim, CompleteRow, Row, Linked, Follows
<1>3. attachment' = [attachment EXCEPT ![r] = row]
  BY DEF Record
<1>. HIDE DEF r, row
<1>. QED  BY <1>1, <1>2, <1>3, OneRowMoves DEF EvidenceInv

LEMMA ClaimMoves ==
  ASSUME EvidenceInv, NEW w \in Sweep, NEW rows \in SUBSET Reservation, ClaimExpired(w, rows)
  PROVE  RowsMove
<1>. DEFINE row(r) == [attachment[r] EXCEPT !.cleanup = "PENDING", !.attempt = @ + 1,
                                            !.stale = FALSE]
<1>0. \A r \in rows :
        Exists(r) /\ attachment[r] \in Row /\ Linked(attachment[r], DOMAIN uploads)
  BY RowsTyped DEF EvidenceInv, ClaimExpired, Claimable
<1>1. ASSUME NEW r \in rows
      PROVE  /\ Exists(r) /\ attachment[r] \in Row
             /\ row(r) \in Row /\ Linked(row(r), DOMAIN uploads)
             /\ Follows(attachment[r], row(r))
  <2>1. attachment[r].attempt + 1 \in Nat
    BY <1>0 DEF Row
  <2>2. row(r) \in Row
    BY <1>0, <2>1 DEF Row
  <2>3. Linked(row(r), DOMAIN uploads) /\ Follows(attachment[r], row(r))
    BY <1>0 DEF Row, Linked, Follows
  <2>. QED  BY <1>0, <2>2, <2>3
<1>2. uploads' = uploads
  BY DEF ClaimExpired, store
<1>3. \A r \in Reservation : attachment'[r] = IF r \in rows THEN row(r) ELSE attachment[r]
  BY DEF ClaimExpired
<1>4. attachment' \in [Reservation -> Row \cup {None}]
  BY <1>1, RowsTyped DEF ClaimExpired, EvidenceInv
<1>5. \A r \in rows : row(r) # None
  BY <1>1, NoneAssumption
<1>. HIDE DEF row
<1>6. ASSUME NEW r \in Reservation
      PROVE  Exists(r) => Exists(r)' /\ Follows(attachment[r], attachment'[r])
  BY <1>1, <1>3, <1>5 DEF Exists, Follows
<1>7. ASSUME NEW r \in Reservation, Exists(r)'
      PROVE  Linked(attachment'[r], DOMAIN uploads')
  BY <1>1, <1>2, <1>3, <1>7, RowsTyped DEF EvidenceInv, Exists, Linked
<1>. QED  BY <1>4, <1>6, <1>7 DEF RowsMove

LEMMA PutGrows ==
  ASSUME TypeOK, NEW url \in urls, NEW file \in File, Put(url, file)
  PROVE  /\ uploads' \in Seq(Upload)
         /\ held' \subseteq DOMAIN uploads'
         /\ Growing
<1>. DEFINE r == url.reservation
            new == [object |-> ObjectOf[r], hash |-> attachment[r].declares,
                    file |-> file, late |-> attachment[r].closed]
<1>1. r \in Reservation /\ attachment[r] \in Row
  BY RowsTyped DEF TypeOK, Url
<1>2. new \in Upload
  BY <1>1, EvidenceAssumption DEF Row, Upload
<1>3. uploads \in Seq(Upload) /\ uploads' = Append(uploads, new)
  BY DEF Put, TypeOK
<1>. HIDE DEF new
<1>4. /\ uploads' \in Seq(Upload)
      /\ DOMAIN uploads = 1..Len(uploads) /\ DOMAIN uploads' = 1..(Len(uploads) + 1)
      /\ \A i \in 1..Len(uploads) : uploads'[i] = uploads[i]
  BY <1>2, <1>3
<1>5. Len(uploads) \in Nat
  BY <1>3
<1>. QED  BY <1>4, <1>5 DEF Put, TypeOK, Growing

LEMMA SweepKeepsUploads ==
  ASSUME NEW w \in Sweep, RunOnce(w) \/ RunFails(w)
  PROVE  uploads' = uploads /\ held' \subseteq held
  BY DEF RunOnce, RunFails, ClaimExpired, Purge, Delete, VerifyEmpty, Complete, PurgeFails,
         CompletionLost, AnswerLost, SweepDies, store

LEMMA OthersKeepStore ==
  ASSUME \/ \E r \in Reservation : Client(r) \/ Passage(r) \/ OutlivedLease(r)
         \/ \E c \in Call : Finalization(c) \/ CallFails(c)
         \/ UNCHANGED vars
  PROVE  UNCHANGED store
  BY DEF Client, Ask, Reserve, ReserveAgain, Resume, Passage, WindowCloses, AbandonedLease,
         OutlivedLease, LeaseRunsOut, Finalization, RequestFinalize, Inspect, Scan,
         Finalize, CallFails, store, vars

LEMMA StoreGrows ==
  ASSUME TypeOK, [Next]_vars
  PROVE  /\ uploads' \in Seq(Upload)
         /\ held' \subseteq DOMAIN uploads'
         /\ Growing
<1>1. CASE UNCHANGED store
  BY <1>1 DEF store, TypeOK, Growing
<1>2. ASSUME uploads' = uploads, held' \subseteq held
      PROVE  uploads' \in Seq(Upload) /\ held' \subseteq DOMAIN uploads' /\ Growing
  BY <1>2 DEF TypeOK, Growing
<1>. QED
  BY <1>1, <1>2, PutGrows, SweepKeepsUploads, OthersKeepStore DEF Next

LEMMA PassageMoves ==
  ASSUME TypeOK, NEW r \in Reservation, Passage(r) \/ OutlivedLease(r)
  PROVE  RowsMove
<1>1. Exists(r) /\ attachment[r] \in Row /\ Linked(attachment[r], DOMAIN uploads)
  BY RowsTyped
     DEF Passage, WindowCloses, AbandonedLease, OutlivedLease, LeaseRunsOut
<1>2. uploads' = uploads
  BY DEF Passage, WindowCloses, AbandonedLease, OutlivedLease, LeaseRunsOut, store
<1>3. CASE WindowCloses(r)
  <2>. DEFINE row == [attachment[r] EXCEPT !.closed = TRUE]
  <2>1. row \in Row /\ Linked(row, DOMAIN uploads) /\ Follows(attachment[r], row)
    BY <1>1, <1>3 DEF Row, Linked, Follows, WindowCloses
  <2>2. attachment' = [attachment EXCEPT ![r] = row]
    BY <1>3 DEF WindowCloses
  <2>. HIDE DEF row
  <2>. QED  BY <1>1, <1>2, <2>1, <2>2, OneRowMoves
<1>4. CASE LeaseRunsOut(r)
  <2>. DEFINE row == [attachment[r] EXCEPT !.stale = TRUE]
  <2>1. row \in Row /\ Linked(row, DOMAIN uploads) /\ Follows(attachment[r], row)
    BY <1>1, <1>4 DEF Row, Linked, Follows, LeaseRunsOut
  <2>2. attachment' = [attachment EXCEPT ![r] = row]
    BY <1>4 DEF LeaseRunsOut
  <2>. HIDE DEF row
  <2>. QED  BY <1>1, <1>2, <2>1, <2>2, OneRowMoves
<1>. QED  BY <1>3, <1>4 DEF Passage, AbandonedLease, OutlivedLease

LEMMA RunMoves ==
  ASSUME EvidenceInv, NEW w \in Sweep, RunOnce(w) \/ RunFails(w)
  PROVE  RowsMove
<1>1. uploads' = uploads
  BY SweepKeepsUploads
<1>2. CASE UNCHANGED attachment
  BY <1>1, <1>2, RowsStay DEF EvidenceInv
<1>3. CASE \E rows \in SUBSET Reservation : ClaimExpired(w, rows)
  BY <1>3, ClaimMoves
<1>4. CASE Completing(w) /\ OwnsClaim(sweep[w].claim) /\ Record(w)
  BY <1>1, <1>4, RecordMoves
<1>. QED
  BY <1>2, <1>3, <1>4
     DEF RunOnce, RunFails, Purge, Delete, VerifyEmpty, Complete, PurgeFails,
         CompletionLost, AnswerLost, SweepDies, service

LEMMA StepMoves ==
  ASSUME EvidenceInv, [Next]_vars
  PROVE  RowsMove
<1>1. CASE UNCHANGED attachment
  BY <1>1, RowsStay, StoreGrows DEF EvidenceInv, Growing
<1>2. ASSUME NEW r \in Reservation, Client(r)
      PROVE  RowsMove
  BY <1>1, <1>2, ReserveMoves DEF EvidenceInv, Client, Ask, ReserveAgain, Resume
<1>3. ASSUME NEW url \in urls, NEW file \in File, Put(url, file)
      PROVE  RowsMove
  BY <1>1, <1>3 DEF Put, service
<1>4. ASSUME NEW c \in Call, Finalization(c) \/ CallFails(c)
      PROVE  RowsMove
  BY <1>1, <1>4, FinalizationMoves DEF CallFails
<1>5. CASE UNCHANGED vars
  BY <1>1, <1>5 DEF vars
<1>. QED
  BY <1>2, <1>3, <1>4, <1>5, PassageMoves, RunMoves DEF Next, EvidenceInv

-----------------------------------------------------------------------------
(* Finalization requests                                                   *)

Request ==
  [reservation : Reservation, version : Version \cup {None},
   verdict : {"CLEAN", "INFECTED", None}]

(* One request changed and is sound; the others are as they were.          *)
LEMMA OneCallMoves ==
  ASSUME EvidenceInv, [Next]_vars,
         NEW c \in Call, NEW new \in Request \cup {None},
         call' = [call EXCEPT ![c] = new],
         CallSound(c)'
  PROVE  call' \in [Call -> Request \cup {None}] /\ \A d \in Call : CallSound(d)'
<1>1. call \in [Call -> Request \cup {None}]
  BY DEF EvidenceInv, TypeOK, Request
<1>2. call' \in [Call -> Request \cup {None}]
  BY <1>1
<1>3. ASSUME NEW d \in Call, d # c
      PROVE  CallSound(d)'
  <2>1. call'[d] = call[d] /\ CallSound(d)
    BY <1>1, <1>3 DEF EvidenceInv
  <2>2. call[d] # None => call[d] \in Request
    BY <1>1
  <2>3. Growing /\ \A r \in Reservation : Exists(r) => Exists(r)'
    BY StepMoves, StoreGrows DEF EvidenceInv, RowsMove
  <2>4. CASE call[d] = None
    BY <2>1, <2>4 DEF CallSound
  <2>5. CASE call[d] # None
    <3>1. attachment'[call'[d].reservation] # None
      BY <2>1, <2>2, <2>3, <2>5 DEF CallSound, Request, Exists
    <3>2. call[d].version # None =>
            /\ call[d].version \in DOMAIN uploads'
            /\ uploads'[call[d].version] = uploads[call[d].version]
      BY <2>1, <2>3, <2>5 DEF CallSound, Growing
    <3>. QED  BY <2>1, <2>5, <3>1, <3>2, NoneAssumption DEF CallSound, Exists
  <2>. QED  BY <2>4, <2>5
<1>. QED  BY <1>2, <1>3

LEMMA CallsStay ==
  ASSUME EvidenceInv, [Next]_vars, UNCHANGED call
  PROVE  call' \in [Call -> Request \cup {None}] /\ \A d \in Call : CallSound(d)'
<1>1. call \in [Call -> Request \cup {None}]
  BY DEF EvidenceInv, TypeOK, Request
<1>2. Growing /\ \A r \in Reservation : Exists(r) => Exists(r)'
  BY StepMoves, StoreGrows DEF EvidenceInv, RowsMove
<1>3. ASSUME NEW d \in Call
      PROVE  CallSound(d)'
  <2>1. CallSound(d) /\ (call[d] # None => call[d].reservation \in Reservation)
    BY <1>1 DEF EvidenceInv, Request
  <2>. QED  BY <1>2, <2>1, NoneAssumption DEF CallSound, Growing, Exists
<1>. QED  BY <1>1, <1>3

LEMMA FinalizationSound ==
  ASSUME EvidenceInv, [Next]_vars, NEW c \in Call, Finalization(c) \/ CallFails(c)
  PROVE  call' \in [Call -> Request \cup {None}] /\ \A d \in Call : CallSound(d)'
<1>1. call \in [Call -> Request \cup {None}] /\ CallSound(c)
  BY DEF EvidenceInv, TypeOK, Request
<1>2. /\ \A r \in Reservation : Exists(r) => Exists(r)'
      /\ Growing
  BY StepMoves, StoreGrows DEF EvidenceInv, RowsMove
<1>3. CASE call' = [call EXCEPT ![c] = None]
  BY <1>1, <1>3, OneCallMoves DEF CallSound
<1>4. ASSUME NEW r \in Reservation, RequestFinalize(c, r)
      PROVE  call' \in [Call -> Request \cup {None}] /\ \A d \in Call : CallSound(d)'
  <2>. DEFINE new == [reservation |-> r, version |-> None, verdict |-> None]
  <2>1. new \in Request
    BY DEF Request
  <2>2. call' = [call EXCEPT ![c] = new] /\ Exists(r)'
    BY <1>2, <1>4 DEF RequestFinalize, Pending
  <2>3. call'[c] = new
    BY <1>1, <2>2
  <2>4. CallSound(c)'
    BY <2>2, <2>3, NoneAssumption DEF CallSound, Exists
  <2>. HIDE DEF new
  <2>. QED  BY <2>1, <2>2, <2>4, OneCallMoves
<1>5. ASSUME Inspect(c), call' # [call EXCEPT ![c] = None]
      PROVE  call' \in [Call -> Request \cup {None}] /\ \A d \in Call : CallSound(d)'
  <2>1. PICK i \in Latest(ObjectOf[call[c].reservation]) :
               call' = [call EXCEPT ![c].version = i]
    BY <1>5 DEF Inspect
  <2>. DEFINE new == [call[c] EXCEPT !.version = i]
  <2>2. call[c] \in Request /\ call[c] # None /\ call[c].version = None
    BY <1>1, <1>5 DEF Inspect
  <2>3. i \in DOMAIN uploads /\ i \in Version
    BY <2>1 DEF Latest, Versions, EvidenceInv, TypeOK, Version
  <2>4. /\ new \in Request /\ new.reservation = call[c].reservation
        /\ new.version = i /\ new.verdict = call[c].verdict
    BY <2>2, <2>3 DEF Request
  <2>5. new.verdict = None /\ new.verdict # "CLEAN"
    BY <1>1, <2>2, <2>4, NoneAssumption DEF CallSound, Request
  <2>6. attachment'[new.reservation] # None /\ i \in DOMAIN uploads'
    BY <1>1, <1>2, <2>2, <2>3, <2>4 DEF CallSound, Growing, Request, Exists
  <2>7. call' = [call EXCEPT ![c] = new] /\ call'[c] = new
    BY <1>1, <2>1
  <2>8. CallSound(c)'
    BY <2>4, <2>5, <2>6, <2>7 DEF CallSound, Exists
  <2>. HIDE DEF new
  <2>. QED  BY <2>4, <2>7, <2>8, OneCallMoves
<1>6. ASSUME Scan(c), call' # [call EXCEPT ![c] = None]
      PROVE  call' \in [Call -> Request \cup {None}] /\ \A d \in Call : CallSound(d)'
  <2>1. PICK verdict \in BridgeVerdict(call[c].version) :
               call' = [call EXCEPT ![c].verdict = verdict]
    BY <1>6 DEF Scan
  <2>. DEFINE new == [call[c] EXCEPT !.verdict = verdict]
  <2>2. call[c] \in Request /\ call[c] # None /\ call[c].version # None
    BY <1>1, <1>6 DEF Scan
  <2>3. verdict \in {"CLEAN", "INFECTED"}
        /\ (verdict = "CLEAN" => /\ uploads[call[c].version].file = uploads[call[c].version].hash
                                 /\ uploads[call[c].version].file \notin Infected)
    BY <2>1 DEF BridgeVerdict
  <2>4. new \in Request /\ new.reservation = call[c].reservation
        /\ new.version = call[c].version /\ new.verdict = verdict
    BY <2>2, <2>3 DEF Request
  <2>5. call' = [call EXCEPT ![c] = new] /\ call'[c] = new
    BY <1>1, <2>1
  <2>6. /\ attachment'[new.reservation] # None
        /\ call[c].version \in DOMAIN uploads'
        /\ uploads'[call[c].version] = uploads[call[c].version]
    BY <1>1, <1>2, <2>2, <2>4 DEF CallSound, Growing, Request, Exists
  <2>7. CallSound(c)'
    BY <2>2, <2>3, <2>4, <2>5, <2>6 DEF CallSound, Exists
  <2>. HIDE DEF new
  <2>. QED  BY <2>4, <2>5, <2>7, OneCallMoves
<1>. QED
  BY <1>3, <1>4, <1>5, <1>6 DEF Finalization, Finalize, CallFails

LEMMA CallsSound ==
  ASSUME EvidenceInv, [Next]_vars
  PROVE  call' \in [Call -> Request \cup {None}] /\ \A d \in Call : CallSound(d)'
<1>1. CASE UNCHANGED call
  BY <1>1, CallsStay
<1>2. CASE \E c \in Call : Finalization(c) \/ CallFails(c)
  BY <1>2, FinalizationSound
<1>3. CASE \E r \in Reservation : Client(r) \/ Passage(r) \/ OutlivedLease(r)
  BY <1>1, <1>3
     DEF Client, Ask, Reserve, ReserveAgain, Resume, Passage, WindowCloses,
         AbandonedLease, OutlivedLease, LeaseRunsOut
<1>4. CASE \E url \in urls, file \in File : Put(url, file)
  BY <1>1, <1>4 DEF Put, service
<1>5. CASE \E w \in Sweep : RunOnce(w) \/ RunFails(w)
  BY <1>1, <1>5
     DEF RunOnce, RunFails, ClaimExpired, Purge, Delete, VerifyEmpty, Complete,
         PurgeFails, CompletionLost, AnswerLost, SweepDies, service
<1>. QED  BY <1>1, <1>2, <1>3, <1>4, <1>5 DEF Next, vars

-----------------------------------------------------------------------------
(* Cleanup runs                                                            *)

Run ==
  [batch : SUBSET Claim, claim : Claim \cup {None},
   at : {"IDLE", "DELETE", "DELETED"} \cup Failure,
   todo : SUBSET Version, failed : SUBSET Failure]

LEMMA IdleRun ==
  /\ Idle \in Run
  /\ Idle.claim = None /\ Idle.at = "IDLE" /\ Idle.batch = {} /\ Idle.todo = {}
  BY DEF Idle, Run

LEMMA ExpiredStays ==
  ASSUME EvidenceInv, [Next]_vars
  PROVE  \A r \in Reservation : Expired(r) => Expired(r)'
  BY StepMoves DEF RowsMove, Follows, Expired, Exists

LEMMA SweepsStay ==
  ASSUME EvidenceInv, [Next]_vars,
         NEW w \in Sweep, sweep'[w] = sweep[w]
  PROVE  SweepSound(w)'
<1>1. sweep[w] \in Run /\ SweepSound(w)
  BY DEF EvidenceInv, TypeOK, Run
<1>2. \A c \in sweep[w].batch : c.reservation \in Reservation
  BY <1>1 DEF Run, Claim
<1>3. sweep[w].claim # None => sweep[w].claim.reservation \in Reservation
  BY <1>1 DEF Run, Claim
<1>4. Growing /\ \A r \in Reservation : Expired(r) => Expired(r)'
  BY ExpiredStays, StoreGrows DEF EvidenceInv
<1>5. \A c \in sweep'[w].batch : Expired(c.reservation)'
  BY <1>1, <1>2, <1>4 DEF SweepSound, Expired, Exists
<1>6. sweep'[w].claim # None =>
        /\ attachment'[sweep'[w].claim.reservation] # None
        /\ attachment'[sweep'[w].claim.reservation].closed
        /\ attachment'[sweep'[w].claim.reservation].status # "VERIFIED_CLEAN"
  BY <1>1, <1>3, <1>4 DEF SweepSound, Expired, Exists
<1>7. sweep'[w].at = "DELETE" =>
        \A i \in sweep'[w].todo :
          /\ i \in DOMAIN uploads'
          /\ uploads'[i].object = ObjectOf[sweep'[w].claim.reservation]
  BY <1>1, <1>4 DEF SweepSound, Growing
<1>. QED  BY <1>1, <1>5, <1>6, <1>7 DEF SweepSound, Expired, Exists

(* One run changed and is sound; the others are as they were.              *)
LEMMA OneSweepMoves ==
  ASSUME EvidenceInv, [Next]_vars,
         NEW w \in Sweep, NEW new \in Run,
         sweep' = [sweep EXCEPT ![w] = new],
         SweepSound(w)'
  PROVE  sweep' \in [Sweep -> Run] /\ \A v \in Sweep : SweepSound(v)'
<1>1. sweep \in [Sweep -> Run]
  BY DEF EvidenceInv, TypeOK, Run
<1>2. sweep' \in [Sweep -> Run]
  BY <1>1
<1>3. ASSUME NEW v \in Sweep, v # w
      PROVE  SweepSound(v)'
  BY <1>1, <1>3, SweepsStay
<1>. QED  BY <1>2, <1>3

(* A run that ends with its claim, or gives up.                            *)
LEMMA RunEnds ==
  ASSUME EvidenceInv, [Next]_vars, NEW w \in Sweep,
         \/ sweep' = [sweep EXCEPT ![w] = Idle]
         \/ sweep' = [sweep EXCEPT ![w] = Done(w)]
  PROVE  sweep' \in [Sweep -> Run] /\ \A v \in Sweep : SweepSound(v)'
<1>1. sweep \in [Sweep -> Run] /\ SweepSound(w)
  BY DEF EvidenceInv, TypeOK, Run
<1>2. CASE sweep' = [sweep EXCEPT ![w] = Idle]
  <2>1. sweep'[w] = Idle
    BY <1>1, <1>2
  <2>2. SweepSound(w)'
    BY <2>1, IdleRun DEF SweepSound
  <2>. QED  BY <1>2, <2>2, IdleRun, OneSweepMoves
<1>3. CASE sweep' = [sweep EXCEPT ![w] = Done(w)]
  <2>. DEFINE new == Done(w)
  <2>1. new \in Run /\ new.batch = sweep[w].batch /\ new.claim = None /\ new.at = "IDLE"
    BY <1>1, IdleRun DEF Done, Run, Idle
  <2>2. sweep' = [sweep EXCEPT ![w] = new] /\ sweep'[w] = new
    BY <1>1, <1>3
  <2>3. \A c \in sweep[w].batch : c.reservation \in Reservation /\ Expired(c.reservation)
    BY <1>1 DEF Run, Claim, SweepSound
  <2>4. \A r \in Reservation : Expired(r) => Expired(r)'
    BY ExpiredStays
  <2>5. \A c \in sweep'[w].batch : Expired(c.reservation)'
    BY <2>1, <2>2, <2>3, <2>4 DEF Expired, Exists
  <2>6. SweepSound(w)'
    BY <2>1, <2>2, <2>5 DEF SweepSound
  <2>. HIDE DEF new
  <2>. QED  BY <2>1, <2>2, <2>6, OneSweepMoves
<1>. QED  BY <1>2, <1>3

(* A run that goes on with the claim it is working on.                     *)
LEMMA RunGoesOn ==
  ASSUME EvidenceInv, [Next]_vars, NEW w \in Sweep, NEW new \in Run,
         sweep' = [sweep EXCEPT ![w] = new],
         sweep[w].at # "IDLE", new.at # "IDLE",
         new.batch = sweep[w].batch, new.claim = sweep[w].claim,
         new.at = "DELETE" => sweep[w].at = "DELETE" /\ new.todo \subseteq sweep[w].todo
  PROVE  sweep' \in [Sweep -> Run] /\ \A v \in Sweep : SweepSound(v)'
<1>1. sweep \in [Sweep -> Run] /\ SweepSound(w)
  BY DEF EvidenceInv, TypeOK, Run
<1>2. sweep'[w] = new
  BY <1>1
<1>3. Growing /\ \A r \in Reservation : Expired(r) => Expired(r)'
  BY ExpiredStays, StoreGrows DEF EvidenceInv
<1>4. \A c \in sweep[w].batch : c.reservation \in Reservation /\ Expired(c.reservation)
  BY <1>1 DEF Run, Claim, SweepSound
<1>5. /\ sweep[w].claim # None /\ sweep[w].claim.reservation \in Reservation
      /\ Expired(sweep[w].claim.reservation)
  BY <1>1 DEF Run, Claim, SweepSound
<1>6. \A c \in sweep'[w].batch : Expired(c.reservation)'
  BY <1>2, <1>3, <1>4 DEF Expired, Exists
<1>7. /\ attachment'[sweep'[w].claim.reservation] # None
      /\ attachment'[sweep'[w].claim.reservation].closed
      /\ attachment'[sweep'[w].claim.reservation].status # "VERIFIED_CLEAN"
  BY <1>2, <1>3, <1>5 DEF Expired, Exists
<1>8. sweep'[w].at = "DELETE" =>
        \A i \in sweep'[w].todo :
          /\ i \in DOMAIN uploads'
          /\ uploads'[i].object = ObjectOf[sweep'[w].claim.reservation]
  BY <1>1, <1>2, <1>3 DEF SweepSound, Growing
<1>9. SweepSound(w)'
  BY <1>2, <1>5, <1>6, <1>7, <1>8 DEF SweepSound, Expired, Exists
<1>. QED  BY <1>9, OneSweepMoves

LEMMA RunSound ==
  ASSUME EvidenceInv, [Next]_vars, NEW w \in Sweep, RunOnce(w) \/ RunFails(w)
  PROVE  sweep' \in [Sweep -> Run] /\ \A v \in Sweep : SweepSound(v)'
<1>1. sweep \in [Sweep -> Run] /\ SweepSound(w) /\ sweep[w] \in Run
  BY DEF EvidenceInv, TypeOK, Run
<1>2. \A r \in Reservation : Expired(r) => Expired(r)'
  BY ExpiredStays
<1>3. ASSUME NEW rows \in SUBSET Reservation, ClaimExpired(w, rows)
      PROVE  sweep' \in [Sweep -> Run] /\ \A v \in Sweep : SweepSound(v)'
  <2>. DEFINE taken == {[reservation |-> r, attempt |-> attachment[r].attempt + 1] : r \in rows}
              new == [Idle EXCEPT !.batch = taken]
  <2>1. \A r \in rows : attachment[r].attempt \in Nat /\ Expired(r)
    BY <1>3, RowsTyped DEF EvidenceInv, ClaimExpired, Claimable, Row, Expired
  <2>2. taken \subseteq Claim
    BY <2>1 DEF Claim
  <2>3. new \in Run /\ new.batch = taken /\ new.claim = None /\ new.at = "IDLE"
    BY <2>2, IdleRun DEF Run, Idle
  <2>4. sweep' = [sweep EXCEPT ![w] = new] /\ sweep'[w] = new
    BY <1>1, <1>3 DEF ClaimExpired
  <2>5. \A c \in taken : c.reservation \in rows
    OBVIOUS
  <2>. HIDE DEF new, taken
  <2>6. \A c \in sweep'[w].batch : Expired(c.reservation)'
    BY <1>2, <2>1, <2>3, <2>4, <2>5 DEF Expired, Exists
  <2>7. SweepSound(w)'
    BY <2>3, <2>4, <2>6 DEF SweepSound
  <2>. QED  BY <2>3, <2>4, <2>7, OneSweepMoves
<1>4. ASSUME NEW c \in sweep[w].batch, Purge(w, c)
      PROVE  sweep' \in [Sweep -> Run] /\ \A v \in Sweep : SweepSound(v)'
  <2>. DEFINE new == [batch |-> sweep[w].batch \ {c}, claim |-> c, at |-> "DELETE",
                      todo |-> Versions(ObjectOf[c.reservation]), failed |-> {}]
  <2>1. /\ c \in Claim /\ c.reservation \in Reservation /\ c # None
        /\ \A d \in sweep[w].batch : d.reservation \in Reservation /\ Expired(d.reservation)
    BY <1>1, NoneAssumption DEF Run, Claim, SweepSound
  <2>2. new.todo \subseteq Version
        /\ \A i \in new.todo : i \in DOMAIN uploads /\ uploads[i].object = ObjectOf[c.reservation]
    BY DEF Versions, EvidenceInv, TypeOK, Version
  <2>3. new \in Run
    BY <1>1, <2>1, <2>2 DEF Run
  <2>4. sweep' = [sweep EXCEPT ![w] = new] /\ sweep'[w] = new /\ uploads' = uploads
    BY <1>1, <1>4 DEF Purge, store
  <2>5. \A d \in sweep'[w].batch : Expired(d.reservation)'
    BY <1>2, <2>1, <2>4 DEF Expired, Exists
  <2>6. /\ attachment'[sweep'[w].claim.reservation] # None
        /\ attachment'[sweep'[w].claim.reservation].closed
        /\ attachment'[sweep'[w].claim.reservation].status # "VERIFIED_CLEAN"
    BY <1>2, <2>1, <2>4 DEF Expired, Exists
  <2>7. SweepSound(w)'
    BY <2>1, <2>2, <2>4, <2>5, <2>6 DEF SweepSound, Expired, Exists
  <2>. HIDE DEF new
  <2>. QED  BY <2>3, <2>4, <2>7, OneSweepMoves
<1>5. ASSUME NEW i \in sweep[w].todo, Delete(w, i)
      PROVE  sweep' \in [Sweep -> Run] /\ \A v \in Sweep : SweepSound(v)'
  <2>1. PICK new \in Run :
          /\ sweep' = [sweep EXCEPT ![w] = new]
          /\ new.at = "DELETE" /\ sweep[w].at = "DELETE"
          /\ new.batch = sweep[w].batch /\ new.claim = sweep[w].claim
          /\ new.todo \subseteq sweep[w].todo
    <3>1. CASE sweep' = [sweep EXCEPT ![w].todo = @ \ {i}]
      <4>. DEFINE new == [sweep[w] EXCEPT !.todo = @ \ {i}]
      <4>1. new \in Run
        BY <1>1 DEF Run
      <4>. QED  BY <1>1, <1>5, <3>1, <4>1 DEF Delete, Run
    <3>2. ASSUME NEW failure \in Failure,
                 sweep' = [sweep EXCEPT ![w].todo = @ \ {i}, ![w].failed = @ \cup {failure}]
          PROVE  \E new \in Run :
                   /\ sweep' = [sweep EXCEPT ![w] = new]
                   /\ new.at = "DELETE" /\ sweep[w].at = "DELETE"
                   /\ new.batch = sweep[w].batch /\ new.claim = sweep[w].claim
                   /\ new.todo \subseteq sweep[w].todo
      <4>. DEFINE new == [sweep[w] EXCEPT !.todo = @ \ {i}, !.failed = @ \cup {failure}]
      <4>1. new \in Run
        BY <1>1 DEF Run
      <4>. QED  BY <1>1, <1>5, <3>2, <4>1 DEF Delete, Run
    <3>. QED  BY <1>5, <3>1, <3>2 DEF Delete
  <2>. QED  BY <2>1, RunGoesOn
<1>6. ASSUME NEW outcome \in {"DELETED", "RETENTION", "STORAGE"},
             sweep' = [sweep EXCEPT ![w].at = outcome], sweep[w].at # "IDLE"
      PROVE  sweep' \in [Sweep -> Run] /\ \A v \in Sweep : SweepSound(v)'
  <2>. DEFINE new == [sweep[w] EXCEPT !.at = outcome]
  <2>1. /\ new \in Run /\ new.at = outcome
        /\ new.batch = sweep[w].batch /\ new.claim = sweep[w].claim
    BY <1>1 DEF Run, Failure
  <2>2. sweep' = [sweep EXCEPT ![w] = new]
    BY <1>1, <1>6
  <2>. HIDE DEF new
  <2>. QED  BY <1>6, <2>1, <2>2, RunGoesOn
<1>7. CASE VerifyEmpty(w)
  BY <1>6, <1>7 DEF VerifyEmpty, PurgeOutcome
<1>8. CASE Complete(w) \/ AnswerLost(w) \/ SweepDies(w)
  BY <1>8, RunEnds DEF Complete, AnswerLost, SweepDies
<1>9. CASE PurgeFails(w) \/ CompletionLost(w)
  BY <1>6, <1>9, RunEnds DEF PurgeFails, CompletionLost
<1>. QED  BY <1>3, <1>4, <1>5, <1>7, <1>8, <1>9 DEF RunOnce, RunFails

LEMMA SweepsSound ==
  ASSUME EvidenceInv, [Next]_vars
  PROVE  sweep' \in [Sweep -> Run] /\ \A v \in Sweep : SweepSound(v)'
<1>1. CASE UNCHANGED sweep
  BY <1>1, SweepsStay DEF EvidenceInv, TypeOK, Run
<1>2. CASE \E w \in Sweep : RunOnce(w) \/ RunFails(w)
  BY <1>2, RunSound
<1>3. CASE \E r \in Reservation : Client(r) \/ Passage(r) \/ OutlivedLease(r)
  BY <1>1, <1>3
     DEF Client, Ask, Reserve, ReserveAgain, Resume, Passage, WindowCloses,
         AbandonedLease, OutlivedLease, LeaseRunsOut
<1>4. CASE \E url \in urls, file \in File : Put(url, file)
  BY <1>1, <1>4 DEF Put
<1>5. CASE \E c \in Call : Finalization(c) \/ CallFails(c)
  BY <1>1, <1>5
     DEF Finalization, RequestFinalize, Inspect, Scan, Finalize, CallFails
<1>. QED  BY <1>1, <1>2, <1>3, <1>4, <1>5 DEF Next, vars

-----------------------------------------------------------------------------
(* Verification                                                            *)

(* Only a finalization request verifies a row, and only with a version of  *)
(* its object that was scanned and found clean and that has the hash the   *)
(* row declares.                                                           *)
VerifiedBy(r, c) ==
  /\ Finalize(c)
  /\ call[c].reservation = r
  /\ Pending(r) /\ ~attachment[r].closed
  /\ call[c].verdict = "CLEAN" /\ call[c].version # None
  /\ uploads[call[c].version].hash = attachment[r].declares
  /\ attachment'[r].version = call[c].version

LEMMA NewlyVerified ==
  ASSUME EvidenceInv, [Next]_vars, NEW r \in Reservation,
         Exists(r)', attachment'[r].status = "VERIFIED_CLEAN",
         ~(Exists(r) /\ attachment[r].status = "VERIFIED_CLEAN")
  PROVE  \E c \in Call : VerifiedBy(r, c)
<1>1. attachment \in [Reservation -> Row \cup {None}]
  BY DEF EvidenceInv, TypeOK
<1>2. attachment'[r] # attachment[r]
  BY DEF Exists
<1>3. ASSUME NEW s \in Reservation, Client(s)
      PROVE  FALSE
  BY <1>1, <1>2, <1>3
     DEF Client, Ask, Reserve, ReserveAgain, Resume, NewRow
<1>4. ASSUME NEW s \in Reservation, Passage(s) \/ OutlivedLease(s)
      PROVE  FALSE
  <2>1. Exists(s) /\ attachment[s] \in Row
    BY <1>4, RowsTyped
       DEF EvidenceInv, Passage, WindowCloses, AbandonedLease, OutlivedLease, LeaseRunsOut
  <2>2. \/ attachment' = [attachment EXCEPT ![s] = [attachment[s] EXCEPT !.closed = TRUE]]
        \/ attachment' = [attachment EXCEPT ![s] = [attachment[s] EXCEPT !.stale = TRUE]]
    BY <1>1, <1>4 DEF Passage, WindowCloses, AbandonedLease, OutlivedLease, LeaseRunsOut
  <2>. QED  BY <1>1, <1>2, <2>1, <2>2 DEF Row
<1>5. ASSUME NEW c \in Call, RequestFinalize(c, r) \/ Inspect(c) \/ Scan(c) \/ CallFails(c)
      PROVE  FALSE
  <2>1. CASE RequestFinalize(c, r)
    <3>1. Exists(r) /\ attachment[r] \in Row /\ attachment[r].status = "PENDING"
      BY <2>1, RowsTyped DEF EvidenceInv, RequestFinalize, Pending
    <3>2. attachment'[r] = [attachment[r] EXCEPT !.requested = TRUE]
      BY <1>1, <2>1 DEF RequestFinalize
    <3>. QED  BY <3>1, <3>2 DEF Row
  <2>. QED  BY <1>2, <1>5, <2>1 DEF Inspect, Scan, CallFails
<1>6. ASSUME NEW c \in Call, NEW s \in Reservation, s # r, RequestFinalize(c, s)
      PROVE  FALSE
  BY <1>1, <1>2, <1>6 DEF RequestFinalize
<1>7. ASSUME NEW c \in Call, Finalize(c)
      PROVE  VerifiedBy(r, c)
  <2>. DEFINE s == call[c].reservation
              i == call[c].version
              seen == [verdict |-> call[c].verdict, hash |-> uploads[i].hash]
              rejected == [attachment[s] EXCEPT !.status = "REJECTED"]
              verified == Verified(attachment[s], i)
  <2>0. /\ call[c] \in Request /\ CallSound(c)
        /\ call[c] # None /\ call[c].verdict # None
    BY <1>7 DEF EvidenceInv, TypeOK, Request, Finalize
  <2>1. /\ s \in Reservation /\ Exists(s) /\ attachment[s] \in Row
        /\ i # None
    BY <2>0, RowsTyped DEF EvidenceInv, CallSound, Request
  <2>2. \/ attachment' = attachment
        \/ /\ Pending(s) /\ ~attachment[s].closed
           /\ \/ attachment' = [attachment EXCEPT ![s] = rejected]
              \/ /\ Accepts(s, seen)
                 /\ attachment' = [attachment EXCEPT ![s] = verified]
    BY <1>7 DEF Finalize
  <2>3. rejected.status = "REJECTED" /\ verified.version = i
    BY <2>1 DEF Row, Verified
  <2>. HIDE DEF rejected, verified, s
  <2>4. /\ r = s /\ Pending(s) /\ ~attachment[s].closed /\ Accepts(s, seen)
        /\ attachment'[s] = verified
    BY <1>1, <1>2, <2>1, <2>2, <2>3
  <2>. QED
    BY <1>7, <2>1, <2>3, <2>4 DEF VerifiedBy, Accepts, s
<1>8. ASSUME NEW w \in Sweep, RunOnce(w) \/ RunFails(w)
      PROVE  FALSE
  <2>1. ASSUME Completing(w), OwnsClaim(sweep[w].claim), Record(w)
        PROVE  FALSE
    <3>. DEFINE s == sweep[w].claim.reservation
                row == CompleteRow(attachment[s], sweep[w].at)
    <3>1. s \in Reservation /\ Exists(s) /\ attachment[s] \in Row
      BY <2>1, RowsTyped
         DEF EvidenceInv, TypeOK, SweepSound, Completing, Expired, Claim, Failure
    <3>2. row.status # "VERIFIED_CLEAN"
      BY <2>1, <3>1 DEF OwnsClaim, CompleteRow, Row
    <3>3. attachment' = [attachment EXCEPT ![s] = row]
      BY <2>1 DEF Record
    <3>. HIDE DEF s, row
    <3>. QED  BY <1>1, <1>2, <3>1, <3>2, <3>3
  <2>2. ASSUME NEW rows \in SUBSET Reservation, ClaimExpired(w, rows)
        PROVE  FALSE
    <3>1. r \in rows /\ attachment'[r] = [attachment[r] EXCEPT !.cleanup = "PENDING",
                                             !.attempt = @ + 1, !.stale = FALSE]
      BY <1>2, <2>2 DEF ClaimExpired
    <3>2. attachment[r] \in Row /\ Exists(r)
      BY <2>2, <3>1, RowsTyped DEF EvidenceInv, ClaimExpired, Claimable
    <3>. QED  BY <3>1, <3>2 DEF Row
  <2>. QED
    BY <1>2, <1>8, <2>1, <2>2
       DEF RunOnce, RunFails, Purge, Delete, VerifyEmpty, Complete, PurgeFails,
           CompletionLost, AnswerLost, SweepDies, service
<1>9. ASSUME NEW url \in urls, NEW file \in File, Put(url, file)
      PROVE  FALSE
  BY <1>2, <1>9 DEF Put, service
<1>. QED
  BY <1>2, <1>3, <1>4, <1>5, <1>6, <1>7, <1>8, <1>9 DEF Next, Finalization, vars

LEMMA DeclaredStep ==
  ASSUME EvidenceInv, [Next]_vars
  PROVE  EvidenceIsDeclared'
<1>. SUFFICES ASSUME NEW r \in Reservation, Exists(r)', attachment'[r].status = "VERIFIED_CLEAN"
              PROVE  /\ uploads'[attachment'[r].version].file = attachment'[r].declares
                     /\ uploads'[attachment'[r].version].file \notin Infected
  BY DEF EvidenceIsDeclared, Exists
<1>1. RowsMove /\ Growing
  BY StepMoves, StoreGrows DEF EvidenceInv
<1>2. CASE Exists(r) /\ attachment[r].status = "VERIFIED_CLEAN"
  <2>1. attachment[r].version \in DOMAIN uploads
    BY <1>2, RowsTyped DEF EvidenceInv, Linked
  <2>2. /\ attachment'[r].version = attachment[r].version
        /\ attachment'[r].declares = attachment[r].declares
    BY <1>1, <1>2 DEF RowsMove, Follows
  <2>. QED  BY <1>1, <1>2, <2>1, <2>2 DEF EvidenceInv, EvidenceIsDeclared, Growing
<1>3. CASE ~(Exists(r) /\ attachment[r].status = "VERIFIED_CLEAN")
  <2>1. PICK c \in Call : VerifiedBy(r, c)
    BY <1>3, NewlyVerified
  <2>2. CallSound(c) /\ call[c] # None
    BY <2>1 DEF EvidenceInv, VerifiedBy, Finalize
  <2>3. /\ call[c].version \in DOMAIN uploads
        /\ uploads[call[c].version].file = attachment[r].declares
        /\ uploads[call[c].version].file \notin Infected
    BY <2>1, <2>2 DEF VerifiedBy, CallSound
  <2>4. attachment'[r].declares = attachment[r].declares
    BY <1>1, <2>1 DEF RowsMove, Follows, VerifiedBy, Pending
  <2>. QED  BY <1>1, <2>1, <2>3, <2>4 DEF VerifiedBy, Growing
<1>. QED  BY <1>2, <1>3

-----------------------------------------------------------------------------
(* The invariant                                                           *)

LEMMA OthersTyped ==
  ASSUME EvidenceInv, [Next]_vars
  PROVE  /\ asked' \subseteq Reservation
         /\ urls' \subseteq Url
         /\ faults' \in 0..MaxFaults
         /\ \A url \in urls' : Exists(url.reservation)'
<1>1. \A r \in Reservation : Exists(r) => attachment'[r] # None
  BY StepMoves DEF RowsMove, Exists
<1>2. \A url \in urls : url.reservation \in Reservation /\ attachment[url.reservation] # None
  BY DEF EvidenceInv, TypeOK, Url, Exists
<1>3. \A url \in urls : attachment'[url.reservation] # None
  BY <1>1, <1>2 DEF Exists
<1>4. ASSUME NEW r \in Reservation, Client(r)
      PROVE  /\ asked' \subseteq Reservation /\ faults' = faults
             /\ urls' \subseteq Url
             /\ \A url \in urls' : attachment'[url.reservation] # None
  <2>1. asked' \subseteq Reservation /\ faults' = faults
    BY <1>4 DEF EvidenceInv, TypeOK, Client, Ask, Reserve, ReserveAgain, Resume
  <2>2. \/ urls' = urls
        \/ /\ attachment'[r] # None
           /\ \E outlives \in BOOLEAN :
                urls' = urls \cup {[reservation |-> r, outlives |-> outlives]}
    <3>1. CASE Ask(r)
      BY <3>1 DEF Ask
    <3>2. ASSUME NEW file \in File, Reserve(r, file)
          PROVE  attachment'[r] # None
      <4>1. NewRow(file) \in Row
        BY DEF NewRow, Row
      <4>2. attachment'[r] = NewRow(file)
        BY <3>2 DEF Reserve, EvidenceInv, TypeOK
      <4>. QED  BY <4>1, <4>2, NoneAssumption
    <3>3. CASE \E file \in File : Reserve(r, file)
      BY <3>2, <3>3 DEF Reserve, HandOut
    <3>4. CASE ReserveAgain(r) \/ Resume(r)
      BY <1>1, <3>4 DEF ReserveAgain, Resume, HandOut
    <3>. QED  BY <1>4, <3>1, <3>3, <3>4 DEF Client
  <2>3. urls \subseteq Url
    BY DEF EvidenceInv, TypeOK
  <2>4. \A outlives \in BOOLEAN : [reservation |-> r, outlives |-> outlives] \in Url
    BY DEF Url
  <2>. QED  BY <1>3, <2>1, <2>2, <2>3, <2>4
<1>5. CASE \/ \E url \in urls, file \in File : Put(url, file)
           \/ \E r \in Reservation : WindowCloses(r) \/ AbandonedLease(r) \/ OutlivedLease(r)
           \/ \E c \in Call : Finalization(c) \/ CallFails(c)
           \/ \E w \in Sweep : RunOnce(w) \/ RunFails(w)
           \/ UNCHANGED vars
  <2>1. UNCHANGED <<asked, urls>>
    BY <1>5
       DEF Put, WindowCloses, AbandonedLease, OutlivedLease, LeaseRunsOut,
           Finalization, RequestFinalize, Inspect, Scan, Finalize, CallFails,
           RunOnce, RunFails, ClaimExpired, Purge, Delete, VerifyEmpty, Complete,
           PurgeFails, CompletionLost, AnswerLost, SweepDies, service, vars
  <2>2. faults' = faults \/ Fault
    BY <1>5
       DEF Put, WindowCloses, AbandonedLease, OutlivedLease, LeaseRunsOut,
           Finalization, RequestFinalize, Inspect, Scan, Finalize, CallFails,
           RunOnce, RunFails, ClaimExpired, Purge, Delete, VerifyEmpty, Complete,
           PurgeFails, CompletionLost, AnswerLost, SweepDies, service, vars
  <2>3. faults' \in 0..MaxFaults
    BY <2>2, EvidenceAssumption DEF Fault, EvidenceInv, TypeOK
  <2>. QED  BY <1>3, <2>1, <2>3 DEF EvidenceInv, TypeOK, Exists
<1>. QED  BY <1>4, <1>5 DEF Next, Passage, EvidenceInv, TypeOK, Exists

LEMMA EvidenceInductive ==
  /\ Init => EvidenceInv
  /\ EvidenceInv /\ [Next]_vars => EvidenceInv'
<1>1. ASSUME Init
      PROVE  EvidenceInv
  <2>1. TypeOK
    BY <1>1, EvidenceAssumption, IdleRun DEF Init, TypeOK, Exists, Run
  <2>2. EvidenceIsDeclared /\ \A c \in Call : CallSound(c)
    BY <1>1 DEF Init, EvidenceIsDeclared, Exists, CallSound
  <2>3. \A w \in Sweep : SweepSound(w)
    BY <1>1, IdleRun DEF Init, SweepSound
  <2>. QED  BY <2>1, <2>2, <2>3 DEF EvidenceInv
<1>2. ASSUME EvidenceInv, [Next]_vars
      PROVE  EvidenceInv'
  <2>1. \A r \in Reservation :
          Exists(r)' =>
            /\ attachment'[r].status = "VERIFIED_CLEAN" <=> attachment'[r].version # None
            /\ attachment'[r].version # None => attachment'[r].version \in DOMAIN uploads'
    BY <1>2, StepMoves DEF RowsMove, Linked
  <2>2. TypeOK'
    BY <1>2, <2>1, StepMoves, StoreGrows, OthersTyped, CallsSound, SweepsSound
       DEF EvidenceInv, RowsMove, TypeOK, Exists, Request, Run
  <2>. QED
    BY <1>2, <2>2, CallsSound, SweepsSound, DeclaredStep DEF EvidenceInv
<1>. QED  BY <1>1, <1>2

(* Rows, versions, requests and runs stay of their types; a row names a    *)
(* version exactly if it is verified.                                      *)
THEOREM EvidenceTyped == Spec => []TypeOK
<1>1. EvidenceInv => TypeOK
  BY DEF EvidenceInv
<1>. QED  BY <1>1, EvidenceInductive, PTL DEF Spec

(* Whatever is put under the key of a reservation before, while and after  *)
(* its finalization scans a version: the verified version is the declared  *)
(* content and not infected.                                               *)
THEOREM VerifiedAsDeclared == Spec => []EvidenceIsDeclared
<1>1. EvidenceInv => EvidenceIsDeclared
  BY DEF EvidenceInv
<1>. QED  BY <1>1, EvidenceInductive, PTL DEF Spec

-----------------------------------------------------------------------------
(* Cleanup results                                                         *)

RecordedBy(r, w) ==
  /\ Completing(w) /\ OwnsClaim(sweep[w].claim)
  /\ sweep[w].claim.reservation = r
  /\ attachment'[r] = CompleteRow(attachment[r], sweep[w].at)
  /\ sweep'[w].claim = None
  /\ UNCHANGED store

CleanupMove(r) ==
  \/ attachment'[r] = None
  \/ ~Exists(r) /\ attachment'[r].cleanup = "NONE"
  \/ Exists(r) /\ attachment'[r].cleanup = attachment[r].cleanup
  \/ Exists(r) /\ attachment[r].closed /\ attachment'[r].cleanup = "PENDING"
  \/ Exists(r) /\ \E w \in Sweep : RecordedBy(r, w)

LEMMA RunCleanup ==
  ASSUME EvidenceInv, NEW r \in Reservation, NEW w \in Sweep, RunOnce(w) \/ RunFails(w)
  PROVE  CleanupMove(r)
<1>1. attachment \in [Reservation -> Row \cup {None}] /\ sweep \in [Sweep -> Run]
  BY DEF EvidenceInv, TypeOK, Run
<1>2. CASE attachment'[r] = attachment[r]
  BY <1>2 DEF CleanupMove, Exists
<1>3. ASSUME Completing(w), OwnsClaim(sweep[w].claim), Record(w), UNCHANGED store,
             \/ sweep' = [sweep EXCEPT ![w] = Idle]
             \/ sweep' = [sweep EXCEPT ![w] = Done(w)]
      PROVE  CleanupMove(r)
  <2>. DEFINE s == sweep[w].claim.reservation
  <2>1. s \in Reservation /\ Exists(s)
    BY <1>3 DEF EvidenceInv, TypeOK, SweepSound, Completing, Expired, Claim, Failure
  <2>2. sweep'[w].claim = None
    BY <1>1, <1>3 DEF Done, Idle
  <2>3. attachment' = [attachment EXCEPT ![s] = CompleteRow(attachment[s], sweep[w].at)]
    BY <1>3 DEF Record
  <2>4. CASE r = s
    BY <1>1, <1>3, <2>1, <2>2, <2>3, <2>4 DEF RecordedBy, CleanupMove
  <2>5. CASE r # s
    BY <1>1, <1>2, <2>3, <2>5
  <2>. QED  BY <2>4, <2>5
<1>4. ASSUME NEW rows \in SUBSET Reservation, ClaimExpired(w, rows)
      PROVE  CleanupMove(r)
  <2>1. CASE r \notin rows
    BY <1>2, <1>4, <2>1 DEF ClaimExpired
  <2>2. CASE r \in rows
    <3>1. Exists(r) /\ attachment[r].closed /\ attachment[r] \in Row
      BY <1>4, <2>2, RowsTyped DEF EvidenceInv, ClaimExpired, Claimable
    <3>2. attachment'[r] = [attachment[r] EXCEPT !.cleanup = "PENDING", !.attempt = @ + 1,
                                                 !.stale = FALSE]
      BY <1>4, <2>2 DEF ClaimExpired
    <3>. QED  BY <3>1, <3>2 DEF Row, CleanupMove
  <2>. QED  BY <2>1, <2>2
<1>. QED
  BY <1>2, <1>3, <1>4
     DEF RunOnce, RunFails, Purge, Delete, VerifyEmpty, Complete, PurgeFails,
         CompletionLost, AnswerLost, SweepDies, service

LEMMA CleanupMoves ==
  ASSUME EvidenceInv, [Next]_vars, NEW r \in Reservation
  PROVE  CleanupMove(r)
<1>1. /\ attachment \in [Reservation -> Row \cup {None}]
      /\ Exists(r) => attachment[r] \in Row
  BY RowsTyped DEF EvidenceInv
<1>2. CASE attachment'[r] = attachment[r]
  BY <1>2 DEF CleanupMove, Exists
<1>3. ASSUME NEW s \in Reservation, Client(s)
      PROVE  CleanupMove(r)
  BY <1>1, <1>2, <1>3
     DEF Client, Ask, Reserve, ReserveAgain, Resume, NewRow, CleanupMove, Exists
<1>4. ASSUME NEW s \in Reservation, Passage(s) \/ OutlivedLease(s)
      PROVE  CleanupMove(r)
  <2>1. \/ attachment' = [attachment EXCEPT ![s] = [attachment[s] EXCEPT !.closed = TRUE]]
        \/ attachment' = [attachment EXCEPT ![s] = [attachment[s] EXCEPT !.stale = TRUE]]
    BY <1>1, <1>4 DEF Passage, WindowCloses, AbandonedLease, OutlivedLease, LeaseRunsOut
  <2>2. Exists(s) /\ attachment[s] \in Row
    BY <1>4, RowsTyped
       DEF EvidenceInv, Passage, WindowCloses, AbandonedLease, OutlivedLease, LeaseRunsOut
  <2>3. r = s => attachment'[r].cleanup = attachment[r].cleanup
    BY <1>1, <2>1, <2>2 DEF Row
  <2>4. r # s => attachment'[r] = attachment[r]
    BY <1>1, <2>1
  <2>. QED  BY <1>2, <2>2, <2>3, <2>4 DEF CleanupMove
<1>5. ASSUME NEW c \in Call, Finalization(c) \/ CallFails(c)
      PROVE  CleanupMove(r)
  <2>1. ASSUME NEW s \in Reservation, RequestFinalize(c, s)
        PROVE  CleanupMove(r)
    <3>1. attachment' = [attachment EXCEPT ![s] = [attachment[s] EXCEPT !.requested = TRUE]]
      BY <1>1, <2>1 DEF RequestFinalize
    <3>2. Exists(s) /\ attachment[s] \in Row
      BY <2>1, RowsTyped DEF EvidenceInv, RequestFinalize, Pending
    <3>3. r = s => attachment'[r].cleanup = attachment[r].cleanup
      BY <1>1, <3>1, <3>2 DEF Row
    <3>4. r # s => attachment'[r] = attachment[r]
      BY <1>1, <3>1
    <3>. QED  BY <1>2, <3>2, <3>3, <3>4 DEF CleanupMove
  <2>2. ASSUME Finalize(c)
        PROVE  CleanupMove(r)
    <3>. DEFINE s == call[c].reservation
                rejected == [attachment[s] EXCEPT !.status = "REJECTED"]
                verified == Verified(attachment[s], call[c].version)
    <3>1. \/ attachment' = attachment
          \/ /\ Pending(s)
             /\ \/ attachment' = [attachment EXCEPT ![s] = rejected]
                \/ attachment' = [attachment EXCEPT ![s] = verified]
      BY <2>2 DEF Finalize
    <3>2. s \in Reservation
      BY <2>2 DEF Finalize, EvidenceInv, TypeOK
    <3>3. Pending(s) => /\ Exists(s) /\ attachment[s] \in Row
                        /\ rejected.cleanup = attachment[s].cleanup
                        /\ verified.cleanup = attachment[s].cleanup
      BY <3>2, RowsTyped DEF EvidenceInv, Pending, Row, Verified
    <3>. HIDE DEF s, rejected, verified
    <3>4. r = s /\ Exists(s) /\ attachment' # attachment
          => attachment'[r].cleanup = attachment[r].cleanup
      BY <1>1, <3>1, <3>2, <3>3
    <3>5. r # s => attachment'[r] = attachment[r]
      BY <1>1, <3>1, <3>2
    <3>. QED  BY <1>2, <3>1, <3>3, <3>4, <3>5 DEF CleanupMove
  <2>. QED  BY <1>2, <1>5, <2>1, <2>2 DEF Finalization, Inspect, Scan, CallFails
<1>6. CASE \/ \E url \in urls, file \in File : Put(url, file)
           \/ UNCHANGED vars
  BY <1>2, <1>6 DEF Put, service, vars
<1>. QED  BY <1>3, <1>4, <1>5, <1>6, RunCleanup DEF Next

(* A run that lost its claim to another one cannot end it.                 *)
THEOREM OnlyTheClaimSettles == Spec => SettledByItsClaim
<1>1. ASSUME EvidenceInv, [Next]_vars, NEW r \in Reservation,
             Exists(r), attachment[r].cleanup = "PENDING", attachment'[r].cleanup # "PENDING"
      PROVE  \E w \in Sweep :
               /\ sweep[w].claim = [reservation |-> r, attempt |-> attachment[r].attempt]
               /\ sweep'[w].claim = None
  <2>1. attachment'[r] # None
    BY <1>1, StepMoves DEF RowsMove, Exists
  <2>2. PICK w \in Sweep : RecordedBy(r, w)
    BY <1>1, <2>1, CleanupMoves DEF CleanupMove
  <2>3. sweep[w].claim \in Claim
    BY <1>1, <2>2 DEF RecordedBy, Completing, EvidenceInv, TypeOK, SweepSound, Failure
  <2>4. sweep[w].claim = [reservation |-> r, attempt |-> attachment[r].attempt]
    BY <2>2, <2>3 DEF RecordedBy, OwnsClaim, Claim
  <2>. QED  BY <2>2, <2>4 DEF RecordedBy
<1>2. EvidenceInv /\ [Next]_vars =>
        [\A r \in Reservation :
           /\ Exists(r)
           /\ attachment[r].cleanup = "PENDING" /\ attachment'[r].cleanup # "PENDING"
           => \E w \in Sweep :
                /\ sweep[w].claim =
                     [reservation |-> r, attempt |-> attachment[r].attempt]
                /\ sweep'[w].claim = None]_vars
  BY <1>1
<1>. QED  BY <1>2, EvidenceInductive, PTL DEF Spec, SettledByItsClaim

-----------------------------------------------------------------------------
(* What the store keeps when no two reservations share an object           *)

OwnObjects == \A r, s \in Reservation : ObjectOf[r] = ObjectOf[s] => r = s

LateOnly(r) == \A i \in Versions(ObjectOf[r]) : uploads[i].late

(* While the window of its reservation is open, the version that a         *)
(* finalization request looked at is there.                                *)
CallHeld(c) ==
  call[c] # None /\ call[c].version # None =>
    /\ uploads[call[c].version].object = ObjectOf[call[c].reservation]
    /\ ~attachment[call[c].reservation].closed => call[c].version \in held

RowHeld(r) ==
  Exists(r) =>
    /\ attachment[r].status = "VERIFIED_CLEAN" =>
         /\ attachment[r].version \in held
         /\ uploads[attachment[r].version].object = ObjectOf[r]
    /\ attachment[r].cleanup # "NONE" => attachment[r].closed
    /\ attachment[r].cleanup = "COMPLETE" => LateOnly(r)

SweepEmptied(w) == sweep[w].at = "DELETED" => LateOnly(sweep[w].claim.reservation)

StoreInv ==
  /\ EvidenceInv
  /\ \A c \in Call : CallHeld(c)
  /\ \A r \in Reservation : RowHeld(r)
  /\ \A w \in Sweep : SweepEmptied(w)

(* Only versions of expired rows go, and what comes is late if it comes    *)
(* for a row whose window is over.                                         *)
LEMMA HeldMoves ==
  ASSUME EvidenceInv, [Next]_vars
  PROVE  /\ \A i \in held \ held' :
              \E s \in Reservation : Expired(s) /\ uploads[i].object = ObjectOf[s]
         /\ \A i \in held' \ held :
              \E s \in Reservation :
                /\ Exists(s)
                /\ uploads'[i].object = ObjectOf[s]
                /\ uploads'[i].late = attachment[s].closed
<1>1. CASE UNCHANGED held
  BY <1>1
<1>2. ASSUME NEW w \in Sweep, NEW j \in sweep[w].todo, Delete(w, j)
      PROVE  /\ held' \subseteq held
             /\ \A i \in held \ held' :
                  \E s \in Reservation : Expired(s) /\ uploads[i].object = ObjectOf[s]
  <2>. DEFINE s == sweep[w].claim.reservation
  <2>1. SweepSound(w) /\ sweep[w] \in Run /\ sweep[w].at = "DELETE"
    BY <1>2 DEF EvidenceInv, TypeOK, Run, Delete
  <2>2. s \in Reservation /\ Expired(s) /\ uploads[j].object = ObjectOf[s]
    BY <2>1 DEF SweepSound, Run, Claim
  <2>3. held' = held \/ held' = held \ {j}
    BY <1>2 DEF Delete
  <2>. HIDE DEF s
  <2>. QED  BY <2>2, <2>3
<1>3. ASSUME NEW url \in urls, NEW file \in File, Put(url, file)
      PROVE  /\ held \subseteq held'
             /\ \A i \in held' \ held :
                  \E s \in Reservation :
                    /\ Exists(s)
                    /\ uploads'[i].object = ObjectOf[s]
                    /\ uploads'[i].late = attachment[s].closed
  <2>. DEFINE s == url.reservation
              new == [object |-> ObjectOf[s], hash |-> attachment[s].declares,
                      file |-> file, late |-> attachment[s].closed]
  <2>1. s \in Reservation /\ Exists(s) /\ attachment[s] \in Row
    BY <1>3, RowsTyped DEF EvidenceInv, TypeOK, Url
  <2>2. new \in Upload
    BY <2>1, EvidenceAssumption DEF Row, Upload
  <2>3. /\ uploads \in Seq(Upload) /\ uploads' = Append(uploads, new)
        /\ held' = held \cup {Len(uploads) + 1}
    BY <1>3 DEF Put, EvidenceInv, TypeOK
  <2>4. new.object = ObjectOf[s] /\ new.late = attachment[s].closed
    OBVIOUS
  <2>. HIDE DEF new, s
  <2>5. uploads'[Len(uploads) + 1] = new
    BY <2>2, <2>3
  <2>. QED  BY <2>1, <2>3, <2>4, <2>5
<1>4. ASSUME NEW w \in Sweep, RunOnce(w) \/ RunFails(w),
             ~ \E j \in sweep[w].todo : Delete(w, j)
      PROVE  UNCHANGED held
  BY <1>4
     DEF RunOnce, RunFails, ClaimExpired, Purge, VerifyEmpty, Complete, PurgeFails,
         CompletionLost, AnswerLost, SweepDies, store
<1>. QED  BY <1>1, <1>2, <1>3, <1>4, OthersKeepStore DEF Next, store

LEMMA LateOnlyStays ==
  ASSUME EvidenceInv, [Next]_vars, OwnObjects,
         NEW r \in Reservation, attachment[r].closed, LateOnly(r)
  PROVE  LateOnly(r)'
<1>1. SUFFICES ASSUME NEW i \in held', uploads'[i].object = ObjectOf[r]
               PROVE  uploads'[i].late
  BY DEF LateOnly, Versions
<1>2. CASE i \in held
  <2>1. uploads'[i] = uploads[i]
    BY <1>2, StoreGrows DEF EvidenceInv, TypeOK, Growing
  <2>. QED  BY <1>1, <1>2, <2>1 DEF LateOnly, Versions
<1>3. CASE i \notin held
  <2>1. PICK s \in Reservation : /\ uploads'[i].object = ObjectOf[s]
                                 /\ uploads'[i].late = attachment[s].closed
    BY <1>1, <1>3, HeldMoves
  <2>2. s = r
    BY <1>1, <2>1 DEF OwnObjects
  <2>. QED  BY <2>1, <2>2
<1>. QED  BY <1>2, <1>3

LEMMA RowHeldStep ==
  ASSUME StoreInv, [Next]_vars, OwnObjects, NEW r \in Reservation
  PROVE  RowHeld(r)'
<1>. USE DEF StoreInv
<1>1. /\ RowsMove /\ Growing /\ RowHeld(r) /\ CleanupMove(r)
      /\ held \subseteq DOMAIN uploads
  BY StepMoves, StoreGrows, CleanupMoves DEF EvidenceInv, TypeOK
<1>2. SUFFICES ASSUME Exists(r)'
               PROVE  /\ attachment'[r].status = "VERIFIED_CLEAN" =>
                           /\ attachment'[r].version \in held'
                           /\ uploads'[attachment'[r].version].object = ObjectOf[r]
                      /\ attachment'[r].cleanup # "NONE" => attachment'[r].closed
                      /\ attachment'[r].cleanup = "COMPLETE" => LateOnly(r)'
  BY DEF RowHeld
<1>3. ASSUME attachment'[r].status = "VERIFIED_CLEAN"
      PROVE  /\ attachment'[r].version \in held'
             /\ uploads'[attachment'[r].version].object = ObjectOf[r]
  <2>1. CASE Exists(r) /\ attachment[r].status = "VERIFIED_CLEAN"
    <3>. DEFINE i == attachment[r].version
    <3>1. attachment'[r].version = i
      BY <1>1, <2>1 DEF RowsMove, Follows
    <3>2. i \in held /\ uploads[i].object = ObjectOf[r] /\ uploads'[i] = uploads[i]
      BY <1>1, <2>1 DEF RowHeld, Growing
    <3>3. i \in held'
      <4>1. SUFFICES ASSUME i \notin held'
                     PROVE  FALSE
        OBVIOUS
      <4>2. PICK s \in Reservation : Expired(s) /\ uploads[i].object = ObjectOf[s]
        BY <3>2, <4>1, HeldMoves
      <4>3. s = r
        BY <3>2, <4>2 DEF OwnObjects
      <4>. QED  BY <2>1, <4>2, <4>3 DEF Expired
    <3>. QED  BY <3>1, <3>2, <3>3
  <2>2. CASE ~(Exists(r) /\ attachment[r].status = "VERIFIED_CLEAN")
    <3>1. PICK c \in Call : VerifiedBy(r, c)
      BY <1>2, <1>3, <2>2, NewlyVerified
    <3>2. CallHeld(c) /\ call[c] # None /\ UNCHANGED store
      BY <3>1 DEF VerifiedBy, Finalize
    <3>. QED  BY <3>1, <3>2 DEF VerifiedBy, CallHeld, store
  <2>. QED  BY <2>1, <2>2
<1>4. ASSUME attachment'[r].cleanup # "NONE"
      PROVE  attachment'[r].closed
  <2>1. Exists(r) /\ attachment[r].closed
    <3>1. CASE Exists(r) /\ attachment'[r].cleanup = attachment[r].cleanup
      BY <1>1, <1>4, <3>1 DEF RowHeld
    <3>2. ASSUME NEW w \in Sweep, RecordedBy(r, w)
          PROVE  attachment[r].closed
      BY <3>2 DEF RecordedBy, Completing, EvidenceInv, SweepSound, Expired, Failure
    <3>. QED  BY <1>1, <1>2, <1>4, <3>1, <3>2 DEF CleanupMove, Exists
  <2>. QED  BY <1>1, <2>1 DEF RowsMove, Follows
<1>5. ASSUME attachment'[r].cleanup = "COMPLETE"
      PROVE  LateOnly(r)'
  <2>1. CASE Exists(r) /\ attachment'[r].cleanup = attachment[r].cleanup
    BY <1>1, <1>5, <2>1, LateOnlyStays DEF RowHeld
  <2>2. ASSUME NEW w \in Sweep, RecordedBy(r, w)
        PROVE  LateOnly(r)'
    <3>1. Exists(r) /\ attachment[r] \in Row /\ attachment[r].cleanup = "PENDING"
      BY <2>2, RowsTyped
         DEF RecordedBy, OwnsClaim, Completing, EvidenceInv, SweepSound, Expired, Failure
    <3>2. sweep[w].at = "DELETED"
      BY <1>5, <2>2, <3>1 DEF RecordedBy, CompleteRow, Row
    <3>3. LateOnly(r) /\ UNCHANGED store
      BY <2>2, <3>2 DEF SweepEmptied, RecordedBy
    <3>. QED  BY <3>3 DEF LateOnly, Versions, store
  <2>. QED  BY <1>1, <1>2, <1>5, <2>1, <2>2 DEF CleanupMove, Exists
<1>. QED  BY <1>3, <1>4, <1>5

(* A request keeps its reservation and version, or starts, or looks.       *)
LEMMA CallVersion ==
  ASSUME EvidenceInv, [Next]_vars, NEW c \in Call,
         call'[c] # None, call'[c].version # None
  PROVE  \/ /\ call[c] # None /\ call'[c].reservation = call[c].reservation
            /\ call'[c].version = call[c].version
         \/ /\ call'[c].version \in Versions(ObjectOf[call'[c].reservation])
            /\ UNCHANGED store
<1>1. call \in [Call -> Request \cup {None}]
  BY DEF EvidenceInv, TypeOK, Request
<1>2. CASE call'[c] = call[c]
  BY <1>2
<1>3. ASSUME NEW d \in Call, Finalization(d) \/ CallFails(d), d # c
      PROVE  call'[c] = call[c]
  BY <1>1, <1>3
     DEF Finalization, RequestFinalize, Inspect, Scan, Finalize, CallFails
<1>4. CASE Finalize(c) \/ CallFails(c) \/ \E r \in Reservation : RequestFinalize(c, r)
  BY <1>1, <1>4 DEF Finalize, CallFails, RequestFinalize
<1>5. CASE Scan(c)
  <2>1. call[c] \in Request
    BY <1>1, <1>5 DEF Scan
  <2>. QED  BY <1>1, <1>5, <2>1 DEF Scan, Request
<1>6. CASE Inspect(c)
  <2>1. call[c] \in Request
    BY <1>1, <1>6 DEF Inspect
  <2>. QED  BY <1>1, <1>6, <2>1 DEF Inspect, Request, Latest
<1>7. CASE \E r \in Reservation : Client(r) \/ Passage(r) \/ OutlivedLease(r)
  BY <1>2, <1>7
     DEF Client, Ask, Reserve, ReserveAgain, Resume, Passage, WindowCloses,
         AbandonedLease, OutlivedLease, LeaseRunsOut
<1>8. CASE \E url \in urls, file \in File : Put(url, file)
  BY <1>2, <1>8 DEF Put, service
<1>9. CASE \E w \in Sweep : RunOnce(w) \/ RunFails(w)
  BY <1>2, <1>9
     DEF RunOnce, RunFails, ClaimExpired, Purge, Delete, VerifyEmpty, Complete,
         PurgeFails, CompletionLost, AnswerLost, SweepDies, service
<1>. QED
  BY <1>2, <1>3, <1>4, <1>5, <1>6, <1>7, <1>8, <1>9 DEF Next, Finalization, vars

LEMMA CallHeldStep ==
  ASSUME StoreInv, [Next]_vars, OwnObjects, NEW c \in Call
  PROVE  CallHeld(c)'
<1>. USE DEF StoreInv
<1>1. RowsMove /\ Growing /\ CallHeld(c) /\ CallSound(c) /\ held \subseteq DOMAIN uploads
  BY StepMoves, StoreGrows DEF EvidenceInv, TypeOK
<1>2. SUFFICES ASSUME call'[c] # None, call'[c].version # None
               PROVE  /\ uploads'[call'[c].version].object = ObjectOf[call'[c].reservation]
                      /\ ~attachment'[call'[c].reservation].closed => call'[c].version \in held'
  BY DEF CallHeld
<1>3. CASE call'[c].version \in Versions(ObjectOf[call'[c].reservation]) /\ UNCHANGED store
  BY <1>3 DEF Versions, store
<1>4. CASE /\ call[c] # None /\ call'[c].reservation = call[c].reservation
           /\ call'[c].version = call[c].version
  <2>. DEFINE i == call[c].version
              r == call[c].reservation
  <2>1. /\ r \in Reservation /\ Exists(r) /\ i \in DOMAIN uploads /\ uploads'[i] = uploads[i]
        /\ uploads[i].object = ObjectOf[r]
        /\ ~attachment[r].closed => i \in held
    BY <1>1, <1>2, <1>4 DEF CallSound, CallHeld, Growing, EvidenceInv, TypeOK
  <2>2. ~attachment'[r].closed => ~attachment[r].closed
    BY <1>1, <2>1 DEF RowsMove, Follows
  <2>3. ASSUME ~attachment[r].closed, i \notin held'
        PROVE  FALSE
    <3>1. PICK s \in Reservation : Expired(s) /\ uploads[i].object = ObjectOf[s]
      BY <2>1, <2>3, HeldMoves
    <3>2. s = r
      BY <2>1, <3>1 DEF OwnObjects
    <3>. QED  BY <2>3, <3>1, <3>2 DEF Expired
  <2>. QED  BY <1>4, <2>1, <2>2, <2>3
<1>. QED  BY <1>2, <1>3, <1>4, CallVersion

LEMMA SweepEmptiedStep ==
  ASSUME StoreInv, [Next]_vars, OwnObjects, NEW w \in Sweep
  PROVE  SweepEmptied(w)'
<1>. USE DEF StoreInv
<1>1. SUFFICES ASSUME sweep'[w].at = "DELETED"
               PROVE  \A i \in held' :
                        uploads'[i].object = ObjectOf[sweep'[w].claim.reservation]
                        => uploads'[i].late
  BY DEF SweepEmptied, LateOnly, Versions
<1>2. sweep \in [Sweep -> Run] /\ SweepSound(w) /\ SweepEmptied(w)
  BY DEF EvidenceInv, TypeOK, Run
<1>3. ASSUME sweep'[w] = sweep[w]
      PROVE  \A i \in held' :
               uploads'[i].object = ObjectOf[sweep'[w].claim.reservation] => uploads'[i].late
  <2>. DEFINE r == sweep[w].claim.reservation
  <2>1. r \in Reservation /\ attachment[r].closed /\ LateOnly(r)
    BY <1>1, <1>2, <1>3 DEF SweepSound, SweepEmptied, Expired, Run, Claim
  <2>2. \A i \in held' : uploads'[i].object = ObjectOf[r] => uploads'[i].late
    BY <2>1, LateOnlyStays DEF LateOnly, Versions
  <2>. QED  BY <1>3, <2>2
<1>4. ASSUME VerifyEmpty(w)
      PROVE  \A i \in held' :
               uploads'[i].object = ObjectOf[sweep'[w].claim.reservation] => uploads'[i].late
  <2>1. PurgeOutcome(w) = "DELETED" /\ sweep'[w].claim = sweep[w].claim
    BY <1>1, <1>2, <1>4 DEF VerifyEmpty, Run
  <2>2. Versions(ObjectOf[sweep[w].claim.reservation]) = {} /\ UNCHANGED store
    BY <1>4, <2>1 DEF PurgeOutcome, VerifyEmpty
  <2>. QED  BY <2>1, <2>2 DEF LateOnly, Versions, store
<1>5. CASE \E v \in Sweep : RunOnce(v) \/ RunFails(v)
  <2>1. ASSUME NEW v \in Sweep, v # w, RunOnce(v) \/ RunFails(v)
        PROVE  sweep'[w] = sweep[w]
    BY <1>2, <2>1
       DEF RunOnce, RunFails, ClaimExpired, Purge, Delete, VerifyEmpty, Complete,
           PurgeFails, CompletionLost, AnswerLost, SweepDies
  <2>2. ASSUME RunOnce(w) \/ RunFails(w), ~VerifyEmpty(w)
        PROVE  sweep'[w].at # "DELETED"
    <3>1. sweep[w] \in Run
      BY <1>2
    <3>2. CASE \/ sweep' = [sweep EXCEPT ![w] = Idle]
               \/ sweep' = [sweep EXCEPT ![w] = Done(w)]
      BY <1>2, <3>2 DEF Idle, Done
    <3>3. CASE \E rows \in SUBSET Reservation : ClaimExpired(w, rows)
      <4>1. sweep[w].at = "IDLE"
        BY <3>3, IdleRun DEF ClaimExpired
      <4>2. PICK batch : sweep' = [sweep EXCEPT ![w].batch = batch]
        BY <3>3 DEF ClaimExpired
      <4>. QED  BY <1>2, <3>1, <4>1, <4>2 DEF Run
    <3>4. CASE \E c \in sweep[w].batch : Purge(w, c)
      BY <1>2, <3>4 DEF Purge
    <3>5. CASE \E i \in sweep[w].todo : Delete(w, i)
      BY <1>2, <3>1, <3>5 DEF Delete, Run
    <3>6. CASE PurgeFails(w) \/ CompletionLost(w)
      BY <1>2, <3>1, <3>2, <3>6 DEF PurgeFails, CompletionLost, Run
    <3>. QED
      BY <2>2, <3>2, <3>3, <3>4, <3>5, <3>6
         DEF RunOnce, RunFails, Complete, AnswerLost, SweepDies
  <2>. QED  BY <1>1, <1>3, <1>4, <1>5, <2>1, <2>2
<1>6. CASE \/ \E r \in Reservation : Client(r) \/ Passage(r) \/ OutlivedLease(r)
           \/ \E url \in urls, file \in File : Put(url, file)
           \/ \E c \in Call : Finalization(c) \/ CallFails(c)
           \/ UNCHANGED vars
  <2>1. UNCHANGED sweep
    BY <1>6
       DEF Client, Ask, Reserve, ReserveAgain, Resume, Passage, WindowCloses,
           AbandonedLease, OutlivedLease, LeaseRunsOut, Put, Finalization,
           RequestFinalize, Inspect, Scan, Finalize, CallFails, vars
  <2>. QED  BY <1>3, <2>1
<1>. QED  BY <1>5, <1>6 DEF Next

LEMMA StoreInductive ==
  ASSUME OwnObjects
  PROVE  /\ Init => StoreInv
         /\ StoreInv /\ [Next]_vars => StoreInv'
<1>1. ASSUME Init
      PROVE  StoreInv
  <2>1. /\ \A c \in Call : CallHeld(c)
        /\ \A r \in Reservation : RowHeld(r)
        /\ \A w \in Sweep : SweepEmptied(w)
    BY <1>1, IdleRun DEF Init, CallHeld, RowHeld, SweepEmptied, Exists
  <2>. QED  BY <1>1, <2>1, EvidenceInductive DEF StoreInv
<1>2. ASSUME StoreInv, [Next]_vars
      PROVE  StoreInv'
  <2>1. EvidenceInv'
    BY <1>2, EvidenceInductive DEF StoreInv
  <2>. QED
    BY <1>2, <2>1, RowHeldStep, CallHeldStep, SweepEmptiedStep DEF StoreInv
<1>. QED  BY <1>1, <1>2

(* Where every reservation has an object key of its own, no cleanup run,   *)
(* however late, deletes a verified version.                               *)
THEOREM VerifiedIsKept ==
  ASSUME OwnObjects
  PROVE  Spec => []EvidenceKept
<1>1. StoreInv => EvidenceKept
  BY DEF StoreInv, EvidenceKept, RowHeld
<1>. QED  BY <1>1, StoreInductive, PTL DEF Spec

(* Where every reservation has an object key of its own, a row that is     *)
(* recorded as cleaned has nothing in the store but what came late.        *)
THEOREM CleanedIsGone ==
  ASSUME OwnObjects
  PROVE  Spec => []CleanedLeavesNothing
<1>1. StoreInv => CleanedLeavesNothing
  BY DEF StoreInv, CleanedLeavesNothing, RowHeld, LateOnly
<1>. QED  BY <1>1, StoreInductive, PTL DEF Spec

-----------------------------------------------------------------------------
(* The vault                                                               *)

(* Versions come in time while the window is open, and only for a          *)
(* reservation there is.                                                   *)
OnTime(r) ==
  \A i \in Versions(ObjectOf[r]) : Exists(r) /\ (uploads[i].late => attachment[r].closed)

VaultInv == StoreInv /\ \A r \in Reservation : OnTime(r)

LEMMA OnTimeStep ==
  ASSUME VaultInv, [Next]_vars, OwnObjects, NEW r \in Reservation
  PROVE  OnTime(r)'
<1>. USE DEF VaultInv, StoreInv
<1>1. /\ RowsMove /\ Growing /\ OnTime(r) /\ held \subseteq DOMAIN uploads
  BY StepMoves, StoreGrows DEF EvidenceInv, TypeOK
<1>2. SUFFICES ASSUME NEW i \in held', uploads'[i].object = ObjectOf[r]
               PROVE  Exists(r)' /\ (uploads'[i].late => attachment'[r].closed)
  BY DEF OnTime, Versions
<1>3. Exists(r) /\ (uploads'[i].late => attachment[r].closed)
  <2>1. CASE i \in held
    BY <1>1, <1>2, <2>1 DEF OnTime, Versions, Growing
  <2>2. CASE i \notin held
    BY <1>2, <2>2, HeldMoves DEF OwnObjects
  <2>. QED  BY <2>1, <2>2
<1>. QED  BY <1>1, <1>3 DEF RowsMove, Follows

LEMMA VaultInductive ==
  ASSUME OwnObjects
  PROVE  /\ Init => VaultInv
         /\ VaultInv /\ [Next]_vars => VaultInv'
<1>1. Init => \A r \in Reservation : OnTime(r)
  BY DEF Init, OnTime, Versions
<1>. QED  BY <1>1, StoreInductive, OnTimeStep DEF VaultInv

Stock(r) == {Deposit(i) : i \in InTime(r)}

RowStays(r) ==
  Standing(r)' = Standing(r) /\ Declared(r)' = Declared(r) /\ Evidence(r)' = Evidence(r)

(* How a row stands and what it is verified with.                          *)
Shows(r) ==
  /\ ~Exists(r) => Standing(r) = None /\ Evidence(r) = None
  /\ Exists(r) =>
       /\ Standing(r) =
            IF attachment[r].status = "REJECTED" /\ attachment[r].cleanup = "COMPLETE"
              THEN "CLEANED" ELSE attachment[r].status
       /\ Evidence(r) =
            IF attachment[r].version # None THEN Deposit(attachment[r].version) ELSE None
       /\ Declared(r) = attachment[r].declares

LEMMA RowShows == \A r \in Reservation : Shows(r) /\ Shows(r)'
BY DEF Shows, Standing, Evidence, Declared, Exists, Deposit

LEMMA SameRow ==
  ASSUME EvidenceInv, [Next]_vars, NEW r \in Reservation, attachment'[r] = attachment[r]
  PROVE  RowStays(r)
<1>1. Exists(r) /\ attachment[r].version # None =>
        attachment[r].version \in DOMAIN uploads /\ Growing
  BY RowsTyped, StoreGrows DEF EvidenceInv, Linked
<1>. QED  BY <1>1 DEF RowStays, Standing, Declared, Evidence, Exists, Deposit, Growing

LEMMA LikeRow ==
  ASSUME EvidenceInv, [Next]_vars, NEW r \in Reservation, Exists(r),
         attachment'[r].status = attachment[r].status,
         attachment'[r].version = attachment[r].version,
         attachment[r].status = "REJECTED" => attachment'[r].cleanup = attachment[r].cleanup
  PROVE  RowStays(r)
<1>1. Exists(r)' /\ attachment'[r].declares = attachment[r].declares
  BY StepMoves DEF RowsMove, Follows
<1>2. attachment[r].version # None =>
        attachment[r].version \in DOMAIN uploads /\ Growing
  BY RowsTyped, StoreGrows DEF EvidenceInv, Linked
<1>. QED  BY <1>1, <1>2 DEF RowStays, Standing, Declared, Evidence, Exists, Deposit, Growing

LEMMA SameStock ==
  ASSUME UNCHANGED store
  PROVE  \A r \in Reservation : Stock(r)' = Stock(r)
  BY DEF store, Stock, InTime, Versions, Deposit

LEMMA VaultUnchanged ==
  ASSUME \A r \in Reservation : RowStays(r), UNCHANGED store
  PROVE  UNCHANGED Vault!vars
<1>1. /\ [r \in Reservation |-> Standing(r)]' = [r \in Reservation |-> Standing(r)]
      /\ [r \in Reservation |-> Declared(r)]' = [r \in Reservation |-> Declared(r)]
      /\ [r \in Reservation |-> Evidence(r)]' = [r \in Reservation |-> Evidence(r)]
  BY DEF RowStays
<1>2. [r \in Reservation |-> {Deposit(i) : i \in InTime(r)}]' =
        [r \in Reservation |-> {Deposit(i) : i \in InTime(r)}]
  BY SameStock DEF Stock
<1>. QED  BY <1>1, <1>2 DEF Vault!vars

(* The vault's actions, told row by row.                                   *)
StockStays(r) == Stock(r)' = Stock(r)

LEMMA VaultReserves ==
  ASSUME NEW r \in Reservation, Standing(r) = None,
         Standing(r)' = "PENDING", Evidence(r)' = Evidence(r),
         \A s \in Reservation : s # r => RowStays(s),
         \A s \in Reservation : StockStays(s)
  PROVE  Vault!Next
<1>1. Vault!Reserve(r, [s \in Reservation |-> Declared(s)]'[r])
  BY DEF Vault!Reserve, RowStays, StockStays, Stock
<1>. QED  BY <1>1 DEF Vault!Next

LEMMA VaultDecides ==
  ASSUME NEW r \in Reservation, Standing(r) = "PENDING", Declared(r)' = Declared(r),
         \A s \in Reservation : s # r => RowStays(s),
         \A s \in Reservation : StockStays(s),
         \/ /\ Standing(r)' = "VERIFIED_CLEAN" /\ Evidence(r)' \in Stock(r)
            /\ Evidence(r)'.file = Declared(r) /\ Evidence(r)'.file \notin Infected
         \/ Standing(r)' = "REJECTED" /\ Evidence(r)' = Evidence(r)
         \/ Standing(r)' = "CLEANED" /\ Evidence(r)' = Evidence(r) /\ Stock(r) = {}
  PROVE  Vault!Next
<1>1. /\ [s \in Reservation |-> Standing(s)]' =
           [[s \in Reservation |-> Standing(s)] EXCEPT ![r] = Standing(r)']
      /\ [s \in Reservation |-> Declared(s)]' = [s \in Reservation |-> Declared(s)]
      /\ [s \in Reservation |-> Evidence(s)]' =
           [[s \in Reservation |-> Evidence(s)] EXCEPT ![r] = Evidence(r)']
      /\ [s \in Reservation |-> {Deposit(i) : i \in InTime(s)}]' =
           [s \in Reservation |-> {Deposit(i) : i \in InTime(s)}]
  BY DEF RowStays, StockStays, Stock
<1>2. Evidence(r)' = Evidence(r) =>
        [s \in Reservation |-> Evidence(s)]' = [s \in Reservation |-> Evidence(s)]
  BY DEF RowStays
<1>3. [s \in Reservation |-> Evidence(s)]'[r] = Evidence(r)'
  OBVIOUS
<1>4. CASE Standing(r)' = "VERIFIED_CLEAN" /\ Evidence(r)' \in Stock(r)
           /\ Evidence(r)'.file = Declared(r) /\ Evidence(r)'.file \notin Infected
  <2>1. Vault!Verify(r, [s \in Reservation |-> Evidence(s)]'[r])
    BY <1>1, <1>3, <1>4 DEF Vault!Verify, Stock
  <2>. QED  BY <2>1 DEF Vault!Next
<1>5. CASE Standing(r)' = "REJECTED" /\ Evidence(r)' = Evidence(r)
  BY <1>1, <1>2, <1>5 DEF Vault!Reject, Vault!Next
<1>6. CASE Standing(r)' = "CLEANED" /\ Evidence(r)' = Evidence(r) /\ Stock(r) = {}
  BY <1>1, <1>2, <1>6 DEF Vault!Clean, Vault!Next, Stock
<1>. QED  BY <1>4, <1>5, <1>6

LEMMA VaultReceives ==
  ASSUME NEW r \in Reservation, NEW d, d \notin Stock(r), Stock(r)' = Stock(r) \cup {d},
         Standing(r) \notin {None, "CLEANED"},
         \A s \in Reservation : RowStays(s),
         \A s \in Reservation : s # r => StockStays(s)
  PROVE  Vault!Next
<1>1. Vault!Arrive(r, d)
  BY DEF Vault!Arrive, RowStays, StockStays, Stock
<1>2. d \in [s \in Reservation |-> {Deposit(i) : i \in InTime(s)}]'[r]
           \ [s \in Reservation |-> {Deposit(i) : i \in InTime(s)}][r]
  BY DEF Stock
<1>. QED  BY <1>1, <1>2 DEF Vault!Next

LEMMA VaultDiscards ==
  ASSUME NEW r \in Reservation, NEW d \in Stock(r), Stock(r)' = Stock(r) \ {d},
         Standing(r) # "VERIFIED_CLEAN",
         \A s \in Reservation : RowStays(s),
         \A s \in Reservation : s # r => StockStays(s)
  PROVE  Vault!Next
<1>1. Vault!Discard(r, d)
  BY DEF Vault!Discard, RowStays, StockStays, Stock
<1>2. d \in [s \in Reservation |-> {Deposit(i) : i \in InTime(s)}][r]
           \ [s \in Reservation |-> {Deposit(i) : i \in InTime(s)}]'[r]
  BY DEF Stock
<1>. QED  BY <1>1, <1>2 DEF Vault!Next

-----------------------------------------------------------------------------
(* Every action is a step of the vault or leaves it as it is               *)

LEMMA ClientVault ==
  ASSUME VaultInv, [Next]_vars, NEW r \in Reservation, Client(r)
  PROVE  [Vault!Next]_(Vault!vars)
<1>. USE DEF VaultInv, StoreInv
<1>1. UNCHANGED store
  BY OthersKeepStore
<1>2. CASE UNCHANGED attachment
  BY <1>1, <1>2, SameRow, VaultUnchanged
<1>3. ASSUME NEW file \in File, Reserve(r, file)
      PROVE  Vault!Next
  <2>1. /\ attachment'[r] = NewRow(file) /\ ~Exists(r)
        /\ \A s \in Reservation : s # r => attachment'[s] = attachment[s]
    BY <1>3 DEF Reserve, EvidenceInv, TypeOK
  <2>2. /\ NewRow(file) # None /\ NewRow(file).status = "PENDING"
        /\ NewRow(file).version = None
    <3>1. NewRow(file) \in Row
      BY DEF NewRow, Row
    <3>. QED  BY <3>1, NoneAssumption DEF NewRow
  <2>3. Standing(r) = None /\ Evidence(r) = None
    BY <2>1, RowShows DEF Shows
  <2>4. Standing(r)' = "PENDING" /\ Evidence(r)' = None
    BY <2>1, <2>2, RowShows DEF Shows, Exists
  <2>. QED
    BY <1>1, <2>1, <2>3, <2>4, SameRow, SameStock, VaultReserves
       DEF StockStays
<1>. QED  BY <1>2, <1>3 DEF Client, Ask, ReserveAgain, Resume

LEMMA PassageVault ==
  ASSUME VaultInv, [Next]_vars, NEW r \in Reservation, Passage(r) \/ OutlivedLease(r)
  PROVE  UNCHANGED Vault!vars
<1>. USE DEF VaultInv, StoreInv
<1>1. UNCHANGED store
  BY OthersKeepStore
<1>2. Exists(r) /\ attachment[r] \in Row
  BY RowsTyped
     DEF EvidenceInv, Passage, WindowCloses, AbandonedLease, OutlivedLease, LeaseRunsOut
<1>3. \/ attachment' = [attachment EXCEPT ![r] = [attachment[r] EXCEPT !.closed = TRUE]]
      \/ attachment' = [attachment EXCEPT ![r] = [attachment[r] EXCEPT !.stale = TRUE]]
  BY DEF Passage, WindowCloses, AbandonedLease, OutlivedLease, LeaseRunsOut
<1>4. /\ \A s \in Reservation : s # r => attachment'[s] = attachment[s]
      /\ attachment'[r].status = attachment[r].status
      /\ attachment'[r].version = attachment[r].version
      /\ attachment'[r].cleanup = attachment[r].cleanup
  BY <1>2, <1>3 DEF EvidenceInv, TypeOK, Row
<1>5. RowStays(r)
  BY <1>2, <1>4, LikeRow
<1>. QED  BY <1>1, <1>4, <1>5, SameRow, VaultUnchanged

(* A version comes in time for the row it was presigned for, or late.      *)
LEMMA PutVault ==
  ASSUME VaultInv, [Next]_vars, OwnObjects,
         NEW url \in urls, NEW file \in File, Put(url, file)
  PROVE  [Vault!Next]_(Vault!vars)
<1>. USE DEF VaultInv, StoreInv
<1>. DEFINE r == url.reservation
            new == [object |-> ObjectOf[r], hash |-> attachment[r].declares,
                    file |-> file, late |-> attachment[r].closed]
<1>0. PICK n : n = Len(uploads) + 1
  OBVIOUS
<1>1. r \in Reservation /\ Exists(r) /\ attachment[r] \in Row
  BY RowsTyped DEF EvidenceInv, TypeOK, Url
<1>2. \A s \in Reservation : RowStays(s)
  BY SameRow DEF Put, service
<1>3. /\ uploads' = Append(uploads, new) /\ held' = held \cup {n}
      /\ held \subseteq DOMAIN uploads /\ uploads \in Seq(Upload)
  BY <1>0 DEF Put, EvidenceInv, TypeOK
<1>4. /\ new.object = ObjectOf[r] /\ new.file = file /\ new.late = attachment[r].closed
      /\ new \in Upload
  BY <1>1, EvidenceAssumption DEF Row, Upload
<1>. HIDE DEF new
<1>5. /\ \A i \in held : uploads'[i] = uploads[i] /\ i # n
      /\ uploads'[n] = new
  BY <1>0, <1>3, <1>4
<1>. HIDE DEF r
<1>6. \A s \in Reservation :
        InTime(s)' = InTime(s) \cup {i \in {n} : new.object = ObjectOf[s] /\ ~new.late}
  BY <1>3, <1>5 DEF InTime, Versions
<1>7. \A i \in held : Deposit(i)' = Deposit(i)
  BY <1>5 DEF Deposit
<1>8. \A s \in Reservation : InTime(s) \subseteq held
  BY DEF InTime, Versions
<1>9. \A s \in Reservation :
        ~(new.object = ObjectOf[s] /\ ~new.late) => StockStays(s)
  BY <1>6, <1>7, <1>8 DEF StockStays, Stock
<1>10. CASE new.late
  <2>1. \A s \in Reservation : StockStays(s)
    BY <1>9, <1>10
  <2>2. UNCHANGED Vault!vars
    BY <1>2, <2>1 DEF Vault!vars, RowStays, StockStays, Stock
  <2>. QED  BY <2>2
<1>11. CASE ~new.late
  <2>1. \A s \in Reservation : s # r => StockStays(s)
    BY <1>1, <1>4, <1>9 DEF OwnObjects
  <2>2. InTime(r)' = InTime(r) \cup {n}
    BY <1>1, <1>4, <1>6, <1>11
  <2>3. Stock(r)' = Stock(r) \cup {Deposit(n)'}
    BY <1>1, <1>7, <1>8, <2>2 DEF Stock
  <2>4. Deposit(n)' \notin Stock(r)
    <3>1. \A i : Deposit(i).id = i /\ Deposit(i)'.id = i
      BY DEF Deposit
    <3>2. n \notin held
      BY <1>5
    <3>. QED  BY <1>1, <1>8, <3>1, <3>2 DEF Stock
  <2>5. Standing(r) \notin {None, "CLEANED"}
    <3>1. RowHeld(r) /\ ~attachment[r].closed
      BY <1>1, <1>4, <1>11
    <3>2. attachment[r].cleanup = "NONE"
      BY <1>1, <3>1 DEF RowHeld
    <3>3. attachment[r].status \in {"PENDING", "VERIFIED_CLEAN", "REJECTED"}
      BY <1>1 DEF Row
    <3>4. Standing(r) = attachment[r].status
      BY <1>1, <3>2, RowShows DEF Shows
    <3>. QED  BY <3>3, <3>4, NoneAssumption
  <2>6. Vault!Next
    BY <1>1, <1>2, <2>1, <2>3, <2>4, <2>5, VaultReceives
  <2>. QED  BY <2>6
<1>. QED  BY <1>10, <1>11

(* A verdict in time: what is verified is held, of the object, not late,   *)
(* declared and clean.                                                     *)
LEMMA FinalizeVault ==
  ASSUME VaultInv, [Next]_vars, NEW c \in Call, Finalize(c)
  PROVE  [Vault!Next]_(Vault!vars)
<1>. USE DEF VaultInv, StoreInv
<1>. DEFINE r == call[c].reservation
            i == call[c].version
            seen == [verdict |-> call[c].verdict, hash |-> uploads[i].hash]
            rejected == [attachment[r] EXCEPT !.status = "REJECTED"]
            verified == Verified(attachment[r], i)
<1>1. /\ call[c] \in Request /\ CallSound(c) /\ CallHeld(c)
      /\ call[c] # None /\ call[c].verdict # None
  BY DEF EvidenceInv, TypeOK, Request, Finalize
<1>2. /\ r \in Reservation /\ Exists(r) /\ attachment[r] \in Row
      /\ i # None /\ i \in DOMAIN uploads /\ i \in Version
      /\ RowHeld(r) /\ OnTime(r)
  BY <1>1, RowsTyped DEF EvidenceInv, CallSound, Request
<1>3. UNCHANGED store
  BY OthersKeepStore DEF Finalization
<1>4. \/ attachment' = attachment
      \/ /\ Pending(r) /\ ~attachment[r].closed
         /\ \/ attachment' = [attachment EXCEPT ![r] = rejected]
            \/ /\ Accepts(r, seen)
               /\ attachment' = [attachment EXCEPT ![r] = verified]
  BY DEF Finalize
<1>5. /\ rejected.status = "REJECTED" /\ rejected.version = attachment[r].version
      /\ rejected.cleanup = attachment[r].cleanup /\ rejected.declares = attachment[r].declares
      /\ verified.status = "VERIFIED_CLEAN" /\ verified.version = i
      /\ verified.declares = attachment[r].declares
      /\ rejected \in Row /\ verified \in Row
  BY <1>2 DEF Row, Verified
<1>6. PICK v : v = i
  OBVIOUS
<1>7. PICK s \in Reservation : s = r
  BY <1>2
<1>. HIDE DEF rejected, verified
<1>8. CASE attachment' = attachment
  BY <1>3, <1>8, SameRow, VaultUnchanged
<1>9. ASSUME attachment' # attachment
      PROVE  /\ Pending(s) /\ ~attachment[s].closed /\ attachment[s].cleanup # "COMPLETE"
             /\ \A t \in Reservation : t # s => attachment'[t] = attachment[t]
             /\ attachment'[s] # None /\ attachment'[s].declares = attachment[s].declares
             /\ \/ /\ attachment'[s].status = "REJECTED"
                   /\ attachment'[s].version = attachment[s].version
                   /\ attachment'[s].cleanup = attachment[s].cleanup
                \/ /\ attachment'[s].status = "VERIFIED_CLEAN"
                   /\ attachment'[s].version = v
                   /\ Accepts(s, seen)
  <2>1. Pending(r) /\ ~attachment[r].closed
    BY <1>4, <1>9
  <2>2. attachment[r].cleanup # "COMPLETE"
    BY <1>2, <2>1 DEF RowHeld
  <2>3. rejected # None /\ verified # None
    BY <1>5, NoneAssumption
  <2>. HIDE DEF r
  <2>. QED
    BY <1>2, <1>4, <1>5, <1>6, <1>7, <1>9, <2>1, <2>2, <2>3 DEF EvidenceInv, TypeOK
<1>10. ASSUME attachment' # attachment
       PROVE  Vault!Next
  <2>1. /\ Standing(s) = "PENDING" /\ Declared(s)' = Declared(s)
        /\ Declared(s) = attachment[s].declares
    BY <1>9, <1>10, RowShows DEF Shows, Pending, Exists
  <2>2. /\ \A t \in Reservation : t # s => RowStays(t)
        /\ \A t \in Reservation : StockStays(t)
    BY <1>3, <1>9, <1>10, SameRow, SameStock DEF StockStays
  <2>3. CASE attachment'[s].status = "REJECTED"
    <3>1. /\ attachment'[s].version = attachment[s].version
          /\ attachment'[s].cleanup # "COMPLETE" /\ Exists(s) /\ Exists(s)'
      BY <1>9, <1>10, <2>3 DEF Exists, Pending
    <3>2. Evidence(s)' = Evidence(s) /\ Standing(s)' = "REJECTED"
      <4>1. Pending(s) => attachment[s].version = None
        BY RowsTyped DEF EvidenceInv, Linked, Pending
      <4>. QED  BY <1>9, <1>10, <2>3, <3>1, <4>1, RowShows DEF Shows
    <3>. QED  BY <2>1, <2>2, <3>2, VaultDecides
  <2>4. CASE attachment'[s].status = "VERIFIED_CLEAN"
    <3>1. attachment'[s].version = v /\ Accepts(s, seen) /\ Exists(s)'
      BY <1>9, <1>10, <2>4 DEF Exists
    <3>2. /\ uploads[v].file = attachment[s].declares /\ uploads[v].file \notin Infected
          /\ v \in InTime(s) /\ v # None
      <4>1. call[c].verdict = "CLEAN" /\ uploads[i].hash = attachment[r].declares
        BY <1>7, <3>1 DEF Accepts
      <4>2. uploads[i].file = uploads[i].hash /\ uploads[i].file \notin Infected
        BY <1>1, <4>1 DEF CallSound
      <4>3. uploads[i].object = ObjectOf[r] /\ i \in held
        BY <1>1, <1>2, <1>7, <1>9, <1>10 DEF CallHeld
      <4>4. ~uploads[i].late
        BY <1>2, <1>7, <1>9, <1>10, <4>3 DEF OnTime, Versions
      <4>. QED  BY <1>2, <1>6, <1>7, <4>1, <4>2, <4>3, <4>4 DEF InTime, Versions
    <3>3. /\ Standing(s)' = "VERIFIED_CLEAN"
          /\ Evidence(s)' = Deposit(v)'
      BY <2>4, <3>1, <3>2, RowShows DEF Shows
    <3>4. Deposit(v)' = Deposit(v) /\ Deposit(v) \in Stock(s) /\ Deposit(v).file = uploads[v].file
      BY <1>3, <3>2 DEF Deposit, Stock, store
    <3>. QED  BY <2>1, <2>2, <3>2, <3>3, <3>4, VaultDecides
  <2>. QED  BY <1>9, <1>10, <2>3, <2>4
<1>. QED  BY <1>8, <1>10

LEMMA FinalizationVault ==
  ASSUME VaultInv, [Next]_vars, NEW c \in Call, Finalization(c) \/ CallFails(c)
  PROVE  [Vault!Next]_(Vault!vars)
<1>. USE DEF VaultInv, StoreInv
<1>1. UNCHANGED store
  BY OthersKeepStore
<1>2. CASE UNCHANGED attachment
  BY <1>1, <1>2, SameRow, VaultUnchanged
<1>3. ASSUME NEW r \in Reservation, RequestFinalize(c, r)
      PROVE  UNCHANGED Vault!vars
  <2>1. Exists(r) /\ attachment[r] \in Row
    BY <1>3, RowsTyped DEF EvidenceInv, RequestFinalize, Pending
  <2>2. attachment' = [attachment EXCEPT ![r] = [attachment[r] EXCEPT !.requested = TRUE]]
    BY <1>3 DEF RequestFinalize
  <2>3. /\ \A s \in Reservation : s # r => attachment'[s] = attachment[s]
        /\ attachment'[r].status = attachment[r].status
        /\ attachment'[r].version = attachment[r].version
        /\ attachment'[r].cleanup = attachment[r].cleanup
    BY <2>1, <2>2 DEF EvidenceInv, TypeOK, Row
  <2>4. RowStays(r)
    BY <2>1, <2>3, LikeRow
  <2>. QED  BY <1>1, <2>3, <2>4, SameRow, VaultUnchanged
<1>. QED
  BY <1>2, <1>3, FinalizeVault DEF Finalization, Inspect, Scan, CallFails

LEMMA ClaimVault ==
  ASSUME VaultInv, [Next]_vars, NEW w \in Sweep, NEW rows \in SUBSET Reservation,
         ClaimExpired(w, rows)
  PROVE  UNCHANGED Vault!vars
<1>. USE DEF VaultInv, StoreInv
<1>1. UNCHANGED store
  BY DEF ClaimExpired
<1>2. ASSUME NEW r \in rows
      PROVE  RowStays(r)
  <2>1. Exists(r) /\ attachment[r] \in Row /\ attachment[r].status = "PENDING"
    BY RowsTyped DEF EvidenceInv, ClaimExpired, Claimable
  <2>2. attachment'[r] = [attachment[r] EXCEPT !.cleanup = "PENDING", !.attempt = @ + 1,
                                               !.stale = FALSE]
    BY DEF ClaimExpired
  <2>3. /\ attachment'[r].status = attachment[r].status
        /\ attachment'[r].version = attachment[r].version
    BY <2>1, <2>2 DEF Row
  <2>. QED  BY <2>1, <2>3, LikeRow
<1>3. \A r \in Reservation : r \notin rows => attachment'[r] = attachment[r]
  BY DEF ClaimExpired
<1>. QED  BY <1>1, <1>2, <1>3, SameRow, VaultUnchanged

(* What a run deletes belongs to one reservation, which was not verified.  *)
LEMMA DeleteVault ==
  ASSUME VaultInv, [Next]_vars, OwnObjects, NEW w \in Sweep, NEW i \in sweep[w].todo,
         Delete(w, i)
  PROVE  [Vault!Next]_(Vault!vars)
<1>. USE DEF VaultInv, StoreInv
<1>1. \A s \in Reservation : RowStays(s)
  BY SameRow DEF Delete, service
<1>2. uploads' = uploads /\ (held' = held \/ held' = held \ {i})
  BY DEF Delete
<1>3. PICK r \in Reservation : Expired(r) /\ uploads[i].object = ObjectOf[r]
  <2>1. SweepSound(w) /\ sweep[w] \in Run /\ sweep[w].at = "DELETE"
    BY DEF EvidenceInv, TypeOK, Run, Delete
  <2>. QED  BY <2>1 DEF SweepSound, Run, Claim
<1>4. \A k : Deposit(k)' = Deposit(k) /\ Deposit(k).id = k
  BY <1>2 DEF Deposit
<1>5. \A s \in Reservation : InTime(s)' = IF i \in held' THEN InTime(s) ELSE InTime(s) \ {i}
  BY <1>2 DEF InTime, Versions
<1>6. \A s \in Reservation : i \in InTime(s) => s = r
  BY <1>3 DEF InTime, Versions, OwnObjects
<1>7. \A s \in Reservation : i \in held' \/ i \notin InTime(s) => StockStays(s)
  <2>1. \A s \in Reservation : i \in held' \/ i \notin InTime(s) => InTime(s)' = InTime(s)
    BY <1>5
  <2>. QED  BY <1>4, <2>1 DEF StockStays, Stock
<1>8. CASE i \in held' \/ i \notin InTime(r)
  <2>1. \A s \in Reservation : StockStays(s)
    BY <1>6, <1>7, <1>8
  <2>2. UNCHANGED Vault!vars
    BY <1>1, <2>1 DEF Vault!vars, RowStays, StockStays, Stock
  <2>. QED  BY <2>2
<1>9. CASE i \notin held' /\ i \in InTime(r)
  <2>1. Deposit(i) \in Stock(r)
    BY <1>9 DEF Stock
  <2>2. Stock(r)' = Stock(r) \ {Deposit(i)}
    <3>1. InTime(r)' = InTime(r) \ {i}
      BY <1>5, <1>9
    <3>2. Stock(r)' = {Deposit(k) : k \in InTime(r) \ {i}}
      BY <1>4, <3>1 DEF Stock
    <3>. QED  BY <1>4, <3>2 DEF Stock
  <2>3. Standing(r) # "VERIFIED_CLEAN"
    BY <1>3, RowShows DEF Shows, Expired
  <2>4. \A s \in Reservation : s # r => StockStays(s)
    BY <1>6, <1>7
  <2>5. Vault!Next
    BY <1>1, <2>1, <2>2, <2>3, <2>4, VaultDiscards
  <2>. QED  BY <2>5
<1>. QED  BY <1>8, <1>9

(* A row is recorded as cleaned by the run that found its object empty, or *)
(* goes on pending.                                                        *)
LEMMA RecordVault ==
  ASSUME VaultInv, [Next]_vars, NEW w \in Sweep,
         Completing(w), OwnsClaim(sweep[w].claim), Record(w), UNCHANGED store
  PROVE  [Vault!Next]_(Vault!vars)
<1>. USE DEF VaultInv, StoreInv
<1>. DEFINE row == CompleteRow(attachment[sweep[w].claim.reservation], sweep[w].at)
<1>1. PICK r \in Reservation : r = sweep[w].claim.reservation /\ Exists(r)
  BY DEF EvidenceInv, TypeOK, SweepSound, Completing, Expired, Claim, Failure
<1>2. /\ attachment[r] \in Row /\ Linked(attachment[r], DOMAIN uploads)
      /\ attachment[r].status = "PENDING" /\ attachment[r].cleanup = "PENDING"
  BY <1>1, RowsTyped DEF EvidenceInv, OwnsClaim
<1>3. /\ row.version = attachment[r].version /\ row.declares = attachment[r].declares
      /\ row.status = IF sweep[w].at = "DELETED" THEN "REJECTED" ELSE "PENDING"
      /\ sweep[w].at = "DELETED" => row.cleanup = "COMPLETE"
  BY <1>1, <1>2 DEF CompleteRow, Row
<1>4. attachment' = [attachment EXCEPT ![r] = row]
  BY <1>1 DEF Record
<1>. HIDE DEF row
<1>5. /\ attachment'[r] = row
      /\ \A s \in Reservation : s # r => attachment'[s] = attachment[s]
  BY <1>4 DEF EvidenceInv, TypeOK
<1>6. \A s \in Reservation : s # r => RowStays(s)
  BY <1>5, SameRow
<1>7. CASE sweep[w].at # "DELETED"
  <2>1. RowStays(r)
    BY <1>1, <1>2, <1>3, <1>5, <1>7, LikeRow
  <2>. QED  BY <1>6, <2>1, VaultUnchanged
<1>8. CASE sweep[w].at = "DELETED"
  <2>1. Exists(r)'
    BY <1>1, StepMoves DEF RowsMove
  <2>2. attachment[r].version = None
    BY <1>2 DEF Linked
  <2>3. /\ Standing(r) = "PENDING" /\ Standing(r)' = "CLEANED"
        /\ Evidence(r)' = Evidence(r) /\ Declared(r)' = Declared(r)
    BY <1>1, <1>2, <1>3, <1>5, <1>8, <2>1, <2>2, RowShows DEF Shows
  <2>4. Stock(r) = {}
    <3>1. LateOnly(r)
      BY <1>1, <1>8 DEF SweepEmptied
    <3>. QED  BY <3>1 DEF LateOnly, Stock, InTime
  <2>5. Vault!Next
    BY <1>6, <2>3, <2>4, SameStock, VaultDecides DEF StockStays
  <2>. QED  BY <2>5
<1>. QED  BY <1>7, <1>8

LEMMA RunVault ==
  ASSUME VaultInv, [Next]_vars, OwnObjects, NEW w \in Sweep, RunOnce(w) \/ RunFails(w)
  PROVE  [Vault!Next]_(Vault!vars)
<1>1. CASE UNCHANGED <<attachment, store>>
  BY <1>1, SameRow, VaultUnchanged DEF VaultInv, StoreInv
<1>2. CASE \E i \in sweep[w].todo : Delete(w, i)
  BY <1>2, DeleteVault
<1>3. CASE \E rows \in SUBSET Reservation : ClaimExpired(w, rows)
  BY <1>3, ClaimVault
<1>4. CASE Completing(w) /\ OwnsClaim(sweep[w].claim) /\ Record(w) /\ UNCHANGED store
  BY <1>4, RecordVault
<1>. QED
  BY <1>1, <1>2, <1>3, <1>4
     DEF RunOnce, RunFails, Purge, VerifyEmpty, Complete, PurgeFails,
         CompletionLost, AnswerLost, SweepDies, service

LEMMA VaultStep ==
  ASSUME VaultInv, [Next]_vars, OwnObjects
  PROVE  [Vault!Next]_(Vault!vars)
<1>1. CASE UNCHANGED vars
  <2>1. \A r \in Reservation : RowStays(r)
    BY <1>1, SameRow DEF VaultInv, StoreInv, vars
  <2>2. UNCHANGED store
    BY <1>1 DEF vars, store
  <2>. QED  BY <2>1, <2>2, VaultUnchanged
<1>. QED
  BY <1>1, ClientVault, PassageVault, PutVault, FinalizationVault, RunVault DEF Next

LEMMA EmptyVault ==
  ASSUME Init
  PROVE  \A r \in Reservation :
           Standing(r) = None /\ Declared(r) = None /\ Evidence(r) = None /\ Stock(r) = {}
<1>1. \A r \in Reservation : InTime(r) = {}
  BY DEF Init, InTime, Versions
<1>2. \A r \in Reservation : ~Exists(r)
  BY DEF Init, Exists
<1>3. \A r \in Reservation : Standing(r) = None /\ Declared(r) = None /\ Evidence(r) = None
  BY <1>2 DEF Standing, Declared, Evidence, Exists, Deposit
<1>4. \A r \in Reservation : Stock(r) = {}
  BY <1>1 DEF Stock
<1>. QED  BY <1>3, <1>4

(* Where every reservation has an object key of its own, the service keeps *)
(* the vault: for any requests, files, calls, runs and faults a row is     *)
(* verified only with a declared, clean version that is there and came in  *)
(* time, which stays, and recorded as cleaned only when none is left.      *)
THEOREM ImplementsVault ==
  ASSUME OwnObjects
  PROVE  Spec => KeepsEvidence
<1>1. Init => Vault!Init
  BY EmptyVault DEF Vault!Init, Stock
<1>. QED  BY <1>1, VaultInductive, VaultStep, PTL DEF Spec, KeepsEvidence, Vault!Spec
=============================================================================
