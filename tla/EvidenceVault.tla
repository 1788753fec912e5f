---------------------------- MODULE EvidenceVault ----------------------------
(***************************************************************************)
(* What the attachment service promises whoever books an entry on a        *)
(* document (server/runtime/attachment-storage.mjs, migrations 101, 303):  *)
(* a reservation is verified, rejected or cleaned; a verified one names    *)
(* bytes that are what was declared and clean, and they stay; a cleaned    *)
(* one has nothing left that came in its time.  Signed URLs, finalization  *)
(* requests, cleanup runs and their leases do not exist here.              *)
(***************************************************************************)
CONSTANTS
  Reservation,  \* upload requests
  Infected,     \* files with a virus
  None          \* no reservation, or no evidence

VARIABLES
  status,       \* where each reservation stands, None before there is one
  declares,     \* the file each reservation was made for
  evidence,     \* the deposit each was verified with
  stock         \* its deposits in the store that came in time

vars == <<status, declares, evidence, stock>>

Init ==
  /\ status = [r \in Reservation |-> None]
  /\ declares = [r \in Reservation |-> None]
  /\ evidence = [r \in Reservation |-> None]
  /\ stock = [r \in Reservation |-> {}]

Reserve(r, file) ==
  /\ status[r] = None
  /\ status' = [status EXCEPT ![r] = "PENDING"]
  /\ declares' = [declares EXCEPT ![r] = file]
  /\ UNCHANGED <<evidence, stock>>

(* Any bytes may come, until the reservation is cleaned.                   *)
Arrive(r, deposit) ==
  /\ status[r] \notin {None, "CLEANED"}
  /\ stock' = [stock EXCEPT ![r] = @ \cup {deposit}]
  /\ UNCHANGED <<status, declares, evidence>>

(* A deposit may go, but never one of a verified reservation.              *)
Discard(r, deposit) ==
  /\ status[r] # "VERIFIED_CLEAN"
  /\ stock' = [stock EXCEPT ![r] = @ \ {deposit}]
  /\ UNCHANGED <<status, declares, evidence>>

Verify(r, deposit) ==
  /\ status[r] = "PENDING"
  /\ deposit \in stock[r]
  /\ deposit.file = declares[r]
  /\ deposit.file \notin Infected
  /\ status' = [status EXCEPT ![r] = "VERIFIED_CLEAN"]
  /\ evidence' = [evidence EXCEPT ![r] = deposit]
  /\ UNCHANGED <<declares, stock>>

Reject(r) ==
  /\ status[r] = "PENDING"
  /\ status' = [status EXCEPT ![r] = "REJECTED"]
  /\ UNCHANGED <<declares, evidence, stock>>

Clean(r) ==
  /\ status[r] = "PENDING"
  /\ stock[r] = {}
  /\ status' = [status EXCEPT ![r] = "CLEANED"]
  /\ UNCHANGED <<declares, evidence, stock>>

(* Deposits and declared files are named after the step.                   *)
Next ==
  \E r \in Reservation :
    \/ Reserve(r, declares'[r])
    \/ \E deposit \in stock'[r] \ stock[r] : Arrive(r, deposit)
    \/ \E deposit \in stock[r] \ stock'[r] : Discard(r, deposit)
    \/ Verify(r, evidence'[r])
    \/ Reject(r)
    \/ Clean(r)

Spec == Init /\ [][Next]_vars
=============================================================================
