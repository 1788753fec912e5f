-------------------------- MODULE CommandRecovery --------------------------
(***************************************************************************)
(* Applying a posted credit from the browser and recovering a request      *)
(* whose result is not known: the form (src/native-credit-allocation.jsx), *)
(* the session's recovery store (native-credit-allocation-recovery.js),    *)
(* the two calls of a send (native-credit-allocation.js) and the command's *)
(* idempotency receipt on the server (migrations 008 and 313).             *)
(*                                                                         *)
(* One recovery scope: one company, period, credit and actor.  A form that *)
(* is left while it saves keeps running and settles later, so forms are    *)
(* slots of which at most one is on screen.  A prepared command is its     *)
(* idempotency key; every command asks for the same amount.                *)
(***************************************************************************)
EXTENDS Integers, FiniteSetsExt

CONSTANTS
  Form,    \* form instances alive at once, on screen or finishing a save
  Key,     \* idempotency keys: each preparation draws a new one
  Cover,   \* commands the credit's available amount covers
  MaxLost, \* bound: copies of one request given up while still on their way
  None     \* null

ASSUME RecoveryAssumption ==
  /\ Cover \in Nat
  /\ MaxLost \in Nat
  /\ None \notin Key

VARIABLES
  pending,   \* the recovery store's entry for this scope
  form,      \* the forms' state and refs
  prepared,  \* keys drawn so far
  lost,      \* requests nobody waits for that may still reach the server
  receipts,  \* keys with a SUCCEEDED idempotency_receipt
  applied,   \* business_allocation rows each key created
  confirmed, \* keys some form saw succeed (read by properties only)
  overlapped \* a form was opened while another one still saved (likewise)

vars == <<pending, form, prepared, lost, receipts, applied, confirmed,
          overlapped>>

(* Where a form's save stands: nothing under way, drawing a command,       *)
(* checking the identity, waiting for the answer to the POST, or holding   *)
(* that answer.                                                            *)
Answer == {"ok", "refused", "unknown"}
Stage == {"idle", "preparing", "checking", "sent"} \cup Answer

Nothing == [key |-> None, uncertain |-> FALSE]
Blank == [mounted |-> FALSE, command |-> None, uncertain |-> FALSE,
          done |-> FALSE, at |-> "idle"]

Init ==
  /\ pending = Nothing
  /\ form = [f \in Form |-> Blank]
  /\ prepared = {}
  /\ lost = [k \in Key |-> 0]
  /\ receipts = {}
  /\ applied = [k \in Key |-> 0]
  /\ confirmed = {}
  /\ overlapped = FALSE

Allocated == MapThenSumSet(LAMBDA k : applied[k], Key)

-----------------------------------------------------------------------------
(* Faulty variants for mutation testing: each is named after the           *)
(* definition below whose place it takes and the bug it plants there.      *)

Retained_Certain(k) == [key |-> k, uncertain |-> FALSE]
Replay_Forgotten(k) == FALSE
Releases_AnyRefusal(f, r) == r \in {"ok", "refused"}
Releases_Unknown(f, r) == r = "ok" \/ ~form[f].uncertain
Success_AnyAnswer(r) == r \in {"ok", "unknown"}

-----------------------------------------------------------------------------
(* retainNativeCreditAllocation throws on an entry of another command.     *)
CanRetain(k) == pending.key \in {None, k}
Retained(k) == [key |-> k, uncertain |-> TRUE]

(* A result releases the entry when it is a success, or definite and the   *)
(* form knows of no earlier attempt.                                       *)
Success(r) == r = "ok"
Releases(f, r) == Success(r) \/ (r = "refused" /\ ~form[f].uncertain)

(* releaseNativeCreditAllocation: another command's entry stays.           *)
Released(k) == IF pending.key = k THEN Nothing ELSE pending

(* A form is mounted and recovers what the scope's entry holds.            *)
Open(f) ==
  /\ form[f] = Blank
  /\ \A g \in Form : ~form[g].mounted
  /\ form' = [form EXCEPT ![f] = [@ EXCEPT !.mounted = TRUE,
       !.command = pending.key, !.uncertain = pending.uncertain]]
  /\ overlapped' = (overlapped \/ \E g \in Form : form[g] # Blank)
  /\ UNCHANGED <<pending, prepared, lost, receipts, applied, confirmed>>

(* The user closes the form or moves to another page.  A preparation stops *)
(* at its next check of mounted; a send runs on.                           *)
Leave(f) ==
  /\ form[f].mounted
  /\ form' = [form EXCEPT ![f] = IF @.at \in {"idle", "preparing"} THEN Blank
                                 ELSE [@ EXCEPT !.mounted = FALSE]]
  /\ UNCHANGED <<pending, prepared, lost, receipts, applied, confirmed,
                 overlapped>>

(* Save without a command: identity, current targets and validation first. *)
Begin(f) ==
  /\ form[f].mounted /\ form[f].at = "idle" /\ ~form[f].done
  /\ form[f].command = None
  /\ form' = [form EXCEPT ![f].at = "preparing"]
  /\ UNCHANGED <<pending, prepared, lost, receipts, applied, confirmed,
                 overlapped>>

NotPrepared(f) ==
  /\ form[f].at = "preparing"
  /\ form' = [form EXCEPT ![f].at = "idle"]
  /\ UNCHANGED <<pending, prepared, lost, receipts, applied, confirmed,
                 overlapped>>

(* Retain the command as uncertain, then start to send it; a retain that   *)
(* throws ends the save with the command kept on the form.                 *)
RetainAndSend(f, k) ==
  /\ pending' = IF CanRetain(k) THEN Retained(k) ELSE pending
  /\ form' = [form EXCEPT ![f] = [@ EXCEPT !.command = k,
       !.at = IF CanRetain(k) THEN "checking" ELSE "idle"]]

Prepare(f) ==
  /\ form[f].at = "preparing"
  /\ \E k \in Key \ prepared :
       /\ prepared' = prepared \cup {k}
       /\ RetainAndSend(f, k)
  /\ UNCHANGED <<lost, receipts, applied, confirmed, overlapped>>

Retry(f) ==
  /\ form[f].mounted /\ form[f].at = "idle" /\ ~form[f].done
  /\ form[f].command # None
  /\ RetainAndSend(f, form[f].command)
  /\ UNCHANGED <<prepared, lost, receipts, applied, confirmed, overlapped>>

(* The identity check before the POST: any failure of it is a definite     *)
(* refusal, whatever earlier requests did.                                 *)
IdentityChecked(f) ==
  /\ form[f].at = "checking"
  /\ \E next \in {"sent", "refused"} : form' = [form EXCEPT ![f].at = next]
  /\ UNCHANGED <<pending, prepared, lost, receipts, applied, confirmed,
                 overlapped>>

(* The server runs the command: replays its receipt, or applies the credit *)
(* and records the receipt in the same transaction.                        *)
Replay(k) == k \in receipts
Execute(k) ==
  IF Replay(k) THEN UNCHANGED <<receipts, applied>>
  ELSE /\ Allocated < Cover
       /\ applied' = [applied EXCEPT ![k] = @ + 1]
       /\ receipts' = receipts \cup {k}

Succeed(f) ==
  /\ form[f].at = "sent"
  /\ Execute(form[f].command)
  /\ form' = [form EXCEPT ![f].at = "ok"]
  /\ UNCHANGED <<pending, prepared, lost, confirmed, overlapped>>

(* Without effect: the permission is gone (checked before the receipt) or  *)
(* the credit does not cover it, or the transaction failed with a 5xx.     *)
Fail(f) ==
  /\ form[f].at = "sent"
  /\ \E r \in {"refused", "unknown"} : form' = [form EXCEPT ![f].at = r]
  /\ UNCHANGED <<pending, prepared, lost, receipts, applied, confirmed,
                 overlapped>>

(* The answer is lost after the server produced it.                        *)
LoseAnswer(f) ==
  /\ form[f].at = "ok"
  /\ form' = [form EXCEPT ![f].at = "unknown"]
  /\ UNCHANGED <<pending, prepared, lost, receipts, applied, confirmed,
                 overlapped>>

(* The connection fails before any answer: the request is still on its way.*)
GiveUp(f) ==
  /\ form[f].at = "sent"
  /\ lost[form[f].command] < MaxLost
  /\ lost' = [lost EXCEPT ![form[f].command] = @ + 1]
  /\ form' = [form EXCEPT ![f].at = "unknown"]
  /\ UNCHANGED <<pending, prepared, receipts, applied, confirmed, overlapped>>

(* Such a request reaches the server after all, or never does.             *)
LateArrival(k) ==
  /\ lost[k] > 0
  /\ lost' = [lost EXCEPT ![k] = @ - 1]
  /\ Execute(k) \/ UNCHANGED <<receipts, applied>>
  /\ UNCHANGED <<pending, form, prepared, confirmed, overlapped>>

(* The save takes up the result.  A retain that throws skips the rest.     *)
AfterResult(g, r) ==
  CASE ~g.mounted -> Blank
    [] Success(r) -> [g EXCEPT !.at = "idle", !.done = TRUE]
    [] r = "unknown" -> [g EXCEPT !.at = "idle", !.uncertain = TRUE]
    [] OTHER -> [g EXCEPT !.at = "idle",
                          !.command = IF g.uncertain THEN @ ELSE None]

Settle(f) ==
  LET k == form[f].command
      r == form[f].at
      throws == ~Releases(f, r) /\ ~CanRetain(k)
      g == form[f]
  IN /\ r \in Answer
     /\ pending' = CASE Releases(f, r) -> Released(k)
                     [] throws         -> pending
                     [] OTHER          -> Retained(k)
     /\ form' = [form EXCEPT ![f] =
          IF throws /\ g.mounted THEN [g EXCEPT !.at = "idle"]
          ELSE AfterResult(g, r)]
     /\ confirmed' = IF Success(r) THEN confirmed \cup {k} ELSE confirmed
     /\ UNCHANGED <<prepared, lost, receipts, applied, overlapped>>

Next ==
  \/ \E f \in Form :
       \/ Open(f) \/ Leave(f) \/ Begin(f) \/ NotPrepared(f) \/ Prepare(f)
       \/ Retry(f) \/ IdentityChecked(f) \/ Succeed(f) \/ Fail(f)
       \/ LoseAnswer(f) \/ GiveUp(f) \/ Settle(f)
  \/ \E k \in Key : LateArrival(k)

Spec == Init /\ [][Next]_vars

-----------------------------------------------------------------------------
TypeOK ==
  /\ pending \in {Nothing} \cup {[key |-> k, uncertain |-> TRUE] : k \in prepared}
  /\ form \in [Form -> [mounted : BOOLEAN, command : Key \cup {None},
                        uncertain : BOOLEAN, done : BOOLEAN, at : Stage]]
  /\ prepared \subseteq Key
  /\ lost \in [Key -> 0 .. MaxLost]
  /\ receipts \subseteq Key
  /\ applied \in [Key -> Nat]
  /\ confirmed \subseteq Key
  /\ overlapped \in BOOLEAN

(* The command has taken effect, or a request for it may still reach the   *)
(* server.                                                                 *)
MayHold(k) ==
  \/ applied[k] > 0
  \/ lost[k] > 0
  \/ \E f \in Form : form[f].at = "sent" /\ form[f].command = k

(* However often a request is repeated, delayed or recovered, its command  *)
(* allocates the credit at most once, and a success shown to the user is   *)
(* an allocation (receipt insert and replay of migration 008).             *)
AllocatedOnce ==
  \A k \in Key : applied[k] <= 1 /\ (k \in confirmed => applied[k] = 1)

(* A form on screen gives up its command, and lets the user enter another, *)
(* only when nothing of that command holds or is on its way                *)
(* (native-credit-allocation.jsx line 37).                                 *)
UnlockedWhenDead ==
  [][\A f \in Form, k \in Key :
       (/\ form[f].mounted /\ form'[f].mounted
        /\ form[f].command = k /\ form'[f].command = None)
         => ~MayHold(k)']_vars

(* The recovery store drops a command only when it is confirmed or nothing *)
(* of it holds or is on its way: a later failure does not discard a        *)
(* request whose result is unknown (docs/native-inflight-recovery.md).     *)
KeptUntilResolved ==
  [][\A k \in Key :
       (pending.key = k /\ pending'.key # k)
         => (k \in confirmed' \/ ~MayHold(k)')]_vars

(* What the code keeps of this: it is so until a form has been opened      *)
(* while an earlier one, left by its user, still saved.                    *)
KeptWhileSerial ==
  [][\A k \in Key :
       (~overlapped /\ pending.key = k /\ pending'.key # k)
         => (k \in confirmed' \/ ~MayHold(k)')]_vars

(* Until then no second command for the same credit is sent while the      *)
(* result of a first is unknown, so an unknown result never becomes a      *)
(* double allocation by the user's next entry.                             *)
OneUnresolved ==
  ~overlapped =>
    \A j, k \in Key :
      (MayHold(j) /\ MayHold(k) /\ {j, k} \cap confirmed = {}) => j = k
=============================================================================
