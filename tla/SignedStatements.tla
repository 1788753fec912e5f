--------------------------- MODULE SignedStatements ---------------------------
(***************************************************************************)
(* What reconciliation promises whoever relies on a bank account's signed  *)
(* statements (migrations 061, 063, 178, 180, 400, 403): they are a stack. *)
(* A statement goes on top if it opens with what the one below ended with, *)
(* its items make up its balances, its payments stand and back no other    *)
(* statement, and two people looked at it.  Only the top one can be taken  *)
(* off, and then it comes back first and with the same days and balances.  *)
(* Payments that back a statement cannot be undone.  Lines, matches,       *)
(* drafts and reviews on the way there do not exist here.                  *)
(***************************************************************************)
EXTENDS Integers

VARIABLES
  signed,     \* the signed statements
  withdrawn,  \* the face of a statement that was taken off, until it is back
  gone        \* payments that are being or have been undone

vars == <<signed, withdrawn, gone>>

Init == signed = {} /\ withdrawn = {} /\ gone = {}

Top(s) == s \in signed /\ \A t \in signed : t.face.ends <= s.face.ends

(* A signed statement fits on those below.                                 *)
Follows(s) ==
  /\ \A t \in signed : t.face.ends < s.face.ends
  /\ \A t \in signed : Top(t) => t.face.ending = s.face.opening

AddsUp(s) == s.face.ending = s.face.opening + s.booked

Sign(s) ==
  /\ withdrawn \subseteq {s.face}
  /\ Follows(s) /\ AddsUp(s)
  /\ s.payments \cap gone = {}
  /\ \A t \in signed : t.payments \cap s.payments = {}
  /\ s.reviewer # s.signer
  /\ signed' = signed \cup {s}
  /\ withdrawn' = {}
  /\ UNCHANGED gone

TakeOff(s) ==
  /\ withdrawn = {}
  /\ Top(s)
  /\ signed' = signed \ {s}
  /\ withdrawn' = {s.face}
  /\ UNCHANGED gone

Undo(p) ==
  /\ \A s \in signed : p \notin s.payments
  /\ gone' = gone \cup {p}
  /\ UNCHANGED <<signed, withdrawn>>

(* Statements and payments are named after the step.                       *)
Next ==
  \/ \E s \in signed' \ signed : Sign(s)
  \/ \E s \in signed \ signed' : TakeOff(s)
  \/ \E p \in gone' \ gone : Undo(p)

Spec == Init /\ [][Next]_vars
=============================================================================
