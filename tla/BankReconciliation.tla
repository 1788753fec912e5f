------------------------- MODULE BankReconciliation -------------------------
(***************************************************************************)
(* Reconciliation of one bank account: its statement lines (bank_source),  *)
(* the matches of lines with posted payments (migrations 061, 321, 323),   *)
(* and the statements (reconciliation, migrations 063, 067, 178, 180, 400, *)
(* 403) that are started, worked on, reviewed, signed off and reopened.    *)
(*                                                                         *)
(* Every command is one serializable transaction, an action here.  Dates   *)
(* are days, amounts small integers of one currency.  Expected versions    *)
(* and idempotency receipts are left out: a repeated or outdated request   *)
(* is refused or answered from its receipt.  Every actor may hold every    *)
(* permission.  Journal entries on the account other than those of         *)
(* payments and adjustments are payments that nobody matches.  Statements  *)
(* imported with a WBS receipt have rules of their own, not modelled here. *)
(***************************************************************************)
EXTENDS Integers, FiniteSets, FiniteSetsExt

CONSTANTS
  Actor,
  Rec,       \* identifiers of reconciliations
  Line,      \* lines the bank may report
  Payment,   \* payments, receipts and sales receipts that may be posted
  Sale,      \* the sales receipts among them: they are never reversed
  Match,     \* identifiers of matches
  LastDay,
  MaxDelta,  \* days a line and its payment may lie apart
  Balance,   \* statement balances somebody may enter
  DateOf,    \* transaction date of a line
  AmountOf,  \* its amount
  PaidOn,    \* accounting date of a payment
  CashOf,    \* its effect on the account
  None       \* SQL NULL

Day == 1..LastDay

ASSUME BankAssumption ==
  /\ Sale \subseteq Payment
  /\ LastDay \in Nat \ {0}
  /\ MaxDelta \in Nat
  /\ Balance \subseteq Int
  /\ DateOf \in [Line -> Day]
  /\ AmountOf \in [Line -> Int]
  /\ PaidOn \in [Payment -> Day]
  /\ CashOf \in [Payment -> Int]
  /\ IsFiniteSet(Line) /\ IsFiniteSet(Payment) /\ IsFiniteSet(Rec)
  /\ None \notin Match \cup Actor

VARIABLES
  bank_source,     \* lines the bank has reported
  payment,         \* payment_occurrence or sales_receipt, and its reversal
  bank_match,
  reconciliation,
  item,            \* reconciliation_item by statement and line
  draft,           \* reconciliation_adjustment_draft by statement and line
  snapshot         \* statements that were ever signed off

vars == <<bank_source, payment, bank_match, reconciliation, item, draft, snapshot>>
statement == <<reconciliation, item, draft, snapshot>>

PaymentRow == [status : {"NONE", "POSTED", "REVERSING", "REVERSED"}, undone : Day]
MatchRow == [line : Line, payment : Payment, active : BOOLEAN]
RecRow ==
  [status : {"DRAFT", "IN_REVIEW", "RECONCILED", "REOPENED"}, ends : Day,
   opening : Int, ending : Int, tied : BOOLEAN,
   reviewed_by : Actor \cup {None}, reconciled_by : Actor \cup {None}]
ItemRow == [cleared : BOOLEAN, match : Match \cup {None}]
DraftRow == [by : Actor, posted : BOOLEAN]

ASSUME BankNoneAssumption == None \notin MatchRow \cup RecRow \cup ItemRow \cup DraftRow

Init ==
  /\ bank_source = {}
  /\ payment = [p \in Payment |-> [status |-> "NONE", undone |-> 1]]
  /\ bank_match = [m \in Match |-> None]
  /\ reconciliation = [r \in Rec |-> None]
  /\ item = [r \in Rec |-> [l \in Line |-> None]]
  /\ draft = [r \in Rec |-> [l \in Line |-> None]]
  /\ snapshot = {}

-----------------------------------------------------------------------------
Exists(r) == reconciliation[r] # None
Status(r) == IF Exists(r) THEN reconciliation[r].status ELSE "NONE"
Open(r) == Status(r) \in {"DRAFT", "IN_REVIEW", "REOPENED"}
Signed(r) == Status(r) = "RECONCILED"
Ends(r) == reconciliation[r].ends

Cleared(r) == {l \in Line : item[r][l] # None /\ item[r][l].cleared}
Adjusted(r) == {l \in Line : draft[r][l] # None /\ draft[r][l].posted}
Active(m) == bank_match[m] # None /\ bank_match[m].active

CashTotal(payments) == MapThenSumSet(LAMBDA p : CashOf[p], payments)
LineTotal(lines) == MapThenSumSet(LAMBDA l : AmountOf[l], lines)

(* The posted ledger lines of the account up to a day.  A journal date     *)
(* inside the window of its statement counts from the statement's end.     *)
Book(day) ==
  LET paid == {p \in Payment : payment[p].status # "NONE" /\ PaidOn[p] <= day}
      undone == {p \in Payment : payment[p].status = "REVERSED" /\ payment[p].undone <= day}
      adjusted == UNION {{r} \X Adjusted(r) : r \in {r \in Rec : Exists(r) /\ Ends(r) <= day}}
  IN CashTotal(paid) - CashTotal(undone) + MapThenSumSet(LAMBDA a : AmountOf[a[2]], adjusted)

(* No statement signed earlier covers the line's date.                     *)
AfterPrior(r, l) == \A s \in Rec : Signed(s) /\ Ends(s) < Ends(r) => DateOf[l] > Ends(s)
InWindow(r, l) == DateOf[l] <= Ends(r) /\ AfterPrior(r, l)
Scoped(r) == {l \in bank_source : InWindow(r, l)}

(* The payment behind a match still stands.                                *)
Stands(m) == Active(m) /\ payment[bank_match[m].payment].status = "POSTED"

-----------------------------------------------------------------------------
(* Faulty variants for mutation testing.                                   *)

NoneOpen_Unchecked(except) == TRUE
Acceptable_OfAnyLine(l) == {m \in Match : Stands(m) /\ bank_match[m].payment \notin Sale}
Editable_InReview(r) == Open(r)
ClearanceAllowed_AnyLine(r, l) == Open(r) /\ l \in bank_source /\ DateOf[l] <= Ends(r)
LineUnsigned_Ignored(l) == TRUE
Unmatched_Ignored(l) == TRUE

-----------------------------------------------------------------------------
(* The bank, payments and their reversals                                  *)

(* A line of any date may come at any time.                                *)
Admit(l) ==
  /\ l \notin bank_source
  /\ bank_source' = bank_source \cup {l}
  /\ UNCHANGED <<payment, bank_match, statement>>

PostPayment(p) ==
  /\ payment[p].status = "NONE"
  /\ payment' = [payment EXCEPT ![p].status = "POSTED"]
  /\ UNCHANGED <<bank_source, bank_match, statement>>

MatchedNow(p) == \E m \in Match : Active(m) /\ bank_match[m].payment = p

(* The reversal draft; a trigger refuses it for a matched payment.         *)
RequestReversal(p) ==
  /\ p \notin Sale
  /\ payment[p].status = "POSTED"
  /\ ~MatchedNow(p)
  /\ payment' = [payment EXCEPT ![p].status = "REVERSING"]
  /\ UNCHANGED <<bank_source, bank_match, statement>>

PostReversal(p, day) ==
  /\ payment[p].status = "REVERSING"
  /\ payment' = [payment EXCEPT ![p] = [status |-> "REVERSED", undone |-> day]]
  /\ UNCHANGED <<bank_source, bank_match, statement>>

-----------------------------------------------------------------------------
(* Matching                                                                *)

(* Neither match nor unmatch while a statement that reaches the line's     *)
(* date is signed.                                                         *)
LineUnsigned(l) == \A r \in Rec : Signed(r) => Ends(r) < DateOf[l]

(* refs_create_bank_payment_match and refs_create_sales_receipt_bank_match *)
CreateMatch(m, l, p) ==
  /\ bank_match[m] = None
  /\ l \in bank_source
  /\ payment[p].status = "POSTED"
  /\ LineUnsigned(l)
  /\ \A k \in Match : Active(k) => bank_match[k].line # l /\ bank_match[k].payment # p
  /\ AmountOf[l] = CashOf[p]
  /\ DateOf[l] - PaidOn[p] \in (-MaxDelta)..MaxDelta
  /\ bank_match' = [bank_match EXCEPT ![m] = [line |-> l, payment |-> p, active |-> TRUE]]
  /\ UNCHANGED <<bank_source, payment, statement>>

Unmatch(m) ==
  /\ Active(m)
  /\ LineUnsigned(bank_match[m].line)
  /\ bank_match' = [bank_match EXCEPT ![m].active = FALSE]
  /\ UNCHANGED <<bank_source, payment, statement>>

-----------------------------------------------------------------------------
(* Statements                                                              *)

Editable(r) == Status(r) \in {"DRAFT", "REOPENED"}
Latest(r) == r \in snapshot /\ \A s \in snapshot : Ends(s) <= Ends(r)
NoneOpen(except) == \A s \in Rec \ {except} : ~Open(s)

(* refs_start_reconciliation: it follows the latest statement ever signed  *)
(* and opens with its ending balance.                                      *)
Start(r, day, opening, ending) ==
  /\ ~Exists(r)
  /\ NoneOpen(r)
  /\ \A s \in Rec : Latest(s) => Ends(s) < day /\ reconciliation[s].ending = opening
  /\ \E l \in bank_source : DateOf[l] <= day /\ \A s \in snapshot : DateOf[l] > Ends(s)
  /\ reconciliation' = [reconciliation EXCEPT ![r] =
       [status |-> "DRAFT", ends |-> day, opening |-> opening, ending |-> ending,
        tied |-> ending = Book(day), reviewed_by |-> None, reconciled_by |-> None]]
  /\ UNCHANGED <<bank_source, payment, bank_match, item, draft, snapshot>>

(* The stored difference is brought up to date by clearance commands only. *)
Refresh(r) ==
  reconciliation' = [reconciliation EXCEPT ![r].tied = reconciliation[r].ending = Book(Ends(r))]

SetItem(r, l, row) == item' = [item EXCEPT ![r][l] = row]

(* What refs_set_reconciliation_clearance demands whether it clears or     *)
(* unclears: a line of this statement, review or not.                      *)
ClearanceAllowed(r, l) == Open(r) /\ l \in bank_source /\ InWindow(r, l)

(* It accepts the match of a payment, not that of a sales receipt.         *)
Acceptable(l) ==
  {m \in Match : Stands(m) /\ bank_match[m].line = l /\ bank_match[m].payment \notin Sale}

(* The item, whatever it was, becomes that of the match.                   *)
Clear(r, l, m) ==
  /\ ClearanceAllowed(r, l)
  /\ m \in Acceptable(l)
  /\ SetItem(r, l, [cleared |-> TRUE, match |-> m])
  /\ Refresh(r)
  /\ UNCHANGED <<bank_source, payment, bank_match, draft, snapshot>>

Unclear(r, l) ==
  /\ ClearanceAllowed(r, l)
  /\ l \in Cleared(r)
  /\ SetItem(r, l, [item[r][l] EXCEPT !.cleared = FALSE])
  /\ Refresh(r)
  /\ UNCHANGED <<bank_source, payment, bank_match, draft, snapshot>>

Unmatched(l) == \A m \in Match : Active(m) => bank_match[m].line # l

(* refs_create_reconciliation_adjustment_draft books the whole line.  The  *)
(* line need not be later than the statement signed before.                *)
MakeDraft(a, r, l) ==
  /\ Editable(r)
  /\ ~reconciliation[r].tied
  /\ l \in bank_source /\ DateOf[l] <= Ends(r)
  /\ l \notin Cleared(r)
  /\ Unmatched(l)
  /\ draft[r][l] = None
  /\ draft' = [draft EXCEPT ![r][l] = [by |-> a, posted |-> FALSE]]
  /\ UNCHANGED <<bank_source, payment, bank_match, reconciliation, item, snapshot>>

(* The journal of the draft is posted; a trigger looks at the statement.   *)
PostDraft(r, l) ==
  /\ Editable(r)
  /\ draft[r][l] # None /\ ~draft[r][l].posted
  /\ draft' = [draft EXCEPT ![r][l].posted = TRUE]
  /\ UNCHANGED <<bank_source, payment, bank_match, reconciliation, item, snapshot>>

(* refs_set_reconciliation_adjustment_clearance                            *)
ClearAdjusted(r, l) ==
  /\ Editable(r)
  /\ l \in Adjusted(r)
  /\ SetItem(r, l, [cleared |-> TRUE, match |-> None])
  /\ Refresh(r)
  /\ UNCHANGED <<bank_source, payment, bank_match, draft, snapshot>>

UnclearAdjusted(r, l) ==
  /\ Editable(r)
  /\ l \in Adjusted(r)
  /\ l \in Cleared(r) /\ item[r][l].match = None
  /\ SetItem(r, l, [cleared |-> FALSE, match |-> None])
  /\ Refresh(r)
  /\ UNCHANGED <<bank_source, payment, bank_match, draft, snapshot>>

-----------------------------------------------------------------------------
(* Review, sign-off and reopening                                          *)

(* The evidence of an item as the transition finds it, not as it was when  *)
(* the item was cleared.                                                   *)
Valid(r, l) ==
  IF item[r][l].match = None THEN l \in Adjusted(r) ELSE Stands(item[r][l].match)

Items(r) == {l \in Line : item[r][l] # None}

(* Of the lines in the window and the items only the numbers are compared. *)
Tie(r) ==
  /\ reconciliation[r].ending = Book(Ends(r))
  /\ reconciliation[r].ending = reconciliation[r].opening + LineTotal(Cleared(r))
  /\ Scoped(r) # {}
  /\ Cardinality(Items(r)) = Cardinality(Scoped(r))
  /\ Items(r) = Cleared(r)
  /\ \A l \in Items(r) : Valid(r, l)

DraftedBy(a, r) == \E l \in Line : draft[r][l] # None /\ draft[r][l].by = a

Review(a, r) ==
  /\ Editable(r)
  /\ Tie(r)
  /\ ~DraftedBy(a, r)
  /\ reconciliation' = [reconciliation EXCEPT
       ![r] = [@ EXCEPT !.status = "IN_REVIEW", !.tied = TRUE, !.reviewed_by = a]]
  /\ UNCHANGED <<bank_source, payment, bank_match, item, draft, snapshot>>

SignOff(a, r) ==
  /\ Status(r) = "IN_REVIEW"
  /\ Tie(r)
  /\ reconciliation[r].reviewed_by # a
  /\ ~DraftedBy(a, r)
  /\ reconciliation' = [reconciliation EXCEPT
       ![r] = [@ EXCEPT !.status = "RECONCILED", !.tied = TRUE, !.reconciled_by = a]]
  /\ snapshot' = snapshot \cup {r}
  /\ UNCHANGED <<bank_source, payment, bank_match, item, draft>>

Reopen(a, r) ==
  /\ Signed(r)
  /\ reconciliation[r].reconciled_by # a
  /\ Latest(r)
  /\ NoneOpen(r)
  /\ reconciliation' = [reconciliation EXCEPT ![r].status = "REOPENED"]
  /\ UNCHANGED <<bank_source, payment, bank_match, item, draft, snapshot>>

-----------------------------------------------------------------------------
Cash ==
  \/ \E l \in Line : Admit(l)
  \/ \E p \in Payment : PostPayment(p) \/ RequestReversal(p) \/ \E day \in Day : PostReversal(p, day)

Matching ==
  \E m \in Match : Unmatch(m) \/ \E l \in Line, p \in Payment : CreateMatch(m, l, p)

Clearance(r) ==
  \E l \in Line :
    \/ \E m \in Match : Clear(r, l, m)
    \/ Unclear(r, l)
    \/ ClearAdjusted(r, l)
    \/ UnclearAdjusted(r, l)

Adjustment(r) ==
  \E l \in Line : PostDraft(r, l) \/ \E a \in Actor : MakeDraft(a, r, l)

Transition(r) == \E a \in Actor : Review(a, r) \/ SignOff(a, r) \/ Reopen(a, r)

Next ==
  \/ Cash
  \/ Matching
  \/ \E r \in Rec :
       \/ \E day \in Day, opening, ending \in Balance : Start(r, day, opening, ending)
       \/ Clearance(r)
       \/ Adjustment(r)
       \/ Transition(r)

Spec == Init /\ [][Next]_vars

-----------------------------------------------------------------------------
(* Properties                                                              *)

(* Rows have their types, an item stands for a line the bank reported, its *)
(* match for that line, and a snapshot for a statement that was started.   *)
TypeOK ==
  /\ bank_source \subseteq Line
  /\ payment \in [Payment -> PaymentRow]
  /\ bank_match \in [Match -> MatchRow \cup {None}]
  /\ reconciliation \in [Rec -> RecRow \cup {None}]
  /\ item \in [Rec -> [Line -> ItemRow \cup {None}]]
  /\ draft \in [Rec -> [Line -> DraftRow \cup {None}]]
  /\ snapshot \subseteq Rec
  /\ \A r \in snapshot : Exists(r)
  /\ \A r \in Rec, l \in Line :
       item[r][l] # None =>
         LET m == item[r][l].match
         IN /\ Exists(r) /\ l \in bank_source
            /\ m # None => bank_match[m] # None /\ bank_match[m].line = l

Evidence(r) == {item[r][l].match : l \in Cleared(r)} \ {None}
Payments(r) == {bank_match[m].payment : m \in Evidence(r)}

(* What a statement was signed off on stays true as long as it is signed:  *)
(* every item is backed by a match that still holds and a payment nobody   *)
(* reverses, or by a posted adjustment, whatever matching, unmatching and  *)
(* reversing went on between clearance, review, sign-off and today.        *)
SignedEvidenceStands ==
  \A r \in Rec : Signed(r) => \A l \in Items(r) :
    LET m == item[r][l].match
    IN IF m = None THEN draft[r][l] # None /\ draft[r][l].posted
       ELSE bank_match[m].active /\ payment[bank_match[m].payment].status = "POSTED"

(* A signed statement adds up: its opening balance and its items make its  *)
(* ending balance, although items may change until the moment it is signed *)
(* and again when it is reopened.                                          *)
SignedStatementAddsUp ==
  \A r \in Rec :
    Signed(r) =>
      reconciliation[r].ending = reconciliation[r].opening + LineTotal(Cleared(r))

(* The statements ever signed form one chain: each opens with the ending   *)
(* balance of the one before, and what is open comes after all of them but *)
(* the last, which it may be.                                              *)
StatementsChain ==
  /\ \A r, s \in Rec : Open(r) /\ Open(s) => r = s
  /\ \A r \in Rec, s \in snapshot : Open(r) => Ends(s) <= Ends(r)
  /\ \A r, s \in snapshot :
       /\ Ends(r) = Ends(s) => r = s
       /\ Ends(r) < Ends(s) =>
            \/ reconciliation[s].opening = reconciliation[r].ending
            \/ \E t \in snapshot : Ends(r) < Ends(t) /\ Ends(t) < Ends(s)

(* No payment is evidence of two signed statements, although matches can   *)
(* be taken back and made again and statements reopened.                   *)
PaymentSignedOnce ==
  \A r, s \in Rec : Signed(r) /\ Signed(s) /\ r # s => Payments(r) \cap Payments(s) = {}

(* The four eyes of a signed statement: whoever reviewed it did not sign   *)
(* it, and neither of them drafted one of its adjustments, in this round   *)
(* or before it was reopened.                                              *)
SeparateHands ==
  \A r \in Rec :
    Signed(r) =>
      LET reviewer == reconciliation[r].reviewed_by
          signer == reconciliation[r].reconciled_by
      IN reviewer # signer /\ ~DraftedBy(reviewer, r) /\ ~DraftedBy(signer, r)

(* The stack the rows add up to: what a signed statement says on its face, *)
(* what its items come to, the payments behind them and who signed.        *)
Face(r) ==
  [statement |-> r, ends |-> Ends(r), opening |-> reconciliation[r].opening,
   ending |-> reconciliation[r].ending]
Certified(r) ==
  [face |-> Face(r), booked |-> LineTotal(Cleared(r)), payments |-> Payments(r),
   reviewer |-> reconciliation[r].reviewed_by, signer |-> reconciliation[r].reconciled_by]
Undone == {p \in Payment : payment[p].status \in {"REVERSING", "REVERSED"}}

Statements == INSTANCE SignedStatements WITH
  signed <- {Certified(r) : r \in {r \in Rec : Signed(r)}},
  withdrawn <- {Face(r) : r \in {r \in snapshot : ~Signed(r)}},
  gone <- Undone

(* Statements are signed and taken back as SignedStatements says, whatever *)
(* is matched, taken back, posted, reversed and cleared in between: no     *)
(* command but sign-off and reopening of the last changes what is signed,  *)
(* and no payment behind it is undone or backs another statement.          *)
KeepsStatements == Statements!Spec

(* A bank line is an item of at most one signed statement: clearance by a  *)
(* payment refuses a line that "belongs to a prior signed-off statement",  *)
(* an adjustment takes one "exact unresolved statement bank source".       *)
LineSignedOnce ==
  \A r, s \in Rec : Signed(r) /\ Signed(s) /\ r # s => Items(r) \cap Items(s) = {}

(* What the code keeps of this: the line was booked by an adjustment of    *)
(* each of the two, because clearance by a payment looks at the window and *)
(* no draft is made of a line that has a match.                            *)
SharedLinesAdjusted ==
  \A r, s \in Rec : Signed(r) /\ Signed(s) /\ r # s =>
    \A l \in Items(r) \cap Items(s) : l \in Adjusted(r) \cap Adjusted(s)
=============================================================================
