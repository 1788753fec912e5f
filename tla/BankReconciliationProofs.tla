----------------------- MODULE BankReconciliationProofs -----------------------
(***************************************************************************)
(* Theorems about BankReconciliation, for any actors, statements, lines,   *)
(* payments, dates and amounts.  Book and the totals are never expanded:   *)
(* what the ledger says plays no part in what keeps signed statements      *)
(* true.                                                                   *)
(***************************************************************************)
EXTENDS BankReconciliation, TLAPS

-----------------------------------------------------------------------------
(* Rows                                                                    *)

(* No item and no draft is of a line later than its statement.  This is    *)
(* what makes the window that matching and unmatching respect protect it.  *)
Dated ==
  \A r \in Rec, l \in Line :
    item[r][l] # None \/ draft[r][l] # None =>
      Exists(r) /\ l \in bank_source /\ DateOf[l] <= Ends(r)

Rows == TypeOK /\ Dated

(* What no command but those of the life cycle changes in a statement.     *)
SameStatements ==
  /\ snapshot' = snapshot
  /\ \A r \in Rec :
       /\ Exists(r)' <=> Exists(r)
       /\ Exists(r) =>
            \A f \in {"status", "ends", "opening", "ending", "reviewed_by", "reconciled_by"} :
              reconciliation'[r][f] = reconciliation[r][f]

(* Work on the items and adjustments of an open statement.                 *)
Work(r) ==
  /\ Open(r)
  /\ SameStatements
  /\ UNCHANGED <<bank_source, payment, bank_match>>
  /\ \A s \in Rec \ {r} : item'[s] = item[s] /\ draft'[s] = draft[s]
  /\ ~Editable(r) => draft' = draft

(* The steps that leave the tables of statements alone.                    *)
Outside == (Cash \/ Matching \/ UNCHANGED vars) /\ UNCHANGED statement

LEMMA OutsideSteps == Cash \/ Matching \/ UNCHANGED vars => Outside
  BY DEF Outside, Cash, Matching, vars, statement, Admit, PostPayment, RequestReversal,
         PostReversal, CreateMatch, Unmatch

LEMMA OutsideRows == Rows /\ Outside => Rows'
<1>. SUFFICES ASSUME Rows, Outside
              PROVE  Rows'
  OBVIOUS
<1>. USE BankAssumption, BankNoneAssumption
<1>1. UNCHANGED <<reconciliation, item, draft, snapshot>>
  BY DEF Outside, statement
<1>2. ASSUME NEW l \in Line, Admit(l)
      PROVE  Rows'
  BY <1>1, <1>2 DEF Admit, Rows, TypeOK, Dated, Exists, Ends
<1>3. ASSUME NEW p \in Payment,
             PostPayment(p) \/ RequestReversal(p) \/ \E day \in Day : PostReversal(p, day)
      PROVE  Rows'
  <2>1. payment' \in [Payment -> PaymentRow] /\ UNCHANGED <<bank_source, bank_match>>
    <3>1. payment \in [Payment -> PaymentRow]
      BY DEF Rows, TypeOK
    <3>2. CASE PostPayment(p) \/ RequestReversal(p)
      BY <3>1, <3>2 DEF PostPayment, RequestReversal, PaymentRow
    <3>3. ASSUME NEW day \in Day, PostReversal(p, day)
          PROVE  payment' \in [Payment -> PaymentRow] /\ UNCHANGED <<bank_source, bank_match>>
      <4>1. [status |-> "REVERSED", undone |-> day] \in PaymentRow
        BY DEF PaymentRow
      <4>. QED  BY <3>1, <3>3, <4>1 DEF PostReversal
    <3>. QED  BY <1>3, <3>2, <3>3
  <2>. QED  BY <1>1, <2>1 DEF Rows, TypeOK, Dated, Exists, Ends
<1>4. ASSUME NEW m \in Match, Unmatch(m) \/ \E l \in Line, p \in Payment : CreateMatch(m, l, p)
      PROVE  Rows'
  <2>1. /\ bank_match' \in [Match -> MatchRow \cup {None}]
        /\ UNCHANGED <<bank_source, payment>>
        /\ \A k \in Match : bank_match[k] # None =>
             bank_match'[k] # None /\ bank_match'[k].line = bank_match[k].line
    <3>1. bank_match \in [Match -> MatchRow \cup {None}]
      BY DEF Rows, TypeOK
    <3>2. CASE Unmatch(m)
      BY <3>1, <3>2 DEF Unmatch, Active, MatchRow
    <3>3. ASSUME NEW l \in Line, NEW p \in Payment, CreateMatch(m, l, p)
          PROVE  /\ bank_match[m] = None
                 /\ bank_match' \in [Match -> MatchRow \cup {None}]
                 /\ UNCHANGED <<bank_source, payment>>
                 /\ \A k \in Match \ {m} : bank_match'[k] = bank_match[k]
      <4>1. [line |-> l, payment |-> p, active |-> TRUE] \in MatchRow
        BY DEF MatchRow
      <4>. QED  BY <3>1, <3>3, <4>1 DEF CreateMatch
    <3>. QED  BY <1>4, <3>2, <3>3
  <2>2. Dated'
    BY <1>1, <2>1 DEF Rows, Dated, Exists, Ends
  <2>3. ASSUME NEW s \in Rec, NEW l \in Line, item[s][l] # None
        PROVE  LET k == item[s][l].match
               IN /\ Exists(s) /\ l \in bank_source
                  /\ k # None => bank_match'[k] # None /\ bank_match'[k].line = l
    <3>1. item[s][l].match \in Match \cup {None}
      BY <2>3 DEF Rows, TypeOK, ItemRow
    <3>. QED  BY <2>1, <2>3, <3>1 DEF Rows, TypeOK
  <2>4. TypeOK'
    BY <1>1, <2>1, <2>3 DEF Rows, TypeOK, Exists
  <2>. QED  BY <2>2, <2>4 DEF Rows
<1>5. CASE UNCHANGED vars
  BY <1>5 DEF vars, Rows, TypeOK, Dated, Exists, Ends
<1>. QED  BY <1>2, <1>3, <1>4, <1>5 DEF Outside, Cash, Matching

(* A clearance command changes one item and whether the statement ties.    *)
LEMMA RefreshSame ==
  ASSUME Rows, NEW r \in Rec, Exists(r), Refresh(r), UNCHANGED snapshot
  PROVE  reconciliation' \in [Rec -> RecRow \cup {None}] /\ SameStatements
<1>1. reconciliation[r] \in RecRow /\ reconciliation \in [Rec -> RecRow \cup {None}]
  BY DEF Rows, TypeOK, Exists
<1>2. PICK t \in BOOLEAN : reconciliation' = [reconciliation EXCEPT ![r].tied = t]
  BY DEF Refresh
<1>3. [reconciliation[r] EXCEPT !.tied = t] \in RecRow
  BY <1>1 DEF RecRow
<1>. QED  BY <1>1, <1>2, <1>3, BankNoneAssumption DEF SameStatements, Exists, RecRow

LEMMA ClearanceRows ==
  ASSUME Rows, NEW r \in Rec, Clearance(r)
  PROVE  Rows' /\ Work(r)
<1>1. PICK l \in Line :
        \/ \E m \in Match : Clear(r, l, m)
        \/ Unclear(r, l)
        \/ ClearAdjusted(r, l)
        \/ UnclearAdjusted(r, l)
  BY DEF Clearance
<1>2. /\ Open(r) /\ Exists(r) /\ l \in bank_source /\ DateOf[l] <= Ends(r)
      /\ Refresh(r) /\ UNCHANGED <<bank_source, payment, bank_match, draft, snapshot>>
  BY <1>1 DEF Clear, Unclear, ClearAdjusted, UnclearAdjusted, ClearanceAllowed, InWindow,
              Open, Editable, Status, Adjusted, Rows, Dated
<1>. DEFINE Becomes(row) ==
       /\ item' = [item EXCEPT ![r][l] = row]
       /\ row.match # None => bank_match[row.match] # None /\ bank_match[row.match].line = l
<1>3. PICK row \in ItemRow : Becomes(row)
  <2>1. ASSUME NEW m \in Match, Clear(r, l, m)
        PROVE  \E row \in ItemRow : Becomes(row)
    <3>1. [cleared |-> TRUE, match |-> m] \in ItemRow /\ m # None
      BY BankAssumption DEF ItemRow
    <3>. QED  BY <2>1, <3>1 DEF Clear, SetItem, Acceptable, Stands, Active
  <2>2. CASE Unclear(r, l)
    <3>. DEFINE row == [item[r][l] EXCEPT !.cleared = FALSE]
    <3>1. item[r][l] \in ItemRow /\ item[r][l] # None
      BY <2>2 DEF Unclear, Cleared, Rows, TypeOK
    <3>2. row \in ItemRow /\ row.match = item[r][l].match
      BY <3>1 DEF ItemRow
    <3>3. item' = [item EXCEPT ![r][l] = row]
      BY <2>2 DEF Unclear, SetItem
    <3>4. Becomes(row)
      <4>. HIDE DEF row
      <4>. QED  BY <3>1, <3>2, <3>3 DEF Rows, TypeOK
    <3>. QED  BY <3>2, <3>4
  <2>3. CASE ClearAdjusted(r, l) \/ UnclearAdjusted(r, l)
    <3>1. PICK b \in BOOLEAN : SetItem(r, l, [cleared |-> b, match |-> None])
      BY <2>3 DEF ClearAdjusted, UnclearAdjusted
    <3>2. [cleared |-> b, match |-> None] \in ItemRow
      BY DEF ItemRow
    <3>. QED  BY <3>1, <3>2 DEF SetItem
  <2>. QED  BY <1>1, <2>1, <2>2, <2>3
<1>4. reconciliation' \in [Rec -> RecRow \cup {None}] /\ SameStatements
  BY <1>2, RefreshSame
<1>5. \A s \in Rec, k \in Line :
        item'[s][k] = IF s = r /\ k = l THEN row ELSE item[s][k]
  BY <1>3 DEF Rows, TypeOK
<1>6. item' \in [Rec -> [Line -> ItemRow \cup {None}]]
  BY <1>3 DEF Rows, TypeOK
<1>7. \A s \in Rec : (Exists(s)' <=> Exists(s)) /\ (Exists(s) => Ends(s)' = Ends(s))
  BY <1>4 DEF SameStatements, Ends
<1>8. TypeOK'
  BY <1>2, <1>3, <1>4, <1>5, <1>6, <1>7 DEF Rows, TypeOK
<1>9. Dated'
  BY <1>2, <1>5, <1>7 DEF Rows, Dated
<1>10. Work(r)
  BY <1>2, <1>4, <1>5, <1>6 DEF Work, Rows, TypeOK
<1>. QED  BY <1>8, <1>9, <1>10 DEF Rows

LEMMA AdjustmentRows ==
  ASSUME Rows, NEW r \in Rec, Adjustment(r)
  PROVE  Rows' /\ Work(r)
<1>1. PICK l \in Line : PostDraft(r, l) \/ \E a \in Actor : MakeDraft(a, r, l)
  BY DEF Adjustment
<1>2. /\ Editable(r) /\ Open(r) /\ Exists(r) /\ l \in bank_source /\ DateOf[l] <= Ends(r)
      /\ UNCHANGED <<bank_source, payment, bank_match, reconciliation, item, snapshot>>
  BY <1>1 DEF PostDraft, MakeDraft, Open, Editable, Status, Rows, Dated
<1>3. draft \in [Rec -> [Line -> DraftRow \cup {None}]]
  BY DEF Rows, TypeOK
<1>4. PICK row \in DraftRow : draft' = [draft EXCEPT ![r][l] = row]
  <2>1. CASE PostDraft(r, l)
    <3>. DEFINE row == [draft[r][l] EXCEPT !.posted = TRUE]
    <3>0. draft[r][l] \in DraftRow
      BY <1>3, <2>1 DEF PostDraft
    <3>1. row \in DraftRow
      BY <3>0 DEF DraftRow
    <3>2. draft' = [draft EXCEPT ![r][l] = row]
      BY <2>1 DEF PostDraft
    <3>. QED  BY <3>1, <3>2
  <2>2. ASSUME NEW a \in Actor, MakeDraft(a, r, l)
        PROVE  \E row \in DraftRow : draft' = [draft EXCEPT ![r][l] = row]
    <3>1. [by |-> a, posted |-> FALSE] \in DraftRow
      BY DEF DraftRow
    <3>. QED  BY <2>2, <3>1 DEF MakeDraft
  <2>. QED  BY <1>1, <2>1, <2>2
<1>5. /\ draft' \in [Rec -> [Line -> DraftRow \cup {None}]]
      /\ \A s \in Rec, k \in Line :
           draft'[s][k] = IF s = r /\ k = l THEN row ELSE draft[s][k]
      /\ \A s \in Rec \ {r} : draft'[s] = draft[s]
  BY <1>3, <1>4
<1>6. TypeOK'
  BY <1>2, <1>5 DEF Rows, TypeOK, Exists
<1>7. Dated'
  BY <1>2, <1>5 DEF Rows, Dated, Exists, Ends
<1>8. Work(r)
  BY <1>2, <1>5 DEF Work, SameStatements, Exists
<1>. QED  BY <1>6, <1>7, <1>8 DEF Rows

(* A step of one statement's life cycle.                                   *)
Alone(r) ==
  /\ UNCHANGED <<bank_source, payment, bank_match, item, draft>>
  /\ \A s \in Rec \ {r} : reconciliation'[s] = reconciliation[s]
  /\ Exists(r)'

LEMMA StartRows ==
  ASSUME Rows, NEW r \in Rec, NEW day \in Day, NEW opening \in Balance, NEW ending \in Balance,
         Start(r, day, opening, ending)
  PROVE  /\ Rows' /\ Alone(r) /\ Status(r)' = "DRAFT" /\ Ends(r)' = day
         /\ reconciliation'[r].opening = opening /\ reconciliation'[r].ending = ending
<1>. DEFINE row == [status |-> "DRAFT", ends |-> day, opening |-> opening, ending |-> ending,
                    tied |-> ending = Book(day), reviewed_by |-> None, reconciled_by |-> None]
<1>1. row \in RecRow /\ row # None
  <2>. DEFINE ties == ending = Book(day)
  <2>1. ties \in BOOLEAN
    OBVIOUS
  <2>2. opening \in Int /\ ending \in Int
    BY BankAssumption
  <2>. HIDE DEF ties
  <2>3. [status |-> "DRAFT", ends |-> day, opening |-> opening, ending |-> ending,
         tied |-> ties, reviewed_by |-> None, reconciled_by |-> None] \in RecRow
    BY <2>1, <2>2 DEF RecRow
  <2>. QED  BY <2>3, BankNoneAssumption DEF ties
<1>2. reconciliation' = [reconciliation EXCEPT ![r] = row]
      /\ UNCHANGED <<bank_source, payment, bank_match, item, draft, snapshot>>
  BY DEF Start
<1>0. /\ row.status = "DRAFT" /\ row.ends = day
      /\ row.opening = opening /\ row.ending = ending
  OBVIOUS
<1>. HIDE DEF row
<1>3. /\ reconciliation' \in [Rec -> RecRow \cup {None}]
      /\ \A s \in Rec \ {r} : reconciliation'[s] = reconciliation[s]
      /\ reconciliation'[r] = row /\ row # None
  BY <1>1, <1>2 DEF Rows, TypeOK
<1>4. ~Exists(r)
  BY DEF Start
<1>5. TypeOK'
  BY <1>2, <1>3 DEF Rows, TypeOK, Exists
<1>6. Dated'
  BY <1>2, <1>3, <1>4 DEF Rows, Dated, Exists, Ends
<1>7. Alone(r) /\ Status(r)' = "DRAFT" /\ Ends(r)' = day
  BY <1>0, <1>2, <1>3 DEF Alone, Exists, Status, Ends
<1>. QED  BY <1>0, <1>3, <1>5, <1>6, <1>7 DEF Rows

(* Review, sign-off and reopening keep the days and the balances.          *)
LEMMA TransitionRows ==
  ASSUME Rows, NEW r \in Rec, NEW a \in Actor, Review(a, r) \/ SignOff(a, r) \/ Reopen(a, r)
  PROVE  /\ Rows' /\ Alone(r) /\ Exists(r)
         /\ \A s \in Rec : Exists(s)' <=> Exists(s)
         /\ \A s \in Rec : Exists(s) =>
              \A f \in {"ends", "opening", "ending"} : reconciliation'[s][f] = reconciliation[s][f]
         /\ Review(a, r) => Status(r)' = "IN_REVIEW" /\ reconciliation'[r].reviewed_by = a
         /\ SignOff(a, r) =>
              /\ Status(r)' = "RECONCILED" /\ reconciliation'[r].reconciled_by = a
              /\ reconciliation'[r].reviewed_by = reconciliation[r].reviewed_by
         /\ Reopen(a, r) => Status(r)' = "REOPENED"
<1>1. reconciliation \in [Rec -> RecRow \cup {None}] /\ Exists(r) /\ reconciliation[r] \in RecRow
  BY DEF Review, SignOff, Reopen, Editable, Signed, Status, Exists, Rows, TypeOK
<1>. DEFINE Kept(row) == \A f \in {"ends", "opening", "ending"} : row[f] = reconciliation[r][f]
            Moved(row) ==
              \/ Review(a, r) /\ row.status = "IN_REVIEW" /\ row.reviewed_by = a
              \/ /\ SignOff(a, r) /\ row.status = "RECONCILED" /\ row.reconciled_by = a
                 /\ row.reviewed_by = reconciliation[r].reviewed_by
              \/ Reopen(a, r) /\ row.status = "REOPENED"
<1>2. PICK row \in RecRow :
        /\ reconciliation' = [reconciliation EXCEPT ![r] = row]
        /\ Kept(row) /\ Moved(row)
  <2>1. CASE Review(a, r)
    <3>. DEFINE row == [reconciliation[r] EXCEPT
                          !.status = "IN_REVIEW", !.tied = TRUE, !.reviewed_by = a]
    <3>1. row \in RecRow /\ Kept(row) /\ Moved(row)
      BY <1>1, <2>1 DEF RecRow
    <3>2. reconciliation' = [reconciliation EXCEPT ![r] = row]
      BY <2>1 DEF Review
    <3>. QED  BY <3>1, <3>2
  <2>2. CASE SignOff(a, r)
    <3>. DEFINE row == [reconciliation[r] EXCEPT
                          !.status = "RECONCILED", !.tied = TRUE, !.reconciled_by = a]
    <3>1. row \in RecRow /\ Kept(row) /\ Moved(row)
      BY <1>1, <2>2 DEF RecRow
    <3>2. reconciliation' = [reconciliation EXCEPT ![r] = row]
      BY <2>2 DEF SignOff
    <3>. QED  BY <3>1, <3>2
  <2>3. CASE Reopen(a, r)
    <3>. DEFINE row == [reconciliation[r] EXCEPT !.status = "REOPENED"]
    <3>1. row \in RecRow /\ Kept(row) /\ Moved(row)
      BY <1>1, <2>3 DEF RecRow
    <3>2. reconciliation' = [reconciliation EXCEPT ![r] = row]
      BY <2>3 DEF Reopen
    <3>. QED  BY <3>1, <3>2
  <2>. QED  BY <2>1, <2>2, <2>3
<1>3. /\ UNCHANGED <<bank_source, payment, bank_match, item, draft>>
      /\ snapshot' = snapshot \/ snapshot' = snapshot \cup {r}
  BY DEF Review, SignOff, Reopen
<1>4. /\ reconciliation' \in [Rec -> RecRow \cup {None}]
      /\ \A s \in Rec \ {r} : reconciliation'[s] = reconciliation[s]
      /\ reconciliation'[r] = row /\ row # None
  BY <1>1, <1>2, BankNoneAssumption
<1>5. /\ \A s \in Rec : Exists(s)' <=> Exists(s)
      /\ \A s \in Rec : Exists(s) =>
           \A f \in {"ends", "opening", "ending"} : reconciliation'[s][f] = reconciliation[s][f]
  BY <1>1, <1>2, <1>4 DEF Exists
<1>8. /\ ~(Review(a, r) /\ SignOff(a, r)) /\ ~(Review(a, r) /\ Reopen(a, r))
      /\ ~(SignOff(a, r) /\ Reopen(a, r))
  BY DEF Review, SignOff, Reopen, Editable, Signed
<1>9. /\ Review(a, r) => Status(r)' = "IN_REVIEW" /\ reconciliation'[r].reviewed_by = a
      /\ SignOff(a, r) =>
           /\ Status(r)' = "RECONCILED" /\ reconciliation'[r].reconciled_by = a
           /\ reconciliation'[r].reviewed_by = reconciliation[r].reviewed_by
      /\ Reopen(a, r) => Status(r)' = "REOPENED"
  BY <1>2, <1>4, <1>8 DEF Status, Exists
<1>6. TypeOK'
  <2>1. snapshot' \subseteq Rec /\ \A s \in snapshot' : Exists(s)'
    BY <1>1, <1>3, <1>5 DEF Rows, TypeOK
  <2>. QED  BY <1>3, <1>4, <1>5, <2>1 DEF Rows, TypeOK
<1>7. Dated'
  BY <1>3, <1>5 DEF Rows, Dated, Ends
<1>. QED  BY <1>1, <1>3, <1>4, <1>5, <1>6, <1>7, <1>9 DEF Rows, Alone

LEMMA RowsKept == Rows /\ [Next]_vars => Rows'
<1>. SUFFICES ASSUME Rows, [Next]_vars
              PROVE  Rows'
  OBVIOUS
<1>1. CASE Cash \/ Matching \/ UNCHANGED vars
  BY <1>1, OutsideSteps, OutsideRows
<1>2. ASSUME NEW r \in Rec,
             NEW day \in Day, NEW opening \in Balance, NEW ending \in Balance,
             Start(r, day, opening, ending)
      PROVE  Rows'
  BY <1>2, StartRows
<1>3. ASSUME NEW r \in Rec, Clearance(r) \/ Adjustment(r)
      PROVE  Rows'
  BY <1>3, ClearanceRows, AdjustmentRows
<1>4. ASSUME NEW r \in Rec, Transition(r)
      PROVE  Rows'
  BY <1>4, TransitionRows DEF Transition
<1>. QED  BY <1>1, <1>2, <1>3, <1>4 DEF Next

(* Every reachable row is well typed, and an item stands for a line the    *)
(* bank reported and for a match of that line.                             *)
THEOREM BankTyped == Spec => []TypeOK
<1>1. Init => Rows
  BY BankAssumption, BankNoneAssumption DEF Init, Rows, TypeOK, Dated, Exists, PaymentRow, Day
<1>2. Rows => TypeOK
  BY DEF Rows
<1>. QED  BY <1>1, <1>2, RowsKept, PTL DEF Spec

-----------------------------------------------------------------------------
(* Evidence, hands and sums of signed statements                           *)

LEMMA OutsideSigned ==
  ASSUME Outside, NEW r \in Rec
  PROVE  /\ Status(r)' = Status(r) /\ (Signed(r)' <=> Signed(r))
         /\ Items(r)' = Items(r) /\ Cleared(r)' = Cleared(r)
  BY DEF Outside, statement, Status, Exists, Signed, Items, Cleared

LEMMA WorkSigned ==
  ASSUME NEW r \in Rec, Work(r), NEW s \in Rec
  PROVE  /\ Status(s)' = Status(s)
         /\ Signed(s)' => /\ Signed(s) /\ s # r
                          /\ item'[s] = item[s] /\ draft'[s] = draft[s]
  BY DEF Work, Open, SameStatements, Status, Exists, Signed

LEMMA EvidenceKept == Rows /\ SignedEvidenceStands /\ [Next]_vars => SignedEvidenceStands'
<1>. SUFFICES ASSUME Rows, SignedEvidenceStands, [Next]_vars,
                     NEW r \in Rec, Signed(r)', NEW l \in Items(r)',
                     NEW m, m = item'[r][l].match
              PROVE  IF m = None THEN draft'[r][l] # None /\ draft'[r][l].posted
                     ELSE /\ bank_match'[m].active
                          /\ payment'[bank_match'[m].payment].status = "POSTED"
  BY DEF SignedEvidenceStands
<1>. DEFINE Stood == IF m = None THEN draft[r][l] # None /\ draft[r][l].posted
                     ELSE bank_match[m].active /\ payment[bank_match[m].payment].status = "POSTED"
<1>1. l \in Line
  BY DEF Items
<1>2. CASE Cash \/ Matching \/ UNCHANGED vars
  <2>1. Outside
    BY <1>2, OutsideSteps
  <2>0. UNCHANGED <<reconciliation, item, draft>>
    BY <2>1 DEF Outside, statement
  <2>2. /\ Signed(r) /\ l \in Items(r) /\ m = item[r][l].match /\ UNCHANGED <<item, draft>>
        /\ reconciliation' = reconciliation
    BY <2>0 DEF Signed, Status, Exists, Items
  <2>3. Stood
    BY <2>2 DEF SignedEvidenceStands
  <2>4. CASE m = None
    BY <2>2, <2>3, <2>4
  <2>5. CASE m # None
    <3>1. /\ m \in Match /\ Active(m) /\ bank_match[m].line = l
          /\ bank_match[m].payment \in Payment /\ DateOf[l] <= Ends(r)
          /\ payment[bank_match[m].payment].status = "POSTED"
      BY <2>2, <2>3, <2>5 DEF Rows, TypeOK, Dated, Active, Items, ItemRow, MatchRow
    <3>2. bank_match'[m] = bank_match[m]
      <4>1. ~Unmatch(m)
        BY <1>1, <2>2, <3>1, BankAssumption DEF Unmatch, LineUnsigned, Rows, TypeOK, Signed, Status,
             Exists, Ends, RecRow, Day
      <4>2. \A k \in Line, p \in Payment : ~CreateMatch(m, k, p)
        BY <3>1 DEF CreateMatch, Active
      <4>3. \/ bank_match' = bank_match
            \/ \E k \in Match : Unmatch(k) \/ \E i \in Line, p \in Payment : CreateMatch(k, i, p)
        BY <1>2 DEF Cash, Matching, vars, Admit, PostPayment, RequestReversal, PostReversal
      <4>4. bank_match \in [Match -> MatchRow \cup {None}]
        BY DEF Rows, TypeOK
      <4>5. ASSUME NEW k \in Match \ {m},
                   Unmatch(k) \/ \E i \in Line, p \in Payment : CreateMatch(k, i, p)
            PROVE  bank_match'[m] = bank_match[m]
        BY <3>1, <4>4, <4>5 DEF Unmatch, CreateMatch
      <4>. QED  BY <4>1, <4>2, <4>3, <4>5
    <3>3. payment'[bank_match[m].payment] = payment[bank_match[m].payment]
      <4>. DEFINE p == bank_match[m].payment
      <4>1. ~RequestReversal(p) /\ ~PostPayment(p) /\ \A day \in Day : ~PostReversal(p, day)
        BY <3>1 DEF RequestReversal, MatchedNow, PostPayment, PostReversal
      <4>3. \/ payment' = payment
            \/ \E q \in Payment : \/ PostPayment(q) \/ RequestReversal(q)
                                 \/ \E day \in Day : PostReversal(q, day)
        BY <1>2 DEF Cash, Matching, vars, Admit, Unmatch, CreateMatch
      <4>4. payment \in [Payment -> PaymentRow]
        BY DEF Rows, TypeOK
      <4>5. ASSUME NEW q \in Payment \ {p},
                   PostPayment(q) \/ RequestReversal(q) \/ \E day \in Day : PostReversal(q, day)
            PROVE  payment'[p] = payment[p]
        BY <3>1, <4>4, <4>5 DEF PostPayment, RequestReversal, PostReversal
      <4>. QED  BY <4>1, <4>3, <4>5
    <3>. QED  BY <2>3, <2>5, <3>2, <3>3
  <2>. QED  BY <2>4, <2>5
<1>3. ASSUME NEW s \in Rec, Clearance(s) \/ Adjustment(s)
      PROVE  Stood /\ draft'[r] = draft[r] /\ UNCHANGED <<bank_match, payment>>
  <2>1. Work(s)
    BY <1>3, ClearanceRows, AdjustmentRows
  <2>2. Signed(r) /\ item'[r] = item[r] /\ draft'[r] = draft[r]
    BY <2>1, WorkSigned
  <2>3. l \in Items(r) /\ m = item[r][l].match
    BY <2>2 DEF Items
  <2>. QED  BY <2>1, <2>2, <2>3 DEF Work, SignedEvidenceStands
<1>4. ASSUME NEW s \in Rec, Alone(s), ~Signed(s)' \/ Tie(s)
      PROVE  Stood /\ UNCHANGED <<draft, bank_match, payment>>
  <2>1. l \in Items(r) /\ m = item[r][l].match
    BY <1>4 DEF Alone, Items
  <2>2. CASE r # s
    <3>1. Signed(r)
      BY <1>4, <2>2 DEF Alone, Signed, Status, Exists
    <3>. QED  BY <1>4, <2>1, <3>1 DEF SignedEvidenceStands, Alone
  <2>3. CASE r = s
    <3>1. Valid(r, l)
      BY <1>4, <2>1, <2>3 DEF Tie
    <3>. QED  BY <1>4, <2>1, <3>1 DEF Valid, Stands, Active, Adjusted, Alone
  <2>. QED  BY <2>2, <2>3
<1>5. ASSUME NEW s \in Rec, NEW day \in Day, NEW opening \in Balance, NEW ending \in Balance,
             Start(s, day, opening, ending)
      PROVE  Alone(s) /\ ~Signed(s)'
  BY <1>5, StartRows DEF Signed
<1>6. ASSUME NEW s \in Rec, Transition(s)
      PROVE  Alone(s) /\ (~Signed(s)' \/ Tie(s))
  <2>1. PICK a \in Actor : Review(a, s) \/ SignOff(a, s) \/ Reopen(a, s)
    BY <1>6 DEF Transition
  <2>2. ~Reopen(a, s) => Tie(s)
    BY <2>1 DEF Review, SignOff
  <2>. QED  BY <2>1, <2>2, TransitionRows DEF Signed
<1>. QED  BY <1>2, <1>3, <1>4, <1>5, <1>6 DEF Next

(* What a statement was signed off on stays true as long as it is signed,  *)
(* although neither matching nor reversing ever looks at its items.        *)
THEOREM EvidenceStands == Spec => []SignedEvidenceStands
<1>1. Init => Rows /\ SignedEvidenceStands
  BY BankAssumption, BankNoneAssumption
     DEF Init, Rows, TypeOK, Dated, Exists, PaymentRow, Day, SignedEvidenceStands, Signed, Status
<1>. QED  BY <1>1, RowsKept, EvidenceKept, PTL DEF Spec

(* The reviewer of a statement in review or signed drafted nothing of it.  *)
ReviewedApart ==
  \A r \in Rec :
    Status(r) \in {"IN_REVIEW", "RECONCILED"} => ~DraftedBy(reconciliation[r].reviewed_by, r)

LEMMA HandsKept ==
  Rows /\ ReviewedApart /\ SeparateHands /\ [Next]_vars => ReviewedApart' /\ SeparateHands'
<1>. SUFFICES ASSUME Rows, ReviewedApart, SeparateHands, [Next]_vars
              PROVE  ReviewedApart' /\ SeparateHands'
  OBVIOUS
<1>1. CASE Cash \/ Matching \/ UNCHANGED vars
  <2>1. UNCHANGED <<reconciliation, draft>>
    BY <1>1, OutsideSteps DEF Outside, statement
  <2>. QED  BY <2>1 DEF ReviewedApart, SeparateHands, Signed, Status, Exists, DraftedBy
<1>2. ASSUME NEW s \in Rec, Clearance(s) \/ Adjustment(s)
      PROVE  ReviewedApart' /\ SeparateHands'
  <2>1. Work(s)
    BY <1>2, ClearanceRows, AdjustmentRows
  <2>2. ASSUME NEW r \in Rec, Status(r)' \in {"IN_REVIEW", "RECONCILED"}
        PROVE  /\ Status(r) = Status(r)' /\ draft'[r] = draft[r] /\ Exists(r)
               /\ reconciliation'[r].reviewed_by = reconciliation[r].reviewed_by
               /\ reconciliation'[r].reconciled_by = reconciliation[r].reconciled_by
    BY <2>1, <2>2 DEF Work, SameStatements, Status, Exists, Editable
  <2>. QED  BY <2>2 DEF ReviewedApart, SeparateHands, Signed, DraftedBy
<1>3. ASSUME NEW s \in Rec, Alone(s), NEW r \in Rec \ {s}
      PROVE  /\ Status(r)' = Status(r) /\ reconciliation'[r] = reconciliation[r]
             /\ draft' = draft
  BY <1>3 DEF Alone, Status, Exists
<1>4. ASSUME NEW s \in Rec, NEW day \in Day, NEW opening \in Balance, NEW ending \in Balance,
             Start(s, day, opening, ending)
      PROVE  ReviewedApart' /\ SeparateHands'
  <2>1. Alone(s) /\ Status(s)' = "DRAFT"
    BY <1>4, StartRows
  <2>. QED  BY <1>3, <2>1 DEF ReviewedApart, SeparateHands, Signed, DraftedBy
<1>5. ASSUME NEW s \in Rec, NEW a \in Actor, Review(a, s) \/ SignOff(a, s) \/ Reopen(a, s)
      PROVE  ReviewedApart' /\ SeparateHands'
  <2>1. Alone(s) /\ draft' = draft
    BY <1>5, TransitionRows DEF Alone
  <2>2. CASE Review(a, s)
    <3>1. Status(s)' = "IN_REVIEW" /\ reconciliation'[s].reviewed_by = a /\ ~DraftedBy(a, s)
      BY <2>2, TransitionRows DEF Review
    <3>. QED  BY <1>3, <2>1, <3>1 DEF ReviewedApart, SeparateHands, Signed, DraftedBy
  <2>3. CASE SignOff(a, s)
    <3>1. /\ Status(s)' = "RECONCILED" /\ reconciliation'[s].reconciled_by = a
          /\ reconciliation'[s].reviewed_by = reconciliation[s].reviewed_by
          /\ reconciliation[s].reviewed_by # a /\ ~DraftedBy(a, s) /\ Status(s) = "IN_REVIEW"
      BY <2>3, TransitionRows DEF SignOff
    <3>. QED  BY <1>3, <2>1, <3>1 DEF ReviewedApart, SeparateHands, Signed, DraftedBy
  <2>4. CASE Reopen(a, s)
    <3>1. Status(s)' = "REOPENED"
      BY <2>4, TransitionRows
    <3>. QED  BY <1>3, <2>1, <3>1 DEF ReviewedApart, SeparateHands, Signed, DraftedBy
  <2>. QED  BY <1>5, <2>2, <2>3, <2>4
<1>. QED  BY <1>1, <1>2, <1>4, <1>5 DEF Next, Transition

(* Reviewer, signer and drafters of a signed statement are kept apart,     *)
(* although the signer's own check never looks at the reviewer's drafts.   *)
THEOREM HandsSeparate == Spec => []SeparateHands
<1>1. Init => Rows /\ ReviewedApart /\ SeparateHands
  BY BankAssumption, BankNoneAssumption
     DEF Init, Rows, TypeOK, Dated, Exists, PaymentRow, Day, ReviewedApart, SeparateHands, Signed,
         Status
<1>. QED  BY <1>1, RowsKept, HandsKept, PTL DEF Spec

LEMMA SumsKept == Rows /\ SignedStatementAddsUp /\ [Next]_vars => SignedStatementAddsUp'
<1>. SUFFICES ASSUME Rows, SignedStatementAddsUp, [Next]_vars, NEW r \in Rec, Signed(r)'
              PROVE  /\ Cleared(r)' = Cleared(r)
                     /\ reconciliation'[r].ending =
                          reconciliation'[r].opening + LineTotal(Cleared(r))
  BY DEF SignedStatementAddsUp
<1>. DEFINE Adds == reconciliation[r].ending = reconciliation[r].opening + LineTotal(Cleared(r))
<1>1. CASE Cash \/ Matching \/ UNCHANGED vars
  <2>1. UNCHANGED <<reconciliation, item>>
    BY <1>1, OutsideSteps DEF Outside, statement
  <2>. QED  BY <2>1 DEF SignedStatementAddsUp, Signed, Status, Exists, Cleared
<1>2. ASSUME NEW s \in Rec, Clearance(s) \/ Adjustment(s)
      PROVE  /\ Adds /\ item'[r] = item[r]
             /\ reconciliation'[r].ending = reconciliation[r].ending
             /\ reconciliation'[r].opening = reconciliation[r].opening
  <2>1. Work(s)
    BY <1>2, ClearanceRows, AdjustmentRows
  <2>2. Signed(r) /\ item'[r] = item[r] /\ Exists(r)
    BY <2>1, WorkSigned DEF Signed, Status
  <2>. QED  BY <2>1, <2>2 DEF Work, SameStatements, SignedStatementAddsUp
<1>3. ASSUME NEW s \in Rec \ {r}, Alone(s)
      PROVE  Adds /\ item' = item /\ reconciliation'[r] = reconciliation[r]
  BY <1>3 DEF Alone, SignedStatementAddsUp, Signed, Status, Exists
<1>4. ASSUME NEW s \in Rec, NEW day \in Day, NEW opening \in Balance, NEW ending \in Balance,
             Start(s, day, opening, ending)
      PROVE  Alone(s) /\ s # r
  BY <1>4, StartRows DEF Signed
<1>5. ASSUME NEW s \in Rec, NEW a \in Actor, Review(a, s) \/ SignOff(a, s) \/ Reopen(a, s)
      PROVE  Alone(s) /\ (s = r => Adds /\ reconciliation'[r].ending = reconciliation[r].ending
                                       /\ reconciliation'[r].opening = reconciliation[r].opening)
  <2>1. /\ Alone(s) /\ Exists(s)
        /\ reconciliation'[s].ending = reconciliation[s].ending
        /\ reconciliation'[s].opening = reconciliation[s].opening
    BY <1>5, TransitionRows
  <2>2. s = r => SignOff(a, s)
    BY <1>5, TransitionRows DEF Signed
  <2>. QED  BY <2>1, <2>2 DEF SignOff, Tie
<1>6. item'[r] = item[r] => Cleared(r)' = Cleared(r)
  BY DEF Cleared
<1>7. \A s \in Rec : Alone(s) => item'[r] = item[r]
  BY DEF Alone
<1>. QED  BY <1>1, <1>2, <1>3, <1>4, <1>5, <1>6, <1>7 DEF Next, Transition

(* A signed statement adds up, whoever cleared what until it was signed.   *)
THEOREM StatementsAddUp == Spec => []SignedStatementAddsUp
<1>1. Init => Rows /\ SignedStatementAddsUp
  BY BankAssumption, BankNoneAssumption
     DEF Init, Rows, TypeOK, Dated, Exists, PaymentRow, Day, SignedStatementAddsUp, Signed, Status
<1>. QED  BY <1>1, RowsKept, SumsKept, PTL DEF Spec

-----------------------------------------------------------------------------
(* The chain of statements                                                 *)

(* Of the statements ever signed one is the latest; what is signed is one  *)
(* of them; what is open is later than all the others and opens where the  *)
(* latest ended.                                                           *)
Chained ==
  /\ StatementsChain
  /\ snapshot # {} => \E s \in Rec : Latest(s)
  /\ \A r \in Rec : Signed(r) => r \in snapshot
  /\ \A r \in Rec : Open(r) => \A s \in snapshot \ {r} : Ends(s) < Ends(r)
  /\ \A r \in Rec \ snapshot, s \in Rec :
       Open(r) /\ Latest(s) => reconciliation[r].opening = reconciliation[s].ending

(* A step that changes no status, day or balance.                          *)
LEMMA ChainSame ==
  ASSUME Rows, Chained, SameStatements
  PROVE  Chained'
<1>1. /\ snapshot' = snapshot
      /\ \A r \in Rec :
           Status(r)' = Status(r) /\ (Open(r)' <=> Open(r)) /\ (Signed(r)' <=> Signed(r))
      /\ \A r \in Rec : Exists(r) =>
           /\ Ends(r)' = Ends(r) /\ reconciliation'[r].opening = reconciliation[r].opening
           /\ reconciliation'[r].ending = reconciliation[r].ending
  BY DEF SameStatements, Status, Open, Signed, Exists, Ends
<1>2. /\ \A r \in Rec : Open(r) => Exists(r)
      /\ \A r \in snapshot : r \in Rec /\ Exists(r)
  BY DEF Open, Status, Rows, TypeOK
<1>3. \A r \in Rec : Latest(r)' <=> Latest(r)
  BY <1>1, <1>2 DEF Latest
<1>4. StatementsChain'
  BY <1>1, <1>2 DEF Chained, StatementsChain
<1>. QED  BY <1>1, <1>2, <1>3, <1>4 DEF Chained, Latest

LEMMA Days ==
  ASSUME Rows, NEW r \in Rec, Exists(r)
  PROVE  Ends(r) \in Int
  BY BankAssumption DEF Rows, TypeOK, Exists, Ends, RecRow, Day

LEMMA StartChained ==
  ASSUME Rows, Chained, NEW r \in Rec,
         NEW day \in Day, NEW opening \in Balance, NEW ending \in Balance,
         Start(r, day, opening, ending)
  PROVE  Chained'
<1>1. /\ Rows' /\ Alone(r) /\ Ends(r)' = day /\ Open(r)' /\ ~Signed(r)' /\ snapshot' = snapshot
      /\ reconciliation'[r].opening = opening /\ ~Exists(r)
  BY StartRows DEF Start, Open, Signed
<1>2. \A s \in Rec \ {r} :
        /\ reconciliation'[s] = reconciliation[s] /\ Status(s)' = Status(s)
        /\ (Open(s)' <=> Open(s)) /\ (Signed(s)' <=> Signed(s)) /\ Ends(s)' = Ends(s)
  BY <1>1 DEF Alone, Status, Open, Signed, Exists, Ends
<1>3. \A s \in Rec \ {r} : ~Open(s)
  BY DEF Start, NoneOpen
<1>4. \A s \in snapshot : s \in Rec \ {r} /\ Exists(s) /\ Ends(s) \in Int
  BY <1>1, Days DEF Rows, TypeOK
<1>5. \A s \in snapshot : Ends(s) < day
  <2>1. \A s \in Rec : Latest(s) => Ends(s) < day
    BY DEF Start
  <2>. QED  BY <1>4, <2>1 DEF Chained, Latest, Day
<1>6. \A s \in Rec : Latest(s)' <=> Latest(s)
  BY <1>1, <1>2, <1>4 DEF Latest
<1>7. \A s \in Rec : Latest(s) => s # r /\ reconciliation[s].ending = opening
  BY <1>4 DEF Start, Latest
<1>8. StatementsChain'
  <2>1. \A s, t \in Rec : Open(s)' /\ Open(t)' => s = t
    BY <1>2, <1>3
  <2>2. \A s \in Rec, t \in snapshot' : Open(s)' => Ends(t)' <= Ends(s)'
    BY <1>1, <1>2, <1>3, <1>4, <1>5 DEF Day
  <2>. QED  BY <1>1, <1>2, <1>4, <2>1, <2>2 DEF Chained, StatementsChain
<1>9. \A s \in Rec : Open(s)' => \A t \in snapshot' \ {s} : Ends(t)' < Ends(s)'
  BY <1>1, <1>2, <1>3, <1>4, <1>5
<1>10. \A s \in Rec \ snapshot', t \in Rec :
         Open(s)' /\ Latest(t)' => reconciliation'[s].opening = reconciliation'[t].ending
  BY <1>1, <1>2, <1>3, <1>6, <1>7
<1>. QED  BY <1>1, <1>2, <1>6, <1>8, <1>9, <1>10 DEF Chained

LEMMA ReopenChained ==
  ASSUME Rows, Chained, NEW r \in Rec, NEW a \in Actor, Reopen(a, r)
  PROVE  Chained'
<1>1. /\ Alone(r) /\ Open(r)' /\ ~Signed(r)' /\ snapshot' = snapshot /\ r \in snapshot
      /\ \A s \in snapshot : Ends(s) <= Ends(r)
      /\ \A s \in Rec \ {r} : ~Open(s)
  BY TransitionRows DEF Reopen, Open, Signed, NoneOpen, Latest
<1>2. \A s \in Rec \ {r} :
        /\ reconciliation'[s] = reconciliation[s]
        /\ (Open(s)' <=> Open(s)) /\ (Signed(s)' <=> Signed(s))
  BY <1>1 DEF Alone, Status, Open, Signed, Exists
<1>3. \A s \in snapshot : /\ s \in Rec /\ Ends(s)' = Ends(s) /\ Ends(s) \in Int
                          /\ reconciliation'[s].opening = reconciliation[s].opening
                          /\ reconciliation'[s].ending = reconciliation[s].ending
  BY TransitionRows, Days DEF Rows, TypeOK, Ends
<1>4. StatementsChain'
  BY <1>1, <1>2, <1>3 DEF Chained, StatementsChain
<1>5. \A s \in snapshot \ {r} : Ends(s) < Ends(r)
  BY <1>1, <1>3 DEF Chained, StatementsChain
<1>6. \E s \in Rec : Latest(s)'
  BY <1>1, <1>3 DEF Latest
<1>. QED  BY <1>1, <1>2, <1>3, <1>4, <1>5, <1>6 DEF Chained

LEMMA ReviewSame ==
  ASSUME Rows, Chained, NEW r \in Rec, NEW a \in Actor, Review(a, r)
  PROVE  Chained'
<1>1. /\ Alone(r) /\ Open(r)' /\ ~Signed(r)' /\ snapshot' = snapshot /\ Open(r) /\ Exists(r)
  BY TransitionRows DEF Review, Open, Signed, Editable
<1>2. \A s \in Rec :
        /\ (Open(s)' <=> Open(s)) /\ (Signed(s)' => Signed(s))
        /\ Exists(s) => /\ Ends(s)' = Ends(s)
                        /\ reconciliation'[s].opening = reconciliation[s].opening
                        /\ reconciliation'[s].ending = reconciliation[s].ending
  BY <1>1, TransitionRows DEF Alone, Status, Open, Signed, Exists, Ends
<1>3. /\ \A s \in Rec : Open(s) => Exists(s)
      /\ \A s \in snapshot : s \in Rec /\ Exists(s)
  BY DEF Open, Status, Rows, TypeOK
<1>4. \A s \in Rec : Latest(s)' <=> Latest(s)
  BY <1>1, <1>2, <1>3 DEF Latest
<1>5. StatementsChain'
  BY <1>1, <1>2, <1>3 DEF Chained, StatementsChain
<1>. QED  BY <1>1, <1>2, <1>3, <1>4, <1>5 DEF Chained, Latest

LEMMA SignOffChained ==
  ASSUME Rows, Chained, NEW r \in Rec, NEW a \in Actor, SignOff(a, r)
  PROVE  Chained'
<1>1. /\ Alone(r) /\ ~Open(r)' /\ snapshot' = snapshot \cup {r} /\ Open(r) /\ Exists(r)
  BY TransitionRows DEF SignOff, Open
<1>2. \A s \in Rec :
        /\ s # r => (Open(s)' <=> Open(s)) /\ (Signed(s)' <=> Signed(s))
        /\ Exists(s) => /\ Ends(s)' = Ends(s) /\ Ends(s) \in Int
                        /\ reconciliation'[s].opening = reconciliation[s].opening
                        /\ reconciliation'[s].ending = reconciliation[s].ending
  BY <1>1, TransitionRows, Days DEF Alone, Status, Open, Signed, Exists, Ends
<1>3. \A s \in snapshot : s \in Rec /\ Exists(s) /\ (s # r => Ends(s) < Ends(r))
  BY <1>1 DEF Rows, TypeOK, Chained
<1>4. \A s \in Rec : ~Open(s)'
  BY <1>1, <1>2 DEF Chained, StatementsChain
<1>5. Latest(r)'
  BY <1>1, <1>2, <1>3 DEF Latest
<1>6. ASSUME NEW s \in snapshot, s # r, r \notin snapshot
      PROVE  \/ reconciliation[r].opening = reconciliation[s].ending
             \/ \E t \in snapshot : Ends(s) < Ends(t) /\ Ends(t) < Ends(r)
  <2>1. PICK t \in Rec : Latest(t)
    BY DEF Chained
  <2>2. t \in snapshot /\ Ends(s) <= Ends(t) /\ Ends(t) < Ends(r)
    BY <1>3, <1>6, <2>1 DEF Latest
  <2>3. CASE Ends(s) = Ends(t)
    <3>1. s = t
      BY <1>6, <2>2, <2>3 DEF Chained, StatementsChain
    <3>. QED  BY <1>1, <1>6, <2>1, <3>1 DEF Chained
  <2>. QED  BY <1>2, <1>3, <2>2, <2>3
<1>7. StatementsChain'
  <2>1. ASSUME NEW s \in snapshot', NEW t \in snapshot'
        PROVE  /\ Ends(s)' = Ends(t)' => s = t
               /\ Ends(s)' < Ends(t)' =>
                    \/ reconciliation'[t].opening = reconciliation'[s].ending
                    \/ \E u \in snapshot' : Ends(s)' < Ends(u)' /\ Ends(u)' < Ends(t)'
    <3>1. /\ s \in Rec /\ t \in Rec /\ Ends(s)' = Ends(s) /\ Ends(t)' = Ends(t)
          /\ Ends(s) \in Int /\ Ends(t) \in Int
          /\ reconciliation'[t].opening = reconciliation[t].opening
          /\ reconciliation'[s].ending = reconciliation[s].ending
          /\ \A u \in snapshot : u \in snapshot' /\ Ends(u)' = Ends(u)
      BY <1>1, <1>2, <1>3, <2>1
    <3>2. CASE s \in snapshot /\ t \in snapshot
      BY <3>1, <3>2 DEF Chained, StatementsChain
    <3>3. CASE s = r
      BY <1>1, <1>3, <3>1, <3>3
    <3>4. CASE t = r /\ s # r /\ r \notin snapshot
      <4>1. s \in snapshot /\ Ends(s) < Ends(r)
        BY <1>1, <1>3, <2>1, <3>4
      <4>. QED  BY <1>6, <3>1, <3>4, <4>1
    <3>. QED  BY <1>1, <3>2, <3>3, <3>4
  <2>. QED  BY <1>4, <2>1 DEF StatementsChain
<1>. QED  BY <1>1, <1>2, <1>4, <1>5, <1>7 DEF Chained

LEMMA ChainKept == Rows /\ Chained /\ [Next]_vars => Chained'
<1>. SUFFICES ASSUME Rows, Chained, [Next]_vars
              PROVE  Chained'
  OBVIOUS
<1>1. CASE Cash \/ Matching \/ UNCHANGED vars
  <2>1. SameStatements
    BY <1>1, OutsideSteps DEF Outside, statement, SameStatements, Exists
  <2>. QED  BY <2>1, ChainSame
<1>2. ASSUME NEW s \in Rec, Clearance(s) \/ Adjustment(s)
      PROVE  Chained'
  BY <1>2, ClearanceRows, AdjustmentRows, ChainSame DEF Work
<1>. QED
  BY <1>1, <1>2, StartChained, ReviewSame, SignOffChained, ReopenChained DEF Next, Transition

(* The statements ever signed form one chain of balances in the order of   *)
(* their days, through any reopening of the last of them.                  *)
THEOREM StatementsChained == Spec => []StatementsChain
<1>1. Init => Rows
  BY BankAssumption, BankNoneAssumption DEF Init, Rows, TypeOK, Dated, Exists, PaymentRow, Day
<1>2. Init => Chained
  BY BankNoneAssumption DEF Init, Chained, StatementsChain, Open, Signed, Status, Exists, Latest
<1>3. Chained => StatementsChain
  BY DEF Chained
<1>. QED  BY <1>1, <1>2, <1>3, RowsKept, ChainKept, PTL DEF Spec

-----------------------------------------------------------------------------
(* Payments as evidence                                                    *)

(* A payment has one active match; and a statement's items by match are of *)
(* days after every statement that was signed before it.                   *)
OneMatch ==
  \A m, k \in Match :
    Active(m) /\ Active(k) /\ bank_match[m].payment = bank_match[k].payment => m = k

Later ==
  \A s \in Rec, l \in Line :
    item[s][l] # None /\ item[s][l].match # None =>
      \A r \in snapshot : Ends(r) < Ends(s) => Ends(r) < DateOf[l]

(* Only the two commands of matching touch matches.                        *)
LEMMA MatchSteps ==
  ASSUME Rows, [Next]_vars
  PROVE  \/ bank_match' = bank_match
         \/ \E m \in Match : Unmatch(m) \/ \E l \in Line, p \in Payment : CreateMatch(m, l, p)
<1>1. CASE Cash \/ Matching \/ UNCHANGED vars
  BY <1>1 DEF Cash, Matching, vars, Admit, PostPayment, RequestReversal, PostReversal
<1>2. ASSUME NEW s \in Rec, Clearance(s) \/ Adjustment(s)
      PROVE  bank_match' = bank_match
  BY <1>2, ClearanceRows, AdjustmentRows DEF Work
<1>3. ASSUME NEW s \in Rec, NEW day \in Day, NEW opening \in Balance, NEW ending \in Balance,
             Start(s, day, opening, ending)
      PROVE  bank_match' = bank_match
  BY <1>3 DEF Start
<1>4. ASSUME NEW s \in Rec, Transition(s)
      PROVE  bank_match' = bank_match
  BY <1>4 DEF Transition, Review, SignOff, Reopen
<1>. QED  BY <1>1, <1>2, <1>3, <1>4 DEF Next

LEMMA OneMatchKept == Rows /\ OneMatch /\ [Next]_vars => OneMatch'
<1>. SUFFICES ASSUME Rows, OneMatch, [Next]_vars
              PROVE  OneMatch'
  OBVIOUS
<1>1. bank_match \in [Match -> MatchRow \cup {None}]
  BY DEF Rows, TypeOK
<1>2. ASSUME NEW m \in Match, Unmatch(m)
      PROVE  OneMatch'
  BY <1>1, <1>2 DEF Unmatch, OneMatch, Active, MatchRow
<1>3. ASSUME NEW m \in Match, NEW l \in Line, NEW p \in Payment, CreateMatch(m, l, p)
      PROVE  OneMatch'
  BY <1>1, <1>3, BankNoneAssumption DEF CreateMatch, OneMatch, Active, MatchRow
<1>4. CASE bank_match' = bank_match
  BY <1>4 DEF OneMatch, Active
<1>. QED  BY <1>2, <1>3, <1>4, MatchSteps

(* An item by match is that of a line inside the window, or was there.     *)
LEMMA ClearedInWindow ==
  ASSUME Rows, NEW s \in Rec, Clearance(s), NEW l \in Line, item'[s][l] # None,
         item'[s][l].match # None
  PROVE  InWindow(s, l) \/ (item[s][l] # None /\ item[s][l].match # None)
<1>1. PICK k \in Line :
        \/ \E m \in Match : Clear(s, k, m)
        \/ Unclear(s, k)
        \/ ClearAdjusted(s, k)
        \/ UnclearAdjusted(s, k)
  BY DEF Clearance
<1>2. item \in [Rec -> [Line -> ItemRow \cup {None}]]
  BY DEF Rows, TypeOK
<1>3. CASE l # k
  BY <1>1, <1>2, <1>3 DEF Clear, Unclear, ClearAdjusted, UnclearAdjusted, SetItem
<1>4. CASE l = k
  <2>1. ~ClearAdjusted(s, k) /\ ~UnclearAdjusted(s, k)
    BY <1>2, <1>4 DEF ClearAdjusted, UnclearAdjusted, SetItem
  <2>2. ClearanceAllowed(s, k)
    BY <1>1, <2>1 DEF Clear, Unclear
  <2>. QED  BY <1>4, <2>2 DEF ClearanceAllowed
<1>. QED  BY <1>3, <1>4

(* Nothing comes after what is open.                                       *)
LEMMA OpenIsLast ==
  ASSUME Rows, Chained, NEW r \in Rec, Open(r), NEW s \in Rec, Exists(s)
  PROVE  ~(Ends(r) < Ends(s))
<1>1. Exists(r)
  BY DEF Open, Status
<1>2. Ends(r) \in Int /\ Ends(s) \in Int
  BY <1>1, Days
<1>3. CASE Open(s)
  BY <1>2, <1>3 DEF Chained, StatementsChain
<1>4. CASE ~Open(s)
  <2>1. Signed(s)
    BY <1>4 DEF Open, Signed, Status, Rows, TypeOK, Exists, RecRow
  <2>. QED  BY <1>2, <2>1 DEF Chained, StatementsChain
<1>. QED  BY <1>3, <1>4

LEMMA LaterKept == Rows /\ Chained /\ Later /\ [Next]_vars => Later'
<1>. SUFFICES ASSUME Rows, Chained, Later, [Next]_vars
              PROVE  Later'
  OBVIOUS
<1>1. CASE Cash \/ Matching \/ UNCHANGED vars
  <2>1. UNCHANGED <<reconciliation, item, snapshot>>
    BY <1>1, OutsideSteps DEF Outside, statement
  <2>. QED  BY <2>1 DEF Later, Ends
<1>2. /\ \A r \in snapshot : r \in Rec /\ Exists(r)
      /\ \A r \in Rec, l \in Line : item[r][l] # None => Exists(r)
  BY DEF Rows, TypeOK, Dated
<1>3. ASSUME NEW r \in Rec, Clearance(r) \/ Adjustment(r)
      PROVE  Later'
  <2>1. Work(r)
    BY <1>3, ClearanceRows, AdjustmentRows
  <2>2. \A s \in Rec : Exists(s) => Ends(s)' = Ends(s)
    BY <2>1 DEF Work, SameStatements, Ends
  <2>3. ASSUME NEW s \in Rec, NEW l \in Line, item'[s][l] # None, item'[s][l].match # None,
               NEW t \in snapshot, Ends(t) < Ends(s)
        PROVE  Exists(s) /\ Ends(t) < DateOf[l]
    <3>1. CASE item[s][l] # None /\ item[s][l].match # None
      BY <1>2, <2>3, <3>1 DEF Later
    <3>2. CASE s = r /\ InWindow(s, l)
      <4>1. Open(s) /\ Exists(s)
        BY <2>1, <3>2 DEF Work, Open, Status
      <4>2. Exists(t) /\ t # s /\ Ends(t) \in Int /\ Ends(s) \in Int
        BY <1>2, <2>3, <4>1, Days
      <4>3. ~Open(t)
        BY <1>2, <4>1, <4>2 DEF Chained, StatementsChain
      <4>4. Signed(t)
        BY <1>2, <4>2, <4>3 DEF Open, Signed, Status, Rows, TypeOK, Exists, RecRow
      <4>5. DateOf[l] > Ends(t)
        BY <1>2, <2>3, <3>2, <4>4 DEF InWindow, AfterPrior
      <4>. QED  BY <4>1, <4>2, <4>5, BankAssumption DEF Day
    <3>3. CASE s # r
      BY <2>1, <2>3, <3>1, <3>3 DEF Work
    <3>4. CASE s = r /\ Adjustment(r)
      <4>1. item' = item
        BY <3>4 DEF Adjustment, PostDraft, MakeDraft
      <4>. QED  BY <2>3, <3>1, <4>1
    <3>. QED  BY <1>3, <2>3, <3>1, <3>2, <3>3, <3>4, ClearedInWindow
  <2>4. snapshot' = snapshot
    BY <2>1 DEF Work, SameStatements
  <2>5. ASSUME NEW s \in Rec, NEW l \in Line, item'[s][l] # None, item'[s][l].match # None,
               NEW t \in snapshot, Ends(t)' < Ends(s)'
        PROVE  Ends(t)' < DateOf[l]
    <3>1. Exists(s)
      <4>1. Rows'
        BY <1>3, ClearanceRows, AdjustmentRows
      <4>. QED  BY <2>1, <2>5, <4>1 DEF Rows, Dated, Work, SameStatements
    <3>. QED  BY <1>2, <2>2, <2>3, <2>5, <3>1
  <2>. QED  BY <2>4, <2>5 DEF Later
<1>4. ASSUME NEW r \in Rec, NEW day \in Day, NEW opening \in Balance, NEW ending \in Balance,
             Start(r, day, opening, ending)
      PROVE  Later'
  <2>1. /\ item' = item /\ snapshot' = snapshot /\ ~Exists(r)
        /\ \A s \in Rec \ {r} : Ends(s)' = Ends(s)
    BY <1>4, StartRows DEF Start, Alone, Ends
  <2>. QED  BY <1>2, <2>1 DEF Later
<1>5. ASSUME NEW r \in Rec, NEW a \in Actor, Review(a, r) \/ SignOff(a, r) \/ Reopen(a, r)
      PROVE  Later'
  <2>1. /\ item' = item
        /\ \A s \in Rec : Exists(s) => Ends(s)' = Ends(s)
    BY <1>5, TransitionRows DEF Alone, Ends
  <2>2. CASE ~SignOff(a, r)
    <3>1. snapshot' = snapshot
      BY <1>5, <2>2 DEF Review, Reopen
    <3>. QED  BY <1>2, <2>1, <3>1 DEF Later
  <2>3. CASE SignOff(a, r)
    <3>1. snapshot' = snapshot \cup {r} /\ Open(r) /\ Exists(r)
      BY <2>3 DEF SignOff, Open, Status
    <3>2. \A s \in Rec : Exists(s) => ~(Ends(r) < Ends(s))
      BY <3>1, OpenIsLast
    <3>. QED  BY <1>2, <2>1, <3>1, <3>2 DEF Later
  <2>. QED  BY <2>2, <2>3
<1>. QED  BY <1>1, <1>3, <1>4, <1>5 DEF Next, Transition

LEMMA PaymentsApart ==
  Rows /\ Chained /\ SignedEvidenceStands /\ OneMatch /\ Later => PaymentSignedOnce
<1>. SUFFICES ASSUME Rows, Chained, SignedEvidenceStands, OneMatch, Later,
                     NEW r \in Rec, NEW s \in Rec, Signed(r), Signed(s), r # s,
                     NEW p \in Payments(r) \cap Payments(s)
              PROVE  FALSE
  BY DEF PaymentSignedOnce
<1>1. PICK l \in Cleared(r), k \in Cleared(s) :
        /\ item[r][l].match # None /\ bank_match[item[r][l].match].payment = p
        /\ item[s][k].match # None /\ bank_match[item[s][k].match].payment = p
  BY DEF Payments, Evidence
<1>2. /\ l \in Line /\ l \in Items(r) /\ item[r][l] # None /\ item[r][l].match \in Match
      /\ k \in Line /\ k \in Items(s) /\ item[s][k] # None /\ item[s][k].match \in Match
  BY <1>1 DEF Cleared, Items, Rows, TypeOK, ItemRow
<1>3. /\ Active(item[r][l].match) /\ bank_match[item[r][l].match].line = l
      /\ Active(item[s][k].match) /\ bank_match[item[s][k].match].line = k
  BY <1>1, <1>2 DEF Rows, TypeOK, SignedEvidenceStands, Active
<1>4. l = k
  BY <1>1, <1>2, <1>3 DEF OneMatch
<1>5. /\ Exists(r) /\ Exists(s) /\ Ends(r) \in Int /\ Ends(s) \in Int
      /\ DateOf[l] <= Ends(r) /\ DateOf[l] <= Ends(s)
      /\ r \in snapshot /\ s \in snapshot /\ DateOf[l] \in Int
  BY <1>2, <1>4, Days, BankAssumption DEF Rows, Dated, Chained, Day
<1>6. Ends(r) # Ends(s)
  BY <1>5 DEF Chained, StatementsChain
<1>7. ~(Ends(r) < Ends(s)) /\ ~(Ends(s) < Ends(r))
  BY <1>1, <1>2, <1>4, <1>5 DEF Later
<1>. QED  BY <1>5, <1>6, <1>7

(* No payment is evidence of two signed statements: what stands behind the *)
(* one is matched and cannot be matched again, and the line of that match  *)
(* is of one statement's days only.                                        *)
THEOREM PaymentsSignedOnce == Spec => []PaymentSignedOnce
<1>. DEFINE PaymentInv == Rows /\ Chained /\ SignedEvidenceStands /\ OneMatch /\ Later
<1>1. Init => Rows
  BY BankAssumption, BankNoneAssumption DEF Init, Rows, TypeOK, Dated, Exists, PaymentRow, Day
<1>2. Init => Chained
  BY BankNoneAssumption DEF Init, Chained, StatementsChain, Open, Signed, Status, Exists, Latest
<1>3. Init => SignedEvidenceStands /\ OneMatch /\ Later
  BY DEF Init, SignedEvidenceStands, Signed, Status, Exists, OneMatch, Active, Later
<1>4. PaymentInv /\ [Next]_vars => PaymentInv'
  BY RowsKept, ChainKept, EvidenceKept, OneMatchKept, LaterKept
<1>5. PaymentInv => PaymentSignedOnce
  BY PaymentsApart
<1>. QED  BY <1>1, <1>2, <1>3, <1>4, <1>5, PTL DEF Spec
-----------------------------------------------------------------------------
(* Lines that two statements share                                         *)

(* A line drafted as an adjustment is no matched item of a statement       *)
(* signed before.                                                          *)
DraftsApart ==
  \A r \in snapshot, s \in Rec, l \in Line :
    draft[s][l] # None /\ Ends(r) < Ends(s) /\ item[r][l] # None => item[r][l].match = None

LEMMA DraftsApartKept ==
  Rows /\ Chained /\ SignedEvidenceStands /\ DraftsApart /\ [Next]_vars => DraftsApart'
<1>. SUFFICES ASSUME Rows, Chained, SignedEvidenceStands, DraftsApart, [Next]_vars
              PROVE  DraftsApart'
  OBVIOUS
<1>1. CASE Outside
  BY <1>1 DEF Outside, statement, DraftsApart, Ends
<1>2. /\ \A r \in snapshot : r \in Rec /\ Exists(r)
      /\ \A s \in Rec, l \in Line : draft[s][l] # None => Exists(s)
      /\ \A r \in Rec : Exists(r) /\ ~Open(r) => Signed(r)
  BY DEF Rows, TypeOK, Dated, Open, Signed, Status, Exists, RecRow
<1>3. ASSUME NEW q \in Rec, Clearance(q) \/ Adjustment(q)
      PROVE  DraftsApart'
  <2>1. Work(q) /\ Rows'
    BY <1>3, ClearanceRows, AdjustmentRows
  <2>2. /\ snapshot' = snapshot /\ Open(q)
        /\ \A s \in Rec : (Exists(s)' <=> Exists(s)) /\ (Exists(s) => Ends(s)' = Ends(s))
        /\ \A s \in Rec \ {q} : item'[s] = item[s]
    BY <2>1 DEF Work, SameStatements, Ends
  <2>. SUFFICES ASSUME NEW r \in snapshot, NEW s \in Rec, NEW l \in Line,
                       draft'[s][l] # None, Ends(r)' < Ends(s)', item'[r][l] # None
                PROVE  item'[r][l].match = None
    BY <2>2 DEF DraftsApart
  <2>3. Exists(s) /\ Exists(r) /\ r \in Rec /\ Ends(r) < Ends(s)
    BY <1>2, <2>1, <2>2 DEF Rows, Dated
  <2>4. r # q
    BY <2>2, <2>3, OpenIsLast
  <2>5. item'[r] = item[r]
    BY <2>2, <2>3, <2>4
  <2>6. CASE draft[s][l] # None
    BY <2>3, <2>5, <2>6 DEF DraftsApart
  <2>7. CASE draft[s][l] = None
    <3>1. s = q /\ \E a \in Actor : MakeDraft(a, q, l)
      <4>1. Adjustment(q)
        BY <1>3, <2>7 DEF Clearance, Clear, Unclear, ClearAdjusted, UnclearAdjusted
      <4>2. PICK k \in Line : PostDraft(q, k) \/ \E a \in Actor : MakeDraft(a, q, k)
        BY <4>1 DEF Adjustment
      <4>3. draft \in [Rec -> [Line -> DraftRow \cup {None}]]
        BY DEF Rows, TypeOK
      <4>4. s = q /\ l = k
        BY <2>7, <4>2, <4>3 DEF PostDraft, MakeDraft
      <4>. QED  BY <2>7, <4>2, <4>4 DEF PostDraft
    <3>2. Signed(r)
      <4>1. ~Open(r)
        BY <2>2, <2>3, <2>4 DEF Chained, StatementsChain
      <4>. QED  BY <1>2, <2>3, <4>1
    <3>3. item[r][l].match = None
      <4>. SUFFICES ASSUME item[r][l].match # None
                    PROVE  FALSE
        OBVIOUS
      <4>1. l \in Items(r) /\ item[r][l].match \in Match
        BY <2>3, <2>5 DEF Items, Rows, TypeOK, ItemRow
      <4>2. Active(item[r][l].match) /\ bank_match[item[r][l].match].line = l
        BY <2>3, <3>2, <4>1 DEF SignedEvidenceStands, Active, Rows, TypeOK, Items
      <4>. QED  BY <3>1, <4>1, <4>2 DEF MakeDraft, Unmatched
    <3>. QED  BY <2>5, <3>3
  <2>. QED  BY <2>6, <2>7
<1>4. ASSUME NEW q \in Rec, NEW day \in Day, NEW opening \in Balance, NEW ending \in Balance,
             Start(q, day, opening, ending)
      PROVE  DraftsApart'
  <2>1. /\ UNCHANGED <<item, draft, snapshot>> /\ ~Exists(q)
        /\ \A s \in Rec \ {q} : Ends(s)' = Ends(s)
    BY <1>4, StartRows DEF Start, Alone, Ends
  <2>. QED  BY <1>2, <2>1 DEF DraftsApart
<1>5. ASSUME NEW q \in Rec, NEW a \in Actor, Review(a, q) \/ SignOff(a, q) \/ Reopen(a, q)
      PROVE  DraftsApart'
  <2>1. /\ UNCHANGED <<item, draft>>
        /\ \A s \in Rec : Exists(s) => Ends(s)' = Ends(s)
    BY <1>5, TransitionRows DEF Alone, Ends
  <2>2. CASE ~SignOff(a, q)
    <3>1. snapshot' = snapshot
      BY <1>5, <2>2 DEF Review, Reopen
    <3>. QED  BY <1>2, <2>1, <3>1 DEF DraftsApart
  <2>3. CASE SignOff(a, q)
    <3>1. snapshot' = snapshot \cup {q} /\ Open(q) /\ Exists(q)
      BY <2>3 DEF SignOff, Open, Status
    <3>2. \A s \in Rec : Exists(s) => ~(Ends(q) < Ends(s))
      BY <3>1, OpenIsLast
    <3>. QED  BY <1>2, <2>1, <3>1, <3>2 DEF DraftsApart
  <2>. QED  BY <2>2, <2>3
<1>6. CASE Cash \/ Matching \/ UNCHANGED vars
  BY <1>1, <1>6, OutsideSteps
<1>. QED  BY <1>3, <1>4, <1>5, <1>6 DEF Next, Transition

LEMMA SharedAdjusted ==
  Rows /\ Chained /\ SignedEvidenceStands /\ Later /\ DraftsApart => SharedLinesAdjusted
<1>. SUFFICES ASSUME Rows, Chained, SignedEvidenceStands, Later, DraftsApart
              PROVE  SharedLinesAdjusted
  OBVIOUS
<1>1. ASSUME NEW r \in Rec, NEW l \in Items(r), Signed(r), item[r][l].match = None
      PROVE  l \in Adjusted(r)
  BY <1>1 DEF SignedEvidenceStands, Adjusted, Items
<1>2. ASSUME NEW r \in Rec, NEW s \in Rec, Signed(r), Signed(s), Ends(r) < Ends(s),
             NEW l \in Items(r) \cap Items(s)
      PROVE  l \in Adjusted(r) \cap Adjusted(s)
  <2>1. /\ l \in Line /\ item[r][l] # None /\ item[s][l] # None
        /\ r \in snapshot /\ Exists(r) /\ Ends(r) \in Int
        /\ DateOf[l] \in Int /\ DateOf[l] <= Ends(r)
    BY <1>2, Days, BankAssumption DEF Items, Rows, Dated, Chained, Day
  <2>2. item[s][l].match = None
    BY <1>2, <2>1 DEF Later
  <2>3. l \in Adjusted(s)
    BY <1>1, <1>2, <2>2
  <2>4. item[r][l].match = None
    BY <1>2, <2>1, <2>3 DEF DraftsApart, Adjusted
  <2>. QED  BY <1>1, <1>2, <2>3, <2>4
<1>3. ASSUME NEW r \in Rec, NEW s \in Rec, Signed(r), Signed(s), r # s
      PROVE  Ends(r) < Ends(s) \/ Ends(s) < Ends(r)
  <2>1. r \in snapshot /\ s \in snapshot /\ Exists(r) /\ Exists(s)
    BY <1>3 DEF Chained, Signed, Status
  <2>2. Ends(r) \in Int /\ Ends(s) \in Int /\ Ends(r) # Ends(s)
    BY <1>3, <2>1, Days DEF Chained, StatementsChain
  <2>. QED  BY <2>2
<1>. QED  BY <1>2, <1>3 DEF SharedLinesAdjusted

(* A line of two signed statements was booked as an adjustment by both:    *)
(* the window of clearance by a payment and the guard of a draft leave no  *)
(* other way.                                                              *)
THEOREM SharedLinesBookedTwice == Spec => []SharedLinesAdjusted
<1>1. Init => Rows /\ Chained /\ SignedEvidenceStands /\ Later /\ DraftsApart
  <2>1. Init => Rows
    BY BankAssumption, BankNoneAssumption DEF Init, Rows, TypeOK, Dated, Exists, PaymentRow, Day
  <2>2. Init => Chained
    BY BankNoneAssumption DEF Init, Chained, StatementsChain, Open, Signed, Status, Exists, Latest
  <2>3. Init => SignedEvidenceStands /\ Later /\ DraftsApart
    BY DEF Init, SignedEvidenceStands, Signed, Status, Exists, Later, DraftsApart
  <2>. QED  BY <2>1, <2>2, <2>3
<1>. QED
  BY <1>1, RowsKept, ChainKept, EvidenceKept, LaterKept, DraftsApartKept, SharedAdjusted,
     PTL DEF Spec

-----------------------------------------------------------------------------
(* The stack of signed statements: what every step leaves of it            *)

LEMMA StepKinds ==
  ASSUME Rows, [Next]_vars
  PROVE  \/ Outside
         \/ \E r \in Rec : Work(r)
         \/ \E r \in Rec : Alone(r) /\ ~Exists(r) /\ ~Signed(r)' /\ snapshot' = snapshot
         \/ \E r \in Rec, a \in Actor : Review(a, r) \/ SignOff(a, r) \/ Reopen(a, r)
<1>1. CASE Cash \/ Matching \/ UNCHANGED vars
  BY <1>1, OutsideSteps
<1>2. ASSUME NEW r \in Rec, Clearance(r) \/ Adjustment(r)
      PROVE  Work(r)
  BY <1>2, ClearanceRows, AdjustmentRows
<1>3. ASSUME NEW r \in Rec, NEW day \in Day, NEW opening \in Balance, NEW ending \in Balance,
             Start(r, day, opening, ending)
      PROVE  Alone(r) /\ ~Exists(r) /\ ~Signed(r)' /\ snapshot' = snapshot
  BY <1>3, StartRows DEF Start, Signed
<1>. QED  BY <1>1, <1>2, <1>3 DEF Next, Transition

(* A match is of the same payment for ever.                                *)
LEMMA PaymentOfMatch ==
  ASSUME Rows, [Next]_vars, NEW m \in Match, bank_match[m] # None
  PROVE  bank_match'[m].payment = bank_match[m].payment
<1>1. bank_match \in [Match -> MatchRow \cup {None}]
  BY DEF Rows, TypeOK
<1>2. ASSUME NEW k \in Match, Unmatch(k)
      PROVE  bank_match'[m].payment = bank_match[m].payment
  BY <1>1, <1>2 DEF Unmatch, Active, MatchRow
<1>3. ASSUME NEW k \in Match, NEW l \in Line, NEW p \in Payment, CreateMatch(k, l, p)
      PROVE  bank_match'[m] = bank_match[m]
  BY <1>1, <1>3 DEF CreateMatch
<1>. QED  BY <1>2, <1>3, MatchSteps

(* Face of a statement that exists, and all of one that stays signed.      *)
LEMMA FaceKept ==
  ASSUME Rows, [Next]_vars, NEW r \in Rec, Exists(r)
  PROVE  Exists(r)' /\ Face(r)' = Face(r)
<1>1. CASE Outside
  BY <1>1 DEF Outside, statement, Exists, Face, Ends
<1>2. ASSUME NEW s \in Rec, Work(s)
      PROVE  Exists(r)' /\ Face(r)' = Face(r)
  BY <1>2 DEF Work, SameStatements, Face, Ends
<1>3. ASSUME NEW s \in Rec, Alone(s), ~Exists(s)
      PROVE  Exists(r)' /\ Face(r)' = Face(r)
  BY <1>3 DEF Alone, Exists, Face, Ends
<1>4. ASSUME NEW s \in Rec, NEW a \in Actor, Review(a, s) \/ SignOff(a, s) \/ Reopen(a, s)
      PROVE  Exists(r)' /\ Face(r)' = Face(r)
  BY <1>4, TransitionRows DEF Face, Ends
<1>. QED  BY <1>1, <1>2, <1>3, <1>4, StepKinds

LEMMA CertifiedKept ==
  ASSUME Rows, [Next]_vars, NEW r \in Rec, Signed(r), Signed(r)'
  PROVE  Certified(r)' = Certified(r)
<1>0. Exists(r)
  BY DEF Signed, Status
<1>1. /\ item'[r] = item[r]
      /\ reconciliation'[r].reviewed_by = reconciliation[r].reviewed_by
      /\ reconciliation'[r].reconciled_by = reconciliation[r].reconciled_by
  <2>1. CASE Outside
    BY <2>1 DEF Outside, statement
  <2>2. ASSUME NEW s \in Rec, Work(s)
        PROVE  /\ item'[r] = item[r]
               /\ reconciliation'[r].reviewed_by = reconciliation[r].reviewed_by
               /\ reconciliation'[r].reconciled_by = reconciliation[r].reconciled_by
    <3>1. item'[r] = item[r]
      BY <2>2, WorkSigned
    <3>. QED  BY <1>0, <2>2, <3>1 DEF Work, SameStatements
  <2>3. ASSUME NEW s \in Rec, Alone(s), s # r
        PROVE  item'[r] = item[r] /\ reconciliation'[r] = reconciliation[r]
    BY <2>3 DEF Alone
  <2>4. ASSUME NEW a \in Actor, Review(a, r) \/ SignOff(a, r) \/ Reopen(a, r)
        PROVE  FALSE
    BY <2>4, TransitionRows DEF Review, SignOff, Editable, Signed
  <2>5. ASSUME NEW s \in Rec, NEW a \in Actor, Review(a, s) \/ SignOff(a, s) \/ Reopen(a, s)
        PROVE  Alone(s)
    BY <2>5, TransitionRows
  <2>. QED  BY <1>0, <2>1, <2>2, <2>3, <2>4, <2>5, StepKinds
<1>2. Cleared(r)' = Cleared(r) /\ Evidence(r)' = Evidence(r)
  BY <1>1 DEF Cleared, Evidence
<1>3. \A m \in Evidence(r) : bank_match'[m].payment = bank_match[m].payment
  <2>1. \A m \in Evidence(r) : m \in Match /\ bank_match[m] # None
    BY DEF Evidence, Cleared, Rows, TypeOK, ItemRow
  <2>. QED  BY <2>1, PaymentOfMatch
<1>4. Payments(r)' = Payments(r)
  BY <1>2, <1>3 DEF Payments
<1>5. Face(r)' = Face(r)
  BY <1>0, FaceKept
<1>. QED  BY <1>1, <1>2, <1>4, <1>5 DEF Certified

LEMMA UndoneSteps ==
  ASSUME Rows, [Next]_vars
  PROVE  \/ Undone' = Undone
         \/ \E p \in Payment : RequestReversal(p) /\ Undone' = Undone \cup {p}
<1>1. payment \in [Payment -> PaymentRow]
  BY DEF Rows, TypeOK
<1>2. CASE payment' = payment
  BY <1>2 DEF Undone
<1>3. ASSUME NEW p \in Payment, PostPayment(p) \/ \E day \in Day : PostReversal(p, day)
      PROVE  Undone' = Undone
  BY <1>1, <1>3 DEF PostPayment, PostReversal, Undone, PaymentRow
<1>4. ASSUME NEW p \in Payment, RequestReversal(p)
      PROVE  Undone' = Undone \cup {p}
  BY <1>1, <1>4 DEF RequestReversal, Undone, PaymentRow
<1>5. Cash => \/ payment' = payment
              \/ \E p \in Payment : PostPayment(p) \/ RequestReversal(p)
                                    \/ \E day \in Day : PostReversal(p, day)
  BY DEF Cash, Admit
<1>6. ~Cash => payment' = payment
  <2>1. CASE Matching \/ UNCHANGED vars
    BY <2>1 DEF Matching, vars, Unmatch, CreateMatch
  <2>2. ASSUME NEW s \in Rec, Clearance(s) \/ Adjustment(s)
        PROVE  payment' = payment
    BY <2>2, ClearanceRows, AdjustmentRows DEF Work
  <2>3. ASSUME NEW s \in Rec, NEW day \in Day, NEW opening \in Balance, NEW ending \in Balance,
               Start(s, day, opening, ending)
        PROVE  payment' = payment
    BY <2>3 DEF Start
  <2>4. ASSUME NEW s \in Rec, Transition(s)
        PROVE  payment' = payment
    BY <2>4 DEF Transition, Review, SignOff, Reopen
  <2>. QED  BY <2>1, <2>2, <2>3, <2>4 DEF Next
<1>. QED  BY <1>2, <1>3, <1>4, <1>5, <1>6
-----------------------------------------------------------------------------
(* The stack of signed statements: every step is one of it or changes      *)
(* nothing of it                                                           *)

SignedPaymentsStand == \A r \in Rec : Signed(r) => Payments(r) \cap Undone = {}

(* What the refinement rests on.                                           *)
StackInv ==
  /\ Rows
  /\ Chained
  /\ SignedPaymentsStand
  /\ PaymentSignedOnce
  /\ SeparateHands
  /\ SignedStatementAddsUp

LEMMA StackInvHolds == Spec => []StackInv
<1>1. Init => Rows
  BY BankAssumption, BankNoneAssumption DEF Init, Rows, TypeOK, Dated, Exists, PaymentRow, Day
<1>2. Init => Chained
  BY BankNoneAssumption DEF Init, Chained, StatementsChain, Open, Signed, Status, Exists, Latest
<1>3. Rows /\ SignedEvidenceStands => SignedPaymentsStand
  <2>. SUFFICES ASSUME Rows, SignedEvidenceStands, NEW r \in Rec, Signed(r), NEW p \in Payments(r)
                PROVE  p \notin Undone
    BY DEF SignedPaymentsStand
  <2>1. PICK l \in Cleared(r) : item[r][l].match # None /\ p = bank_match[item[r][l].match].payment
    BY DEF Payments, Evidence
  <2>2. l \in Items(r)
    BY DEF Cleared, Items
  <2>3. payment[p].status = "POSTED"
    BY <2>1, <2>2 DEF SignedEvidenceStands
  <2>. QED  BY <2>3 DEF Undone
<1>. QED
  BY <1>1, <1>2, <1>3, RowsKept, ChainKept, EvidenceStands, PaymentsSignedOnce, HandsSeparate,
     StatementsAddUp, PTL DEF Spec, StackInv

Stack == {Certified(r) : r \in {r \in Rec : Signed(r)}}
Off == {Face(r) : r \in {r \in snapshot : ~Signed(r)}}

LEMMA CertifiedFields ==
  ASSUME NEW r
  PROVE  /\ Certified(r).face.statement = r
         /\ Certified(r).face.ends = Ends(r)
         /\ Certified(r).face.opening = reconciliation[r].opening
         /\ Certified(r).face.ending = reconciliation[r].ending
         /\ Certified(r).booked = LineTotal(Cleared(r))
         /\ Certified(r).payments = Payments(r)
         /\ Certified(r).reviewer = reconciliation[r].reviewed_by
         /\ Certified(r).signer = reconciliation[r].reconciled_by
         /\ Certified(r).face = Face(r)
  BY DEF Certified, Face

LEMMA StackSame ==
  ASSUME Rows, [Next]_vars, snapshot' = snapshot, \A r \in Rec : Signed(r)' <=> Signed(r)
  PROVE  Stack' = Stack /\ Off' = Off
<1>1. \A r \in Rec : Signed(r) => Certified(r)' = Certified(r)
  BY CertifiedKept
<1>2. \A r \in snapshot : r \in Rec /\ Face(r)' = Face(r)
  BY FaceKept DEF Rows, TypeOK
<1>. QED  BY <1>1, <1>2 DEF Stack, Off

LEMMA StackOfOthers ==
  ASSUME Rows, [Next]_vars, NEW r \in Rec, \A s \in Rec \ {r} : Signed(s)' <=> Signed(s)
  PROVE  /\ ~Signed(r) /\ Signed(r)' => /\ Stack' = Stack \cup {Certified(r)'}
                                        /\ Certified(r)' \notin Stack
         /\ Signed(r) /\ ~Signed(r)' => /\ Stack' = Stack \ {Certified(r)}
                                        /\ Certified(r) \in Stack
<1>1. \A s \in Rec \ {r} : Signed(s) => Certified(s)' = Certified(s)
  BY CertifiedKept
<1>2. \A s \in Rec \ {r} : Certified(s) # Certified(r) /\ Certified(s) # Certified(r)'
  BY CertifiedFields DEF Certified, Face
<1>3. CASE ~Signed(r) /\ Signed(r)'
  BY <1>1, <1>2, <1>3 DEF Stack
<1>4. CASE Signed(r) /\ ~Signed(r)'
  BY <1>1, <1>2, <1>4 DEF Stack
<1>. QED  BY <1>3, <1>4

LEMMA SignOffMapped ==
  ASSUME StackInv, StackInv', [Next]_vars, NEW r \in Rec, NEW a \in Actor, SignOff(a, r)
  PROVE  Statements!Next
<1>. USE DEF StackInv
<1>1. /\ Alone(r) /\ Exists(r) /\ Open(r) /\ ~Signed(r) /\ Signed(r)'
      /\ snapshot' = snapshot \cup {r} /\ Undone' = Undone
      /\ Ends(r)' = Ends(r) /\ reconciliation'[r].opening = reconciliation[r].opening
      /\ Face(r)' = Face(r)
  BY TransitionRows, FaceKept DEF SignOff, Open, Signed, Alone, Undone, Ends
<1>2. \A s \in Rec \ {r} : (Signed(s)' <=> Signed(s))
  BY <1>1 DEF Alone, Signed, Status, Exists
<1>3. Stack' = Stack \cup {Certified(r)'} /\ Certified(r)' \notin Stack
  BY <1>1, <1>2, StackOfOthers
<1>4. \A s \in snapshot : s # r => s \in Rec /\ Exists(s) /\ Signed(s) /\ Ends(s) < Ends(r)
  <2>. SUFFICES ASSUME NEW s \in snapshot, s # r
                PROVE  s \in Rec /\ Exists(s) /\ Signed(s) /\ Ends(s) < Ends(r)
    OBVIOUS
  <2>1. s \in Rec /\ Exists(s)
    BY DEF Rows, TypeOK
  <2>2. ~Open(s) /\ Ends(s) < Ends(r)
    BY <1>1, <2>1 DEF Chained, StatementsChain
  <2>. QED  BY <2>1, <2>2 DEF Open, Signed, Status, Rows, TypeOK, Exists, RecRow
<1>5. Off \subseteq {Face(r)} /\ Off' = {}
  BY <1>1, <1>2, <1>4 DEF Off
<1>6. \A s \in Rec : Signed(s) => s \in snapshot /\ s # r
  BY <1>1 DEF Chained
<1>7. ASSUME NEW s \in Rec, Signed(s), \A u \in Rec : Signed(u) => Ends(u) <= Ends(s)
      PROVE  reconciliation[s].ending = reconciliation[r].opening
  <2>1. s \in snapshot /\ s # r /\ Ends(s) < Ends(r)
    BY <1>4, <1>6, <1>7
  <2>2. CASE r \in snapshot
    <3>1. \A t \in snapshot : ~(Ends(s) < Ends(t) /\ Ends(t) < Ends(r))
      <4>. SUFFICES ASSUME NEW t \in snapshot, Ends(s) < Ends(t), Ends(t) < Ends(r)
                    PROVE  FALSE
        OBVIOUS
      <4>1. /\ t \in Rec /\ Exists(t) /\ Exists(s)
        BY <2>1, <1>4, <1>1
      <4>2. Ends(t) \in Int /\ Ends(s) \in Int /\ Ends(r) \in Int
        BY <1>1, <4>1, Days
      <4>3. t # r
        BY <4>2
      <4>4. Ends(t) <= Ends(s)
        BY <1>4, <1>7, <4>3
      <4>. QED  BY <4>2, <4>4
    <3>. QED  BY <2>1, <2>2, <3>1 DEF Chained, StatementsChain
  <2>3. CASE r \notin snapshot
    <3>1. Latest(s)
      BY <1>4, <1>7, <2>1, <2>3 DEF Latest
    <3>. QED  BY <1>1, <2>3, <3>1 DEF Chained
  <2>. QED  BY <2>2, <2>3
<1>8. /\ \A t \in Stack : t.face.ends < Ends(r)
      /\ \A t \in Stack : Statements!Top(t) => t.face.ending = reconciliation[r].opening
  <2>1. ASSUME NEW t \in Stack
        PROVE  t.face.ends < Ends(r)
    BY <1>4, <1>6, CertifiedFields DEF Stack
  <2>2. ASSUME NEW t \in Stack, Statements!Top(t)
        PROVE  t.face.ending = reconciliation[r].opening
    <3>1. PICK s \in Rec : Signed(s) /\ t = Certified(s)
      BY DEF Stack
    <3>2. \A u \in Rec : Signed(u) => Certified(u).face.ends <= t.face.ends
      BY <2>2 DEF Statements!Top
    <3>3. \A u \in Rec : Signed(u) => Ends(u) <= Ends(s)
      BY <3>1, <3>2, CertifiedFields
    <3>. QED  BY <1>7, <3>1, <3>3, CertifiedFields
  <2>. QED  BY <2>1, <2>2
<1>9. \A t \in Stack : t.payments \cap Payments(r)' = {}
  <2>1. ASSUME NEW s \in Rec, Signed(s)
        PROVE  Payments(s) \cap Payments(r)' = {}
    <3>1. Signed(s)' /\ s # r
      BY <1>1, <1>2, <2>1
    <3>2. Certified(s)' = Certified(s)
      BY <2>1, <3>1, CertifiedKept
    <3>3. Payments(s)' = Payments(s)
      BY <3>2 DEF Certified
    <3>. QED  BY <1>1, <3>1, <3>3 DEF PaymentSignedOnce
  <2>. QED  BY <2>1, CertifiedFields DEF Stack
<1>10. /\ Payments(r)' \cap Undone = {}
       /\ reconciliation'[r].reviewed_by # reconciliation'[r].reconciled_by
       /\ reconciliation'[r].ending = reconciliation'[r].opening + LineTotal(Cleared(r))'
  BY <1>1 DEF SignedPaymentsStand, SeparateHands, SignedStatementAddsUp
<1>11. PICK c : c = Certified(r)'
  OBVIOUS
<1>12. /\ c.face = Face(r) /\ c.face.ends = Ends(r)
       /\ c.face.opening = reconciliation[r].opening
       /\ c.face.opening = reconciliation'[r].opening
       /\ c.face.ending = reconciliation'[r].ending
       /\ c.booked = LineTotal(Cleared(r))' /\ c.payments = Payments(r)'
       /\ c.reviewer = reconciliation'[r].reviewed_by
       /\ c.signer = reconciliation'[r].reconciled_by
  BY <1>1, <1>11 DEF Certified, Face
<1>13. Statements!Follows(c) /\ Statements!AddsUp(c)
  BY <1>8, <1>10, <1>12 DEF Statements!Follows, Statements!AddsUp, Stack
<1>14. Statements!Sign(c)
  BY <1>1, <1>3, <1>5, <1>9, <1>10, <1>11, <1>12, <1>13 DEF Statements!Sign, Stack, Off
<1>15. c \in Stack' \ Stack
  BY <1>3, <1>11
<1>. QED  BY <1>14, <1>15 DEF Statements!Next, Stack

LEMMA ReopenMapped ==
  ASSUME StackInv, [Next]_vars, NEW r \in Rec, NEW a \in Actor, Reopen(a, r)
  PROVE  Statements!Next
<1>. USE DEF StackInv
<1>1. /\ Alone(r) /\ Signed(r) /\ ~Signed(r)' /\ snapshot' = snapshot /\ Undone' = Undone
      /\ Latest(r) /\ \A s \in Rec \ {r} : ~Open(s)
  BY TransitionRows DEF Reopen, Signed, Alone, Undone, NoneOpen
<1>2. \A s \in Rec \ {r} : (Signed(s)' <=> Signed(s))
  BY <1>1 DEF Alone, Signed, Status, Exists
<1>3. Stack' = Stack \ {Certified(r)} /\ Certified(r) \in Stack
  BY <1>1, <1>2, StackOfOthers
<1>4. \A s \in snapshot : s \in Rec /\ Exists(s) /\ Signed(s)
  <2>1. \A s \in snapshot : s \in Rec /\ Exists(s)
    BY DEF Rows, TypeOK
  <2>2. \A s \in snapshot : s = r \/ ~Open(s)
    BY <1>1, <2>1
  <2>3. \A s \in Rec : Exists(s) /\ ~Open(s) => Signed(s)
    BY DEF Open, Signed, Status, Rows, TypeOK, Exists, RecRow
  <2>. QED  BY <1>1, <2>1, <2>2, <2>3
<1>5. Off = {} /\ Off' = {Face(r)}
  <2>1. Face(r)' = Face(r) /\ r \in snapshot
    BY <1>1, <1>4, FaceKept DEF Latest
  <2>. QED  BY <1>1, <1>2, <1>4, <2>1 DEF Off
<1>6. Statements!Top(Certified(r))
  <2>1. \A s \in Rec : Signed(s) => Ends(s) <= Ends(r)
    BY <1>1 DEF Latest, Chained
  <2>2. \A t \in Stack : t.face.ends <= Certified(r).face.ends
    BY <2>1, CertifiedFields DEF Stack
  <2>. QED  BY <1>3, <2>2 DEF Statements!Top, Stack
<1>7. Certified(r).face = Face(r)
  BY CertifiedFields
<1>8. PICK c : c = Certified(r)
  OBVIOUS
<1>9. Statements!TakeOff(c)
  BY <1>1, <1>3, <1>5, <1>6, <1>7, <1>8 DEF Statements!TakeOff, Stack, Off
<1>10. c \in Stack \ Stack'
  BY <1>3, <1>8
<1>. QED  BY <1>9, <1>10 DEF Statements!Next, Stack

LEMMA RequestMapped ==
  ASSUME StackInv, StackInv', [Next]_vars, Stack' = Stack, Off' = Off,
         \A r \in Rec : Signed(r)' <=> Signed(r),
         NEW p \in Payment, RequestReversal(p), Undone' = Undone \cup {p}
  PROVE  Statements!Next
<1>. USE DEF StackInv
<1>1. ASSUME NEW r \in Rec, Signed(r)
      PROVE  p \notin Payments(r)
  <2>1. Certified(r)' = Certified(r)
    BY <1>1, CertifiedKept
  <2>2. Payments(r)' = Payments(r)
    BY <2>1 DEF Certified
  <2>. QED  BY <1>1, <2>2 DEF SignedPaymentsStand
<1>2. \A s \in Stack : p \notin s.payments
  BY <1>1, CertifiedFields DEF Stack
<1>3. Statements!Undo(p)
  BY <1>2 DEF Statements!Undo, Stack, Off
<1>4. p \in Undone' \ Undone
  BY DEF RequestReversal, Undone
<1>. QED  BY <1>3, <1>4 DEF Statements!Next

LEMMA StackStep == StackInv /\ StackInv' /\ [Next]_vars => [Statements!Next]_(Statements!vars)
<1>. SUFFICES ASSUME StackInv, StackInv', [Next]_vars
              PROVE  [Statements!Next]_(Statements!vars)
  OBVIOUS
<1>0. Rows
  BY DEF StackInv
<1>1. ASSUME snapshot' = snapshot, \A r \in Rec : Signed(r)' <=> Signed(r)
      PROVE  [Statements!Next]_(Statements!vars)
  <2>1. Stack' = Stack /\ Off' = Off
    BY <1>0, <1>1, StackSame
  <2>2. CASE Undone' = Undone
    BY <2>1, <2>2 DEF Statements!vars, Stack, Off
  <2>3. ASSUME NEW p \in Payment, RequestReversal(p), Undone' = Undone \cup {p}
        PROVE  Statements!Next
    BY <1>1, <2>1, <2>3, RequestMapped
  <2>. QED  BY <1>0, <2>2, <2>3, UndoneSteps
<1>2. ASSUME NEW r \in Rec, NEW a \in Actor, SignOff(a, r) \/ Reopen(a, r)
      PROVE  Statements!Next
  BY <1>2, SignOffMapped, ReopenMapped
<1>3. CASE Outside
  <2>1. snapshot' = snapshot /\ \A r \in Rec : Signed(r)' <=> Signed(r)
    BY <1>3, OutsideSigned DEF Outside, statement
  <2>. QED  BY <1>1, <2>1
<1>4. ASSUME NEW r \in Rec, Work(r)
      PROVE  [Statements!Next]_(Statements!vars)
  <2>1. snapshot' = snapshot /\ \A s \in Rec : Signed(s)' <=> Signed(s)
    BY <1>4 DEF Work, SameStatements, Signed, Status, Exists
  <2>. QED  BY <1>1, <2>1
<1>5. ASSUME NEW r \in Rec, Alone(r), ~Signed(r), ~Signed(r)', snapshot' = snapshot
      PROVE  [Statements!Next]_(Statements!vars)
  <2>1. \A s \in Rec : Signed(s)' <=> Signed(s)
    BY <1>5 DEF Alone, Signed, Status, Exists
  <2>. QED  BY <1>1, <1>5, <2>1
<1>6. ASSUME NEW r \in Rec, NEW a \in Actor, Review(a, r)
      PROVE  Alone(r) /\ ~Signed(r) /\ ~Signed(r)' /\ snapshot' = snapshot
  BY <1>0, <1>6, TransitionRows DEF Review, Editable, Signed
<1>7. \A r \in Rec : ~Exists(r) => ~Signed(r)
  BY DEF Signed, Status
<1>. QED  BY <1>0, <1>2, <1>3, <1>4, <1>5, <1>6, <1>7, StepKinds

(* Lines, matches, payments, drafts, items and reviews add up to the stack *)
(* of signed statements, for any of them, any days and any amounts.        *)
THEOREM ImplementsStatements == Spec => KeepsStatements
<1>1. Init => Statements!Init
  BY BankNoneAssumption DEF Init, Statements!Init, Signed, Status, Exists, Undone
<1>. QED
  BY <1>1, StackStep, StackInvHolds, PTL DEF Spec, KeepsStatements, Statements!Spec
=============================================================================
