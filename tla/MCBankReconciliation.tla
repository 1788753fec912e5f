------------------------ MODULE MCBankReconciliation ------------------------
(* Instances of BankReconciliation for TLC.                                *)
EXTENDS BankReconciliation, TLC

CONSTANTS l1, l2, p1, p2

(* Two lines of the same amount, a day apart, and two payments that may    *)
(* belong to either.                                                       *)
Lines == {l1, l2}
Payments1 == {p1}
Payments2 == {p1, p2}
Dates == l1 :> 1 @@ l2 :> 2
Amounts == [l \in Line |-> 1]
PaidDates == [p \in Payment |-> 1]
Cash1 == [p \in Payment |-> 1]

Symmetry == Permutations(Actor) \cup Permutations(Rec) \cup Permutations(Match)
=============================================================================
