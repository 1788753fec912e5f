-------------------------- MODULE MCAccountingPage --------------------------
(* Instances of AccountingPage for TLC.                                    *)
EXTENDS AccountingPage

CONSTANTS a1, a2, b1

(* Two periods of one company and one of another.                          *)
TwoCompanies == [s \in Scope |-> IF s = b1 THEN b1 ELSE a1]
=============================================================================
