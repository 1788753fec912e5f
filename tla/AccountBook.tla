----------------------------- MODULE AccountBook -----------------------------
(***************************************************************************)
(* What the journal and period commands of the accounting kernel add up to *)
(* for a reader of the books (server/db/migrations 002, 027, 288, 293): a  *)
(* book that entries only join, each complete and vouched for by four      *)
(* people the moment it is there, and periods that are closed on exactly   *)
(* the entries they hold.  Drafts, revisions, rejections, staging items,   *)
(* statement proposals and period versions do not exist here.              *)
(***************************************************************************)
EXTENDS Integers

CONSTANT None   \* SQL NULL

VARIABLES
  book,         \* posted entries: a ledger batch with the journal it is of
  certificates  \* closes, with what they certified and who reopened them

vars == <<book, certificates>>

Init == book = {} /\ certificates = {}

InBook(j) == \E e \in book : e.journal = j
Held(p) == {e.journal : e \in {f \in book : f.period = p}}

Open(p) == \A c \in certificates : c.period = p => c.endedBy # {}

FourPeople(e) ==
  /\ None \notin {e.createdBy, e.reviewedBy, e.approvedBy, e.postedBy}
  /\ e.reviewedBy # e.createdBy
  /\ e.approvedBy \notin {e.createdBy, e.reviewedBy}
  /\ e.postedBy \notin {e.createdBy, e.reviewedBy, e.approvedBy}

(* A reversal negates an entry no other reversal has negated.              *)
Undoes(e) ==
  /\ \E o \in book : o.journal = e.original /\ o.amount + e.amount = 0
  /\ \A f \in book : f.type = "REVERSAL" => f.original # e.original

Enter(e) ==
  /\ Open(e.period)
  /\ ~ InBook(e.journal)
  /\ FourPeople(e)
  /\ e.original # None => InBook(e.original)
  /\ e.type = "REVERSAL" => Undoes(e)
  /\ e.source # None => \A f \in book : f.source # e.source
  /\ book' = book \cup {e}
  /\ UNCHANGED certificates

(* A close certifies what its period holds, all of it and no more.         *)
Close(c) ==
  /\ Open(c.period)
  /\ c.entries = Held(c.period)
  /\ c.endedBy = {}
  /\ \A d \in certificates : d.period = c.period => d.number < c.number
  /\ certificates' = certificates \cup {c}
  /\ UNCHANGED book

(* Only another person than the one who closed can end a certificate.      *)
Reopen(c, a) ==
  /\ c.endedBy = {}
  /\ a # c.closedBy
  /\ certificates' = (certificates \ {c}) \cup {[c EXCEPT !.endedBy = {a}]}
  /\ UNCHANGED book

(* Entries, certificates and reopeners are named after the step.           *)
Next ==
  \/ \E e \in book' : Enter(e)
  \/ \E c \in certificates' : Close(c)
  \/ \E c \in certificates, d \in certificates' : \E a \in d.endedBy : Reopen(c, a)

Spec == Init /\ [][Next]_vars
=============================================================================
