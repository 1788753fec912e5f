-------------------------- MODULE JournalBookProofs --------------------------
(***************************************************************************)
(* JournalWorkflow implements AccountBook: the refinement of the tables to *)
(* the books they add up to, step by step.                                 *)
(***************************************************************************)
EXTENDS JournalRecordProofs

(* Only the adjusting journals name an original.                           *)
OriginalInv ==
  \A j \in Rows : journal[j].original # None => journal[j].type \in {"REVERSAL", "RECLASS"}

LEMMA OriginalOfAdjustment == Spec => []OriginalInv
  <1>1. Init => OriginalInv
    BY DEF Init, OriginalInv, Rows
  <1>2. TypeOK /\ OriginalInv /\ [Next]_vars => OriginalInv'
    <2> SUFFICES ASSUME JournalTypes, OriginalInv, [Next]_vars PROVE OriginalInv'
      BY DEF TypeOK
    <2>1. ASSUME NEW a \in Actor, NEW j \in Journal, DraftCommand(a, j)
          PROVE  OriginalInv'
      <3>1. ASSUME NEW p, NEW type, NEW x, NEW original, NEW source,
                   InsertDraft(a, j, p, type, x, original, source)
            PROVE  journal'[j].type = type /\ journal'[j].original = original
        BY <3>1 DEF InsertDraft
      <3>2. journal'[j].original # None => journal'[j].type \in {"REVERSAL", "RECLASS"}
        BY <2>1, <3>1
        DEF DraftCommand, CreateManual, CreateReclass, CreateAuto, CreateReversal
      <3> QED
        BY <2>1, <3>2, DraftEffect DEF OriginalInv
    <2>2. ASSUME NEW a \in Actor, NEW j \in Rows, NEW r \in 0..MaxRevision,
                 WorkflowCommand(a, j, r)
          PROVE  OriginalInv'
      BY <2>2, WorkflowEffect DEF OriginalInv, SameJournal
    <2>3. ASSUME NEW a \in Actor, StatementCommand(a) \/ PeriodCommand(a)
          PROVE  OriginalInv'
      BY <2>3, Untouched DEF OriginalInv, journalVars, Rows
    <2>4. CASE UNCHANGED vars
      BY <2>4 DEF OriginalInv, vars, Rows
    <2> QED
      BY <2>1, <2>2, <2>3, <2>4 DEF Next
  <1> QED
    BY <1>1, <1>2, TypeCorrect, PTL DEF Spec

(* What the refinement rests on: the invariants of the tables.             *)
BookInv ==
  /\ TypeOK
  /\ FourEyes
  /\ StagingInStep
  /\ LedgerInv
  /\ CertifiedInv
  /\ HistoryInv
  /\ OriginalInv

LEMMA BookInvHolds == Spec => []BookInv
  BY TypeCorrect, FourEyesHold, StagingFollowsJournal, LedgerOfPosted, CertificatesStand,
     HistoryKept, OriginalOfAdjustment, PTL DEF BookInv

-----------------------------------------------------------------------------
(* Certificates                                                            *)

(* A period row is OPEN exactly when every close of it was taken back.     *)
LEMMA OpenByCertificates ==
  ASSUME TypeOK, HistoryInv, NEW p \in Period
  PROVE  period[p].status = "OPEN" <=>
           \A c \in closes : c.period = p => \E e \in reopens : e.close = c
  <1>1. Alternates(p) /\ period[p].version \in Nat /\ period[p].status \in {"OPEN", "CLOSED"}
    BY KernelAssumption DEF HistoryInv, TypeOK, PeriodTypes
  <1>2. \A e \in reopens : e.period \in Period /\ Alternates(e.period)
    BY DEF HistoryInv, TypeOK, PeriodTypes, ReopenEvent
  <1>3. ASSUME period[p].status = "OPEN", NEW c \in closes, c.period = p
        PROVE  \E e \in reopens : e.close = c
    <2>1. /\ c.version \in 1..period[p].version /\ c.version % 2 = 1
          /\ period[p].version % 2 # 1
      BY <1>1, <1>3 DEF Alternates
    <2>2. c.version + 1 \in 1..period[p].version /\ (c.version + 1) % 2 = 0
      BY <1>1, <2>1, Parity
    <2>3. PICK e \in reopens : e.period = p /\ e.version = c.version + 1
      BY <1>1, <2>2 DEF Alternates
    <2>4. e.close \in closes /\ e.close.period = p /\ e.version = e.close.version + 1
      BY <1>1, <2>3 DEF Alternates
    <2>5. e.close.version = c.version
      BY <2>3, <2>4 DEF TypeOK, PeriodTypes, CloseEvent
    <2>6. e.close = c
      BY <1>1, <1>3, <2>4, <2>5 DEF Alternates
    <2> QED
      BY <2>6
  <1>4. ASSUME period[p].status = "CLOSED"
        PROVE  \E c \in closes : c.period = p /\ \A e \in reopens : e.close # c
    <2>1. period[p].version % 2 = 1 /\ period[p].version \in 1..period[p].version
      BY <1>1, <1>4 DEF Alternates
    <2>2. PICK c \in closes : c.period = p /\ c.version = period[p].version
      BY <1>1, <2>1 DEF Alternates
    <2>3. ASSUME NEW e \in reopens, e.close = c PROVE FALSE
      <3>1. e.close.period = e.period /\ e.version = e.close.version + 1
            /\ e.version \in 1..period[e.period].version
        BY <1>2, <2>3 DEF Alternates
      <3>2. e.version \in 1..period[p].version /\ e.version = period[p].version + 1
        BY <2>2, <2>3, <3>1
      <3> QED
        BY <1>1, <3>2
    <2> QED
      BY <2>2, <2>3
  <1> QED
    BY <1>1, <1>3, <1>4

LEMMA CertificateFields ==
  ASSUME NEW c
  PROVE  /\ Certificate(c).period = c.period
         /\ Certificate(c).number = c.version
         /\ Certificate(c).closedBy = c.actor
         /\ Certificate(c).entries = {j \in c.statement : journal[j].period = c.period}
         /\ Certificate(c).endedBy = {e.actor : e \in {d \in reopens : d.close = c}}
  BY DEF Certificate

LEMMA OpenMapped ==
  ASSUME TypeOK, HistoryInv, NEW p \in Period
  PROVE  Books!Open(p) <=> period[p].status = "OPEN"
  <1>1. Books!Open(p) <=> \A c \in closes : Certificate(c).period = p => Certificate(c).endedBy # {}
    BY DEF Books!Open
  <1>2. \A c : Certificate(c).endedBy # {} <=> \E e \in reopens : e.close = c
    BY DEF Certificate
  <1>3. \A c : Certificate(c).period = c.period
    BY CertificateFields
  <1> QED
    BY <1>1, <1>2, <1>3, OpenByCertificates

-----------------------------------------------------------------------------
(* What every step leaves of the books                                     *)

LEMMA RowsKept ==
  ASSUME BookInv, [Next]_vars, NEW i \in Rows
  PROVE  /\ i \in Rows'
         /\ journal'[i].period = journal[i].period
         /\ Posted(i) => journal'[i] = journal[i]
  <1> USE DEF BookInv, TypeOK
  <1>1. ASSUME NEW a \in Actor, NEW j \in Journal, DraftCommand(a, j)
        PROVE  i \in Rows' /\ journal'[i] = journal[i]
    BY <1>1, DraftEffect
  <1>2. ASSUME NEW a \in Actor, NEW j \in Rows, NEW r \in 0..MaxRevision,
               WorkflowCommand(a, j, r)
        PROVE  /\ i \in Rows'
               /\ journal'[i].period = journal[i].period
               /\ Posted(i) => journal'[i] = journal[i]
    BY <1>2, WorkflowEffect, PostedIsFinal DEF SameJournal
  <1>3. ASSUME NEW a \in Actor, StatementCommand(a) \/ PeriodCommand(a)
        PROVE  i \in Rows' /\ journal'[i] = journal[i]
    BY <1>3, Untouched DEF journalVars, Rows
  <1>4. CASE UNCHANGED vars
    BY <1>4 DEF vars, Rows
  <1> QED
    BY <1>1, <1>2, <1>3, <1>4 DEF Next

LEMMA EntryKept ==
  ASSUME BookInv, [Next]_vars, NEW e \in ledger
  PROVE  Entry(e)' = Entry(e)
  <1>1. e.journal \in Rows /\ Posted(e.journal)
    BY DEF BookInv, LedgerInv, Batch
  <1> QED
    BY <1>1, RowsKept DEF Entry

LEMMA CertificateKept ==
  ASSUME BookInv, [Next]_vars, NEW c \in closes,
         {d \in reopens' : d.close = c} = {d \in reopens : d.close = c}
  PROVE  Certificate(c)' = Certificate(c)
  <1>1. c.statement \subseteq Rows
    BY DEF BookInv, CertifiedInv
  <1>2. {j \in c.statement : journal'[j].period = c.period} =
          {j \in c.statement : journal[j].period = c.period}
    BY <1>1, RowsKept
  <1> QED
    BY <1>2 DEF Certificate

(* No batch and no period event: the books stand still.                    *)
LEMMA BooksUntouched ==
  ASSUME BookInv, [Next]_vars, ledger' = ledger, closes' = closes, reopens' = reopens
  PROVE  UNCHANGED Books!vars
  <1>1. {Entry(e) : e \in ledger}' = {Entry(e) : e \in ledger}
    BY EntryKept
  <1>2. {Certificate(c) : c \in closes}' = {Certificate(c) : c \in closes}
    BY CertificateKept
  <1> QED
    BY <1>1, <1>2 DEF Books!vars

-----------------------------------------------------------------------------
(* Posting enters one entry                                                *)

LEMMA BatchMapped ==
  ASSUME BookInv, NEW j \in Rows, Posted(j)
  PROVE  /\ Batch(j) \in ledger
         /\ Entry(Batch(j)).journal = j
         /\ Entry(Batch(j)).amount = journal[j].amount
  BY DEF BookInv, LedgerInv, Batch, Entry

LEMMA EntryOfRow ==
  ASSUME BookInv, NEW e \in ledger
  PROVE  LET k == e.journal
         IN /\ k \in Rows /\ Posted(k)
            /\ Entry(e).journal = k
            /\ Entry(e).type = journal[k].type
            /\ Entry(e).original = journal[k].original
            /\ Entry(e).source = journal[k].source
  BY DEF BookInv, LedgerInv, Batch, Entry

LEMMA PostingMapped ==
  ASSUME BookInv, FourEyes', NEW a \in Actor, NEW j \in Rows, NEW r \in 0..MaxRevision,
         Post(a, j, r), [Next]_vars
  PROVE  \E e \in {Entry(b) : b \in ledger}' : Books!Enter(e)
  <1> DEFINE new == Entry(Batch(j))'
  <1>1. WorkflowCommand(a, j, r)
    BY DEF WorkflowCommand
  <1>2. /\ Rows' = Rows /\ ~ Posted(j) /\ journal[j] \in Row
        /\ SameJournal(journal'[j], journal[j])
        /\ journal'[j].status = "POSTED"
        /\ UNCHANGED <<period, closes, reopens>>
    BY <1>1, WorkflowEffect, StatusAfter, PostedIsFinal, Untouched
    DEF BookInv, TypeOK, JournalTypes, periodVars
  <1>3. ledger' = ledger \cup {Batch(j)}
    BY DEF Post, Batch
  <1>4. /\ new.journal = j
        /\ new.period = journal[j].period
        /\ new.amount = journal[j].amount
        /\ new.type = journal[j].type
        /\ new.original = journal[j].original
        /\ new.source = journal[j].source
        /\ new.createdBy = journal'[j].createdBy
        /\ new.reviewedBy = journal'[j].reviewedBy
        /\ new.approvedBy = journal'[j].approvedBy
        /\ new.postedBy = journal'[j].postedBy
    <2>1. Batch(j)' = Batch(j)
      BY <1>2 DEF Batch, SameJournal
    <2> QED
      BY <1>2, <2>1 DEF Entry, Batch, SameJournal
  <1>5. {Entry(b) : b \in ledger}' = {Entry(b) : b \in ledger} \cup {new}
    <2>1. \A b \in ledger : Entry(b)' = Entry(b)
      BY EntryKept
    <2>2. Entry(Batch(j))' = new /\ Batch(j)' = Batch(j)
      BY <1>2 DEF Batch, SameJournal
    <2> QED
      BY <1>3, <2>1, <2>2
  <1> HIDE DEF new
  <1>6. Books!Open(new.period)
    <2>1. period[journal[j].period].status = "OPEN" /\ journal[j].period \in Period
      BY <1>2 DEF Post, InOpenPeriod, Row
    <2> QED
      BY <1>4, <2>1, OpenMapped DEF BookInv
  <1>7. ~ Books!InBook(new.journal)
    BY <1>2, <1>4, EntryOfRow DEF Books!InBook
  <1>8. Books!FourPeople(new)
    <2>1. Signed(journal'[j])
      BY <1>2 DEF FourEyes
    <2>2. journal'[j].createdBy # None
      BY <1>2, KernelAssumption DEF SameJournal, Row
    <2> QED
      BY <1>2, <1>4, <2>1, <2>2 DEF Signed, Books!FourPeople
  <1>9. new.original # None => Books!InBook(new.original)
    <2>1. ASSUME journal[j].original # None
          PROVE  journal[j].original \in Rows /\ Posted(journal[j].original)
      BY <1>2, <2>1 DEF BookInv, OriginalInv, Post, PostingEvidence, Posted
    <2> QED
      BY <1>4, <2>1, BatchMapped DEF Books!InBook
  <1>10. new.type = "REVERSAL" => Books!Undoes(new)
    <2> SUFFICES ASSUME journal[j].type = "REVERSAL"
                 PROVE  Books!Undoes(new)
      BY <1>4
    <2> DEFINE o == journal[j].original
    <2>1. /\ o \in Rows /\ Posted(o) /\ journal[j].amount = -journal[o].amount
          /\ \A k \in Rows : journal[k].type = "REVERSAL" /\ journal[k].original = o => k = j
      BY DEF BookInv, LedgerInv, Reversing, Posted
    <2>2. journal[o].amount \in Int
      BY <2>1 DEF BookInv, TypeOK, JournalTypes, Row
    <2>3. \E b \in ledger : Entry(b).journal = o /\ Entry(b).amount + new.amount = 0
      BY <1>4, <2>1, <2>2, BatchMapped
    <2>4. \A b \in ledger : Entry(b).type = "REVERSAL" => Entry(b).original # o
      BY <1>2, <2>1, EntryOfRow
    <2> QED
      BY <1>4, <2>3, <2>4 DEF Books!Undoes
  <1>11. new.source # None => \A b \in ledger : Entry(b).source # new.source
    <2> SUFFICES ASSUME journal[j].source # None, NEW b \in ledger,
                        Entry(b).source = journal[j].source
                 PROVE  FALSE
      BY <1>4
    <2>1. journal[j].source \in Staging
      BY <1>2 DEF Row
    <2>2. \A i, k \in Rows :
            journal[i].source = journal[j].source /\ journal[k].source = journal[j].source => i = k
      BY <2>1 DEF BookInv, StagingInStep
    <2> QED
      BY <1>2, <2>2, EntryOfRow
  <1>12. {Certificate(c) : c \in closes}' = {Certificate(c) : c \in closes}
    BY <1>2, CertificateKept
  <1>13. Books!Enter(new)
    BY <1>5, <1>6, <1>7, <1>8, <1>9, <1>10, <1>11, <1>12 DEF Books!Enter
  <1> QED
    BY <1>5, <1>13

-----------------------------------------------------------------------------
(* Closing issues a certificate, reopening ends it                         *)

LEMMA CloseMapped ==
  ASSUME BookInv, BookInv', NEW a \in Actor, NEW p \in Period, NEW v \in 0..MaxVersion,
         ClosePeriod(a, p, v), [Next]_vars
  PROVE  \E c \in {Certificate(d) : d \in closes}' : Books!Close(c)
  <1>1. PICK close :
          /\ closes' = closes \cup {close} /\ close.statement = Statement(p)
          /\ close.period = p /\ close.version = v + 1
          /\ period[p].status = "OPEN" /\ period[p].version = v
          /\ UNCHANGED <<reopens, journalVars>>
    <2> DEFINE event == [period |-> p, version |-> v + 1, actor |-> a,
                         statement |-> proposals[snapshot[p]].statement]
    <2>1. /\ closes' = closes \cup {event} /\ event.statement = Statement(p)
          /\ event.period = p /\ event.version = v + 1
          /\ period[p].status = "OPEN" /\ period[p].version = v
          /\ UNCHANGED <<reopens, journalVars>>
      BY DEF ClosePeriod, SnapshotIsCurrent
    <2> HIDE DEF event
    <2> QED
      BY <2>1
  <1> DEFINE new == Certificate(close)'
  <1>2. \A d \in closes : d.period = p => d.version \in 1..v
    BY <1>1 DEF BookInv, HistoryInv, Alternates
  <1>3. {e \in reopens : e.close = close} = {}
    <2>1. close \notin closes
      BY <1>1, <1>2
    <2>2. \A e \in reopens : e.close \in closes
      BY DEF BookInv, TypeOK, PeriodTypes, ReopenEvent, HistoryInv, Alternates
    <2> QED
      BY <2>1, <2>2
  <1>4. /\ new.period = p /\ new.number = v + 1 /\ new.endedBy = {}
        /\ new.entries = {j \in Statement(p) : journal[j].period = p}
    BY <1>1, <1>3 DEF Certificate, journalVars
  <1>5. {Certificate(d) : d \in closes}' = {Certificate(d) : d \in closes} \cup {new}
    <2>1. \A d \in closes : Certificate(d)' = Certificate(d)
      BY <1>1, CertificateKept
    <2> QED
      BY <1>1, <2>1
  <1> HIDE DEF new
  <1>6. Books!Open(new.period)
    BY <1>1, <1>4, OpenMapped DEF BookInv
  <1>7. new.entries = Books!Held(new.period)
    <2>1. new.entries = {j \in Rows : Posted(j) /\ journal[j].period = p}
      BY <1>4 DEF Statement, Period
    <2>2. ledger = {Batch(j) : j \in {k \in Rows : Posted(k)}}
      BY DEF BookInv, LedgerInv
    <2>3. \A e \in ledger : Entry(e).journal = e.journal /\ Entry(e).period = e.period
      BY DEF Entry
    <2>4. \A e \in ledger : Posted(e.journal) /\ e.journal \in Rows
                            /\ e.period = journal[e.journal].period
      BY <2>2 DEF Batch
    <2>5. \A j \in Rows : Posted(j) =>
            Batch(j) \in ledger /\ Batch(j).journal = j /\ Batch(j).period = journal[j].period
      BY <2>2 DEF Batch
    <2>6. \A j : j \in Books!Held(p) <=> \E e \in ledger : Entry(e).period = p /\ Entry(e).journal = j
      BY DEF Books!Held
    <2> QED
      BY <1>4, <2>1, <2>3, <2>4, <2>5, <2>6
  <1>8. \A d \in closes : Certificate(d).period = p => Certificate(d).number < v + 1
    BY <1>2, CertificateFields
  <1>9. {Entry(e) : e \in ledger}' = {Entry(e) : e \in ledger}
    BY <1>1, EntryKept DEF journalVars
  <1>10. Books!Close(new)
    BY <1>4, <1>5, <1>6, <1>7, <1>8, <1>9 DEF Books!Close
  <1> QED
    BY <1>5, <1>10

LEMMA ReopenMapped ==
  ASSUME BookInv, BookInv', NEW a \in Actor, NEW p \in Period, NEW v \in 0..MaxVersion,
         NEW c \in closes, ReopenPeriod(a, p, v, c), [Next]_vars
  PROVE  \E old \in {Certificate(d) : d \in closes}, new \in {Certificate(d) : d \in closes}' :
           \E by \in new.endedBy : Books!Reopen(old, by)
  <1> DEFINE reopening == [period |-> p, version |-> v + 1, actor |-> a, close |-> c]
  <1>1. /\ closes' = closes /\ reopens' = reopens \cup {reopening}
        /\ reopening.actor = a /\ reopening.close = c
        /\ c.period = p /\ c.version = v /\ a # c.actor /\ period[p].version = v
        /\ UNCHANGED journalVars
    BY DEF ReopenPeriod, RetainedClose
  <1> HIDE DEF reopening
  <1>2. {e \in reopens : e.close = c} = {}
    <2> SUFFICES ASSUME NEW e \in reopens, e.close = c PROVE FALSE
      OBVIOUS
    <2>1. e.period \in Period
      BY DEF BookInv, TypeOK, PeriodTypes, ReopenEvent
    <2>2. c.period = e.period /\ e.version = c.version + 1 /\ e.version \in 1..period[e.period].version
      BY <2>1 DEF BookInv, HistoryInv, Alternates
    <2>3. e.version = v + 1 /\ e.version \in 1..v
      BY <1>1, <2>2
    <2> QED
      BY <2>3
  <1>3. {e \in reopens' : e.close = c} = {reopening}
    BY <1>1, <1>2
  <1>4. \A d \in closes : d # c => Certificate(d)' = Certificate(d)
    BY <1>1, CertificateKept
  <1>5. Certificate(c)' = [Certificate(c) EXCEPT !.endedBy = {a}]
    <2>1. {j \in c.statement : journal'[j].period = c.period} =
            {j \in c.statement : journal[j].period = c.period}
      BY <1>1 DEF journalVars
    <2>2. {e.actor : e \in {d \in reopens' : d.close = c}} = {a}
      BY <1>1, <1>3
    <2> DEFINE own == {j \in c.statement : journal[j].period = c.period}
    <2> DEFINE ended == {e.actor : e \in {d \in reopens : d.close = c}}
    <2>3. Certificate(c) = [period |-> c.period, number |-> c.version, closedBy |-> c.actor,
                            entries |-> own, endedBy |-> ended]
      BY DEF Certificate
    <2>4. Certificate(c)' = [period |-> c.period, number |-> c.version, closedBy |-> c.actor,
                             entries |-> own, endedBy |-> {a}]
      BY <2>1, <2>2 DEF Certificate
    <2> HIDE DEF own, ended
    <2> QED
      BY <2>3, <2>4
  <1>6. \A d \in closes : d # c => Certificate(d) # Certificate(c)
    <2> SUFFICES ASSUME NEW d \in closes, Certificate(d) = Certificate(c) PROVE d = c
      OBVIOUS
    <2>1. d.period = c.period /\ d.version = c.version
      BY CertificateFields
    <2> QED
      BY <1>1, <2>1 DEF BookInv, HistoryInv, Alternates
  <1>7. {Certificate(d) : d \in closes}' =
          ({Certificate(d) : d \in closes} \ {Certificate(c)}) \cup {Certificate(c)'}
    BY <1>1, <1>4, <1>6
  <1>8. {Entry(e) : e \in ledger}' = {Entry(e) : e \in ledger}
    BY <1>1, EntryKept DEF journalVars
  <1>9. Certificate(c).endedBy = {} /\ Certificate(c).closedBy = c.actor
    BY <1>2, CertificateFields
  <1>10. Books!Reopen(Certificate(c), a)
    BY <1>1, <1>5, <1>7, <1>8, <1>9 DEF Books!Reopen
  <1>11. a \in Certificate(c)'.endedBy
    BY <1>1, <1>3 DEF Certificate
  <1>12. Certificate(c)' \in {Certificate(d) : d \in closes}'
    BY <1>7
  <1> QED
    BY <1>10, <1>11, <1>12

(* Every step of the tables is a step of the books or leaves them as they  *)
(* are.                                                                    *)
LEMMA BookStep ==
  BookInv /\ BookInv' /\ [Next]_vars => [Books!Next]_(Books!vars)
  <1> SUFFICES ASSUME BookInv, BookInv', [Next]_vars
               PROVE  [Books!Next]_(Books!vars)
    OBVIOUS
  <1>1. ASSUME NEW a \in Actor, NEW j \in Journal, DraftCommand(a, j)
        PROVE  UNCHANGED Books!vars
    BY <1>1, Untouched, BooksUntouched DEF periodVars
  <1>2. ASSUME NEW a \in Actor, NEW j \in Rows, NEW r \in 0..MaxRevision,
               WorkflowCommand(a, j, r)
        PROVE  [Books!Next]_(Books!vars)
    <2>1. CASE Post(a, j, r)
      BY <2>1, PostingMapped DEF Books!Next, BookInv
    <2>2. CASE ~ Post(a, j, r)
      <3>1. ledger' = ledger
        BY <1>2, <2>2 DEF WorkflowCommand, Submit, Review, Approve, Reject, EditDescription
      <3> QED
        BY <1>2, <3>1, Untouched, BooksUntouched DEF periodVars
    <2> QED
      BY <2>1, <2>2
  <1>3. ASSUME NEW a \in Actor, StatementCommand(a)
        PROVE  UNCHANGED Books!vars
    BY <1>3, Untouched, BooksUntouched DEF journalVars, periodVars
  <1>4. ASSUME NEW a \in Actor, PeriodCommand(a)
        PROVE  [Books!Next]_(Books!vars)
    BY <1>4, CloseMapped, ReopenMapped DEF PeriodCommand, Books!Next
  <1>5. CASE UNCHANGED vars
    BY <1>5, BooksUntouched DEF vars
  <1> QED
    BY <1>1, <1>2, <1>3, <1>4, <1>5 DEF Next

(* The journal, period and statement commands keep the books AccountBook   *)
(* describes, for any actors, journals, periods and bounds.                *)
THEOREM ImplementsBook == Spec => KeepsBooks
  <1>1. Init => Books!Init
    BY DEF Init, Books!Init
  <1> QED
    BY <1>1, BookStep, BookInvHolds, PTL DEF Spec, KeepsBooks, Books!Spec
=============================================================================
