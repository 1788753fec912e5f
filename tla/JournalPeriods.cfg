SPECIFICATION Spec
CONSTANTS
  clerk = clerk
  reviewer = reviewer
  approver = approver
  poster = poster
  Controller = {c1, c2}
  Actor <- Staff
  Holders <- SplitDuties
  Journal = {j1, j2}
  Staging = {}
  Amount = {5}
  LastPeriod = 2
  MaxRevision = 4
  MaxVersion = 4
  MaxProposal = 2
  None = None
SYMMETRY Symmetry
CHECK_DEADLOCK FALSE
INVARIANTS NoJournalStranded CloseCertifiesPeriod PeriodHistoryAlternates
PROPERTY KeepsBooks
