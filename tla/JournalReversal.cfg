SPECIFICATION Spec
CONSTANTS
  clerk = clerk
  reviewer = reviewer
  approver = approver
  poster = poster
  Controller = {}
  Actor <- Staff
  Holders <- SplitDuties
  Journal = {j1, j2, j3}
  Staging = {}
  Amount = {5, 8}
  LastPeriod = 1
  MaxRevision = 4
  MaxVersion = 0
  MaxProposal = 0
  None = None
SYMMETRY Symmetry
CHECK_DEADLOCK FALSE
INVARIANT LedgerNetsReversals
