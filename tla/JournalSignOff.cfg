SPECIFICATION Spec
CONSTANTS
  Actor = {a1, a2, a3, a4}
  Holders <- AllHold
  Journal = {j1, j2}
  Staging = {s1}
  Amount = {5}
  LastPeriod = 1
  MaxRevision = 6
  MaxVersion = 0
  MaxProposal = 0
  None = None
SYMMETRY Symmetry
CHECK_DEADLOCK FALSE
INVARIANTS TypeOK FourEyes OutboxComplete StagingInStep SignOffCoversContent
PROPERTY PostedImmutable
