SPECIFICATION Spec
CONSTANTS
  l1 = l1
  l2 = l2
  p1 = p1
  p2 = p2
  Actor = {a, b, c}
  Rec = {r1, r2}
  Line <- Lines
  Payment <- Payments2
  Sale = {p2}
  Match = {m1, m2}
  LastDay = 2
  MaxDelta = 1
  Balance = {0, 1, 2}
  DateOf <- Dates
  AmountOf <- Amounts
  PaidOn <- PaidDates
  CashOf <- Cash1
  None = None
SYMMETRY Symmetry
CHECK_DEADLOCK FALSE
INVARIANTS TypeOK SignedEvidenceStands StatementsChain SeparateHands SharedLinesAdjusted
PROPERTY KeepsStatements
