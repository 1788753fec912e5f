SPECIFICATION FairSpec
CONSTANTS
  direct = direct
  payable = payable
  object = object
  Reservation = {direct}
  ByRow = {}
  Object = {direct}
  ObjectOf <- OwnObject
  File = {bill, virus}
  Infected = {virus}
  Call = {c1, c2}
  Sweep = {w1, w2}
  Limit = 1
  MaxUploads = 2
  MaxFaults = 1
  None = None
CHECK_DEADLOCK FALSE
INVARIANTS TypeOK EvidenceKept EvidenceIsDeclared
PROPERTIES SettledByItsClaim KeepsEvidence EveryUploadSettles
