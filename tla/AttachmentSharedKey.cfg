SPECIFICATION Spec
CONSTANTS
  direct = direct
  payable = payable
  object = object
  Reservation <- Requests
  ByRow = {payable}
  Object = {object}
  ObjectOf <- SameObject
  File = {bill}
  Infected = {}
  Call = {c1}
  Sweep = {w1}
  Limit = 1
  MaxUploads = 1
  MaxFaults = 0
  None = None
CHECK_DEADLOCK FALSE
INVARIANT EvidenceKept
