SPECIFICATION Spec
CONSTANTS
  a1 = a1
  a2 = a2
  b1 = b1
  Scope = {a1, a2, b1}
  Company <- TwoCompanies
  Home = a1
  MaxActs = 3
  None = None
CHECK_DEADLOCK FALSE
INVARIANTS TypeOK ShownInScope WorkflowInScope LoadedIsWhole ReleaseBeforeReads
PROPERTIES SignedOutStays LoadingEnds
