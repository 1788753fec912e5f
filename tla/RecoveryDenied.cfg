SPECIFICATION Spec
CONSTANTS
  Form = {a, b}
  Key = {k1, k2, k3}
  Cover = 2
  MaxLost = 1
  None = None
SYMMETRY Symmetry
CHECK_DEADLOCK FALSE
PROPERTY KeptUntilResolved
