SPECIFICATION Spec
CONSTANTS
  Form = {a, b, c}
  Key = {k1, k2, k3}
  Cover = 2
  MaxLost = 1
  None = None
SYMMETRY Symmetry
CHECK_DEADLOCK FALSE
INVARIANTS TypeOK AllocatedOnce OneUnresolved
PROPERTIES UnlockedWhenDead KeptWhileSerial
