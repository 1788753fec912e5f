SPECIFICATION Spec
CONSTANTS
  Process = {p1, p2}
  Event = {e1}
  Malformed = {}
  Refused = {}
  service = service
  Actor <- OneActor
  ActorOf <- SharedActor
  Limit = 1
  MaxAttempts = 2
  MaxMishaps = 1
  None = None
SYMMETRY Symmetry
CHECK_DEADLOCK FALSE
PROPERTY SettlesItsClaim
