SPECIFICATION FairSpec
CONSTANTS
  Process = {p1, p2}
  Event = {e1, x, m}
  Malformed = {m}
  Refused = {x}
  service = service
  Actor <- Process
  ActorOf <- OwnActor
  Limit = 1
  MaxAttempts = 2
  MaxMishaps = 1
  None = None
CHECK_DEADLOCK FALSE
INVARIANTS TypeOK DeadLettersJustified LeaseExcludes
PROPERTIES SettlesItsClaim DeliversEvents
