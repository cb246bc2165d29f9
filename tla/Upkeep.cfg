SPECIFICATION UpkeepSpec
CONSTANTS
  None = None
  u1 = u1
  u2 = u2
  Handlers = {"late", "plain"}
  Priority <- Priorities
  MaxRegistrations = 3
CHECK_DEADLOCK FALSE
INVARIANTS
  MirrorHolds
PROPERTIES
  ReadyInTheEnd
  HooksHold
  UploadsEnd
