SPECIFICATION MCSpec
CONSTANTS
  None = None
  Edits = {e1}
  Image = image
  Others = {o1}
  MaxVersion = 3
  MaxSends = 2
  Keep = 1
CHECK_DEADLOCK FALSE
INVARIANTS
  OutcomesHold
  LinksHold
PROPERTIES
  WorkIsKept
  WritesSettle
