SPECIFICATION MCSpec
CONSTANTS
  None = None
  Edits = {e1}
  Image = image
  Others = {o1}
  MaxVersion = 3
  MaxSends = 2
  Keep = 1
PROPERTIES
  NothingUnseenReplaced
CHECK_DEADLOCK FALSE
