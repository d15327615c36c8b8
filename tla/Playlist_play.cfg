CONSTANTS
  Videos = {v1, v2, v3}
  None = None
  Broken = {v3}
  MaxPending = 2
SPECIFICATION Spec
SYMMETRY Symmetry
INVARIANTS TypeOK OrderAgrees FlagIsSource
PROPERTY EndIsFollowed
CHECK_DEADLOCK FALSE
