CONSTANTS
  Clients = {c1, c2}
  Templates = {"code", "a", "a, hole"}
  NoTemplate = NoTemplate
  Code = "code"
  Compact <- MCCompact
  MaxInFlight = 1
SPECIFICATION Spec
SYMMETRY Symmetry
INVARIANTS TypeOK PageAndDeviceAgree FreshPageShowsDevice
CHECK_DEADLOCK FALSE
