CONSTANTS
  Sockets = {s1, s2, s3}
  NoSocket = NoSocket
  Devices = {d1, d2}
  NoDevice = NoDevice
  FakeId = fake
  MaxRetries = 2
  FakeNode = FALSE
  Patient = TRUE
SPECIFICATION Spec
INVARIANT StatusIsExact
PROPERTY ImplementsLink
