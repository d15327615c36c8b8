CONSTANTS
  Sockets = {s1, s2, s3}
  NoSocket = NoSocket
  Devices = {d1, d2}
  NoDevice = NoDevice
  FakeId = fake
  MaxRetries = 2
  FakeNode = FALSE
  Patient = FALSE
SPECIFICATION FairSpec
INVARIANTS TypeOK ConnectingIsTrying ConnectedHasDevice SingleRetryChain
PROPERTIES AttemptsEnd DriversComeBack
