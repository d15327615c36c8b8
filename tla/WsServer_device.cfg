CONSTANTS
  EEPROM_SIZE = 5
  Base = 2
  ByteSize = 4
  Printable = {1, 2}
  Conns = {c1, c2}
  None = None
  CLIENT_MAX = 1
  Messages <- AllMessages
  Frames = {dark, f1}
  Dark = dark
  Lit = {f1}
  MaxPending = 1
SPECIFICATION FairSpec
INVARIANT StoredIsLast
PROPERTIES StayersAreGreeted InboxIsRead
