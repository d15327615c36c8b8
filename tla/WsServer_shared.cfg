CONSTANTS
  EEPROM_SIZE = 4
  Base = 2
  ByteSize = 4
  Printable = {1, 2}
  Conns = {c1, c2}
  None = None
  CLIENT_MAX = 2
  Messages <- SharedMessages
  Frames = {dark, f1}
  Dark = dark
  Lit = {f1}
  MaxPending = 2
SPECIFICATION Spec
SYMMETRY Symmetry
VIEW SharedView
INVARIANTS TypeOK OneHolder OnlyAskersTalk InSync NoWedgedSlot ShownUnlessPending
PROPERTY ImplementsSession
