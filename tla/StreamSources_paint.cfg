CONSTANTS
  Streams = {s1, s2}
  None = None
  MaxRequests = 1
SPECIFICATION Spec
SYMMETRY Symmetry
INVARIANT PaintHasStream
