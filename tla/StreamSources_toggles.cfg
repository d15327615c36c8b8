CONSTANTS
  Streams = {s1, s2}
  None = None
  MaxRequests = 1
SPECIFICATION Spec
SYMMETRY Symmetry
VIEW View
INVARIANTS TypeOK DrawnIsAttached StopReachesAll ToggleShowsSource
