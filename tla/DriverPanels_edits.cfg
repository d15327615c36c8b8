CONSTANTS
  Drivers = {d1, d2}
  Channels = {0}
  None = None
  Fields = {"x", "y"}
  Values = {0, 1}
  newDefaultModule <- MCDefault
  Names = {"custom", "pix600"}
  Orders = {"rgb", "grb"}
  Templates <- MCTemplates
  MaxModules = 2
SPECIFICATION Spec
SYMMETRY Symmetry
INVARIANT PanelIsTrue
PROPERTY EditIsLocal
