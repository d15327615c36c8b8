CONSTANTS
  Modules <- MCModules
  matrixW = 3
  matrixH = 3
SPECIFICATION Spec
INVARIANTS TypeOK EveryCellOnce StripIsContinuous SourcesAreDistinct PreviewUpToMirror
CHECK_DEADLOCK FALSE
