SPECIFICATION Spec
CONSTANTS
  VisibleLines = 3
  VCountWrites = {}
  MaxScene = 3
  None = None
PROPERTIES AnyRowIsFinished
