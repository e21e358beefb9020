SPECIFICATION FairSpec
CONSTANTS
  VisibleLines = 3
  VCountWrites = {0, 1, 2, 3, 4, 5}
  MaxScene = 4
  None = None
INVARIANT TypeOK
PROPERTIES SceneIsQuiescent ReadsFinishedRow ShowsLatestScene CallsReturn
