SPECIFICATION Spec
CONSTANTS
  ByteBits = 8
  Prefetch = 24
  MaxLen = 16
  Coefs = 64
  RstMarkers = {208, 209, 210, 211, 212, 213, 214, 215}
  MaxLabels = 16
  MaxBlobs = 2
  MinArea = 2
  Margin = 1
  Threshold = 22
  MaxTracks = 2
  MaxId = 2
  MatchD2 = 9
  ConfirmHits = 2
  AlertSustain = 2
  PossibleHold = 1
  Reach = 12
  Cameras <- MCCameras
  Format <- MCFormat
  Pictures <- MCPictures
  Details = {"flat", "edge", "sharp"}
  Lost = {0, 1, 5, 9, 20}
  LostAtRun <- MCLostAtRun
  Headers <- MCHeaders
  Garbage = {0, 200}
INVARIANTS
  MotionTypeOK
  DcIsExact
  LabelsAreComponents
  MergeIsFinest
  SameIdOnlyAfterWrap
  EveryBlobHasATrack
  AlertIsEarned
PROPERTIES
  StillSceneClears
