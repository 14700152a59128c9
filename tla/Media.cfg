SPECIFICATION MCSpec
CONSTANTS
  Video = video
  Audio = audio
  None = None
  PartDuration = 1
  MaxPartSize = 2
  DriftTolerance = 0
  MaxBasetime = 1
  Offsets <- offsets
  Cases <- recordingCases
  Asked = {1, 3}
  MaxTime = 5
  MaxStreams = 2
  RelayCases <- relayCases
  MaxFrames = 3
  MaxVersion = 2
  MaxLost = 1
  Width = 3
INVARIANTS TypesOK MediaAgrees PlaybackAgrees
PROPERTIES SegmentsStay
CHECK_DEADLOCK FALSE
