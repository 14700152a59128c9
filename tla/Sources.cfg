CONSTANTS
  Kinds = {"ordinary", "camera"}
  OnDemand = {TRUE, FALSE}
  Runs = {1, 2}
  MaxConf = 2
  Tried = {"rtp", "mpegts", "unix+rtp", "unix+mpegts", "rtmp", "srt", "rtsp", "hls",
           "primary", "secondary"}
  Patience = 2
  MaxRequests = 2
  MaxTracks = 2
SPECIFICATION MCSpec
INVARIANTS
  TypesOK
  OneRun
  SourcesAgree
PROPERTIES
  ContractIsKept
  NothingHangs
