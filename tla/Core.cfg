CONSTANTS
  Patched = {"log", "auth", "users", "readTimeout", "metrics", "api", "paths",
             "udpMaxPayloadSize", "rtspEncryption", "rtspUDPReadBufferSize",
             "srtpAddress", "rtmpsAddress", "rtsp", "rtpAddress"}
  Handlers = {h1}
  MaxChanges = 2
SPECIFICATION FairCoreSpec
INVARIANTS
  CoreTypeOK
PROPERTIES
  ReloadsAgree
  ShutdownEnds
CHECK_DEADLOCK FALSE
