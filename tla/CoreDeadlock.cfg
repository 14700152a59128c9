CONSTANTS
  Patched = {"log", "auth", "users", "readTimeout", "metrics", "api", "paths",
             "udpMaxPayloadSize", "rtspEncryption", "rtspUDPReadBufferSize",
             "srtpAddress", "rtmpsAddress", "runOnConnect"}
  Handlers = {h1}
  MaxChanges = 2
SPECIFICATION FairCoreSpec
PROPERTIES
  EditsReturn
CHECK_DEADLOCK FALSE
