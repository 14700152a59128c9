CONSTANTS
  AlwaysAvailable = {TRUE, FALSE}
  Formats = {"video", "audio"}
  Readers = {r1}
  QueueSize = 1
  MaxSubStreams = 3
  MaxPTS = 1
  Nobody = Nobody
  r1 = r1
SPECIFICATION FairSpec
INVARIANTS
  TypeOK
  SilentOnceRemoved
  IsContinuous
PROPERTIES
  NobodyWaits
