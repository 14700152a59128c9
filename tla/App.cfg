CONSTANTS
  n1 = n1
  n2 = n2
  s1 = s1
  s2 = s2
  q1 = q1
  Names = {n1, n2}
  Shorts = {s1, s2}
  ShortOfs <- MCShortOfs
  Queries = {q1, q2}
  Viewers = {v1}
  MaxOutputs = 3
  Recorded = {n1}
  MaxProcesses = 2
SPECIFICATION MCSpec
INVARIANTS
  TypeOK
  WindowAgrees
PROPERTIES
  EncodersFollowStreams
CHECK_DEADLOCK FALSE
