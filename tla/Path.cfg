CONSTANTS
  Readers = {r1, r2}
  Publishers = {p1, p2}
  Confs <- AllConfs
  DecoderErrors = FALSE
  MaxReadyCommands = 2
SPECIFICATION FairSpec
INVARIANTS
  TypeOK
  ClientsAgree
  DemandAgrees
  StreamAgrees
PROPERTIES
  ReadersAreKept
  EveryDemandEnds
