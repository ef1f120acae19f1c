SPECIFICATION FairSpec
CONSTANTS
  CHUNKS = 2
  CHUNKSIZE = 1
  STEP = 1
  NumFiles = 3
  NumSymlinks = 2
  PieceSize = 3
  NoFile = NoFile
  Faults = {}
  IsDirectory = TRUE
  Served <- Mixed
  Leftovers <- AnyLeftovers
  LinkPlaces = {"absent", "other"}
  Edits <- NoEdits
  MaxEdits = 0
  MaxSessions = 2
INVARIANTS
  TypeOK
  StopAndWait
  ListFollowsCounter
  LoopSkipsOnce
  KeyFirst
  CountersAgree
  SymlinksAfterFiles
  NothingCorrupted
PROPERTIES
  ImplementsDelivery
  OnlyAfterConsent
  AcceptedArrives
