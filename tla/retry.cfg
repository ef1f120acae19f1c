SPECIFICATION Spec
CONSTANTS
  CHUNKS = 2
  CHUNKSIZE = 1
  STEP = 1
  NumFiles = 2
  NumSymlinks = 1
  PieceSize = 3
  NoFile = NoFile
  Faults = {"kill", "link", "torn"}
  IsDirectory = TRUE
  Served <- SmallFiles
  Leftovers <- SmallLeftovers
  LinkPlaces = {"absent"}
  Edits <- NoEdits
  MaxEdits = 0
  MaxSessions = 2
INVARIANTS
  CInv
  HoldsWhatCame
  DoneMeansDelivered
  AlreadyHaveIsExact
PROPERTIES
  ImplementsDelivery
  ArrivedStays
