SPECIFICATION FairSpec
CONSTANTS
  CHUNKS = 2
  CHUNKSIZE = 1
  STEP = 1
  NumFiles = 2
  NumSymlinks = 1
  PieceSize = 3
  NoFile = NoFile
  Faults = {"kill", "link", "open", "remove"}
  IsDirectory = TRUE
  Served <- TwoFiles
  Leftovers <- OtherLeftovers
  LinkPlaces = {"absent"}
  Edits <- AnyEdits
  MaxEdits = 2
  MaxSessions = 1
INVARIANTS
  DoneMeansChecked
PROPERTIES
  OneEndsBothEnd
  OfferArrives
  AnswerEnds
