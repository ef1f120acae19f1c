SPECIFICATION Spec
CONSTANTS
  CHUNKS = 2
  CHUNKSIZE = 1
  STEP = 1
  NumFiles = 1
  NumSymlinks = 0
  PieceSize = 3
  NoFile = NoFile
  Faults = {"remove"}
  IsDirectory = FALSE
  Served <- SmallFile
  Leftovers <- LongLeftover
  LinkPlaces = {}
  Edits <- NoEdits
  MaxEdits = 0
  MaxSessions = 1
INVARIANT DoneMeansDelivered
