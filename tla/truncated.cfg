SPECIFICATION Spec
CONSTANTS
  CHUNKS = 2
  CHUNKSIZE = 1
  STEP = 1
  NumFiles = 1
  NumSymlinks = 0
  PieceSize = 3
  NoFile = NoFile
  Faults = {"kill"}
  IsDirectory = FALSE
  Served <- LargeFile
  Leftovers <- NoLeftovers
  LinkPlaces = {}
  Edits <- NoEdits
  MaxEdits = 0
  MaxSessions = 2
INVARIANT AlreadyHaveIsExact
