\* With the offer lost both nodes wait for ever: that is what this run shows.
CHECK_DEADLOCK FALSE
SPECIFICATION FairSpec
CONSTANTS
  CHUNKS = 2
  CHUNKSIZE = 1
  STEP = 1
  NumFiles = 1
  NumSymlinks = 0
  PieceSize = 3
  NoFile = NoFile
  Faults = {"open"}
  IsDirectory = FALSE
  Served <- SmallFile
  Leftovers <- NoLeftovers
  LinkPlaces = {}
  Edits <- NoEdits
  MaxEdits = 0
  MaxSessions = 1
PROPERTY OfferArrives
