SPECIFICATION Spec
CONSTANTS
  CHUNKS = 3
  CHUNKSIZE = 2
  STEP = 2
  NoFile = NoFile
  ReadAllSize = 2
  Appends <- Lines
  Starts <- AllSizes
  MaxEdits = 2
INVARIANTS
  TypeOK
  UneditedIsExact
  LargeMayGrow
CHECK_DEADLOCK FALSE
