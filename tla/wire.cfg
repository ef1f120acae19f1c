SPECIFICATION FairSpec
CONSTANTS
  BASE = 8
  WORD = 2
  DELIMITER = 6
  FILECODE = 1
  DIRCODE = 2
  HeaderOf <- MCHeaderOf
  NONCE = 1
  TAG = 1
  PADDING = 3
  MAXPACKETSIZE = 18
  Key <- MCKey
  Messages <- MCMessages
  FileID = 9
  FileContent <- MCContent
  BUFFER = 3
  PIPE = 1
  MaxSent = 2
INVARIANTS
  TypeOK
  WInv
  HeardAsSaid
  DecryptsWhatIsEncrypted
PROPERTIES
  ImplementsStream
  EndIsNoticed
CHECK_DEADLOCK FALSE
