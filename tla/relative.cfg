SPECIFICATION Spec
CONSTANTS
  Entries = {1, 2, 3}
  Trees <- AllTrees
  Base <- MCBase
  Downloads <- MCDownloads
  MaxMoved = 0
INVARIANTS
  AcceptedIsSent
CHECK_DEADLOCK FALSE
