SPECIFICATION Spec
CONSTANTS
  Entries = {1, 2, 3}
  Trees <- AllTrees
  Base <- MCBase
  Downloads <- MCDownloads
  MaxMoved = 1
INVARIANTS
  TInv
  EveryFileOnce
  SizeIsSum
  LinksLandOnFiles
  PlacesApart
  WalkStopsOnlyForDirs
CHECK_DEADLOCK FALSE
