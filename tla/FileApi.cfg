SPECIFICATION BoundedSpec
CONSTANTS
  p1 = p1
  p2 = p2
  data = data
  file = file
  short = short
  long = long
  AppPath = AppPath
  Procs = {p1, p2}
  Names = {file}
  Dirs = {data}
  Folder <- DataFolder
  Texts = {short, long}
  Pieces <- TextPieces
  MaxBlocks = 2
  MaxTries = 3
INVARIANTS
  OnlyRacesEndProcess
PROPERTIES
  KeepsFilesContract
  CallsEnd
CHECK_DEADLOCK FALSE
