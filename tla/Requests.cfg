SPECIFICATION Spec
CONSTANTS
  Words <- AllWords
  Lists <- AllLists
  Numerals <- Begins
  Selections <- SelectedPaths
INVARIANTS
  TypeOK
  ParamsArrive
  PlainRequestsAreSafe
  SelectionArrives
  SilenceIsUnknown
CHECK_DEADLOCK FALSE
