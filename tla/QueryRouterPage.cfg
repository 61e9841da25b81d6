SPECIFICATION FairSpec
CONSTANTS
  b1 = b1
  b2 = b2
  p1 = p1
  p2 = p2
  Browsers = {b1}
  Procs = {p1}
  Frames <- OnePage
  FrameBrowser <- OneHome
  FrameProc <- OneProc
  MainFrames <- OnePage
  Kinds = {"pdf", "dev", "short", "odd", "other"}
  MaxContext = 2
  MaxRequest = 2
  Lossy = FALSE
INVARIANTS
  CallbacksMatchQueries
  QueryHasAsker
  RequestIsServed
PROPERTIES
  KeepsQueryContract
  AnswerReachesPage
CHECK_DEADLOCK FALSE
