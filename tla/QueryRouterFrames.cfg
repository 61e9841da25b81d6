SPECIFICATION Spec
CONSTANTS
  b1 = b1
  b2 = b2
  p1 = p1
  p2 = p2
  Browsers = {b1, b2}
  Procs = {p1, p2}
  Frames <- TwoPages
  FrameBrowser <- SameHome
  FrameProc <- TwoProcs
  MainFrames <- OnePage
  Kinds = {"file"}
  MaxContext = 1
  MaxRequest = 1
  Lossy = TRUE
INVARIANTS
  HeardIsOwnAnswer
  NoQueryWithoutRouter
PROPERTIES
  CanceledStaysSilent
CHECK_DEADLOCK FALSE
