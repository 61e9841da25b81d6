SPECIFICATION Spec
CONSTANTS
  b1 = b1
  b2 = b2
  p1 = p1
  p2 = p2
  Browsers = {b1, b2}
  Procs = {p1, p2}
  Frames <- ThreePages
  FrameBrowser <- ThreeHomes
  FrameProc <- ThreeProcs
  MainFrames <- MainPages
  Kinds = {"file"}
  MaxContext = 1
  MaxRequest = 1
  Lossy = FALSE
INVARIANTS
  ClosedBrowserHasNoQueries
CHECK_DEADLOCK FALSE
