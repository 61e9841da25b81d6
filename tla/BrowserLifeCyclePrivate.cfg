SPECIFICATION Spec
CONSTANTS
  b1 = b1
  b2 = b2
  b3 = b3
  Browsers = {b1, b2, b3}
  NoBrowser = NoBrowser
  PrivatePopups = TRUE
  CachePath = TRUE
  SharedCache = FALSE
  MaxSeconds = 1
SYMMETRY Symmetric
INVARIANTS
  PrivateIsIsolated
CHECK_DEADLOCK FALSE
