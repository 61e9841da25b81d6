SPECIFICATION Spec
CONSTANTS
  b1 = b1
  b2 = b2
  q1 = q1
  q2 = q2
  q3 = q3
  p1 = p1
  p2 = p2
  Browsers = {b1, b2}
  Queries = {q1, q2, q3}
  Paths = {p1, p2}
  MaxSelected = 2
SYMMETRY Symmetric
INVARIANTS
  PendingTellsDialogs
  SlashIsRight
CHECK_DEADLOCK FALSE
