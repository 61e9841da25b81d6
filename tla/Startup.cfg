SPECIFICATION Spec
CONSTANTS
  i1 = i1
  i2 = i2
  Instances = {i1, i2}
  Values = {"a", "b"}
  Dirs = {"a"}
  DefaultPath = "default"
  CommandLines <- SmallLines
  MetaLists <- SmallLists
  MaxEdits = 1
SYMMETRY Symmetric
INVARIANTS
  CommandLinesAgree
  RendererAgrees
  RunsOnce
  
CHECK_DEADLOCK FALSE
