SPECIFICATION FilterSpec
CONSTANTS
  Chars = {"a", "b", " "}
  Space = " "
  MaxLength = 4
  Responses <- ShortTexts
  RuleLists <- SmallRules
  Hosts <- SmallHosts
  LongLabels = {"site", "docs", "info"}
  Scripts <- SmallScripts
  OutSizes = {2, 5}
  MaxChanges = 1
INVARIANTS
  FilterTypeOK
  BordersDecide
  GrowthBreaks
  ScriptIsOfSite
  PageIsInjected
CHECK_DEADLOCK FALSE
