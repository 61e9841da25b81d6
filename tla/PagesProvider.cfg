SPECIFICATION Spec
CONSTANTS
  c1 = c1
  c2 = c2
  Contents = {c1, c2}
  Nothing = Nothing
  MaxChanges = 3
  Dumps = {"_/dump/header.html"}
  LongLabels = {"site", "docs", "info"}
  Pages <- SmallPages
  Urls <- SmallUrls
  Redirects <- SmallRedirects
SYMMETRY Symmetric
INVARIANTS
  ReleaseServesTheStart
  ContentWasThere
  CacheIsStable
  AnswerIsOfDomain
