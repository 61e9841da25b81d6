SPECIFICATION FairSpec
CONSTANTS
  r1 = r1
  r2 = r2
  Loads = {r1, r2}
  Setup <- MixedSetup
  Calls <- AddsAndRemovals
  MaxCalls = 2
INVARIANTS
  EntriesLastAsNeeded
  HandlerIsAwaited
PROPERTIES
  LoadMovesUp
  CanceledIsIgnored
  EveryLoadEnds
CHECK_DEADLOCK FALSE
