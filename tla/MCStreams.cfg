SPECIFICATION FairSpec
CONSTANTS
  Calls = 3
  Parts = 2
INVARIANTS CallsAreWhole CompleteIsComplete NextRequestFits
PROPERTIES ProviderEnds
CHECK_DEADLOCK FALSE
