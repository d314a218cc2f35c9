SPECIFICATION LoopFairSpec
CONSTANTS
  MaxTurn = 2
  MaxToolCalls = 3
  MaxToolErrors = 2
  MaxApiErrors = 2
  KeepRecent = 2
  MaxPrompts = 3
INVARIANTS CallsAreAnswered
PROPERTIES RecentRoundsKept RunEnds
CHECK_DEADLOCK FALSE
