SPECIFICATION FairSpec
CONSTANTS
  MaxParallel = 2
  MaxToolCalls = 4
  MaxRetries = 1
INVARIANTS ReturnedTurnIsSettled
PROPERTIES RetryRepeatsNothing ImplementsOrderedCalls FlushEnds CancelEndsTurn
