SPECIFICATION FairSpec
CONSTANTS
  Workers = {w1, w2}
  Callers = {c1}
  MaxConcurrent = 1
INVARIANTS AnswersAreFinal
PROPERTIES TerminalIsFinal CancelledWorkersEnd CallsReturnAfterCancel
