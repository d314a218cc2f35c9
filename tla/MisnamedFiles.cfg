SPECIFICATION Spec
CONSTANTS
  N = 3
  MaxParallel = 2
  Files <- MCFiles
  Inputs <- MCInputs
  Hooks <- MCHooks
  NoInput = none
  NoPath = nopath
  MaxFaults = 1
INVARIANT ChangesAreShown
