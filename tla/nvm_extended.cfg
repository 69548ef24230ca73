SPECIFICATION Spec
CONSTANTS
  NumAxes = 0
  Interval = 4
  Erring = {}
  Running = {3}
  Failing = {}
  MaxSeconds = 6
INVARIANTS ExtendedSaved
