SPECIFICATION BenchmarksSpec
CONSTANTS
  Threads = {t1, t2}
  Trees <- MCTrees
  Selectors <- MCSelectors
  MaxRuns = 1
  None = None
  Features = 2
  Collected = 2
  Draws = 2
INVARIANTS BenchmarksTypeOK CallsInside
PROPERTIES SharedDataUntouched BenchmarksEnd
