SPECIFICATION JitSpec
CONSTANTS
  Threads = {t1, t2}
  Trees <- MCTrees
  Selectors <- MCSelectors
  MaxRuns = 1
  None = None
INVARIANT DefaultSelectorFitsHost
