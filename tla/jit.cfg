SPECIFICATION JitSpec
CONSTANTS
  Threads = {t1, t2}
  Trees <- MCTrees
  Selectors <- MCSelectors
  MaxRuns = 2
  None = None
INVARIANTS RegistryIntact ResultsCallable
PROPERTY EmittedUnderLock
