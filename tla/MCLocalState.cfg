SPECIFICATION LocalSpec
CONSTANTS
  MaxKeys = 5
  MaxFaults = 2
  Keys = {1, 4, 9, 16, 32}
  Largest = 32
  Start = 9
  Columns = 3
  Threads = 5
  accept = accept
  t1 = t1
  t2 = t2
  Tasks <- MCTasks
  Endless <- MCEndless
  Nobody = Nobody
INVARIANTS
  PairMatches
  IdentityKept
  WakeUpsSuffice
  DrainedBeforeExit
PROPERTIES
  KeysLearned
  GridSettles
  EveryTaskRuns
  ShutdownReturns
