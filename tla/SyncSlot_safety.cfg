SPECIFICATION Spec
CONSTANTS
  Tasks = {t1, t2, t3}
  NoTask = NoTask
  MaxMail = 1
  MaxCancels = 1
  MaxUpdates = 0
  MaxWaits = 0
  MaxProblems = 1
  MaxRestarts = 1
SYMMETRY PassSymmetry
INVARIANTS TypeOK PassIsolation NoPhantomSync
PROPERTIES CacheMovesForward
CHECK_DEADLOCK FALSE
