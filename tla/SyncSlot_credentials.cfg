SPECIFICATION Spec
CONSTANTS
  Tasks = {t1, t2}
  NoTask = NoTask
  MaxMail = 2
  MaxCancels = 0
  MaxUpdates = 1
  MaxWaits = 0
  MaxProblems = 0
  MaxRestarts = 0
INVARIANTS NoPhantomSync
CHECK_DEADLOCK FALSE
