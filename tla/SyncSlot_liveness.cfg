SPECIFICATION FairSpec
CONSTANTS
  Tasks = {t1, t2}
  NoTask = NoTask
  MaxMail = 0
  MaxCancels = 0
  MaxUpdates = 1
  MaxWaits = 1
  MaxProblems = 0
  MaxRestarts = 0
INVARIANTS NoLostWakeup
PROPERTIES SlotIsReleased WaiterReturns
CHECK_DEADLOCK FALSE
