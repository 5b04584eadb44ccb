SPECIFICATION FairSpec
CONSTANTS
  Passes = {p1, p2}
  NoPass = NoPass
  MaxOps = 2
  MaxPerPass = 2
  MaxTakeovers = 2
  MaxStops = 1
  MaxFaults = 1
  MaxRestarts = 1
INVARIANTS TypeOK ExclusiveOperation CompletedWasApplied HiddenIsExplained IntentUntilTakeover
PROPERTIES OperationsInOrder OperationIsResolved
CHECK_DEADLOCK FALSE
