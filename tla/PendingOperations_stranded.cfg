SPECIFICATION Spec
CONSTANTS
  Passes = {p1, p2}
  NoPass = NoPass
  MaxOps = 1
  MaxPerPass = 1
  MaxTakeovers = 1
  MaxStops = 0
  MaxFaults = 0
  MaxRestarts = 0
INVARIANTS NoStrandedOperation
CHECK_DEADLOCK FALSE
