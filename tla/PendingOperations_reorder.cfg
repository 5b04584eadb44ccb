SPECIFICATION Spec
CONSTANTS
  Passes = {p1, p2}
  NoPass = NoPass
  MaxOps = 2
  MaxPerPass = 2
  MaxTakeovers = 1
  MaxStops = 0
  MaxFaults = 0
  MaxRestarts = 0
INVARIANTS LastIntentWins
CHECK_DEADLOCK FALSE
