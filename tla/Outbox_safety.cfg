SPECIFICATION Spec
CONSTANTS
  Items = {i1, i2}
  Legacy = {i2}
  Workers = {w1, w2}
  NoItem = NoItem
  IncomingConfigured = TRUE
  MaxAttempts = 2
  MaxRestarts = 1
  MaxSetups = 1
  MaxFaults = 1
SYMMETRY TaskSymmetry
INVARIANTS TypeOK OneCopyPerDecision ExclusiveDelivery DefiniteFailure StableMessageId
PROPERTIES NothingSentAfterCancel ImplementsDelivery
CHECK_DEADLOCK FALSE
