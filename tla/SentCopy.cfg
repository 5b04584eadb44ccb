SPECIFICATION FairSentSpec
CONSTANTS
  Items = {i1}
  Legacy = {}
  Workers = {w1, w2}
  NoItem = NoItem
  IncomingConfigured = TRUE
  MaxAttempts = 2
  MaxRestarts = 1
  MaxSetups = 0
  MaxFaults = 0
  ParsedForm = "bracketed"
INVARIANTS SentTypeOK ConfirmedWasFiled
PROPERTIES CopyIsConfirmed SendingIsResolved QueuedIsAttempted
CHECK_DEADLOCK FALSE
