SPECIFICATION FairSentSpec
CONSTANTS
  Items = {i1}
  Legacy = {}
  Workers = {w1}
  NoItem = NoItem
  IncomingConfigured = TRUE
  MaxAttempts = 1
  MaxRestarts = 0
  MaxSetups = 0
  MaxFaults = 0
  ParsedForm = "bare"
PROPERTIES CopyIsConfirmed
CHECK_DEADLOCK FALSE
