SPECIFICATION FairSpec
CONSTANTS
  MaxLetters = 3
  Initial = 1
  Unmarked = {1}
  Opened = {1}
  MaxValidity = 2
  PageSize = 1
  ForwardPages = 2
  HistoryPages = 1
  MaxEvents = 2
INVARIANTS TypeOK IdentityHolds NoHole CountersAreExact IntentIsShown
PROPERTIES BodiesAreGenuine CacheConverges
CHECK_DEADLOCK FALSE
