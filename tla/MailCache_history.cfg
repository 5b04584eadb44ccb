SPECIFICATION FairSpec
CONSTANTS
  MaxLetters = 3
  Initial = 1
  Unmarked = {1}
  Opened = {1}
  MaxValidity = 1
  PageSize = 1
  ForwardPages = 2
  HistoryPages = 1
  MaxEvents = 1
PROPERTIES HistoryIsLoaded
CHECK_DEADLOCK FALSE
