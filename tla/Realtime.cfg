SPECIFICATION FairSpec
CONSTANTS
  alice = alice
  Accounts = {alice}
  Address <- OneAddress
  Refs = {1, 2, 3, 4}
  NoRef = 0
  Layouts = {"separate"}
  NoAccount = none
  Generations = {1, 2}
  Readers = {1, 2}
  Passes = {1, 2}
  Nobody = 0
  Permits = 1
  MaxEvents = 1
INVARIANTS TypeOK StoresAgree WorkerIsRegistered SessionIsCurrent GoodAccountIsNotBlocked NoticedIsPending
PROPERTIES ChangeIsFetched
CHECK_DEADLOCK FALSE
