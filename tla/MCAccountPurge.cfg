CONSTANTS
  u1 = u1
  c1 = c1
  c2 = c2
  j1 = j1
  Accounts <- OneAccount
  Calls <- OneCall
  Jobs <- OneJob
  Never = Never
  Grace = 1
  Retention = 1
  OtherWriters = TRUE
  MaxDay = 3
  MaxSagas = 1
  MaxFaults = 1
SPECIFICATION FairSpec
INVARIANTS TypeOK PurgedIsLogged PurgeOnlyRequested NothingBeforeGrace CompletedMeansDeleted
PROPERTIES DeletedIsPurged DueIsTaken
CHECK_DEADLOCK FALSE
