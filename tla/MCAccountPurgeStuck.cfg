CONSTANTS
  u1 = u1
  c1 = c1
  c2 = c2
  j1 = j1
  Accounts <- OneAccount
  Calls <- OneCall
  Jobs <- OneJob
  Never = Never
  Grace = 1
  Retention = 1
  OtherWriters = FALSE
  MaxDay = 3
  MaxSagas = 1
  MaxFaults = 1
SPECIFICATION FairSpec
PROPERTY SagaEnds
CHECK_DEADLOCK FALSE
