CONSTANTS
  u1 = u1
  c1 = c1
  c2 = c2
  j1 = j1
  Accounts <- OneAccount
  Calls <- OneCall
  Jobs <- OneJob
  Never = Never
  Grace = 1
  Retention = 1
  OtherWriters = FALSE
  MaxDay = 3
  MaxSagas = 2
  MaxFaults = 0
SPECIFICATION Spec
INVARIANT CancelTakesEffect
CHECK_DEADLOCK FALSE
