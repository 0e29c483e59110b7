CONSTANTS
  p1 = p1
  p2 = p2
  Events = {1, 2, 3, 4}
  Kind <- UpdateKind
  OccursAt <- UpdateAt
  Outcome <- UpdateOutcome
  Tier <- UpdateTier
  PerSecond = 2
  Procs <- OneProc
  Now = 4
  MaxFaults = 1
  MaxWrites = 0
SPECIFICATION Spec
INVARIANT NothingLost
CHECK_DEADLOCK FALSE
