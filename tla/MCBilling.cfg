CONSTANTS
  p1 = p1
  p2 = p2
  Events = {1, 2, 3, 4, 5}
  Kind <- LifeKind
  OccursAt <- LifeAt
  Outcome <- LifeOutcome
  Tier <- LifeTier
  PerSecond = 2
  Procs <- TwoProcs
  Now = 5
  MaxFaults = 1
  MaxWrites = 1
SPECIFICATION Spec
INVARIANTS TypeOK AppliedOnce LatestWins
PROPERTY WatermarkMonotone
CHECK_DEADLOCK FALSE
