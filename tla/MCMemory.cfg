CONSTANTS
  q1 = q1
  q2 = q2
  old1 = old1
  w1 = w1
  w2 = w2
  Prompts <- TwoPrompts
  Stored <- OneStored
  Workers <- TwoWorkers
  MaxRounds = 2
  MaxCalls = 1
  CompressAt = 4
  MineFirst = 3
  MaxFaults = 1
  MaxCloses = 1
CONSTRAINTS OneUsesTools ExtractionsLast WorkersApart FaultsApart
SPECIFICATION FairSpec
INVARIANTS TypeOK ArchivedWasCovered TurnsArchivedWhole
PROPERTIES GoalsLostOnlyByOverlap ImplementsTurns StreamsEnd
CHECK_DEADLOCK FALSE
ACTION_CONSTRAINTS JobsFailLate SecondWorkerSecond
