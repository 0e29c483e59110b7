CONSTANTS
  i1 = i1
  w1 = w1
  w2 = w2
  c1 = c1
  p1 = p1
  p2 = p2
  old1 = old1
  r1 = r1
  j1 = j1
  j2 = j2
  t1 = t1
  b1 = b1
  b2 = b2
  a1 = a1
  u1 = u1
  q1 = q1
  q2 = q2
  Items <- OneItem
  Workers <- TwoWorkers
  Calls <- OneCall
  Shortcuts = TRUE
  MaxJobs = 1
  MaxFaults = 1
  Prompts <- TwoPrompts
  Past <- OnePast
  Restores <- OneRestore
  NoConversation = NoConversation
  MaxNotes = 1
  MaxReopens = 1
  Jobs <- TwoJobs
  Tabs <- OneTab
  NoJob = NoJob
  Instances <- TwoBackends
  Applications <- OneApplication
  Hour = 2
  Checkpoints <- TwoCheckpoints
  MaxTime = 4
  MaxMoves = 1
  Mailers <- TwoBackends
  Readers <- OneReader
  Replies <- TwoReplies
  MaxDay = 1
  MaxRecos = 3
  MaxChanges = 1
  Callers <- TwoCallers
  Threshold = 2
  Cooldown = 1
  Window = 2
  MaxClock = 4
  MaxFailures = 4
SPECIFICATION ApartSpec
INVARIANTS AllTypeOK RefsAgree MilestonesInOrder QuietViewIsHistory RecordedWasApplied
  NudgesBounded NoCheckpointSlips MailsBounded
PROPERTIES AnalysisArrives WaitingEnds ClickLostOnlyByOverlap
CONSTRAINTS FirstPromptFirst FirstBackendFirst OneExtra TwoAtOnce BackendKeepsUp CrowdedOnce
  AnalysesFirst EarlyMove RepliesLast OneBesideNote OneKey OneRecorded
CHECK_DEADLOCK FALSE
ACTION_CONSTRAINT SecondWorkerSecond
