CONSTANTS
  alice = alice
  bob = bob
  a1 = a1
  a2 = a2
  a3 = a3
  b1 = b1
  p1 = p1
  p2 = p2
  f1 = f1
  f2 = f2
  w1 = w1
  w2 = w2
  m1 = m1
  m2 = m2
  g1 = g1
  k1 = k1
  k2 = k2
  Users <- MCUsers
  Resumes <- MCResumes
  Owner <- MCOwner
  Requests <- MCRequests
  Limit = 1
  Resettable <- MCResettable
  Uploads <- TwoFiles
  Parsers <- TwoWorkers
  NoUpload = NoUpload
  MaxStalls = 1
  MaxRemounts = 1
  Materials <- TwoMaterials
  Tags <- OneTag
  NoMaterial = NoMaterial
  Clicks <- TwoClicks
  MaxReloads = 1
SPECIFICATION ProfileSpec
INVARIANTS ProfileTypeOK NeverOvercharged DeliveredWasCharged OvershootBounded
  DoneIsStored ShownIsStored TextStraysOnlyBySwitch
CONSTRAINTS FirstFileFirst OneMore TwoAnswers FirstClickFirst
CHECK_DEADLOCK FALSE
