CONSTANTS
  alice = alice
  bob = bob
  ra = ra
  m1 = m1
  m2 = m2
  p1 = p1
  p2 = p2
  w1 = w1
  w2 = w2
  e1 = e1
  e2 = e2
  Users <- MCUsers
  Resumes <- MCResumes
  Owner <- MCOwner
  Materials <- BothMaterials
  MaterialOwner <- MCMaterialOwner
  Requests <- TwoRequests
  Workers <- TwoWorkers
  Editors <- TwoEditors
  Positions = {1}
  MaxStalls = 1
  Limit = 1
  Resettable <- None
SPECIFICATION TailoringSpec
SYMMETRY Alike
CONSTRAINT OneConcern
INVARIANTS TailoringTypeOK SourceIsVetted PendingShippedOnlyByRace
PROPERTIES ResolvedStaysResolved ImplementsLedger
