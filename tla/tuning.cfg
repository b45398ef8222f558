SPECIFICATION FairSpec
CONSTANTS
  m1 = m1
  m2 = m2
  m3 = m3
  r1 = r1
  A = A
  B = B
  R = R
  None = None
  Call = {m1, m2, m3, r1}
  Id <- MCId
  Doc <- MCDoc
  User <- MCUser
  MaxPending = 2
  DedupeTtl = 2
  MaxQueue = 1
  Plans <- MCPlans
  Param <- MCParam
  Registry <- MCRegistry
  JsSafe = 9
  MaxChanges = 3
  MaxBytes = 6
  MaxDepth = 3
  Envelope = 2
  Lifetime = 2
  Skew = 0
  Documents <- MCDocuments
  Users <- MCUsers
CHECK_DEADLOCK FALSE
INVARIANTS TypeOK SignaturesFit
PROPERTIES OkIsCurrent EveryRequestSettles KeepsPromise
