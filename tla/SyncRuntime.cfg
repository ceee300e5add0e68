CONSTANTS
  z = z  c = c  p = p  s = s
  w1 = w1  w2 = w2  w3 = w3  w4 = w4  w5 = w5  w6 = w6
  NoOwner = NoOwner
  Resources = {z, c, s, p}
  Workers = {w1, w2, w3, w4, w5, w6}
  FailCap = 1
  MaxVersion = 2
  MaxTasks = 3
  TypeOf <- MCTypeOf
  LoopType <- MCLoopType
  MayAwait <- CertificateAwaitsZone
SYMMETRY LoopsAlike
SPECIFICATION Spec
CONSTRAINT OnePair
INVARIANT MarkerMatchesAggregate
INVARIANT FenceImpliesCurrent
INVARIANT OkMeansApplied
PROPERTY ImplementsLatestWins
PROPERTY LostLeaseStaysLost
PROPERTY RepairOnlyCreates
CHECK_DEADLOCK FALSE
