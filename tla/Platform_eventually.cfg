SPECIFICATION MCSpec
CONSTANTS
  Person = {ann}
  Shipment = {s1}
  Request = {r1, r2}
  Nil = Nil
  Worker = {w1}
  OrgAdmin = {ann}
  CreatedBy <- MCNobody
  DrivenBy <- MCDrivenBy
  PlannedEta <- MCNobody
  RouteDays <- MCRouteDays
  Grace = 0
  Horizon = 1
  MaxMoves = 1
  MaxResolves = 1
  MaxLeaves = 1
  MaxFaults = 1
  MaxQueued = 1
  Pair = {ab, bc, ca}
  MaxCacheEntries = 2
  CacheTtl = 1
  MaxAttempts = 3
  MapHorizon = 1
  MaxLookUps = 4
  Audit = {a1}
  Mail = {m1}
  Report = {g1}
  MaxMishaps = 2
  Call = {q1}
  SocketTry = {k1}
  MaxIssued = 2
  MaxLogins = 1
  MaxTroubles = 0
  Notice = {1, 2, 3}
  Sought = {1, 2}
  PageLimit = 1
  MaxInputs = 3
INVARIANTS
  CacheWithinBudget
  DroppedOnlyByMishap
PROPERTIES
  LateIsReported
  EveryCallEnds
  BackgroundWorkEnds
  DeadSessionSignsOut
  StrandedPasses
CHECK_DEADLOCK FALSE
