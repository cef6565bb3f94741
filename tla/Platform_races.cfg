SPECIFICATION MCSpec
CONSTANTS
  Person = {root, ann, bob}
  Shipment = {s1}
  Request = {r1, r2}
  Nil = Nil
  Worker = {w1, w2}
  OrgAdmin = {ann}
  CreatedBy <- MCNobody
  DrivenBy <- MCDrivenBy
  PlannedEta <- MCNobody
  RouteDays <- MCRouteDays
  Grace = 0
  Horizon = 1
  MaxMoves = 1
  MaxResolves = 1
  MaxLeaves = 1
  MaxFaults = 1
  MaxQueued = 1
  Org = {home, platform}
  Invite = {i1}
  Root = root
  Founder = ann
  HomeOrg = home
  MaxTenantCalls = 3
  Route = {t1}
  Checkpoint = {c1}
  Position = {1, 2}
  MaxEdits = 5
  MaxTravels = 3
  MaxChanges = 2
  MaxClicks = 2
  MaxDrops = 1
  Leg <- MCLeg
  Hook <- MCHook
  ViewOf <- MCViewOf
  Unstable = {"marker"}
  Looks <- MCLooks
  MaxRoutes = 2
  MaxLooks = 3
  Call = {q1}
  SocketTry = {k1}
  MaxIssued = 2
  MaxLogins = 1
  MaxTroubles = 1
  Account <- MCAccount
  RoleOf <- MCRoleOf
  OrgOf <- MCOrgOf
  OrgTypeOf <- MCOrgTypeOf
  MaxVisits = 3
  MaxSubmits = 1
  Instant = {1, 2, 3}
  ExportBatch = 1
  ExportRowCap = 5
  MaxRows = 4
INVARIANTS
  OneOpenAlertPerWorker
  StoredIsTold
  TwiceOnlyByOverlap
  QuietListsAreCurrent
  OneCallPerLeg
  LoadingHasACall
  ReuseNeedsCrossing
  NoOrphanToken
  QueuedHaveARefresh
  DoneIsShown
  ScreensAreServed
  ExportMissesOnlyByRace
PROPERTIES
  MisfitNeedsARace
  OrphansNeedARace
  ExpiryHitsOnlyLateLinks
  MembersWereInvited
  PassedStopsStay
  UsedStaysOn
CHECK_DEADLOCK FALSE
