------------------------------ MODULE Screens ------------------------------
(***************************************************************************)
(* The screens of one browser tab over the query cache of the tab (React   *)
(* Query): which queries a page, a panel or a dialog mounts, which changes *)
(* it offers, which cached queries the answer to a change invalidates, and *)
(* which requests the server admits.  An entry of the cache remembers the  *)
(* changes of this tab the rows it holds do not show yet (behind).  A load *)
(* is answered in one step: LiveLists models loads that take time.         *)
(***************************************************************************)
EXTENDS Domain, Naturals, FiniteSets

CONSTANTS
    Account,      \* people who use this tab
    RoleOf,       \* user_role of each
    OrgOf,        \* organization_id of each
    OrgTypeOf,    \* organization_type of each
    MaxVisits,    \* bound on sign-ins and pages opened
    MaxSubmits    \* bound on changes submitted

AnyRole == {"super_admin", "admin", "shipper", "carrier", "regulator"}

ASSUME ScreensAssumption ==
    /\ RoleOf \in [Account -> AnyRole]
    /\ Nil \notin Account
    /\ MaxVisits \in Nat /\ MaxSubmits \in Nat

VARIABLES
    viewer,       \* user of the auth store, Nil when nobody is signed in
    view,         \* the page shown and the panel open on it
    queryCache,   \* the entries of the query cache, by key
    unanswered,   \* changes the server has made and the tab has no answer to
    visits,       \* history: sign-ins and pages opened
    submitted     \* history: changes submitted

screenVars == <<viewer, view, queryCache, unanswered, visits, submitted>>
----------------------------------------------------------------------------
(* What the server's list methods read.  Rows of alert are written by the   *)
(* server's own consumers and scans, never by a change of a screen.         *)

StatsRead         == {"user", "active", "orgActive", "shipment", "alert"}
ShipmentsRead     == {"shipment", "user", "org", "route", "stop", "checkpoint"}
ShipmentRead      == ShipmentsRead \cup {"event"}
RoutesRead        == {"route", "stop", "checkpoint", "assignment"}
CheckpointsRead   == {"checkpoint"}
UsersRead         == {"user", "active", "org"}
OrganizationsRead == {"org", "orgActive", "user"}
AllInvitesRead    == {"invitation", "org", "user"}
OrgInvitesRead    == {"invitation"}
MembersRead       == {"user", "active"}
AlertsRead        == {"alert", "mark"}
UnreadRead        == {"alert", "mark"}
ReportsRead       == {"report"}
SessionsRead      == {"session"}

Family ==
    {"shipments", "shipment-detail", "routes", "routes-picker", "checkpoints", "alerts",
     "unread-alerts-count", "reports", "auth-sessions", "dashboard-stats", "admin-users",
     "admin-organizations", "admin-organizations-active", "admin-invitations",
     "org-members", "org-members-active",
     "org-invitations", "org-invitations-all", "org-invitations-count"}

\* The method behind each family of queries.
ReadBy ==
    [f \in Family |->
        CASE f = "shipments"                               -> ShipmentsRead
          [] f = "shipment-detail"                         -> ShipmentRead
          [] f \in {"routes", "routes-picker"}             -> RoutesRead
          [] f = "checkpoints"                             -> CheckpointsRead
          [] f = "alerts"                                  -> AlertsRead
          [] f = "unread-alerts-count"                     -> UnreadRead
          [] f = "reports"                                 -> ReportsRead
          [] f = "auth-sessions"                           -> SessionsRead
          [] f = "dashboard-stats"                         -> StatsRead
          [] f = "admin-users"                             -> UsersRead
          [] f = "admin-organizations"                     -> OrganizationsRead
          [] f = "admin-organizations-active"              -> {"orgActive"}
          [] f = "admin-invitations"                       -> AllInvitesRead
          [] f \in {"org-members", "org-members-active"}   -> MembersRead
          [] f \in {"org-invitations", "org-invitations-all",
                    "org-invitations-count"}               -> OrgInvitesRead]
----------------------------------------------------------------------------
(* A change: what the server writes, and which families the tab then       *)
(* invalidates.                                                            *)

Effect(writes, stales) == [writes |-> writes, stales |-> stales]

\* Mutant: the assignment of a route forgets the detail it is made from.
ForgetfulShipmentChanges ==
    [createShipment |-> Effect({"shipment", "event"}, {"shipments"}),
     acceptShipment |-> Effect({"shipment", "event"}, {"shipments"}),
     updateStatus   |-> Effect({"shipment", "event"}, {"shipments"}),
     assignRoute    |-> Effect({"shipment", "event", "assignment"}, {"shipments"}),
     updateShipment |-> Effect({"shipment", "event"}, {"shipments"})]

ShipmentChanges ==
    [createShipment |-> Effect({"shipment", "event"}, {"shipments"}),
     acceptShipment |-> Effect({"shipment", "event"}, {"shipments"}),
     updateStatus   |-> Effect({"shipment", "event"}, {"shipments"}),
     assignRoute    |-> Effect({"shipment", "event", "assignment"}, {"shipments", "shipment-detail"}),
     updateShipment |-> Effect({"shipment", "event"}, {"shipments"})]

RouteChanges ==
    [saveRoute   |-> Effect({"route"}, {"routes"}),
     switchRoute |-> Effect({"route"}, {"routes"}),
     editStops   |-> Effect({"stop"}, {"routes"})]

CheckpointChanges ==
    [saveCheckpoint   |-> Effect({"checkpoint"}, {"checkpoints"}),
     switchCheckpoint |-> Effect({"checkpoint"}, {"checkpoints"})]

UserChanges ==
    [switchUser |-> Effect({"active"}, {"admin-users", "dashboard-stats"}),
     deleteUser |-> Effect({"user", "active"}, {"admin-users", "dashboard-stats"})]

\* Deactivating an organization deactivates its users.
OrganizationChanges ==
    [switchOrganization |-> Effect({"orgActive", "active"}, {"admin-organizations", "dashboard-stats"})]

OrganizationEdit == [updateOrganization |-> Effect({"org"}, {"admin-organizations"})]

AdminInviteChanges == [adminInvite |-> Effect({"invitation"}, {"admin-invitations"})]

MemberChanges == [switchMember |-> Effect({"active"}, {"org-members", "org-members-active"})]

InviteChange == [invite |-> Effect({"invitation"}, {"org-invitations"})]

OrgInviteChanges ==
    [manageInvite |-> Effect({"invitation"}, {"org-invitations-all", "org-invitations-count"})]

AlertChanges == [markRead |-> Effect({"mark"}, {"alerts", "unread-alerts-count"})]

ReportChanges == [generateReport |-> Effect({"report"}, {"reports"})]

SessionChanges == [revokeSessions |-> Effect({"session"}, {"auth-sessions"})]

\* The server revokes all other sessions; no query is invalidated, not even
\* the list of sessions on the same page.
PasswordChange == [updatePassword |-> Effect({"session"}, {})]

\* The profile goes to the auth store; no query is invalidated.
ProfileChange == [updateProfile |-> Effect({"user"}, {})]

ChangeTables ==
    {ShipmentChanges, RouteChanges, CheckpointChanges, UserChanges, OrganizationChanges,
     OrganizationEdit, AdminInviteChanges, MemberChanges, InviteChange, OrgInviteChanges,
     AlertChanges, ReportChanges, SessionChanges, PasswordChange,
     ProfileChange}

Change   == UNION {DOMAIN t : t \in ChangeTables}
EffectOf == [c \in Change |-> (CHOOSE t \in ChangeTables : c \in DOMAIN t)[c]]
----------------------------------------------------------------------------
(* The roles each controller admits; RolesGuard lets a super administrator *)
(* pass everywhere.                                                        *)

AdminController ==
    [q \in {"admin-users", "admin-organizations", "admin-organizations-active", "admin-invitations",
            "switchUser", "deleteUser", "switchOrganization", "updateOrganization"} |-> {"super_admin"}]

OrganizationsController ==
    [q \in {"org-members", "org-members-active", "org-invitations", "org-invitations-all",
            "org-invitations-count", "invite", "manageInvite", "adminInvite",
            "switchMember"} |-> {"admin"}]

ShipmentsController ==
    [q \in {"createShipment", "updateShipment", "shipments", "shipment-detail", "updateStatus",
            "assignRoute", "acceptShipment"} |->
        CASE q \in {"createShipment", "updateShipment"} -> {"shipper", "admin"}
          [] q = "assignRoute"                          -> {"shipper", "admin", "carrier", "super_admin"}
          [] q = "acceptShipment"                       -> {"carrier", "admin", "super_admin"}
          [] OTHER                                      -> AnyRole]

RoutesController ==
    [q \in {"saveRoute", "switchRoute", "editStops", "routes", "routes-picker"} |->
        IF q \in {"routes", "routes-picker"} THEN AnyRole ELSE {"super_admin"}]

CheckpointsController ==
    [q \in {"saveCheckpoint", "switchCheckpoint", "checkpoints"} |->
        IF q = "checkpoints" THEN AnyRole ELSE {"super_admin"}]

\* The controllers without a role of their own.
AlertsController    == [q \in {"alerts", "unread-alerts-count", "markRead"} |-> AnyRole]
DashboardController == [q \in {"dashboard-stats"} |-> AnyRole]
ReportsController   == [q \in {"reports", "generateReport"} |-> AnyRole]
AuthController      == [q \in {"auth-sessions", "revokeSessions", "updatePassword",
                              "updateProfile"} |-> AnyRole]

Controllers ==
    {AdminController, OrganizationsController, ShipmentsController, RoutesController,
     CheckpointsController, AlertsController, DashboardController, ReportsController, AuthController}

MayAsk(a, q) ==
    \/ RoleOf[a] = "super_admin"
    \/ \E t \in Controllers : q \in DOMAIN t /\ RoleOf[a] \in t[q]
----------------------------------------------------------------------------
(* What a part of the screen mounts and offers.  A query is its family and *)
(* the parameters that tell it from the others of the family.              *)

Shows(queries, offers) == [queries |-> queries, offers |-> offers]
Blank == Shows({}, {})
One(family) == <<family, "">>
With(s, t) == Shows(s.queries \cup t.queries, s.offers \cup t.offers)

Layout == Shows({One("unread-alerts-count")}, {})
Bell   == Shows({<<"alerts", "bell">>}, {"markRead"})

SuperAdminDashboard == Shows({One("dashboard-stats")}, {})
AdminDashboard      == Shows({One("dashboard-stats"), One("org-invitations")}, {})
CarrierDashboard    == Shows({One("dashboard-stats")}, {})
ShipperDashboard    == Blank
RegulatorDashboard  == Blank

DashboardRedirect(a) ==
    CASE RoleOf[a] = "super_admin" -> SuperAdminDashboard
      [] RoleOf[a] = "admin"       -> AdminDashboard
      [] RoleOf[a] = "shipper"     -> ShipperDashboard
      [] RoleOf[a] = "carrier"     -> CarrierDashboard
      [] RoleOf[a] = "regulator"   -> RegulatorDashboard

\* Shippers, and the administrators of a shipping organization, create and edit.
MayEdit(a) == RoleOf[a] = "shipper" \/ (RoleOf[a] = "admin" /\ OrgTypeOf[a] = "shipper")

ShipmentsPage(a) ==
    Shows({<<"shipments", "all">>},
          IF RoleOf[a] \in {"shipper", "admin", "super_admin"} THEN {"updateStatus"} ELSE {})

CreateShipmentModal(a) == Shows({}, IF MayEdit(a) THEN {"createShipment"} ELSE {})

\* Mutant: the dialog is offered to whoever sees the list.
EditForAll(a) == Shows({}, {"updateShipment"})
EditShipmentModal(a) == Shows({}, IF MayEdit(a) THEN {"updateShipment"} ELSE {})

CarrierShipmentsPage == Shows({<<"shipments", "mine">>}, {"updateStatus"})
OrgShipmentsTab      == Shows({<<"shipments", "assigned">>}, {"updateStatus"})
AvailableTab         == Shows({<<"shipments", "available">>}, {"acceptShipment"})
ShipmentDetailPanel  == Shows({One("shipment-detail")}, {"updateStatus"})
RoutePicker          == With(ShipmentDetailPanel, Shows({One("routes-picker")}, {"assignRoute"}))

ShipmentsRedirect(a) == IF RoleOf[a] = "carrier" THEN CarrierShipmentsPage ELSE ShipmentsPage(a)

TrackingPage == Shows({<<"shipments", "map">>}, {})
AlertsPage   == Shows({<<"alerts", "page">>, One("unread-alerts-count")}, {"markRead"})
ReportsPage  == Shows({One("reports")}, {"generateReport"})
ProfilePage  == Shows({One("auth-sessions")}, {"revokeSessions", "updatePassword", "updateProfile"})

OrganizationsPage == Shows({One("org-members"), One("org-members-active")}, {"switchMember"})
InvitationsPage   == Shows({One("org-invitations-all"), One("org-invitations-count")}, {"manageInvite"})
InviteMemberModal == Shows({}, {"invite"})

UsersReportPage             == Shows({One("admin-users")}, {"switchUser", "deleteUser"})
SuperAdminOrganizationsPage ==
    Shows({One("admin-organizations"), One("admin-organizations-active")}, {"switchOrganization"})
EditOrganizationModal       == Shows({}, {"updateOrganization"})
SuperAdminInvitationsPage   == Shows({One("admin-invitations")}, {"adminInvite"})
RoutesPage                  == Shows({<<"routes", "page">>}, {"switchRoute"})
RouteModal                  == Shows({}, {"saveRoute"})
RouteCheckpointsModal       == Shows({<<"checkpoints", "catalog">>}, {"editStops"})
CheckpointsPage             == Shows({<<"checkpoints", "page">>}, {"switchCheckpoint"})
CheckpointModal             == Shows({}, {"saveCheckpoint"})

\* The pages a role is led to: those every role has, and those behind a RoleRoute.
CommonPages(a) ==
    [dashboard |-> DashboardRedirect(a), shipments |-> ShipmentsRedirect(a), tracking |-> TrackingPage,
     alerts |-> AlertsPage, reports |-> ReportsPage, profile |-> ProfilePage]

AdminPages == [members |-> OrganizationsPage, invitations |-> InvitationsPage]

SuperAdminPages ==
    [users |-> UsersReportPage, organizations |-> SuperAdminOrganizationsPage,
     allInvitations |-> SuperAdminInvitationsPage, routes |-> RoutesPage, checkpoints |-> CheckpointsPage]

\* f, and g where f is not defined.
Merged(f, g) == [x \in DOMAIN f \cup DOMAIN g |-> IF x \in DOMAIN f THEN f[x] ELSE g[x]]

PagesOf(a) == Merged(CommonPages(a),
                     CASE RoleOf[a] = "admin"       -> AdminPages
                       [] RoleOf[a] = "super_admin" -> SuperAdminPages
                       [] OTHER                     -> << >>)

\* The tabs, dialogs and pop-ups of a page; the bell is on every page.
PanelsOf(a, page) == Merged([none |-> Blank, bell |-> Bell],
    CASE page = "shipments" /\ RoleOf[a] = "carrier" ->
              [assigned |-> OrgShipmentsTab, available |-> AvailableTab,
               detail |-> ShipmentDetailPanel, picker |-> RoutePicker]
      [] page = "shipments" /\ RoleOf[a] # "carrier" ->
              [create |-> CreateShipmentModal(a), edit |-> EditShipmentModal(a)]
      [] page = "invitations"   -> [invite |-> InviteMemberModal]
      [] page = "organizations" -> [edit |-> EditOrganizationModal]
      [] page = "routes"        -> [edit |-> RouteModal, stops |-> RouteCheckpointsModal]
      [] page = "checkpoints"   -> [edit |-> CheckpointModal]
      [] OTHER                  -> << >>)

Showing(a, v) == With(PagesOf(a)[v.page], PanelsOf(a, v.page)[v.panel])
----------------------------------------------------------------------------
(* The query cache.                                                        *)

\* The keys that name the organization.
OrgScoped == {"org-members", "org-members-active", "org-invitations",
              "org-invitations-all", "org-invitations-count"}

Scope(a, family) == IF family \in OrgScoped THEN OrgOf[a] ELSE Nil
Keys(a, queries) == {<<q[1], q[2], Scope(a, q[1])>> : q \in queries}

\* staleTime: 0; the others are fresh for five minutes.
NeverFresh == {"org-invitations", "org-invitations-all", "org-invitations-count"}

Loaded == [behind |-> {}, invalid |-> FALSE, old |-> FALSE]

\* A query that mounts loads unless its entry is there and fresh.
Reloads(k) ==
    \/ k \notin DOMAIN queryCache
    \/ queryCache[k].invalid \/ queryCache[k].old \/ k[1] \in NeverFresh

LayoutKeys(a) == IF a = Nil THEN {} ELSE Keys(a, Layout.queries)
Mounted == IF viewer = Nil THEN {} ELSE LayoutKeys(viewer) \cup Keys(viewer, Showing(viewer, view).queries)

\* The cache once the queries of keys have mounted.
Mount(keys) == Merged([k \in {k \in keys : Reloads(k)} |-> Loaded], queryCache)

\* invalidateQueries: what is mounted loads again, the rest is marked.
Invalidated(families, org) ==
    [k \in DOMAIN queryCache |->
        CASE ~(k[1] \in families /\ k[3] \in {Nil, org}) -> queryCache[k]
          [] k[1] \in families /\ k[3] \in {Nil, org} /\ k \in Mounted -> Loaded
          [] OTHER -> [queryCache[k] EXCEPT !.invalid = TRUE]]

PageName == {"login", "dashboard", "shipments", "tracking", "alerts", "reports", "profile", "members",
             "invitations", "users", "organizations", "allInvitations", "routes", "checkpoints"}
PanelName == {"none", "bell", "assigned", "available", "detail", "picker", "create", "edit",
              "invite", "stops"}

ScreensTypeOK ==
    /\ viewer \in Account \cup {Nil}
    /\ view \in [page : PageName, panel : PanelName]
    /\ \A k \in DOMAIN queryCache :
          queryCache[k] \in [behind : SUBSET Change, invalid : BOOLEAN, old : BOOLEAN]
    /\ unanswered \subseteq Change \X {OrgOf[a] : a \in Account}
    /\ visits \in 0..MaxVisits /\ submitted \in 0..MaxSubmits

ScreensInit ==
    /\ viewer = Nil
    /\ view = [page |-> "login", panel |-> "none"]
    /\ queryCache = << >>
    /\ unanswered = {}
    /\ visits = 0 /\ submitted = 0
----------------------------------------------------------------------------
(* What the person does.                                                   *)

Visit(a, v, keys) ==
    /\ visits < MaxVisits
    /\ visits' = visits + 1
    /\ viewer' = a /\ view' = v
    /\ queryCache' = Mount(keys)
    /\ UNCHANGED <<unanswered, submitted>>

\* A login leads to the dashboard; the cache is still that of the last account.
SignIn(a) ==
    LET v == [page |-> "dashboard", panel |-> "none"] IN
    /\ viewer = Nil
    /\ Visit(a, v, LayoutKeys(a) \cup Keys(a, Showing(a, v).queries))

\* The layout stays mounted, the queries of the page mount anew.
OpenPage(p) ==
    LET v == [page |-> p, panel |-> "none"] IN
    /\ viewer # Nil
    /\ p \in DOMAIN PagesOf(viewer)
    /\ Visit(viewer, v, Keys(viewer, Showing(viewer, v).queries) \ LayoutKeys(viewer))

OpenPanel(p) ==
    LET v == [view EXCEPT !.panel = p] IN
    /\ viewer # Nil /\ p # view.panel
    /\ p \in DOMAIN PanelsOf(viewer, view.page)
    /\ Visit(viewer, v, Keys(viewer, PanelsOf(viewer, view.page)[p].queries))

\* logout of useAuth: the store is cleared, the cache is not.
SignOut ==
    /\ viewer # Nil
    /\ viewer' = Nil
    /\ view' = [page |-> "login", panel |-> "none"]
    /\ UNCHANGED <<queryCache, unanswered, visits, submitted>>

\* A full load of the page: the store is persisted, the cache and the pending answers are lost.
LoadAnew ==
    /\ viewer # Nil
    /\ view' = [view EXCEPT !.panel = "none"]
    /\ queryCache' = [k \in LayoutKeys(viewer) \cup Keys(viewer, PagesOf(viewer)[view.page].queries)
                        |-> Loaded]
    /\ unanswered' = {}
    /\ UNCHANGED <<viewer, visits, submitted>>

\* The rows of one organization: only a super administrator changes another's.
Reaches(a, k) == k[3] \in {Nil, OrgOf[a]} \/ RoleOf[a] = "super_admin"

\* The server makes the change: the entries that read what it writes are behind it.
SubmitChange(c) ==
    /\ viewer # Nil /\ submitted < MaxSubmits
    /\ c \in Showing(viewer, view).offers
    /\ MayAsk(viewer, c)
    /\ submitted' = submitted + 1
    /\ unanswered' = unanswered \cup {<<c, OrgOf[viewer]>>}
    /\ queryCache' = [k \in DOMAIN queryCache |->
                        IF Reaches(viewer, k) /\ ReadBy[k[1]] \cap EffectOf[c].writes # {}
                        THEN [queryCache[k] EXCEPT !.behind = @ \cup {c}]
                        ELSE queryCache[k]]
    /\ UNCHANGED <<viewer, view, visits>>

\* onSuccess, wherever the person is by then.
AnswerChange ==
    \E u \in unanswered :
        /\ unanswered' = unanswered \ {u}
        /\ queryCache' = Invalidated(EffectOf[u[1]].stales, u[2])
        /\ UNCHANGED <<viewer, view, visits, submitted>>
----------------------------------------------------------------------------
(* What happens by itself.                                                 *)

\* shipment:updated and alert:new.  No query is called ['dashboard'].
HearLive ==
    /\ viewer # Nil
    /\ \E heard \in {{"shipments", "shipment-detail"}, {"alerts", "unread-alerts-count"}} :
          queryCache' = Invalidated(heard, OrgOf[viewer])
    /\ UNCHANGED <<viewer, view, unanswered, visits, submitted>>

\* refetchInterval of the unread count, and of the reports while one is pending.
PollQueries ==
    /\ \E k \in Mounted : /\ k[1] \in {"unread-alerts-count", "reports"}
                          /\ queryCache' = [queryCache EXCEPT ![k] = Loaded]
    /\ UNCHANGED <<viewer, view, unanswered, visits, submitted>>

\* Five minutes pass: what was loaded is stale.  (What is collected after ten
\* unmounted minutes would load again anyway.)
GrowOld ==
    /\ queryCache' = [k \in DOMAIN queryCache |-> [queryCache[k] EXCEPT !.old = TRUE]]
    /\ UNCHANGED <<viewer, view, unanswered, visits, submitted>>

ScreensNext ==
    \/ \E a \in Account : SignIn(a)
    \/ viewer # Nil /\ \E p \in DOMAIN PagesOf(viewer) : OpenPage(p)
    \/ viewer # Nil /\ \E p \in DOMAIN PanelsOf(viewer, view.page) : OpenPanel(p)
    \/ SignOut \/ LoadAnew
    \/ \E c \in Change : SubmitChange(c)
    \/ AnswerChange \/ HearLive \/ PollQueries \/ GrowOld

ScreensSpec == ScreensInit /\ [][ScreensNext]_screenVars
----------------------------------------------------------------------------
(* What no answer invalidates although the change wrote what the family    *)
(* reads: the screen shows the old rows until they are five minutes old    *)
(* and mounted again.                                                      *)
NeverTold ==
    [f \in Family |->
        CASE f = "dashboard-stats" ->
                 {"createShipment", "acceptShipment", "updateStatus", "updateShipment", "assignRoute",
                  "switchMember", "updateProfile"}
          [] f = "shipment-detail" ->
                 {"acceptShipment", "updateStatus", "updateShipment", "createShipment",
                  "saveRoute", "switchRoute", "editStops", "saveCheckpoint", "switchCheckpoint",
                  "updateOrganization", "updateProfile", "deleteUser"}
          [] f = "shipments" ->
                 {"saveRoute", "switchRoute", "editStops", "saveCheckpoint", "switchCheckpoint",
                  "updateOrganization", "updateProfile", "deleteUser"}
          [] f \in {"routes", "routes-picker"} ->
                 {"saveCheckpoint", "switchCheckpoint", "assignRoute"}
                 \cup (IF f = "routes" THEN {} ELSE {"saveRoute", "switchRoute", "editStops"})
          [] f = "admin-users" -> {"switchOrganization", "updateOrganization", "switchMember", "updateProfile"}
          [] f = "admin-organizations" -> {"deleteUser", "updateProfile"}
          [] f = "admin-organizations-active" -> {"switchOrganization"}
          [] f = "admin-invitations" -> {"invite", "manageInvite", "updateOrganization", "deleteUser", "updateProfile"}
          [] f \in {"org-members", "org-members-active"} ->
                 {"switchUser", "deleteUser", "switchOrganization", "updateProfile"}
          [] f \in {"org-invitations-all", "org-invitations-count"} -> {"invite"}
          [] f = "auth-sessions" -> {"updatePassword"}
          [] OTHER -> {}]

\* Once every change is answered, what the screen shows is behind no change
\* submitted in the tab, but for the changes the family is never told of
\* (invalidateQueries of the onSuccess handlers).  Signing in and out, which
\* starts and ends a session, is not a change of a screen.
DoneIsShown ==
    unanswered = {} => \A k \in Mounted : queryCache[k].behind \subseteq NeverTold[k[1]]

\* The server admits every request a screen leads its viewer to make.
ScreensAreServed ==
    viewer # Nil =>
        LET s == With(Layout, Showing(viewer, view)) IN
        /\ \A q \in s.queries : MayAsk(viewer, q[1])
        /\ \A c \in s.offers : MayAsk(viewer, c)
=============================================================================
