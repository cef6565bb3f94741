# ESCV: a TLA+ model of the supply-chain-visibility platform

ESCV is a NestJS server (`server/src`) that shows shippers, carriers and
regulators where shipments are, with a React client (`client/src`). It keeps its
data in PostgreSQL (through Prisma), its sessions in Redis, passes events between
its parts through a RabbitMQ topic exchange (`escv.events`), and pushes them to
browsers through Socket.IO. This directory holds TLA+ modules of the parts whose
correctness depends on what runs at the same time, the TLC configurations that
check them, and TLAPS proofs of what matters most.

All line numbers are those of the repository beside this directory; `PROJECT.json`
maps every definition to the lines it stands for.

## 1. Inventory

The server is one Node process. The code between two `await`s is atomic; at each
`await` (a Redis command, an SQL statement or transaction, a publication) any
other request, consumer or timer may run. Almost every hazard of the server is a
consequence: a handler reads a row or a key, awaits, and writes back what it
concluded from the first read. The client is one JavaScript thread per tab, with
the same rule, and adds caches: of query answers, of road routes, of tokens.

| Component | State | Operations | Speaks to |
|---|---|---|---|
| Sessions: `auth/auth.service.ts`, `auth/guards/jwt-auth.guard.ts`, `redis/*`, `users/users.service.ts` | `user.user_is_active`, `user_token_version`, `user_password_hash`; Redis `rt:<token>`, `rt_family:<family>`, `rt_consumed:<token>`, `user_sessions:<user>`, `pr:<hash>` | login, register, accept invitation, refresh (rotation, reuse), logout, list, revoke one, revoke all, change password, forgot, reset; the guard on every request | publishes `auth.session_revoked` |
| Gateway: `websocket/*` | the sockets of this process, `client.data.user`, rooms | connect, disconnect, join and leave page, fan-out of shipment events and alerts, forced logout | reads `user_sessions`; consumes `shipment.*`, `alert.created`, `auth.session_revoked` |
| Shipments: `shipments/shipments.service.ts` | tables `shipment`, `shipment_event` | create, update, assign route, update status, accept (claim), remove, list, search, events | publishes `shipment.*` and `alert.*` |
| Administration: `admin/admin.service.ts` | `user`, `organization`, `shipment` | activation, deletion and change of users and organizations, status override, bulk actions | writes the tables of sessions and shipments; publishes nothing |
| Alerts: `alerts/*` | tables `alert`, `user_alert`; queue `alerts_queue` | consumer, creation with a look-up for duplicates, list, read marks, resolve; the ETA scanner (at midnight, and once after boot) | consumes `alert.*`, publishes `alert.created` |
| Tenancy: `organizations/organizations.service.ts` | `invitation`, `user`, `organization` | invite, resend, cancel, accept, member activation | publishes the invitation e-mail |
| Routes and checkpoints: `routes/*`, `checkpoints/*` | `route`, `route_checkpoint`, `checkpoint` | CRUD, activation, ordered checkpoints of a route | read by shipments |
| Map: `map/map.service.ts` | an in-memory cache of OSRM answers | get route: a bounded cache with expiry in front of up to three attempts; concurrent misses of one key each ask | OSRM over HTTP |
| Audit, e-mail: `audit/*`, `queue/*`, `mail/*` | table `audit_log`; queues | publication without waiting, consumers | RabbitMQ, SMTP |
| Reports, dashboard, health | table `report` | completion of a report by a timer; read-only queries | PostgreSQL |
| Client session: `client/src/api/client.ts`, `services/socket.ts`, `auth/ProtectedRoute.tsx`, `store/auth.store.ts` | access token, user, refresh cookie, queue of failed requests | login, logout, forced logout, and three refreshers of one cookie: the HTTP interceptor, the socket, the guard of the pages | REST, Socket.IO |
| Client screens: `client/src/components/pages/*`, `hooks/*`, React Query | the query cache of the tab, the page and panels shown, pagers and delayed searches | mount queries, submit changes, invalidate queries, live updates, polling, export | REST, Socket.IO |
| Client map: `client/src/components/map/LiveMap.tsx` | a cache of routes, the set of pending keys, one abort controller per hook | render, fetch, abort | the server's map route |

How they interact. A client logs in and holds an access token (a JWT that names
account, session and token version) and a refresh cookie. The guard admits a
request when the account is active, the token version is the account's and the
session is in `user_sessions`. Any revocation deletes the session's keys, takes it
out of the index and publishes `auth.session_revoked`; the gateway, which checked
the index once when the socket connected, disconnects its sockets. A change of a
shipment is written to PostgreSQL, then published; the gateway fans it out to the
sockets that may see it, and the alert consumer turns some of them into alerts,
which are published again for the gateway. In the browser an update that arrives on
the socket, and the answer to a change of the tab itself, mark cached queries as
old; what is on the screen is then asked again.

### Which behaviours are hard, and what makes each component correct

* **Sessions.** Four Redis keys and three columns describe one session, and
  no handler changes them together. Correct means: a revoked session never comes
  back, whatever a refresh in flight writes; a refused access token stays refused;
  a consumed refresh token is dead; nobody's handler acts on somebody else's
  session; what a client holds can be listed and revoked; a revocation that starts
  finishes; a bulk revocation removes exactly the sessions it saw but the current
  one.
* **Gateway.** The session is checked before `client.data.user` is set, with
  an `await` between; a revocation handled in that window finds no socket to close.
  Correct means: a socket of a revoked session does not stay, a socket receives only
  what its user may see.
* **Shipments.** Every operation reads the row, checks permission and status,
  and later writes by id with no condition. Correct means: the status only moves
  along the transition table, a shipment is driven by one driver who has no other
  active one, a terminal shipment does not move, the event log agrees with the row.
* **Alerts.** Duplicates are prevented by a look-up before an insert, in a
  consumer that handles several messages at once, and a publication can fail after
  the insert. Correct means: one open alert per shipment and condition, everybody
  concerned is told, a shipment that is late is reported in the end.
* **Tenancy and administration.** Check-then-act on invitations, on the last
  administrator, and on the two halves (role, organization) of one row. Correct
  means: members were invited, an organization keeps an administrator, a role fits
  the type of its organization.
* **Routes and checkpoints.** Uniqueness of a checkpoint on a route, and
  deactivation or removal after a count of what depends on the row.
* **Map, audit, e-mail, reports.** A cache that keeps its budget under concurrent
  calls; every call ends; background work is lost only by a failure.
* **Client session.** Three refreshers, one cookie that the server rotates and
  whose second use it takes for theft; logging out cancels nothing.
* **Client screens and map.** Which answer makes which cached rows old is spread
  over thirty call sites; loads, invalidations, aborts and re-renders cross; a list
  shrinks under its pager; a log grows while it is exported.

`PROJECT.json` lists every hazard at its line, with the properties that cover it, or
a note that says why none does.

## 2. Modules

| Module | Models |
|---|---|
| `SessionLife` | what the rest of the system may assume of sessions: opened once, ended once, announced only after the end |
| `AuthSessions` | the sessions component, one action per awaited command |
| `AuthSessionsInv`, `MCAuthSessions` | its inductive invariants; symmetry for TLC |
| `AuthSessionsProofs` | type correctness, safety properties and the refinement of `SessionLife`, proved |
| `ShipmentLife` | what the rest of the system may assume of the status of a shipment: decided at one stage, made at a later one, recorded as it is made and announced only then; a shipment is removed only by a decision taken while it was a draft |
| `Shipments` | the shipments component and what the administration does to a shipment, one action per awaited statement |
| `ShipmentsInv`, `MCShipments` | its inductive invariants; users, organizations and symmetry for TLC |
| `ShipmentsProofs` | type correctness, the inductive invariant, the properties and the refinement of `ShipmentLife`, proved |
| `Gateway` | the WebSocket gateway over `SessionLife`: admission, forced logout, fan-out |
| `MCGateway`, `GatewayProofs` | users, organizations and sessions for TLC; type correctness and safety, proved |
| `Domain` | the identifiers the back office modules share |
| `Alerts` | alert consumer, ETA scanner, and the status updates that feed them |
| `Tenancy` | organizations, members, invitations, and the administration of users |
| `Network` | routes, checkpoints and the positions between them |
| `BackOfficeProofs` | the three modules above, proved |
| `MapCache` | the server's road router: cache, attempts, refusals |
| `Pipelines` | audit rows, e-mails and reports after the answer to the request |
| `BackgroundProofs` | the two modules above, proved, alone and in `MCEventually` |
| `LiveLists` | a driver's lists: rows, requests, live updates, lost connections |
| `RoadRoutes` | the road routes of the live map: hooks, shared calls, aborts |
| `ClientSession` | the credentials of one tab and its three refreshers |
| `Screens` | every page and panel over the query cache: what it reads, changes and invalidates, for whom |
| `AuditExport` | the export of a log that grows meanwhile |
| `PagedList` | the list of alerts with its filters, delayed search and pager |
| `BrowserProofs` | `RoadRoutes`, `ClientSession` and `PagedList`, proved |
| `TabProofs` | `LiveLists`, `Screens` and `AuditExport`, proved |
| `MCRaces` | eight components side by side: what two actors at once can break |
| `RacesProofs` | the safety properties of `MCRaces`, proved of the composition |
| `MCEventually` | five components side by side: what must end |

### AuthSessions

**State.** `active`, `tokenVersion`, `password` are the columns of `user`
(`schema.prisma:41-43`; the password is the number of changes so far, all that a
comparison of hashes tells). `rt`, `family`, `consumed`, `sessions`, `pr` are the
Redis keys `rt:`, `rt_family:`, `rt_consumed:`, `user_sessions:` and `pr:`, with
`Nil` for an absent key. `cookies` and `access` are the tokens some client was
given, `revoked` the sessions published as revoked. `pc` and `loc` give each
request in flight the command it executes next and the locals of its handler.
`owner`, `lineage`, `opened`, `authPw` and `faults` are history that no action of
the code reads.

**Actions.** One action per awaited command, named after handler and command;
a handler is a path through labels:

| Handler | Path |
|---|---|
| `login` + `createTokenPair` (97, 411) | `LoginCheck` → `LoginStoreToken` (`rt:`) → `LoginStoreFamily` → `LoginIndex` (SADD) → `LoginSign` |
| `refreshToken` + `rotateToken` (140, 449) | `RefreshLookup` → `RotateReadUser` → `RotateDelete` → `RotateMarkConsumed` → `RotateStoreToken` → `RotateStoreFamily` |
| `refreshToken` + `handleReuse` (155, 500) | `RefreshLookup` → `ReuseReadMark` → `ReuseReadFamily` → `ReuseDelete` → `ReuseBump` → `ReuseUnindex` → `ReusePublish` |
| `logout` (171) | `LogoutLookup` → `LogoutDelete` → `LogoutUnindex` → `LogoutPublish` |
| `revokeSession` (351) | `RevokeEnter` → `RevokeLookup` → `RevokeDelete` → `RevokeUnindex` → `RevokePublish` |
| `revokeAllSessions` (370) | `RevokeAllEnter` → `RevokeAllSnapshot` → per session `RevokeAllPick` → (`RevokeAllDelete` → `RevokeAllUnindex` → `RevokeAllPublish`) or `RevokeAllStale` → `RevokeAllDone` → `RevokeAllBump` when there is no current session |
| `updatePassword` (552) | `PasswordEnter` → `PasswordWrite` → revocation of all but the current session |
| `forgotPassword`, `resetPassword` (594, 653) | `ForgotPassword`; `ResetLookup` → `ResetConsume` → `ResetReadUser` → `ResetWrite` → revocation of all |
| `getSessions` (300) | `ListEnter` → `ListSnapshot` → per session `ListPick` → `ListStale` → `ListDone` |
| `deactivateUser`, `activateUser` (`admin.service.ts` 220, 243) | `SetActive` |

A handler that starts behind the guard starts with `EnterGuarded`, which asks
`Admits` of the caller's access token. Two commands whose reads commute with
everything are merged into their neighbour and the comment on the action says so.
`Abort` ends a request between two commands (the process died, or a command threw);
`Expire` is the TTL of a key; both count against `MaxFaults`.

**Abstractions.** A session's `createdAt` sorts a list and is left out, as is the
last-login column. An expired JWT only refuses more, so a token in `access` never
expires. Identifiers are drawn from finite sets; a call that would need one when
none is left is not taken (`TokenLeft`, `FamilyLeft`), so runs end when identifiers
are used up, never in the middle of a handler. The number of password changes is
bounded by `MaxPassword`.

### Shipments

**State.** `status`, `shipper`, `carrierOrg`, `carrierUser` are the columns of a
`shipment` row by which the code decides; `status` is `Nil` where there is no row.
`timeline` is the set of what the `shipment_event` rows of a shipment record (type,
status, and whether an administrator wrote it), `published` the set of messages sent
to `escv.events` about it. `pc` and `loc` are the statement each request executes next
and its locals: the status, carrier and driver of the row it read. `forced` remembers,
for the properties, that an administrator has set the status; `calls` bounds the
requests. `RoleOf`, `OrgOf` and `TypeOf` are constants: roles and organizations do
not change here, and what the code reads of them commutes with every step.

| Handler | Path |
|---|---|
| `create` (47) | `CreateTx` → `CreatePublish` |
| `update` (402), as far as it names a carrier | `UpdateRead` → `UpdateWrite` |
| `assignRoute` (572) | `RouteRead` → `RouteWrite` → `RouteEvent` → `RoutePublish` |
| `updateStatus` (723) | `StatusRead` → `StatusTx` → `StatusPublish` → (`StatusAlert` for a delivery or a customs hold) |
| `accept` (1027) | `AcceptRead` → `AcceptCount` (refusals) → `AcceptWrite` → `AcceptEvent` → `AcceptPublish` |
| `remove` (1313) | `RemoveRead` → `RemoveDelete` |
| `updateShipmentStatus`, `bulkAction` (`admin.service.ts` 559, 616) | `AdminStatus`, `BulkCancel` |

`StatusRead` and its kin carry every guard of the handler up to its first write;
`StatusTx` has none, for the code has none: the transaction updates the row by its
identifier. Both branches of `accept` (the organization has the shipment already, or
it is free) are `AcceptWrite`. A request that never continues is a crash or a failed
statement: the specification assumes no fairness, so every prefix of a handler is
covered.

**Abstraction.** `ShipmentLife` keeps of all this the status (`stage`), the stages from
which changes were decided that are still to be made (`open`), and what was recorded and
told. `ImplementsShipmentLife` maps `open` to the statuses in the locals of the requests
that will write one (`Deciding`) or remove the row (`Open`), `recorded` and `told` to the changes in `timeline` and
`published`. Its `Update` follows the table from a stage the shipment *was* in; that it may
be in another one by now is the whole difference to the transition table.

Its `Remove` is the deletion of a draft, with or without its timeline, decided and made
like a change of status. That is what `server/README.md:343` offers ("Delete a **draft**
shipment"), but no draft can be deleted: `shipment_event` refers to `shipment` with
`ON DELETE RESTRICT` (`migration.sql:252`), `create` writes an event in the transaction that
makes the row, and `remove` (1327) deletes only the row. So `Shipments` never takes that
step; `DraftsAreDeleted` says that it should, and the run `shipments_remove` refutes it. A
deletion that takes the timeline along satisfies both properties. Two more differences of the same kind: the README (347) calls an update to
the same status a no-op, while the code records and publishes it once more, and an
administrator's change of status is published nowhere although
`server/README.md:37` says that all changes flow through RabbitMQ.

### Gateway

`Gateway` extends `SessionLife`, which `AuthSessions` implements, and so takes from the
sessions component only what was proved of it. `queue` holds the sessions with a message
in `ws.session-revoked`; `stage`, `session` and `last` say of each socket how far
`handleConnection` has come, whose token it presented and which event it was last sent.
`handled` and `raced` are history.

| Code | Actions |
|---|---|
| `handleConnection` (`websocket.gateway.ts:54`) | `Connect` (a verified token) → `LookUp` (`SISMEMBER`, at Redis) → `Admit` (the answer sets `client.data.user`) |
| `handleDisconnect` (106), a network failure | `Drop` |
| `handleSessionRevoked`, `emitForceLogout` (167) | `HandleSessionRevoked` |
| `handleShipmentEvent`, `emitShipmentEvent` (140), `canViewShipment` (191) | `EmitShipmentEvent`, `CanView` |

Sessions open, end and are announced as `SessionLife` allows: an end may go unannounced,
since `publishSessionRevoked` swallows a failed publication (`auth.service.ts:525`), and
its sockets then stay. The payload of a shipment event has any combination of shipper,
carrier organization and driver, for `update` may change or clear the organization of a
shipment that has a driver. `MayInspect` and `Offered` are the REST API's rules
(`shipments.service.ts` 1547 and 1381) for the same question. The list itself is more
generous to drivers than either: its bounds (1384) admit every shipment of a driver's
organization, while `enforceViewAccess` and the comment on it (1567) put those that an
org-mate drives off-limits.

Three things read in this code that the model does not contain. Nothing is ever sent to
the page rooms that `join_page` and `leave_page` maintain. The framework delivers messages
before `handleConnection` has finished, so a `join_page` that arrives before `Admit` is
answered with `auth_required` and closed (`requireUser`, 180) although its token is valid.
And the deactivation of an account by an administrator (`admin.service.ts:220`) publishes
no `auth.session_revoked`: its sockets stay open and keep receiving.

### The back office: Alerts, Tenancy, Network

The three share `Domain` and nothing else; in each, an action is one awaited statement
with the look-ups before it that only refuse the call, and a call that stops between two
statements is a call that failed there.

**Alerts.** A `Worker` is one message of `alerts_queue` in the handler (RabbitMQ hands out
several at once). `now` counts days; `phase` and `departed` are what the scan reads of a
shipment; `alerts` holds `alert` with its rows of `user_alert`; `told` the alerts whose
`alert.created` went out.

| Code | Actions |
|---|---|
| `updateStatus`, `maybePublishDelay` (`shipments.service.ts:911`, 1002) | `UpdateStatus` with `Announced` |
| `EtaScannerService` (26–106) at boot and at midnight | `StartScan` → per shipment `ScanLook` → `ScanPublish` |
| `computeEffectiveEta`, `isPastDelayGrace` (`delay-evaluator.ts`) | operators of the same names, over days |
| `handleShipmentEvents` (`alerts.consumer.ts:12`), `createAlert` (174) | `Receive` → `FindOpenAlert` → `ReadRecipients` → `StoreAlert` → `TellRecipients`, or `RefuseMessage` |
| `resolve` (128) | `resolve` |
| deactivation and deletion of users (`admin.service.ts` 220, 279) | `DisableUser`, `RemoveUser` |
| a restart of the server; a day | `Restart`, `Pass` |

**Tenancy.** `user`, `kind`, `open` and `invite` are the tables; `mailed` the links sent;
`tpc` and `tloc` the statement and locals of each request; `retyped` is history.

| Code | Path |
|---|---|
| `register` (`auth.service.ts:50`) | `Register` |
| `createInvitation` (`organizations.service.ts:33`) | `InviteRead` → `InviteCreate` → `InvitePublish` |
| `resendInvitation` (151), `cancelInvitation` (198) | `ResendRead` → `ResendWrite`; `CancelRead` → `CancelDelete` |
| `getInvitation`, `acceptInvitation` (`auth.service.ts` 255, 194) | `OpenLateLink` → `AcceptExpire`; `AcceptRead` → `AcceptTx`, or `AcceptExpire` |
| member and user activation (299, 343; `admin.service.ts` 220, 243) | `MemberRead` or `UserRead` → `MemberWrite` |
| `updateUser` (`admin.service.ts:153`) | `UpdateRead` → `UpdateCheck` → `UpdateWrite` |
| `deleteUser` (263), `bulkAction` (616) | `DeleteRead` → `DeleteCount` → `DeleteRow`; `BulkUsers` |
| organizations (355–441) | `UpdateOrganization`; `CloseOrganization` → `CloseMembers`; `ReopenOrganization` |
| an invitation grows old; a statement fails | `Lapse`; `Fail` |

**Network.** `routeOn`, `cpOn` and `stop` are the tables (`stop` by its unique key, so a
second insert at one position fails); `via`, `journey` and `passed` what shipments have of
them. History numbers (`rows`, `wakes`, `travels`) let a property say "after the count".

| Code | Path |
|---|---|
| `create`, `activate`, `remove` of a route (`routes.service.ts` 28, 169) | `CreateRoute`; `SwitchRoute` → `RouteWrite` |
| `deactivate` (223) | `DeactivateRoute` (which counts) → `RouteWrite` |
| the same of a checkpoint (`checkpoints.service.ts` 23, 146, 202) | `CreateCheckpoint`, `SwitchCheckpoint`, `DeactivateCheckpoint` → `CheckpointWrite` |
| `addCheckpoint` (267) | `AddRead` → `AddFind` → `AddCreate` |
| `removeCheckpoint` (348) | `TakeRead` → `TakeCount` → `TakeDelete` |
| `assignRoute`, `updateStatus` of shipments | `AssignRoute`, `MoveShipment` |

### Work in the background: MapCache, Pipelines

| Code | Actions |
|---|---|
| `getRoute`, `fetchWithRetry` (`map.service.ts` 41, 75) | `Miss` → (`Refusal` → `TryAgain`)* → `Answer` or the last `Refusal`; `Elapse` is the clock |
| `AuditService.log` (41), `AuditConsumer` (30) | `Submit` → `Enqueued` or `EnqueueFails` → `Handle` → `Perform` → `Acknowledge`, or `PerformFails` (refused for good) |
| the e-mail consumer (`email.consumer.ts:16`) | the same from `queued`; `PerformFails` puts the message back |
| `generateReport`, `processReportAsync` (`reports.service.ts` 44, 87) | `Submit` → `CompleteReport` or `ReportFails` |
| a restart | `RestartServer`: unacknowledged messages return to the queue, timers are lost |

### The browser: LiveLists, RoadRoutes, ClientSession, Screens, AuditExport, PagedList

Each models one tab; nothing runs between two awaits.

**LiveLists** keeps the rows of the server and the three queries of
`CarrierShipmentsPage`, each with what it shows, whether it is out of date, and the
request under way. `RowChanges` and `ServeClaim` change rows and put a message on the way
to the drivers who may see them; `Deliver` and `Reconnect` invalidate as
`LiveSocketBridge.tsx` does; `ServeList`, `ListArrives`, `ListFails`, `OpenTab`, `Accept`
and `ClaimAnswered` are the page and its hooks; `Disconnect` loses what is told meanwhile.

**RoadRoutes** has one entry per call of `useOsrmRoute` (`LiveMap.tsx:264`) in the tree:
what it wants, what it last returned, and its call. `Look` and `RenderMap` are a render
with the commit after it: `Render` applies the cleanups of the hooks whose dependencies
changed, then `Effects`: one call for each leg that is neither cached nor pending, made by the
hook that comes first to it. `RouteAnswers`, `RouteFails` and `RejectAborted` are the ends of a call.

**ClientSession** has the store (`token`, `signedIn`), the cookie (`jar`), what each
refresher waits for, the requests of the pages, the socket, and of the server the refresh
token that is live. The three refreshers:

| Code | Path |
|---|---|
| response interceptor (`client.ts:47`) | `ReceiveCall` or `Unauthorized` (owner, or queued behind one) → `Serve` → `HttpRefreshed`, which sends the owner and the queued again, or `HttpRefused`, which signs out |
| `tryRefreshToken` (`socket.ts:13`) | `SocketAuthRequired` or `SocketConnectError` → `Serve` → `SocketRefreshed` or `SocketRefused` |
| `ProtectedRoute.tsx` (59–137) | `GuardRefresh` → `Serve` → `GuardRefreshed`, `GuardUnauthorized` (the interceptor refreshes in turn) or `GuardFailed`; its `GET /me` is a `SendCall` whose network failure is `LoseMe` |

`Login`; `Logout` → `ServeLogout` → `LeaveStore`; `ForceLogout`; `ReloadTab`, which leaves
the refreshes under way behind (`orphans`, answered to nobody by `ServeOrphan`);
`Expire` and `Revoke` at the server; `LoseAnswer` on the way. `Verdict`, `Rotates` and
`Reuses` are what `AuthSessions` makes of a refresh, reduced to one session.

**Screens** is tables and few actions. `ReadBy` says what the server's list methods read,
`EffectOf` what each change writes and which families its answer invalidates (the thirty
`onSuccess` handlers), the `Controllers` which roles the server admits, the
operators named after pages and dialogs which queries they mount and which changes they
offer, `PagesOf` and `PanelsOf` which role gets where. An entry of `queryCache` has the set
of changes it is `behind`: a change puts there the entries that read what it writes, among
those whose rows its sender may change (`Reaches`). `SignIn`, `OpenPage`, `OpenPanel`, `SignOut` and `LoadAnew` mount and
drop screens; `SubmitChange` and `AnswerChange` are the two halves of a change (what is submitted
on a page; signing in and out is not);
`HearLive`, `PollQueries` and `GrowOld` happen by themselves.

**AuditExport**: `StartExport`, then per batch `CountAuditRows` and `FetchAuditRows` in
either order (`Promise.all`) and `CollectBatch`, or `ExportFails`, while `InsertAuditRow`
adds rows whose time is their publisher's.

**PagedList**: `AnswerList` is the server's page; `ClampPage` the effect of `Pagination.tsx`,
which exists only while the pager is drawn (`PagerDrawn`); `DebounceFires` the delayed search;
`GoToPage`, `SetRead`, `TypeSearch`, `ClearFilters`, `MarkOne`, `MarkAll` the person;
`MarkAnswered` and `NoticeComes` invalidate. `kept` holds the answers of pages and filters visited
before, which are shown again at once (`Rekey`) and reloaded if they were invalidated meanwhile.
Left out: that a kept answer is reloaded after five minutes and dropped after ten, and that an
answer under way when its page is left may still arrive.

### What reading the code for these modules showed

The model contains each of these, and the properties name those that concern them as the
exceptions they are.

* *Screens*: the cache is not cleared at logout and its keys name no account, so the next
  account in a tab sees the rows of the last one for up to five minutes.
  `InviteMemberModal.tsx` invalidates `['org-invitations', orgId]` while `InvitationsPage.tsx`
  reads `'org-invitations-all'` and `'org-invitations-count'`. `LiveSocketBridge.tsx`
  invalidates `['dashboard']`; the dashboards read `['dashboard-stats']`. Nobody invalidates
  `'admin-organizations-active'` or `'routes-picker'`. Deactivating an organization
  deactivates its users, but `'admin-users'` stays. A password change (`ProfilePage.tsx:60`)
  ends all other sessions of the account, and the list of sessions on the same page goes on
  showing them. `NeverTold` is the full list for the changes submitted in the tab.
* *LiveLists*: a shipment another driver claims stays in the list of the available ones,
  whose readers the gateway does not tell; an invalidation during the first load of a list is
  lost; `hasActiveShipment` looks only at the page of the list that is loaded.
* *RoadRoutes*: a comment says that two hooks that want one leg share one call, and they do;
  but the second is never told that the answer came, and shows "loading" until it renders
  for another reason. `CheckpointMarker` passes a new object at each render, so every
  re-render aborts its call.
* *ClientSession*: on the load of a page with an expired token the socket, the guard and the
  poll all refresh with one cookie, which the server may take for theft and then ends the
  session. Any failed refresh signs out, also a 429 or a lost answer. Logging out cancels
  neither requests nor refreshes: one that ends afterwards writes a token back.
* *PagedList*: the effect that delays the search also runs when the page opens and when the
  filters are cleared, and throws the person back to page 1 after 350 ms. The comment of
  `Pagination.tsx` ("Keep the page in range if the dataset shrank") holds only while two pages
  are left; with one, the pager is not drawn and an empty page stays.
* *AuditExport*: batches are pages by offset of a log that grows, so rows are read twice and,
  with one inserted between the count and the page of the last request, missed.
* *Alerts*: the comment of `createAlert` (`alerts.service.ts:198`) says "never create a second
  open alert for the same shipment + condition". The look-up (202) and the insertion (282) are
  separate and the consumer has several messages in work, so two open alerts are possible;
  `OneOpenAlertPerWorker` says how many at most, and when.
* *Tenancy*: `bulkAction` deletes users without the checks of `deleteUser` (the last
  administrator, one's own account); a demotion is not checked at all.
* *Pipelines*: the comment in `audit.consumer.ts` (54) says "Dead-letter the message so we don't
  lose the audit log"; no dead-letter exchange is declared, so a refused message is dropped.

## 3. What is checked

| Run | Question | Bounds |
|---|---|---|
| `sessions_rotation` | Do Redis, clients and locals agree on each session, and does a session live as `SessionLife` says, under logins, refreshes, reuse, logouts, revocations, listings and one fault? Does a bulk revocation remove exactly what it saw, and does a refused access token stay refused? | 2 accounts, 2 sessions, 3 tokens, 2 requests, 1 fault |
| `sessions_liveness` | Does a revocation that deleted the family also empty the index, whoever began it: logout, revocation of one or of all sessions, password change, reset, (de)activation? | 1 account, 1 session, 2 tokens, 2 requests, 1 password change, no fault |
| `sessions_reuse` (violation) | Has a session one live refresh token at most? | 1 account, 1 session, 3 tokens, 2 requests |
| `sessions_reset` (violation) | Does a password reset leave no session of the old password? | as above, 1 password change |
| `sessions_replay` (violation) | Does a reset link work once? | as above, 2 password changes |
| `shipments_lifecycle` | Which facts survive writes decided from stale rows, which break only in a race, and does a status live as `ShipmentLife` says? | 1 shipment, a shipper's administrator and 2 drivers of one carrier, 2 requests, 6 calls, 6 statuses asked for |
| `shipments_terminal` (violation) | Is `delivered` terminal? | as above, 8 calls |
| `shipments_active` (violation) | Has a driver one active shipment at most? | 2 shipments, 6 calls |
| `shipments_remove` (violation) | Does the deletion of a draft delete it? | 1 shipment, 3 calls: creation, change of status, deletion |
| `gateway_sockets` | Which sockets outlive their session, is every waiting announcement carried out, and is a socket shown only what the API shows? | 2 sockets, 3 sessions of a driver, his manager and a shipper, 3 organizations, every payload |
| `races` | In eight components, how far do the code's own checks go, and is it only a race that gets past them? | below |
| `eventually` | In five components, what ends, and what is lost only to a failure? | below |

Why these bounds. Two requests are enough for every race here: each property
relates one request's stale locals to what one other request did. Two accounts are
there for "somebody else's session", two sessions so that a bulk revocation has a
current session, one to remove, and one that appears after its snapshot; three
tokens let a session rotate twice or two sessions coexist with one rotation. A password
change and a reset end in the loop of a bulk revocation, after their password write: over two
sessions TLC runs that loop as a bulk revocation (`sessions_rotation`), the other two over one
session (`sessions_liveness`), and the proofs cover all three over any number. The
proofs (below) lift the safety properties to every number of each.

For shipments, two drivers of one organization are what a displaced driver needs, one
shipment is enough for every property of the passing run since each speaks of one, and
six calls reach an administrator's delivery and restoration, or the first five
statuses on the way of a shipment with a claim in between; the statuses left out
(`at_checkpoint`, customs, `delayed`) are covered by the proofs, which hold for the
whole table and for any number of calls. No deadlock is looked for here: clients
may stop calling, and a request in flight always has a next statement.

For the gateway, one socket of a session can race while another is connected; the three
accounts have the three roles whose rules differ most, and the proof covers all roles.

Accounts, sessions, tokens, requests and reset keys are interchangeable in the
safety runs of sessions (`Symmetry`), which no property with a temporal liveness
operator uses. Deadlock: a request in flight can always take its next command, and
`Abort`, `SetActive` or a listing remain possible when identifiers are used up, so the
runs of sessions check for it; so does the gateway's, where clients may always connect
again.

### The runs `races` and `eventually`

The components of these runs share no variable. Their product would multiply state spaces
that have nothing to say to each other, so `focus`, chosen at the start, names the one that
moves, and each property is checked over the behaviours of its own module. The runs stop when
the bounds are used up, which is not a deadlock of the system.

| In `races` | Bounds and what they let happen | Properties |
|---|---|---|
| Alerts | 1 shipment, 2 workers, both scans, 1 day, 1 status update, 1 resolve, 1 user that leaves, 1 fault: two messages of one condition in work while it is resolved or refused | `OneOpenAlertPerWorker`, `StoredIsTold` |
| Tenancy | 3 persons, 2 organizations, 1 invitation with its tokens, 2 requests, 3 calls: an invitation, its late acceptance and its second sending; two deletions, or two updates of one person, that overlap | `MisfitNeedsARace`, `OrphansNeedARace`, `ExpiryHitsOnlyLateLinks`, `MembersWereInvited` |
| Network | 1 route, 1 checkpoint, 2 positions, 5 edits, 3 steps of a shipment: a checkpoint stands on a route, is passed, and is removed or added again meanwhile | `TwiceOnlyByOverlap`, `PassedStopsStay`, `UsedStaysOn` |
| LiveLists | 1 shipment, 3 lists, 2 changes by others, 2 clicks, 1 lost connection or request | `QuietListsAreCurrent` |
| RoadRoutes | 4 hooks of 3 views, 3 legs, a cache of 2, 3 renders from above: two hooks of one view and one of another want the same leg, one of them changes it at every render | `OneCallPerLeg`, `LoadingHasACall` |
| ClientSession | 1 request, 1 refresh of the socket beside those of the interceptor and the guard, 2 tokens, 1 login, 1 trouble (a reload, or a lost answer): any two of the three refreshers cross, and the guard queues behind the request or the request behind the guard | `ReuseNeedsCrossing`, `NoOrphanToken`, `QueuedHaveARefresh` |
| Screens | 6 accounts, one of each role and each kind of administrator, 3 visits (sign-in, page, then a panel, another page, or the next account), 1 change | `DoneIsShown`, `ScreensAreServed` |
| AuditExport | batches of 1 row, at most 4 rows at 3 times, a cap of 5 | `ExportMissesOnlyByRace` |

Type invariants are proved (section 4), for the composition as `RacesTypeOK`.

| In `eventually` | Bounds | Properties |
|---|---|---|
| Alerts | as above with 1 worker | `LateIsReported` |
| MapCache | 3 pairs for 2 entries, 3 attempts, 4 look-ups by 2 requests | `CacheWithinBudget`, `EveryCallEnds` |
| Pipelines | one job of each kind, 2 failures or restarts | `DroppedOnlyByMishap`, `BackgroundWorkEnds` |
| ClientSession | as above without trouble | `DeadSessionSignsOut` |
| PagedList | 2 alerts which match the search and a third that may come, 1 per page, 3 inputs: a filter, a page and a mark, which take the list past its end and back to a page visited before | `StrandedPasses` |

**Fairness.** `FairSpec` of sessions assumes weak fairness of `Continue(r)` for each
request: the event loop resumes a handler whose awaited command has been answered.
Nothing is assumed of clients, of administrators or of faults. `sessions_liveness` sets
`MaxFaults` to 0: with a request that dies between `DEL` and `SREM` the property is
false, and the code has no other mechanism that would finish the revocation (only a
later listing or bulk revocation does). For the gateway, weak fairness of
`HandleSessionRevoked(f)`: RabbitMQ delivers what is queued, and the handler cannot fail.

In `eventually` (`MCFairness` is the conjunction of the modules' own fairness, each limited
to the behaviours in which its component moves):

* Alerts: the cron job fires (`WF` of `StartScan`), a scan and a handler run to their
  ends (`WF`); strong fairness of `Receive` for each kind of message, since a worker that
  is free again and again may be given other messages, and the broker keeps none for ever.
  Nothing is assumed of status updates, of people or of days.
* MapCache: an attempt is ended by the answer or by its abort timer, the delay by its timer.
* Pipelines: the broker delivers, handlers end, timers fire. A failure may take the turn
  of each, as often as `MaxMishaps` allows.
* ClientSession: the layout asks every 15 s for as long as somebody is signed in, and its
  request and the refresh it leads to end one way or another. Without trouble there is one
  request, so nothing waits in the queue of the interceptor: that is the subject of
  `QueuedHaveARefresh` in `races`. Nothing is assumed of the
  socket: the session's end is noticed without it.
* PagedList: the server answers, effects run, timers fire. Nothing is assumed of the person.

**What the violations show.** `sessions_reuse`: the look-up of `rt:<token>`
(`auth.service.ts:151`) and its deletion (460) are separate commands; two refreshes
with one cookie both succeed. `sessions_reset`: a login that compared the old
password (112) before the reset wrote the new one (680) can add its session after the
reset read the index (374) and sign with the final token version. `sessions_replay`:
the reset key is read (655) and deleted (667) separately, and the number of deleted
keys is ignored. `shipments_terminal`: a cancellation that read `out_for_delivery` is
written (819) after another update delivered the shipment. `shipments_active`: two
claims of one driver both count his active shipments (1082) before either is written
(1207). `shipments_remove`: the delete (1327) is refused for the event `create` wrote, so the
draft stays.

## 4. What is proved

Fifty-three theorems, for every value of the constants that satisfies the named assumptions of
each module: they say what kind of value a constant is, that some sets are finite, and that `Nil`
is none of the values it stands beside (`ListsAssumption`: no list of rows). Every safety property
of every passing run is among them.

**Sessions** (`AuthSessionsProofs`), from `NilAssumption` and
`BoundsAssumption`:

* `TypeCorrect`: `Spec => []TypeOK`.
* `SessionsConsistent`: `Spec => [](TypeInv /\ SessionInv)`, the inductive invariant.
* `ConsumedStaysDead`, `SessionsKeepTheirAccount`, `HeldSessionsAreRevocable`,
  `RevokeAllRemovesItsSnapshot`, `RejectedForEver`: the safety properties of the runs.
* `SessionsImplementTheirLife`: `Spec => Life!LifeSpec`, the refinement.

The properties speak of Redis and of clients, but are kept only because each handler's
locals agree with Redis at each of its labels; that agreement
is `LocalOK` (`AuthSessionsInv`). `LocalsSet` says which locals each label needs set,
and makes the types inductive. `StoreOK` relates the keys to the history. Two facts
carry most of the proof. First, ownership and lineage are written once
(`owner`, `lineage` only grow), so what a request learnt of a token's session stays
true at its later awaits, whatever the others do. Second, the index shrinks for every
session ever opened: the only SADD is `LoginIndex`, and a session being created is not
yet opened and not created by another request (`CreatesDistinct`). So "revoked" is
stable, which gives the refinement and `RejectionIsFinal`. Each action has a lemma of
its own; `StepKeeps` says what every action does to the locals of the other requests,
once, through the relation `Grows`.

**Shipments** (`ShipmentsProofs`), from `TypeAssumption` only:
`TypeCorrect`; `ShipmentsConsistent`, the inductive invariant; `MilestonesRecorded`,
`CommittedFirst`, the invariants of the run; `TableFollowed`, `DriversStay`, its action
properties; `ShipmentsImplementTheirLife`, the refinement; and `CarriersOnly`, that a driver
belongs to a carrier, which no run repeats.

A request decides from a row that may be gone when it writes, so the
invariant cannot say that what it read is still there. It says what outlives the row:
the timeline only grows, so if the table allowed the new status from the one read, then
the timeline, which had recorded the milestones of that one, still has them
(`Past`, `RequestOK`). `TablePassesMilestones` is the fact about the transition table
this needs, one case per status. The shipper of a row and the type of an organization
never change, so an update's check against the shipper and a claim's check of the
carrier type hold at the write. The two properties about races say exactly how far the
code's own checks go: with no request holding a stale row, each step follows the table
and keeps the driver. `Grows` and `RequestKept` state once what every step leaves valid
of the other requests.

For the refinement, `Opened`, `RecordedIn` and `ToldIn` are the three mapped variables.
`OpenedGains`, `OpenedCloses` and `OpenedStays` say what one request does to the set of open
decisions (a decision that is done with stays open if another request took the same one),
`ChangesAreRecorded`, `NotesRecordNoChange` and their like what an event and a message do to
the other two; each statement then has a lemma that names its abstract step, or none. The
statement that should delete a draft only takes its decision back, because a row always has an
event (`RowOK`, `RemoveDeleteLives`).

**Gateway** (`GatewayProofs`), for any number of sessions and sockets and any roles:
`TypeCorrect`, `OnlyRacesOutlive` and `FanOutIsPermitted`. The invariant `LogoutInv` adds
to the property that what is queued or was handled has ended, which `SessionLife` makes
permanent, so that no look-up can succeed any more, and that a socket still being admitted
counts as raced. For the fan-out, `ViewersMayInspect` compares the two rules case by case,
and `ShownInv` carries it over to sockets: only a connected one holds an event.

**Back office** (`BackOfficeProofs`): types of `Network`, `Tenancy` and `Alerts`, each with the
locals its labels need, and

* Network: `TwiceNeedsOverlap`, `PassedCheckpointsStay`, `WhatIsUsedStaysOn`. The argument is
  about the numbers a request remembers: a count that says "none" is right for as long as
  the number it was made at is the present one (`NetworkInv`), and every row has a number no
  later row has.
* Tenancy: `OnlyTheInvitedJoin`, `OnlyLateLinksExpire`, `OrphansComeFromRaces`,
  `MisfitsComeFromRaces`. Rows of `invitation` are never readdressed and their tokens only grow
  (`InvitesEvolve`); organizations stay and are marked when their type changes
  (`OrgsEvolve`); so what a request matched, counted or checked is still true of the row it
  writes, or the property's exception applies (`CallsHold`).
* Alerts: `OneWorkerOneOpenAlert`, `WhatIsStoredIsTold`. Alerts are only appended and never
  reopened, so "none was open among the first `asOf`" stays true while a worker reads on.

**Background** (`BackgroundProofs`): types of `MapCache` and `Pipelines`, `CacheIsBounded` (an
eviction before each insertion frees a place, and the key inserted is in the cache once) and
`NothingLostWithoutMishap` (a number of mishaps bounds the effects of each job).

**Browser** (`BrowserProofs`): types of `RoadRoutes`, `ClientSession` and `PagedList`, and

* `LegsShareCalls`, `WhoLoadsWaitsForACall`. The effects of a commit run one after another, but
  all that matters of their order is which hook comes first to a leg: `Effects` picks one per
  leg that is neither cached nor pending. `EffectsPerHook` and `EffectsShareCalls` say what that
  leaves to each hook, and that what is pending is exactly the keys of calls that no two hooks
  share. `RoadInv` joins the types, this and `LoadingInv`; `RenderKeeps` carries it over a
  render of any set of views.
* `TokensAreOwned` from `TokenInv`: with nobody signed in and nothing cleared under way there
  is no token, no request and no socket.
* `NobodyIsLeftInTheQueue`: the property is inductive as it stands. Whoever is refused begins a
  refresh if none is under way (`OneBegins`) or joins its queue (`OthersQueue`); its end sends
  everybody again or takes the page down (`NobodyWaits`).
* `ReuseComesFromCrossing` from `RefreshInv`: as long as refreshes did not cross and no answer was
  lost, at most one is in flight, its cookie is not an old one, and an answer on its way
  carries the token that is live; so the server never sees a token twice.

**Tab** (`TabProofs`): types of `LiveLists`, `Screens` and `AuditExport`, and

* `QuietScreensAreCurrent` from `ListsInv`. Each shipment of each list is followed alone
  (`Holds`): its load is still to be served, or the answer on its way is what the server has,
  or the rows on the screen are, or the list is off the screen and will load when it is
  shown. That holds of every shipment the driver is told of and every list that lost no load,
  from the moment no invalidation is outstanding (`RefreshDue`: a message under way, the socket
  down, a claim answered but not handled). `InvalidatingRefreshes` is the step that restores it.
* `DoneIsAlwaysShown` from `ScreensInv`. An entry of the cache that is behind a change has an
  excuse (`Excused`): its family is never told (`NeverTold`), it is invalidated already, the
  answer that will invalidate it is awaited, or it loads anew before it is seen. The proof needs
  the tables in one place only, `Readers` and `AnswersReach`: whoever reads what a change writes is
  among the families its answer makes stale, or among those it never tells. `SubmitIsExcused`
  then shows why an answer reaches the right rows although it invalidates those of its sender's
  organization only: what is kept by organization is made stale only by changes that are
  offered to an organization's own administrator, who can change no other's rows. `Reaches`
  (`ensureOrgAdminOrSuperAdmin`, `organizations.service.ts:383`) is needed for that: without
  it an entry of another organization would be put behind a change that cannot touch its
  rows, and the property would hold only within the three visits of the run.
* `ScreensAreAlwaysServed`: `PagesLed`, `PanelsLed` and `AskedByRole` go through the pages of each
  role once, and what is mounted is always a page the role is led to (`LedThere`).
* `ExportsMissOnlyByRace` from `ExportInv`. A row that is alone in its time has a place in the
  log, one past the number of newer rows (`PlaceInLog`, from `ReadInOrder`, which counts
  positions in whatever order the rows are sorted). Insertions only move it down
  (`InsertingMovesDown`), so a row found at the start that was not collected is past the batches
  collected (`RowsAhead`), and a count taken with the last batch, without an insertion between
  the two, is too large for that batch to be the last.

**Composition** (`RacesProofs`). `RacesCompose`: a behaviour of `MCSpec` is one of each of its eight
components, since each step is a step of one and leaves the others' variables alone. So
`RacesTypeCorrect` and `RacesAreSafe` hold of the specification that the run `races` checks, the
latter for all its properties. They use the components without their fairness (`AlertsSteps`, `ClientSteps`),
which no safety proof needs. `BackgroundIsSafe` does the same for the two safety properties of
`eventually`.

**Only model-checked.** Liveness, which is out of the prover's reach: `RevocationCompletes`,
`ForcedLogoutArrives`, `LateIsReported`, `EveryCallEnds`, `BackgroundWorkEnds`,
`DeadSessionSignsOut`, `StrandedPasses`. The six violated properties are refuted by TLC.

## 5. Plan

All items of the plan are done: `AuthSessions` and `SessionLife`; `Shipments` and `ShipmentLife`; `Gateway`;
`Alerts`; `Tenancy`; `Network` and `MapCache`; `Pipelines`; the client's session, lists, routes,
screens, export and pager. What a next step would take, in this order: roles and activation
that change under the sockets of `Gateway` (the code promises nothing there, see section 6);
the page of one shipment, which keeps its rows outside the query cache; an abstraction of
`Alerts` for the bell and the list (an alert is raised once, told after it, resolved once).

## 6. What is not modelled, and why

* The services outside the code (PostgreSQL, Redis, RabbitMQ, SMTP, OSRM), of which only what
  the code relies on appears; health checks, configuration and start-up, the helpers of the
  request pipeline, deployment: no state of their own, or none that changes.
* The figures of the dashboards: read-only sums; `Screens` has which columns they read.
* In sessions: the expiry of a JWT, `createdAt`, the last-login column, and the user rows
  that registration and an accepted invitation create before `createTokenPair`
  (`Tenancy` has those rows).
* In the gateway: the rooms, `alert:new` (whose recipients the alert names), and several
  server processes, of which each would need its own queue of announcements while the code
  declares one. A socket keeps the role and organization of its token when the account
  changes: no line of the code promises otherwise, so there is nothing to check.
* In shipments: descriptions, weights, positions, dates and references; the deletion of a
  user, which empties `carrier_user_id` through its foreign key; changes of role or
  organization; pagination, search, validation of request bodies.
* In the back office: names, cities, coordinates, telephones, texts and severities; the
  lists, which only read.
* In the browser: the page of one shipment, which fetches on its own and follows no live
  update; the filters and details of the audit page beyond its export; static and public
  pages, forms, layout and drawing. A query of `Screens` is answered in one step (loads that
  take time are those of `LiveLists` and `PagedList`), and rows of the audit log are not among
  the aspects a change writes there.
