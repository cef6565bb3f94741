------------------------------ MODULE Tenancy ------------------------------
(***************************************************************************)
(* Organizations, their members and their invitations:                     *)
(* organizations/organizations.service.ts, the registration and the        *)
(* acceptance of invitations in auth/auth.service.ts, and what the         *)
(* administration does to users and organizations (admin/admin.service.ts).*)
(*                                                                         *)
(* Every handler checks what it reads and writes by identifier some awaits *)
(* later; no statement is conditional on what was read.  One action is one *)
(* awaited statement or transaction, with the reads that only refuse the   *)
(* call in the action before.                                              *)
(*                                                                         *)
(* Left out: names, telephones and passwords; the tokens issued to a new   *)
(* member, which are those of AuthSessions; audit messages.                *)
(***************************************************************************)
EXTENDS Domain, Naturals, FiniteSets

CONSTANTS
    Org,
    Invite,
    Root,           \* the super administrator who uses the administration panel
    Founder,        \* the administrator of the one organization there is at first
    HomeOrg,        \* that organization, which is also Root's
    MaxTenantCalls  \* bound: calls

ASSUME TenancyAssumption ==
    /\ Root \in Person /\ Founder \in Person \ {Root}
    /\ HomeOrg \in Org /\ MaxTenantCalls \in Nat
    /\ Nil \notin Person \cup Org \cup Invite

OrgType == {"shipper", "carrier"}
Role    == OrgType \cup {"admin", "super_admin"}
Link    == Invite \X Nat                    \* an invitation and one of its tokens

VARIABLES
    user,       \* table user
    kind,       \* organization_type of each organization, Nil when there is none
    open,       \* organization_is_active
    invite,     \* table invitation
    mailed,     \* links sent by invitation.created
    tpc,        \* the statement each request executes next
    tloc,       \* the locals of its handler
    retyped,    \* history: organizations whose type was changed
    tcalls      \* history: calls so far

tables      == <<user, kind, open, invite>>
tenancyVars == <<tables, mailed, tpc, tloc, retyped, tcalls>>

UserRow   == [role : Role, org : Org, active : BOOLEAN]
InviteRow == [org : Org, email : Person, role : Role \ {"super_admin"}, by : Person,
              token : Nat, late : BOOLEAN,            \* expires_at has passed
              status : {"pending", "accepted", "expired", "deleted"}]

ASSUME TenancyRowAssumption == Nil \notin UserRow /\ Nil \notin InviteRow /\ Nil \notin Role

TenantLabel ==
    {"idle", "inviteCreate", "invitePublish", "resendWrite", "cancelDelete", "memberWrite",
     "acceptExpire", "acceptTx", "updateCheck", "updateWrite", "deleteCount", "deleteRow",
     "closeMembers"}

TenantLocals ==
    [who : Person \cup {Nil}, role : Role \cup {Nil}, org : Org \cup {Nil},
     seenRole : Role \cup {Nil}, seenOrg : Org \cup {Nil},       \* the row read
     by : Person \cup {Nil}, inv : Invite \cup {Nil}, token : Nat, enable : BOOLEAN,
     counted : SUBSET Person]                                    \* the administrators counted

NoTenant == [who |-> Nil, role |-> Nil, org |-> Nil, seenRole |-> Nil, seenOrg |-> Nil,
             by |-> Nil, inv |-> Nil, token |-> 0, enable |-> FALSE, counted |-> {}]

TenancyTypeOK ==
    /\ user \in [Person -> UserRow \cup {Nil}]
    /\ kind \in [Org -> OrgType \cup {Nil}] /\ open \in [Org -> BOOLEAN]
    /\ invite \in [Invite -> InviteRow \cup {Nil}] /\ mailed \subseteq Link
    /\ tpc \in [Request -> TenantLabel] /\ tloc \in [Request -> TenantLocals]
    /\ retyped \subseteq Org /\ tcalls \in Nat

\* One organization, with its founder and perhaps an invitation he has sent.
TenancyInit ==
    /\ user = [p \in Person |->
                 CASE p = Root    -> [role |-> "super_admin", org |-> HomeOrg, active |-> TRUE]
                   [] p = Founder -> [role |-> "admin", org |-> HomeOrg, active |-> TRUE]
                   [] OTHER       -> Nil]
    /\ kind = [o \in Org |-> IF o = HomeOrg THEN "shipper" ELSE Nil]
    /\ open = [o \in Org |-> TRUE]
    /\ \/ invite = [i \in Invite |-> Nil] /\ mailed = {}
       \/ \E i \in Invite, p \in Person \ {Root, Founder}, role \in {"admin", "shipper"} :
            /\ invite = [j \in Invite |->
                           IF j # i THEN Nil
                           ELSE [org |-> HomeOrg, email |-> p, role |-> role, by |-> Founder,
                                 token |-> 1, late |-> FALSE, status |-> "pending"]]
            /\ mailed = {<<i, 1>>}
    /\ tpc = [r \in Request |-> "idle"]
    /\ tloc = [r \in Request |-> NoTenant]
    /\ retyped = {} /\ tcalls = 0

-----------------------------------------------------------------------------
(* Control *)

Count == tcalls < MaxTenantCalls /\ tcalls' = tcalls + 1

Begin(r, next, l) ==
    /\ tpc[r] = "idle" /\ Count
    /\ tpc' = [tpc EXCEPT ![r] = next] /\ tloc' = [tloc EXCEPT ![r] = l]
    /\ UNCHANGED retyped

Proceed(r, at, next) ==
    /\ tpc[r] = at
    /\ tpc' = [tpc EXCEPT ![r] = next]
    /\ UNCHANGED <<tloc, retyped, tcalls>>

Finish(r, at) ==
    /\ tpc[r] = at
    /\ tpc' = [tpc EXCEPT ![r] = "idle"] /\ tloc' = [tloc EXCEPT ![r] = NoTenant]
    /\ UNCHANGED <<retyped, tcalls>>

Admitted(p) == user[p] # Nil /\ user[p].active

ensureOrgAdminOrSuperAdmin(p, o) ==
    /\ Admitted(p)
    /\ user[p].role = "super_admin" \/ (user[p].role = "admin" /\ user[p].org = o)

Fits(role, o) == role \in {"admin", "super_admin", kind[o]}

Exists(i) == invite[i] # Nil /\ invite[i].status # "deleted"

-----------------------------------------------------------------------------
(* Registration and invitations *)

\* The unique e-mail addresses make the two look-ups and the nested insert one step.
Register(r, p, o, k) ==
    /\ tpc[r] = "idle" /\ Count
    /\ user[p] = Nil /\ kind[o] = Nil
    /\ user' = [user EXCEPT ![p] = [role |-> "admin", org |-> o, active |-> TRUE]]
    /\ kind' = [kind EXCEPT ![o] = k]
    /\ UNCHANGED <<open, invite, mailed, tpc, tloc, retyped>>

InviteRead(r, by, o, p, role) ==
    /\ ensureOrgAdminOrSuperAdmin(by, o)
    /\ user[p] = Nil /\ kind[o] # Nil /\ role \in {"admin", kind[o]}
    /\ Begin(r, "inviteCreate", [NoTenant EXCEPT !.by = by, !.org = o, !.who = p, !.role = role])
    /\ UNCHANGED <<tables, mailed>>

\* The insert fails when the inviter was deleted meanwhile (created_by_user_id).
InviteCreate(r, i) ==
    LET l == tloc[r] IN
    /\ tpc[r] = "inviteCreate" /\ invite[i] = Nil
    /\ UNCHANGED <<user, kind, open, mailed, retyped, tcalls>>
    /\ \/ /\ user[l.by] # Nil
          /\ invite' = [invite EXCEPT ![i] =
                [org |-> l.org, email |-> l.who, role |-> l.role, by |-> l.by,
                 token |-> 1, late |-> FALSE, status |-> "pending"]]
          /\ tpc' = [tpc EXCEPT ![r] = "invitePublish"]
          /\ tloc' = [tloc EXCEPT ![r] = [l EXCEPT !.inv = i, !.token = 1]]
       \/ user[l.by] = Nil /\ Finish(r, "inviteCreate") /\ UNCHANGED invite

InvitePublish(r) ==
    /\ mailed' = mailed \cup {<<tloc[r].inv, tloc[r].token>>}
    /\ Finish(r, "invitePublish")
    /\ UNCHANGED tables

ResendRead(r, by, i) ==
    /\ Exists(i) /\ ensureOrgAdminOrSuperAdmin(by, invite[i].org)
    /\ invite[i].status = "pending"
    /\ Begin(r, "resendWrite", [NoTenant EXCEPT !.inv = i])
    /\ UNCHANGED <<tables, mailed>>

ResendWrite(r) ==
    LET i == tloc[r].inv IN
    /\ tpc[r] = "resendWrite"
    /\ UNCHANGED <<user, kind, open, mailed, retyped, tcalls>>
    /\ \/ /\ Exists(i)
          /\ invite' = [invite EXCEPT ![i].token = @ + 1, ![i].late = FALSE]
          /\ tpc' = [tpc EXCEPT ![r] = "invitePublish"]
          /\ tloc' = [tloc EXCEPT ![r].token = invite[i].token + 1]
       \/ ~ Exists(i) /\ Finish(r, "resendWrite") /\ UNCHANGED invite

CancelRead(r, by, i) ==
    /\ Exists(i) /\ ensureOrgAdminOrSuperAdmin(by, invite[i].org)
    /\ Begin(r, "cancelDelete", [NoTenant EXCEPT !.inv = i])
    /\ UNCHANGED <<tables, mailed>>

CancelDelete(r) ==
    LET i == tloc[r].inv IN
    /\ Finish(r, "cancelDelete")
    /\ invite' = IF Exists(i) THEN [invite EXCEPT ![i].status = "deleted"] ELSE invite
    /\ UNCHANGED <<user, kind, open, mailed>>

\* Mutant: whichever link is opened, the date is not compared.
HastyOpenLateLink(r, i, t) ==
    /\ Exists(i) /\ invite[i].token = t /\ invite[i].status = "pending"
    /\ Begin(r, "acceptExpire", [NoTenant EXCEPT !.inv = i, !.token = t])
    /\ UNCHANGED <<tables, mailed>>

\* getInvitation and acceptInvitation of a link whose invitation is over
OpenLateLink(r, i, t) ==
    /\ Exists(i) /\ invite[i].token = t /\ invite[i].status = "pending" /\ invite[i].late
    /\ Begin(r, "acceptExpire", [NoTenant EXCEPT !.inv = i, !.token = t])
    /\ UNCHANGED <<tables, mailed>>

AcceptExpire(r) ==
    LET i == tloc[r].inv IN
    /\ Finish(r, "acceptExpire")
    /\ invite' = IF Exists(i) THEN [invite EXCEPT ![i].status = "expired"] ELSE invite
    /\ UNCHANGED <<user, kind, open, mailed>>

AcceptRead(r, i, t) ==
    /\ Exists(i) /\ invite[i].token = t /\ invite[i].status = "pending" /\ ~ invite[i].late
    /\ user[invite[i].email] = Nil
    /\ Begin(r, "acceptTx", [NoTenant EXCEPT !.inv = i, !.token = t, !.who = invite[i].email,
                                            !.org = invite[i].org, !.role = invite[i].role])
    /\ UNCHANGED <<tables, mailed>>

\* Mutant: the transaction tolerates an invitation that is gone.
LenientAcceptTx(r) ==
    LET l  == tloc[r]
        ok == user[l.who] = Nil
    IN  /\ Finish(r, "acceptTx")
        /\ user' = IF ok THEN [user EXCEPT ![l.who] = [role |-> l.role, org |-> l.org,
                                                       active |-> TRUE]] ELSE user
        /\ invite' = IF ok /\ Exists(l.inv) THEN [invite EXCEPT ![l.inv].status = "accepted"]
                     ELSE invite
        /\ UNCHANGED <<kind, open, mailed>>

\* The transaction rolls back when the e-mail is taken or the invitation is gone.
AcceptTx(r) ==
    LET l  == tloc[r]
        ok == user[l.who] = Nil /\ Exists(l.inv)
    IN  /\ Finish(r, "acceptTx")
        /\ user' = IF ok THEN [user EXCEPT ![l.who] = [role |-> l.role, org |-> l.org,
                                                       active |-> TRUE]] ELSE user
        /\ invite' = IF ok THEN [invite EXCEPT ![l.inv].status = "accepted"] ELSE invite
        /\ UNCHANGED <<kind, open, mailed>>

-----------------------------------------------------------------------------
(* Members *)

\* deactivateMember and activateMember
MemberRead(r, by, p, enable) ==
    /\ user[p] # Nil /\ ensureOrgAdminOrSuperAdmin(by, user[p].org)
    /\ enable \/ p # by
    /\ Begin(r, "memberWrite", [NoTenant EXCEPT !.who = p, !.enable = enable])
    /\ UNCHANGED <<tables, mailed>>

\* deactivateUser and activateUser of the administration panel
UserRead(r, p, enable) ==
    /\ Admitted(Root) /\ user[p] # Nil /\ (enable \/ p # Root)
    /\ Begin(r, "memberWrite", [NoTenant EXCEPT !.who = p, !.enable = enable])
    /\ UNCHANGED <<tables, mailed>>

MemberWrite(r) ==
    LET p == tloc[r].who IN
    /\ Finish(r, "memberWrite")
    /\ user' = IF user[p] = Nil THEN user ELSE [user EXCEPT ![p].active = tloc[r].enable]
    /\ UNCHANGED <<kind, open, invite, mailed>>

\* updateUser; a role or an organization the request does not name is Nil
UpdateRead(r, p, role, o) ==
    /\ Admitted(Root) /\ p # Root /\ user[p] # Nil
    /\ Begin(r, "updateCheck", [NoTenant EXCEPT !.who = p, !.role = role, !.org = o,
                                   !.seenRole = user[p].role, !.seenOrg = user[p].org])
    /\ UNCHANGED <<tables, mailed>>

Target(asked, seen) == IF asked # Nil THEN asked ELSE seen

\* Mutant: a role that is not changed is not compared with the new organization.
HalfUpdateCheck(r) ==
    LET l  == tloc[r]
        o  == Target(l.org, l.seenOrg)
        ok == kind[o] # Nil /\ (l.role # Nil => Fits(l.role, o))
    IN  /\ tpc[r] = "updateCheck"
        /\ UNCHANGED <<tables, mailed>>
        /\ \/ ok /\ Proceed(r, "updateCheck", "updateWrite")
           \/ ~ ok /\ Finish(r, "updateCheck")

UpdateCheck(r) ==
    LET l == tloc[r]
        o == Target(l.org, l.seenOrg)
    IN  /\ tpc[r] = "updateCheck"
        /\ UNCHANGED <<tables, mailed>>
        /\ \/ kind[o] # Nil /\ Fits(Target(l.role, l.seenRole), o)
              /\ Proceed(r, "updateCheck", "updateWrite")
           \/ ~ (kind[o] # Nil /\ Fits(Target(l.role, l.seenRole), o))
              /\ Finish(r, "updateCheck")

UpdateWrite(r) ==
    LET l == tloc[r] IN
    /\ Finish(r, "updateWrite")
    /\ user' = IF user[l.who] = Nil THEN user
               ELSE [user EXCEPT ![l.who].role = Target(l.role, @), ![l.who].org = Target(l.org, @)]
    /\ UNCHANGED <<kind, open, invite, mailed>>

DeleteRead(r, p) ==
    /\ Admitted(Root) /\ p # Root /\ user[p] # Nil
    /\ Begin(r, IF user[p].role = "admin" THEN "deleteCount" ELSE "deleteRow",
             [NoTenant EXCEPT !.who = p, !.seenRole = user[p].role, !.seenOrg = user[p].org])
    /\ UNCHANGED <<tables, mailed>>

Admins(o) == {p \in Person : user[p] # Nil /\ user[p].role = "admin" /\ user[p].org = o}

\* Mutant: an organization may be left with no administrator but the one deleted.
GreedyDeleteCount(r) ==
    /\ tpc[r] = "deleteCount"
    /\ UNCHANGED <<tables, mailed>>
    /\ \/ /\ Cardinality(Admins(tloc[r].seenOrg)) >= 1
          /\ tpc' = [tpc EXCEPT ![r] = "deleteRow"]
          /\ tloc' = [tloc EXCEPT ![r].counted = Admins(tloc[r].seenOrg)]
          /\ UNCHANGED <<retyped, tcalls>>
       \/ Cardinality(Admins(tloc[r].seenOrg)) < 1 /\ Finish(r, "deleteCount")

DeleteCount(r) ==
    /\ tpc[r] = "deleteCount"
    /\ UNCHANGED <<tables, mailed>>
    /\ \/ /\ Cardinality(Admins(tloc[r].seenOrg)) > 1
          /\ tpc' = [tpc EXCEPT ![r] = "deleteRow"]
          /\ tloc' = [tloc EXCEPT ![r].counted = Admins(tloc[r].seenOrg)]
          /\ UNCHANGED <<retyped, tcalls>>
       \/ Cardinality(Admins(tloc[r].seenOrg)) <= 1 /\ Finish(r, "deleteCount")

\* The deletion takes the invitations the users had sent with it.
Without(ids) ==
    /\ user' = [p \in Person |-> IF p \in ids THEN Nil ELSE user[p]]
    /\ invite' = [i \in Invite |-> IF Exists(i) /\ invite[i].by \in ids
                                   THEN [invite[i] EXCEPT !.status = "deleted"] ELSE invite[i]]

DeleteRow(r) ==
    /\ Finish(r, "deleteRow")
    /\ Without({tloc[r].who})
    /\ UNCHANGED <<kind, open, mailed>>

\* bulkAction on users: one statement, and none of the checks above
BulkUsers(r, ids, action) ==
    /\ tpc[r] = "idle" /\ Count /\ Admitted(Root)
    /\ \/ action = "delete" /\ Without(ids)
       \/ /\ action \in {"activate", "deactivate"}
          /\ user' = [p \in Person |-> IF p \in ids /\ user[p] # Nil
                                       THEN [user[p] EXCEPT !.active = (action = "activate")]
                                       ELSE user[p]]
          /\ UNCHANGED invite
    /\ UNCHANGED <<kind, open, mailed, tpc, tloc, retyped>>

-----------------------------------------------------------------------------
(* Organizations *)

\* updateOrganization: the type changes under members and invitations.
UpdateOrganization(r, o, k) ==
    /\ tpc[r] = "idle" /\ Count /\ Admitted(Root) /\ kind[o] # Nil
    /\ kind' = [kind EXCEPT ![o] = k]
    /\ retyped' = IF k = kind[o] THEN retyped ELSE retyped \cup {o}
    /\ UNCHANGED <<user, open, invite, mailed, tpc, tloc>>

\* deactivateOrganization, alone or in bulk: two statements
CloseOrganization(r, o) ==
    /\ Admitted(Root) /\ kind[o] # Nil
    /\ open' = [open EXCEPT ![o] = FALSE]
    /\ Begin(r, "closeMembers", [NoTenant EXCEPT !.org = o])
    /\ UNCHANGED <<user, kind, invite, mailed>>

CloseMembers(r) ==
    /\ Finish(r, "closeMembers")
    /\ user' = [p \in Person |-> IF user[p] # Nil /\ user[p].org = tloc[r].org
                                 THEN [user[p] EXCEPT !.active = FALSE] ELSE user[p]]
    /\ UNCHANGED <<kind, open, invite, mailed>>

ReopenOrganization(r, o) ==
    /\ tpc[r] = "idle" /\ Count /\ Admitted(Root) /\ kind[o] # Nil
    /\ open' = [open EXCEPT ![o] = TRUE]
    /\ UNCHANGED <<user, kind, invite, mailed, tpc, tloc, retyped>>

\* Seven days pass.
Lapse(i) ==
    /\ invite[i] # Nil /\ invite[i].status = "pending" /\ ~ invite[i].late
    /\ invite' = [invite EXCEPT ![i].late = TRUE]
    /\ UNCHANGED <<user, kind, open, mailed, tpc, tloc, retyped, tcalls>>

\* A statement or a publication fails and the request with it.
Fail(r) ==
    /\ tpc[r] # "idle" /\ Finish(r, tpc[r])
    /\ UNCHANGED <<tables, mailed>>

-----------------------------------------------------------------------------
OrganizationCall(r) ==
    \/ \E by, p \in Person, o \in Org, role \in Role : InviteRead(r, by, o, p, role)
    \/ \E by \in Person, i \in Invite : ResendRead(r, by, i) \/ CancelRead(r, by, i)
    \/ \E by, p \in Person, enable \in BOOLEAN : MemberRead(r, by, p, enable)
    \/ \E link \in mailed : OpenLateLink(r, link[1], link[2]) \/ AcceptRead(r, link[1], link[2])
    \/ \E p \in Person, o \in Org, k \in OrgType : Register(r, p, o, k)

AdminCall(r) ==
    \/ \E p \in Person, enable \in BOOLEAN : UserRead(r, p, enable)
    \/ \E p \in Person, role \in (Role \ {"super_admin"}) \cup {Nil}, o \in Org \cup {Nil} :
          UpdateRead(r, p, role, o)
    \/ \E p \in Person : DeleteRead(r, p)
    \/ \E ids \in SUBSET Person \ {{}}, a \in {"activate", "deactivate", "delete"} :
          BulkUsers(r, ids, a)
    \/ \E o \in Org, k \in OrgType : UpdateOrganization(r, o, k)
    \/ \E o \in Org : CloseOrganization(r, o) \/ ReopenOrganization(r, o)

TenantStep(r) ==
    \/ (\E i \in Invite : InviteCreate(r, i)) \/ InvitePublish(r) \/ ResendWrite(r)
    \/ CancelDelete(r) \/ AcceptExpire(r) \/ AcceptTx(r) \/ MemberWrite(r)
    \/ UpdateCheck(r) \/ UpdateWrite(r) \/ DeleteCount(r) \/ DeleteRow(r) \/ CloseMembers(r)

TenancyNext ==
    \/ \E r \in Request : OrganizationCall(r) \/ AdminCall(r) \/ TenantStep(r) \/ Fail(r)
    \/ \E i \in Invite : Lapse(i)

TenancySpec == TenancyInit /\ [][TenancyNext]_tenancyVars

-----------------------------------------------------------------------------
(* Properties *)

Misfits == {p \in Person : user[p] # Nil /\ ~ Fits(user[p].role, user[p].org)}

\* An update of p in flight decided from a row that is gone.
DecidedFromOldRow(p) ==
    \E r \in Request :
        /\ tpc[r] = "updateWrite" /\ tloc[r].who = p /\ user[p] # Nil
        /\ tloc[r].seenRole # user[p].role \/ tloc[r].seenOrg # user[p].org

\* "Role mismatch": a user comes to hold a role that does not fit the type of his
\* organization only in an organization whose type was changed under its members
\* and invitations, or when two updates of him overlap and each changes the half of
\* the row that the other had checked.
MisfitNeedsARace ==
    [][\A p \in Person :
          p \in Misfits' \ Misfits => user'[p].org \in retyped' \/ DecidedFromOldRow(p)]_tenancyVars

Ends(r, at) == tpc[r] = at /\ tpc'[r] = "idle"

\* "Cannot delete the last admin user of this organization": an organization loses
\* its last administrator by a demotion or a move, by a bulk deletion, or when a
\* deletion that counted another administrator comes after that one has left.
OrphansNeedARace ==
    [][\A o \in Org :
          Admins(o) # {} /\ Admins(o)' = {} =>
              \/ tpc' = tpc /\ tcalls' # tcalls
              \/ \E r \in Request : Ends(r, "updateWrite")
              \/ \E r \in Request :
                    /\ Ends(r, "deleteRow")
                    /\ \/ tloc[r].seenRole # "admin" \/ tloc[r].seenOrg # o
                       \/ tloc[r].counted \ {tloc[r].who} # {}]_tenancyVars

\* Marking an invitation as expired is decided from an earlier read, and may even
\* overwrite an acceptance that passed its own check in time.  What it never hits is
\* an invitation whose time is not over, unless that was sent again meanwhile: the
\* stale expiry of the first link may then kill the second.
ExpiryHitsOnlyLateLinks ==
    [][\A i \in Invite :
          invite[i] # Nil /\ invite[i].status # "expired" /\ invite'[i].status = "expired" =>
              \/ invite[i].late
              \/ \E r \in Request : /\ Ends(r, "acceptExpire") /\ tloc[r].inv = i
                                    /\ tloc[r].token # invite[i].token]_tenancyVars

\* Nobody becomes a member of an organization that exists without an invitation to
\* it that is in the table at that moment, with his address, role and organization,
\* whatever was cancelled, sent again or deleted since he followed his link.
MembersWereInvited ==
    [][\A p \in Person :
          user[p] = Nil /\ user'[p] # Nil =>
              \/ kind[user'[p].org] = Nil /\ user'[p].role = "admin"
              \/ \E i \in Invite :
                    /\ Exists(i) /\ invite[i].email = p /\ invite'[i].status = "accepted"
                    /\ invite[i].org = user'[p].org /\ invite[i].role = user'[p].role]_tenancyVars
=============================================================================
