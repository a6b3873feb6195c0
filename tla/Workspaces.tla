----------------------------- MODULE Workspaces -----------------------------
(***************************************************************************)
(* Workspaces, their members and invites, and the sessions that act in     *)
(* them (qpedia-api/src/routes.rs, auth.rs; qpedia-pg-store/src/           *)
(* workspaces.rs, tenants.rs, sessions.rs).                                *)
(*                                                                         *)
(* A request is a sequence of steps, one per transaction, and the User     *)
(* extractor's copy of the session row is taken at its first step: what a  *)
(* concurrent request commits later is not seen.  A browser holds one      *)
(* session and has one request under way; a request may be cut off, by an  *)
(* error or a restart, before any of its steps.  The id of an individual   *)
(* workspace is derived from the user's by a slug that is not injective    *)
(* (Home): users may share one.  Display names, e-mails and the audit      *)
(* trail are left out.                                                     *)
(***************************************************************************)
EXTENDS Integers, FiniteSets, SequencesExt

CONSTANTS
  Users,
  Home,         \* individual_tenant_id of each user, "u-" and a slug of the user's id
  Slugs,        \* the slugs one organisation name is probed for, in order
  Provisioned,  \* per user, the tenant_id claims an administrator may have set
  Operators,    \* users whom claims.groups or QPEDIA_ADMIN_EMAILS make admin
  Browsers,     \* cookie jars, each with at most one session
  Invites,      \* bound: invites ever created
  NoSession, Idle, NoInvite

Orgs == ToSet(Slugs)
Homes == {Home[u] : u \in Users}
Tenants == Homes \cup Orgs
InviteRows == [tenant : Tenants, role : {"admin", "member"}, is : {"open", "expired", "accepted", "deleted"}]

ASSUME WorkspacesAssumption ==
  /\ Slugs \in Seq(Orgs) /\ IsInjective(Slugs) /\ Homes \cap Orgs = {}
  /\ Provisioned \in [Users -> SUBSET Orgs]
  /\ Operators \subseteq Users
  /\ NoInvite \notin InviteRows

VARIABLES
  tenants,   \* tenants.id
  role,      \* workspace_members.role, by workspace and user; "none" without a row
  invite,    \* workspace_invites
  session,   \* sessions, by browser
  req,       \* the request each browser has under way
  redeemed   \* history: the invites whose use has been recorded

tables == <<tenants, role, invite>>
workspaceVars == <<tables, session, req, redeemed>>

Roles == {"owner", "admin", "member"}
Grants(r) == r \in {"owner", "admin"}
Owners(t) == {u \in Users : role[t][u] = "owner"}
Sessions == [user : Users, tenant : Tenants, admin : BOOLEAN]
LoginSteps == [op : {"login"}, at : {"mint"}, user : Users, tenant : Tenants]
CreateSteps == [op : {"create"}, at : {"upsert", "join"}, user : Users, tenant : Orgs]
SwitchSteps == [op : {"switch"}, at : {"move"}, user : Users, tenant : Tenants, admin : BOOLEAN, evicted : BOOLEAN]
RemoveSteps == [op : {"remove"}, at : {"delete"}, tenant : Tenants, target : Users, owners : SUBSET Users]
AcceptSteps == [op : {"accept"}, at : {"join", "mark", "role"}, user : Users, invite : Invites,
                tenant : Tenants, role : Roles, evicted : BOOLEAN, late : BOOLEAN]
Requests == LoginSteps \cup CreateSteps \cup SwitchSteps \cup RemoveSteps \cup AcceptSteps

WorkspacesTypeOK ==
  /\ tenants \subseteq Tenants
  /\ role \in [Tenants -> [Users -> Roles \cup {"none"}]]
  /\ invite \in [Invites -> InviteRows \cup {NoInvite}]
  /\ session \in [Browsers -> Sessions \cup {NoSession}]
  /\ req \in [Browsers -> Requests \cup {Idle}]
  /\ redeemed \subseteq Invites
  /\ \A b \in Browsers : session[b] # NoSession => session[b].tenant \in tenants
  /\ \A t \in Tenants, u \in Users : role[t][u] # "none" => t \in tenants

WorkspacesInit ==
  /\ tenants = {} /\ role = [t \in Tenants |-> [u \in Users |-> "none"]]
  /\ invite = [i \in Invites |-> NoInvite]
  /\ session = [b \in Browsers |-> NoSession]
  /\ req = [b \in Browsers |-> Idle]
  /\ redeemed = {}

-----------------------------------------------------------------------------
(* Requests. *)

At(b, op, place) == req[b] # Idle /\ req[b].op = op /\ req[b].at = place
Accepting(b) == req[b] # Idle /\ req[b].op = "accept"
GoTo(b, place) == req' = [req EXCEPT ![b].at = place]
Finish(b) == req' = [req EXCEPT ![b] = Idle]

\* The User extractor: a browser sends a request with its session cookie.
LoggedIn(b) == req[b] = Idle /\ session[b] # NoSession
IsAdmin(b) == LoggedIn(b) /\ session[b].admin

\* The request fails or is cut off: an error response, or a restart.
Abandon(b) ==
  /\ req[b] # Idle
  /\ Finish(b) /\ UNCHANGED <<tables, session, redeemed>>

\* upsert_tenant: INSERT ... ON CONFLICT DO UPDATE; rows are never deleted.
UpsertTenant(t) == tenants' = tenants \cup {t}

\* membership_role
IsMember(t, u) == role[t][u] # "none"

\* ensure_membership: INSERT ... ON CONFLICT DO NOTHING.
EnsureMembership(t, u, r) == role' = [role EXCEPT ![t][u] = IF @ = "none" THEN r ELSE @]

EndSession(b) ==
  /\ session[b] # NoSession
  /\ session' = [session EXCEPT ![b] = NoSession]
  /\ UNCHANGED <<tables, req, redeemed>>

\* oidc_logout, in another tab of the browser as well: the row is deleted.
Logout(b) == EndSession(b)

\* The 24 hours of a session end: lookup_session does not find it any more.
ExpireSession(b) == EndSession(b)

-----------------------------------------------------------------------------
(* firebase_login_route *)

\* resolve_firebase_tenant: the tenant_id claim, else the individual workspace.
LoginTenants(u) == {Home[u]} \cup Provisioned[u]

\* The groups of the token and QPEDIA_ADMIN_EMAILS, and "admin" at home.
LoginIsAdmin(u, t) == t = Home[u] \/ u \in Operators

\* Seeded fault: the tenant's row is taken for granted.
LoginJoinRowless(b, u, t) ==
  /\ req[b] = Idle /\ session[b] = NoSession
  /\ t \in LoginTenants(u)
  /\ EnsureMembership(t, u, IF t = Home[u] THEN "owner" ELSE "member")
  /\ req' = [req EXCEPT ![b] = [op |-> "login", at |-> "mint", user |-> u, tenant |-> t]]
  /\ UNCHANGED <<tenants, invite, session, redeemed>>

\* ensure_tenant makes the row and ensure_membership, whose error is dropped, the
\* membership.
LoginJoin(b, u, t) ==
  /\ req[b] = Idle /\ session[b] = NoSession
  /\ t \in LoginTenants(u)
  /\ UpsertTenant(t)
  /\ \/ EnsureMembership(t, u, IF t = Home[u] THEN "owner" ELSE "member")
     \/ UNCHANGED role
  /\ req' = [req EXCEPT ![b] = [op |-> "login", at |-> "mint", user |-> u, tenant |-> t]]
  /\ UNCHANGED <<invite, session, redeemed>>

\* mint_session
LoginMint(b) ==
  /\ At(b, "login", "mint")
  /\ LET u == req[b].user  t == req[b].tenant
     IN session' = [session EXCEPT ![b] = [user |-> u, tenant |-> t,
          admin |-> LoginIsAdmin(u, t)]]
  /\ Finish(b)
  /\ UNCHANGED <<tables, redeemed>>

-----------------------------------------------------------------------------
(* create_workspace *)

\* The loop ends at the first slug get_tenant does not find.
FreeSlug == {n \in 1..Len(Slugs) : Slugs[n] \notin tenants /\ \A m \in 1..(n - 1) : Slugs[m] \in tenants}

CreateProbe(b) ==
  /\ LoggedIn(b)
  /\ \E n \in FreeSlug :
       req' = [req EXCEPT ![b] =
         [op |-> "create", at |-> "upsert", user |-> session[b].user, tenant |-> Slugs[n]]]
  /\ UNCHANGED <<tables, session, redeemed>>

\* upsert_tenant: a row that has come up since the probe is overwritten.
CreateUpsert(b) ==
  /\ At(b, "create", "upsert")
  /\ UpsertTenant(req[b].tenant)
  /\ GoTo(b, "join")
  /\ UNCHANGED <<role, invite, session, redeemed>>

\* bootstrap_tenant: a row for any tenant, an owner for none; its folders and their
\* rules are in other tables.
BootstrapTenant(b, t) ==
  /\ IsAdmin(b)
  /\ UpsertTenant(t)
  /\ UNCHANGED <<role, invite, session, req, redeemed>>

\* create_org_workspace goes on with the owner's membership, in another transaction.
CreateJoin(b) ==
  /\ At(b, "create", "join")
  /\ EnsureMembership(req[b].tenant, req[b].user, "owner")
  /\ Finish(b)
  /\ UNCHANGED <<tenants, invite, session, redeemed>>

-----------------------------------------------------------------------------
(* switch_workspace *)

\* Seeded fault: the switch does not ask for a membership.
SwitchCheckUnasked(b, t) ==
  /\ LoggedIn(b) /\ t \in tenants
  /\ req' = [req EXCEPT ![b] =
       [op |-> "switch", at |-> "move", user |-> session[b].user, tenant |-> t,
        admin |-> Grants(role[t][session[b].user]), evicted |-> FALSE]]
  /\ UNCHANGED <<tables, session, redeemed>>

SwitchCheck(b, t) ==
  /\ LoggedIn(b)
  /\ IsMember(t, session[b].user)
  /\ req' = [req EXCEPT ![b] =
       [op |-> "switch", at |-> "move", user |-> session[b].user, tenant |-> t,
        admin |-> Grants(role[t][session[b].user]), evicted |-> FALSE]]
  /\ UNCHANGED <<tables, session, redeemed>>

\* update_session_workspace: no row is updated when the session has ended.
UpdateSession(b, t, admin) ==
  session' = IF session[b] = NoSession THEN session ELSE
    [session EXCEPT ![b].tenant = t, ![b].admin = admin]

SwitchMove(b) ==
  /\ At(b, "switch", "move")
  /\ UpdateSession(b, req[b].tenant, req[b].admin)
  /\ Finish(b)
  /\ UNCHANGED <<tables, redeemed>>

-----------------------------------------------------------------------------
(* remove_workspace_member *)

\* Seeded fault: the last owner may go.
RemoveCheckUnguarded(b, u) ==
  /\ IsAdmin(b)
  /\ LET t == session[b].tenant
     IN req' = [req EXCEPT ![b] = [op |-> "remove", at |-> "delete", tenant |-> t, target |-> u,
                                   owners |-> Owners(t)]]
  /\ UNCHANGED <<tables, session, redeemed>>

\* remove_member reads the target's role and counts the owners; without a lock,
\* another transaction may commit before its DELETE.
IsLastOwner(t, u) == role[t][u] = "owner" /\ Cardinality(Owners(t)) <= 1

RemoveCheck(b, u) ==
  /\ IsAdmin(b)
  /\ LET t == session[b].tenant
     IN /\ ~IsLastOwner(t, u)
        /\ req' = [req EXCEPT ![b] = [op |-> "remove", at |-> "delete", tenant |-> t, target |-> u,
                                      owners |-> Owners(t)]]
  /\ UNCHANGED <<tables, session, redeemed>>

RemoveDelete(b) ==
  /\ At(b, "remove", "delete")
  /\ LET t == req[b].tenant  u == req[b].target
         Joining(c) == (At(c, "switch", "move") \/ Accepting(c))
           /\ req[c].tenant = t /\ req[c].user = u
     IN /\ role' = [role EXCEPT ![t][u] = "none"]
        /\ req' = [c \in Browsers |-> IF c = b THEN Idle
                     ELSE IF Joining(c) THEN [req[c] EXCEPT !.evicted = TRUE] ELSE req[c]]
  /\ UNCHANGED <<tenants, invite, session, redeemed>>

-----------------------------------------------------------------------------
(* Invites *)

\* create_invite, with a random token.
InsertInvite(i, t, r) ==
  /\ invite[i] = NoInvite /\ r \in {"admin", "member"}
  /\ invite' = [invite EXCEPT ![i] = [tenant |-> t, role |-> r, is |-> "open"]]

\* get_invite_by_token, and accept_invite's look at it.
IsOpen(i) == invite[i] # NoInvite /\ invite[i].is = "open"

\* Row level security hides the invites of other workspaces.
IsVisible(i, t) == invite[i] # NoInvite /\ invite[i].tenant = t

\* Seeded fault: individual workspaces may invite too.
CreateInviteAnywhere(b, i, r) ==
  /\ IsAdmin(b)
  /\ InsertInvite(i, session[b].tenant, r)
  /\ UNCHANGED <<tenants, role, session, req, redeemed>>

\* create_workspace_invite; an individual workspace cannot invite.
CreateInvite(b, i, r) ==
  /\ IsAdmin(b) /\ session[b].tenant \in Orgs
  /\ InsertInvite(i, session[b].tenant, r)
  /\ UNCHANGED <<tenants, role, session, req, redeemed>>

\* delete_workspace_invite
DeleteInvite(b, i) ==
  /\ IsAdmin(b) /\ IsVisible(i, session[b].tenant)
  /\ invite' = [invite EXCEPT ![i].is = "deleted"]
  /\ UNCHANGED <<tenants, role, session, req, redeemed>>

\* 14 days pass.
ExpireInvite(i) ==
  /\ IsOpen(i)
  /\ invite' = [invite EXCEPT ![i].is = "expired"]
  /\ UNCHANGED <<tenants, role, session, req, redeemed>>

\* The invite is looked up by its token and validated ...
AcceptCheck(b, i) ==
  /\ LoggedIn(b) /\ IsOpen(i)
  /\ req' = [req EXCEPT ![b] =
       [op |-> "accept", at |-> "join", user |-> session[b].user, invite |-> i,
        tenant |-> invite[i].tenant, role |-> invite[i].role, evicted |-> FALSE,
        late |-> i \in redeemed]]
  /\ UNCHANGED <<tables, session, redeemed>>

\* ... the membership is added in one transaction ...
AcceptJoin(b) ==
  /\ At(b, "accept", "join")
  /\ EnsureMembership(req[b].tenant, req[b].user, req[b].role)
  /\ GoTo(b, "mark")
  /\ UNCHANGED <<tenants, invite, session, redeemed>>

\* Seeded fault: an invite is not used up.
AcceptMarkNothing(b) ==
  /\ At(b, "accept", "mark")
  /\ redeemed' = redeemed \cup {req[b].invite}
  /\ GoTo(b, "role")
  /\ UNCHANGED <<tables, session>>

\* ... and the invite marked in another; no row is updated when it was deleted.
AcceptMark(b) ==
  /\ At(b, "accept", "mark")
  /\ LET i == req[b].invite
     IN /\ invite' = IF invite[i].is = "deleted" THEN invite ELSE [invite EXCEPT ![i].is = "accepted"]
        /\ redeemed' = redeemed \cup {i}
  /\ GoTo(b, "role")
  /\ UNCHANGED <<tenants, role, session>>

\* accept_invite reads the role again, "member" if there is none by now, and moves the session.
AcceptRole(b) ==
  /\ At(b, "accept", "role")
  /\ LET t == req[b].tenant  u == req[b].user
     IN req' = [req EXCEPT ![b] = [op |-> "switch", at |-> "move", user |-> u, tenant |-> t,
                                   admin |-> Grants(role[t][u]), evicted |-> req[b].evicted]]
  /\ UNCHANGED <<tables, session, redeemed>>

-----------------------------------------------------------------------------
Login(b) ==
  \/ \E u \in Users, t \in Tenants : LoginJoin(b, u, t)
  \/ LoginMint(b)

Membership(b) ==
  \/ CreateProbe(b) \/ CreateUpsert(b) \/ CreateJoin(b)
  \/ \E t \in Tenants : SwitchCheck(b, t) \/ BootstrapTenant(b, t)
  \/ SwitchMove(b)
  \/ \E u \in Users : RemoveCheck(b, u)
  \/ RemoveDelete(b)

Inviting(b) ==
  \/ \E i \in Invites, r \in Roles : CreateInvite(b, i, r)
  \/ \E i \in Invites : DeleteInvite(b, i) \/ AcceptCheck(b, i)
  \/ AcceptJoin(b) \/ AcceptMark(b) \/ AcceptRole(b)

WorkspacesNext ==
  \/ \E b \in Browsers :
     \/ Login(b) \/ Membership(b) \/ Inviting(b)
     \/ Abandon(b) \/ Logout(b) \/ ExpireSession(b)
  \/ \E i \in Invites : ExpireInvite(i)

WorkspacesSpec == WorkspacesInit /\ [][WorkspacesNext]_workspaceVars

-----------------------------------------------------------------------------
(* Properties. *)

\* remove_member "refuses to remove the last owner" of an organisation workspace.
LastOwnerStays == [][\A t \in Orgs : Owners(t) # {} => Owners(t)' # {}]_workspaceVars

\* A workspace that has an owner keeps one: the last is removed only by a request
\* that counted other owners than there are by then.
OwnersStay ==
  [][\A t \in Tenants : Owners(t) # {} /\ Owners(t)' = {} =>
       \E b \in Browsers : At(b, "remove", "delete") /\ req[b].tenant = t
                           /\ req[b].owners # Owners(t)]_workspaceVars

\* A session enters a workspace, by a switch or an invite, with the rights of the
\* membership its user has there at that moment, unless the user was removed while
\* the request was under way.
MovesAreCurrent ==
  [][\A b \in Browsers :
       At(b, "switch", "move") /\ session'[b] # session[b] /\ session'[b] # NoSession
       /\ ~req[b].evicted =>
         LET t == session'[b].tenant  u == session'[b].user
         IN role[t][u] # "none" /\ session'[b].admin = Grants(role[t][u])]_workspaceVars

\* Once the use of an invite has been recorded, it lets nobody else in; those who had
\* opened it before that still get in, however many they are.  And no invite, switch or
\* login lets anybody belong to, or act in, an individual workspace but the users whose
\* ids yield its id: just one user while their slugs differ, all of them when they do not.
InvitesHold ==
  /\ \A b \in Browsers : Accepting(b) => ~req[b].late
  /\ \A h \in Homes, v \in Users : role[h][v] # "none" => Home[v] = h
  /\ \A b \in Browsers : session[b] # NoSession /\ session[b].tenant \in Homes =>
       Home[session[b].user] = session[b].tenant
=============================================================================
