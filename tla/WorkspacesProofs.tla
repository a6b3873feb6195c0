--------------------------- MODULE WorkspacesProofs ---------------------------
(***************************************************************************)
(* Theorems about workspaces, for every set of users, organisations,       *)
(* browsers and invites: any number of requests under way at once, each    *)
(* cut off anywhere.                                                       *)
(***************************************************************************)
EXTENDS Workspaces, FiniteSetTheorems, TLAPS

\* What holds of a request under way, of its own fields and of the rows it relies on.
LoginOK(q) == q.tenant \in tenants /\ (q.tenant \in Homes => q.tenant = Home[q.user])
CreateOK(q) == q.at = "join" => q.tenant \in tenants
SwitchOK(q) ==
  /\ q.tenant \in tenants /\ (q.tenant \in Homes => q.tenant = Home[q.user])
  /\ ~q.evicted => role[q.tenant][q.user] # "none" /\ q.admin = Grants(role[q.tenant][q.user])
RemoveOK(q) == q.owners # {q.target}
AcceptOK(q) ==
  /\ q.tenant \in tenants /\ q.tenant \in Orgs
  /\ ~q.late /\ invite[q.invite] # NoInvite
  /\ q.at \in {"mark", "role"} /\ ~q.evicted => role[q.tenant][q.user] # "none"

StepOK(q) ==
  /\ q.op = "login" => LoginOK(q)
  /\ q.op = "create" => CreateOK(q)
  /\ q.op = "switch" => SwitchOK(q)
  /\ q.op = "remove" => RemoveOK(q)
  /\ q.op = "accept" => AcceptOK(q)

\* A request acts for the user of the session it came with, while that lasts.
SameUser(q, s) == s # NoSession /\ q.op \in {"switch", "accept"} => s.user = q.user

RequestsOK == \A b \in Browsers : req[b] # Idle => StepOK(req[b]) /\ SameUser(req[b], session[b])

\* Invites are into organisations that have a row, and a recorded one is open no more.
InvitesOK == \A i \in Invites :
  /\ invite[i] # NoInvite => invite[i].tenant \in Orgs /\ invite[i].tenant \in tenants
  /\ i \in redeemed => invite[i] # NoInvite /\ invite[i].is \in {"accepted", "deleted"}

HomesAreOwn ==
  /\ \A h \in Homes, v \in Users : role[h][v] # "none" => Home[v] = h
  /\ \A b \in Browsers : session[b] # NoSession /\ session[b].tenant \in Homes =>
       Home[session[b].user] = session[b].tenant

WInv == WorkspacesTypeOK /\ RequestsOK /\ InvitesOK /\ HomesAreOwn

LEMMA WInvInit == WorkspacesInit => WInv
<1> SUFFICES ASSUME WorkspacesInit PROVE WInv
  OBVIOUS
<1>1. WorkspacesTypeOK
  BY DEF WorkspacesInit, WorkspacesTypeOK
<1>2. RequestsOK /\ InvitesOK
  BY DEF WorkspacesInit, RequestsOK, InvitesOK
<1>3. HomesAreOwn
  BY DEF WorkspacesInit, HomesAreOwn, Tenants
<1>. QED
  BY <1>1, <1>2, <1>3 DEF WInv

-----------------------------------------------------------------------------
(* Requests are of one kind each. *)

LEMMA RequestKinds ==
  ASSUME NEW q \in Requests
  PROVE  /\ q.op = "login" => q \in LoginSteps
         /\ q.op = "create" => q \in CreateSteps
         /\ q.op = "switch" => q \in SwitchSteps
         /\ q.op = "remove" => q \in RemoveSteps
         /\ q.op = "accept" => q \in AcceptSteps
         /\ q.op \in {"login", "create", "switch", "remove", "accept"}
  BY DEF Requests, LoginSteps, CreateSteps, SwitchSteps, RemoveSteps, AcceptSteps

LEMMA KindRequests ==
  /\ LoginSteps \subseteq Requests /\ CreateSteps \subseteq Requests /\ SwitchSteps \subseteq Requests
  /\ RemoveSteps \subseteq Requests /\ AcceptSteps \subseteq Requests
  BY DEF Requests

\* While rows and memberships are only added, requests under way stay right.
RowsStay ==
  /\ tenants \subseteq tenants'
  /\ \A t \in Tenants, u \in Users : role[t][u] # "none" => role'[t][u] = role[t][u]
  /\ \A i \in Invites : invite[i] # NoInvite => invite'[i] # NoInvite

LEMMA StepsStay ==
  ASSUME RowsStay, NEW q \in Requests, StepOK(q)
  PROVE  StepOK(q)'
<1>1. CASE q.op = "login"
  BY <1>1 DEF RowsStay, StepOK, LoginOK
<1>2. CASE q.op = "create"
  BY <1>2 DEF RowsStay, StepOK, CreateOK
<1>3. CASE q.op = "switch"
  BY <1>3, RequestKinds DEF RowsStay, StepOK, SwitchOK, SwitchSteps
<1>4. CASE q.op = "remove"
  BY <1>4 DEF StepOK, RemoveOK
<1>5. CASE q.op = "accept"
  BY <1>5, RequestKinds DEF RowsStay, StepOK, AcceptOK, AcceptSteps
<1>. QED
  BY <1>1, <1>2, <1>3, <1>4, <1>5, RequestKinds

\* A step of one browser's request: rows are only added, its own request becomes x, and
\* sessions end or stay.
LEMMA RequestMoves ==
  ASSUME WorkspacesTypeOK, RequestsOK, RowsStay, NEW b \in Browsers, NEW x \in Requests \cup {Idle},
         req' = [req EXCEPT ![b] = x],
         x # Idle => StepOK(x)' /\ SameUser(x, session'[b]),
         \A c \in Browsers : c # b => session'[c] = session[c]
  PROVE  RequestsOK' /\ req' \in [Browsers -> Requests \cup {Idle}]
<1>1. req' \in [Browsers -> Requests \cup {Idle}]
  BY DEF WorkspacesTypeOK
<1>2. ASSUME NEW c \in Browsers, NEW q \in Requests, q = req'[c], q # Idle
      PROVE  StepOK(q)' /\ SameUser(q, session'[c])
  <2>1. CASE c = b
    BY <1>2, <2>1 DEF WorkspacesTypeOK
  <2>2. CASE c # b
    <3>1. q = req[c] /\ session'[c] = session[c]
      BY <1>2, <2>2 DEF WorkspacesTypeOK
    <3>2. StepOK(q) /\ SameUser(q, session[c])
      BY <1>2, <3>1 DEF RequestsOK
    <3>3. StepOK(q)'
      BY <3>2, StepsStay
    <3>. QED
      BY <3>1, <3>2, <3>3
  <2>. QED
    BY <2>1, <2>2
<1>3. ASSUME NEW c \in Browsers, (req[c] # Idle)'
      PROVE  (StepOK(req[c]) /\ SameUser(req[c], session[c]))'
  <2>1. PICK q \in Requests : q = req'[c]
    BY <1>1, <1>3
  <2>2. StepOK(q)' /\ SameUser(q, session'[c])
    BY <1>2, <1>3, <2>1
  <2>. QED
    BY <2>1, <2>2 DEF StepOK, SameUser, LoginOK, CreateOK, SwitchOK, RemoveOK, AcceptOK
<1>. QED
  BY <1>1, <1>3 DEF RequestsOK

\* A step that leaves the requests alone; sessions stay or end.
LEMMA RequestsKept ==
  ASSUME WorkspacesTypeOK, RequestsOK, RowsStay, req' = req,
         \A c \in Browsers : session'[c] \in {session[c], NoSession}
  PROVE  RequestsOK'
<1>1. ASSUME NEW c \in Browsers, (req[c] # Idle)'
      PROVE  (StepOK(req[c]) /\ SameUser(req[c], session[c]))'
  <2>1. PICK q \in Requests : q = req[c]
    BY <1>1 DEF WorkspacesTypeOK
  <2>2. StepOK(q) /\ SameUser(q, session[c])
    BY <1>1, <2>1 DEF RequestsOK
  <2>3. StepOK(q)' /\ SameUser(q, session'[c])
    BY <2>2, StepsStay DEF SameUser
  <2>. QED
    BY <2>1, <2>3 DEF StepOK, SameUser, LoginOK, CreateOK, SwitchOK, RemoveOK, AcceptOK
<1>. QED
  BY <1>1 DEF RequestsOK

\* ensure_membership adds a row where there is none and leaves every other alone.
LEMMA MembershipAdded ==
  ASSUME WorkspacesTypeOK, NEW t \in Tenants, NEW u \in Users, NEW r \in Roles,
         EnsureMembership(t, u, r)
  PROVE  /\ role' \in [Tenants -> [Users -> Roles \cup {"none"}]]
         /\ role'[t][u] # "none"
         /\ \A s \in Tenants, v \in Users : role'[s][v] # "none" => role[s][v] # "none" \/ (s = t /\ v = u)
         /\ \A s \in Tenants, v \in Users : role[s][v] # "none" => role'[s][v] = role[s][v]
<1>. DEFINE x == IF role[t][u] = "none" THEN r ELSE role[t][u]
            row == [role[t] EXCEPT ![u] = x]
<1>1. role[t] \in [Users -> Roles \cup {"none"}] /\ role[t][u] \in Roles \cup {"none"}
  BY DEF WorkspacesTypeOK
<1>2. x \in Roles /\ x # "none" /\ (role[t][u] # "none" => x = role[t][u])
  BY <1>1 DEF Roles
<1>3. row \in [Users -> Roles \cup {"none"}] /\ row[u] = x
      /\ \A v \in Users : v # u => row[v] = role[t][v]
  BY <1>1, <1>2
<1>4. role' = [role EXCEPT ![t] = row]
  BY DEF EnsureMembership
<1>. HIDE DEF row, x
<1>5. role \in [Tenants -> [Users -> Roles \cup {"none"}]]
  BY DEF WorkspacesTypeOK
<1>6. role' \in [Tenants -> [Users -> Roles \cup {"none"}]] /\ role'[t] = row
      /\ \A s \in Tenants : s # t => role'[s] = role[s]
  BY <1>3, <1>4, <1>5
<1>. QED
  BY <1>2, <1>3, <1>6

\* What a step that keeps memberships and invites leaves true, when tenants only grow.
LEMMA TablesKept ==
  ASSUME WInv, tenants \subseteq tenants', UNCHANGED <<role, invite, redeemed>>
  PROVE  /\ RowsStay /\ InvitesOK'
         /\ role' \in [Tenants -> [Users -> Roles \cup {"none"}]]
         /\ invite' \in [Invites -> InviteRows \cup {NoInvite}]
         /\ redeemed' \subseteq Invites
         /\ \A t \in Tenants, u \in Users : role'[t][u] # "none" => t \in tenants'
         /\ \A h \in Homes, v \in Users : role'[h][v] # "none" => Home[v] = h
  BY DEF WInv, WorkspacesTypeOK, RowsStay, InvitesOK, HomesAreOwn

\* A step that keeps the sessions keeps what is true of them.
SessionsOK ==
  /\ session \in [Browsers -> Sessions \cup {NoSession}]
  /\ \A b \in Browsers : session[b] # NoSession => session[b].tenant \in tenants
  /\ \A b \in Browsers : session[b] # NoSession /\ session[b].tenant \in Homes =>
       Home[session[b].user] = session[b].tenant

LEMMA SessionsKept ==
  ASSUME WInv, tenants \subseteq tenants', session' = session
  PROVE  SessionsOK'
  BY DEF WInv, WorkspacesTypeOK, HomesAreOwn, SessionsOK

\* A session that ends, or becomes a legal s, while the others stay.
LEMMA SessionSet ==
  ASSUME WInv, tenants \subseteq tenants', NEW b \in Browsers, NEW s \in Sessions \cup {NoSession},
         session' = [session EXCEPT ![b] = s],
         s # NoSession => s.tenant \in tenants' /\ (s.tenant \in Homes => Home[s.user] = s.tenant)
  PROVE  SessionsOK'
<1>1. session' \in [Browsers -> Sessions \cup {NoSession}] /\ session'[b] = s
      /\ \A c \in Browsers : c # b => session'[c] = session[c]
  BY DEF WInv, WorkspacesTypeOK
<1>2. SessionsOK
  BY DEF WInv, WorkspacesTypeOK, HomesAreOwn, SessionsOK
<1>. QED
  BY <1>1, <1>2 DEF SessionsOK

\* The parts of the invariant, as the steps establish them.
TablesOK ==
  /\ tenants \subseteq Tenants
  /\ role \in [Tenants -> [Users -> Roles \cup {"none"}]]
  /\ invite \in [Invites -> InviteRows \cup {NoInvite}]
  /\ redeemed \subseteq Invites
  /\ \A t \in Tenants, u \in Users : role[t][u] # "none" => t \in tenants
  /\ \A h \in Homes, v \in Users : role[h][v] # "none" => Home[v] = h

LEMMA Parts ==
  WInv <=> TablesOK /\ SessionsOK /\ RequestsOK /\ InvitesOK
           /\ req \in [Browsers -> Requests \cup {Idle}]
  BY DEF WInv, WorkspacesTypeOK, TablesOK, SessionsOK, HomesAreOwn

LEMMA PartsNext ==
  ASSUME TablesOK', SessionsOK', RequestsOK', InvitesOK', req' \in [Browsers -> Requests \cup {Idle}]
  PROVE  WInv'
  BY DEF WInv, WorkspacesTypeOK, TablesOK, SessionsOK, HomesAreOwn

LEMMA TablesKeep ==
  ASSUME WInv, UNCHANGED <<tables, redeemed>>
  PROVE  TablesOK' /\ RowsStay /\ InvitesOK'
  BY DEF WInv, WorkspacesTypeOK, TablesOK, RowsStay, InvitesOK, HomesAreOwn, tables

LEMMA TenantAdded ==
  ASSUME WInv, NEW t \in Tenants, UpsertTenant(t), UNCHANGED <<role, invite, redeemed>>
  PROVE  TablesOK' /\ RowsStay /\ InvitesOK' /\ t \in tenants' /\ tenants \subseteq tenants'
<1>1. tenants' = tenants \cup {t} /\ tenants \subseteq tenants' /\ tenants \subseteq Tenants
  BY DEF UpsertTenant, WInv, WorkspacesTypeOK
<1>. QED
  BY <1>1, TablesKept DEF TablesOK

LEMMA MemberAdded ==
  ASSUME WInv, NEW t \in Tenants, NEW u \in Users, NEW r \in Roles, EnsureMembership(t, u, r),
         t \in Homes => Home[u] = t, tenants' \subseteq Tenants, tenants \subseteq tenants', t \in tenants',
         UNCHANGED <<invite, redeemed>>
  PROVE  TablesOK' /\ RowsStay /\ InvitesOK' /\ role'[t][u] # "none"
<1>. WorkspacesTypeOK /\ InvitesOK /\ HomesAreOwn
  BY DEF WInv
<1>1. /\ role' \in [Tenants -> [Users -> Roles \cup {"none"}]]
      /\ role'[t][u] # "none"
      /\ \A s \in Tenants, v \in Users : role'[s][v] # "none" => role[s][v] # "none" \/ (s = t /\ v = u)
      /\ \A s \in Tenants, v \in Users : role[s][v] # "none" => role'[s][v] = role[s][v]
  BY MembershipAdded
<1>2. RowsStay
  BY <1>1 DEF RowsStay
<1>3. InvitesOK'
  BY DEF InvitesOK
<1>4. \A s \in Tenants, v \in Users : role'[s][v] # "none" => s \in tenants'
  BY <1>1 DEF WorkspacesTypeOK
<1>5. \A h \in Homes, v \in Users : role'[h][v] # "none" => Home[v] = h
  BY <1>1 DEF HomesAreOwn, Tenants
<1>. QED
  BY <1>1, <1>2, <1>3, <1>4, <1>5 DEF TablesOK, WorkspacesTypeOK

\* An invite's row is made, or moves on.
LEMMA InviteSet ==
  ASSUME WInv, NEW i \in Invites, NEW x \in InviteRows, invite' = [invite EXCEPT ![i] = x],
         x.tenant \in Orgs, x.tenant \in tenants, redeemed' \subseteq redeemed \cup {i},
         i \in redeemed' => x.is \in {"accepted", "deleted"}, UNCHANGED <<tenants, role>>
  PROVE  TablesOK' /\ RowsStay /\ InvitesOK'
<1>1. invite' \in [Invites -> InviteRows \cup {NoInvite}] /\ invite'[i] = x /\ x # NoInvite
      /\ \A j \in Invites : j # i => invite'[j] = invite[j]
  BY WorkspacesAssumption DEF WInv, WorkspacesTypeOK
<1>2. TablesOK'
  BY <1>1 DEF WInv, WorkspacesTypeOK, HomesAreOwn, TablesOK
<1>3. RowsStay
  BY <1>1 DEF RowsStay
<1>4. InvitesOK'
  BY <1>1 DEF WInv, InvitesOK
<1>. QED
  BY <1>2, <1>3, <1>4

\* A step of b's request that keeps the sessions.
LEMMA RequestGoes ==
  ASSUME WInv, RowsStay, TablesOK', InvitesOK', NEW b \in Browsers, NEW x \in Requests \cup {Idle},
         req' = [req EXCEPT ![b] = x], x # Idle => StepOK(x)' /\ SameUser(x, session[b]),
         tenants \subseteq tenants', session' = session
  PROVE  WInv'
<1>1. RequestsOK' /\ req' \in [Browsers -> Requests \cup {Idle}]
  BY RequestMoves DEF WInv
<1>. QED
  BY <1>1, SessionsKept, PartsNext

-----------------------------------------------------------------------------
(* The invariant is kept, handler by handler. *)

LEMMA Idles ==
  ASSUME WInv, NEW b \in Browsers, Finish(b), RowsStay, TablesOK', InvitesOK', SessionsOK',
         \A c \in Browsers : c # b => session'[c] = session[c]
  PROVE  WInv'
<1>1. req' = [req EXCEPT ![b] = Idle]
  BY DEF Finish
<1>2. RequestsOK' /\ req' \in [Browsers -> Requests \cup {Idle}]
  BY <1>1, RequestMoves DEF WInv
<1>. QED
  BY <1>2, PartsNext

\* The next place of a request, as a whole new record.
LEMMA Goes ==
  ASSUME WInv, NEW b \in Browsers, NEW place, GoTo(b, place), req[b] # Idle
  PROVE  req' = [req EXCEPT ![b] = [req[b] EXCEPT !.at = place]]
  BY DEF GoTo

LEMMA LoginKeeps ==
  ASSUME WInv, NEW b \in Browsers, Login(b)
  PROVE  WInv'
<1>1. ASSUME NEW u \in Users, NEW t \in Tenants, LoginJoin(b, u, t)
      PROVE  WInv'
  <2>. DEFINE x == [op |-> "login", at |-> "mint", user |-> u, tenant |-> t]
              r == IF t = Home[u] THEN "owner" ELSE "member"
  <2>1. t \in Homes => Home[u] = t
    BY <1>1, WorkspacesAssumption DEF LoginJoin, LoginTenants
  <2>2. tenants' = tenants \cup {t} /\ UNCHANGED <<invite, redeemed>> /\ session' = session
    BY <1>1 DEF LoginJoin, UpsertTenant
  <2>3. tenants \subseteq tenants' /\ tenants' \subseteq Tenants /\ t \in tenants'
    BY <2>2 DEF WInv, WorkspacesTypeOK
  <2>4. TablesOK' /\ RowsStay /\ InvitesOK'
    <3>1. CASE EnsureMembership(t, u, r)
      <4>1. r \in Roles
        BY DEF Roles
      <4>. QED
        BY <2>1, <2>2, <2>3, <3>1, <4>1, MemberAdded
    <3>2. CASE UNCHANGED role
      BY <1>1, <2>2, <3>2, TenantAdded DEF LoginJoin
    <3>. QED
      BY <1>1, <3>1, <3>2 DEF LoginJoin
  <2>5. x \in Requests /\ req' = [req EXCEPT ![b] = x]
    BY <1>1, KindRequests DEF LoginJoin, LoginSteps
  <2>6. StepOK(x)'
    BY <2>1, <2>3 DEF StepOK, LoginOK
  <2>7. SameUser(x, session[b])
    BY DEF SameUser
  <2>. QED
    BY <2>2, <2>3, <2>4, <2>5, <2>6, <2>7, RequestGoes
<1>2. CASE LoginMint(b)
  <2>. DEFINE q == req[b]
              s == [user |-> q.user, tenant |-> q.tenant, admin |-> LoginIsAdmin(q.user, q.tenant)]
  <2>1. q \in LoginSteps /\ LoginOK(q)
    BY <1>2, RequestKinds DEF LoginMint, At, WInv, WorkspacesTypeOK, RequestsOK, StepOK
  <2>2. UNCHANGED <<tables, redeemed>> /\ Finish(b) /\ session' = [session EXCEPT ![b] = s]
    BY <1>2 DEF LoginMint
  <2>3. TablesOK' /\ RowsStay /\ InvitesOK' /\ tenants' = tenants
    BY <2>2, TablesKeep DEF tables
  <2>4. s \in Sessions
    BY <2>1 DEF LoginSteps, Sessions, LoginIsAdmin
  <2>5. s.tenant \in tenants' /\ (s.tenant \in Homes => Home[s.user] = s.tenant)
    BY <2>1, <2>3 DEF LoginOK
  <2>. HIDE DEF s
  <2>6. SessionsOK'
    BY <2>2, <2>3, <2>4, <2>5, SessionSet
  <2>7. \A c \in Browsers : c # b => session'[c] = session[c]
    BY <2>2 DEF WInv, WorkspacesTypeOK
  <2>. QED
    BY <2>2, <2>3, <2>6, <2>7, Idles
<1>. QED
  BY <1>1, <1>2 DEF Login

LEMMA CreateKeeps ==
  ASSUME WInv, NEW b \in Browsers, CreateProbe(b) \/ CreateUpsert(b) \/ CreateJoin(b)
  PROVE  WInv'
<1>1. CASE CreateProbe(b)
  <2>1. PICK n \in FreeSlug :
          req' = [req EXCEPT ![b] =
            [op |-> "create", at |-> "upsert", user |-> session[b].user, tenant |-> Slugs[n]]]
    BY <1>1 DEF CreateProbe
  <2>. DEFINE x == [op |-> "create", at |-> "upsert", user |-> session[b].user, tenant |-> Slugs[n]]
  <2>2. Slugs[n] \in Orgs
    BY <2>1, WorkspacesAssumption DEF FreeSlug
  <2>3. session[b].user \in Users
    BY <1>1 DEF CreateProbe, LoggedIn, WInv, WorkspacesTypeOK, Sessions
  <2>4. x \in Requests
    BY <2>2, <2>3, KindRequests DEF CreateSteps
  <2>5. StepOK(x)' /\ SameUser(x, session[b])
    BY DEF StepOK, SameUser, CreateOK
  <2>6. UNCHANGED <<tables, redeemed>> /\ session' = session /\ tenants' = tenants
    BY <1>1 DEF CreateProbe, tables
  <2>7. TablesOK' /\ RowsStay /\ InvitesOK'
    BY <2>6, TablesKeep
  <2>. QED
    BY <2>1, <2>4, <2>5, <2>6, <2>7, RequestGoes
<1>2. CASE CreateUpsert(b)
  <2>1. req[b] \in CreateSteps /\ req[b] # Idle
    BY <1>2, RequestKinds DEF CreateUpsert, At, WInv, WorkspacesTypeOK
  <2>2. PICK x \in CreateSteps : x = [req[b] EXCEPT !.at = "join"] /\ x.tenant = req[b].tenant
    BY <2>1 DEF CreateSteps
  <2>3. x \in Requests /\ x.op = "create" /\ x.tenant \in Tenants /\ req' = [req EXCEPT ![b] = x]
    BY <1>2, <2>1, <2>2, Goes, KindRequests DEF CreateUpsert, CreateSteps, Tenants
  <2>4. TablesOK' /\ RowsStay /\ InvitesOK' /\ x.tenant \in tenants' /\ tenants \subseteq tenants'
    BY <1>2, <2>2, <2>3, TenantAdded DEF CreateUpsert
  <2>5. StepOK(x)' /\ SameUser(x, session[b])
    BY <2>3, <2>4 DEF StepOK, SameUser, CreateOK
  <2>. QED
    BY <1>2, <2>2, <2>3, <2>4, <2>5, RequestGoes DEF CreateUpsert
<1>3. CASE CreateJoin(b)
  <2>. DEFINE q == req[b]
  <2>1. q \in CreateSteps /\ CreateOK(q) /\ q.at = "join"
    BY <1>3, RequestKinds DEF CreateJoin, At, WInv, WorkspacesTypeOK, RequestsOK, StepOK
  <2>2. q.tenant \in Tenants /\ q.user \in Users /\ q.tenant \notin Homes /\ q.tenant \in tenants
    BY <2>1, WorkspacesAssumption DEF CreateSteps, CreateOK, Tenants
  <2>3. tenants' = tenants /\ tenants \subseteq Tenants /\ session' = session
        /\ UNCHANGED <<invite, redeemed>> /\ Finish(b)
    BY <1>3 DEF CreateJoin, WInv, WorkspacesTypeOK
  <2>4. TablesOK' /\ RowsStay /\ InvitesOK'
    <3>1. EnsureMembership(q.tenant, q.user, "owner") /\ "owner" \in Roles
      BY <1>3 DEF CreateJoin, Roles
    <3>. HIDE DEF q
    <3>. QED
      BY <2>2, <2>3, <3>1, MemberAdded
  <2>5. SessionsOK'
    BY <2>3, SessionsKept
  <2>. QED
    BY <2>3, <2>4, <2>5, Idles
<1>. QED
  BY <1>1, <1>2, <1>3

LEMMA BootstrapKeeps ==
  ASSUME WInv, NEW b \in Browsers, NEW t \in Tenants, BootstrapTenant(b, t)
  PROVE  WInv'
<1>1. TablesOK' /\ RowsStay /\ InvitesOK' /\ tenants \subseteq tenants'
  BY TenantAdded DEF BootstrapTenant
<1>2. RequestsOK' /\ SessionsOK' /\ req' = req
  BY <1>1, RequestsKept, SessionsKept DEF BootstrapTenant, WInv
<1>. QED
  BY <1>1, <1>2, Parts, PartsNext

LEMMA SwitchKeeps ==
  ASSUME WInv, NEW b \in Browsers, SwitchMove(b) \/ \E t \in Tenants : SwitchCheck(b, t)
  PROVE  WInv'
<1>1. CASE SwitchMove(b)
  <2>1. UNCHANGED <<tables, redeemed>> /\ Finish(b) /\ UpdateSession(b, req[b].tenant, req[b].admin)
    BY <1>1 DEF SwitchMove
  <2>2. TablesOK' /\ RowsStay /\ InvitesOK' /\ tenants' = tenants
    BY <2>1, TablesKeep DEF tables
  <2>3. SessionsOK' /\ \A c \in Browsers : c # b => session'[c] = session[c]
    <3>1. CASE session[b] = NoSession
      BY <2>1, <2>2, <3>1, SessionsKept DEF UpdateSession
    <3>2. CASE session[b] # NoSession
      <4>. DEFINE q == req[b]
                  s == [session[b] EXCEPT !.tenant = q.tenant, !.admin = q.admin]
      <4>1. q \in SwitchSteps /\ SwitchOK(q) /\ session[b].user = q.user /\ session[b] \in Sessions
        BY <1>1, <3>2, RequestKinds
        DEF SwitchMove, At, WInv, WorkspacesTypeOK, RequestsOK, StepOK, SameUser
      <4>2. s \in Sessions /\ s.tenant = q.tenant /\ s.user = q.user
        BY <4>1 DEF SwitchSteps, Sessions
      <4>3. session' = [session EXCEPT ![b] = s]
        BY <2>1, <3>2 DEF UpdateSession
      <4>4. s.tenant \in tenants' /\ (s.tenant \in Homes => Home[s.user] = s.tenant)
        BY <2>2, <4>1, <4>2 DEF SwitchOK
      <4>. HIDE DEF s
      <4>5. SessionsOK'
        BY <2>2, <4>2, <4>3, <4>4, SessionSet
      <4>. QED
        BY <4>3, <4>5 DEF WInv, WorkspacesTypeOK
    <3>. QED
      BY <3>1, <3>2
  <2>. QED
    BY <2>1, <2>2, <2>3, Idles
<1>2. ASSUME NEW t \in Tenants, SwitchCheck(b, t)
      PROVE  WInv'
  <2>1. PICK u \in Users : u = session[b].user
    BY <1>2 DEF SwitchCheck, LoggedIn, WInv, WorkspacesTypeOK, Sessions
  <2>2. PICK g \in BOOLEAN : g = Grants(role[t][u])
    <3>1. CASE Grants(role[t][u])
      <4>1. TRUE = Grants(role[t][u])
        BY <3>1 DEF Grants
      <4>. QED
        BY <4>1
    <3>2. CASE ~Grants(role[t][u])
      <4>1. FALSE = Grants(role[t][u])
        BY <3>2 DEF Grants
      <4>. QED
        BY <4>1
    <3>. QED
      BY <3>1, <3>2
  <2>. DEFINE x == [op |-> "switch", at |-> "move", user |-> u, tenant |-> t, admin |-> g, evicted |-> FALSE]
  <2>3. req' = [req EXCEPT ![b] = x] /\ UNCHANGED <<tables, redeemed>> /\ session' = session
    BY <1>2, <2>1, <2>2 DEF SwitchCheck
  <2>4. TablesOK' /\ RowsStay /\ InvitesOK' /\ tenants' = tenants /\ role' = role
    BY <2>3, TablesKeep DEF tables
  <2>5. x \in Requests
    BY KindRequests DEF SwitchSteps
  <2>6. role[t][u] # "none"
    BY <1>2, <2>1 DEF SwitchCheck, IsMember
  <2>7. t \in tenants /\ (t \in Homes => t = Home[u])
    BY <2>6 DEF WInv, WorkspacesTypeOK, HomesAreOwn
  <2>8. StepOK(x)' /\ SameUser(x, session[b])
    BY <2>1, <2>2, <2>4, <2>6, <2>7 DEF StepOK, SwitchOK, SameUser, Grants
  <2>. QED
    BY <2>3, <2>4, <2>5, <2>8, RequestGoes
<1>. QED
  BY <1>1, <1>2

\* remove_member refuses when the target is the only owner it counts.
LEMMA OthersCounted ==
  ASSUME NEW t \in Tenants, NEW u \in Users, role[t][u] \in Roles \cup {"none"}, ~IsLastOwner(t, u)
  PROVE  Owners(t) # {u}
<1>1. SUFFICES ASSUME Owners(t) = {u} PROVE FALSE
  OBVIOUS
<1>2. Cardinality(Owners(t)) = 1
  BY <1>1, FS_Singleton
<1>3. role[t][u] = "owner"
  BY <1>1 DEF Owners
<1>. QED
  BY <1>2, <1>3 DEF IsLastOwner

LEMMA RemoveCheckKeeps ==
  ASSUME WInv, NEW b \in Browsers, NEW u \in Users, RemoveCheck(b, u)
  PROVE  WInv'
<1>1. PICK t \in Tenants : t = session[b].tenant
  BY DEF RemoveCheck, IsAdmin, LoggedIn, WInv, WorkspacesTypeOK, Sessions
<1>2. PICK o \in SUBSET Users : o = Owners(t)
  BY DEF Owners
<1>. DEFINE x == [op |-> "remove", at |-> "delete", tenant |-> t, target |-> u, owners |-> o]
<1>3. req' = [req EXCEPT ![b] = x] /\ UNCHANGED <<tables, redeemed>> /\ session' = session
  BY <1>1, <1>2 DEF RemoveCheck
<1>4. x \in Requests
  BY KindRequests DEF RemoveSteps
<1>5. o # {u}
  BY <1>1, <1>2, OthersCounted DEF RemoveCheck, WInv, WorkspacesTypeOK
<1>6. StepOK(x)' /\ SameUser(x, session[b])
  BY <1>5 DEF StepOK, RemoveOK, SameUser
<1>7. TablesOK' /\ RowsStay /\ InvitesOK' /\ tenants' = tenants
  BY <1>3, TablesKeep DEF tables
<1>. QED
  BY <1>3, <1>4, <1>6, <1>7, RequestGoes

\* The other requests for a membership that goes are marked; the rest are as they were.
LEMMA MarkedOK ==
  ASSUME NEW q \in Requests, StepOK(q), tenants' = tenants, invite' = invite,
         NEW t \in Tenants, NEW u \in Users,
         \A s \in Tenants, v \in Users : ~(s = t /\ v = u) => role'[s][v] = role[s][v],
         NEW x, x = IF q.op \in {"switch", "accept"} /\ q.tenant = t /\ q.user = u
                    THEN [q EXCEPT !.evicted = TRUE] ELSE q
  PROVE  x \in Requests /\ StepOK(x)' /\ x.op = q.op /\ (q.op \in {"switch", "accept"} => x.user = q.user)
<1>1. CASE q.op = "switch"
  <2>1. q \in SwitchSteps /\ SwitchOK(q)
    BY <1>1, RequestKinds DEF StepOK
  <2>2. x \in SwitchSteps /\ x.tenant = q.tenant /\ x.user = q.user /\ x.admin = q.admin
        /\ (x.tenant = t /\ x.user = u => x.evicted) /\ (~x.evicted => ~q.evicted)
    BY <1>1, <2>1 DEF SwitchSteps
  <2>3. x \in Requests /\ x.op = "switch" /\ x.tenant \in Tenants /\ x.user \in Users
    BY <2>2, KindRequests DEF SwitchSteps
  <2>4. SwitchOK(x)'
    BY <2>1, <2>2, <2>3 DEF SwitchOK
  <2>. QED
    BY <1>1, <2>2, <2>3, <2>4 DEF StepOK
<1>2. CASE q.op = "accept"
  <2>1. q \in AcceptSteps /\ AcceptOK(q)
    BY <1>2, RequestKinds DEF StepOK
  <2>2. x \in AcceptSteps /\ x.tenant = q.tenant /\ x.user = q.user /\ x.invite = q.invite /\ x.at = q.at
        /\ x.late = q.late /\ (x.tenant = t /\ x.user = u => x.evicted) /\ (~x.evicted => ~q.evicted)
    BY <1>2, <2>1 DEF AcceptSteps
  <2>3. x \in Requests /\ x.op = "accept" /\ x.tenant \in Tenants /\ x.user \in Users
    BY <2>2, KindRequests DEF AcceptSteps
  <2>4. AcceptOK(x)'
    BY <2>1, <2>2, <2>3 DEF AcceptOK
  <2>. QED
    BY <1>2, <2>2, <2>3, <2>4 DEF StepOK
<1>3. CASE q.op \notin {"switch", "accept"}
  BY <1>3 DEF StepOK, LoginOK, CreateOK, RemoveOK
<1>. QED
  BY <1>1, <1>2, <1>3

LEMMA RemoveDeleteKeeps ==
  ASSUME WInv, NEW b \in Browsers, RemoveDelete(b)
  PROVE  WInv'
<1>1. req[b] \in RemoveSteps
  BY RequestKinds DEF RemoveDelete, At, WInv, WorkspacesTypeOK
<1>2. PICK t \in Tenants : t = req[b].tenant
  BY <1>1 DEF RemoveSteps
<1>3. PICK u \in Users : u = req[b].target
  BY <1>1 DEF RemoveSteps
<1>. DEFINE Joining(c) == (At(c, "switch", "move") \/ Accepting(c)) /\ req[c].tenant = t /\ req[c].user = u
            next(c) == IF c = b THEN Idle
                       ELSE IF Joining(c) THEN [req[c] EXCEPT !.evicted = TRUE] ELSE req[c]
<1>4. /\ role' = [role EXCEPT ![t][u] = "none"] /\ req' = [c \in Browsers |-> next(c)]
      /\ tenants' = tenants /\ invite' = invite /\ session' = session /\ redeemed' = redeemed
  BY <1>2, <1>3 DEF RemoveDelete
<1>5. /\ role' \in [Tenants -> [Users -> Roles \cup {"none"}]] /\ role'[t][u] = "none"
      /\ \A s \in Tenants, v \in Users : ~(s = t /\ v = u) => role'[s][v] = role[s][v]
  BY <1>4 DEF WInv, WorkspacesTypeOK
<1>6. TablesOK' /\ InvitesOK'
  BY <1>4, <1>5 DEF WInv, WorkspacesTypeOK, HomesAreOwn, InvitesOK, TablesOK
<1>7. SessionsOK'
  BY <1>4, SessionsKept
<1>8. ASSUME NEW c \in Browsers, c # b, req[c] # Idle
      PROVE  \E x \in Requests : x = next(c) /\ StepOK(x)' /\ SameUser(x, session[c])
  <2>1. PICK q \in Requests : q = req[c] /\ StepOK(q) /\ SameUser(q, session[c])
    BY <1>8 DEF WInv, WorkspacesTypeOK, RequestsOK
  <2>2. Joining(c) <=> q.op \in {"switch", "accept"} /\ q.tenant = t /\ q.user = u
    BY <1>8, <2>1, RequestKinds DEF At, Accepting, SwitchSteps
  <2>3. PICK x : x = IF q.op \in {"switch", "accept"} /\ q.tenant = t /\ q.user = u
                     THEN [q EXCEPT !.evicted = TRUE] ELSE q
    OBVIOUS
  <2>4. x = next(c)
    BY <1>8, <2>1, <2>2, <2>3
  <2>5. x \in Requests /\ StepOK(x)' /\ x.op = q.op /\ (q.op \in {"switch", "accept"} => x.user = q.user)
    BY <1>4, <1>5, <2>1, <2>3, MarkedOK
  <2>6. SameUser(x, session[c])
    BY <2>1, <2>5 DEF SameUser
  <2>. QED
    BY <2>4, <2>5, <2>6
<1>9. ASSUME NEW c \in Browsers
      PROVE  next(c) \in Requests \cup {Idle}
  BY <1>8 DEF Joining, At, Accepting
<1>10. req' \in [Browsers -> Requests \cup {Idle}]
  BY <1>4, <1>9
<1>11. RequestsOK'
  <2>1. ASSUME NEW c \in Browsers, (req[c] # Idle)'
        PROVE  (StepOK(req[c]) /\ SameUser(req[c], session[c]))'
    <3>1. c # b /\ req[c] # Idle /\ req'[c] = next(c)
      BY <1>4, <2>1 DEF Joining, At, Accepting
    <3>2. PICK x \in Requests : x = next(c) /\ StepOK(x)' /\ SameUser(x, session[c])
      BY <1>8, <3>1
    <3>3. x = req'[c] /\ session'[c] = session[c]
      BY <1>4, <3>1, <3>2
    <3>. QED
      BY <3>2, <3>3 DEF StepOK, SameUser, LoginOK, CreateOK, SwitchOK, RemoveOK, AcceptOK
  <2>. QED
    BY <2>1 DEF RequestsOK
<1>. QED
  BY <1>6, <1>7, <1>10, <1>11, PartsNext

LEMMA InvitesKeep ==
  ASSUME WInv, NEW i \in Invites,
         \/ \E b \in Browsers : (\E r \in Roles : CreateInvite(b, i, r)) \/ DeleteInvite(b, i)
         \/ ExpireInvite(i)
  PROVE  WInv'
<1>1. /\ session' = session /\ req' = req /\ UNCHANGED <<tenants, role>> /\ redeemed' = redeemed
  BY DEF CreateInvite, DeleteInvite, ExpireInvite
<1>2. PICK x \in InviteRows :
        /\ invite' = [invite EXCEPT ![i] = x] /\ x.tenant \in Orgs /\ x.tenant \in tenants
        /\ i \in redeemed => x.is \in {"accepted", "deleted"}
  <2>1. ASSUME NEW b \in Browsers, NEW r \in Roles, CreateInvite(b, i, r)
        PROVE  \E x \in InviteRows :
                 /\ invite' = [invite EXCEPT ![i] = x] /\ x.tenant \in Orgs /\ x.tenant \in tenants
                 /\ i \in redeemed => x.is \in {"accepted", "deleted"}
    <3>. DEFINE x == [tenant |-> session[b].tenant, role |-> r, is |-> "open"]
    <3>1. session[b].tenant \in tenants /\ session[b].tenant \in Orgs /\ i \notin redeemed
      BY <2>1 DEF CreateInvite, IsAdmin, LoggedIn, InsertInvite, WInv, WorkspacesTypeOK, InvitesOK
    <3>2. x \in InviteRows /\ invite' = [invite EXCEPT ![i] = x]
      BY <2>1, <3>1 DEF CreateInvite, InsertInvite, InviteRows, Tenants
    <3>. QED
      BY <3>1, <3>2
  <2>2. ASSUME NEW is \in {"deleted", "expired"}, invite[i] # NoInvite,
               invite' = [invite EXCEPT ![i].is = is], is = "expired" => invite[i].is = "open"
        PROVE  \E x \in InviteRows :
                 /\ invite' = [invite EXCEPT ![i] = x] /\ x.tenant \in Orgs /\ x.tenant \in tenants
                 /\ i \in redeemed => x.is \in {"accepted", "deleted"}
    <3>. DEFINE x == [invite[i] EXCEPT !.is = is]
    <3>1. invite[i] \in InviteRows
      BY <2>2 DEF WInv, WorkspacesTypeOK
    <3>2. x \in InviteRows /\ x.tenant = invite[i].tenant /\ x.is = is
      BY <3>1 DEF InviteRows
    <3>3. invite' = [invite EXCEPT ![i] = x]
      BY <2>2
    <3>4. invite[i].tenant \in Orgs /\ invite[i].tenant \in tenants
          /\ (i \in redeemed => invite[i].is \in {"accepted", "deleted"})
      BY <2>2 DEF WInv, InvitesOK
    <3>5. i \in redeemed => is = "deleted"
      BY <2>2, <3>4
    <3>. QED
      BY <3>2, <3>3, <3>4, <3>5
  <2>. QED
    BY <2>1, <2>2 DEF DeleteInvite, IsVisible, ExpireInvite, IsOpen
<1>3. TablesOK' /\ RowsStay /\ InvitesOK'
  BY <1>1, <1>2, InviteSet
<1>4. RequestsOK' /\ SessionsOK'
  BY <1>1, <1>3, RequestsKept, SessionsKept DEF WInv
<1>. QED
  BY <1>1, <1>3, <1>4, Parts, PartsNext

LEMMA AcceptKeeps ==
  ASSUME WInv, NEW b \in Browsers,
         (\E i \in Invites : AcceptCheck(b, i)) \/ AcceptJoin(b) \/ AcceptMark(b) \/ AcceptRole(b)
  PROVE  WInv'
<1>1. ASSUME NEW i \in Invites, AcceptCheck(b, i)
      PROVE  WInv'
  <2>1. PICK u \in Users : u = session[b].user /\ session[b] # NoSession
    BY <1>1 DEF AcceptCheck, LoggedIn, WInv, WorkspacesTypeOK, Sessions
  <2>2. PICK v \in InviteRows : v = invite[i] /\ v.is = "open" /\ invite[i] # NoInvite
    BY <1>1 DEF AcceptCheck, IsOpen, WInv, WorkspacesTypeOK
  <2>3. v.tenant \in Orgs /\ v.tenant \in tenants /\ i \notin redeemed
    BY <2>2 DEF WInv, InvitesOK
  <2>. DEFINE x == [op |-> "accept", at |-> "join", user |-> u, invite |-> i, tenant |-> v.tenant,
                    role |-> v.role, evicted |-> FALSE, late |-> FALSE]
  <2>4. (i \in redeemed) = FALSE
    BY <2>3
  <2>5. req' = [req EXCEPT ![b] = x] /\ UNCHANGED <<tables, redeemed>> /\ session' = session
    BY <1>1, <2>1, <2>2, <2>4 DEF AcceptCheck
  <2>6. TablesOK' /\ RowsStay /\ InvitesOK' /\ tenants' = tenants /\ invite' = invite
    BY <2>5, TablesKeep DEF tables
  <2>7. x \in Requests
    BY <2>2, KindRequests DEF AcceptSteps, InviteRows, Roles
  <2>8. StepOK(x)' /\ SameUser(x, session[b])
    BY <2>1, <2>2, <2>3, <2>6 DEF StepOK, AcceptOK, SameUser
  <2>. QED
    BY <2>5, <2>6, <2>7, <2>8, RequestGoes
<1>2. ASSUME AcceptJoin(b) \/ AcceptMark(b) \/ AcceptRole(b)
      PROVE  WInv'
  <2>1. PICK q \in AcceptSteps : q = req[b] /\ q \in Requests /\ AcceptOK(q) /\ SameUser(q, session[b])
                                 /\ q.op = "accept" /\ req[b] # Idle
    BY <1>2, RequestKinds
    DEF AcceptJoin, AcceptMark, AcceptRole, At, WInv, WorkspacesTypeOK, RequestsOK, StepOK
  <2>2. /\ q.tenant \in Orgs /\ q.tenant \in Tenants /\ q.tenant \notin Homes /\ q.tenant \in tenants
        /\ q.user \in Users /\ q.invite \in Invites /\ q.role \in Roles /\ ~q.late /\ q.evicted \in BOOLEAN
    BY <2>1, WorkspacesAssumption DEF AcceptSteps, AcceptOK, Tenants
  <2>3. CASE AcceptJoin(b)
    <3>1. PICK x \in AcceptSteps : x = [q EXCEPT !.at = "mark"] /\ x.op = "accept" /\ x.user = q.user
                                   /\ x.tenant = q.tenant /\ x.invite = q.invite /\ x.late = q.late
      <4>. DEFINE y == [q EXCEPT !.at = "mark"]
      <4>1. y \in AcceptSteps /\ y.op = "accept" /\ y.user = q.user /\ y.tenant = q.tenant
            /\ y.invite = q.invite /\ y.late = q.late /\ y.evicted = q.evicted
        BY <2>1 DEF AcceptSteps
      <4>. QED
        BY <4>1
    <3>2. req' = [req EXCEPT ![b] = x] /\ x \in Requests
      BY <2>1, <2>3, <3>1, Goes, KindRequests DEF AcceptJoin
    <3>3. EnsureMembership(q.tenant, q.user, q.role) /\ UNCHANGED <<invite, redeemed>>
          /\ tenants' = tenants /\ session' = session /\ tenants \subseteq Tenants
      BY <2>1, <2>3 DEF AcceptJoin, WInv, WorkspacesTypeOK
    <3>4. TablesOK' /\ RowsStay /\ InvitesOK' /\ role'[q.tenant][q.user] # "none"
      BY <2>2, <3>3, MemberAdded
    <3>5. StepOK(x)' /\ SameUser(x, session[b])
      BY <2>1, <2>2, <3>1, <3>3, <3>4 DEF StepOK, AcceptOK, SameUser
    <3>. QED
      BY <3>2, <3>3, <3>4, <3>5, RequestGoes
  <2>4. CASE AcceptMark(b)
    <3>1. PICK x \in AcceptSteps : x = [q EXCEPT !.at = "role"] /\ x.op = "accept" /\ x.user = q.user
                                   /\ x.tenant = q.tenant /\ x.invite = q.invite /\ x.late = q.late
                                   /\ x.evicted = q.evicted
      <4>. DEFINE y == [q EXCEPT !.at = "role"]
      <4>1. y \in AcceptSteps /\ y.op = "accept" /\ y.user = q.user /\ y.tenant = q.tenant
            /\ y.invite = q.invite /\ y.late = q.late /\ y.evicted = q.evicted
        BY <2>1 DEF AcceptSteps
      <4>. QED
        BY <4>1
    <3>2. req' = [req EXCEPT ![b] = x] /\ x \in Requests /\ q.at = "mark"
      BY <2>1, <2>4, <3>1, Goes, KindRequests DEF AcceptMark, At
    <3>3. invite[q.invite] \in InviteRows /\ invite[q.invite] # NoInvite
          /\ invite[q.invite].tenant \in Orgs /\ invite[q.invite].tenant \in tenants
      BY <2>1, <2>2 DEF AcceptOK, WInv, WorkspacesTypeOK, InvitesOK
    <3>4. PICK v \in InviteRows : invite' = [invite EXCEPT ![q.invite] = v]
            /\ v.tenant = invite[q.invite].tenant /\ v.is \in {"accepted", "deleted"}
      <4>1. CASE invite[q.invite].is = "deleted"
        <5>1. invite' = [invite EXCEPT ![q.invite] = invite[q.invite]]
          BY <2>1, <2>4, <4>1 DEF AcceptMark, WInv, WorkspacesTypeOK
        <5>. QED
          BY <3>3, <4>1, <5>1
      <4>2. CASE invite[q.invite].is # "deleted"
        <5>. DEFINE v == [invite[q.invite] EXCEPT !.is = "accepted"]
        <5>1. invite' = [invite EXCEPT ![q.invite] = v]
          BY <2>1, <2>4, <4>2 DEF AcceptMark
        <5>2. v \in InviteRows /\ v.tenant = invite[q.invite].tenant /\ v.is = "accepted"
          BY <3>3 DEF InviteRows
        <5>. QED
          BY <5>1, <5>2
      <4>. QED
        BY <4>1, <4>2
    <3>5. redeemed' = redeemed \cup {q.invite} /\ UNCHANGED <<tenants, role>> /\ session' = session
      BY <2>1, <2>4 DEF AcceptMark
    <3>6. TablesOK' /\ RowsStay /\ InvitesOK'
      BY <2>2, <3>3, <3>4, <3>5, InviteSet
    <3>7. StepOK(x)' /\ SameUser(x, session[b])
      BY <2>1, <2>2, <3>1, <3>2, <3>5, <3>6 DEF StepOK, AcceptOK, SameUser, RowsStay
    <3>. QED
      BY <3>2, <3>5, <3>6, <3>7, RequestGoes
  <2>5. CASE AcceptRole(b)
    <3>1. PICK g \in BOOLEAN : g = Grants(role[q.tenant][q.user])
      <4>1. CASE Grants(role[q.tenant][q.user])
        <5>1. TRUE = Grants(role[q.tenant][q.user])
          BY <4>1 DEF Grants
        <5>. QED
          BY <5>1
      <4>2. CASE ~Grants(role[q.tenant][q.user])
        <5>1. FALSE = Grants(role[q.tenant][q.user])
          BY <4>2 DEF Grants
        <5>. QED
          BY <5>1
      <4>. QED
        BY <4>1, <4>2
    <3>. DEFINE x == [op |-> "switch", at |-> "move", user |-> q.user, tenant |-> q.tenant,
                      admin |-> g, evicted |-> q.evicted]
    <3>2. req' = [req EXCEPT ![b] = x] /\ UNCHANGED <<tables, redeemed>> /\ session' = session /\ q.at = "role"
      BY <2>1, <2>5, <3>1 DEF AcceptRole, At
    <3>3. TablesOK' /\ RowsStay /\ InvitesOK' /\ tenants' = tenants /\ role' = role
      BY <3>2, TablesKeep DEF tables
    <3>4. x \in Requests
      BY <2>2, KindRequests DEF SwitchSteps
    <3>5. StepOK(x)' /\ SameUser(x, session[b])
      BY <2>1, <2>2, <3>1, <3>2, <3>3 DEF StepOK, AcceptOK, SwitchOK, SameUser, Grants
    <3>. QED
      BY <3>2, <3>3, <3>4, <3>5, RequestGoes
  <2>. QED
    BY <1>2, <2>3, <2>4, <2>5
<1>. QED
  BY <1>1, <1>2

LEMMA EndsKeep ==
  ASSUME WInv, NEW b \in Browsers, Abandon(b) \/ Logout(b) \/ ExpireSession(b)
  PROVE  WInv'
<1>1. UNCHANGED <<tables, redeemed>> /\ TablesOK' /\ RowsStay /\ InvitesOK' /\ tenants' = tenants
  BY TablesKeep DEF Abandon, Logout, ExpireSession, EndSession, tables
<1>2. CASE Abandon(b)
  BY <1>1, <1>2, SessionsKept, Idles DEF Abandon
<1>3. CASE EndSession(b)
  <2>1. session' = [session EXCEPT ![b] = NoSession] /\ req' = req
    BY <1>3 DEF EndSession
  <2>2. SessionsOK'
    BY <1>1, <2>1, SessionSet
  <2>3. RequestsOK'
    BY <1>1, <2>1, RequestsKept DEF WInv, WorkspacesTypeOK
  <2>. QED
    BY <1>1, <2>1, <2>2, <2>3, Parts, PartsNext
<1>. QED
  BY <1>2, <1>3 DEF Logout, ExpireSession

LEMMA WInvNext == WInv /\ [WorkspacesNext]_workspaceVars => WInv'
<1> SUFFICES ASSUME WInv, [WorkspacesNext]_workspaceVars PROVE WInv'
  OBVIOUS
<1>1. CASE UNCHANGED workspaceVars
  <2>1. RowsStay /\ TablesOK' /\ InvitesOK' /\ SessionsOK' /\ RequestsOK' /\ req' = req
    BY <1>1, TablesKeep, SessionsKept, RequestsKept DEF workspaceVars, WInv, tables
  <2>. QED
    BY <2>1, Parts, PartsNext
<1>2. ASSUME NEW i \in Invites, ExpireInvite(i) PROVE WInv'
  BY <1>2, InvitesKeep
<1>3. ASSUME NEW b \in Browsers, Login(b) \/ Membership(b) \/ Inviting(b)
                                 \/ Abandon(b) \/ Logout(b) \/ ExpireSession(b)
      PROVE  WInv'
  <2>1. CASE Login(b)
    BY <2>1, LoginKeeps
  <2>2. CASE Membership(b)
    BY <2>2, CreateKeeps, BootstrapKeeps, SwitchKeeps, RemoveCheckKeeps, RemoveDeleteKeeps DEF Membership
  <2>3. CASE Inviting(b)
    BY <2>3, InvitesKeep, AcceptKeeps DEF Inviting
  <2>4. CASE Abandon(b) \/ Logout(b) \/ ExpireSession(b)
    BY <2>4, EndsKeep
  <2>. QED
    BY <1>3, <2>1, <2>2, <2>3, <2>4
<1>. QED
  BY <1>1, <1>2, <1>3 DEF WorkspacesNext

LEMMA WorkspacesInvariant == WorkspacesSpec => []WInv
  BY WInvInit, WInvNext, PTL DEF WorkspacesSpec

-----------------------------------------------------------------------------
(* Theorems. *)

\* Type correctness: memberships and sessions belong to workspaces that have a row
\* (workspace_members.workspace_id and sessions.tenant_id reference tenants).
THEOREM WorkspacesTypeCorrect == WorkspacesSpec => []WorkspacesTypeOK
<1>1. WInv => WorkspacesTypeOK
  BY DEF WInv
<1>. QED
  BY <1>1, WorkspacesInvariant, PTL

\* accept_invite lets nobody in whose look at the invite came after its use was recorded,
\* and no login, switch or invite lets anybody into an individual workspace but the users
\* whose ids yield its id, be it one user or several.
THEOREM InvitesAlwaysHold == WorkspacesSpec => []InvitesHold
<1>1. WInv => InvitesHold
  <2> SUFFICES ASSUME WInv PROVE InvitesHold
    OBVIOUS
  <2>1. ASSUME NEW b \in Browsers, Accepting(b) PROVE ~req[b].late
    <3>1. StepOK(req[b]) /\ req[b].op = "accept"
      BY <2>1 DEF Accepting, WInv, RequestsOK
    <3>. QED
      BY <3>1 DEF StepOK, AcceptOK
  <2>. QED
    BY <2>1 DEF InvitesHold, WInv, HomesAreOwn
<1>. QED
  BY <1>1, WorkspacesInvariant, PTL

\* Only RemoveDelete takes a membership away; every other step keeps the owners.
LEMMA OwnersLeave ==
  ASSUME WInv, WorkspacesNext, NEW t \in Tenants, NEW u \in Users,
         role[t][u] # "none", role'[t][u] # role[t][u]
  PROVE  \E b \in Browsers : RemoveDelete(b)
<1>1. \A s \in Tenants, v \in Users, r \in Roles :
        EnsureMembership(s, v, r) => role'[t][u] = role[t][u]
  BY MembershipAdded DEF WInv
<1>2. {"owner", "admin", "member"} \subseteq Roles
  BY DEF Roles
<1>3. ASSUME NEW b \in Browsers, Login(b) PROVE FALSE
  <2>1. PICK s \in Tenants, v \in Users : LoginJoin(b, v, s)
    BY <1>3 DEF Login, LoginMint, tables
  <2>2. EnsureMembership(s, v, "owner") \/ EnsureMembership(s, v, "member") \/ UNCHANGED role
    BY <2>1 DEF LoginJoin
  <2>. QED
    BY <1>1, <1>2, <2>2
<1>4. ASSUME NEW b \in Browsers, CreateJoin(b) PROVE FALSE
  <2>1. req[b] \in CreateSteps /\ EnsureMembership(req[b].tenant, req[b].user, "owner")
    BY <1>4, RequestKinds DEF CreateJoin, At, WInv, WorkspacesTypeOK
  <2>2. req[b].tenant \in Tenants /\ req[b].user \in Users
    BY <2>1 DEF CreateSteps, Tenants
  <2>. QED
    BY <1>1, <1>2, <2>1, <2>2
<1>5. ASSUME NEW b \in Browsers, AcceptJoin(b) PROVE FALSE
  <2>1. req[b] \in AcceptSteps /\ EnsureMembership(req[b].tenant, req[b].user, req[b].role)
    BY <1>5, RequestKinds DEF AcceptJoin, At, WInv, WorkspacesTypeOK
  <2>2. req[b].tenant \in Tenants /\ req[b].user \in Users /\ req[b].role \in Roles
    BY <2>1 DEF AcceptSteps
  <2>. QED
    BY <1>1, <2>1, <2>2
<1>. QED
  BY <1>3, <1>4, <1>5
  DEF WorkspacesNext, Membership, Inviting, CreateProbe, CreateUpsert, SwitchCheck, SwitchMove,
      BootstrapTenant, RemoveCheck, CreateInvite, DeleteInvite, AcceptCheck, AcceptMark, AcceptRole,
      Abandon, Logout, ExpireSession, EndSession, ExpireInvite, tables

\* remove_member keeps the last owner it sees: a workspace loses its last one only to a
\* removal that counted other owners than there were when its DELETE came.
THEOREM OwnersAlwaysStay == WorkspacesSpec => OwnersStay
<1>. DEFINE Late(t) == \E b \in Browsers : At(b, "remove", "delete") /\ req[b].tenant = t
                                           /\ req[b].owners # Owners(t)
<1>1. ASSUME WInv, WorkspacesNext, NEW t \in Tenants, Owners(t) # {}, Owners(t)' = {}
      PROVE  Late(t)
  <2>1. PICK u \in Users : role[t][u] = "owner" /\ role'[t][u] # "owner"
    BY <1>1 DEF Owners
  <2>2. PICK b \in Browsers : RemoveDelete(b)
    BY <1>1, <2>1, OwnersLeave
  <2>3. req[b] \in RemoveSteps /\ RemoveOK(req[b])
    BY <1>1, <2>2, RequestKinds DEF RemoveDelete, At, WInv, WorkspacesTypeOK, RequestsOK, StepOK
  <2>4. role' = [role EXCEPT ![req[b].tenant][req[b].target] = "none"]
    BY <2>2 DEF RemoveDelete
  <2>5. ASSUME NEW s \in Tenants, NEW v \in Users, role'[s][v] # role[s][v]
        PROVE  s = req[b].tenant /\ v = req[b].target
    BY <1>1, <2>3, <2>4, <2>5 DEF RemoveSteps, WInv, WorkspacesTypeOK
  <2>6. t = req[b].tenant /\ u = req[b].target
    BY <2>1, <2>5
  <2>7. \A v \in Users : role[t][v] = "owner" => v = u
    BY <1>1, <2>5, <2>6 DEF Owners
  <2>8. Owners(t) = {u}
    BY <2>1, <2>7 DEF Owners
  <2>. QED
    BY <2>2, <2>3, <2>6, <2>8 DEF RemoveDelete, RemoveOK
<1>2. ASSUME UNCHANGED workspaceVars, NEW t \in Tenants
      PROVE  Owners(t)' = Owners(t)
  BY <1>2 DEF workspaceVars, tables, Owners
<1>3. WInv /\ [WorkspacesNext]_workspaceVars =>
        [\A t \in Tenants : Owners(t) # {} /\ Owners(t)' = {} =>
           \E b \in Browsers : At(b, "remove", "delete") /\ req[b].tenant = t
                               /\ req[b].owners # Owners(t)]_workspaceVars
  BY <1>1, <1>2
<1>. QED
  BY <1>3, WorkspacesInvariant, PTL DEF OwnersStay, WorkspacesSpec

\* The session of a browser whose switch is under way ends, stays or moves.
LEMMA OnlyMoves ==
  ASSUME WInv, WorkspacesNext, NEW b \in Browsers, At(b, "switch", "move"),
         session'[b] # session[b], session'[b] # NoSession
  PROVE  SwitchMove(b)
<1>1. session \in [Browsers -> Sessions \cup {NoSession}]
  BY DEF WInv, WorkspacesTypeOK
<1>2. ASSUME NEW c \in Browsers, EndSession(c) PROVE FALSE
  BY <1>1, <1>2 DEF EndSession
<1>3. ASSUME NEW c \in Browsers, LoginMint(c) PROVE FALSE
  <2>1. c # b
    BY <1>3 DEF LoginMint, At
  <2>. QED
    BY <1>1, <1>3, <2>1 DEF LoginMint
<1>4. ASSUME NEW c \in Browsers, SwitchMove(c) PROVE c = b
  BY <1>1, <1>4 DEF SwitchMove, UpdateSession
<1>. QED
  BY <1>2, <1>3, <1>4
  DEF WorkspacesNext, Login, LoginJoin, Membership, Inviting, CreateProbe, CreateUpsert, CreateJoin,
      SwitchCheck, BootstrapTenant, RemoveCheck, RemoveDelete, CreateInvite, DeleteInvite,
      AcceptCheck, AcceptJoin, AcceptMark, AcceptRole, Abandon, Logout, ExpireSession, ExpireInvite

\* switch_workspace and accept_invite move a session with the rights of the membership
\* its user has at that moment, unless the user was removed while they were under way.
THEOREM MovesAlwaysCurrent == WorkspacesSpec => MovesAreCurrent
<1>. DEFINE Current(b) == LET t == session'[b].tenant  u == session'[b].user
                          IN role[t][u] # "none" /\ session'[b].admin = Grants(role[t][u])
<1>1. ASSUME WInv, WorkspacesNext, NEW b \in Browsers, At(b, "switch", "move"),
             session'[b] # session[b], session'[b] # NoSession, ~req[b].evicted
      PROVE  Current(b)
  <2>1. UpdateSession(b, req[b].tenant, req[b].admin)
    BY <1>1, OnlyMoves DEF SwitchMove
  <2>2. session[b] # NoSession
    BY <1>1, <2>1 DEF UpdateSession
  <2>3. req[b] \in SwitchSteps /\ SwitchOK(req[b]) /\ session[b].user = req[b].user /\ session[b] \in Sessions
    BY <1>1, <2>2, RequestKinds
    DEF At, WInv, WorkspacesTypeOK, RequestsOK, StepOK, SameUser
  <2>. DEFINE s == [session[b] EXCEPT !.tenant = req[b].tenant, !.admin = req[b].admin]
  <2>4. s.tenant = req[b].tenant /\ s.admin = req[b].admin /\ s.user = req[b].user
    BY <2>3 DEF Sessions
  <2>5. session' = [session EXCEPT ![b] = s]
    BY <2>1, <2>2 DEF UpdateSession
  <2>. HIDE DEF s
  <2>6. session'[b] = s
    BY <1>1, <2>5 DEF WInv, WorkspacesTypeOK
  <2>. QED
    BY <1>1, <2>3, <2>4, <2>6 DEF SwitchOK
<1>2. WInv /\ [WorkspacesNext]_workspaceVars =>
        [\A b \in Browsers :
           At(b, "switch", "move") /\ session'[b] # session[b] /\ session'[b] # NoSession
           /\ ~req[b].evicted =>
             LET t == session'[b].tenant  u == session'[b].user
             IN role[t][u] # "none" /\ session'[b].admin = Grants(role[t][u])]_workspaceVars
  BY <1>1
<1>. QED
  BY <1>2, WorkspacesInvariant, PTL DEF MovesAreCurrent, WorkspacesSpec
=============================================================================
