----------------------------- MODULE Handshakes -----------------------------
(***************************************************************************)
(* The two OAuth handshakes that leave a row in oidc_pending while the     *)
(* browser is away: the OIDC login (qpedia-api/src/auth.rs) and the        *)
(* connection of Google Drive (routes.rs), with the grant and the          *)
(* connector it leaves (qpedia-pg-store/src/oidc_pending.rs,               *)
(* oauth_grants.rs, slug.rs, connectors.rs).                               *)
(*                                                                         *)
(* The callback of a handshake may be requested any number of times (a     *)
(* reload, a duplicated redirect), at once or one after the other.  The    *)
(* identity provider and the code exchange are external: an exchange       *)
(* succeeds, with a fresh refresh token for Drive, or fails.               *)
(***************************************************************************)
EXTENDS Integers, FiniteSets

CONSTANTS
  States,      \* random states of handshakes; each is drawn once
  Callbacks,   \* callback requests that may be under way at once
  Names,       \* bound: google-drive, google-drive-2, ..., as 1..Names
  NoHandshake, Taken, NoGrant, NoDrive

ASSUME HandshakeAssumption == Names \in Nat /\ Taken # NoHandshake

VARIABLES
  pending,    \* oidc_pending, with Taken for the rows that are gone
  callback,   \* the handshake each callback serves and how far it is, as a set
  grant,      \* the tenant's oauth_grants row: the handshake its token is from
  drives,     \* the connectors by name: the handshake their token is from
  opened      \* history: how many sessions and connectors each handshake has made

handshakeVars == <<pending, callback, grant, drives, opened>>

Kinds == {"login", "drive"}
Servings == [state : States, kind : Kinds, at : {"exchange", "session", "grant", "name", "insert"},
             name : 0..Names]

HandshakeTypeOK ==
  /\ pending \in [States -> {NoHandshake, Taken} \cup [kind : Kinds, stale : BOOLEAN]]
  /\ callback \in [Callbacks -> SUBSET Servings]
  /\ \A c \in Callbacks : \A v, w \in callback[c] : v = w
  /\ grant \in States \cup {NoGrant}
  /\ drives \in [1..Names -> States \cup {NoDrive}]
  /\ opened \in [States -> Nat]

HandshakeInit ==
  /\ pending = [s \in States |-> NoHandshake]
  /\ callback = [c \in Callbacks |-> {}]
  /\ grant = NoGrant
  /\ drives = [n \in 1..Names |-> NoDrive]
  /\ opened = [s \in States |-> 0]

Rows == {s \in States : pending[s] \notin {NoHandshake, Taken}}
StaleRows == {s \in Rows : pending[s].stale}

\* save_pending inserts the row and, in a second statement whose failure is ignored,
\* sweeps the rows older than 600 s.
SavePending(s, kind) ==
  /\ pending[s] = NoHandshake
  /\ \E swept \in {{}, StaleRows} :
       pending' = [t \in States |-> IF t = s THEN [kind |-> kind, stale |-> FALSE]
                                    ELSE IF t \in swept THEN Taken ELSE pending[t]]
  /\ UNCHANGED <<callback, grant, drives, opened>>

OidcLogin(s) == SavePending(s, "login")
GoogleAuthorize(s) == SavePending(s, "drive")

\* 600 seconds pass.
GrowStale(s) ==
  /\ s \in Rows \ StaleRows
  /\ pending' = [pending EXCEPT ![s].stale = TRUE]
  /\ UNCHANGED <<callback, grant, drives, opened>>

Serve(c, s) ==
  /\ callback[c] = {} /\ s \in Rows
  /\ callback' = [callback EXCEPT ![c] =
       {[state |-> s, kind |-> pending[s].kind, at |-> "exchange", name |-> 0]}]

\* Seeded fault: the row is looked up, and not deleted by the same statement.
TakePendingKept(c, s) ==
  /\ Serve(c, s) /\ ~pending[s].stale
  /\ UNCHANGED <<pending, grant, drives, opened>>

\* Both callbacks begin with take_pending, one DELETE ... RETURNING of a row younger
\* than 600 s.  It takes the row of the other kind as well; the exchange then fails.
TakePending(c, s) ==
  /\ Serve(c, s) /\ ~pending[s].stale
  /\ pending' = [pending EXCEPT ![s] = Taken]
  /\ UNCHANGED <<grant, drives, opened>>

Serving(c, place) == {v \in callback[c] : v.at = place}
Step(c, v, place) == callback' = [callback EXCEPT ![c] = {[v EXCEPT !.at = place]}]
Leave(c) == callback' = [callback EXCEPT ![c] = {}]

\* The code is exchanged; the id token, or a refresh token, comes back.
Exchange(c) ==
  \E v \in Serving(c, "exchange") :
    /\ Step(c, v, IF v.kind = "login" THEN "session" ELSE "grant")
    /\ UNCHANGED <<pending, grant, drives, opened>>

\* oidc_callback mints the session.
OpenSession(c) ==
  \E v \in Serving(c, "session") :
    /\ opened' = [opened EXCEPT ![v.state] = @ + 1]
    /\ Leave(c) /\ UNCHANGED <<pending, grant, drives>>

\* upsert_oauth_grant: the organisation's grant is overwritten.
StoreGrant(c) ==
  \E v \in Serving(c, "grant") :
    /\ grant' = v.state
    /\ Step(c, v, "name")
    /\ UNCHANGED <<pending, drives, opened>>

\* unique_connector_name: the first name no connector has.
NameConnector(c) ==
  \E v \in Serving(c, "name"), n \in 1..Names :
    /\ drives[n] = NoDrive /\ \A m \in 1..(n - 1) : drives[m] # NoDrive
    /\ callback' = [callback EXCEPT ![c] = {[v EXCEPT !.at = "insert", !.name = n]}]
    /\ UNCHANGED <<pending, grant, drives, opened>>

\* insert_connector, which fails if another callback has used the name since.
InsertConnector(c) ==
  \E v \in Serving(c, "insert") :
    /\ IF drives[v.name] = NoDrive
       THEN /\ drives' = [drives EXCEPT ![v.name] = v.state]
            /\ opened' = [opened EXCEPT ![v.state] = @ + 1]
       ELSE UNCHANGED <<drives, opened>>
    /\ Leave(c) /\ UNCHANGED <<pending, grant>>

\* google_callback after the exchange: a grant without a refresh token is refused.
GoogleCallback(c) == StoreGrant(c) \/ NameConnector(c) \/ InsertConnector(c)

\* The exchange, or any statement, fails, or the process dies: the handshake is lost.
CallbackFails(c) ==
  /\ callback[c] # {}
  /\ Leave(c) /\ UNCHANGED <<pending, grant, drives, opened>>

\* delete_connector_route; the grant stays.
DropConnector(n) ==
  /\ drives[n] # NoDrive
  /\ drives' = [drives EXCEPT ![n] = NoDrive]
  /\ UNCHANGED <<pending, callback, grant, opened>>

HandshakeNext ==
  \/ \E s \in States : OidcLogin(s) \/ GoogleAuthorize(s) \/ GrowStale(s)
  \/ \E c \in Callbacks :
       \/ \E s \in States : TakePending(c, s)
       \/ Exchange(c) \/ OpenSession(c) \/ GoogleCallback(c)
       \/ CallbackFails(c)
  \/ \E n \in 1..Names : DropConnector(n)

HandshakeSpec == HandshakeInit /\ [][HandshakeNext]_handshakeVars

-----------------------------------------------------------------------------
\* However often its callback is requested, at once or one after the other, and wherever
\* it breaks off, a handshake makes one session or connector at most, and no two
\* callbacks exchange its code.
HandshakesServeOnce ==
  /\ \A s \in States : opened[s] <= 1
  /\ \A c, d \in Callbacks : \A v \in callback[c], w \in callback[d] : v.state = w.state => c = d
=============================================================================
