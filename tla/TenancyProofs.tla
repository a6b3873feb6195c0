---------------------------- MODULE TenancyProofs ----------------------------
(***************************************************************************)
(* Theorems about domain claims, handshakes and the cache of signing keys, *)
(* for every set of workspaces, domains, tokens, handshakes, callbacks,    *)
(* keys and requests, and every length of the times; and about all parts   *)
(* of the tenancy together.                                                *)
(***************************************************************************)
EXTENDS MCTenancy, WorkspacesProofs, FiniteSetTheorems, TLAPS

LEMMA AtMostOne ==
  /\ Cardinality({}) = 0
  /\ \A x : Cardinality({x}) = 1
  BY FS_EmptySet, FS_Singleton

-----------------------------------------------------------------------------
(* Domain claims. *)

ClaimTable == [OrgWorkspaces -> [Domains -> Claims \cup {NoClaim}]]

LEMMA ClaimMarked ==
  ASSUME claim \in ClaimTable, NEW w \in OrgWorkspaces, NEW d \in Domains, Claimed(w, d),
         claim' = [claim EXCEPT ![w][d].verified = TRUE]
  PROVE  /\ claim' \in ClaimTable
         /\ \A x \in OrgWorkspaces, e \in Domains :
              (x # w \/ e # d) => claim'[x][e] = claim[x][e]
<1> DEFINE marked == [claim[w][d] EXCEPT !.verified = TRUE]
<1>1. claim' = [claim EXCEPT ![w][d] = marked]
  OBVIOUS
<1>2. claim[w][d] \in Claims
  BY DEF ClaimTable, Claimed
<1>3. marked \in Claims
  BY <1>2 DEF Claims
<1>. QED
  BY <1>1, <1>3 DEF ClaimTable

LEMMA DomainTypeInit == DomainInit => DomainTypeOK
  BY DEF DomainInit, DomainTypeOK

LEMMA DomainTypeNext == DomainTypeOK /\ [DomainNext]_domainVars => DomainTypeOK'
<1> SUFFICES ASSUME DomainTypeOK, [DomainNext]_domainVars PROVE DomainTypeOK'
  OBVIOUS
<1> USE DEF DomainTypeOK, Claims, Verifications
<1>1. ASSUME NEW w \in OrgWorkspaces, NEW d \in Domains, AddDomain(w, d) PROVE DomainTypeOK'
  BY <1>1 DEF AddDomain, ClaimDomain, Verified, Claimed
<1>2. ASSUME NEW w \in OrgWorkspaces, NEW d \in Domains, DeleteDomain(w, d) PROVE DomainTypeOK'
  BY <1>2 DEF DeleteDomain
<1>3. ASSUME NEW r \in Verifiers, NEW w \in OrgWorkspaces, NEW d \in Domains, VerifyRead(r, w, d)
      PROVE DomainTypeOK'
  BY <1>3 DEF VerifyRead, Claimed
<1>4. ASSUME NEW r \in Verifiers, VerifyAsk(r) PROVE DomainTypeOK'
  <2>1. PICK v \in verifying[r] : VerifyAsk(r)!(v)
    BY <1>4 DEF VerifyAsk
  <2>2. v \in Verifications /\ [v EXCEPT !.at = "mark"] \in Verifications
    OBVIOUS
  <2>3. PICK new \in SUBSET Verifications :
          verifying' = [verifying EXCEPT ![r] = new] /\ \A x, y \in new : x = y
    BY <2>1, <2>2
  <2>4. /\ verifying' \in [Verifiers -> SUBSET Verifications]
        /\ \A q \in Verifiers : \A x, y \in verifying'[q] : x = y
    BY <2>3
  <2>5. proved' \subseteq OrgWorkspaces \X Domains
    BY <2>1, <2>2
  <2>. QED
    BY <2>1, <2>4, <2>5
<1>5. ASSUME NEW r \in Verifiers, VerifyMark(r) PROVE DomainTypeOK'
  <2>1. PICK v \in verifying[r] : VerifyMark(r)!(v)
    BY <1>5 DEF VerifyMark
  <2>2. claim' \in ClaimTable
    <3>1. CASE UNCHANGED claim
      BY <3>1 DEF ClaimTable
    <3>2. CASE Claimed(v.workspace, v.domain) /\ claim' = [claim EXCEPT ![v.workspace][v.domain].verified = TRUE]
      <4>1. v.workspace \in OrgWorkspaces /\ v.domain \in Domains /\ claim \in ClaimTable
        BY <2>1 DEF ClaimTable
      <4>. QED
        BY <3>2, <4>1, ClaimMarked
    <3>. QED
      BY <2>1, <3>1, <3>2
  <2>3. verifying' = [verifying EXCEPT ![r] = {}] /\ UNCHANGED <<txt, issued, proved>>
    BY <2>1
  <2>4. verifying' \in [Verifiers -> SUBSET Verifications]
    BY <2>3
  <2>5. \A q \in Verifiers : \A x, y \in verifying'[q] : x = y
    BY <2>3
  <2>. QED
    BY <2>2, <2>3, <2>4, <2>5 DEF ClaimTable
<1>6. ASSUME NEW r \in Verifiers, VerifyFails(r) PROVE DomainTypeOK'
  BY <1>6 DEF VerifyFails
<1>7. ASSUME NEW d \in Domains, ChangeZone(d) PROVE DomainTypeOK'
  BY <1>7 DEF ChangeZone
<1>8. CASE UNCHANGED domainVars
  BY <1>8 DEF domainVars
<1>. QED
  BY <1>1, <1>2, <1>3, <1>4, <1>5, <1>6, <1>7, <1>8 DEF DomainNext

\* Every variable of the domain claims keeps its type, and a verifier runs one request.
THEOREM DomainTypeCorrect == DomainSpec => []DomainTypeOK
  BY DomainTypeInit, DomainTypeNext, PTL DEF DomainSpec

\* A request that is about to mark a claim has seen a token of its workspace in DNS.
AskedIsProved == \A r \in Verifiers : \A v \in verifying[r] :
  v.at = "mark" => <<v.workspace, v.domain>> \in proved

OwnersAreProved == \A w \in OrgWorkspaces, d \in Domains : Verified(w, d) => <<w, d>> \in proved

OneOwner == \A w, x \in OrgWorkspaces, d \in Domains : Verified(w, d) /\ Verified(x, d) => w = x

ProvedInv == AskedIsProved /\ OwnersAreProved /\ OneOwner

LEMMA ProvedInit == DomainInit => ProvedInv
  BY DEF DomainInit, ProvedInv, AskedIsProved, OwnersAreProved, OneOwner, Verified, Claimed

LEMMA ProvedNext == DomainTypeOK /\ ProvedInv /\ [DomainNext]_domainVars => ProvedInv'
<1> SUFFICES ASSUME DomainTypeOK, ProvedInv, [DomainNext]_domainVars PROVE ProvedInv'
  OBVIOUS
<1> USE DEF ProvedInv
<1>0. ASSUME \A w \in OrgWorkspaces, d \in Domains : Verified(w, d)' => Verified(w, d), proved \subseteq proved'
      PROVE  OwnersAreProved' /\ OneOwner'
  BY <1>0 DEF OwnersAreProved, OneOwner
<1>1. ASSUME NEW w \in OrgWorkspaces, NEW d \in Domains, AddDomain(w, d) \/ DeleteDomain(w, d) PROVE ProvedInv'
  <2>1. \A x \in OrgWorkspaces, e \in Domains : Verified(x, e)' => Verified(x, e)
    <3>1. CASE AddDomain(w, d)
      <4>1. PICK k \in Tokens : ClaimDomain(w, d, k)
        BY <3>1 DEF AddDomain
      <4>2. claim' = [claim EXCEPT ![w][d] = [token |-> k, verified |-> Verified(w, d)]]
        BY <4>1 DEF ClaimDomain
      <4>3. claim'[w][d].verified = Verified(w, d)
        BY <4>2 DEF DomainTypeOK
      <4>4. \A x \in OrgWorkspaces, e \in Domains : x # w \/ e # d => claim'[x][e] = claim[x][e]
        BY <4>2 DEF DomainTypeOK
      <4>. QED
        BY <4>3, <4>4 DEF Verified, Claimed
    <3>2. CASE DeleteDomain(w, d)
      BY <3>2 DEF DeleteDomain, Verified, Claimed, DomainTypeOK
    <3>. QED
      BY <1>1, <3>1, <3>2
  <2>2. AskedIsProved'
    BY <1>1 DEF AddDomain, DeleteDomain, AskedIsProved
  <2>. QED
    BY <1>0, <1>1, <2>1, <2>2 DEF AddDomain, DeleteDomain
<1>2. ASSUME NEW r \in Verifiers, NEW w \in OrgWorkspaces, NEW d \in Domains, VerifyRead(r, w, d) PROVE ProvedInv'
  <2>1. AskedIsProved'
    BY <1>2 DEF VerifyRead, AskedIsProved, DomainTypeOK
  <2>. QED
    BY <1>0, <1>2, <2>1 DEF VerifyRead, Verified, Claimed
<1>3. ASSUME NEW r \in Verifiers, VerifyAsk(r) PROVE ProvedInv'
  <2>1. PICK v \in verifying[r] : VerifyAsk(r)!(v)
    BY <1>3 DEF VerifyAsk
  <2>2. /\ v \in Verifications
        /\ verifying' = [verifying EXCEPT ![r] = {}]
           \/ (verifying' = [verifying EXCEPT ![r] = {[v EXCEPT !.at = "mark"]}]
                 /\ <<v.workspace, v.domain>> \in proved')
    BY <2>1 DEF DomainTypeOK
  <2>3. [v EXCEPT !.at = "mark"].workspace = v.workspace /\ [v EXCEPT !.at = "mark"].domain = v.domain
    BY <2>2 DEF Verifications
  <2>4. proved \subseteq proved'
    BY <2>1
  <2>5. AskedIsProved'
    <3>1. SUFFICES ASSUME NEW q \in Verifiers, NEW x \in verifying'[q], x.at = "mark"
                   PROVE  <<x.workspace, x.domain>> \in proved'
      BY DEF AskedIsProved
    <3>2. CASE x \in verifying[q]
      BY <2>4, <3>1, <3>2 DEF AskedIsProved
    <3>3. CASE x \notin verifying[q]
      <4>1. x = [v EXCEPT !.at = "mark"] /\ <<v.workspace, v.domain>> \in proved'
        BY <2>2, <3>1, <3>3 DEF DomainTypeOK
      <4>. QED
        BY <2>3, <4>1
    <3>. QED
      BY <3>2, <3>3
  <2>. QED
    BY <1>0, <2>1, <2>4, <2>5 DEF Verified, Claimed
<1>4. ASSUME NEW r \in Verifiers, VerifyMark(r) PROVE ProvedInv'
  <2>1. PICK v \in verifying[r] : VerifyMark(r)!(v)
    BY <1>4 DEF VerifyMark
  <2>2. v.workspace \in OrgWorkspaces /\ v.domain \in Domains /\ <<v.workspace, v.domain>> \in proved
    BY <2>1 DEF DomainTypeOK, Verifications, AskedIsProved
  <2>3. AskedIsProved' /\ UNCHANGED proved
    BY <2>1 DEF AskedIsProved, DomainTypeOK
  <2>4. CASE UNCHANGED claim
    BY <1>0, <2>3, <2>4 DEF Verified, Claimed
  <2>5. CASE Claimed(v.workspace, v.domain) /\ IndexAllows(v.workspace, v.domain)
    <3>1. \A x \in OrgWorkspaces, e \in Domains :
            x # v.workspace \/ e # v.domain => (Verified(x, e)' <=> Verified(x, e))
      BY <2>1, <2>2, <2>5, ClaimMarked DEF ClaimTable, DomainTypeOK, Verified, Claimed
    <3>2. \A x \in OrgWorkspaces : Verified(x, v.domain) => x = v.workspace
      BY <2>2, <2>5 DEF IndexAllows, DomainOwner
    <3>3. OwnersAreProved'
      BY <2>2, <2>3, <3>1 DEF OwnersAreProved
    <3>4. OneOwner'
      BY <2>2, <3>1, <3>2 DEF OneOwner
    <3>. QED
      BY <2>3, <3>3, <3>4
  <2>. QED
    BY <2>1, <2>4, <2>5
<1>5. ASSUME NEW r \in Verifiers, VerifyFails(r) PROVE ProvedInv'
  <2>1. AskedIsProved'
    BY <1>5 DEF VerifyFails, AskedIsProved, DomainTypeOK
  <2>. QED
    BY <1>0, <1>5, <2>1 DEF VerifyFails, Verified, Claimed
<1>6. CASE (\E d \in Domains : ChangeZone(d)) \/ UNCHANGED domainVars
  <2>1. UNCHANGED <<claim, verifying, proved>>
    BY <1>6 DEF ChangeZone, domainVars
  <2>. QED
    BY <2>1 DEF AskedIsProved, OwnersAreProved, OneOwner, Verified, Claimed
<1>. QED
  BY <1>1, <1>2, <1>3, <1>4, <1>5, <1>6 DEF DomainNext

\* A domain is verified for one workspace at most, and only after its token was seen in
\* the domain's zone.
THEOREM DomainsProved == DomainSpec => []DomainsAreProved
<1>1. ProvedInv => DomainsAreProved
  <2> SUFFICES ASSUME ProvedInv, NEW d \in Domains PROVE Cardinality(DomainOwner(d)) <= 1
    BY DEF ProvedInv, DomainsAreProved, OwnersAreProved, DomainOwner
  <2>1. DomainOwner(d) = {} \/ \E w : DomainOwner(d) = {w}
    <3>0. \A v \in DomainOwner(d) : v \in OrgWorkspaces /\ Verified(v, d)
      BY DEF DomainOwner
    <3>1. \A v, w \in DomainOwner(d) : v = w
      BY <3>0, Zenon DEF ProvedInv, OneOwner
    <3>2. ASSUME NEW w \in DomainOwner(d) PROVE DomainOwner(d) = {w}
      BY <3>1
    <3>3. CASE DomainOwner(d) = {}
      BY <3>3
    <3>4. CASE DomainOwner(d) # {}
      <4>1. PICK w : w \in DomainOwner(d)
        BY <3>4
      <4>2. DomainOwner(d) = {w}
        BY <3>2, <4>1
      <4>. QED
        BY <4>2
    <3>. QED
      BY <3>3, <3>4
  <2>2. Cardinality(DomainOwner(d)) = 0 \/ Cardinality(DomainOwner(d)) = 1
    BY <2>1, AtMostOne, Zenon
  <2>. QED
    BY <2>2
<1>. QED
  BY <1>1, DomainTypeInit, DomainTypeNext, ProvedInit, ProvedNext, PTL DEF DomainSpec
-----------------------------------------------------------------------------
(* Handshakes. *)

\* A callback leaves, or is at one serving.
Moves(c, xs) == callback' = [callback EXCEPT ![c] = xs]

LEMMA CallbackMoves ==
  ASSUME HandshakeTypeOK, NEW c \in Callbacks, NEW xs \in SUBSET Servings, Moves(c, xs), \A x, y \in xs : x = y
  PROVE  /\ callback' \in [Callbacks -> SUBSET Servings]
         /\ \A d \in Callbacks : \A v, w \in callback'[d] : v = w
  BY DEF HandshakeTypeOK, Moves

LEMMA ServingSteps ==
  ASSUME NEW v \in Servings, NEW place \in {"exchange", "session", "grant", "name", "insert"}
  PROVE  [v EXCEPT !.at = place] \in Servings /\ [v EXCEPT !.at = place].state = v.state
  BY DEF Servings

LEMMA ServingNames ==
  ASSUME NEW v \in Servings, NEW n \in 0..Names
  PROVE  /\ [v EXCEPT !.at = "insert", !.name = n] \in Servings
         /\ [v EXCEPT !.at = "insert", !.name = n].state = v.state
  BY DEF Servings

LEMMA HandshakeTypeInit == HandshakeInit => HandshakeTypeOK
  BY HandshakeAssumption DEF HandshakeInit, HandshakeTypeOK

\* What a step does: it moves a callback that serves a handshake on, or ends it, and
\* opens at most that handshake.
MovesTo(c, v, xs) ==
  /\ Moves(c, xs) /\ \A x, y \in xs : x = y
  /\ \A x \in xs : x.state = v.state
  /\ UNCHANGED pending
  /\ \/ UNCHANGED opened
     \/ xs = {} /\ opened' = [opened EXCEPT ![v.state] = @ + 1]

MovesOn(c) == \E v \in callback[c] : \E xs \in SUBSET Servings : MovesTo(c, v, xs)

TypedRest == grant' \in States \cup {NoGrant} /\ drives' \in [1..Names -> States \cup {NoDrive}]

LEMMA CallbackSteps ==
  ASSUME HandshakeTypeOK, NEW c \in Callbacks,
         Exchange(c) \/ OpenSession(c) \/ GoogleCallback(c) \/ CallbackFails(c)
  PROVE  MovesOn(c) /\ TypedRest
<1>0. \A v \in callback[c] : v \in Servings /\ v.state \in States
  BY DEF HandshakeTypeOK, Servings
<1>1. CASE Exchange(c)
  <2>1. PICK v \in callback[c] : Exchange(c)!(v)
    BY <1>1 DEF Exchange, Serving
  <2>2. PICK place \in {"session", "grant"} : Step(c, v, place)
    BY <2>1
  <2>3. [v EXCEPT !.at = place] \in Servings /\ [v EXCEPT !.at = place].state = v.state
    BY <1>0, ServingSteps
  <2>4. MovesTo(c, v, {[v EXCEPT !.at = place]})
    BY <2>1, <2>2, <2>3 DEF Step, MovesTo, Moves
  <2>. QED
    BY <2>1, <2>3, <2>4 DEF MovesOn, TypedRest, HandshakeTypeOK
<1>2. CASE OpenSession(c)
  <2>1. PICK v \in callback[c] : OpenSession(c)!(v)
    BY <1>2 DEF OpenSession, Serving
  <2>2. MovesTo(c, v, {})
    BY <2>1 DEF Leave, MovesTo, Moves
  <2>. QED
    BY <2>1, <2>2 DEF MovesOn, TypedRest, HandshakeTypeOK
<1>3. CASE StoreGrant(c)
  <2>1. PICK v \in callback[c] : StoreGrant(c)!(v)
    BY <1>3 DEF StoreGrant, Serving
  <2>2. [v EXCEPT !.at = "name"] \in Servings /\ [v EXCEPT !.at = "name"].state = v.state
    BY <1>0, ServingSteps
  <2>3. MovesTo(c, v, {[v EXCEPT !.at = "name"]})
    BY <2>1, <2>2 DEF Step, MovesTo, Moves
  <2>. QED
    BY <1>0, <2>1, <2>2, <2>3 DEF MovesOn, TypedRest, HandshakeTypeOK
<1>4. CASE NameConnector(c)
  <2>1. PICK v \in callback[c], n \in 1..Names : NameConnector(c)!(v, n)
    BY <1>4 DEF NameConnector, Serving
  <2>2. n \in 0..Names
    BY HandshakeAssumption
  <2>3. /\ [v EXCEPT !.at = "insert", !.name = n] \in Servings
        /\ [v EXCEPT !.at = "insert", !.name = n].state = v.state
    BY <1>0, <2>2, ServingNames
  <2>4. MovesTo(c, v, {[v EXCEPT !.at = "insert", !.name = n]})
    BY <2>1, <2>3 DEF MovesTo, Moves
  <2>5. MovesOn(c)
    BY <2>3, <2>4 DEF MovesOn
  <2>. QED
    BY <2>1, <2>5 DEF TypedRest, HandshakeTypeOK
<1>5. CASE InsertConnector(c)
  <2>1. PICK v \in callback[c] : InsertConnector(c)!(v)
    BY <1>5 DEF InsertConnector, Serving
  <2>2. MovesTo(c, v, {})
    BY <2>1 DEF Leave, MovesTo, Moves
  <2>3. drives' = drives \/ drives' = [drives EXCEPT ![v.name] = v.state]
    BY <2>1
  <2>4. TypedRest
    BY <1>0, <2>1, <2>3 DEF TypedRest, HandshakeTypeOK
  <2>. QED
    BY <2>2, <2>4 DEF MovesOn
<1>6. CASE CallbackFails(c)
  <2>1. PICK v \in callback[c] : TRUE
    BY <1>6 DEF CallbackFails
  <2>2. MovesTo(c, v, {})
    BY <1>6 DEF CallbackFails, Leave, MovesTo, Moves
  <2>. QED
    BY <1>6, <2>2 DEF CallbackFails, MovesOn, TypedRest, HandshakeTypeOK
<1>. QED
  BY <1>1, <1>2, <1>3, <1>4, <1>5, <1>6 DEF GoogleCallback

LEMMA HandshakeTypeNext == HandshakeTypeOK /\ [HandshakeNext]_handshakeVars => HandshakeTypeOK'
<1> SUFFICES ASSUME HandshakeTypeOK, [HandshakeNext]_handshakeVars PROVE HandshakeTypeOK'
  OBVIOUS
<1>1. ASSUME NEW s \in States, NEW kind \in Kinds, SavePending(s, kind) PROVE HandshakeTypeOK'
  BY <1>1 DEF SavePending, HandshakeTypeOK
<1>2. ASSUME NEW s \in States, GrowStale(s) PROVE HandshakeTypeOK'
  <2>1. pending[s] \in [kind : Kinds, stale : BOOLEAN]
    BY <1>2 DEF GrowStale, Rows, HandshakeTypeOK
  <2>2. [pending[s] EXCEPT !.stale = TRUE] \in [kind : Kinds, stale : BOOLEAN]
    BY <2>1
  <2>3. pending' = [pending EXCEPT ![s] = [pending[s] EXCEPT !.stale = TRUE]]
    BY <1>2 DEF GrowStale
  <2>4. pending' \in [States -> {NoHandshake, Taken} \cup [kind : Kinds, stale : BOOLEAN]]
    BY <2>2, <2>3 DEF HandshakeTypeOK
  <2>. QED
    BY <1>2, <2>4 DEF GrowStale, HandshakeTypeOK
<1>3. ASSUME NEW c \in Callbacks, NEW s \in States, TakePending(c, s) PROVE HandshakeTypeOK'
  <2>1. pending[s] \in [kind : Kinds, stale : BOOLEAN]
    BY <1>3 DEF TakePending, Serve, Rows, HandshakeTypeOK
  <2>2. [state |-> s, kind |-> pending[s].kind, at |-> "exchange", name |-> 0] \in Servings
    BY <2>1, HandshakeAssumption DEF Servings
  <2>3. Moves(c, {[state |-> s, kind |-> pending[s].kind, at |-> "exchange", name |-> 0]})
    BY <1>3 DEF TakePending, Serve, Moves
  <2>4. /\ callback' \in [Callbacks -> SUBSET Servings]
        /\ \A d \in Callbacks : \A v, w \in callback'[d] : v = w
    BY <2>2, <2>3, CallbackMoves
  <2>. QED
    BY <1>3, <2>4 DEF TakePending, HandshakeTypeOK
<1>4. ASSUME NEW c \in Callbacks, Exchange(c) \/ OpenSession(c) \/ GoogleCallback(c) \/ CallbackFails(c)
      PROVE HandshakeTypeOK'
  <2>1. MovesOn(c) /\ TypedRest
    BY <1>4, CallbackSteps
  <2>2. PICK v \in callback[c], xs \in SUBSET Servings : MovesTo(c, v, xs)
    BY <2>1 DEF MovesOn
  <2>3. /\ callback' \in [Callbacks -> SUBSET Servings]
        /\ \A d \in Callbacks : \A x, y \in callback'[d] : x = y
    BY <2>2, CallbackMoves DEF MovesTo
  <2>4. opened' \in [States -> Nat]
    BY <2>2 DEF MovesTo, HandshakeTypeOK
  <2>. QED
    BY <2>1, <2>2, <2>3, <2>4 DEF MovesTo, TypedRest, HandshakeTypeOK
<1>5. ASSUME NEW n \in 1..Names, DropConnector(n) PROVE HandshakeTypeOK'
  BY <1>5 DEF DropConnector, HandshakeTypeOK
<1>6. CASE UNCHANGED handshakeVars
  BY <1>6 DEF handshakeVars, HandshakeTypeOK
<1>. QED
  BY <1>1, <1>2, <1>3, <1>4, <1>5, <1>6 DEF HandshakeNext, OidcLogin, GoogleAuthorize, Kinds

\* Every variable of the handshakes keeps its type, and a callback serves one handshake.
THEOREM HandshakeTypeCorrect == HandshakeSpec => []HandshakeTypeOK
  BY HandshakeTypeInit, HandshakeTypeNext, PTL DEF HandshakeSpec

\* A handshake that is served, or has opened something, has lost its row; what is being
\* served has opened nothing yet.
ServedIsTaken ==
  /\ \A s \in States : opened[s] # 0 => pending[s] = Taken
  /\ \A c \in Callbacks : \A v \in callback[c] : pending[v.state] = Taken /\ opened[v.state] = 0

ServeInv == ServedIsTaken /\ HandshakesServeOnce

LEMMA ServeInit == HandshakeInit => ServeInv
  BY DEF HandshakeInit, ServeInv, ServedIsTaken, HandshakesServeOnce

LEMMA ServeNext == HandshakeTypeOK /\ ServeInv /\ [HandshakeNext]_handshakeVars => ServeInv'
<1> SUFFICES ASSUME HandshakeTypeOK, ServeInv, [HandshakeNext]_handshakeVars PROVE ServeInv'
  OBVIOUS
<1>0. \A c \in Callbacks : \A v \in callback[c] : v.state \in States
  BY DEF HandshakeTypeOK, Servings
<1> USE DEF ServeInv, ServedIsTaken, HandshakesServeOnce
\* As long as nothing is served anew and Taken rows stay Taken, nothing changes.
<1>1. ASSUME UNCHANGED <<callback, opened>>, \A s \in States : pending[s] = Taken => pending'[s] = Taken
      PROVE  ServeInv'
  BY <1>0, <1>1
<1>2. ASSUME NEW s \in States, NEW kind \in Kinds, SavePending(s, kind) PROVE ServeInv'
  <2>1. \A t \in States : pending[t] = Taken => pending'[t] = Taken
    BY <1>2, HandshakeAssumption DEF SavePending
  <2>. QED
    BY <1>1, <1>2, <2>1 DEF SavePending
<1>3. ASSUME NEW s \in States, GrowStale(s) PROVE ServeInv'
  <2>1. \A t \in States : pending[t] = Taken => pending'[t] = Taken
    BY <1>3 DEF GrowStale, Rows, HandshakeTypeOK
  <2>. QED
    BY <1>1, <1>3, <2>1 DEF GrowStale
<1>4. ASSUME NEW c \in Callbacks, NEW s \in States, TakePending(c, s) PROVE ServeInv'
  <2>1. pending[s] # Taken /\ pending' = [pending EXCEPT ![s] = Taken] /\ UNCHANGED opened
    BY <1>4 DEF TakePending, Serve, Rows
  <2>2. opened[s] = 0 /\ \A d \in Callbacks : \A w \in callback[d] : w.state # s
    BY <2>1
  <2>3. \A t \in States : pending'[t] = Taken <=> pending[t] = Taken \/ t = s
    BY <2>1 DEF HandshakeTypeOK
  <2>4. \A d \in Callbacks : \A w \in callback'[d] :
          (d = c /\ w.state = s) \/ (d # c /\ w \in callback[d])
    BY <1>4 DEF TakePending, Serve, HandshakeTypeOK
  <2>5. ServedIsTaken'
    BY <1>0, <2>1, <2>2, <2>3, <2>4
  <2>6. HandshakesServeOnce'
    BY <1>0, <2>1, <2>2, <2>4
  <2>. QED
    BY <2>5, <2>6
<1>5. ASSUME NEW c \in Callbacks, Exchange(c) \/ OpenSession(c) \/ GoogleCallback(c) \/ CallbackFails(c)
      PROVE ServeInv'
  <2>1. PICK v \in callback[c], xs \in SUBSET Servings : MovesTo(c, v, xs)
    BY <1>5, CallbackSteps DEF MovesOn
  <2>2. \A d \in Callbacks : \A w \in callback'[d] :
          \/ d # c /\ w \in callback[d] /\ w.state # v.state
          \/ d = c /\ w.state = v.state /\ UNCHANGED opened
    BY <2>1 DEF HandshakeTypeOK, MovesTo, Moves
  <2>3. \A s \in States : opened'[s] = opened[s] \/ (s = v.state /\ opened'[s] = 1)
    <3>1. v.state \in States /\ opened[v.state] = 0
      BY <1>0
    <3>2. opened' = opened \/ opened' = [opened EXCEPT ![v.state] = 1]
      BY <2>1, <3>1 DEF MovesTo
    <3>. QED
      BY <3>1, <3>2 DEF HandshakeTypeOK
  <2>4. ServedIsTaken'
    BY <1>0, <2>1, <2>2, <2>3 DEF MovesTo
  <2>5. HandshakesServeOnce'
    BY <1>0, <2>2, <2>3
  <2>. QED
    BY <2>4, <2>5
<1>6. CASE (\E n \in 1..Names : DropConnector(n)) \/ UNCHANGED handshakeVars
  BY <1>1, <1>6 DEF DropConnector, handshakeVars
<1>. QED
  BY <1>2, <1>3, <1>4, <1>5, <1>6 DEF HandshakeNext, OidcLogin, GoogleAuthorize, Kinds

\* A handshake makes one session or connector at most, and is served by one callback.
THEOREM HandshakesServed == HandshakeSpec => []HandshakesServeOnce
<1>1. ServeInv => HandshakesServeOnce
  BY DEF ServeInv
<1>. QED
  BY <1>1, HandshakeTypeInit, HandshakeTypeNext, ServeInit, ServeNext, PTL DEF HandshakeSpec
-----------------------------------------------------------------------------
(* The cache of signing keys. *)

\* Published keys have been seen now; a key set that is on its way was whole when it
\* was asked for or later, and no request for one is older than its timeout.
RequestOK(v) ==
  /\ v.since \in 0..time /\ time - v.since <= HTTP_TIMEOUT
  /\ v.at = "fetch" => (v.steady => v.kid \in published)
  /\ v.at = "store" => /\ v.body # {}
                       /\ \A k \in v.body : seen[k] >= v.since
                       /\ v.steady => v.kid \in v.body
  /\ v.at = "again" => /\ keys.fetched_at = time
                       /\ v.steady /\ ~v.overtaken => v.kid \in keys.set

KeysSeen ==
  /\ \A k \in published : seen[k] = time
  /\ \A k \in keys.set : seen[k] >= 0 /\ keys.fetched_at - seen[k] <= HTTP_TIMEOUT

KeyInv ==
  /\ KeyTypeOK /\ KeysSeen
  /\ \A r \in Logins : \A v \in verifier[r] : RequestOK(v)

LEMMA KeyInvInit == KeyInit => KeyInv
  BY KeyCacheAssumption DEF KeyInit, KeyInv, KeyTypeOK, KeysSeen

LEMMA KeyRequestMoves ==
  ASSUME KeyTypeOK, NEW r \in Logins, NEW xs \in SUBSET KeyRequests, \A x, y \in xs : x = y,
         verifier' = [verifier EXCEPT ![r] = xs]
  PROVE  /\ verifier' \in [Logins -> SUBSET KeyRequests]
         /\ \A q \in Logins : \A v, w \in verifier'[q] : v = w
         /\ \A q \in Logins : \A v \in verifier'[q] : v \in verifier[q] \/ v \in xs
  BY DEF KeyTypeOK

\* As long as a request moves and nothing else, the rest stays as it is.
LEMMA RequestKeeps ==
  ASSUME KeyInv, NEW r \in Logins, NEW xs \in SUBSET KeyRequests, \A x, y \in xs : x = y,
         verifier' = [verifier EXCEPT ![r] = xs], UNCHANGED <<time, published, seen, keys>>,
         \A x \in xs : RequestOK(x)
  PROVE  KeyInv'
<1>1. /\ verifier' \in [Logins -> SUBSET KeyRequests]
      /\ \A q \in Logins : \A v, w \in verifier'[q] : v = w
      /\ \A q \in Logins : \A v \in verifier'[q] : v \in verifier[q] \/ v \in xs
  BY KeyRequestMoves DEF KeyInv
<1>2. KeyTypeOK'
  BY <1>1 DEF KeyInv, KeyTypeOK
<1>3. \A q \in Logins : \A v \in verifier'[q] : RequestOK(v)
  BY <1>1 DEF KeyInv
<1>. QED
  BY <1>2, <1>3 DEF KeyInv, KeysSeen, RequestOK

LEMMA KeyInvNext == KeyInv /\ [KeyNext]_keyVars => KeyInv'
<1> SUFFICES ASSUME KeyInv, [KeyNext]_keyVars PROVE KeyInv'
  OBVIOUS
<1>0. /\ KeyTypeOK /\ KeysSeen /\ time \in Nat
      /\ \A r \in Logins : \A v \in verifier[r] : v \in KeyRequests /\ RequestOK(v)
  BY KeyCacheAssumption DEF KeyInv, KeyTypeOK
<1>1. CASE KeyTick
  <2>1. time' = time + 1 /\ time' \in 0..MaxKeyTime
    BY <1>0, <1>1, KeyCacheAssumption DEF KeyTick, KeyTypeOK
  <2>2. \A k \in Kids : seen'[k] \in -1..time' /\ seen'[k] >= seen[k] /\ (k \in published => seen'[k] = time')
    BY <1>0, <1>1, <2>1 DEF KeyTick, KeyTypeOK, KeysSeen
  <2>3. KeyTypeOK'
    BY <1>0, <1>1, <2>1, <2>2 DEF KeyTick, KeyTypeOK
  <2>4. KeysSeen'
    BY <1>0, <1>1, <2>1, <2>2, KeyCacheAssumption DEF KeyTick, KeyTypeOK, KeysSeen
  <2>5. ASSUME NEW r \in Logins, NEW v \in verifier[r] PROVE RequestOK(v)'
    <3>1. v \in KeyRequests /\ RequestOK(v) /\ v.at # "again" /\ time - v.since < HTTP_TIMEOUT
      BY <1>0, <1>1 DEF KeyTick
    <3>2. \A k \in v.body : k \in Kids /\ seen[k] \in Int /\ seen'[k] \in Int /\ seen'[k] >= seen[k]
      BY <1>0, <2>1, <2>2, <3>1 DEF KeyTypeOK, KeyRequests
    <3>. QED
      BY <1>0, <1>1, <2>1, <3>1, <3>2, KeyCacheAssumption DEF KeyTick, RequestOK, KeyRequests
  <2>. QED
    BY <1>1, <2>3, <2>4, <2>5 DEF KeyTick, KeyInv
<1>2. ASSUME NEW k \in Kids, Rotate(k) PROVE KeyInv'
  <2>1. \A j \in Kids : seen'[j] = IF j = k THEN time ELSE seen[j]
    BY <1>0, <1>2 DEF Rotate, KeyTypeOK
  <2>2. \A j \in Kids : seen[j] \in -1..time /\ seen'[j] \in -1..time /\ seen'[j] >= seen[j]
    BY <1>0, <2>1 DEF KeyTypeOK
  <2>3. ASSUME NEW r \in Logins, NEW w \in verifier'[r]
        PROVE  \E v \in verifier[r] : w = [v EXCEPT !.steady = @ /\ v.kid # k]
    BY <1>2 DEF Rotate
  <2>4. ASSUME NEW r \in Logins, NEW w \in verifier'[r] PROVE w \in KeyRequests /\ RequestOK(w)'
    <3>1. PICK v \in verifier[r] : w = [v EXCEPT !.steady = @ /\ v.kid # k]
      BY <2>3
    <3>2. v \in KeyRequests /\ RequestOK(v)
      BY <1>0
    <3>3. /\ w \in KeyRequests /\ w.kid = v.kid /\ w.at = v.at /\ w.since = v.since
          /\ w.body = v.body /\ w.overtaken = v.overtaken
          /\ w.steady => v.steady /\ v.kid # k
      BY <3>1, <3>2 DEF KeyRequests
    <3>4. v.at = "fetch" /\ w.steady => w.kid \in published'
      BY <1>2, <3>2, <3>3 DEF Rotate, RequestOK
    <3>. QED
      BY <1>0, <1>2, <2>2, <3>2, <3>3, <3>4 DEF Rotate, RequestOK, KeyRequests
  <2>5. verifier' \in [Logins -> SUBSET KeyRequests]
    BY <1>2, <2>4 DEF Rotate
  <2>6. \A r \in Logins : \A v, w \in verifier'[r] : v = w
    BY <1>0, <2>3 DEF KeyTypeOK
  <2>7. published' \subseteq Kids /\ seen' \in [Kids -> -1..time]
    BY <1>0, <1>2 DEF Rotate, KeyTypeOK
  <2>8. KeyTypeOK'
    BY <1>0, <1>2, <2>5, <2>6, <2>7 DEF Rotate, KeyTypeOK
  <2>9. KeysSeen'
    BY <1>0, <1>2, <2>1, <2>2, KeyCacheAssumption DEF Rotate, KeyTypeOK, KeysSeen
  <2>. QED
    BY <2>4, <2>8, <2>9 DEF KeyInv
<1>3. ASSUME NEW r \in Logins, NEW k \in Kids, Verify(r, k) PROVE KeyInv'
  <2> DEFINE x == [kid |-> k, at |-> "fetch", body |-> {}, since |-> time, steady |-> k \in published,
                   overtaken |-> FALSE]
  <2>1. x \in KeyRequests /\ x.at = "fetch" /\ x.since = time /\ x.kid = k /\ x.steady = (k \in published)
    BY <1>0 DEF KeyRequests
  <2>2. verifier' = [verifier EXCEPT ![r] = {x}] /\ UNCHANGED <<time, published, seen, keys>>
    BY <1>3 DEF Verify
  <2> HIDE DEF x
  <2>3. x.steady => k \in published
    BY <2>1
  <2>4. RequestOK(x)
    BY <1>0, <2>1, <2>3, KeyCacheAssumption DEF RequestOK
  <2>5. {x} \in SUBSET KeyRequests /\ (\A y, z \in {x} : y = z) /\ \A y \in {x} : RequestOK(y)
    BY <2>1, <2>4
  <2>. QED
    BY <2>2, <2>5, RequestKeeps
<1>4. ASSUME NEW r \in Logins, FetchKeys(r) PROVE KeyInv'
  <2>1. PICK v \in verifier[r] : FetchKeys(r)!(v)
    BY <1>4 DEF FetchKeys
  <2>2. v \in KeyRequests /\ RequestOK(v) /\ published \subseteq Kids
    BY <1>0 DEF KeyTypeOK
  <2> DEFINE x == [v EXCEPT !.at = "store", !.body = published]
  <2>3. x \in KeyRequests /\ x.at = "store" /\ x.since = v.since /\ x.kid = v.kid /\ x.steady = v.steady
          /\ x.body = published
    BY <2>2 DEF KeyRequests
  <2>4. published # {} => RequestOK(x)
    BY <1>0, <2>1, <2>2, <2>3 DEF RequestOK, KeysSeen
  <2>5. CASE published = {}
    <3>1. verifier' = [verifier EXCEPT ![r] = {}] /\ UNCHANGED <<time, published, seen, keys>>
      BY <2>1, <2>5
    <3> HIDE DEF x
    <3>. QED
      BY <3>1, RequestKeeps
  <2>6. CASE published # {}
    <3>1. verifier' = [verifier EXCEPT ![r] = {x}]
      BY <2>1, <2>6
    <3> HIDE DEF x
    <3>2. {x} \in SUBSET KeyRequests /\ (\A y, z \in {x} : y = z) /\ \A y \in {x} : RequestOK(y)
      BY <2>3, <2>4, <2>6
    <3>. QED
      BY <2>1, <3>1, <3>2, RequestKeeps
  <2>. QED
    BY <2>5, <2>6
<1>5. ASSUME NEW r \in Logins, StoreKeys(r) PROVE KeyInv'
  <2>1. PICK v \in verifier[r] : StoreKeys(r)!(v)
    BY <1>5 DEF StoreKeys
  <2>2. v \in KeyRequests /\ RequestOK(v) /\ v.at = "store"
    BY <1>0, <2>1
  <2>3. ASSUME NEW q \in Logins, NEW w \in verifier'[q]
        PROVE  \/ q = r /\ w = [v EXCEPT !.at = "again"]
               \/ \E x \in verifier[q] : w = [x EXCEPT !.overtaken = @ \/ x.at = "again"]
    BY <2>1
  <2>4. ASSUME NEW q \in Logins, NEW w \in verifier'[q] PROVE w \in KeyRequests /\ RequestOK(w)'
    <3>1. CASE w = [v EXCEPT !.at = "again"]
      BY <2>1, <2>2, <3>1 DEF RequestOK, KeyRequests
    <3>2. ASSUME NEW x \in verifier[q], w = [x EXCEPT !.overtaken = @ \/ x.at = "again"]
          PROVE  w \in KeyRequests /\ RequestOK(w)'
      <4>1. x \in KeyRequests /\ RequestOK(x)
        BY <1>0
      <4>2. /\ w \in KeyRequests /\ w.kid = x.kid /\ w.at = x.at /\ w.since = x.since
            /\ w.body = x.body /\ w.steady = x.steady
            /\ x.at = "again" => w.overtaken
        BY <3>2, <4>1 DEF KeyRequests
      <4>. QED
        BY <2>1, <4>1, <4>2 DEF RequestOK
    <3>. QED
      BY <2>3, <3>1, <3>2
  <2>5. verifier' \in [Logins -> SUBSET KeyRequests]
    BY <2>1, <2>4
  <2>6. \A q \in Logins : \A x, y \in verifier'[q] : x = y
    BY <1>0, <2>1 DEF KeyTypeOK
  <2>7. keys' \in [set : SUBSET Kids, fetched_at : -1..time] /\ keys'.fetched_at = time /\ keys'.set = v.body
    BY <1>0, <2>1, <2>2 DEF KeyRequests
  <2>8. KeyTypeOK'
    BY <1>0, <2>1, <2>2, <2>5, <2>6, <2>7 DEF KeyTypeOK, RequestOK
  <2>9. \A k \in v.body : seen[k] \in Int /\ seen[k] >= v.since
    BY <1>0, <2>2 DEF KeyTypeOK, RequestOK, KeyRequests
  <2>10. KeysSeen'
    BY <1>0, <2>1, <2>2, <2>7, <2>9, KeyCacheAssumption DEF KeysSeen, RequestOK
  <2>. QED
    BY <2>4, <2>8, <2>10 DEF KeyInv
<1>6. ASSUME NEW r \in Logins, LookAgain(r) \/ FetchFails(r) PROVE KeyInv'
  BY <1>6, RequestKeeps DEF LookAgain, FetchFails
<1>7. CASE UNCHANGED keyVars
  BY <1>7 DEF keyVars, KeyInv, KeyTypeOK, KeysSeen, RequestOK
<1>. QED
  BY <1>1, <1>2, <1>3, <1>4, <1>5, <1>6, <1>7 DEF KeyNext

\* Every variable of the key cache keeps its type, and a request is at one place.
THEOREM KeyTypeCorrect == KeySpec => []KeyTypeOK
<1>1. KeyInv => KeyTypeOK
  BY DEF KeyInv
<1>. QED
  BY <1>1, KeyInvInit, KeyInvNext, PTL DEF KeySpec

\* A key that is accepted was published less than JWKS_TTL and one timeout ago, and the
\* request that fetched a key that stays finds it.
THEOREM CachedKeysAreCurrent == KeySpec => []KeysAreCurrent
<1>1. ASSUME KeyInv PROVE KeysAreCurrent
  <2>1. ASSUME NEW k \in Kids, IsCached(k) PROVE seen[k] >= 0 /\ time - seen[k] < JWKS_TTL + HTTP_TIMEOUT
    BY <1>1, <2>1, KeyCacheAssumption DEF KeyInv, KeyTypeOK, KeysSeen, IsCached, IsFresh
  <2>2. ASSUME NEW r \in Logins, NEW v \in verifier[r], v.at = "again", v.steady, ~v.overtaken PROVE IsCached(v.kid)
    BY <1>1, <2>2, KeyCacheAssumption DEF KeyInv, KeyTypeOK, RequestOK, IsCached, IsFresh
  <2>. QED
    BY <2>1, <2>2 DEF KeysAreCurrent
<1>. QED
  BY <1>1, KeyInvInit, KeyInvNext, PTL DEF KeySpec
-----------------------------------------------------------------------------
(* All parts.  A behaviour of the tenancy is one of each of its parts.     *)

LEMMA PartsMove ==
  ASSUME [TenancyNext]_tenancyVars
  PROVE  /\ [WorkspacesNext]_workspaceVars /\ [DomainNext]_domainVars
         /\ [HandshakeNext]_handshakeVars /\ [KeyNext]_keyVars
<1>1. CASE UNCHANGED tenancyVars
  BY <1>1 DEF tenancyVars
<1>2. CASE TenancyNext
  BY <1>2 DEF TenancyNext
<1>. QED
  BY <1>1, <1>2

LEMMA PartsRun == TenancySpec => WorkspacesSpec /\ DomainSpec /\ HandshakeSpec /\ KeySpec
<1>1. TenancyInit => WorkspacesInit /\ DomainInit /\ HandshakeInit /\ KeyInit
  BY DEF TenancyInit
<1>. QED
  BY <1>1, PartsMove, PTL DEF TenancySpec, WorkspacesSpec, DomainSpec, HandshakeSpec, KeySpec

\* Together, too, the parts keep their rows, tokens and caches in the shape the code gives
\* them (the tables of qpedia-pg-store and the JWKS cache).
THEOREM TenancyTypeCorrect == TenancySpec => []TenancyTypeOK
<1>1. TenancySpec => []WorkspacesTypeOK /\ []DomainTypeOK /\ []HandshakeTypeOK /\ []KeyTypeOK
  BY PartsRun, WorkspacesTypeCorrect, DomainTypeCorrect, HandshakeTypeCorrect, KeyTypeCorrect, PTL
<1>2. WorkspacesTypeOK /\ DomainTypeOK /\ HandshakeTypeOK /\ KeyTypeOK => TenancyTypeOK
  BY DEF TenancyTypeOK
<1>. QED
  BY <1>1, <1>2, PTL
=============================================================================
