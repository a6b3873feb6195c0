------------------------------ MODULE KeyCache ------------------------------
(***************************************************************************)
(* The cache of Firebase's signing keys (qpedia-api/src/firebase.rs), read *)
(* by every request that verifies an ID token.                             *)
(*                                                                         *)
(* Keys are published and withdrawn at any time.  Several requests verify  *)
(* at once: each looks into the cache, asks for the key set when it finds  *)
(* nothing, and stores the answer, which may be older than what another    *)
(* request has stored by then.  The HTTP client gives up after             *)
(* HTTP_TIMEOUT; a signature is taken to be good if its key is found.      *)
(***************************************************************************)
EXTENDS Integers, FiniteSets

CONSTANTS
  Kids,          \* key ids
  Logins,        \* requests that verify a token at once
  JWKS_TTL,
  HTTP_TIMEOUT,
  MaxKeyTime     \* bound: clock

ASSUME KeyCacheAssumption ==
  JWKS_TTL \in Nat \ {0} /\ HTTP_TIMEOUT \in Nat /\ MaxKeyTime \in Nat

VARIABLES
  time,
  published,  \* the keys in Firebase's key set
  seen,       \* history: when each key was last in it; -1 before it ever was
  keys,       \* KeysCache: the keys, and when they were stored; -1 before the first time
  verifier    \* the verification each request is at, as a set

keyVars == <<time, published, seen, keys, verifier>>

KeyRequests == [kid : Kids, at : {"fetch", "store", "again"}, body : SUBSET Kids, since : Nat,
                  steady : BOOLEAN, overtaken : BOOLEAN]

KeyTypeOK ==
  /\ time \in 0..MaxKeyTime
  /\ published \subseteq Kids /\ seen \in [Kids -> -1..time]
  /\ keys \in [set : SUBSET Kids, fetched_at : -1..time]
  /\ keys.fetched_at = -1 <=> keys.set = {}
  /\ verifier \in [Logins -> SUBSET KeyRequests]
  /\ \A r \in Logins : \A v, w \in verifier[r] : v = w

KeyInit ==
  /\ time = 0 /\ published = {} /\ seen = [k \in Kids |-> -1]
  /\ keys = [set |-> {}, fetched_at |-> -1]
  /\ verifier = [r \in Logins |-> {}]

-----------------------------------------------------------------------------
(* Firebase and the clock. *)

\* A key is published or withdrawn.
Rotate(k) ==
  /\ published' = IF k \in published THEN published \ {k} ELSE published \cup {k}
  /\ seen' = [seen EXCEPT ![k] = time]
  /\ verifier' = [r \in Logins |-> {[v EXCEPT !.steady = @ /\ v.kid # k] : v \in verifier[r]}]
  /\ UNCHANGED <<time, keys>>

\* No request for the key set outlasts its timeout, and the storing of its answer and
\* the second look into the cache take no time.
KeyTick ==
  /\ time < MaxKeyTime /\ time' = time + 1
  /\ \A r \in Logins : \A v \in verifier[r] : v.at # "again" /\ time - v.since < HTTP_TIMEOUT
  /\ seen' = [k \in Kids |-> IF k \in published THEN time + 1 ELSE seen[k]]
  /\ UNCHANGED <<published, keys, verifier>>

-----------------------------------------------------------------------------
(* FirebaseVerifier *)

\* Seeded fault: keys that were once stored are good for ever.
IsFreshForever == keys.fetched_at # -1

IsFresh == keys.fetched_at # -1 /\ time - keys.fetched_at < JWKS_TTL

\* cached_key
IsCached(k) == IsFresh /\ k \in keys.set

\* verify: the token's key is in the cache, or the key set is asked for.
Verify(r, k) ==
  /\ verifier[r] = {} /\ ~IsCached(k)
  /\ verifier' = [verifier EXCEPT ![r] =
       {[kid |-> k, at |-> "fetch", body |-> {}, since |-> time, steady |-> k \in published, overtaken |-> FALSE]}]
  /\ UNCHANGED <<time, published, seen, keys>>

\* refresh_jwks: the key set is read; without a usable key it is an error.
FetchKeys(r) ==
  \E v \in verifier[r] :
    /\ v.at = "fetch"
    /\ verifier' = [verifier EXCEPT ![r] =
         IF published = {} THEN {} ELSE {[v EXCEPT !.at = "store", !.body = published]}]
    /\ UNCHANGED <<time, published, seen, keys>>

\* The answer replaces what is stored, under the write lock.
StoreKeys(r) ==
  \E v \in verifier[r] :
    /\ v.at = "store"
    /\ keys' = [set |-> v.body, fetched_at |-> time]
    /\ verifier' = [q \in Logins |->
         IF q = r THEN {[v EXCEPT !.at = "again"]}
         ELSE {[x EXCEPT !.overtaken = @ \/ x.at = "again"] : x \in verifier[q]}]
    /\ UNCHANGED <<time, published, seen>>

\* cached_key is asked again; without the key the token is refused.
LookAgain(r) ==
  /\ \E v \in verifier[r] : v.at = "again"
  /\ verifier' = [verifier EXCEPT ![r] = {}]
  /\ UNCHANGED <<time, published, seen, keys>>

\* The request for the key set fails, or the client is gone.
FetchFails(r) ==
  /\ \E v \in verifier[r] : v.at \in {"fetch", "store"}
  /\ verifier' = [verifier EXCEPT ![r] = {}]
  /\ UNCHANGED <<time, published, seen, keys>>

KeyNext ==
  \/ KeyTick
  \/ \E k \in Kids : Rotate(k)
  \/ \E r \in Logins :
       \/ \E k \in Kids : Verify(r, k)
       \/ FetchKeys(r) \/ StoreKeys(r) \/ LookAgain(r) \/ FetchFails(r)

KeySpec == KeyInit /\ [][KeyNext]_keyVars

-----------------------------------------------------------------------------
\* A key that would be accepted now was in the key set within the last JWKS_TTL, plus
\* what a request for it may take: however requests overtake each other and whichever
\* answer is stored last.  And a request that asks for the key set finds a key that was
\* there all the while, unless the answer of another request replaced its own.
KeysAreCurrent ==
  /\ \A k \in Kids : IsCached(k) => seen[k] >= 0 /\ time - seen[k] < JWKS_TTL + HTTP_TIMEOUT
  /\ \A r \in Logins : \A v \in verifier[r] :
       v.at = "again" /\ v.steady /\ ~v.overtaken => IsCached(v.kid)
=============================================================================
