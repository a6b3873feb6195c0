---------------------------- MODULE ChatLimiter ----------------------------
(***************************************************************************)
(* The token buckets in front of the chat endpoint (qpedia-api/src/        *)
(* rate_limit.rs; chat in routes.rs), one per tenant, in the memory of the *)
(* process.                                                                *)
(*                                                                         *)
(* Time is in seconds, a token is 60 units, so that the refill of          *)
(* elapsed * rpm / 60 tokens is a whole number of units; the rounding of   *)
(* the code's floats is left out.  A restart forgets the buckets.          *)
(***************************************************************************)
EXTENDS Integers, FiniteSets, Sequences

CONSTANTS
  Tenants,
  RPM, BURST,    \* QPEDIA_CHAT_RPM, QPEDIA_CHAT_BURST
  MaxSeconds,    \* bound: clock
  NoBucket, NoAdvice

ASSUME ChatLimiterAssumption ==
  /\ RPM \in Nat \ {0} /\ BURST \in Nat \ {0} /\ MaxSeconds \in Nat
  /\ NoBucket \notin [tokens : Nat, last_refill : Nat]

Token == 60

VARIABLES
  now,
  bucket,    \* the bucket of each tenant, once there is one
  granted,   \* history: the times of the chats allowed since the start of the process
  advised    \* history: the time at which the latest refusal asked to come back

limiterVars == <<now, bucket, granted, advised>>

ChatLimiterTypeOK ==
  /\ now \in 0..MaxSeconds
  /\ \A t \in Tenants : bucket[t] # NoBucket =>
       bucket[t].tokens \in 0..(BURST * Token) /\ bucket[t].last_refill \in 0..now
  /\ \A t \in Tenants : \A i \in DOMAIN granted[t] : granted[t][i] \in 0..now

ChatLimiterInit ==
  /\ now = 0
  /\ bucket = [t \in Tenants |-> NoBucket]
  /\ granted = [t \in Tenants |-> <<>>] /\ advised = [t \in Tenants |-> NoAdvice]

Second ==
  /\ now < MaxSeconds /\ now' = now + 1
  /\ UNCHANGED <<bucket, granted, advised>>

\* Seeded fault: tokens pile up while a tenant is away.
RefillUncapped(b) == b.tokens + (now - b.last_refill) * RPM

\* The bucket fills with the time since its last use, up to the burst.
Refill(b) ==
  LET tokens == b.tokens + (now - b.last_refill) * RPM
  IN IF tokens > BURST * Token THEN BURST * Token ELSE tokens

\* Seeded fault: the seconds are rounded down.
RetryAfterFloor(tokens) == (Token - tokens) \div RPM

\* The seconds until there is a token, rounded up, at least 1.
RetryAfter(tokens) ==
  LET secs == (Token - tokens + RPM - 1) \div RPM IN IF secs < 1 THEN 1 ELSE secs

\* check: the bucket is made at its first use; a refusal stores the refill too.
Check(t) ==
  LET tokens == IF bucket[t] = NoBucket THEN BURST * Token ELSE Refill(bucket[t])
  IN /\ IF tokens >= Token
        THEN /\ bucket' = [bucket EXCEPT ![t] = [tokens |-> tokens - Token, last_refill |-> now]]
             /\ granted' = [granted EXCEPT ![t] = Append(@, now)]
             /\ advised' = [advised EXCEPT ![t] = NoAdvice]
        ELSE /\ bucket' = [bucket EXCEPT ![t] = [tokens |-> tokens, last_refill |-> now]]
             /\ advised' = [advised EXCEPT ![t] = now + RetryAfter(tokens)]
             /\ UNCHANGED granted
     /\ UNCHANGED now

RestartLimiter ==
  /\ bucket # [t \in Tenants |-> NoBucket]
  /\ bucket' = [t \in Tenants |-> NoBucket]
  /\ granted' = [t \in Tenants |-> <<>>] /\ advised' = [t \in Tenants |-> NoAdvice]
  /\ UNCHANGED now

ChatLimiterNext == Second \/ (\E t \in Tenants : Check(t)) \/ RestartLimiter

ChatLimiterSpec == ChatLimiterInit /\ [][ChatLimiterNext]_limiterVars

-----------------------------------------------------------------------------
(* Properties. *)

\* The rate: over any stretch of time within one process a tenant gets at most its burst
\* and what was refilled meanwhile, however its chats and refusals are spread.
RateHolds ==
  \A t \in Tenants : \A i, j \in DOMAIN granted[t] : i <= j =>
    (j - i + 1) * Token <= BURST * Token + (granted[t][j] - granted[t][i]) * RPM

\* The advice: who comes back when a refusal said finds a token, unless another chat of
\* the tenant has taken it, and other tenants make no difference.
AdviceHolds ==
  \A t \in Tenants : advised[t] # NoAdvice /\ now >= advised[t] /\ bucket'[t] # bucket[t]
    /\ bucket'[t] # NoBucket => granted'[t] # granted[t]

\* What the limiter promises, to the one who pays and to the one it sends away: the rate
\* is never exceeded, and the seconds it names are enough.
LimiterKeepsItsWord == [][RateHolds' /\ AdviceHolds]_limiterVars
=============================================================================
