-------------------------- MODULE AbstractJobQueue --------------------------
(***************************************************************************)
(* What the job queue of qpedia-pg-store promises the rest of the system:  *)
(* a job is run by at most one worker at a time, it is run again after its *)
(* runner failed or vanished, it is given up only when its attempts are    *)
(* used, and once it is done or dead it never runs again.                  *)
(*                                                                         *)
(* The promise is conditional on the lease.  The code requires the lease   *)
(* to outlive every handler; a job whose lease lapsed under a live handler *)
(* is "void" here, and nothing is promised about it from then on.          *)
(***************************************************************************)
EXTENDS Integers

CONSTANTS
  Jobs,        \* rows of the jobs table
  Workers,     \* JobRunner loops
  MaxAttempts  \* max_attempts column, [Jobs -> Nat \ {0}]

VARIABLES
  phase,    \* [Jobs -> Phases]
  runners,  \* [Jobs -> SUBSET Workers], the workers executing the job
  tries     \* [Jobs -> Nat], how often the job was started

vars == <<phase, runners, tries>>

Phases == {"absent", "pending", "active", "done", "dead", "void"}

Init ==
  /\ phase = [j \in Jobs |-> "absent"]
  /\ runners = [j \in Jobs |-> {}]
  /\ tries = [j \in Jobs |-> 0]

\* A request handler or the scheduler hands over a new job.
Submit(j) ==
  /\ phase[j] = "absent"
  /\ phase' = [phase EXCEPT ![j] = "pending"]
  /\ UNCHANGED <<runners, tries>>

\* One worker, and only one, starts a pending job.
Start(w, j) ==
  /\ phase[j] = "pending"
  /\ \A k \in Jobs : w \notin runners[k]
  /\ phase' = [phase EXCEPT ![j] = "active"]
  /\ runners' = [runners EXCEPT ![j] = {w}]
  /\ tries' = [tries EXCEPT ![j] = @ + 1]

\* The runner leaves an active job in phase p.
Leave(j, p) ==
  /\ phase[j] = "active"
  /\ phase' = [phase EXCEPT ![j] = p]
  /\ runners' = [runners EXCEPT ![j] = {}]
  /\ UNCHANGED tries

Finish(j) == Leave(j, "done")
Retry(j)  == tries[j] < MaxAttempts[j] /\ Leave(j, "pending")
GiveUp(j) == tries[j] >= MaxAttempts[j] /\ Leave(j, "dead")

\* The runners of the jobs in S are gone without a word; all of these jobs
\* will be started again.
Lose(S) ==
  /\ \A j \in S : phase[j] = "active"
  /\ phase' = [j \in Jobs |-> IF j \in S THEN "pending" ELSE phase[j]]
  /\ runners' = [j \in Jobs |-> IF j \in S THEN {} ELSE runners[j]]
  /\ UNCHANGED tries

\* The lease of an active job lapses: the promise about this job ends.
Void(j) ==
  /\ phase[j] = "active"
  /\ phase' = [phase EXCEPT ![j] = "void"]
  /\ runners' = [runners EXCEPT ![j] = {}]
  /\ UNCHANGED tries

\* What happens to a void job's counter is of no concern.
Ignore ==
  /\ \A j \in Jobs : phase[j] # "void" => tries'[j] = tries[j]
  /\ tries' \in [Jobs -> Int]
  /\ UNCHANGED <<phase, runners>>

Next ==
  \/ \E j \in Jobs : Submit(j) \/ Finish(j) \/ Retry(j) \/ GiveUp(j) \/ Void(j)
  \/ \E w \in Workers, j \in Jobs : Start(w, j)
  \/ \E S \in SUBSET Jobs : Lose(S)
  \/ Ignore

Spec == Init /\ [][Next]_vars
=============================================================================
