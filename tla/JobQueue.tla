------------------------------ MODULE JobQueue ------------------------------
(***************************************************************************)
(* The Postgres job queue (qpedia-pg-store/src/jobs.rs) and the worker     *)
(* loops that drain it (qpedia-ingest/src/runner.rs, spawned by            *)
(* qpedia-api/src/app.rs).                                                 *)
(*                                                                         *)
(* Every SQL statement is one action: claim_next_job is one UPDATE with    *)
(* FOR UPDATE SKIP LOCKED, complete_job and fail_job are one UPDATE each,  *)
(* keyed by the job's id alone.  What a handler does between the claim and *)
(* its return is left to the modules that compose with this one.           *)
(*                                                                         *)
(* Time is abstracted to what the SQL compares: "expired" is the set of    *)
(* rows with locked_until < now, "due" the rows with next_run_at <= now,   *)
(* and "ahead" the order of next_run_at among the rows still in play.      *)
(***************************************************************************)
EXTENDS Integers

CONSTANTS
  Jobs,         \* rows of the jobs table, present or future
  IngestJobs,   \* the rows with kind = 'ingest'
  Workers,      \* the JobRunner tasks of the process (QPEDIA_WORKERS)
  MaxAttempts,  \* max_attempts column, a function on Jobs
  FaultKinds,   \* which faults may happen: a subset of AllFaults
  MaxFaults,    \* bound: how many faults happen in a behaviour
  NoJob, NoWorker

AllFaults == {"restart", "panic", "db", "overrun"}

ASSUME JobQueueAssumption ==
  /\ IngestJobs \subseteq Jobs
  /\ MaxAttempts \in [Jobs -> Nat \ {0}]
  /\ FaultKinds \subseteq AllFaults
  /\ MaxFaults \in Nat
  /\ NoJob \notin Jobs
  /\ NoWorker \notin Workers

VARIABLES
  state,      \* jobs.state; "absent" before the INSERT
  attempt,    \* jobs.attempt
  locked_by,  \* jobs.locked_by
  expired,    \* running rows whose locked_until has passed
  due,        \* rows whose next_run_at has passed
  ahead,      \* <<i, j>>: next_run_at of i is before next_run_at of j
  pc,         \* where each JobRunner loop is
  cur,        \* the job in the loop's local variable
  marked,     \* ingest jobs whose source the runner set to 'failed'
  overrun,    \* history: jobs whose lease lapsed under a live handler
  faults      \* faults so far

rows == <<state, attempt, locked_by, expired, due, ahead>>
loop == <<pc, cur>>
vars == <<rows, loop, marked, overrun, faults>>

States == {"absent", "queued", "running", "done", "dead"}
Pcs == {"idle", "handling", "returned_ok", "returned_err", "marking", "gone"}

TypeOK ==
  /\ state \in [Jobs -> States]
  /\ attempt \in [Jobs -> Nat]
  /\ locked_by \in [Jobs -> Workers \cup {NoWorker}]
  /\ expired \subseteq Jobs
  /\ due \subseteq Jobs
  /\ ahead \subseteq Jobs \X Jobs
  /\ pc \in [Workers -> Pcs]
  /\ cur \in [Workers -> Jobs \cup {NoJob}]
  /\ marked \subseteq Jobs
  /\ overrun \subseteq Jobs
  /\ faults \in 0..MaxFaults

-----------------------------------------------------------------------------
\* A worker whose handler for job j has begun and whose verdict is not stored.
Runs(w, j) == cur[w] = j /\ pc[w] \in {"handling", "returned_ok", "returned_err"}

Fault(kind) ==
  /\ kind \in FaultKinds
  /\ faults < MaxFaults
  /\ faults' = faults + 1

\* Rows the claim's WHERE clause still has to order: the others never match.
InPlay(j) == state[j] \in {"queued", "running"}
Without(j) == {p \in ahead : p[1] # j /\ p[2] # j}

\* next_run_at = now: behind every due row, before every delayed one.
InsertNow(j) ==
  Without(j) \cup {<<i, j>> : i \in {x \in due : InPlay(x) /\ x # j}}
             \cup {<<j, i>> : i \in {x \in Jobs \ due : InPlay(x) /\ x # j}}

\* next_run_at = now + 5 s: behind every row in play.
InsertDelayed(j) ==
  Without(j) \cup {<<i, j>> : i \in {x \in Jobs : InPlay(x) /\ x # j}}

Init ==
  /\ state = [j \in Jobs |-> "absent"]
  /\ attempt = [j \in Jobs |-> 0]
  /\ locked_by = [j \in Jobs |-> NoWorker]
  /\ expired = {}
  /\ due = {}
  /\ ahead = {}
  /\ pc = [w \in Workers |-> "idle"]
  /\ cur = [w \in Workers |-> NoJob]
  /\ marked = {}
  /\ overrun = {}
  /\ faults = 0

-----------------------------------------------------------------------------
(* The table.                                                              *)

\* PgStore::enqueue of a job built by ingest_job, remove_job, sync_job, ...
Enqueue(j) ==
  /\ state[j] = "absent"
  /\ state' = [state EXCEPT ![j] = "queued"]
  /\ due' = due \cup {j}
  /\ ahead' = InsertNow(j)
  /\ UNCHANGED <<attempt, locked_by, expired, loop, marked, overrun, faults>>

\* now reaches next_run_at of the delayed row that is first in the order.
DelayElapses(j) ==
  /\ state[j] = "queued"
  /\ j \notin due
  /\ \A i \in Jobs \ due : InPlay(i) => <<i, j>> \notin ahead
  /\ due' = due \cup {j}
  /\ UNCHANGED <<state, attempt, locked_by, expired, ahead, loop, marked, overrun, faults>>

\* now passes locked_until of a running row that no worker is executing.
LeaseLapses(j) ==
  /\ state[j] = "running"
  /\ j \notin expired
  /\ \A w \in Workers : ~Runs(w, j)
  /\ expired' = expired \cup {j}
  /\ UNCHANGED <<state, attempt, locked_by, due, ahead, loop, marked, overrun, faults>>

\* The same while a handler is still at work: the lease was too short for it.
LeaseOverrun(j) ==
  /\ state[j] = "running"
  /\ j \notin expired
  /\ \E w \in Workers : Runs(w, j)
  /\ Fault("overrun")
  /\ expired' = expired \cup {j}
  /\ overrun' = overrun \cup {j}
  /\ UNCHANGED <<state, attempt, locked_by, due, ahead, loop, marked>>

-----------------------------------------------------------------------------
(* A JobRunner loop.                                                       *)

\* Seeded fault: a reclaim that does not look at the lease.
ClaimableIgnoringLease(j) ==
  \/ state[j] = "queued" /\ j \in due
  \/ state[j] = "running"

\* The WHERE clause of claim_next_job.
Claimable(j) ==
  \/ state[j] = "queued" /\ j \in due
  \/ state[j] = "running" /\ j \in expired

\* Seeded fault: no ORDER BY.
FirstOfAnyOrder(j) == TRUE

\* ORDER BY next_run_at ASC ... LIMIT 1
First(j) == \A i \in Jobs : Claimable(i) => <<i, j>> \notin ahead

\* Seeded fault: the claim does not count.
UncountedAttempt(j) == attempt[j]

\* attempt = attempt + 1
CountedAttempt(j) == attempt[j] + 1

\* claim_next_job: the whole UPDATE is atomic, so two claims serialise.
Claim(w, j) ==
  /\ pc[w] = "idle"
  /\ Claimable(j)
  /\ First(j)
  /\ state' = [state EXCEPT ![j] = "running"]
  /\ attempt' = [attempt EXCEPT ![j] = CountedAttempt(j)]
  /\ locked_by' = [locked_by EXCEPT ![j] = w]
  /\ expired' = expired \ {j}
  /\ pc' = [pc EXCEPT ![w] = "handling"]
  /\ cur' = [cur EXCEPT ![w] = j]
  /\ UNCHANGED <<due, ahead, marked, overrun, faults>>

\* self.handle(job).await returns Ok or Err.
HandlerReturns(w) ==
  /\ pc[w] = "handling"
  /\ \E result \in {"returned_ok", "returned_err"} : pc' = [pc EXCEPT ![w] = result]
  /\ UNCHANGED <<rows, cur, marked, overrun, faults>>

Idle(w) ==
  /\ pc' = [pc EXCEPT ![w] = "idle"]
  /\ cur' = [cur EXCEPT ![w] = NoJob]

\* complete_job: by id, whatever the row's state or holder.
CompleteJob(w) ==
  LET j == cur[w] IN
  /\ pc[w] = "returned_ok"
  /\ state' = [state EXCEPT ![j] = "done"]
  /\ expired' = expired \ {j}
  /\ ahead' = Without(j)
  /\ Idle(w)
  /\ UNCHANGED <<attempt, locked_by, due, marked, overrun, faults>>

\* Seeded fault: one attempt too many.
ExhaustedLate(j) == attempt[j] > MaxAttempts[j]

\* attempt >= max_attempts
Exhausted(j) == attempt[j] >= MaxAttempts[j]

\* Seeded fault: the unused JobState::Failed is written.
VerdictFailed(j) == IF Exhausted(j) THEN "failed" ELSE "queued"

\* CASE WHEN attempt >= max_attempts THEN 'dead' ELSE 'queued' END
Verdict(j) == IF Exhausted(j) THEN "dead" ELSE "queued"

\* Seeded faults: the source is marked at every failure, or at none.
MarksAtEveryFailure(j) == j \in IngestJobs
MarksAtNoFailure(j) == FALSE

\* fail_job returned true and the job was an ingest job.
MarksSource(j) == Exhausted(j) /\ j \in IngestJobs

\* fail_job with a retry delay: by id, whatever the row's state or holder.
FailJob(w) ==
  LET j == cur[w] IN
  /\ pc[w] = "returned_err"
  /\ state' = [state EXCEPT ![j] = Verdict(j)]
  /\ locked_by' = [locked_by EXCEPT ![j] = NoWorker]
  /\ expired' = expired \ {j}
  /\ due' = due \ {j}
  /\ ahead' = IF Exhausted(j) THEN Without(j) ELSE InsertDelayed(j)
  /\ IF MarksSource(j)
     THEN pc' = [pc EXCEPT ![w] = "marking"] /\ UNCHANGED cur
     ELSE Idle(w)
  /\ UNCHANGED <<attempt, marked, overrun, faults>>

\* The dead ingest job's source is set to SourceStatus::Failed.
MarkSourceFailed(w) ==
  /\ pc[w] = "marking"
  /\ marked' = marked \cup {cur[w]}
  /\ Idle(w)
  /\ UNCHANGED <<rows, overrun, faults>>

\* Any of the three statements above fails; the loop drops the error.
VerdictLost(w) ==
  /\ pc[w] \in {"returned_ok", "returned_err", "marking"}
  /\ Fault("db")
  /\ Idle(w)
  /\ UNCHANGED <<rows, marked, overrun>>

\* A handler panics: the spawned task ends and nothing respawns it.
Panic(w) ==
  /\ pc[w] = "handling"
  /\ Fault("panic")
  /\ pc' = [pc EXCEPT ![w] = "gone"]
  /\ cur' = [cur EXCEPT ![w] = NoJob]
  /\ UNCHANGED <<rows, marked, overrun>>

\* The process dies and boots again with fresh workers; the table survives.
Restart ==
  /\ Fault("restart")
  /\ pc' = [w \in Workers |-> "idle"]
  /\ cur' = [w \in Workers |-> NoJob]
  /\ UNCHANGED <<rows, marked, overrun>>

-----------------------------------------------------------------------------
Step(w) ==
  \/ \E j \in Jobs : Claim(w, j)
  \/ HandlerReturns(w)
  \/ CompleteJob(w)
  \/ FailJob(w)
  \/ MarkSourceFailed(w)

Next ==
  \/ \E j \in Jobs : Enqueue(j) \/ DelayElapses(j) \/ LeaseLapses(j) \/ LeaseOverrun(j)
  \/ \E w \in Workers : Step(w) \/ VerdictLost(w) \/ Panic(w)
  \/ Restart

Spec == Init /\ [][Next]_vars

-----------------------------------------------------------------------------
(* Properties.                                                             *)

\* A job waits for another run only while it has attempts left, dies only
\* when it has none, and is started at most max_attempts times plus once per
\* fault: a reclaim does not look at max_attempts, so every crash buys a run.
\* (jobs.rs, claim_next_job and fail_job.)
AttemptBudget == \A j \in Jobs :
  /\ state[j] = "queued" => attempt[j] < MaxAttempts[j]
  /\ state[j] = "dead" => attempt[j] >= MaxAttempts[j]
  /\ attempt[j] <= MaxAttempts[j] + faults

\* While leases outlive handlers, whoever executes a job is the one worker its
\* row names and the lease is in force: no second worker executes it, and the
\* verdict that complete_job or fail_job writes by id is its holder's.
SingleRunner == \A j \in Jobs \ overrun, w \in Workers :
  Runs(w, j) => state[j] = "running" /\ locked_by[j] = w /\ j \notin expired

\* While leases outlive handlers, the runner marks a source 'failed' only for
\* a job that is dead and stays dead, never for one that will be retried.
MarkedSourcesAreDead == \A j \in Jobs \ overrun :
  /\ j \in marked => state[j] = "dead"
  /\ \A w \in Workers : pc[w] = "marking" /\ cur[w] = j => state[j] = "dead"

\* The queue seen from outside: which promise holds for each job, and who
\* executes it.
Phase == [j \in Jobs |->
  IF j \in overrun THEN "void"
  ELSE IF state[j] = "queued" THEN "pending"
  ELSE IF state[j] # "running" THEN state[j]
  ELSE IF \E w \in Workers : Runs(w, j) THEN "active"
  ELSE "pending"]

Runners == [j \in Jobs |-> IF j \in overrun THEN {} ELSE {w \in Workers : Runs(w, j)}]

Promise == INSTANCE AbstractJobQueue WITH
  phase <- Phase, runners <- Runners, tries <- attempt

\* The table and the loops keep the queue's promise: done and dead are final,
\* one runner at a time, retries only while attempts last.
KeepsPromise == Promise!Spec
=============================================================================
