----------------------------- MODULE MCJobQueue -----------------------------
(* Instances of JobQueue for TLC. *)
EXTENDS JobQueue

CONSTANTS w1, w2, j1, j2, j3

\* Two attempts, or one, stand for the code's 5 and 3: one retry happens, and
\* a job that dies on its first failure happens too.
MCMaxAttempts == [j \in Jobs |-> IF j = j1 THEN 2 ELSE 1]

-----------------------------------------------------------------------------
(* The queue under an endless stream of jobs.  Rows are never deleted; a    *)
(* finished row no loop refers to is reused for a new job, so that a finite *)
(* set of identifiers carries the stream.                                   *)
Reuse(j) ==
  /\ state[j] \in {"done", "dead"}
  /\ \A w \in Workers : cur[w] # j
  /\ state' = [state EXCEPT ![j] = "absent"]
  /\ attempt' = [attempt EXCEPT ![j] = 0]
  /\ locked_by' = [locked_by EXCEPT ![j] = NoWorker]
  /\ due' = due \ {j}
  /\ marked' = marked \ {j}
  /\ UNCHANGED <<expired, ahead, loop, overrun, faults>>

\* The loops never stop (poll_idle is finite), every handler returns, and
\* time passes.  Nobody has to submit anything.
Fairness ==
  /\ \A w \in Workers : WF_vars(Step(w))
  /\ \A j \in Jobs : WF_vars(DelayElapses(j)) /\ WF_vars(LeaseLapses(j))

StreamSpec == Init /\ [][Next \/ \E j \in Jobs : Reuse(j)]_vars /\ Fairness

\* Every accepted job is settled, however many jobs arrive after it: ORDER BY
\* next_run_at keeps younger jobs from overtaking it for ever, and a lease
\* that lapses returns the jobs of a lost worker.
NoStarvation == \A j \in Jobs :
  state[j] \in {"queued", "running"} ~> state[j] \in {"done", "dead"}

\* Without faults, the source of every ingest job that dies is marked failed.
DeadSourceSurfaces == \A j \in IngestJobs :
  state[j] = "dead" /\ faults = 0 ~> j \in marked \/ faults > 0
=============================================================================
