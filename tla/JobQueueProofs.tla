--------------------------- MODULE JobQueueProofs ---------------------------
(***************************************************************************)
(* Theorems about the job queue, for every set of jobs and workers, every  *)
(* max_attempts and every number of faults of every kind.                  *)
(***************************************************************************)
EXTENDS JobQueue, TLAPS

\* A loop that is past its claim holds a job.
LoopOK == \A w \in Workers : pc[w] \notin {"idle", "gone"} => cur[w] \in Jobs

TypeInv == TypeOK /\ LoopOK

LEMMA TypeInit == Init => TypeInv
  BY JobQueueAssumption DEF Init, TypeInv, TypeOK, LoopOK, States, Pcs

LEMMA TypeNext == TypeInv /\ [Next]_vars => TypeInv'
<1> SUFFICES ASSUME TypeInv, [Next]_vars PROVE TypeInv'
  OBVIOUS
<1> USE DEF TypeInv, TypeOK, LoopOK, rows, loop
<1>1. ASSUME NEW j \in Jobs, Enqueue(j) PROVE TypeInv'
  BY <1>1 DEF Enqueue, InsertNow, Without, States
<1>2. ASSUME NEW j \in Jobs, DelayElapses(j) PROVE TypeInv'
  BY <1>2 DEF DelayElapses
<1>3. ASSUME NEW j \in Jobs, LeaseLapses(j) PROVE TypeInv'
  BY <1>3 DEF LeaseLapses
<1>4. ASSUME NEW j \in Jobs, LeaseOverrun(j) PROVE TypeInv'
  BY <1>4, JobQueueAssumption DEF LeaseOverrun, Fault
<1>5. ASSUME NEW w \in Workers, NEW j \in Jobs, Claim(w, j) PROVE TypeInv'
  BY <1>5 DEF Claim, CountedAttempt, States, Pcs
<1>6. ASSUME NEW w \in Workers, HandlerReturns(w) PROVE TypeInv'
  BY <1>6 DEF HandlerReturns, Pcs
<1>7. ASSUME NEW w \in Workers, CompleteJob(w) PROVE TypeInv'
  BY <1>7 DEF CompleteJob, Without, Idle, States, Pcs
<1>8. ASSUME NEW w \in Workers, FailJob(w) PROVE TypeInv'
  <2>1. cur[w] \in Jobs
    BY <1>8 DEF FailJob
  <2>2. /\ state' \in [Jobs -> States]
        /\ locked_by' \in [Jobs -> Workers \cup {NoWorker}]
        /\ ahead' \subseteq Jobs \X Jobs
    BY <1>8, <2>1 DEF FailJob, Verdict, Without, InsertDelayed, States
  <2>3. pc' \in [Workers -> Pcs] /\ cur' \in [Workers -> Jobs \cup {NoJob}] /\ LoopOK'
    BY <1>8, <2>1 DEF FailJob, Idle, Pcs
  <2>. QED
    BY <1>8, <2>2, <2>3 DEF FailJob
<1>9. ASSUME NEW w \in Workers, MarkSourceFailed(w) PROVE TypeInv'
  BY <1>9 DEF MarkSourceFailed, Idle, Pcs
<1>10. ASSUME NEW w \in Workers, VerdictLost(w) PROVE TypeInv'
  BY <1>10, JobQueueAssumption DEF VerdictLost, Fault, Idle, Pcs
<1>11. ASSUME NEW w \in Workers, Panic(w) PROVE TypeInv'
  BY <1>11, JobQueueAssumption DEF Panic, Fault, Pcs
<1>12. CASE Restart
  BY <1>12, JobQueueAssumption DEF Restart, Fault, Pcs
<1>13. CASE UNCHANGED vars
  BY <1>13 DEF vars
<1>. QED
  BY <1>1, <1>2, <1>3, <1>4, <1>5, <1>6, <1>7, <1>8, <1>9, <1>10, <1>11, <1>12, <1>13
     DEF Next, Step

\* Every variable keeps its type, and the fault counter its bound.
THEOREM TypeCorrect == Spec => []TypeOK
<1>1. Spec => []TypeInv
  BY TypeInit, TypeNext, PTL DEF Spec
<1>2. TypeInv => TypeOK
  BY DEF TypeInv
<1>. QED
  BY <1>1, <1>2, PTL
-----------------------------------------------------------------------------
(* Attempts.  AttemptBudget is not inductive: the claim that reclaims a    *)
(* lost job needs an attempt in reserve, and a fault paid for it when the  *)
(* job lost its runner or its lease.                                       *)

LostHasReserve == \A j \in Jobs :
  /\ state[j] = "absent" => attempt[j] = 0
  /\ state[j] = "running" /\ (j \in expired \/ \A w \in Workers : ~Runs(w, j))
       => attempt[j] + 1 <= MaxAttempts[j] + faults

BudgetInv == AttemptBudget /\ LostHasReserve

LEMMA BudgetInit == Init => BudgetInv
  BY JobQueueAssumption DEF Init, BudgetInv, AttemptBudget, LostHasReserve

LEMMA BudgetNext == TypeInv /\ BudgetInv /\ [Next]_vars => BudgetInv'
<1> SUFFICES ASSUME TypeInv, BudgetInv, [Next]_vars PROVE BudgetInv'
  OBVIOUS
<1> USE JobQueueAssumption
    DEF TypeInv, TypeOK, LoopOK, BudgetInv, AttemptBudget, LostHasReserve, rows, loop, Runs
<1>1. ASSUME NEW j \in Jobs, Enqueue(j) PROVE BudgetInv'
  BY <1>1 DEF Enqueue
<1>2. ASSUME NEW j \in Jobs, DelayElapses(j) PROVE BudgetInv'
  BY <1>2 DEF DelayElapses
<1>3. ASSUME NEW j \in Jobs, LeaseLapses(j) PROVE BudgetInv'
  BY <1>3 DEF LeaseLapses
<1>4. ASSUME NEW j \in Jobs, LeaseOverrun(j) PROVE BudgetInv'
  BY <1>4 DEF LeaseOverrun, Fault
<1>5. ASSUME NEW w \in Workers, NEW j \in Jobs, Claim(w, j) PROVE BudgetInv'
  BY <1>5 DEF Claim, Claimable, CountedAttempt
<1>6. ASSUME NEW w \in Workers, HandlerReturns(w) PROVE BudgetInv'
  BY <1>6 DEF HandlerReturns
<1>7. ASSUME NEW w \in Workers, CompleteJob(w) PROVE BudgetInv'
  BY <1>7 DEF CompleteJob, Idle
<1>8. ASSUME NEW w \in Workers, FailJob(w) PROVE BudgetInv'
  BY <1>8 DEF FailJob, Verdict, Exhausted, Idle
<1>9. ASSUME NEW w \in Workers, MarkSourceFailed(w) PROVE BudgetInv'
  BY <1>9 DEF MarkSourceFailed, Idle
<1>10. ASSUME NEW w \in Workers, VerdictLost(w) PROVE BudgetInv'
  BY <1>10 DEF VerdictLost, Fault, Idle
<1>11. ASSUME NEW w \in Workers, Panic(w) PROVE BudgetInv'
  BY <1>11 DEF Panic, Fault
<1>12. CASE Restart
  BY <1>12 DEF Restart, Fault
<1>13. CASE UNCHANGED vars
  BY <1>13 DEF vars
<1>. QED
  BY <1>1, <1>2, <1>3, <1>4, <1>5, <1>6, <1>7, <1>8, <1>9, <1>10, <1>11, <1>12, <1>13
     DEF Next, Step

\* A job waits only with attempts left, dies only without, and is started at
\* most max_attempts times plus once per fault, whatever the leases do.
THEOREM AttemptsWithinBudget == Spec => []AttemptBudget
<1>1. Init => TypeInv /\ BudgetInv
  BY TypeInit, BudgetInit
<1>2. TypeInv /\ BudgetInv /\ [Next]_vars => (TypeInv /\ BudgetInv)'
  BY TypeNext, BudgetNext
<1>3. BudgetInv => AttemptBudget
  BY DEF BudgetInv
<1>. QED
  BY <1>1, <1>2, <1>3, PTL DEF Spec

-----------------------------------------------------------------------------
(* One runner.                                                             *)

HolderInv == SingleRunner /\ MarkedSourcesAreDead

LEMMA HolderInit == Init => HolderInv
  BY DEF Init, HolderInv, SingleRunner, MarkedSourcesAreDead, Runs

LEMMA HolderNext == TypeInv /\ HolderInv /\ [Next]_vars => HolderInv'
<1> SUFFICES ASSUME TypeInv, HolderInv, [Next]_vars PROVE HolderInv'
  OBVIOUS
<1> USE DEF TypeInv, TypeOK, LoopOK, HolderInv, SingleRunner, MarkedSourcesAreDead,
            rows, loop, Runs
<1>1. ASSUME NEW j \in Jobs, Enqueue(j) PROVE HolderInv'
  BY <1>1 DEF Enqueue
<1>2. ASSUME NEW j \in Jobs, DelayElapses(j) PROVE HolderInv'
  BY <1>2 DEF DelayElapses
<1>3. ASSUME NEW j \in Jobs, LeaseLapses(j) PROVE HolderInv'
  BY <1>3 DEF LeaseLapses
<1>4. ASSUME NEW j \in Jobs, LeaseOverrun(j) PROVE HolderInv'
  BY <1>4 DEF LeaseOverrun
<1>5. ASSUME NEW w \in Workers, NEW j \in Jobs, Claim(w, j) PROVE HolderInv'
  BY <1>5 DEF Claim, Claimable
<1>6. ASSUME NEW w \in Workers, HandlerReturns(w) PROVE HolderInv'
  BY <1>6 DEF HandlerReturns
<1>7. ASSUME NEW w \in Workers, CompleteJob(w) PROVE HolderInv'
  BY <1>7 DEF CompleteJob, Idle
<1>8. ASSUME NEW w \in Workers, FailJob(w) PROVE HolderInv'
  BY <1>8 DEF FailJob, Verdict, MarksSource, Idle
<1>9. ASSUME NEW w \in Workers, MarkSourceFailed(w) PROVE HolderInv'
  BY <1>9 DEF MarkSourceFailed, Idle
<1>10. ASSUME NEW w \in Workers, VerdictLost(w) PROVE HolderInv'
  BY <1>10 DEF VerdictLost, Idle
<1>11. ASSUME NEW w \in Workers, Panic(w) PROVE HolderInv'
  BY <1>11 DEF Panic
<1>12. CASE Restart
  BY <1>12 DEF Restart
<1>13. CASE UNCHANGED vars
  BY <1>13 DEF vars
<1>. QED
  BY <1>1, <1>2, <1>3, <1>4, <1>5, <1>6, <1>7, <1>8, <1>9, <1>10, <1>11, <1>12, <1>13
     DEF Next, Step

LEMMA HolderCorrect == Spec => [](TypeInv /\ HolderInv)
<1>1. Init => TypeInv /\ HolderInv
  BY TypeInit, HolderInit
<1>2. TypeInv /\ HolderInv /\ [Next]_vars => (TypeInv /\ HolderInv)'
  BY TypeNext, HolderNext
<1>. QED
  BY <1>1, <1>2, PTL DEF Spec

\* A job whose lease never lapsed under a live handler has at most one worker
\* executing it, and that worker is the one its row names.
THEOREM OneRunner == Spec => []SingleRunner
<1>1. HolderInv => SingleRunner
  BY DEF HolderInv
<1>. QED
  BY <1>1, HolderCorrect, PTL

\* The runner marks a source failed only for a job that is dead for good.
THEOREM OnlyDeadAreMarked == Spec => []MarkedSourcesAreDead
<1>1. HolderInv => MarkedSourcesAreDead
  BY DEF HolderInv
<1>. QED
  BY <1>1, HolderCorrect, PTL
=============================================================================
