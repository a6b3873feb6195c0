------------------------- MODULE JobQueueRefinement -------------------------
(***************************************************************************)
(* The job queue implements the abstract one, for every value of the       *)
(* constants: initial states map to initial states, and every step maps    *)
(* to a step of AbstractJobQueue or to a stutter.                          *)
(***************************************************************************)
EXTENDS JobQueueProofs

Mapped == <<Phase, Runners, attempt>>

\* A job under the promise whose handler runs is active, and one worker runs it.
LEMMA ActiveHasOneRunner ==
  ASSUME TypeInv, HolderInv, NEW w \in Workers, NEW j \in Jobs \ overrun, Runs(w, j)
  PROVE  Phase[j] = "active" /\ Runners[j] = {w}
  BY DEF HolderInv, SingleRunner, Phase, Runners

\* A job under the promise that can be claimed is pending, and nobody runs it.
LEMMA ClaimableIsPending ==
  ASSUME TypeInv, HolderInv, NEW j \in Jobs \ overrun, Claimable(j)
  PROVE  /\ Phase[j] = "pending"
         /\ \A w \in Workers : ~Runs(w, j)
  BY DEF HolderInv, SingleRunner, Phase, Claimable

LEMMA RefinesInit == Init => Promise!Init
  BY DEF Init, Promise!Init, Phase, Runners, Runs

LEMMA RefinesNext ==
  TypeInv /\ HolderInv /\ [Next]_vars /\ TypeInv' /\ HolderInv'
    => Promise!Next \/ UNCHANGED Mapped
<1> SUFFICES ASSUME TypeInv, HolderInv, [Next]_vars, TypeInv', HolderInv'
             PROVE  Promise!Next \/ UNCHANGED Mapped
  OBVIOUS
<1> USE DEF rows, loop, Mapped
<1> DEFINE Same(j) == Phase'[j] = Phase[j] /\ Runners'[j] = Runners[j]
<1>0. /\ Phase = [j \in Jobs |-> Phase[j]] /\ Phase' = [j \in Jobs |-> Phase'[j]]
      /\ Runners = [j \in Jobs |-> Runners[j]] /\ Runners' = [j \in Jobs |-> Runners'[j]]
  BY DEF Phase, Runners
\* What the mapping sees of a job: its state, the promise, and who runs it.
<1>u. ASSUME NEW j \in Jobs, j \in overrun' <=> j \in overrun,
             \/ j \in overrun
             \/ state'[j] = state[j] /\ \A w \in Workers : Runs(w, j)' <=> Runs(w, j)
      PROVE  Same(j)
  <2>1. Runners'[j] = Runners[j]
    BY <1>u DEF Runners
  <2>2. Phase'[j] = Phase[j]
    BY <1>u DEF Phase
  <2>. QED
    BY <2>1, <2>2
<1>s. ASSUME \A j \in Jobs : Same(j), attempt' = attempt PROVE UNCHANGED Mapped
  BY <1>0, <1>s
<1>1. ASSUME NEW j \in Jobs, Enqueue(j) PROVE Promise!Submit(j) \/ UNCHANGED Mapped
  <2>1. CASE j \in overrun
    BY <1>1, <2>1, <1>s DEF Enqueue, Phase, Runners, Runs, TypeInv, TypeOK
  <2>2. CASE j \notin overrun
    <3>1. \A i \in Jobs : i # j => Same(i)
      BY <1>1 DEF Enqueue, Phase, Runners, Runs, TypeInv, TypeOK
    <3>2. Phase[j] = "absent" /\ Phase'[j] = "pending" /\ Runners'[j] = Runners[j]
      BY <1>1, <2>2 DEF Enqueue, Phase, Runners, Runs, TypeInv, TypeOK
    <3>3. Phase' = [Phase EXCEPT ![j] = "pending"] /\ Runners' = Runners
      BY <3>1, <3>2, <1>0
    <3>. QED
      BY <1>1, <3>2, <3>3 DEF Promise!Submit, Enqueue
  <2>. QED
    BY <2>1, <2>2
<1>2. ASSUME NEW j \in Jobs, DelayElapses(j) \/ LeaseLapses(j) PROVE UNCHANGED Mapped
  BY <1>2, <1>s DEF DelayElapses, LeaseLapses, Phase, Runners, Runs
<1>3. ASSUME NEW j \in Jobs, LeaseOverrun(j) PROVE Promise!Void(j) \/ UNCHANGED Mapped
  <2>1. CASE j \in overrun
    BY <1>3, <2>1, <1>s DEF LeaseOverrun, Phase, Runners, Runs
  <2>2. CASE j \notin overrun
    <3>1. \A i \in Jobs : i # j => Same(i)
      BY <1>3 DEF LeaseOverrun, Phase, Runners, Runs
    <3>2. Phase[j] = "active" /\ Phase'[j] = "void" /\ Runners'[j] = {}
      BY <1>3, <2>2, ActiveHasOneRunner DEF LeaseOverrun, Phase, Runners
    <3>3. /\ Phase' = [Phase EXCEPT ![j] = "void"]
          /\ Runners' = [Runners EXCEPT ![j] = {}]
      BY <3>1, <3>2, <1>0
    <3>. QED
      BY <1>3, <3>2, <3>3 DEF Promise!Void, LeaseOverrun
  <2>. QED
    BY <2>1, <2>2
<1>4. ASSUME NEW w \in Workers, NEW j \in Jobs, Claim(w, j)
      PROVE  Promise!Start(w, j) \/ Promise!Ignore
  <2>1. CASE j \in overrun
    <3>1. \A i \in Jobs : Same(i)
      <4>1. \A i \in Jobs : i # j => state'[i] = state[i] /\ \A x \in Workers : Runs(x, i)' <=> Runs(x, i)
        BY <1>4 DEF Claim, Runs, TypeInv, TypeOK
      <4>. QED
        BY <1>4, <1>u, <2>1, <4>1 DEF Claim
    <3>2. \A i \in Jobs : Phase[i] # "void" => attempt'[i] = attempt[i]
      BY <1>4, <2>1 DEF Claim, Phase, TypeInv, TypeOK
    <3>. QED
      BY <3>1, <3>2, <1>0 DEF Promise!Ignore, TypeInv, TypeOK
  <2>2. CASE j \notin overrun
    <3>1. \A i \in Jobs : i # j => Same(i)
      BY <1>4 DEF Claim, Phase, Runners, Runs, TypeInv, TypeOK
    <3>2. Phase[j] = "pending" /\ \A x \in Workers : ~Runs(x, j)
      BY <1>4, <2>2, ClaimableIsPending DEF Claim
    <3>3. Runs(w, j)' /\ \A x \in Workers : Runs(x, j)' => x = w
      BY <1>4, <3>2 DEF Claim, Runs, TypeInv, TypeOK
    <3>4. Phase'[j] = "active" /\ Runners'[j] = {w}
      BY <1>4, <2>2, <3>3 DEF Claim, Phase, Runners, TypeInv, TypeOK
    <3>5. \A i \in Jobs : w \notin Runners[i]
      BY <1>4 DEF Claim, Runners, Runs
    <3>6. /\ Phase' = [Phase EXCEPT ![j] = "active"]
          /\ Runners' = [Runners EXCEPT ![j] = {w}]
      BY <3>1, <3>4, <1>0
    <3>7. attempt' = [attempt EXCEPT ![j] = @ + 1]
      BY <1>4 DEF Claim, CountedAttempt
    <3>. QED
      BY <3>2, <3>5, <3>6, <3>7 DEF Promise!Start
  <2>. QED
    BY <2>1, <2>2
<1>5. ASSUME NEW w \in Workers, HandlerReturns(w) PROVE UNCHANGED Mapped
  <2>1. \A i \in Jobs, x \in Workers : Runs(x, i)' <=> Runs(x, i)
    BY <1>5 DEF HandlerReturns, Runs, TypeInv, TypeOK
  <2>2. \A i \in Jobs : Same(i)
    BY <1>5, <1>u, <2>1 DEF HandlerReturns
  <2>. QED
    BY <1>5, <1>s, <2>2 DEF HandlerReturns
\* A worker that stores its verdict p leaves its job in phase p.
<1>6. ASSUME NEW w \in Workers, NEW j \in Jobs, NEW p, Runs(w, j), j \notin overrun,
             Phase'[j] = p, \A x \in Workers : ~Runs(x, j)',
             \A i \in Jobs : i # j => Same(i), attempt' = attempt
      PROVE  Promise!Leave(j, p)
  <2>1. Phase[j] = "active"
    BY <1>6, ActiveHasOneRunner
  <2>2. Runners'[j] = {}
    BY <1>6 DEF Runners
  <2>. QED
    BY <1>6, <2>1, <2>2, <1>0 DEF Promise!Leave
<1>7. ASSUME NEW w \in Workers, NEW j \in Jobs, j = cur[w], CompleteJob(w)
      PROVE  Promise!Finish(j) \/ UNCHANGED Mapped
  <2>0. Runs(w, j)
    BY <1>7 DEF CompleteJob, Runs
  <2>1. \A i \in Jobs : i # j => Same(i)
    <3>1. \A i \in Jobs : i # j =>
            state'[i] = state[i] /\ \A x \in Workers : Runs(x, i)' <=> Runs(x, i)
      BY <1>7, JobQueueAssumption DEF CompleteJob, Idle, Runs, TypeInv, TypeOK
    <3>. QED
      BY <1>7, <1>u, <3>1 DEF CompleteJob
  <2>2. CASE j \in overrun
    <3>1. Same(j)
      BY <1>7, <1>u, <2>2 DEF CompleteJob
    <3>. QED
      BY <1>7, <2>1, <3>1, <1>s DEF CompleteJob
  <2>3. CASE j \notin overrun
    <3>1. \A x \in Workers : ~Runs(x, j)'
      BY <1>7, <2>0, <2>3 DEF CompleteJob, Idle, Runs, HolderInv, SingleRunner, TypeInv, TypeOK
    <3>2. Phase'[j] = "done"
      BY <1>7, <2>0, <2>3 DEF CompleteJob, Phase, TypeInv, TypeOK
    <3>. QED
      BY <1>6, <1>7, <2>0, <2>1, <2>3, <3>1, <3>2 DEF CompleteJob, Promise!Finish
  <2>. QED
    BY <2>2, <2>3
<1>8. ASSUME NEW w \in Workers, NEW j \in Jobs, j = cur[w], FailJob(w)
      PROVE  Promise!Retry(j) \/ Promise!GiveUp(j) \/ UNCHANGED Mapped
  <2>0. Runs(w, j)
    BY <1>8 DEF FailJob, Runs
  <2>1. \A i \in Jobs : i # j => Same(i)
    <3>1. \A i \in Jobs : i # j =>
            state'[i] = state[i] /\ \A x \in Workers : Runs(x, i)' <=> Runs(x, i)
      BY <1>8, JobQueueAssumption DEF FailJob, Idle, Runs, TypeInv, TypeOK
    <3>. QED
      BY <1>8, <1>u, <3>1 DEF FailJob
  <2>2. CASE j \in overrun
    <3>1. Same(j)
      BY <1>8, <1>u, <2>2 DEF FailJob
    <3>. QED
      BY <1>8, <2>1, <3>1, <1>s DEF FailJob
  <2>3. CASE j \notin overrun
    <3>1. \A x \in Workers : ~Runs(x, j)'
      BY <1>8, <2>0, <2>3 DEF FailJob, Idle, Runs, HolderInv, SingleRunner, TypeInv, TypeOK
    <3>2. Phase'[j] = IF Exhausted(j) THEN "dead" ELSE "pending"
      BY <1>8, <2>0, <2>3 DEF FailJob, Verdict, Phase, TypeInv, TypeOK
    <3>3. Promise!Leave(j, Phase'[j])
      BY <1>6, <1>8, <2>0, <2>1, <2>3, <3>1 DEF FailJob
    <3>4. CASE Exhausted(j)
      BY <3>2, <3>3, <3>4 DEF Promise!GiveUp, Exhausted
    <3>5. CASE ~Exhausted(j)
      BY <2>0, <3>2, <3>3, <3>5, JobQueueAssumption
         DEF Promise!Retry, Exhausted, TypeInv, TypeOK
    <3>. QED
      BY <3>4, <3>5
  <2>. QED
    BY <2>2, <2>3
<1>9. ASSUME NEW w \in Workers, MarkSourceFailed(w) PROVE UNCHANGED Mapped
  <2>1. \A i \in Jobs, x \in Workers : Runs(x, i)' <=> Runs(x, i)
    BY <1>9 DEF MarkSourceFailed, Idle, Runs, TypeInv, TypeOK
  <2>2. \A i \in Jobs : Same(i)
    BY <1>9, <1>u, <2>1 DEF MarkSourceFailed
  <2>. QED
    BY <1>9, <1>s, <2>2 DEF MarkSourceFailed
\* A worker that vanishes in mid-job: the job is lost and will be started again.
<1>10. ASSUME NEW w \in Workers, NEW j \in Jobs, Runs(w, j), ~Runs(w, j)',
              \A x \in Workers \ {w}, i \in Jobs : Runs(x, i)' <=> Runs(x, i),
              \A i \in Jobs : ~Runs(w, i)',
              UNCHANGED <<state, overrun, attempt>>
       PROVE  Promise!Lose({j}) \/ UNCHANGED Mapped
  <2>1. \A i \in Jobs : i # j => Same(i)
    <3>1. \A i \in Jobs, x \in Workers : i # j => (Runs(x, i)' <=> Runs(x, i))
      BY <1>10 DEF Runs
    <3>. QED
      BY <1>10, <3>1 DEF Phase, Runners
  <2>2. CASE j \in overrun
    BY <1>10, <2>1, <2>2, <1>s DEF Phase, Runners
  <2>3. CASE j \notin overrun
    <3>1. Phase[j] = "active" /\ Runners[j] = {w} /\ state[j] = "running"
      BY <1>10, <2>3, ActiveHasOneRunner DEF HolderInv, SingleRunner
    <3>2. \A x \in Workers : ~Runs(x, j)'
      BY <1>10, <3>1, <2>3 DEF Runners
    <3>3. Phase'[j] = "pending" /\ Runners'[j] = {}
      BY <1>10, <2>3, <3>1, <3>2 DEF Phase, Runners
    <3>. QED
      BY <1>10, <2>1, <3>1, <3>3, <1>0 DEF Promise!Lose
  <2>. QED
    BY <2>2, <2>3
<1>11. ASSUME NEW w \in Workers, VerdictLost(w)
       PROVE  (\E j \in Jobs : Promise!Lose({j})) \/ UNCHANGED Mapped
  <2>1. CASE pc[w] = "marking"
    BY <1>11, <2>1, <1>s DEF VerdictLost, Idle, Phase, Runners, Runs, TypeInv, TypeOK
  <2>2. CASE pc[w] # "marking"
    <3>1. cur[w] \in Jobs /\ Runs(w, cur[w])
      BY <1>11, <2>2 DEF VerdictLost, Runs, TypeInv, LoopOK
    <3>2. /\ \A x \in Workers \ {w}, i \in Jobs : Runs(x, i)' <=> Runs(x, i)
          /\ \A i \in Jobs : ~Runs(w, i)'
      BY <1>11 DEF VerdictLost, Idle, Runs, TypeInv, TypeOK
    <3>3. Promise!Lose({cur[w]}) \/ UNCHANGED Mapped
      BY <1>10, <1>11, <3>1, <3>2 DEF VerdictLost
    <3>. QED
      BY <3>1, <3>3
  <2>. QED
    BY <2>1, <2>2
<1>12. ASSUME NEW w \in Workers, Panic(w)
       PROVE  (\E j \in Jobs : Promise!Lose({j})) \/ UNCHANGED Mapped
  <2>1. cur[w] \in Jobs /\ Runs(w, cur[w])
    BY <1>12 DEF Panic, Runs, TypeInv, LoopOK
  <2>2. /\ \A x \in Workers \ {w}, i \in Jobs : Runs(x, i)' <=> Runs(x, i)
        /\ \A i \in Jobs : ~Runs(w, i)'
    BY <1>12 DEF Panic, Runs, TypeInv, TypeOK
  <2>3. Promise!Lose({cur[w]}) \/ UNCHANGED Mapped
    BY <1>10, <1>12, <2>1, <2>2 DEF Panic
  <2>. QED
    BY <2>1, <2>3
<1>13. CASE Restart
  <2> DEFINE S == {j \in Jobs : Phase[j] = "active"}
  <2>1. \A w \in Workers, j \in Jobs : ~Runs(w, j)'
    BY <1>13 DEF Restart, Runs
  <2>2. ASSUME NEW j \in S PROVE Phase'[j] = "pending" /\ Runners'[j] = {}
    <3>1. j \notin overrun /\ state[j] = "running"
      BY DEF Phase, TypeInv, TypeOK, States
    <3>. QED
      BY <1>13, <2>1, <3>1 DEF Restart, Phase, Runners
  <2>3. \A j \in Jobs \ S : Same(j)
    <3> SUFFICES ASSUME NEW j \in Jobs \ S PROVE Same(j)
      OBVIOUS
    <3>1. CASE j \in overrun
      BY <1>13, <3>1 DEF Restart, Phase, Runners
    <3>2. CASE j \notin overrun
      <4>1. \A w \in Workers : ~Runs(w, j)
        BY <3>2, ActiveHasOneRunner
      <4>. QED
        BY <1>13, <2>1, <3>2, <4>1 DEF Restart, Phase, Runners
    <3>. QED
      BY <3>1, <3>2
  <2>4. Promise!Lose(S)
    BY <1>13, <1>0, <2>2, <2>3 DEF Restart, Promise!Lose
  <2>. QED
    BY <2>4 DEF Promise!Next
<1>14. CASE UNCHANGED vars
  BY <1>14, <1>s DEF vars, Phase, Runners, Runs
<1>. QED
  <2>1. TypeInv /\ \A w \in Workers : pc[w] \notin {"idle", "gone"} => cur[w] \in Jobs
    BY DEF TypeInv, LoopOK
  <2>2. ASSUME NEW w \in Workers, CompleteJob(w) PROVE Promise!Next \/ UNCHANGED Mapped
    BY <1>7, <2>1, <2>2 DEF CompleteJob, Promise!Next
  <2>3. ASSUME NEW w \in Workers, FailJob(w) PROVE Promise!Next \/ UNCHANGED Mapped
    BY <1>8, <2>1, <2>3 DEF FailJob, Promise!Next
  <2>4. \A j \in Jobs : Promise!Lose({j}) => Promise!Next
    BY DEF Promise!Next
  <2>5. ASSUME NEW w \in Workers, Step(w) PROVE Promise!Next \/ UNCHANGED Mapped
    BY <2>2, <2>3, <2>5, <1>4, <1>5, <1>9 DEF Step, Promise!Next
  <2>6. ASSUME NEW j \in Jobs,
               Enqueue(j) \/ DelayElapses(j) \/ LeaseLapses(j) \/ LeaseOverrun(j)
        PROVE  Promise!Next \/ UNCHANGED Mapped
    BY <2>6, <1>1, <1>2, <1>3 DEF Promise!Next
  <2>. QED
    BY <2>4, <2>5, <2>6, <1>11, <1>12, <1>13, <1>14 DEF Next

\* The queue implements its promise: done and dead are final, one runner at a
\* time, a retry only while attempts last, and no lost job is forgotten.
THEOREM QueueKeepsPromise == Spec => KeepsPromise
<1>1. Init => Promise!Init
  BY RefinesInit
<1>2. TypeInv /\ HolderInv /\ [Next]_vars /\ (TypeInv /\ HolderInv)'
        => [Promise!Next]_(Promise!vars)
  BY RefinesNext DEF Promise!vars, Mapped
<1>. QED
  BY <1>1, <1>2, HolderCorrect, PTL DEF Spec, KeepsPromise, Promise!Spec
=============================================================================
