------------------------- MODULE IngestPipelineProofs -------------------------
(***************************************************************************)
(* Theorems about the ingest pipeline, for every set of sources, jobs and  *)
(* workers, every number of versions and attempts, and any number of       *)
(* faults of every kind.                                                   *)
(*                                                                         *)
(* The queue is the pipeline's own instance of JobQueue, so what           *)
(* JobQueueProofs proves of the queue holds of every pipeline step.        *)
(***************************************************************************)
EXTENDS IngestPipeline, TLAPS

QP == INSTANCE JobQueueProofs WITH IngestJobs <- Jobs

\* Every job is an ingest job, and the queue's assumptions are the pipeline's.
LEMMA QueueAssumption ==
  /\ Jobs \subseteq Jobs /\ MaxAttempts \in [Jobs -> Nat \ {0}]
  /\ FaultKinds \subseteq QP!AllFaults /\ MaxFaults \in Nat
  /\ NoJob \notin Jobs /\ NoWorker \notin Workers
  BY IngestAssumption DEF Q!AllFaults, QP!AllFaults

QueueInv == QP!TypeInv /\ QP!HolderInv

LEMMA QueueInit == Init => QueueInv
<1>1. Init => QP!Init
  BY DEF Init, Q!Init, QP!Init
<1>. QED
  BY <1>1, QueueAssumption, QP!TypeInit, QP!HolderInit DEF QueueInv

\* The pipeline's queue takes the steps of JobQueue.
LEMMA JobSteps ==
  ASSUME NEW j \in Jobs
  PROVE  Q!Enqueue(j) \/ Q!DelayElapses(j) \/ Q!LeaseLapses(j) \/ Q!LeaseOverrun(j) => QP!Next
<1>1. Q!Enqueue(j) => QP!Enqueue(j)
  BY DEF Q!Enqueue, QP!Enqueue, Q!InsertNow, QP!InsertNow, Q!Without, QP!Without, Q!InPlay, QP!InPlay,
         Q!loop, QP!loop
<1>2. Q!DelayElapses(j) => QP!DelayElapses(j)
  BY DEF Q!DelayElapses, QP!DelayElapses, Q!InPlay, QP!InPlay, Q!loop, QP!loop
<1>3. Q!LeaseLapses(j) => QP!LeaseLapses(j)
  BY DEF Q!LeaseLapses, QP!LeaseLapses, Q!Runs, QP!Runs, Q!loop, QP!loop
<1>4. Q!LeaseOverrun(j) => QP!LeaseOverrun(j)
  BY DEF Q!LeaseOverrun, QP!LeaseOverrun, Q!Runs, QP!Runs, Q!Fault, QP!Fault, Q!loop, QP!loop
<1>. QED
  BY <1>1, <1>2, <1>3, <1>4 DEF QP!Next

LEMMA WorkerSteps ==
  ASSUME NEW w \in Workers
  PROVE  /\ \A j \in Jobs : Q!Claim(w, j) => QP!Next
         /\ Q!HandlerReturns(w) \/ Q!CompleteJob(w) \/ Q!FailJob(w) \/ Q!MarkSourceFailed(w) => QP!Next
         /\ Q!VerdictLost(w) \/ Q!Panic(w) => QP!Next
<1>1. ASSUME NEW j \in Jobs PROVE Q!Claim(w, j) => QP!Claim(w, j)
  BY DEF Q!Claim, QP!Claim, Q!Claimable, QP!Claimable, Q!First, QP!First,
         Q!CountedAttempt, QP!CountedAttempt
<1>2. Q!HandlerReturns(w) => QP!HandlerReturns(w)
  BY DEF Q!HandlerReturns, QP!HandlerReturns, Q!rows, QP!rows
<1>3. Q!CompleteJob(w) => QP!CompleteJob(w)
  BY DEF Q!CompleteJob, QP!CompleteJob, Q!Without, QP!Without, Q!Idle, QP!Idle
<1>4. Q!FailJob(w) => QP!FailJob(w)
  BY DEF Q!FailJob, QP!FailJob, Q!Verdict, QP!Verdict, Q!Exhausted, QP!Exhausted, Q!Without, QP!Without,
         Q!InsertDelayed, QP!InsertDelayed, Q!InPlay, QP!InPlay, Q!MarksSource, QP!MarksSource,
         Q!Idle, QP!Idle
<1>5. Q!MarkSourceFailed(w) => QP!MarkSourceFailed(w)
  BY DEF Q!MarkSourceFailed, QP!MarkSourceFailed, Q!Idle, QP!Idle, Q!rows, QP!rows
<1>6. Q!VerdictLost(w) => QP!VerdictLost(w)
  BY DEF Q!VerdictLost, QP!VerdictLost, Q!Fault, QP!Fault, Q!Idle, QP!Idle, Q!rows, QP!rows
<1>7. Q!Panic(w) => QP!Panic(w)
  BY DEF Q!Panic, QP!Panic, Q!Fault, QP!Fault, Q!rows, QP!rows
<1>. QED
  BY <1>1, <1>2, <1>3, <1>4, <1>5, <1>6, <1>7 DEF QP!Next, QP!Step

\* The fault that cuts off a request is the one step that is not the queue's.
LEMMA QueueMoves ==
  ASSUME [Next]_vars, ~(\E s \in Sources : RequestDies(s))
  PROVE  [QP!Next]_(QP!vars)
<1>1. CASE UNCHANGED queueVars
  BY <1>1 DEF queueVars, QP!vars, QP!rows, QP!loop
<1>2. CASE Restart
  BY <1>2 DEF Restart, QP!Next, Q!Restart, QP!Restart, Q!Fault, QP!Fault, Q!rows, QP!rows
<1>3. ASSUME NEW s \in Sources, UploadInsert(s) \/ ReplacePut(s) \/ ResumeList(s) \/ RequestStep(s)
      PROVE  [QP!Next]_(QP!vars)
  BY <1>1, <1>3, JobSteps
  DEF UploadInsert, ReplacePut, ResumeList, RequestStep, UploadPut, ReplaceRow, RequestEnqueue
<1>4. ASSUME NEW w \in Workers, WorkerStep(w) \/ HandlerFails(w) \/ VerdictLost(w) \/ Panic(w)
      PROVE  [QP!Next]_(QP!vars)
  BY <1>1, <1>4, WorkerSteps
  DEF WorkerStep, HandlerStep, HandlerFails, VerdictLost, Panic, Claim, Settle, MarkSourceFailed, Get,
      Extract, Classify, Distill, Embed, Taint, Reread, Stop, Return, Local, Read, Write, PutText,
      CommitBundle, ReadChangedPages, UpsertPages
<1>5. ASSUME NEW j \in Jobs, Time(j) \/ LeaseOverrun(j)
      PROVE  [QP!Next]_(QP!vars)
  BY <1>5, JobSteps DEF Time, LeaseOverrun
<1>. QED
  BY <1>1, <1>2, <1>3, <1>4, <1>5 DEF Next, vars

LEMMA QueueNext == QueueInv /\ [Next]_vars => QueueInv'
<1> SUFFICES ASSUME QueueInv, [Next]_vars PROVE QueueInv'
  OBVIOUS
<1>1. CASE \E s \in Sources : RequestDies(s)
  <2>1. faults' \in 0..MaxFaults
    BY <1>1, QueueAssumption DEF RequestDies, Q!Fault, QueueInv, QP!TypeInv, QP!TypeOK
  <2>2. UNCHANGED <<state, attempt, locked_by, expired, due, ahead, pc, cur, marked, overrun>>
    BY <1>1 DEF RequestDies
  <2>3. QP!TypeInv'
    BY <2>1, <2>2 DEF QueueInv, QP!TypeInv, QP!TypeOK, QP!LoopOK
  <2>4. QP!HolderInv'
    BY <2>2 DEF QueueInv, QP!HolderInv, QP!SingleRunner, QP!MarkedSourcesAreDead, QP!Runs
  <2>. QED
    BY <2>3, <2>4 DEF QueueInv
<1>2. CASE ~(\E s \in Sources : RequestDies(s))
  <2>1. [QP!Next]_(QP!vars)
    BY <1>2, QueueMoves
  <2>. QED
    BY <2>1, QueueAssumption, QP!TypeNext, QP!HolderNext DEF QueueInv
<1>. QED
  BY <1>1, <1>2

\* What the invariants of the pipeline use of it.
LEMMA QueueFacts ==
  ASSUME QueueInv
  PROVE  /\ Q!TypeOK
         /\ state \in [Jobs -> Q!States] /\ pc \in [Workers -> Q!Pcs] /\ cur \in [Workers -> Jobs \cup {NoJob}]
         /\ \A w \in Workers : pc[w] \notin {"idle", "gone"} => cur[w] \in Jobs
         /\ \A w \in Workers : pc[w] \in {"handling", "returned_ok", "returned_err"} /\ cur[w] \notin overrun =>
              /\ state[cur[w]] = "running" /\ cur[w] \notin expired
              /\ \A x \in Workers : Q!Runs(x, cur[w]) => x = w
<1>. USE DEF QueueInv, QP!TypeInv, QP!HolderInv
<1>1. Q!TypeOK
  BY DEF Q!TypeOK, QP!TypeOK, Q!States, QP!States, Q!Pcs, QP!Pcs
<1>2. ASSUME NEW w \in Workers, pc[w] \in {"handling", "returned_ok", "returned_err"}, cur[w] \notin overrun
      PROVE  /\ state[cur[w]] = "running" /\ cur[w] \notin expired
             /\ \A x \in Workers : Q!Runs(x, cur[w]) => x = w
  BY <1>2 DEF QP!LoopOK, QP!SingleRunner, QP!Runs, Q!Runs
<1>. QED
  BY <1>1, <1>2 DEF Q!TypeOK, QP!LoopOK

-----------------------------------------------------------------------------
(* The steps of a handler. *)

\* The statuses update_status writes, with the places around them.
Marks == {
  <<"extract", "extracting", "extract_read">>, <<"unsupported", "tainted", "reread">>,
  <<"extract_done", "extracted", "reread">>, <<"classify", "classifying", "classify_read">>,
  <<"classify_done", "classified", "reread">>, <<"distill", "agent_distilling", "distill_read">>,
  <<"distill_done", "committed", "reread">>, <<"embed", "embedding", "embed_read">>,
  <<"embed_done", "done", "reread">>, <<"taint", "tainted", "stop">>}

ReadBlob(w) ==
  Read(w, "extract_read", IF ver[w] \in Unsupported THEN "unsupported" ELSE "extract_put", bytes[Src(w)])
ReadText(w) == Read(w, "distill_read", "distill_commit", text[Src(w)])
Answer(w) == Local(w, "classify_read", "classify_done") /\ text[Src(w)] # 0 /\ UNCHANGED locals
Again(w) == Local(w, "reread", "get") /\ status[Src(w)] # before[w] /\ UNCHANGED locals

LEMMA HandlerSteps ==
  ASSUME NEW w \in Workers, HandlerStep(w) \/ HandlerFails(w)
  PROVE  \/ \E m \in Marks : Write(w, m[1], m[2], m[3])
         \/ Get(w) \/ ReadBlob(w) \/ PutText(w) \/ Answer(w) \/ ReadText(w) \/ CommitBundle(w)
         \/ ReadChangedPages(w) \/ UpsertPages(w) \/ Again(w)
         \/ \E r \in Q!Pcs : Return(w, r)
            /\ (r = "returned_err" \/ (hpc[w] = "reread" /\ status[Src(w)] = before[w]) \/ hpc[w] = "stop")
<1>1. "returned_ok" \in Q!Pcs /\ "returned_err" \in Q!Pcs
  BY DEF Q!Pcs
<1>2. ASSUME NEW from, NEW st, NEW to, <<from, st, to>> \in Marks, Write(w, from, st, to)
      PROVE  \E m \in Marks : Write(w, m[1], m[2], m[3])
  BY <1>2
<1>. QED
  BY <1>1, <1>2
  DEF HandlerStep, HandlerFails, Extract, Classify, Distill, Embed, Taint, Reread, Stop, At, Marks,
      ReadBlob, ReadText, Answer, Again

-----------------------------------------------------------------------------
(* Types. *)

Types ==
  /\ status \in [Sources -> Statuses]
  /\ sha \in [Sources -> Versions] /\ bytes \in [Sources -> Versions]
  /\ text \in [Sources -> Versions] /\ page \in [Sources -> Versions]
  /\ index \in [Sources -> Versions] /\ distilled \in [Sources -> Versions]
  /\ head \in Sources \cup {NoSource}
  /\ req \in [Sources -> Requests]
  /\ llm \in BOOLEAN
  /\ hpc \in [Workers -> Places]
  /\ before \in [Workers -> Statuses]
  /\ ver \in [Workers -> Versions]
  /\ touched \in [Workers -> Sources \cup {NoSource}]
  /\ raced \subseteq Sources /\ doubled \subseteq Sources
  /\ cut \subseteq Sources /\ crossed \subseteq Sources

\* A handler is somewhere just while its loop waits for it, and knows whose pages it upserts.
Shape ==
  /\ \A w \in Workers : hpc[w] # "none" <=> pc[w] = "handling"
  /\ \A w \in Workers : hpc[w] = "embed_put" => touched[w] \in Sources
  /\ \A w \in Workers : pc[w] \notin {"idle", "gone"} => state[cur[w]] # "absent"
  /\ \A j \in Jobs : state[j] # "absent" => status[SourceOf[j]] # "absent"
  /\ \A s \in Sources : req[s] # "none" => status[s] # "absent"

PipelineInv == QueueInv /\ Types /\ Shape

LEMMA PipelineInit == Init => PipelineInv
<1> SUFFICES ASSUME Init PROVE PipelineInv
  OBVIOUS
<1>1. 0 \in Versions /\ "absent" \in Statuses /\ "none" \in Requests /\ "none" \in Places
  BY IngestAssumption DEF Versions, Statuses, Requests, Places
<1>2. Types
  BY <1>1, IngestAssumption DEF Init, Types, Zero
<1>3. Shape
  BY IngestAssumption DEF Init, Shape, Q!Init
<1>. QED
  BY <1>2, <1>3, QueueInit DEF PipelineInv

\* The handler's source is one that exists.
LEMMA InHandExists ==
  ASSUME PipelineInv, NEW w \in Workers, pc[w] \notin {"idle", "gone"}
  PROVE  cur[w] \in Jobs /\ Src(w) \in Sources /\ status[Src(w)] # "absent"
<1>1. cur[w] \in Jobs
  BY QueueFacts DEF PipelineInv
<1>. QED
  BY <1>1, IngestAssumption DEF PipelineInv, Shape, Src

\* The steps of requests, of time and of the loops, for a state in which all is well.
LEMMA RequestsKeep ==
  ASSUME PipelineInv, NEW s \in Sources,
         UploadInsert(s) \/ ReplacePut(s) \/ ResumeList(s) \/ RequestStep(s) \/ RequestDies(s)
  PROVE  Types' /\ Shape'
<1>. USE DEF PipelineInv, Types, Shape
<1>1. {1} \cup 1..MaxVersion \subseteq Versions /\ 0 \in Versions
  BY IngestAssumption DEF Versions
<1>2. {"none", "put", "row", "enqueue", "resume"} = Requests /\ "pending" \in Statuses
  BY DEF Requests, Statuses
<1>3. CASE UploadInsert(s)
  BY <1>1, <1>2, <1>3 DEF UploadInsert, Pass, queueVars, handler, history
<1>4. CASE UploadPut(s)
  BY <1>1, <1>2, <1>4 DEF UploadPut, Pass, queueVars, handler, history
<1>5. CASE ReplacePut(s)
  BY <1>1, <1>2, <1>5 DEF ReplacePut, Pass, queueVars, handler, history
<1>6. CASE ReplaceRow(s)
  BY <1>1, <1>2, <1>6 DEF ReplaceRow, Pass, queueVars, handler
<1>7. CASE ResumeList(s)
  BY <1>1, <1>2, <1>7 DEF ResumeList, Stalled, Pass, queueVars, stores, handler, history
<1>8. CASE RequestEnqueue(s)
  <2>1. PICK j \in Jobs : SourceOf[j] = s /\ Q!Enqueue(j)
    BY <1>8 DEF RequestEnqueue
  <2>2. state' = [state EXCEPT ![j] = "queued"] /\ pc' = pc /\ cur' = cur
    BY <2>1 DEF Q!Enqueue, Q!loop
  <2>3. req' = [req EXCEPT ![s] = "none"] /\ req[s] # "none"
    BY <1>8 DEF RequestEnqueue, Pass
  <2>4. UNCHANGED <<status, stores, llm, handler, history>>
    BY <1>8 DEF RequestEnqueue
  <2>5. state \in [Jobs -> Q!States]
    BY QueueFacts
  <2>. QED
    BY <1>2, <2>1, <2>2, <2>3, <2>4, <2>5 DEF stores, handler, history
<1>9. CASE RequestDies(s)
  BY <1>2, <1>9 DEF RequestDies, stores, handler
<1>. QED
  BY <1>3, <1>4, <1>5, <1>6, <1>7, <1>8, <1>9 DEF RequestStep

LEMMA HandlerKeeps ==
  ASSUME PipelineInv, NEW w \in Workers, HandlerStep(w) \/ HandlerFails(w)
  PROVE  Types' /\ Shape'
<1>. USE DEF PipelineInv, Types, Shape
<1>1. pc[w] = "handling"
  BY HandlerSteps DEF Write, Get, ReadBlob, PutText, Answer, ReadText, CommitBundle, ReadChangedPages,
                      UpsertPages, Again, Return, Q!HandlerReturns, Read, Local, At
<1>2. Src(w) \in Sources /\ status[Src(w)] # "absent" /\ cur[w] \in Jobs
  BY <1>1, InHandExists
<1>3. pc \in [Workers -> Q!Pcs] /\ state \in [Jobs -> Q!States]
  BY QueueFacts
<1>4. 0 \in Versions /\ NoSource \notin Sources
  BY IngestAssumption DEF Versions
<1>5. ASSUME NEW m \in Marks, Write(w, m[1], m[2], m[3]) PROVE Types' /\ Shape'
  <2>1. m[2] \in Statuses /\ m[2] # "absent" /\ m[3] \in Places /\ m[3] \notin {"none", "embed_put"}
    BY <1>5 DEF Marks, Statuses, Places
  <2>. QED
    BY <1>1, <1>2, <1>5, <2>1 DEF Write, At, Goto, queueVars, stores, locals, history
<1>6. CASE Get(w)
  <2>1. PICK p \in Places : hpc' = [hpc EXCEPT ![w] = p] /\ p \notin {"none", "embed_put"}
    BY <1>6 DEF Get, Local, Goto, Entry, Places
  <2>2. ver'[w] \in Versions /\ ver' = [ver EXCEPT ![w] = ver'[w]]
    BY <1>2, <1>4, <1>6 DEF Get
  <2>. QED
    BY <1>1, <1>2, <1>6, <2>1, <2>2 DEF Get, Local, At, queueVars, stores, history
<1>7. CASE ReadBlob(w) \/ ReadText(w) \/ Answer(w) \/ Again(w)
  <2>1. PICK p \in Places : hpc' = [hpc EXCEPT ![w] = p] /\ p \notin {"none", "embed_put"}
    BY <1>7 DEF ReadBlob, ReadText, Answer, Again, Read, Local, Goto, Places
  <2>. QED
    BY <1>1, <1>2, <1>7, <2>1
    DEF ReadBlob, ReadText, Answer, Again, Read, Local, At, queueVars, stores, history, locals
<1>8. CASE PutText(w) \/ CommitBundle(w) \/ UpsertPages(w)
  <2>1. PICK p \in Places : hpc' = [hpc EXCEPT ![w] = p] /\ p \notin {"none", "embed_put"}
    BY <1>8 DEF PutText, CommitBundle, UpsertPages, Goto, Places
  <2>2. CASE PutText(w)
    BY <1>1, <1>2, <1>4, <2>1, <2>2 DEF PutText, queueVars, history
  <2>3. CASE CommitBundle(w)
    BY <1>1, <1>2, <1>4, <2>1, <2>3 DEF CommitBundle, queueVars, history
  <2>4. CASE UpsertPages(w)
    BY <1>1, <1>2, <1>4, <2>1, <2>4 DEF UpsertPages, At, queueVars, history
  <2>. QED
    BY <1>8, <2>2, <2>3, <2>4
<1>9. CASE ReadChangedPages(w)
  <2>1. PICK p \in Places : hpc' = [hpc EXCEPT ![w] = p] /\ p # "none" /\ (p = "embed_put" => head # NoSource)
    BY <1>9 DEF ReadChangedPages, Local, Goto, Places
  <2>. QED
    BY <1>1, <1>2, <1>4, <1>9, <2>1 DEF ReadChangedPages, Local, queueVars, stores, history
<1>10. ASSUME NEW r \in Q!Pcs, Return(w, r) PROVE Types' /\ Shape'
  <2>1. PICK q \in {"returned_ok", "returned_err"} : pc' = [pc EXCEPT ![w] = q]
    BY <1>10 DEF Return, Q!HandlerReturns
  <2>2. UNCHANGED <<state, cur>>
    BY <1>10 DEF Return, Q!HandlerReturns, Q!rows
  <2>3. hpc' = [hpc EXCEPT ![w] = "none"] /\ "none" \in Places /\ "absent" \in Statuses
    BY <1>10 DEF Return, Forget, Goto, Places, Statuses
  <2>. QED
    BY <1>1, <1>2, <1>3, <1>4, <1>10, <2>1, <2>2, <2>3 DEF Return, Forget, stores, history
<1>. QED
  BY <1>5, <1>6, <1>7, <1>8, <1>9, <1>10, HandlerSteps

LEMMA LoopKeeps ==
  ASSUME PipelineInv, NEW w \in Workers,
         (\E j \in Jobs : Claim(w, j)) \/ Settle(w) \/ MarkSourceFailed(w) \/ VerdictLost(w) \/ Panic(w)
  PROVE  Types' /\ Shape'
<1>. USE DEF PipelineInv, Types, Shape
<1>1. /\ pc \in [Workers -> Q!Pcs] /\ state \in [Jobs -> Q!States] /\ cur \in [Workers -> Jobs \cup {NoJob}]
      /\ \A x \in Workers : pc[x] \notin {"idle", "gone"} => cur[x] \in Jobs
  BY QueueFacts
<1>2. \A j \in Jobs : SourceOf[j] \in Sources
  BY IngestAssumption
<1>3. 0 \in Versions /\ {"none", "get"} \subseteq Places /\ {"absent", "failed"} \subseteq Statuses
  BY IngestAssumption DEF Versions, Places, Statuses
<1>4. ASSUME NEW j \in Jobs, Claim(w, j) PROVE Types' /\ Shape'
  <2>1. /\ state' = [state EXCEPT ![j] = "running"] /\ state[j] # "absent" /\ pc[w] = "idle"
        /\ pc' = [pc EXCEPT ![w] = "handling"] /\ cur' = [cur EXCEPT ![w] = j]
    BY <1>4 DEF Claim, Q!Claim, Q!Claimable
  <2>. QED
    BY <1>1, <1>2, <1>3, <1>4, <2>1 DEF Claim, Goto, stores, locals
<1>5. CASE Settle(w)
  <2>1. UNCHANGED <<status, stores, req, llm, handler, history>> /\ pc[w] \in {"returned_ok", "returned_err"}
    BY <1>5 DEF Settle, Q!CompleteJob, Q!FailJob
  <2>2. CASE Q!CompleteJob(w)
    <3>1. /\ state' = [state EXCEPT ![cur[w]] = "done"] /\ pc' = [pc EXCEPT ![w] = "idle"]
          /\ cur' = [cur EXCEPT ![w] = NoJob]
      BY <2>2 DEF Q!CompleteJob, Q!Idle
    <3>. QED
      BY <1>1, <1>2, <2>1, <3>1 DEF stores, handler, history
  <2>3. CASE Q!FailJob(w)
    <3>1. PICK v \in {"dead", "queued"} : state' = [state EXCEPT ![cur[w]] = v]
      BY <2>3 DEF Q!FailJob, Q!Verdict
    <3>2. \/ pc' = [pc EXCEPT ![w] = "idle"] /\ cur' = [cur EXCEPT ![w] = NoJob]
          \/ pc' = [pc EXCEPT ![w] = "marking"] /\ cur' = cur
      BY <2>3 DEF Q!FailJob, Q!Idle
    <3>. QED
      BY <1>1, <1>2, <2>1, <3>1, <3>2 DEF stores, handler, history
  <2>. QED
    BY <1>5, <2>2, <2>3 DEF Settle
<1>6. CASE MarkSourceFailed(w)
  <2>1. /\ state' = state /\ pc[w] = "marking" /\ pc' = [pc EXCEPT ![w] = "idle"]
        /\ cur' = [cur EXCEPT ![w] = NoJob]
    BY <1>6 DEF MarkSourceFailed, Q!MarkSourceFailed, Q!Idle, Q!rows
  <2>2. status' = [status EXCEPT ![Src(w)] = "failed"] /\ UNCHANGED <<stores, req, llm, handler, history>>
    BY <1>6 DEF MarkSourceFailed
  <2>. QED
    BY <1>1, <1>2, <1>3, <2>1, <2>2 DEF stores, handler, history
<1>7. CASE VerdictLost(w)
  <2>1. /\ state' = state /\ pc[w] \in {"returned_ok", "returned_err", "marking"}
        /\ pc' = [pc EXCEPT ![w] = "idle"] /\ cur' = [cur EXCEPT ![w] = NoJob]
    BY <1>7 DEF VerdictLost, Q!VerdictLost, Q!Idle, Q!rows
  <2>2. cut' \subseteq Sources
    BY <1>1, <1>2, <1>7, <2>1 DEF VerdictLost, Src
  <2>. QED
    BY <1>1, <1>7, <2>1, <2>2 DEF VerdictLost, stores, handler
<1>8. CASE Panic(w)
  <2>1. /\ state' = state /\ pc[w] = "handling"
        /\ pc' = [pc EXCEPT ![w] = "gone"] /\ cur' = [cur EXCEPT ![w] = NoJob]
    BY <1>8 DEF Panic, Q!Panic, Q!rows
  <2>2. hpc' = [hpc EXCEPT ![w] = "none"]
    BY <1>8 DEF Panic, Forget, Goto
  <2>. QED
    BY <1>1, <1>3, <1>8, <2>1, <2>2 DEF Panic, Forget, stores, history
<1>. QED
  BY <1>4, <1>5, <1>6, <1>7, <1>8

LEMMA PipelineNext == PipelineInv /\ [Next]_vars => PipelineInv'
<1> SUFFICES ASSUME PipelineInv, [Next]_vars PROVE PipelineInv'
  OBVIOUS
<1>1. QueueInv'
  BY QueueNext DEF PipelineInv
<1>2. CASE UNCHANGED vars
  BY <1>1, <1>2 DEF PipelineInv, Types, Shape, vars, queueVars, stores, handler, history
<1>3. CASE Restart
  <2>1. \A w \in Workers : pc[w] = "marking" => Src(w) \in Sources
    BY InHandExists
  <2>2. cut' \subseteq Sources
    BY <1>3, <2>1 DEF Restart, Marking, PipelineInv, Types
  <2>3. "none" \in Places /\ "absent" \in Statuses /\ 0 \in Versions /\ "none" \in Requests
    BY IngestAssumption DEF Places, Statuses, Versions, Requests
  <2>4. Types'
    BY <1>3, <2>2, <2>3, IngestAssumption DEF Restart, PipelineInv, Types, stores
  <2>5. Shape'
    BY <1>3 DEF Restart, Q!Restart, Q!rows, PipelineInv, Shape
  <2>. QED
    BY <1>1, <2>4, <2>5 DEF PipelineInv
<1>4. ASSUME NEW j \in Jobs, Time(j) \/ LeaseOverrun(j) PROVE PipelineInv'
  <2>1. UNCHANGED <<status, stores, req, llm, handler, history, state, pc, cur>>
    BY <1>4 DEF Time, LeaseOverrun, Q!DelayElapses, Q!LeaseLapses, Q!LeaseOverrun, Q!loop
  <2>2. Types' /\ Shape'
    BY <2>1 DEF PipelineInv, Types, Shape, stores, handler, history
  <2>. QED
    BY <1>1, <2>2 DEF PipelineInv
<1>5. ASSUME NEW s \in Sources,
             UploadInsert(s) \/ ReplacePut(s) \/ ResumeList(s) \/ RequestStep(s) \/ RequestDies(s)
      PROVE  PipelineInv'
  BY <1>1, <1>5, RequestsKeep DEF PipelineInv
<1>6. ASSUME NEW w \in Workers, WorkerStep(w) \/ HandlerFails(w) \/ VerdictLost(w) \/ Panic(w)
      PROVE  PipelineInv'
  BY <1>1, <1>6, HandlerKeeps, LoopKeeps DEF PipelineInv, WorkerStep
<1>. QED
  BY <1>2, <1>3, <1>4, <1>5, <1>6 DEF Next

\* Every variable of the pipeline and of its queue keeps its type.
THEOREM PipelineTypeCorrect == Spec => []TypeOK
<1>1. PipelineInv => TypeOK
  BY QueueFacts DEF PipelineInv, Types, TypeOK
<1>. QED
  BY <1>1, PipelineInit, PipelineNext, PTL DEF Spec

-----------------------------------------------------------------------------
(* No phase is skipped.  NothingSkipped is not inductive: what a handler   *)
(* holds in its hands between two statements must be fresh as well, and so *)
(* must everything it has put aside by the place it has reached.           *)

\* A row's bytes are the row's, unless a request is between the two or was cut off there.
BytesOK == \A s \in Sources :
  /\ status[s] # "absent" => sha[s] > 0
  /\ status[s] = "absent" \/ req[s] = "put" => bytes[s] = 0
  /\ req[s] = "row" => bytes[s] # 0
  /\ bytes[s] # 0 => bytes[s] >= sha[s]
  /\ s \notin cut /\ status[s] # "absent" /\ req[s] \notin {"put", "row"} => bytes[s] = sha[s]

\* Where a handler counts on the text, and on what the agent distilled from it.
TextPlaces == {"extract_done", "classify", "classify_read", "classify_done", "distill", "distill_read",
  "distill_commit", "distill_done", "embed", "embed_read", "embed_put", "embed_done"}
BundlePlaces == {"distill_done", "embed", "embed_read", "embed_put", "embed_done"}

HandFresh(w) ==
  /\ hpc[w] \in {"extract_put", "distill_commit"} => Fresh(Src(w), ver[w])
  /\ hpc[w] \in TextPlaces => Fresh(Src(w), text[Src(w)])
  /\ hpc[w] \in BundlePlaces => Fresh(Src(w), distilled[Src(w)])

HandsFresh == \A w \in Workers : hpc[w] # "none" /\ Src(w) \notin raced => HandFresh(w)

SkipInv == BytesOK /\ NothingSkipped /\ HandsFresh

LEMMA SkipInit == Init => SkipInv
<1> SUFFICES ASSUME Init PROVE SkipInv
  OBVIOUS
<1>1. BytesOK
  BY DEF Init, BytesOK, Zero
<1>2. NothingSkipped
  BY DEF Init, NothingSkipped
<1>3. HandsFresh
  BY DEF Init, HandsFresh
<1>. QED
  BY <1>1, <1>2, <1>3 DEF SkipInv

LEMMA BytesKept ==
  ASSUME PipelineInv, BytesOK, UNCHANGED <<sha, bytes, req>>, cut \subseteq cut',
         \A s \in Sources : status'[s] = "absent" <=> status[s] = "absent"
  PROVE  BytesOK'
  BY DEF BytesOK

\* What was fresh stays so: a request that puts new bytes keeps the row's, and one that is
\* cut off lets both count.
LEMMA FreshKept ==
  ASSUME PipelineInv, BytesOK, NEW s \in Sources, NEW v, Fresh(s, v), sha'[s] = sha[s], cut \subseteq cut',
         \/ bytes'[s] = bytes[s]
         \/ req[s] = "none" /\ status[s] # "absent"
         \/ req[s] = "put" /\ bytes'[s] = sha[s]
  PROVE  Fresh(s, v)'
<1>1. CASE bytes'[s] = bytes[s]
  BY <1>1 DEF Fresh, Current
<1>2. CASE req[s] = "none" /\ status[s] # "absent"
  BY <1>2 DEF Fresh, Current, BytesOK
<1>3. CASE req[s] = "put" /\ bytes'[s] = sha[s]
  <2>1. bytes[s] = 0 /\ sha[s] > 0 /\ sha[s] \in Int
    BY <1>3, IngestAssumption DEF BytesOK, PipelineInv, Types, Shape, Versions
  <2>2. v >= sha[s] /\ (s \in cut \/ v = sha[s])
    BY <2>1 DEF Fresh, Current
  <2>. QED
    BY <1>3, <2>2 DEF Fresh, Current
<1>. QED
  BY <1>1, <1>2, <1>3

\* A step that keeps handlers, texts and bundles, and every fresh version fresh, keeps the rest.
LEMMA SkipKept ==
  ASSUME PipelineInv, NothingSkipped, HandsFresh, raced \subseteq raced',
         UNCHANGED <<text, distilled, ver>>,
         \A w \in Workers : hpc'[w] # "none" => hpc'[w] \in {hpc[w], "get"} /\ (hpc'[w] = hpc[w] => cur'[w] = cur[w]),
         \A s \in Sources \ raced' : status'[s] \in {status[s], "failed", "pending"},
         \A s \in Sources \ raced', v \in Versions : Fresh(s, v) => Fresh(s, v)'
  PROVE  NothingSkipped' /\ HandsFresh'
<1>1. NothingSkipped'
  BY DEF NothingSkipped, Terminal, PipelineInv, Types
<1>2. HandsFresh'
  <2> SUFFICES ASSUME NEW w \in Workers, hpc'[w] # "none", Src(w)' \notin raced'
               PROVE  HandFresh(w)'
    BY DEF HandsFresh
  <2>1. CASE hpc'[w] = hpc[w]
    <3>1. cur'[w] = cur[w] /\ Src(w) \in Sources \ raced' /\ Src(w)' = Src(w)
      BY <2>1, InHandExists DEF Src, PipelineInv, Shape
    <3>2. HandFresh(w)
      BY <2>1, <3>1 DEF HandsFresh
    <3>3. /\ ver[w] \in Versions /\ text[Src(w)] \in Versions /\ distilled[Src(w)] \in Versions
      BY <3>1 DEF PipelineInv, Types
    <3>4. \A v \in Versions : Fresh(Src(w), v) => Fresh(Src(w), v)'
      BY <3>1
    <3>. QED
      BY <2>1, <3>1, <3>2, <3>3, <3>4 DEF HandFresh
  <2>2. CASE hpc'[w] # hpc[w]
    BY <2>2 DEF HandFresh, TextPlaces, BundlePlaces
  <2>. QED
    BY <2>1, <2>2
<1>. QED
  BY <1>1, <1>2

LEMMA SkipRequests ==
  ASSUME PipelineInv, SkipInv, NEW s \in Sources,
         UploadInsert(s) \/ ReplacePut(s) \/ ResumeList(s) \/ RequestStep(s) \/ RequestDies(s)
  PROVE  SkipInv'
<1>. /\ Types /\ Shape /\ BytesOK /\ NothingSkipped /\ HandsFresh
  BY DEF PipelineInv, SkipInv
<1>1. \A w \in Workers : hpc[w] # "none" => Src(w) \in Sources /\ status[Src(w)] # "absent"
  BY InHandExists DEF Shape
<1>2. CASE UploadInsert(s)
  <2>1. UNCHANGED <<bytes, text, distilled, hpc, ver, cur, raced, cut>> /\ status[s] = "absent"
        /\ status' = [status EXCEPT ![s] = "pending"] /\ sha' = [sha EXCEPT ![s] = 1]
        /\ req' = [req EXCEPT ![s] = "put"]
    BY <1>2 DEF UploadInsert, Pass, queueVars, handler, history
  <2>2. BytesOK'
    BY <2>1 DEF BytesOK, Types
  <2>3. NothingSkipped'
    BY <2>1 DEF NothingSkipped, Types, Fresh, Current, Terminal
  <2>4. ASSUME NEW w \in Workers, hpc'[w] # "none", Src(w)' \notin raced'
        PROVE  HandFresh(w)'
    <3>1. HandFresh(w) /\ Src(w)' = Src(w) /\ Src(w) \in Sources /\ Src(w) # s
      BY <1>1, <2>1, <2>4 DEF HandsFresh, Src
    <3>. QED
      BY <2>1, <3>1 DEF HandFresh, Fresh, Current, Types
  <2>. QED
    BY <2>2, <2>3, <2>4 DEF SkipInv, HandsFresh
<1>3. CASE UploadPut(s) \/ ReplacePut(s)
  <2>1. UNCHANGED <<status, sha, text, distilled, hpc, ver, cur, raced, cut>>
    BY <1>3 DEF UploadPut, ReplacePut, queueVars, handler, history
  <2>2. \/ /\ req[s] = "none" /\ status[s] # "absent" /\ req' = [req EXCEPT ![s] = "row"]
           /\ \E v \in 1..MaxVersion : v > sha[s] /\ bytes' = [bytes EXCEPT ![s] = v]
        \/ req[s] = "put" /\ req' = [req EXCEPT ![s] = "enqueue"] /\ bytes' = [bytes EXCEPT ![s] = sha[s]]
    BY <1>3 DEF UploadPut, ReplacePut, Pass
  <2>3. BytesOK'
    <3>1. \A t \in Sources : sha[t] \in Nat
      BY IngestAssumption DEF Types, Versions
    <3>. QED
      BY <2>1, <2>2, <3>1 DEF BytesOK, Types, Shape
  <2>4. ASSUME NEW t \in Sources, NEW v \in Versions, Fresh(t, v) PROVE Fresh(t, v)'
    BY <2>1, <2>2, <2>4, FreshKept DEF Types
  <2>5. NothingSkipped' /\ HandsFresh'
    BY <2>1, <2>4, SkipKept
  <2>. QED
    BY <2>3, <2>5 DEF SkipInv
<1>4. CASE ReplaceRow(s)
  <2>1. UNCHANGED <<bytes, text, distilled, hpc, ver, cur, cut>> /\ req[s] = "row"
        /\ status' = [status EXCEPT ![s] = "pending"] /\ sha' = [sha EXCEPT ![s] = bytes[s]]
        /\ req' = [req EXCEPT ![s] = "enqueue"] /\ raced \subseteq raced' /\ (InHand(s) => s \in raced')
    BY <1>4 DEF ReplaceRow, Pass, queueVars, handler
  <2>2. BytesOK'
    BY <2>1, IngestAssumption DEF BytesOK, Types, Shape, Versions
  <2>3. NothingSkipped'
    BY <2>1 DEF NothingSkipped, Types, Fresh, Current, Terminal
  <2>4. ASSUME NEW w \in Workers, hpc'[w] # "none", Src(w)' \notin raced'
        PROVE  HandFresh(w)'
    <3>1. HandFresh(w) /\ Src(w)' = Src(w) /\ Src(w) \in Sources /\ Src(w) # s
      BY <1>1, <2>1, <2>4 DEF HandsFresh, Src, Shape, InHand
    <3>. QED
      BY <2>1, <3>1 DEF HandFresh, Fresh, Current, Types
  <2>. QED
    BY <2>2, <2>3, <2>4 DEF SkipInv, HandsFresh
<1>5. CASE ResumeList(s) \/ RequestEnqueue(s) \/ RequestDies(s)
  <2>1. UNCHANGED <<status, sha, bytes, text, distilled, hpc, ver, cur, raced>> /\ cut \subseteq cut'
    BY <1>5 DEF ResumeList, RequestEnqueue, RequestDies, Q!Enqueue, Q!loop, queueVars, stores, handler, history
  <2>2. req' = [req EXCEPT ![s] = req'[s]] /\ req'[s] \in {"none", "resume"}
        /\ (req[s] \in {"put", "row"} => s \in cut') /\ (status[s] = "absent" => req[s] = "none")
    BY <1>5 DEF ResumeList, RequestEnqueue, RequestDies, Pass, Types, Shape
  <2>3. BytesOK'
    BY <2>1, <2>2 DEF BytesOK, Types
  <2>4. ASSUME NEW t \in Sources, NEW v \in Versions, Fresh(t, v) PROVE Fresh(t, v)'
    BY <2>1, <2>4, FreshKept
  <2>5. NothingSkipped' /\ HandsFresh'
    BY <2>1, <2>4, SkipKept
  <2>. QED
    BY <2>3, <2>5 DEF SkipInv
<1>. QED
  BY <1>2, <1>3, <1>4, <1>5 DEF RequestStep

\* A handler goes on to p, where what it relies on is fresh.
LEMMA HandsKept ==
  ASSUME PipelineInv, SkipInv, NEW w \in Workers, NEW p, hpc[w] # "none", hpc' = [hpc EXCEPT ![w] = p],
         UNCHANGED <<sha, bytes, cur, raced, cut, text, distilled>>,
         \A x \in Workers : x # w => ver'[x] = ver[x],
         Src(w) \notin raced =>
           /\ p \in {"extract_put", "distill_commit"} => Fresh(Src(w), ver'[w])
           /\ p \in TextPlaces => Fresh(Src(w), text[Src(w)])
           /\ p \in BundlePlaces => Fresh(Src(w), distilled[Src(w)])
  PROVE  HandsFresh'
<1>1. hpc'[w] = p /\ \A x \in Workers : x # w => hpc'[x] = hpc[x]
  BY DEF PipelineInv, Types
<1>2. \A x \in Workers : Src(x)' = Src(x)
  BY DEF Src
<1> SUFFICES ASSUME NEW x \in Workers, hpc'[x] # "none", Src(x) \notin raced
             PROVE  HandFresh(x)'
  BY <1>2 DEF HandsFresh
<1>3. CASE x = w
  BY <1>1, <1>2, <1>3 DEF HandFresh, Fresh, Current
<1>4. CASE x # w
  <2>1. HandFresh(x) /\ hpc'[x] = hpc[x] /\ ver'[x] = ver[x]
    BY <1>1, <1>4 DEF HandsFresh, SkipInv
  <2>. QED
    BY <1>2, <2>1 DEF HandFresh, Fresh, Current
<1>. QED
  BY <1>3, <1>4

\* The places Get sends a handler to.
LEMMA Destination ==
  ASSUME NEW w \in Workers, Get(w), Types
  PROVE  \E p : /\ hpc' = [hpc EXCEPT ![w] = p]
                /\ p \in {"taint", "extract", "classify", "distill", "embed", "embed_done", "stop"}
                /\ p = "extract" => status[Src(w)] \in {"pending", "extracting", "failed"}
                /\ p = "classify" => status[Src(w)] \in {"extracted", "classifying"}
                /\ p = "distill" => status[Src(w)] \in {"classified", "agent_distilling"}
                /\ p \in {"embed", "embed_done"} => status[Src(w)] \in {"committed", "embedding"}
                /\ p = "embed_done" <=> ~Embedder /\ status[Src(w)] \in {"committed", "embedding"}
                /\ p = "stop" => status[Src(w)] \notin {"pending", "extracting", "failed", "extracted",
                     "classifying", "classified", "agent_distilling", "committed", "embedding"}
<1>. DEFINE st == status[Src(w)]
            e == Entry(st)
<1>1. /\ e = "extract" <=> st \in {"pending", "extracting", "failed"}
      /\ e = "classify" <=> st \in {"extracted", "classifying"}
      /\ e = "distill" <=> st \in {"classified", "agent_distilling"}
      /\ e = "embed" <=> st \in {"committed", "embedding"}
      /\ e \in {"extract", "classify", "distill", "embed", "stop"}
  BY DEF Entry
<1>2. hpc' = [hpc EXCEPT ![w] = CASE e \in {"classify", "distill"} /\ ~llm -> "taint"
                                  [] e = "embed" /\ ~Embedder -> "embed_done"
                                  [] OTHER -> e]
  BY DEF Get, Local, Goto
<1>. HIDE DEF e
<1>3. CASE e \in {"classify", "distill"} /\ ~llm
  <2>1. hpc' = [hpc EXCEPT ![w] = "taint"]
    BY <1>2, <1>3
  <2>. WITNESS "taint"
  <2>. QED
    BY <1>1, <1>3, <2>1
<1>4. CASE e = "embed" /\ ~Embedder
  <2>1. hpc' = [hpc EXCEPT ![w] = "embed_done"]
    BY <1>2, <1>4
  <2>. WITNESS "embed_done"
  <2>. QED
    BY <1>1, <1>4, <2>1
<1>5. CASE ~(e \in {"classify", "distill"} /\ ~llm) /\ ~(e = "embed" /\ ~Embedder)
  <2>1. hpc' = [hpc EXCEPT ![w] = e]
    BY <1>2, <1>5
  <2>. QED
    BY <1>1, <1>5, <2>1
<1>. QED
  BY <1>3, <1>4, <1>5

LEMMA SkipHandlers ==
  ASSUME PipelineInv, SkipInv, NEW w \in Workers, HandlerStep(w) \/ HandlerFails(w)
  PROVE  SkipInv'
<1>. /\ Types /\ Shape /\ BytesOK /\ NothingSkipped /\ HandsFresh
  BY DEF PipelineInv, SkipInv
<1>1. UNCHANGED <<sha, bytes, req, cur, raced, cut>>
  BY HandlerSteps
  DEF Write, Get, ReadBlob, PutText, Answer, ReadText, CommitBundle, ReadChangedPages,
      UpsertPages, Again, Return, Q!HandlerReturns, Read, Local, queueVars, stores, history
<1>2. pc[w] = "handling" /\ hpc[w] # "none"
  BY HandlerSteps DEF Write, Get, ReadBlob, PutText, Answer, ReadText, CommitBundle, ReadChangedPages,
                      UpsertPages, Again, Return, Q!HandlerReturns, Read, Local, At, Shape
<1>3. Src(w) \in Sources /\ status[Src(w)] # "absent" /\ \A x \in Workers : Src(x)' = Src(x)
  BY <1>1, <1>2, InHandExists DEF Src
<1>4. Src(w) \notin raced => HandFresh(w)
  BY <1>2 DEF HandsFresh
<1>5. ASSUME NEW m \in Marks, Write(w, m[1], m[2], m[3]) PROVE SkipInv'
  <2>1. /\ status' = [status EXCEPT ![Src(w)] = m[2]] /\ hpc[w] = m[1] /\ hpc' = [hpc EXCEPT ![w] = m[3]]
        /\ UNCHANGED <<text, distilled, ver>>
    BY <1>5 DEF Write, At, Goto, stores, locals
  <2>2. BytesOK'
    <3>1. m[2] # "absent"
      BY DEF Marks
    <3>. QED
      BY <1>1, <1>3, <2>1, <3>1, BytesKept DEF Types
  <2>3. NothingSkipped'
    <3>1. /\ m[2] \in {"extracted", "classifying", "classified", "agent_distilling", "committed",
                       "embedding", "done"} => m[1] \in TextPlaces
          /\ m[2] \in {"committed", "embedding", "done"} => m[1] \in BundlePlaces
          /\ m[2] \notin Terminal \cup {"absent", "pending", "extracting"} =>
               m[2] \in {"extracted", "classifying", "classified", "agent_distilling", "committed", "embedding"}
      BY DEF Marks, TextPlaces, BundlePlaces, Terminal
    <3>2. ASSUME NEW s \in Sources \ raced, s # Src(w)
          PROVE  status'[s] = status[s] /\ text'[s] = text[s] /\ distilled'[s] = distilled[s]
      BY <2>1, <3>2 DEF Types
    <3>3. status'[Src(w)] = m[2]
      BY <1>3, <2>1 DEF Types
    <3>. QED
      BY <1>1, <1>3, <1>4, <2>1, <3>1, <3>2, <3>3 DEF NothingSkipped, HandFresh, Fresh, Current
  <2>4. HandsFresh'
    <3>1. /\ m[3] \in TextPlaces => m[1] \in TextPlaces
          /\ m[3] \in BundlePlaces => m[1] \in BundlePlaces
          /\ m[3] \notin {"extract_put", "distill_commit"}
      BY DEF Marks, TextPlaces, BundlePlaces
    <3>. QED
      BY <1>1, <1>2, <1>4, <2>1, <3>1, HandsKept DEF HandFresh
  <2>. QED
    BY <2>2, <2>3, <2>4 DEF SkipInv
<1>6. CASE Get(w)
  <2>1. UNCHANGED <<status, text, distilled>> /\ \A x \in Workers : x # w => ver'[x] = ver[x]
    BY <1>6 DEF Get, Local, stores, Types
  <2>2. PICK p : /\ hpc' = [hpc EXCEPT ![w] = p]
                 /\ p \in {"taint", "extract", "classify", "distill", "embed", "embed_done", "stop"}
                 /\ p = "classify" => status[Src(w)] \in {"extracted", "classifying"}
                 /\ p = "distill" => status[Src(w)] \in {"classified", "agent_distilling"}
                 /\ p \in {"embed", "embed_done"} => status[Src(w)] \in {"committed", "embedding"}
    BY <1>6, Destination
  <2>3. BytesOK' /\ NothingSkipped'
    BY <1>1, <2>1, BytesKept DEF NothingSkipped, Fresh, Current
  <2>4. Src(w) \notin raced => (p \in TextPlaces => Fresh(Src(w), text[Src(w)]))
                               /\ (p \in BundlePlaces => Fresh(Src(w), distilled[Src(w)]))
    BY <1>3, <2>2 DEF NothingSkipped, Terminal, TextPlaces, BundlePlaces
  <2>5. HandsFresh'
    BY <1>1, <1>2, <2>1, <2>2, <2>4, HandsKept
  <2>. QED
    BY <2>3, <2>5 DEF SkipInv
<1>7. CASE ReadBlob(w) \/ ReadText(w) \/ Answer(w) \/ Again(w) \/ ReadChangedPages(w) \/ UpsertPages(w)
           \/ \E r \in Q!Pcs : Return(w, r)
  <2>1. UNCHANGED <<status, text, distilled>> /\ \A x \in Workers : x # w => ver'[x] = ver[x]
    BY <1>7 DEF ReadBlob, ReadText, Answer, Again, ReadChangedPages, UpsertPages, Return, Forget, Read,
                Local, stores, locals, Types
  <2>2. BytesOK' /\ NothingSkipped'
    BY <1>1, <2>1, BytesKept DEF NothingSkipped, Fresh, Current
  <2>3. PICK p : /\ hpc' = [hpc EXCEPT ![w] = p]
                 /\ p \in TextPlaces => hpc[w] \in TextPlaces
                 /\ p \in BundlePlaces => hpc[w] \in BundlePlaces
                 /\ p \in {"extract_put", "distill_commit"} => ReadBlob(w) \/ ReadText(w)
    BY <1>7 DEF ReadBlob, ReadText, Answer, Again, ReadChangedPages, UpsertPages, Return, Forget, Read,
                Local, At, Goto, TextPlaces, BundlePlaces
  <2>4. ASSUME ReadBlob(w), Src(w) \notin raced PROVE Fresh(Src(w), ver'[w])
    <3>1. bytes[Src(w)] # 0 /\ ver'[w] = bytes[Src(w)]
      BY <2>4 DEF ReadBlob, Read, Types
    <3>. QED
      BY <1>3, <3>1 DEF BytesOK, Fresh, Current
  <2>5. ASSUME ReadText(w), Src(w) \notin raced PROVE Fresh(Src(w), ver'[w])
    <3>1. hpc[w] \in TextPlaces /\ ver'[w] = text[Src(w)]
      BY <2>5 DEF ReadText, Read, Local, At, Types, TextPlaces
    <3>. QED
      BY <1>4, <2>5, <3>1 DEF HandFresh
  <2>6. HandsFresh'
    BY <1>1, <1>2, <1>4, <2>1, <2>3, <2>4, <2>5, HandsKept DEF HandFresh
  <2>. QED
    BY <2>2, <2>6 DEF SkipInv
<1>8. CASE PutText(w) \/ CommitBundle(w)
  <2>1. /\ status' = status
        /\ \/ hpc[w] = "extract_put" /\ hpc' = [hpc EXCEPT ![w] = "extract_done"]
              /\ text' = [text EXCEPT ![Src(w)] = ver[w]] /\ distilled' = distilled
           \/ hpc[w] = "distill_commit" /\ hpc' = [hpc EXCEPT ![w] = "distill_done"]
              /\ distilled' = [distilled EXCEPT ![Src(w)] = ver[w]] /\ text' = text
        /\ \A x \in Workers : x # w => ver'[x] = ver[x]
    BY <1>8 DEF PutText, CommitBundle, At, Goto, Types
  <2>2. BytesOK'
    BY <1>1, <2>1, BytesKept
  <2>3. ASSUME NEW s \in Sources \ raced
        PROVE  /\ Fresh(s, text[s]) => Fresh(s, text'[s])
               /\ Fresh(s, distilled[s]) => Fresh(s, distilled'[s])
    BY <1>4, <2>1, <2>3 DEF HandFresh, Types
  <2>4. NothingSkipped'
    BY <1>1, <2>1, <2>3 DEF NothingSkipped, Fresh, Current
  <2>5. HandsFresh'
    <3> SUFFICES ASSUME NEW x \in Workers, hpc'[x] # "none", Src(x) \notin raced
                 PROVE  HandFresh(x)'
      BY <1>1, <1>3 DEF HandsFresh
    <3>1. CASE x = w
      <4>1. /\ hpc'[w] = "extract_done" => text'[Src(w)] = ver[w] /\ Fresh(Src(w), ver[w])
            /\ hpc'[w] = "distill_done" =>
                 distilled'[Src(w)] = ver[w] /\ Fresh(Src(w), ver[w]) /\ Fresh(Src(w), text'[Src(w)])
            /\ hpc'[w] \in {"extract_done", "distill_done"}
        BY <1>3, <1>4, <2>1, <3>1 DEF HandFresh, Types, TextPlaces
      <4>. QED
        BY <1>1, <1>3, <3>1, <4>1 DEF HandFresh, Fresh, Current, BundlePlaces
    <3>2. CASE x # w
      <4>1. hpc'[x] = hpc[x] /\ ver'[x] = ver[x] /\ hpc[x] # "none"
        BY <2>1, <3>2 DEF Types
      <4>2. HandFresh(x) /\ Src(x) \in Sources
        BY <4>1, InHandExists DEF HandsFresh, Shape
      <4>. QED
        BY <1>1, <1>3, <2>3, <4>1, <4>2 DEF HandFresh, Fresh, Current
    <3>. QED
      BY <3>1, <3>2
  <2>. QED
    BY <2>2, <2>4, <2>5 DEF SkipInv
<1>. QED
  BY <1>5, <1>6, <1>7, <1>8, HandlerSteps

LEMMA SkipLoop ==
  ASSUME PipelineInv, SkipInv,
         NEW w \in Workers,
         (\E j \in Jobs : Claim(w, j)) \/ Settle(w) \/ MarkSourceFailed(w) \/ VerdictLost(w) \/ Panic(w)
  PROVE  SkipInv'
<1>. /\ Types /\ Shape /\ BytesOK /\ NothingSkipped /\ HandsFresh
  BY DEF PipelineInv, SkipInv
<1>1. UNCHANGED <<sha, bytes, req, raced, text, distilled>> /\ cut \subseteq cut'
  BY DEF Claim, Settle, MarkSourceFailed, VerdictLost, Panic, stores, history
<1>2. \A s \in Sources, v \in Versions : Fresh(s, v) => Fresh(s, v)'
  BY <1>1, FreshKept
<1>3. CASE \E j \in Jobs : Claim(w, j)
  <2>1. PICK j \in Jobs : Claim(w, j)
    BY <1>3
  <2>2. UNCHANGED <<status, ver>> /\ hpc' = [hpc EXCEPT ![w] = "get"] /\ cur' = [cur EXCEPT ![w] = j]
    BY <2>1 DEF Claim, Q!Claim, Goto, locals
  <2>3. cur \in [Workers -> Jobs \cup {NoJob}] /\ hpc[w] = "none"
    BY <2>1, QueueFacts DEF PipelineInv, Claim, Q!Claim, Shape
  <2>4. NothingSkipped' /\ HandsFresh'
    BY <1>1, <1>2, <2>2, <2>3, SkipKept DEF Types
  <2>. QED
    BY <1>1, <2>2, <2>4, BytesKept DEF SkipInv
<1>4. CASE Settle(w) \/ MarkSourceFailed(w) \/ VerdictLost(w)
  <2>1. UNCHANGED <<ver, hpc>> /\ (status' = status \/ status' = [status EXCEPT ![Src(w)] = "failed"])
        /\ pc[w] \in {"returned_ok", "returned_err", "marking"}
    BY <1>4 DEF Settle, MarkSourceFailed, VerdictLost, Q!CompleteJob, Q!FailJob, Q!MarkSourceFailed,
                Q!VerdictLost, handler
  <2>2. \A x \in Workers : x # w => cur'[x] = cur[x]
    <3>1. cur' = cur \/ cur' = [cur EXCEPT ![w] = NoJob]
      BY <1>4 DEF Settle, MarkSourceFailed, VerdictLost, Q!CompleteJob, Q!FailJob, Q!MarkSourceFailed,
                  Q!VerdictLost, Q!Idle
    <3>. QED
      BY <3>1, QueueFacts DEF PipelineInv
  <2>3. hpc[w] = "none" /\ Src(w) \in Sources /\ status[Src(w)] # "absent"
    BY <2>1, InHandExists DEF Shape
  <2>4. NothingSkipped' /\ HandsFresh'
    BY <1>1, <1>2, <2>1, <2>2, <2>3, SkipKept DEF Types
  <2>5. BytesOK'
    BY <1>1, <2>1, <2>3, BytesKept DEF Types
  <2>. QED
    BY <2>4, <2>5 DEF SkipInv
<1>5. CASE Panic(w)
  <2>1. status' = status /\ hpc' = [hpc EXCEPT ![w] = "none"] /\ cur' = [cur EXCEPT ![w] = NoJob]
        /\ \A x \in Workers : x # w => ver'[x] = ver[x]
    BY <1>5 DEF Panic, Q!Panic, Forget, Goto, Types
  <2>2. BytesOK'
    BY <1>1, <2>1, BytesKept
  <2>3. NothingSkipped'
    BY <1>1, <1>2, <2>1 DEF NothingSkipped, Types
  <2>4. HandsFresh'
    <3> SUFFICES ASSUME NEW x \in Workers, hpc'[x] # "none", Src(x)' \notin raced
                 PROVE  HandFresh(x)'
      BY <1>1 DEF HandsFresh
    <3>1. x # w /\ cur'[x] = cur[x] /\ hpc'[x] = hpc[x] /\ ver'[x] = ver[x]
      BY <2>1, QueueFacts DEF PipelineInv, Types
    <3>2. HandFresh(x) /\ Src(x)' = Src(x) /\ Src(x) \in Sources
      BY <3>1, InHandExists DEF HandsFresh, Shape, Src
    <3>3. text[Src(x)] \in Versions /\ distilled[Src(x)] \in Versions /\ ver[x] \in Versions
      BY <3>2 DEF Types
    <3>. QED
      BY <1>1, <1>2, <3>1, <3>2, <3>3 DEF HandFresh
  <2>. QED
    BY <2>2, <2>3, <2>4 DEF SkipInv
<1>. QED
  BY <1>3, <1>4, <1>5

LEMMA SkipNext == PipelineInv /\ SkipInv /\ [Next]_vars => SkipInv'
<1> SUFFICES ASSUME PipelineInv, SkipInv, [Next]_vars PROVE SkipInv'
  OBVIOUS
<1>1. CASE UNCHANGED vars
  <2>1. UNCHANGED <<status, sha, bytes, req, raced, cut, text, distilled, hpc, ver, cur>>
    BY <1>1 DEF vars, queueVars, stores, handler, history
  <2>. QED
    BY <2>1 DEF SkipInv, BytesOK, NothingSkipped, HandsFresh, HandFresh, Fresh, Current, Src
<1>2. CASE Restart
  <2>1. UNCHANGED <<status, sha, bytes, text, distilled, raced>> /\ cut \subseteq cut'
        /\ \A s \in Sources : req[s] \in {"put", "row"} => s \in cut'
    BY <1>2 DEF Restart, stores
  <2>2. hpc' = [x \in Workers |-> "none"] /\ req' = [s \in Sources |-> "none"]
    BY <1>2 DEF Restart
  <2>3. BytesOK'
    BY <2>1, <2>2 DEF SkipInv, BytesOK
  <2>4. \A s \in Sources, v \in Versions : Fresh(s, v) => Fresh(s, v)'
    BY <2>1, FreshKept DEF SkipInv
  <2>5. NothingSkipped'
    BY <2>1, <2>4 DEF SkipInv, NothingSkipped, PipelineInv, Types
  <2>6. HandsFresh'
    BY <2>2 DEF HandsFresh
  <2>. QED
    BY <2>3, <2>5, <2>6 DEF SkipInv
<1>3. ASSUME NEW j \in Jobs, Time(j) \/ LeaseOverrun(j) PROVE SkipInv'
  <2>1. UNCHANGED <<status, sha, bytes, req, raced, cut, text, distilled, hpc, ver, cur>>
    BY <1>3 DEF Time, LeaseOverrun, Q!DelayElapses, Q!LeaseLapses, Q!LeaseOverrun, Q!loop,
                stores, handler, history
  <2>. QED
    BY <2>1 DEF SkipInv, BytesOK, NothingSkipped, HandsFresh, HandFresh, Fresh, Current, Src
<1>4. ASSUME NEW s \in Sources,
             UploadInsert(s) \/ ReplacePut(s) \/ ResumeList(s) \/ RequestStep(s) \/ RequestDies(s)
      PROVE  SkipInv'
  BY <1>4, SkipRequests
<1>5. ASSUME NEW w \in Workers, WorkerStep(w) \/ HandlerFails(w) \/ VerdictLost(w) \/ Panic(w)
      PROVE  SkipInv'
  BY <1>5, SkipHandlers, SkipLoop DEF WorkerStep
<1>. QED
  BY <1>1, <1>2, <1>3, <1>4, <1>5 DEF Next

\* step_once re-enters by status, and no crash, failure, retry or second handler makes it
\* take old text, or an old bundle, for the current one.
THEOREM NothingIsSkipped == Spec => []NothingSkipped
<1>1. Init => PipelineInv /\ SkipInv
  BY PipelineInit, SkipInit
<1>2. PipelineInv /\ SkipInv /\ [Next]_vars => (PipelineInv /\ SkipInv)'
  BY PipelineNext, SkipNext
<1>3. SkipInv => NothingSkipped
  BY DEF SkipInv
<1>. QED
  BY <1>1, <1>2, <1>3, PTL DEF Spec

-----------------------------------------------------------------------------
(* No source is forgotten.  NeverForgotten is not inductive: a job that a  *)
(* handler runs drives its source only while that handler is going to find *)
(* the status changed.  Whoever wrote the status last is such a handler,   *)
(* so the other one may end early.                                         *)

\* The statuses a handler entered its phase with.
EntryOK(w) ==
  /\ hpc[w] \in {"extract", "extract_read", "extract_put", "unsupported", "extract_done"} =>
       before[w] \in {"pending", "extracting", "failed"}
  /\ hpc[w] \in {"classify", "classify_read", "classify_done"} => before[w] \in {"extracted", "classifying"}
  /\ hpc[w] \in {"distill", "distill_read", "distill_commit", "distill_done"} =>
       before[w] \in {"classified", "agent_distilling"}
  /\ hpc[w] \in {"embed", "embed_read", "embed_put", "embed_done"} => before[w] \in {"committed", "embedding"}

MidPhase == {"extract", "extract_read", "extract_put", "unsupported", "extract_done",
  "classify", "classify_read", "classify_done", "distill", "distill_read", "distill_commit", "distill_done",
  "embed", "embed_read", "embed_put", "embed_done"}

\* A handler that will read a status it has not entered with, or fail.
GoesOn(w) ==
  \/ pc[w] = "returned_err"
  \/ pc[w] = "handling" /\ hpc[w] \in MidPhase \cup {"get", "taint"}
  \/ pc[w] = "handling" /\ hpc[w] = "reread" /\ status[Src(w)] # before[w]

Carried(j) ==
  \/ state[j] = "queued"
  \/ state[j] = "running" /\ \A w \in Workers : Q!Runs(w, j) => GoesOn(w)

Kept(s) ==
  \/ req[s] \in {"put", "row", "enqueue"}
  \/ \E w \in Workers : pc[w] = "marking" /\ Src(w) = s
  \/ \E j \in Jobs : SourceOf[j] = s /\ Carried(j)

KeepInv ==
  /\ \A w \in Workers : EntryOK(w)
  /\ \A s \in Sources \ (cut \cup Reclaimed) : status[s] \in Terminal \cup {"absent"} \/ Kept(s)

LEMMA KeepInit == Init => KeepInv
<1> SUFFICES ASSUME Init PROVE KeepInv
  OBVIOUS
<1>1. \A w \in Workers : EntryOK(w)
  BY DEF Init, EntryOK
<1>. QED
  BY <1>1 DEF Init, KeepInv

LEMMA KeptIsDriven == KeepInv => NeverForgotten
<1>1. ASSUME NEW s \in Sources, req[s] \in {"put", "row", "enqueue"} PROVE Driven(s)
  BY <1>1 DEF Driven
<1>2. ASSUME NEW s \in Sources, NEW w \in Workers, pc[w] = "marking", Src(w) = s PROVE Driven(s)
  BY <1>2 DEF Driven, Marking
<1>3. ASSUME NEW s \in Sources, NEW j \in Jobs, SourceOf[j] = s, Carried(j) PROVE Driven(s)
  BY <1>3 DEF Driven, Carried
<1>. QED
  BY <1>1, <1>2, <1>3 DEF KeepInv, NeverForgotten, Kept

\* A job that lapsed under no handler is carried by the handler that goes on with it.
LEMMA CarriedNext ==
  ASSUME QueueInv', NEW w \in Workers, GoesOn(w)', cur'[w] \notin overrun'
  PROVE  \E j \in Jobs : j = cur'[w] /\ Carried(j)'
<1>1. pc'[w] \in {"handling", "returned_err"}
  BY DEF GoesOn
<1>2. cur'[w] \in Jobs
  BY <1>1 DEF QueueInv, QP!TypeInv, QP!LoopOK
<1>3. PICK j \in Jobs : j = cur'[w]
  BY <1>2
<1>4. state'[j] = "running" /\ \A x \in Workers : Q!Runs(x, j)' => x = w
  BY <1>1, <1>3 DEF QueueInv, QP!HolderInv, QP!SingleRunner, QP!Runs, Q!Runs
<1>5. Carried(j)'
  BY <1>3, <1>4 DEF Carried
<1>. QED
  BY <1>3, <1>5

\* The jobs of a source that no loop but w's touches are carried on.
LEMMA KeptByOthers ==
  ASSUME PipelineInv, NEW w \in Workers, NEW s \in Sources, Kept(s), status'[s] = status[s],
         req'[s] = req[s], UNCHANGED <<state, cur>>,
         pc[w] # "marking",
         \A x \in Workers : x # w => pc'[x] = pc[x] /\ hpc'[x] = hpc[x] /\ before'[x] = before[x],
         Src(w) # s \/ ~GoesOn(w) \/ GoesOn(w)',
         pc[w] \in {"handling", "returned_ok", "returned_err"}
  PROVE  Kept(s)'
<1>1. CASE req[s] \in {"put", "row", "enqueue"}
  BY <1>1 DEF Kept
<1>2. ASSUME NEW x \in Workers, pc[x] = "marking", Src(x) = s PROVE Kept(s)'
  BY <1>2 DEF Kept, Src
<1>3. ASSUME NEW j \in Jobs, SourceOf[j] = s, Carried(j) PROVE Kept(s)'
  <2>1. ASSUME NEW x \in Workers, state[j] = "running", Q!Runs(x, j)' PROVE GoesOn(x)'
    <3>1. CASE x # w
      <4>1. Q!Runs(x, j) /\ GoesOn(x)
        BY <1>3, <2>1, <3>1 DEF Q!Runs, Carried
      <4>. QED
        BY <1>3, <2>1, <3>1, <4>1 DEF GoesOn, Src, Q!Runs
    <3>2. CASE x = w
      <4>1. Q!Runs(w, j) /\ Src(w) = s
        BY <1>3, <2>1, <3>2 DEF Q!Runs, Src
      <4>2. GoesOn(w)
        BY <1>3, <2>1, <4>1 DEF Carried
      <4>. QED
        BY <3>2, <4>1, <4>2
    <3>. QED
      BY <3>1, <3>2
  <2>2. Carried(j)'
    BY <1>3, <2>1 DEF Carried
  <2>. QED
    BY <1>3, <2>2 DEF Kept
<1>. QED
  BY <1>1, <1>2, <1>3 DEF Kept

LEMMA KeepHandlers ==
  ASSUME PipelineInv, PipelineInv', KeepInv, NEW w \in Workers, HandlerStep(w) \/ HandlerFails(w)
  PROVE  KeepInv'
<1>. Types /\ Shape
  BY DEF PipelineInv
<1>1. UNCHANGED <<req, cur, state, cut, overrun>>
  BY HandlerSteps
  DEF Write, Get, ReadBlob, PutText, Answer, ReadText, CommitBundle, ReadChangedPages, UpsertPages, Again,
      Return, Q!HandlerReturns, Q!rows, Read, Local, queueVars, stores, history
<1>2. pc[w] = "handling" /\ hpc[w] # "none"
  BY HandlerSteps DEF Write, Get, ReadBlob, PutText, Answer, ReadText, CommitBundle, ReadChangedPages,
                      UpsertPages, Again, Return, Q!HandlerReturns, Read, Local, At, Shape
<1>3. Src(w) \in Sources /\ Src(w)' = Src(w) /\ cur[w] \in Jobs
  BY <1>1, <1>2, InHandExists DEF Src
<1>4. \A x \in Workers : x # w => pc'[x] = pc[x] /\ hpc'[x] = hpc[x] /\ before'[x] = before[x]
  <2>1. pc' = pc \/ \E r \in {"returned_ok", "returned_err"} : pc' = [pc EXCEPT ![w] = r]
    BY HandlerSteps
    DEF Write, Get, ReadBlob, PutText, Answer, ReadText, CommitBundle, ReadChangedPages, UpsertPages, Again,
        Return, Q!HandlerReturns, Read, Local, queueVars
  <2>2. hpc' = [hpc EXCEPT ![w] = hpc'[w]]
    BY HandlerSteps
    DEF Write, Get, ReadBlob, PutText, Answer, ReadText, CommitBundle, ReadChangedPages, UpsertPages, Again,
        Return, Forget, Goto, Read, Local, Types
  <2>3. before' = [before EXCEPT ![w] = before'[w]]
    BY HandlerSteps
    DEF Write, Get, ReadBlob, PutText, Answer, ReadText, CommitBundle, ReadChangedPages, UpsertPages, Again,
        Return, Forget, Read, Local, locals, Types
  <2>. QED
    BY <2>1, <2>2, <2>3, QueueFacts DEF PipelineInv, Types
<1>5. EntryOK(w)'
  <2>1. EntryOK(w)
    BY DEF KeepInv
  <2>2. CASE \E m \in Marks : Write(w, m[1], m[2], m[3])
    BY <2>1, <2>2 DEF Write, At, Goto, Marks, EntryOK, locals, Types
  <2>3. CASE Get(w)
    <3>1. before'[w] = status[Src(w)]
      BY <2>3 DEF Get, Types
    <3>2. PICK p : /\ hpc' = [hpc EXCEPT ![w] = p]
                   /\ p \in {"taint", "extract", "classify", "distill", "embed", "embed_done", "stop"}
                   /\ p = "extract" => status[Src(w)] \in {"pending", "extracting", "failed"}
                   /\ p = "classify" => status[Src(w)] \in {"extracted", "classifying"}
                   /\ p = "distill" => status[Src(w)] \in {"classified", "agent_distilling"}
                   /\ p \in {"embed", "embed_done"} => status[Src(w)] \in {"committed", "embedding"}
      BY <2>3, Destination
    <3>3. hpc'[w] = p
      BY <3>2 DEF Types
    <3>. HIDE DEF Types
    <3>. QED
      BY <3>1, <3>2, <3>3 DEF EntryOK
  <2>4. CASE ReadBlob(w) \/ ReadText(w) \/ Answer(w) \/ ReadChangedPages(w)
    BY <2>1, <2>4 DEF ReadBlob, ReadText, Answer, ReadChangedPages, Read, Local, At, Goto, EntryOK, locals, Types
  <2>5. CASE PutText(w) \/ CommitBundle(w) \/ UpsertPages(w)
    BY <2>1, <2>5 DEF PutText, CommitBundle, UpsertPages, At, Goto, EntryOK, Types
  <2>6. CASE Again(w) \/ \E r \in Q!Pcs : Return(w, r)
    BY <2>6 DEF Again, Return, Forget, Local, Goto, EntryOK, Types
  <2>. QED
    BY <2>2, <2>3, <2>4, <2>5, <2>6, HandlerSteps
<1>6. \A x \in Workers : EntryOK(x)'
  BY <1>4, <1>5 DEF KeepInv, EntryOK
<1>7. /\ \A s \in Sources : s # Src(w) => status'[s] = status[s]
      /\ GoesOn(w)' \/ status'[Src(w)] \in Terminal \/ (status' = status /\ ~GoesOn(w))
  <2>1. CASE \E m \in Marks : Write(w, m[1], m[2], m[3])
    <3>1. PICK m \in Marks : Write(w, m[1], m[2], m[3])
      BY <2>1
    <3>2. hpc[w] = m[1] /\ hpc'[w] = m[3] /\ status' = [status EXCEPT ![Src(w)] = m[2]]
          /\ before' = before /\ pc' = pc
      BY <3>1 DEF Write, At, Goto, locals, queueVars, Types
    <3>3. EntryOK(w)
      BY DEF KeepInv
    <3>4. m[2] \in Terminal \/ m[3] \in MidPhase \/ (m[3] = "reread" /\ m[2] # before[w])
      BY <3>2, <3>3 DEF Marks, EntryOK, Terminal, MidPhase
    <3>. QED
      BY <1>2, <1>3, <3>2, <3>4 DEF GoesOn, Types
  <2>2. CASE Get(w)
    <3>1. status' = status /\ pc' = pc
      BY <2>2 DEF Get, Local, queueVars
    <3>2. PICK p : /\ hpc' = [hpc EXCEPT ![w] = p]
                   /\ p \in {"taint", "extract", "classify", "distill", "embed", "embed_done", "stop"}
                   /\ p = "stop" => status[Src(w)] \notin {"pending", "extracting", "failed", "extracted",
                        "classifying", "classified", "agent_distilling", "committed", "embedding"}
      BY <2>2, Destination
    <3>3. status[Src(w)] \in Statuses /\ status[Src(w)] # "absent"
      BY <1>2, <1>3, InHandExists DEF Types
    <3>4. hpc'[w] = p
      BY <3>2 DEF Types
    <3>5. p = "stop" => status[Src(w)] \in Terminal
      BY <3>2, <3>3 DEF Terminal, Statuses
    <3>6. p # "stop" => p \in MidPhase \cup {"taint"}
      BY <3>2 DEF MidPhase
    <3>. QED
      BY <1>2, <3>1, <3>4, <3>5, <3>6 DEF GoesOn
  <2>3. CASE ReadBlob(w) \/ ReadText(w) \/ Answer(w) \/ ReadChangedPages(w)
    BY <1>2, <2>3 DEF ReadBlob, ReadText, Answer, ReadChangedPages, Read, Local, At, Goto, GoesOn, MidPhase,
                      queueVars, Types
  <2>4. CASE PutText(w) \/ CommitBundle(w) \/ UpsertPages(w)
    BY <1>2, <2>4 DEF PutText, CommitBundle, UpsertPages, At, Goto, GoesOn, MidPhase, queueVars, Types
  <2>5. CASE Again(w)
    BY <1>2, <2>5 DEF Again, Local, Goto, GoesOn, queueVars, Types
  <2>6. ASSUME NEW r \in Q!Pcs, Return(w, r),
               r = "returned_err" \/ (hpc[w] = "reread" /\ status[Src(w)] = before[w]) \/ hpc[w] = "stop"
        PROVE  status' = status /\ (GoesOn(w)' \/ ~GoesOn(w))
    BY <1>2, <2>6 DEF Return, GoesOn, MidPhase
  <2>. QED
    BY <2>1, <2>2, <2>3, <2>4, <2>5, <2>6, HandlerSteps
<1>8. ASSUME NEW s \in Sources, s \notin cut', s \notin Reclaimed'
      PROVE  status'[s] \in Terminal \cup {"absent"} \/ Kept(s)'
  <2>1. s \notin cut /\ s \notin Reclaimed
    BY <1>1, <1>8 DEF Reclaimed
  <2>2. CASE s = Src(w) /\ GoesOn(w)'
    <3>1. cur'[w] \notin overrun'
      BY <1>1, <1>3, <1>8, <2>2 DEF Reclaimed, Src
    <3>2. PICK j \in Jobs : j = cur'[w] /\ Carried(j)'
      BY <2>2, <3>1, CarriedNext DEF PipelineInv
    <3>. QED
      BY <1>1, <1>3, <2>2, <3>2 DEF Kept, Src
  <2>3. CASE s = Src(w) /\ status'[s] \in Terminal
    BY <2>3
  <2>4. CASE s # Src(w) \/ (status' = status /\ ~GoesOn(w))
    <3>1. status'[s] = status[s]
      BY <1>7, <2>4
    <3>2. CASE Kept(s)
      <4>1. Kept(s)'
        BY <1>1, <1>2, <1>4, <2>4, <3>1, <3>2, KeptByOthers
      <4>. QED
        BY <4>1
    <3>. QED
      BY <2>1, <3>1, <3>2 DEF KeepInv
  <2>. QED
    BY <1>7, <2>2, <2>3, <2>4
<1>. QED
  BY <1>6, <1>8 DEF KeepInv

\* What moves neither the rows of a source nor its handlers leaves it kept.
LEMMA KeptStill ==
  ASSUME NEW s \in Sources, Kept(s), status'[s] = status[s],
         req[s] \in {"put", "row", "enqueue"} => req'[s] \in {"put", "row", "enqueue"},
         UNCHANGED <<pc, cur, hpc, before>>,
         \A j \in Jobs : SourceOf[j] = s => state'[j] = state[j]
  PROVE  Kept(s)'
<1>1. CASE req[s] \in {"put", "row", "enqueue"}
  BY <1>1 DEF Kept
<1>2. ASSUME NEW x \in Workers, pc[x] = "marking", Src(x) = s PROVE Kept(s)'
  BY <1>2 DEF Kept, Src
<1>3. ASSUME NEW j \in Jobs, SourceOf[j] = s, Carried(j) PROVE Kept(s)'
  <2>1. ASSUME NEW x \in Workers, state[j] = "running", Q!Runs(x, j)' PROVE GoesOn(x)'
    <3>1. GoesOn(x) /\ Src(x) = s
      BY <1>3, <2>1 DEF Q!Runs, Carried, Src
    <3>. QED
      BY <3>1 DEF GoesOn, Src
  <2>2. Carried(j)'
    BY <1>3, <2>1 DEF Carried
  <2>. QED
    BY <1>3, <2>2 DEF Kept
<1>. QED
  BY <1>1, <1>2, <1>3 DEF Kept

\* Nor does a loop that has, or is left with, none of its jobs.
LEMMA KeptBeside ==
  ASSUME NEW w \in Workers, NEW s \in Sources, Kept(s), status'[s] = status[s], req'[s] = req[s],
         \A x \in Workers : x # w =>
           pc'[x] = pc[x] /\ cur'[x] = cur[x] /\ hpc'[x] = hpc[x] /\ before'[x] = before[x],
         pc[w] = "marking" => Src(w) # s,
         \A j \in Jobs : SourceOf[j] = s /\ Carried(j) => state'[j] = state[j] /\ ~Q!Runs(w, j)'
  PROVE  Kept(s)'
<1>1. CASE req[s] \in {"put", "row", "enqueue"}
  BY <1>1 DEF Kept
<1>2. ASSUME NEW x \in Workers, pc[x] = "marking", Src(x) = s PROVE Kept(s)'
  BY <1>2 DEF Kept, Src
<1>3. ASSUME NEW j \in Jobs, SourceOf[j] = s, Carried(j) PROVE Kept(s)'
  <2>1. ASSUME NEW x \in Workers, state[j] = "running", Q!Runs(x, j)' PROVE GoesOn(x)'
    <3>1. x # w
      BY <1>3, <2>1
    <3>2. GoesOn(x) /\ Src(x) = s
      BY <1>3, <2>1, <3>1 DEF Q!Runs, Carried, Src
    <3>. QED
      BY <3>1, <3>2 DEF GoesOn, Src
  <2>2. Carried(j)'
    BY <1>3, <2>1 DEF Carried
  <2>. QED
    BY <1>3, <2>2 DEF Kept
<1>. QED
  BY <1>1, <1>2, <1>3 DEF Kept

LEMMA KeepRequests ==
  ASSUME PipelineInv, KeepInv, NEW s \in Sources,
         UploadInsert(s) \/ ReplacePut(s) \/ ResumeList(s) \/ RequestStep(s) \/ RequestDies(s)
  PROVE  KeepInv'
<1>. Types
  BY DEF PipelineInv
<1>1. /\ UNCHANGED <<pc, cur, hpc, before, overrun>> /\ cut \subseteq cut'
      /\ \A x \in Sources : x # s => status'[x] = status[x] /\ req'[x] = req[x]
      /\ \A j \in Jobs : SourceOf[j] # s => state'[j] = state[j]
  <2>1. CASE RequestEnqueue(s)
    <3>1. PICK j \in Jobs : SourceOf[j] = s /\ Q!Enqueue(j)
      BY <2>1 DEF RequestEnqueue
    <3>. QED
      BY <2>1, <3>1, QueueFacts DEF PipelineInv, RequestEnqueue, Q!Enqueue, Q!loop, Pass, handler, history, Types
  <2>. QED
    BY <2>1 DEF UploadInsert, ReplacePut, ResumeList, RequestStep, UploadPut, ReplaceRow, RequestDies, Pass,
                queueVars, handler, history, Types
<1>2. \A x \in Workers : EntryOK(x)'
  BY <1>1 DEF KeepInv, EntryOK
<1>3. s \in cut' \/ status'[s] \in Terminal \cup {"absent"} \/ Kept(s)' \/ s \in Reclaimed
  <2>1. CASE UploadInsert(s) \/ UploadPut(s) \/ ReplacePut(s) \/ ReplaceRow(s)
    <3>1. req'[s] \in {"put", "row", "enqueue"}
      BY <2>1 DEF UploadInsert, UploadPut, ReplacePut, ReplaceRow, Pass, Types
    <3>. QED
      BY <3>1 DEF Kept
  <2>2. CASE RequestEnqueue(s)
    <3>1. PICK j \in Jobs : SourceOf[j] = s /\ Q!Enqueue(j)
      BY <2>2 DEF RequestEnqueue
    <3>2. state'[j] = "queued"
      BY <3>1, QueueFacts DEF PipelineInv, Q!Enqueue
    <3>. QED
      BY <3>1, <3>2 DEF Kept, Carried
  <2>3. CASE ResumeList(s) \/ (RequestDies(s) /\ req[s] = "resume")
    <3>1. UNCHANGED <<state, status, cut>> /\ req[s] \notin {"put", "row", "enqueue"}
      BY <2>3 DEF ResumeList, RequestDies, Pass, queueVars, history
    <3>2. Kept(s) => Kept(s)'
      BY <1>1, <3>1, KeptStill
    <3>. QED
      BY <3>1, <3>2 DEF KeepInv
  <2>4. CASE RequestDies(s) /\ req[s] # "resume"
    BY <2>4 DEF RequestDies
  <2>. QED
    BY <2>1, <2>2, <2>3, <2>4 DEF RequestStep
<1>4. ASSUME NEW x \in Sources, x # s, x \notin cut', x \notin Reclaimed
      PROVE  status'[x] \in Terminal \cup {"absent"} \/ Kept(x)'
  <2>1. Kept(x) => Kept(x)'
    BY <1>1, <1>4, KeptStill
  <2>. QED
    BY <1>1, <1>4, <2>1 DEF KeepInv
<1>5. Reclaimed' = Reclaimed
  BY <1>1 DEF Reclaimed
<1>. QED
  BY <1>2, <1>3, <1>4, <1>5 DEF KeepInv

LEMMA KeepLoop ==
  ASSUME PipelineInv, PipelineInv', KeepInv, NEW w \in Workers,
         (\E j \in Jobs : Claim(w, j)) \/ Settle(w) \/ MarkSourceFailed(w) \/ VerdictLost(w) \/ Panic(w)
  PROVE  KeepInv'
<1>. Types /\ Shape
  BY DEF PipelineInv
<1>1. state \in [Jobs -> Q!States] /\ pc \in [Workers -> Q!Pcs] /\ cur \in [Workers -> Jobs \cup {NoJob}]
      /\ NoJob \notin Jobs
  BY QueueFacts, QueueAssumption DEF PipelineInv
<1>2. UNCHANGED <<req, overrun>> /\ cut \subseteq cut' /\ Reclaimed' = Reclaimed
  BY DEF Claim, Settle, MarkSourceFailed, VerdictLost, Panic, Q!Claim, Q!CompleteJob, Q!FailJob,
         Q!MarkSourceFailed, Q!VerdictLost, Q!Panic, history, Reclaimed
<1>3. \A x \in Workers : x # w =>
        pc'[x] = pc[x] /\ cur'[x] = cur[x] /\ hpc'[x] = hpc[x] /\ before'[x] = before[x]
  BY <1>1 DEF Claim, Settle, MarkSourceFailed, VerdictLost, Panic, Q!Claim, Q!CompleteJob, Q!FailJob,
              Q!MarkSourceFailed, Q!VerdictLost, Q!Panic, Q!Idle, Goto, Forget, handler, locals, Types
<1>4. EntryOK(w)'
  <2>1. hpc'[w] \in {"none", "get"} \/ UNCHANGED <<hpc, before>>
    BY DEF Claim, Settle, MarkSourceFailed, VerdictLost, Panic, Goto, Forget, handler, Types
  <2>. QED
    BY <2>1 DEF KeepInv, EntryOK
<1>5. \A x \in Workers : EntryOK(x)'
  BY <1>3, <1>4 DEF KeepInv, EntryOK
<1> SUFFICES ASSUME NEW s \in Sources, s \notin cut', s \notin Reclaimed
             PROVE  status'[s] \in Terminal \cup {"absent"} \/ Kept(s)'
  BY <1>2, <1>5 DEF KeepInv
<1>6. status[s] \in Terminal \cup {"absent"} \/ Kept(s)
  BY <1>2 DEF KeepInv
<1>7. CASE \E j \in Jobs : Claim(w, j)
  <2>1. PICK j \in Jobs : Claim(w, j)
    BY <1>7
  <2>2. /\ pc[w] = "idle" /\ pc'[w] = "handling" /\ hpc'[w] = "get" /\ cur'[w] = j
        /\ state' = [state EXCEPT ![j] = "running"] /\ status' = status
    BY <1>1, <2>1 DEF Claim, Q!Claim, Goto, Types
  <2>3. CASE SourceOf[j] = s
    <3>1. GoesOn(w)' /\ cur'[w] \notin overrun'
      BY <1>2, <2>2, <2>3 DEF GoesOn, Reclaimed
    <3>2. PICK k \in Jobs : k = cur'[w] /\ Carried(k)'
      BY <3>1, CarriedNext DEF PipelineInv
    <3>. QED
      BY <2>2, <2>3, <3>2 DEF Kept
  <2>4. CASE SourceOf[j] # s
    <3>1. \A k \in Jobs : SourceOf[k] = s => state'[k] = state[k] /\ ~Q!Runs(w, k)'
      BY <1>1, <2>2, <2>4 DEF Q!Runs
    <3>2. Kept(s) => Kept(s)'
      BY <1>2, <1>3, <2>2, <3>1, KeptBeside
    <3>. QED
      BY <1>6, <2>2, <3>2
  <2>. QED
    BY <2>3, <2>4
<1>8. CASE Settle(w) /\ pc[w] = "returned_ok"
  <2>1. state' = [state EXCEPT ![cur[w]] = "done"] /\ pc'[w] = "idle" /\ status' = status
    BY <1>1, <1>8 DEF Settle, Q!CompleteJob, Q!FailJob, Q!Idle
  <2>2. ASSUME NEW j \in Jobs, SourceOf[j] = s, Carried(j) PROVE state'[j] = state[j] /\ ~Q!Runs(w, j)'
    <3>1. CASE cur[w] = j
      <4>1. j \notin overrun
        BY <2>2 DEF Reclaimed
      <4>2. state[j] = "running" /\ Q!Runs(w, j)
        BY <1>8, <3>1, <4>1, QueueFacts DEF PipelineInv, Q!Runs
      <4>. QED
        BY <1>8, <2>2, <4>2 DEF Carried, GoesOn
    <3>2. CASE cur[w] # j
      BY <1>1, <2>1, <3>2 DEF Q!Runs
    <3>. QED
      BY <3>1, <3>2
  <2>3. Kept(s) => Kept(s)'
    BY <1>2, <1>3, <1>8, <2>1, <2>2, KeptBeside
  <2>. QED
    BY <1>6, <2>1, <2>3
<1>9. CASE Settle(w) /\ pc[w] # "returned_ok"
  <2>1. Q!FailJob(w) /\ status' = status
    BY <1>9 DEF Settle, Q!CompleteJob
  <2>2. cur[w] \in Jobs /\ pc[w] = "returned_err"
    BY <2>1, QueueFacts DEF PipelineInv, Q!FailJob
  <2>3. PICK j \in Jobs : j = cur[w]
    BY <2>2
  <2>4. /\ state'[j] = "queued" \/ (pc'[w] = "marking" /\ cur'[w] = j)
        /\ pc'[w] \in {"idle", "marking"}
        /\ \A k \in Jobs : k # j => state'[k] = state[k]
    BY <1>1, <2>1, <2>3 DEF Q!FailJob, Q!Verdict, Q!MarksSource, Q!Idle
  <2>5. CASE SourceOf[j] = s
    <3>1. CASE state'[j] = "queued"
      BY <2>5, <3>1 DEF Kept, Carried
    <3>2. CASE pc'[w] = "marking" /\ cur'[w] = j
      BY <2>5, <3>2 DEF Kept, Src
    <3>. QED
      BY <2>4, <3>1, <3>2
  <2>6. CASE SourceOf[j] # s
    <3>1. \A k \in Jobs : SourceOf[k] = s => state'[k] = state[k] /\ ~Q!Runs(w, k)'
      BY <2>4, <2>6 DEF Q!Runs
    <3>2. Kept(s) => Kept(s)'
      BY <1>2, <1>3, <2>1, <2>2, <3>1, KeptBeside
    <3>. QED
      BY <1>6, <2>1, <3>2
  <2>. QED
    BY <2>5, <2>6
<1>10. CASE MarkSourceFailed(w)
  <2>1. /\ pc[w] = "marking" /\ pc'[w] = "idle" /\ state' = state
        /\ status' = [status EXCEPT ![Src(w)] = "failed"]
    BY <1>1, <1>10 DEF MarkSourceFailed, Q!MarkSourceFailed, Q!Idle, Q!rows
  <2>2. CASE Src(w) = s
    BY <2>1, <2>2 DEF Terminal, Types
  <2>3. CASE Src(w) # s
    <3>1. status'[s] = status[s] /\ \A j \in Jobs : state'[j] = state[j] /\ ~Q!Runs(w, j)'
      BY <2>1, <2>3 DEF Q!Runs, Types
    <3>2. Kept(s) => Kept(s)'
      BY <1>2, <1>3, <2>3, <3>1, KeptBeside
    <3>. QED
      BY <1>6, <3>1, <3>2
  <2>. QED
    BY <2>2, <2>3
<1>11. CASE VerdictLost(w) \/ Panic(w)
  <2>1. UNCHANGED <<state, status>> /\ pc'[w] \in {"idle", "gone"}
    BY <1>1, <1>11 DEF VerdictLost, Panic, Q!VerdictLost, Q!Panic, Q!Idle, Q!rows
  <2>2. pc[w] = "marking" => Src(w) # s
    BY <1>11 DEF VerdictLost, Panic, Q!Panic
  <2>3. \A j \in Jobs : state'[j] = state[j] /\ ~Q!Runs(w, j)'
    BY <2>1 DEF Q!Runs
  <2>4. Kept(s) => Kept(s)'
    BY <1>2, <1>3, <2>1, <2>2, <2>3, KeptBeside
  <2>. QED
    BY <1>6, <2>1, <2>4
<1>. QED
  BY <1>7, <1>8, <1>9, <1>10, <1>11

LEMMA KeepNext == PipelineInv /\ PipelineInv' /\ KeepInv /\ [Next]_vars => KeepInv'
<1> SUFFICES ASSUME PipelineInv, PipelineInv', KeepInv, [Next]_vars PROVE KeepInv'
  OBVIOUS
<1>1. CASE UNCHANGED vars
  <2>1. UNCHANGED <<status, req, cut, overrun, pc, cur, state, hpc, before>>
    BY <1>1 DEF vars, queueVars, handler, history
  <2>2. \A s \in Sources : Kept(s) => Kept(s)'
    BY <2>1, KeptStill
  <2>. QED
    BY <2>1, <2>2 DEF KeepInv, EntryOK, Reclaimed
<1>2. CASE Restart
  <2>1. /\ UNCHANGED <<status, state, overrun>> /\ cut \subseteq cut'
        /\ hpc' = [x \in Workers |-> "none"] /\ pc' = [x \in Workers |-> "idle"]
        /\ \A s \in Sources : req[s] \notin {"none", "resume"} \/ s \in Marking => s \in cut'
    BY <1>2 DEF Restart, Q!Restart, Q!rows
  <2>2. \A w \in Workers : EntryOK(w)'
    BY <2>1 DEF EntryOK
  <2>3. ASSUME NEW s \in Sources, s \notin cut', Kept(s) PROVE Kept(s)'
    <3>1. PICK j \in Jobs : SourceOf[j] = s /\ Carried(j)
      BY <2>1, <2>3 DEF Kept, Marking
    <3>2. Carried(j)'
      BY <2>1, <3>1 DEF Carried, Q!Runs
    <3>. QED
      BY <3>1, <3>2 DEF Kept
  <2>. QED
    BY <2>1, <2>2, <2>3 DEF KeepInv, Reclaimed
<1>3. ASSUME NEW j \in Jobs, Time(j) \/ LeaseOverrun(j) PROVE KeepInv'
  <2>1. UNCHANGED <<status, req, cut, pc, cur, state, hpc, before>> /\ overrun \subseteq overrun'
    BY <1>3 DEF Time, LeaseOverrun, Q!DelayElapses, Q!LeaseLapses, Q!LeaseOverrun, Q!loop, handler, history
  <2>2. \A s \in Sources : Kept(s) => Kept(s)'
    BY <2>1, KeptStill
  <2>3. Reclaimed \subseteq Reclaimed'
    BY <2>1 DEF Reclaimed
  <2>. QED
    BY <2>1, <2>2, <2>3 DEF KeepInv, EntryOK
<1>4. ASSUME NEW s \in Sources,
             UploadInsert(s) \/ ReplacePut(s) \/ ResumeList(s) \/ RequestStep(s) \/ RequestDies(s)
      PROVE  KeepInv'
  BY <1>4, KeepRequests
<1>5. ASSUME NEW w \in Workers, WorkerStep(w) \/ HandlerFails(w) \/ VerdictLost(w) \/ Panic(w)
      PROVE  KeepInv'
  BY <1>5, KeepHandlers, KeepLoop DEF WorkerStep
<1>. QED
  BY <1>1, <1>2, <1>3, <1>4, <1>5 DEF Next

\* However jobs are retried, reclaimed after a crash or doubled by a resume, and whichever
\* handler ends early because another moved the status, a source in mid-pipeline keeps a
\* job, a request or a worker that will move it on.
THEOREM NeverIsForgotten == Spec => []NeverForgotten
<1>1. Init => PipelineInv /\ KeepInv
  BY PipelineInit, KeepInit
<1>2. PipelineInv /\ KeepInv /\ [Next]_vars => (PipelineInv /\ KeepInv)'
  BY PipelineNext, KeepNext
<1>3. KeepInv => NeverForgotten
  BY KeptIsDriven
<1>. QED
  BY <1>1, <1>2, <1>3, PTL DEF Spec

-----------------------------------------------------------------------------
(* The index.  embed_changed_pages takes HEAD for the source's own commit: *)
(* unless a handler met another's commit there, a source that is done has  *)
(* its page indexed, because whoever else could change the page is at work *)
(* on it as well.                                                          *)

IndexOK(s) ==
  /\ status[s] = "done" /\ Embedder => index[s] = page[s]
  /\ page[s] = 0 => index[s] = 0

Embeds(w, s) ==
  /\ hpc[w] \in MidPhase => status[s] # "done"
  /\ hpc[w] = "embed_put" => touched[w] = s /\ ver[w] = page[s]
  /\ hpc[w] = "embed_done" /\ Embedder => index[s] = page[s]

Alone(s) == \A w, x \in Workers :
  hpc[w] # "none" /\ Src(w) = s /\ hpc[x] # "none" /\ Src(x) = s => w = x

\* The sources whose pages are embedded by their own handlers, one at a time.
Straight == Sources \ (doubled \cup crossed)

IndexInv ==
  /\ \A w \in Workers : hpc[w] = "distill_commit" => ver[w] # 0
  /\ \A s \in Sources : page[s] # 0 => head # NoSource
  /\ \A w \in Workers : hpc[w] = "embed_put" /\ touched[w] # Src(w) => touched[w] \notin Straight
  /\ \A s \in Straight :
       IndexOK(s) /\ Alone(s) /\ \A w \in Workers : hpc[w] # "none" /\ Src(w) = s => Embeds(w, s)

LEMMA IndexInit == Init => IndexInv
  BY DEF Init, IndexInv, IndexOK, Alone, Zero

\* Steps that leave page, HEAD and index alone, and no handler further than it was.
LEMMA IndexStill ==
  ASSUME PipelineInv, IndexInv, UNCHANGED <<page, head, index>>,
         doubled \subseteq doubled', crossed \subseteq crossed',
         \A s \in Sources : status'[s] = "done" => status[s] = "done",
         \A w \in Workers : \/ hpc'[w] = "none"
                            \/ UNCHANGED <<cur[w], hpc[w], ver[w], touched[w]>>
  PROVE  IndexInv'
<1>. Straight' \subseteq Straight
  BY DEF Straight
<1>1. /\ \A w \in Workers : hpc'[w] = "distill_commit" => ver'[w] # 0
      /\ \A s \in Sources : page'[s] # 0 => head' # NoSource
  BY DEF IndexInv
<1>2. \A w \in Workers : hpc'[w] = "embed_put" /\ touched'[w] # Src(w)' => touched'[w] \notin Straight'
  BY DEF IndexInv, Src
<1>3. ASSUME NEW s \in Straight' PROVE IndexOK(s)' /\ Alone(s)'
  <2>1. s \in Sources
    BY DEF Straight
  <2>. QED
    BY <1>3, <2>1 DEF IndexInv, IndexOK, Alone, Src
<1>4. ASSUME NEW s \in Straight', NEW w \in Workers, hpc'[w] # "none", Src(w)' = s PROVE Embeds(w, s)'
  <2>1. s \in Sources
    BY DEF Straight
  <2>. QED
    BY <1>4, <2>1 DEF IndexInv, Embeds, Src
<1>. QED
  BY <1>1, <1>2, <1>3, <1>4 DEF IndexInv

\* What a handler's step leaves of the other sources.
LEMMA IndexBeside ==
  ASSUME PipelineInv, IndexInv, NEW w \in Workers, HandlerStep(w) \/ HandlerFails(w),
         NEW s \in Straight, s # Src(w), Src(w) \in Sources
  PROVE  UNCHANGED <<status[s], page[s], index[s]>>
<1>. Types /\ s \in Sources
  BY DEF PipelineInv, Straight
<1>1. status'[s] = status[s]
  BY HandlerSteps
  DEF Write, Get, ReadBlob, PutText, Answer, ReadText, CommitBundle, ReadChangedPages, UpsertPages, Again,
      Return, Read, Local, Types
<1>2. page'[s] = page[s]
  BY HandlerSteps
  DEF Write, Get, ReadBlob, PutText, Answer, ReadText, CommitBundle, ReadChangedPages, UpsertPages, Again,
      Return, Read, Local, stores, Types
<1>3. CASE UpsertPages(w)
  <2>1. touched[w] # s
    BY <1>3 DEF IndexInv, UpsertPages, At
  <2>. QED
    BY <1>1, <1>2, <1>3, <2>1 DEF UpsertPages, Types
<1>4. CASE ~UpsertPages(w)
  BY <1>1, <1>2, <1>4, HandlerSteps
  DEF Write, Get, ReadBlob, PutText, Answer, ReadText, CommitBundle, ReadChangedPages, Again,
      Return, Read, Local, stores, Types
<1>. QED
  BY <1>3, <1>4

\* A handler's own source stays in order.
LEMMA IndexOwn ==
  ASSUME PipelineInv, IndexInv, NEW w \in Workers, HandlerStep(w) \/ HandlerFails(w),
         NEW s \in Sources, s = Src(w), status[s] # "absent", hpc[w] # "none",
         s \in Straight, s \in Straight'
  PROVE  IndexOK(s)' /\ Embeds(w, s)'
<1>. Types /\ Shape
  BY DEF PipelineInv
<1>0. IndexOK(s) /\ Embeds(w, s)
  BY DEF IndexInv
<1>1. CASE \E m \in Marks : Write(w, m[1], m[2], m[3])
  <2>1. PICK m \in Marks : Write(w, m[1], m[2], m[3])
    BY <1>1
  <2>2. /\ hpc[w] = m[1] /\ hpc'[w] = m[3] /\ status'[s] = m[2]
        /\ UNCHANGED <<page, head, index, ver, touched>>
    BY <2>1 DEF Write, At, Goto, locals, stores, Types
  <2>3. /\ m[1] = "embed_done" \/ m[2] # "done"
        /\ m[3] \in MidPhase => m[2] # "done"
        /\ m[3] \notin {"embed_put", "embed_done"}
    BY DEF Marks, MidPhase
  <2>. QED
    BY <1>0, <2>2, <2>3 DEF IndexOK, Embeds
<1>2. CASE Get(w)
  <2>1. UNCHANGED <<status, page, head, index>>
    BY <1>2 DEF Get, Local, stores
  <2>2. PICK p : /\ hpc' = [hpc EXCEPT ![w] = p]
                 /\ p \in {"taint", "extract", "classify", "distill", "embed", "embed_done", "stop"}
                 /\ p = "extract" => status[Src(w)] \in {"pending", "extracting", "failed"}
                 /\ p = "classify" => status[Src(w)] \in {"extracted", "classifying"}
                 /\ p = "distill" => status[Src(w)] \in {"classified", "agent_distilling"}
                 /\ p \in {"embed", "embed_done"} => status[Src(w)] \in {"committed", "embedding"}
                 /\ p = "embed_done" => ~Embedder
    BY <1>2, Destination DEF Get, Local, Goto, Entry
  <2>3. hpc'[w] = p
    BY <2>2 DEF Types
  <2>. QED
    BY <1>0, <2>1, <2>2, <2>3 DEF IndexOK, Embeds, MidPhase
<1>3. CASE ReadBlob(w) \/ ReadText(w) \/ Answer(w) \/ Again(w) \/ PutText(w)
  <2>1. UNCHANGED <<status, page, head, index>>
    BY <1>3 DEF ReadBlob, ReadText, Answer, Again, PutText, Read, Local, stores
  <2>2. hpc'[w] \notin {"embed_put", "embed_done"} /\ (hpc'[w] \in MidPhase => hpc[w] \in MidPhase)
    BY <1>3 DEF ReadBlob, ReadText, Answer, Again, PutText, Read, Local, At, Goto, MidPhase, Types
  <2>. QED
    BY <1>0, <2>1, <2>2 DEF IndexOK, Embeds
<1>4. CASE CommitBundle(w)
  <2>1. /\ hpc[w] = "distill_commit" /\ hpc'[w] = "distill_done" /\ UNCHANGED <<status, index>>
        /\ (page'[s] = ver[w] /\ head' = s) \/ UNCHANGED <<page, head>>
    BY <1>4 DEF CommitBundle, At, Goto, Types
  <2>. QED
    BY <1>0, <2>1 DEF IndexInv, IndexOK, Embeds, MidPhase
<1>5. CASE ReadChangedPages(w)
  <2>1. /\ hpc[w] = "embed_read" /\ UNCHANGED <<status, page, head, index>>
        /\ hpc'[w] = IF head = NoSource THEN "embed_done" ELSE "embed_put"
        /\ touched'[w] = head /\ (head # NoSource => ver'[w] = page[head])
    BY <1>5 DEF ReadChangedPages, At, Goto, stores, Types
  <2>2. head # NoSource => head = s
    BY <1>5 DEF ReadChangedPages, Straight
  <2>3. head = NoSource => page[s] = 0 /\ index[s] = 0
    BY <1>0 DEF IndexInv, IndexOK
  <2>. QED
    BY <1>0, <2>1, <2>2, <2>3 DEF IndexOK, Embeds, MidPhase
<1>6. CASE UpsertPages(w)
  <2>1. /\ hpc[w] = "embed_put" /\ hpc'[w] = "embed_done" /\ UNCHANGED <<status, page, head>>
        /\ index' = [index EXCEPT ![touched[w]] = ver[w]]
    BY <1>6 DEF UpsertPages, At, Goto, Types
  <2>2. index'[s] = page[s]
    BY <1>0, <2>1 DEF Embeds, Types
  <2>3. page[s] = 0 => index'[s] = 0
    BY <2>2
  <2>. QED
    BY <1>0, <2>1, <2>2, <2>3 DEF IndexOK, Embeds, MidPhase
<1>7. ASSUME NEW r \in Q!Pcs, Return(w, r) PROVE IndexOK(s)' /\ Embeds(w, s)'
  <2>1. UNCHANGED <<status, page, head, index>> /\ hpc'[w] = "none"
    BY <1>7 DEF Return, Forget, Goto, stores, Types
  <2>. QED
    BY <1>0, <2>1 DEF IndexOK, Embeds, MidPhase
<1>. QED
  BY <1>1, <1>2, <1>3, <1>4, <1>5, <1>6, <1>7, HandlerSteps

LEMMA IndexHandlers ==
  ASSUME PipelineInv, IndexInv, NEW w \in Workers, HandlerStep(w) \/ HandlerFails(w)
  PROVE  IndexInv'
<1>. Types /\ Shape
  BY DEF PipelineInv
<1>1. UNCHANGED <<cur, doubled>> /\ crossed \subseteq crossed'
  BY HandlerSteps
  DEF Write, Get, ReadBlob, PutText, Answer, ReadText, CommitBundle, ReadChangedPages, UpsertPages, Again,
      Return, Q!HandlerReturns, Read, Local, queueVars, history
<1>2. pc[w] = "handling" /\ hpc[w] # "none"
  BY HandlerSteps DEF Write, Get, ReadBlob, PutText, Answer, ReadText, CommitBundle, ReadChangedPages,
                      UpsertPages, Again, Return, Q!HandlerReturns, Read, Local, At, Shape
<1>3. PICK s \in Sources : s = Src(w) /\ status[s] # "absent"
  BY <1>2, InHandExists
<1>4. \A x \in Workers : x # w => hpc'[x] = hpc[x] /\ ver'[x] = ver[x] /\ touched'[x] = touched[x]
  BY HandlerSteps
  DEF Write, Get, ReadBlob, PutText, Answer, ReadText, CommitBundle, ReadChangedPages, UpsertPages, Again,
      Return, Forget, Goto, Read, Local, locals, Types
<1>5. \A x \in Workers : hpc'[x] = "distill_commit" => ver'[x] # 0
  <2>1. hpc'[w] = "distill_commit" => ver'[w] # 0
    <3>1. CASE Get(w)
      BY <3>1, Destination DEF Types
    <3>2. CASE ~Get(w)
      BY <3>2, HandlerSteps
      DEF IndexInv, Write, Marks, ReadBlob, PutText, Answer, ReadText, CommitBundle, ReadChangedPages,
          UpsertPages, Again, Return, Forget, Goto, Read, Local, At, locals, Types
    <3>. QED
      BY <3>1, <3>2
  <2>. QED
    BY <1>4, <2>1 DEF IndexInv
<1>6. \A x \in Sources : page'[x] # 0 => head' # NoSource
  <2>1. CASE CommitBundle(w)
    <3>1. (page' = [page EXCEPT ![s] = ver[w]] /\ head' = s) \/ UNCHANGED <<page, head>>
      BY <1>3, <2>1 DEF CommitBundle
    <3>. QED
      BY <3>1, IngestAssumption DEF IndexInv
  <2>2. CASE ~CommitBundle(w)
    <3>1. UNCHANGED <<page, head>>
      BY <2>2, HandlerSteps
      DEF Write, Get, ReadBlob, PutText, Answer, ReadText, ReadChangedPages, UpsertPages, Again,
          Return, Read, Local, stores
    <3>. QED
      BY <3>1 DEF IndexInv
  <2>. QED
    BY <2>1, <2>2
<1>7. ASSUME NEW x \in Workers, hpc'[x] = "embed_put", touched'[x] # Src(x)' PROVE touched'[x] \notin Straight'
  <2>1. CASE x # w
    BY <1>1, <1>4, <1>7, <2>1 DEF IndexInv, Straight, Src
  <2>2. CASE x = w
    <3>1. ReadChangedPages(w)
      <4>1. CASE Get(w)
        BY <1>7, <2>2, <4>1, Destination DEF Types
      <4>2. CASE ~Get(w) /\ ~ReadChangedPages(w)
        BY <1>7, <2>2, <4>2, HandlerSteps
        DEF Write, Marks, ReadBlob, PutText, Answer, ReadText, CommitBundle, UpsertPages, Again, Return,
            Forget, Goto, Read, Local, At, Types
      <4>. QED
        BY <4>1, <4>2
    <3>2. touched'[w] = head /\ Src(w)' = s /\ head # NoSource
      BY <1>1, <1>3, <1>7, <2>2, <3>1 DEF ReadChangedPages, At, Goto, Src, Types
    <3>3. head # s => head \in crossed'
      BY <1>3, <3>1, <3>2 DEF ReadChangedPages
    <3>. QED
      BY <1>7, <2>2, <3>2, <3>3 DEF Straight
  <2>. QED
    BY <2>1, <2>2
<1>8. ASSUME NEW t \in Straight'
      PROVE  IndexOK(t)' /\ Alone(t)' /\ \A x \in Workers : hpc'[x] # "none" /\ Src(x)' = t => Embeds(x, t)'
  <2>. t \in Straight /\ t \in Sources
    BY <1>1 DEF Straight
  <2>1. Alone(t)'
    BY <1>1, <1>2, <1>3, <1>4 DEF IndexInv, Alone, Src
  <2>2. CASE t # s
    <3>1. UNCHANGED <<status[t], page[t], index[t]>>
      BY <1>3, <2>2, IndexBeside
    <3>2. ASSUME NEW x \in Workers, hpc'[x] # "none", Src(x)' = t PROVE Embeds(x, t)'
      <4>1. x # w /\ Src(x) = t
        BY <1>1, <1>3, <2>2, <3>2 DEF Src
      <4>2. Embeds(x, t)
        BY <1>4, <3>2, <4>1 DEF IndexInv
      <4>. QED
        BY <1>4, <3>1, <4>1, <4>2 DEF Embeds
    <3>3. IndexOK(t)'
      BY <3>1 DEF IndexInv, IndexOK
    <3>. QED
      BY <2>1, <3>2, <3>3
  <2>3. CASE t = s
    <3>1. IndexOK(s)' /\ Embeds(w, s)'
      BY <1>2, <1>3, <2>3, IndexOwn
    <3>2. ASSUME NEW x \in Workers, hpc'[x] # "none", Src(x)' = s PROVE Embeds(x, s)'
      <4>1. x = w
        BY <1>1, <1>2, <1>3, <1>4, <2>3, <3>2 DEF IndexInv, Alone, Src
      <4>. QED
        BY <3>1, <4>1
    <3>. QED
      BY <2>1, <2>3, <3>1, <3>2
  <2>. QED
    BY <2>2, <2>3
<1>. QED
  BY <1>5, <1>6, <1>7, <1>8 DEF IndexInv

LEMMA IndexClaim ==
  ASSUME PipelineInv, IndexInv, NEW w \in Workers, NEW j \in Jobs, Claim(w, j)
  PROVE  IndexInv'
<1>. Types /\ Shape
  BY DEF PipelineInv
<1>1. /\ UNCHANGED <<status, page, head, index, ver, touched, crossed>> /\ doubled \subseteq doubled'
      /\ hpc' = [hpc EXCEPT ![w] = "get"] /\ cur' = [cur EXCEPT ![w] = j]
      /\ SourceOf[j] \notin doubled' => ~InHand(SourceOf[j])
  BY DEF Claim, Q!Claim, Goto, stores, locals, Types
<1>2. \A x \in Workers : x # w => cur'[x] = cur[x] /\ hpc'[x] = hpc[x]
  BY <1>1, QueueFacts DEF PipelineInv, Types
<1>3. hpc'[w] = "get" /\ cur'[w] = j
  BY <1>1, QueueFacts DEF PipelineInv, Types
<1>4. /\ \A x \in Workers : hpc'[x] = "distill_commit" => ver'[x] # 0
      /\ \A s \in Sources : page'[s] # 0 => head' # NoSource
  BY <1>1, <1>2, <1>3 DEF IndexInv
<1>. Straight' \subseteq Straight /\ Straight \subseteq Sources
  BY <1>1 DEF Straight
<1>7. \A x \in Workers : hpc'[x] = "embed_put" /\ touched'[x] # Src(x)' => touched'[x] \notin Straight'
  BY <1>1, <1>2, <1>3 DEF IndexInv, Src
<1>5. ASSUME NEW s \in Straight', NEW x \in Workers, hpc'[x] # "none", Src(x)' = s PROVE Embeds(x, s)'
  BY <1>1, <1>2, <1>3, <1>5 DEF IndexInv, Embeds, Src, MidPhase
<1>6. ASSUME NEW s \in Straight' PROVE IndexOK(s)' /\ Alone(s)'
  <2>1. IndexOK(s)'
    BY <1>1, <1>6 DEF IndexInv, IndexOK
  <2>2. SourceOf[j] = s => \A x \in Workers : x # w /\ hpc'[x] # "none" => Src(x)' # s
    BY <1>1, <1>2, <1>6 DEF InHand, Shape, Src, Straight
  <2>3. Alone(s)
    BY <1>1, <1>6 DEF IndexInv
  <2>4. Alone(s)'
    BY <1>2, <1>3, <2>2, <2>3 DEF Alone, Src
  <2>. QED
    BY <2>1, <2>4
<1>. QED
  BY <1>4, <1>5, <1>6, <1>7 DEF IndexInv

LEMMA IndexNext == PipelineInv /\ IndexInv /\ [Next]_vars => IndexInv'
<1> SUFFICES ASSUME PipelineInv, IndexInv, [Next]_vars PROVE IndexInv'
  OBVIOUS
<1>. Types /\ Shape
  BY DEF PipelineInv
<1>1. CASE UNCHANGED vars
  BY <1>1, IndexStill DEF vars, queueVars, stores, handler, history
<1>2. CASE Restart
  BY <1>2, IndexStill DEF Restart, stores
<1>3. ASSUME NEW j \in Jobs, Time(j) \/ LeaseOverrun(j) PROVE IndexInv'
  <2>1. UNCHANGED <<status, page, head, index, doubled, crossed, hpc, ver, touched, cur>>
    BY <1>3 DEF Time, LeaseOverrun, Q!DelayElapses, Q!LeaseLapses, Q!LeaseOverrun, Q!loop,
                stores, handler, history
  <2>. QED
    BY <2>1, IndexStill
<1>4. ASSUME NEW s \in Sources,
             UploadInsert(s) \/ ReplacePut(s) \/ ResumeList(s) \/ RequestStep(s) \/ RequestDies(s)
      PROVE  IndexInv'
  <2>1. UNCHANGED <<page, head, index, doubled, crossed, hpc, ver, touched, cur>>
    BY <1>4 DEF UploadInsert, ReplacePut, ResumeList, RequestStep, UploadPut, ReplaceRow, RequestEnqueue,
                RequestDies, Q!Enqueue, Q!loop, queueVars, stores, handler, history
  <2>2. status' = status \/ status' = [status EXCEPT ![s] = "pending"]
    BY <1>4 DEF UploadInsert, ReplacePut, ResumeList, RequestStep, UploadPut, ReplaceRow, RequestEnqueue,
                RequestDies
  <2>3. \A x \in Sources : status'[x] = "done" => status[x] = "done"
    BY <2>2 DEF Types
  <2>. QED
    BY <2>1, <2>3, IndexStill
<1>5. ASSUME NEW w \in Workers, Settle(w) \/ MarkSourceFailed(w) \/ VerdictLost(w) PROVE IndexInv'
  <2>1. UNCHANGED <<page, head, index, doubled, crossed, hpc, ver, touched>>
        /\ (status' = status \/ status' = [status EXCEPT ![Src(w)] = "failed"])
        /\ (cur' = cur \/ cur' = [cur EXCEPT ![w] = NoJob])
        /\ pc[w] \in {"returned_ok", "returned_err", "marking"}
    BY <1>5 DEF Settle, MarkSourceFailed, VerdictLost, Q!CompleteJob, Q!FailJob, Q!MarkSourceFailed,
                Q!VerdictLost, Q!Idle, stores, handler, history
  <2>2. hpc'[w] = "none"
    BY <2>1 DEF Shape
  <2>3. \A x \in Workers : x # w => cur'[x] = cur[x]
    BY <2>1, QueueFacts DEF PipelineInv
  <2>4. \A s \in Sources : status'[s] = "done" => status[s] = "done"
    BY <2>1 DEF Types
  <2>. QED
    BY <2>1, <2>2, <2>3, <2>4, IndexStill
<1>6. ASSUME NEW w \in Workers, Panic(w) PROVE IndexInv'
  <2>1. UNCHANGED <<status, page, head, index, doubled, crossed>> /\ hpc'[w] = "none"
        /\ \A x \in Workers : x # w => UNCHANGED <<cur[x], hpc[x], ver[x], touched[x]>>
    BY <1>6, QueueFacts DEF PipelineInv, Panic, Q!Panic, Forget, Goto, stores, history, Types
  <2>. QED
    BY <2>1, IndexStill
<1>7. ASSUME NEW w \in Workers, WorkerStep(w) \/ HandlerFails(w) PROVE IndexInv'
  BY <1>5, <1>7, IndexHandlers, IndexClaim DEF WorkerStep
<1>. QED
  BY <1>1, <1>2, <1>3, <1>4, <1>5, <1>6, <1>7 DEF Next

\* In a workspace of any number of sources, one that is done has its committed page in the
\* index, whatever was retried, crashed or replaced, unless a handler found another source's
\* commit at HEAD where it needed its own, or two handlers were at work on it at once.
THEOREM DoneIsAlwaysIndexed == Spec => []DoneIsIndexed
<1>1. Init => PipelineInv /\ IndexInv
  BY PipelineInit, IndexInit
<1>2. PipelineInv /\ IndexInv /\ [Next]_vars => (PipelineInv /\ IndexInv)'
  BY PipelineNext, IndexNext
<1>3. IndexInv => DoneIsIndexed
  BY DEF IndexInv, IndexOK, DoneIsIndexed, Straight
<1>. QED
  BY <1>1, <1>2, <1>3, PTL DEF Spec
=============================================================================
