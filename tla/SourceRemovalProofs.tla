------------------------ MODULE SourceRemovalProofs ------------------------
(***************************************************************************)
(* Theorems about the wiki's jobs, for every set of slugs, pages and jobs, *)
(* every wiki to start with, and any number of uploads, attempts and       *)
(* faults.  Those that need it say that there is one worker: it is what    *)
(* the handlers of remove.rs, reembed.rs and ingest.rs rely on.            *)
(***************************************************************************)
EXTENDS SourceRemoval, TLAPS

QP == INSTANCE JobQueueProofs WITH IngestJobs <- {j \in Jobs : KindOf[j] = "ingest"}

-----------------------------------------------------------------------------
(* The queue.  Every step here is a step of JobQueue, or leaves it alone.  *)

LEMMA QueueAssumption ==
  /\ {j \in Jobs : KindOf[j] = "ingest"} \subseteq Jobs /\ MaxAttempts \in [Jobs -> Nat \ {0}]
  /\ FaultKinds \subseteq QP!AllFaults /\ MaxFaults \in Nat
  /\ NoJob \notin Jobs /\ NoWorker \notin Workers
  BY RemovalAssumption DEF Q!AllFaults, QP!AllFaults

LEMMA QueueInit == Init => QP!TypeInv
<1>1. Init => QP!Init
  BY DEF Init, Q!Init, QP!Init
<1>. QED
  BY <1>1, QueueAssumption, QP!TypeInit

LEMMA JobSteps ==
  ASSUME NEW j \in Jobs
  PROVE  Q!Enqueue(j) \/ Q!DelayElapses(j) \/ Q!LeaseLapses(j) \/ Q!LeaseOverrun(j) => QP!Next
<1>1. Q!Enqueue(j) => QP!Enqueue(j)
  BY DEF Q!Enqueue, QP!Enqueue, Q!InsertNow, QP!InsertNow, Q!Without, QP!Without, Q!InPlay, QP!InPlay,
         Q!loop, QP!loop
<1>2. Q!DelayElapses(j) => QP!DelayElapses(j)
  BY DEF Q!DelayElapses, QP!DelayElapses, Q!InPlay, QP!InPlay, Q!loop, QP!loop
<1>3. Q!LeaseLapses(j) => QP!LeaseLapses(j)
  BY DEF Q!LeaseLapses, QP!LeaseLapses, Q!Runs, QP!Runs, Q!loop, QP!loop
<1>4. Q!LeaseOverrun(j) => QP!LeaseOverrun(j)
  BY DEF Q!LeaseOverrun, QP!LeaseOverrun, Q!Runs, QP!Runs, Q!Fault, QP!Fault, Q!loop, QP!loop
<1>. QED
  BY <1>1, <1>2, <1>3, <1>4 DEF QP!Next

LEMMA WorkerSteps ==
  ASSUME NEW w \in Workers
  PROVE  /\ \A j \in Jobs : Q!Claim(w, j) => QP!Next
         /\ Q!HandlerReturns(w) \/ Q!CompleteJob(w) \/ Q!FailJob(w) \/ Q!MarkSourceFailed(w) => QP!Next
         /\ Q!VerdictLost(w) \/ Q!Panic(w) => QP!Next
<1>1. ASSUME NEW j \in Jobs PROVE Q!Claim(w, j) => QP!Claim(w, j)
  BY DEF Q!Claim, QP!Claim, Q!Claimable, QP!Claimable, Q!First, QP!First,
         Q!CountedAttempt, QP!CountedAttempt
<1>2. Q!HandlerReturns(w) => QP!HandlerReturns(w)
  BY DEF Q!HandlerReturns, QP!HandlerReturns, Q!rows, QP!rows
<1>3. Q!CompleteJob(w) => QP!CompleteJob(w)
  BY DEF Q!CompleteJob, QP!CompleteJob, Q!Without, QP!Without, Q!Idle, QP!Idle
<1>4. Q!FailJob(w) => QP!FailJob(w)
  BY DEF Q!FailJob, QP!FailJob, Q!Verdict, QP!Verdict, Q!Exhausted, QP!Exhausted, Q!Without, QP!Without,
         Q!InsertDelayed, QP!InsertDelayed, Q!InPlay, QP!InPlay, Q!MarksSource, QP!MarksSource,
         Q!Idle, QP!Idle
<1>5. Q!MarkSourceFailed(w) => QP!MarkSourceFailed(w)
  BY DEF Q!MarkSourceFailed, QP!MarkSourceFailed, Q!Idle, QP!Idle, Q!rows, QP!rows
<1>6. Q!VerdictLost(w) => QP!VerdictLost(w)
  BY DEF Q!VerdictLost, QP!VerdictLost, Q!Fault, QP!Fault, Q!Idle, QP!Idle, Q!rows, QP!rows
<1>7. Q!Panic(w) => QP!Panic(w)
  BY DEF Q!Panic, QP!Panic, Q!Fault, QP!Fault, Q!rows, QP!rows
<1>. QED
  BY <1>1, <1>2, <1>3, <1>4, <1>5, <1>6, <1>7 DEF QP!Next, QP!Step

-----------------------------------------------------------------------------
(* The steps of a handler. *)

\* Those that neither begin nor end it.
Works(w) ==
  \/ Get(w) \/ WriteFile(w) \/ Commit(w) \/ ReadTouched(w) \/ Upsert(w) \/ AllUpserted(w)
  \/ Distill(w) \/ MarkCommitted(w) \/ MarkDone(w)
  \/ PlanRemoval(w) \/ DeleteRow(w) \/ AllRowsDeleted(w) \/ EmbedFails(w)
  \/ DeleteBlob(w) \/ DeleteSourceRow(w)
  \/ ListPages(w) \/ ClearRow(w) \/ ReadBatch(w) \/ SkipPage(w)

\* Those that end it, with a verdict or without.
Ends(w) == Stop(w) \/ HandlerFails(w) \/ Panic(w)

\* Those of the loop around it.
Loops(w) == (\E j \in Jobs : Claim(w, j)) \/ Settle(w) \/ MarkSourceFailed(w)

Requests == \E s \in Slugs : UploadInsert(s) \/ UploadPut(s) \/ UploadEnqueue(s)

LEMMA NextSteps ==
  ASSUME [Next]_vars
  PROVE  \/ UNCHANGED vars \/ Requests \/ Restart
         \/ \E j \in Jobs : DeleteSource(j) \/ AdminJob(j) \/ Time(j)
         \/ \E w \in Workers : Works(w) \/ Ends(w) \/ Loops(w)
  BY DEF Next, WorkerStep, Requests, Works, Ends, Loops

LEMMA QueueMoves == [Next]_vars => [QP!Next]_(QP!vars)
<1> SUFFICES ASSUME [Next]_vars PROVE [QP!Next]_(QP!vars)
  OBVIOUS
<1>1. CASE UNCHANGED queueVars
  BY <1>1 DEF queueVars, QP!vars, QP!rows, QP!loop
<1>2. CASE Restart
  BY <1>2 DEF Restart, QP!Next, Q!Restart, QP!Restart, Q!Fault, QP!Fault, Q!rows, QP!rows
<1>3. CASE Requests
  BY <1>1, <1>3, JobSteps DEF Requests, UploadInsert, UploadPut, UploadEnqueue
<1>4. ASSUME NEW j \in Jobs, DeleteSource(j) \/ AdminJob(j) \/ Time(j) PROVE [QP!Next]_(QP!vars)
  BY <1>4, JobSteps DEF DeleteSource, AdminJob, Time
<1>5. ASSUME NEW w \in Workers, Works(w) PROVE UNCHANGED queueVars
  BY <1>5 DEF Works, Get, WriteFile, Commit, ReadTouched, Upsert, AllUpserted, Distill, MarkCommitted,
              MarkDone, PlanRemoval, DeleteRow, AllRowsDeleted, EmbedFails, DeleteBlob, DeleteSourceRow,
              ListPages, ClearRow, ReadBatch, SkipPage
<1>6. ASSUME NEW w \in Workers, Ends(w) \/ Loops(w) PROVE [QP!Next]_(QP!vars)
  BY <1>6, WorkerSteps DEF Ends, Loops, Stop, HandlerFails, Panic, Claim, Settle, MarkSourceFailed
<1>7. CASE UNCHANGED vars
  BY <1>1, <1>7 DEF vars
<1>. QED
  BY <1>1, <1>2, <1>3, <1>4, <1>5, <1>6, <1>7, NextSteps

LEMMA QueueNext == QP!TypeInv /\ [Next]_vars => QP!TypeInv'
  BY QueueMoves, QueueAssumption, QP!TypeNext

LEMMA QueueFacts ==
  ASSUME QP!TypeInv
  PROVE  /\ Q!TypeOK
         /\ state \in [Jobs -> Q!States] /\ pc \in [Workers -> Q!Pcs] /\ cur \in [Workers -> Jobs \cup {NoJob}]
         /\ \A w \in Workers : pc[w] \notin {"idle", "gone"} => cur[w] \in Jobs
<1>1. Q!TypeOK
  BY DEF QP!TypeInv, Q!TypeOK, QP!TypeOK, Q!States, QP!States, Q!Pcs, QP!Pcs
<1>. QED
  BY <1>1 DEF QP!TypeInv, Q!TypeOK, QP!LoopOK

-----------------------------------------------------------------------------
(* Types. *)

Types ==
  /\ row \in [Slugs -> Uploads] /\ blob \in [Slugs -> Uploads] /\ uploads \in [Slugs -> Uploads]
  /\ status \in [Slugs -> {"none", "pending", "committed", "done", "failed"}]
  /\ \A s \in Slugs : row[s] = 0 <=> status[s] = "none"
  /\ tree \in [Pages -> SUBSET Slugs] /\ head \in [Pages -> SUBSET Slugs]
  /\ index \in [Pages -> SUBSET Slugs]
  /\ changed \subseteq Pages
  /\ req \in [Slugs -> {"none", "put", "enqueue"}]
  /\ admin \in [Jobs -> {"none", "reembed", "lint"}]
  /\ hpc \in [Workers -> Places]
  /\ work \in [Workers -> Contents]
  /\ gone \in [Workers -> SUBSET Pages] /\ patched \in [Workers -> SUBSET Pages]
  /\ asked \in [Jobs -> Uploads]
  /\ torn \subseteq Slugs /\ missed \subseteq Slugs /\ skipped \subseteq Pages
  /\ dropped \subseteq Slugs

\* The places of each handler.
IngestPlaces == {"get", "distill", "write", "commit", "committed", "embed", "upsert", "done", "stop"}
RemovePlaces == {"get", "plan", "write", "commit", "rows", "patch", "upsert", "blob", "sweep", "row", "stop"}
ReembedPlaces == {"get", "list", "clear", "upsert", "stop"}
LintPlaces == {"get", "commit", "stop"}

PlaceOK(w) ==
  /\ Kind(w) \in {"ingest", "remove", "reembed", "lint"}
  /\ Kind(w) = "ingest" => hpc[w] \in IngestPlaces
  /\ Kind(w) = "remove" => hpc[w] \in RemovePlaces
  /\ Kind(w) = "reembed" => hpc[w] \in ReembedPlaces
  /\ Kind(w) = "lint" => hpc[w] \in LintPlaces

\* A handler is somewhere just while its loop waits for it, and where its kind may be.
Shape ==
  /\ \A w \in Workers : hpc[w] # "none" <=> pc[w] = "handling"
  /\ \A w \in Workers : pc[w] \notin {"idle", "gone"} => state[cur[w]] # "absent"
  /\ \A j \in Jobs : state[j] # "absent" /\ KindOf[j] = "remove" => asked[j] # 0
  /\ \A j \in Jobs : state[j] # "absent" /\ KindOf[j] = "admin" => admin[j] # "none"
  /\ \A j \in Jobs : asked[j] <= uploads[SlugOf[j]]
  /\ \A s \in Slugs : row[s] <= uploads[s]
  /\ \A w \in Workers : hpc[w] # "none" => PlaceOK(w)

WikiInv == QP!TypeInv /\ Types /\ Shape

LEMMA InContents ==
  ASSUME NEW S \in SUBSET Pages, NEW f \in [S -> SUBSET Slugs]
  PROVE  f \in Contents
  BY DEF Contents

LEMMA OfContents ==
  ASSUME NEW f \in Contents
  PROVE  DOMAIN f \in SUBSET Pages /\ f \in [DOMAIN f -> SUBSET Slugs]
  BY DEF Contents

LEMMA RestrictContents ==
  ASSUME NEW f, NEW S \in SUBSET Pages, \A p \in S : f[p] \in SUBSET Slugs
  PROVE  Restrict(f, S) \in Contents
<1>1. Restrict(f, S) \in [S -> SUBSET Slugs]
  BY DEF Restrict
<1>. QED
  BY <1>1, InContents

LEMMA NothingContents == Nothing \in Contents
<1>1. Nothing \in [{} -> SUBSET Slugs]
  BY DEF Nothing
<1>. QED
  BY <1>1, InContents

LEMMA WikiInit == Init => WikiInv
<1> SUFFICES ASSUME Init PROVE WikiInv
  OBVIOUS
<1>1. 0 \in Uploads /\ 1 \in Uploads /\ "none" \in Places
  BY RemovalAssumption DEF Uploads, Places
<1>2. Types
  BY <1>1, NothingContents, RemovalAssumption DEF Init, Types
<1>3. Shape
  BY RemovalAssumption DEF Init, Shape, Q!Init
<1>. QED
  BY <1>2, <1>3, QueueInit DEF WikiInv

\* What a handler's step leaves alone.
LEMMA HandlerFrame ==
  ASSUME Types, NEW w \in Workers, Works(w)
  PROVE  /\ UNCHANGED <<queueVars, req, uploads, admin, asked>>
         /\ pc[w] = "handling" /\ hpc[w] # "none" /\ hpc'[w] # "none"
         /\ hpc' = [hpc EXCEPT ![w] = hpc'[w]]
         /\ \A x \in Workers : x # w =>
              hpc'[x] = hpc[x] /\ work'[x] = work[x] /\ gone'[x] = gone[x] /\ patched'[x] = patched[x]
<1>. USE DEF Types, At, Goto, Drop, Plan, SetStatus, rows, wiki, locals, history
<1>1. CASE Get(w)
  BY <1>1 DEF Get
<1>6. CASE WriteFile(w)
  BY <1>6 DEF WriteFile
<1>5. CASE Commit(w) \/ ReadTouched(w) \/ Upsert(w) \/ AllUpserted(w)
  BY <1>5 DEF Commit, ReadTouched, Upsert, AllUpserted
<1>2. CASE Distill(w) \/ MarkCommitted(w) \/ MarkDone(w) \/ PlanRemoval(w) \/ DeleteRow(w)
  BY <1>2 DEF Distill, MarkCommitted, MarkDone, PlanRemoval, DeleteRow
<1>3. CASE AllRowsDeleted(w) \/ EmbedFails(w) \/ DeleteBlob(w) \/ DeleteSourceRow(w)
  BY <1>3 DEF AllRowsDeleted, EmbedFails, DeleteBlob, DeleteSourceRow, AfterRows, AfterBlob
<1>4. CASE ListPages(w) \/ ClearRow(w) \/ ReadBatch(w) \/ SkipPage(w)
  BY <1>4 DEF ListPages, ClearRow, ReadBatch, SkipPage
<1>. QED
  BY <1>1, <1>2, <1>3, <1>4, <1>5, <1>6 DEF Works

LEMMA SameHand ==
  ASSUME NEW w \in Workers, UNCHANGED <<cur, admin>>
  PROVE  Kind(w)' = Kind(w) /\ Src(w)' = Src(w)
  BY DEF Kind, Src

LEMMA InHand ==
  ASSUME WikiInv, NEW w \in Workers, pc[w] \notin {"idle", "gone"}
  PROVE  cur[w] \in Jobs /\ Src(w) \in Slugs /\ state[cur[w]] # "absent"
  BY QueueFacts, RemovalAssumption DEF WikiInv, Shape, Src

\* A handler goes where its kind may be.
LEMMA PlacesKept ==
  ASSUME WikiInv, NEW w \in Workers, Works(w)
  PROVE  PlaceOK(w)' /\ hpc'[w] \in Places
<1>. Types /\ Shape
  BY DEF WikiInv
<1>1. Kind(w)' = Kind(w) /\ hpc[w] # "none" /\ PlaceOK(w)
  BY HandlerFrame, SameHand DEF queueVars, Shape
<1>. USE DEF PlaceOK, IngestPlaces, RemovePlaces, ReembedPlaces, LintPlaces, Places, At, Goto, Types
<1>2. CASE Get(w)
  BY <1>1, <1>2 DEF Get
<1>3. CASE WriteFile(w)
  BY <1>1, <1>3 DEF WriteFile
<1>4. CASE Commit(w)
  BY <1>1, <1>4 DEF Commit
<1>5. CASE ReadTouched(w) \/ ReadBatch(w)
  BY <1>1, <1>5 DEF ReadTouched, ReadBatch
<1>6. CASE Upsert(w) \/ DeleteRow(w) \/ ClearRow(w) \/ SkipPage(w)
  BY <1>1, <1>6 DEF Upsert, DeleteRow, ClearRow, SkipPage
<1>7. CASE AllUpserted(w)
  BY <1>1, <1>7 DEF AllUpserted
<1>8. CASE Distill(w) \/ MarkCommitted(w) \/ MarkDone(w)
  BY <1>1, <1>8 DEF Distill, MarkCommitted, MarkDone
<1>9. CASE PlanRemoval(w) \/ AllRowsDeleted(w) \/ EmbedFails(w)
  BY <1>1, <1>9 DEF PlanRemoval, AllRowsDeleted, AfterRows, EmbedFails
<1>10. CASE DeleteBlob(w) \/ DeleteSourceRow(w) \/ ListPages(w)
  BY <1>1, <1>10 DEF DeleteBlob, AfterBlob, DeleteSourceRow, ListPages
<1>. QED
  BY <1>2, <1>3, <1>4, <1>5, <1>6, <1>7, <1>8, <1>9, <1>10 DEF Works

\* Work in progress stays work on pages.
LEMMA WorkTyped ==
  ASSUME WikiInv, NEW w \in Workers, Works(w)
  PROVE  work' \in [Workers -> Contents]
<1>. Types
  BY DEF WikiInv
<1>1. tree \in [Pages -> SUBSET Slugs] /\ work \in [Workers -> Contents]
  BY DEF Types
<1>2. work[w] \in Contents /\ Todo(w) \in SUBSET Pages /\ \A p \in Todo(w) : work[w][p] \in SUBSET Slugs
  BY <1>1, OfContents DEF Todo
<1>3. Src(w) \in Slugs
  BY HandlerFrame, InHand
<1>4. ASSUME NEW p, Drop(w, p) PROVE work' \in [Workers -> Contents]
  <2>1. Restrict(work[w], Todo(w) \ {p}) \in Contents
    BY <1>2, RestrictContents
  <2>. QED
    BY <1>1, <1>4, <2>1 DEF Drop
<1>5. ASSUME NEW f \in Contents, work' = [work EXCEPT ![w] = f] PROVE work' \in [Workers -> Contents]
  BY <1>1, <1>5
<1>6. CASE WriteFile(w) \/ Upsert(w) \/ SkipPage(w)
  BY <1>4, <1>6 DEF WriteFile, Upsert, SkipPage
<1>7. CASE ReadTouched(w) \/ ReadBatch(w)
  <2>1. PICK S \in SUBSET Pages : work' = [work EXCEPT ![w] = Restrict(tree, S)]
    BY <1>7 DEF ReadTouched, ReadBatch, Batch, Types
  <2>2. Restrict(tree, S) \in Contents
    BY <1>1, RestrictContents
  <2>. QED
    BY <1>5, <2>1, <2>2
<1>8. CASE Distill(w)
  <2>1. PICK S \in SUBSET Pages : Plan(w, S)
    BY <1>8 DEF Distill
  <2>2. PICK c \in [S -> {C \in Citings : C \subseteq Seen(w)}] : work' = [work EXCEPT ![w] = c]
    BY <2>1 DEF Plan
  <2>3. c \in [S -> SUBSET Slugs]
    BY <2>2, RemovalAssumption
  <2>. QED
    BY <1>5, <2>1, <2>2, <2>3, InContents
<1>9. CASE PlanRemoval(w)
  <2>. DEFINE A == Affected(Src(w))
  <2>1. work' = [work EXCEPT ![w] = [p \in A |-> IF Shared(p, Src(w)) THEN tree[p] \ {Src(w)} ELSE {}]]
    BY <1>9 DEF PlanRemoval
  <2>2. A \in SUBSET Pages
    BY DEF Affected
  <2>3. [p \in A |-> IF Shared(p, Src(w)) THEN tree[p] \ {Src(w)} ELSE {}] \in [A -> SUBSET Slugs]
    BY <1>1, <2>2
  <2>. QED
    BY <1>5, <2>1, <2>2, <2>3, InContents
<1>10. CASE EmbedFails(w)
  BY <1>5, <1>10, NothingContents DEF EmbedFails
<1>11. CASE Get(w) \/ Commit(w) \/ AllUpserted(w) \/ MarkCommitted(w) \/ MarkDone(w) \/ DeleteRow(w)
            \/ AllRowsDeleted(w) \/ DeleteBlob(w) \/ DeleteSourceRow(w) \/ ListPages(w) \/ ClearRow(w)
  BY <1>1, <1>11 DEF Get, Commit, AllUpserted, MarkCommitted, MarkDone, DeleteRow, AllRowsDeleted,
                     DeleteBlob, DeleteSourceRow, ListPages, ClearRow, locals
<1>. QED
  BY <1>6, <1>7, <1>8, <1>9, <1>10, <1>11 DEF Works

LEMMA HandlerTypes ==
  ASSUME WikiInv, NEW w \in Workers, Works(w)
  PROVE  Types'
<1>. Types
  BY DEF WikiInv
<1>1. Src(w) \in Slugs
  BY HandlerFrame, InHand
<1>2. \A p \in Todo(w) : p \in Pages /\ work[w][p] \in SUBSET Slugs
  BY OfContents DEF Types, Todo
<1>3. 0 \in Uploads
  BY RemovalAssumption DEF Uploads
<1>4. /\ work' \in [Workers -> Contents] /\ hpc' \in [Workers -> Places]
      /\ UNCHANGED <<req, uploads, admin, asked>>
  BY WorkTyped, HandlerFrame, PlacesKept DEF Types
<1>5. CASE Get(w) \/ ReadTouched(w) \/ AllUpserted(w) \/ AllRowsDeleted(w) \/ ReadBatch(w)
  BY <1>4, <1>5 DEF Types, Get, ReadTouched, AllUpserted, AllRowsDeleted, ReadBatch, rows, wiki, locals, history
<1>6. CASE WriteFile(w) \/ Commit(w)
  <2>1. CASE WriteFile(w)
    BY <1>2, <1>4, <2>1 DEF Types, WriteFile, rows
  <2>2. CASE Commit(w)
    BY <1>4, <2>2 DEF Types, Commit, rows, locals, history
  <2>. QED
    BY <1>6, <2>1, <2>2
<1>7. CASE Upsert(w)
  BY <1>2, <1>4, <1>7 DEF Types, Upsert, rows, wiki
<1>8. CASE Distill(w) \/ PlanRemoval(w)
  <2>1. UNCHANGED <<rows, wiki, index, history>>
    BY <1>8 DEF Distill, PlanRemoval
  <2>2. patched' \in [Workers -> SUBSET Pages] /\ gone' \in [Workers -> SUBSET Pages]
    BY <1>8 DEF Types, Distill, Plan, PlanRemoval, Affected
  <2>. QED
    BY <1>4, <2>1, <2>2 DEF Types, rows, wiki, history
<1>9. CASE MarkCommitted(w) \/ MarkDone(w)
  BY <1>1, <1>4, <1>9 DEF Types, MarkCommitted, MarkDone, SetStatus, wiki, locals, history
<1>10. CASE DeleteRow(w) \/ EmbedFails(w)
  BY <1>1, <1>4, <1>10 DEF Types, DeleteRow, EmbedFails, rows, wiki
<1>11. CASE DeleteBlob(w) \/ DeleteSourceRow(w)
  BY <1>1, <1>3, <1>4, <1>11 DEF Types, DeleteBlob, DeleteSourceRow, wiki, locals, history
<1>12. CASE ListPages(w) \/ ClearRow(w) \/ SkipPage(w)
  BY <1>2, <1>4, <1>12 DEF Types, ListPages, ClearRow, SkipPage, rows, wiki, history
<1>. QED
  BY <1>5, <1>6, <1>7, <1>8, <1>9, <1>10, <1>11, <1>12 DEF Works

LEMMA HandlerShape ==
  ASSUME WikiInv, NEW w \in Workers, Works(w)
  PROVE  Shape'
<1>. Types /\ Shape
  BY DEF WikiInv
<1>1. /\ UNCHANGED <<state, pc, cur, uploads, admin, asked>> /\ pc[w] = "handling" /\ hpc'[w] # "none"
      /\ \A x \in Workers : x # w => hpc'[x] = hpc[x]
  BY HandlerFrame DEF queueVars
<1>2. \A s \in Slugs : row'[s] <= uploads[s]
  <2>1. CASE DeleteSourceRow(w)
    BY <2>1, InHand, HandlerFrame DEF DeleteSourceRow, Shape, Types, Uploads
  <2>2. CASE ~DeleteSourceRow(w)
    <3>1. row' = row
      BY <2>2 DEF Works, Get, WriteFile, Commit, ReadTouched, Upsert, AllUpserted, Distill, MarkCommitted,
                  MarkDone, PlanRemoval, DeleteRow, AllRowsDeleted, EmbedFails, DeleteBlob,
                  ListPages, ClearRow, ReadBatch, SkipPage, rows
    <3>. QED
      BY <3>1 DEF Shape
  <2>. QED
    BY <2>1, <2>2
<1>3. \A x \in Workers : x # w /\ hpc[x] # "none" => PlaceOK(x)'
  BY <1>1, SameHand DEF Shape, PlaceOK
<1>4. PlaceOK(w)'
  BY PlacesKept
<1>. QED
  BY <1>1, <1>2, <1>3, <1>4 DEF Shape

\* What the end of a handler and the steps of its loop leave alone.
LEMMA EndFrame ==
  ASSUME WikiInv, NEW w \in Workers, Ends(w)
  PROVE  /\ UNCHANGED <<state, rows, wiki, index, asked, missed, skipped, dropped>>
         /\ pc[w] = "handling" /\ pc'[w] \in {"returned_ok", "returned_err", "gone"} /\ hpc'[w] = "none"
         /\ pc'[w] # "gone" => cur'[w] = cur[w]
         /\ \A x \in Workers : x # w => pc'[x] = pc[x] /\ cur'[x] = cur[x] /\ hpc'[x] = hpc[x]
              /\ work'[x] = work[x] /\ gone'[x] = gone[x] /\ patched'[x] = patched[x]
         /\ pc'[w] = "returned_ok" => hpc[w] = "stop"
         /\ Forget({w})
<1>1. pc \in [Workers -> Q!Pcs] /\ cur \in [Workers -> Jobs \cup {NoJob}]
  BY QueueFacts DEF WikiInv
<1>2. Forget({w}) /\ UNCHANGED <<rows, wiki, index, asked, missed, skipped, dropped>> /\ pc[w] = "handling"
  BY DEF Ends, Stop, HandlerFails, Panic, Q!Panic, At
<1>3. hpc'[w] = "none" /\ \A x \in Workers : x # w =>
        hpc'[x] = hpc[x] /\ work'[x] = work[x] /\ gone'[x] = gone[x] /\ patched'[x] = patched[x]
  BY <1>2 DEF Forget
<1>4. UNCHANGED state /\ pc'[w] \in {"returned_ok", "returned_err", "gone"} /\ (pc'[w] # "gone" => cur'[w] = cur[w])
      /\ (pc'[w] = "returned_ok" => hpc[w] = "stop")
  BY <1>1 DEF Ends, Stop, HandlerFails, Panic, Q!HandlerReturns, Q!Panic, Q!rows, At
<1>5. \A x \in Workers : x # w => pc'[x] = pc[x] /\ cur'[x] = cur[x]
  BY <1>1 DEF Ends, Stop, HandlerFails, Panic, Q!HandlerReturns, Q!Panic
<1>. QED
  BY <1>2, <1>3, <1>4, <1>5

LEMMA LoopFrame ==
  ASSUME WikiInv, NEW w \in Workers, Loops(w)
  PROVE  /\ UNCHANGED <<row, blob, req, uploads, admin, wiki, index, locals, history>>
         /\ hpc[w] = "none"
         /\ \A x \in Workers : x # w => pc'[x] = pc[x] /\ cur'[x] = cur[x] /\ hpc'[x] = hpc[x]
         /\ \A j \in Jobs : state[j] # "absent" <=> state'[j] # "absent"
         /\ \/ hpc'[w] = "none" /\ pc'[w] # "handling" /\ pc'[w] # "returned_ok"
               /\ (pc'[w] \notin {"idle", "gone"} => cur'[w] = cur[w] /\ pc[w] \notin {"idle", "gone"})
            \/ hpc'[w] = "get" /\ pc'[w] = "handling" /\ cur'[w] \in Jobs /\ state'[cur'[w]] # "absent"
<1>. Types /\ Shape
  BY DEF WikiInv
<1>1. /\ state \in [Jobs -> Q!States] /\ pc \in [Workers -> Q!Pcs] /\ cur \in [Workers -> Jobs \cup {NoJob}]
      /\ \A x \in Workers : pc[x] \notin {"idle", "gone"} => cur[x] \in Jobs
  BY QueueFacts DEF WikiInv
<1>2. ASSUME NEW j \in Jobs, Claim(w, j)
      PROVE  /\ UNCHANGED <<rows, wiki, index, locals, history>> /\ pc[w] = "idle" /\ state[j] # "absent"
             /\ state' = [state EXCEPT ![j] = "running"] /\ pc' = [pc EXCEPT ![w] = "handling"]
             /\ cur' = [cur EXCEPT ![w] = j] /\ hpc' = [hpc EXCEPT ![w] = "get"]
  BY <1>2 DEF Claim, Q!Claim, Q!Claimable, Goto
<1>3. ASSUME NEW j \in Jobs, Claim(w, j)
      PROVE  /\ hpc'[w] = "get" /\ pc'[w] = "handling" /\ cur'[w] = j /\ state'[j] # "absent" /\ hpc[w] = "none"
             /\ \A x \in Workers : x # w => pc'[x] = pc[x] /\ cur'[x] = cur[x] /\ hpc'[x] = hpc[x]
             /\ \A i \in Jobs : state[i] # "absent" <=> state'[i] # "absent"
  BY <1>1, <1>2, <1>3 DEF Types, Shape
<1>4. CASE \E j \in Jobs : Claim(w, j)
  <2>1. PICK j \in Jobs : Claim(w, j)
    BY <1>4
  <2>. QED
    BY <1>2, <1>3, <2>1 DEF rows
<1>5. CASE Settle(w) \/ MarkSourceFailed(w)
  <2>1. /\ UNCHANGED <<row, blob, req, uploads, admin, wiki, index, hpc, locals, history>>
        /\ pc[w] \in {"returned_ok", "returned_err", "marking"}
    BY <1>5 DEF Settle, MarkSourceFailed, Q!CompleteJob, Q!FailJob, Q!VerdictLost, Q!MarkSourceFailed, rows
  <2>2. cur[w] \in Jobs /\ state[cur[w]] # "absent" /\ hpc[w] = "none"
    BY <1>1, <2>1 DEF Shape
  <2>3. state' = state \/ \E st \in {"done", "dead", "queued"} : state' = [state EXCEPT ![cur[w]] = st]
    BY <1>5 DEF Settle, MarkSourceFailed, Q!CompleteJob, Q!FailJob, Q!VerdictLost, Q!MarkSourceFailed,
                Q!Verdict, Q!rows
  <2>4. \/ pc' = [pc EXCEPT ![w] = "marking"] /\ cur' = cur
        \/ pc' = [pc EXCEPT ![w] = "idle"] /\ cur' = [cur EXCEPT ![w] = NoJob]
    BY <1>5 DEF Settle, MarkSourceFailed, Q!CompleteJob, Q!FailJob, Q!VerdictLost, Q!MarkSourceFailed, Q!Idle
  <2>5. \A j \in Jobs : state[j] # "absent" <=> state'[j] # "absent"
    BY <1>1, <2>2, <2>3
  <2>. QED
    BY <1>1, <2>1, <2>2, <2>4, <2>5
<1>. QED
  BY <1>4, <1>5 DEF Loops

LEMMA LoopTypes ==
  ASSUME WikiInv, NEW w \in Workers, Loops(w)
  PROVE  Types'
<1>. Types
  BY DEF WikiInv
<1>1. UNCHANGED <<row, blob, req, uploads, admin, wiki, index, locals, history>>
  BY LoopFrame
<1>2. hpc' \in [Workers -> Places]
  BY DEF Types, Loops, Claim, Settle, MarkSourceFailed, Goto, Places
<1>3. /\ status' \in [Slugs -> {"none", "pending", "committed", "done", "failed"}]
      /\ \A s \in Slugs : row[s] = 0 <=> status'[s] = "none"
  <2>1. CASE MarkSourceFailed(w)
    <3>1. Src(w) \in Slugs
      BY <2>1, InHand DEF MarkSourceFailed, Q!MarkSourceFailed
    <3>. QED
      BY <2>1, <3>1 DEF Types, MarkSourceFailed, SetStatus
  <2>2. CASE (\E j \in Jobs : Claim(w, j)) \/ Settle(w)
    BY <2>2 DEF Types, Claim, Settle, rows
  <2>. QED
    BY <2>1, <2>2 DEF Loops
<1>. QED
  BY <1>1, <1>2, <1>3 DEF Types, wiki, locals, history

LEMMA LoopShape ==
  ASSUME WikiInv, NEW w \in Workers, Loops(w)
  PROVE  Shape'
<1>. Types /\ Shape
  BY DEF WikiInv
<1>. DEFINE Frame ==
      /\ UNCHANGED <<row, uploads, admin, asked>>
      /\ hpc[w] = "none"
      /\ \A x \in Workers : x # w => pc'[x] = pc[x] /\ cur'[x] = cur[x] /\ hpc'[x] = hpc[x]
      /\ \A j \in Jobs : state[j] # "absent" <=> state'[j] # "absent"
      /\ \/ hpc'[w] = "none" /\ pc'[w] # "handling"
            /\ (pc'[w] \notin {"idle", "gone"} => cur'[w] = cur[w] /\ pc[w] \notin {"idle", "gone"})
         \/ hpc'[w] = "get" /\ pc'[w] = "handling" /\ cur'[w] \in Jobs /\ state'[cur'[w]] # "absent"
<1>1. Frame
  BY LoopFrame DEF history
<1>2. \A x \in Workers : pc[x] \notin {"idle", "gone"} => cur[x] \in Jobs
  BY QueueFacts DEF WikiInv
<1>3. \A x \in Workers : hpc'[x] # "none" <=> pc'[x] = "handling"
  BY <1>1 DEF Shape
<1>4. \A x \in Workers : pc'[x] \notin {"idle", "gone"} => state'[cur'[x]] # "absent"
  BY <1>1, <1>2 DEF Shape
<1>5. /\ \A j \in Jobs : state'[j] # "absent" /\ KindOf[j] = "remove" => asked'[j] # 0
      /\ \A j \in Jobs : state'[j] # "absent" /\ KindOf[j] = "admin" => admin'[j] # "none"
      /\ \A j \in Jobs : asked'[j] <= uploads'[SlugOf[j]]
      /\ \A s \in Slugs : row'[s] <= uploads'[s]
  BY <1>1 DEF Shape
<1>6. ASSUME NEW x \in Workers, hpc'[x] # "none" PROVE PlaceOK(x)'
  <2>1. CASE x # w
    BY <1>1, <1>6, <2>1 DEF Shape, PlaceOK, Kind
  <2>2. CASE x = w
    <3>1. PICK j \in Jobs : j = cur'[w] /\ state'[j] # "absent"
      BY <1>1, <1>6, <2>2
    <3>2. hpc'[w] = "get" /\ admin' = admin
      BY <1>1, <1>6, <2>2
    <3>3. Kind(w)' = IF KindOf[j] = "admin" THEN admin[j] ELSE KindOf[j]
      BY <3>1, <3>2 DEF Kind
    <3>4. KindOf[j] = "admin" => admin[j] # "none"
      BY <1>1, <3>1 DEF Shape
    <3>5. Kind(w)' \in {"ingest", "remove", "reembed", "lint"}
      BY <3>3, <3>4, RemovalAssumption DEF Types
    <3>. QED
      BY <2>2, <3>2, <3>5 DEF PlaceOK, IngestPlaces, RemovePlaces, ReembedPlaces, LintPlaces
  <2>. QED
    BY <2>1, <2>2
<1>. HIDE DEF Frame
<1>. QED
  BY <1>3, <1>4, <1>5, <1>6 DEF Shape

LEMMA ForgetTypes ==
  ASSUME Types, NEW W \in SUBSET Workers, Forget(W), UNCHANGED <<row, blob, status, uploads, admin, wiki, index,
         asked, missed, skipped, dropped>>, req' \in [Slugs -> {"none", "put", "enqueue"}],
         \A w \in W : pc[w] = "handling" => Src(w) \in Slugs
  PROVE  Types'
<1>1. Nothing \in Contents /\ "none" \in Places
  BY NothingContents DEF Places
<1>2. Tears(W) \subseteq Slugs
  BY DEF Tears
<1>. QED
  BY <1>1, <1>2 DEF Types, Forget, wiki

LEMMA EndKeeps ==
  ASSUME WikiInv, NEW w \in Workers, Ends(w)
  PROVE  Types' /\ Shape'
<1>. Types /\ Shape
  BY DEF WikiInv
<1>0. /\ UNCHANGED <<state, row, blob, status, req, uploads, admin, wiki, index, asked, missed, skipped,
                   dropped>>
      /\ pc[w] = "handling" /\ hpc'[w] = "none" /\ (pc'[w] # "gone" => cur'[w] = cur[w])
      /\ \A x \in Workers : x # w => pc'[x] = pc[x] /\ cur'[x] = cur[x] /\ hpc'[x] = hpc[x]
      /\ Forget({w})
  BY EndFrame DEF rows
<1>1. Types'
  <2>1. \A x \in {w} : Src(x) \in Slugs
    BY <1>0, InHand
  <2>2. req' \in [Slugs -> {"none", "put", "enqueue"}]
    BY <1>0 DEF Types
  <2>. QED
    BY <1>0, <2>1, <2>2, ForgetTypes
<1>2. \A x \in Workers : hpc'[x] # "none" <=> pc'[x] = "handling"
  BY EndFrame DEF Shape
<1>3. \A x \in Workers : pc'[x] \notin {"idle", "gone"} => state'[cur'[x]] # "absent"
  BY <1>0 DEF Shape
<1>4. \A x \in Workers : hpc'[x] # "none" => PlaceOK(x)'
  BY <1>0 DEF Shape, PlaceOK, Kind
<1>5. UNCHANGED <<state, row, uploads, admin, asked>>
  BY EndFrame DEF rows
<1>. QED
  BY <1>1, <1>2, <1>3, <1>4, <1>5 DEF Shape

\* The steps of requests and of time begin no handler and end none.
LEMMA OutsideFrame ==
  ASSUME WikiInv, Requests \/ (\E j \in Jobs : DeleteSource(j) \/ AdminJob(j) \/ Time(j))
  PROVE  /\ UNCHANGED <<pc, cur, wiki, index, hpc, locals, torn, missed, skipped, dropped>>
         /\ \A j \in Jobs : state[j] # "absent" =>
              state'[j] = state[j] /\ asked'[j] = asked[j] /\ admin'[j] = admin[j]
         /\ \A s \in Slugs : \/ row'[s] = row[s] /\ uploads'[s] = uploads[s]
                             \/ row[s] = 0 /\ row'[s] = uploads'[s] /\ uploads'[s] = uploads[s] + 1
         /\ \A j \in Jobs : state'[j] = "done" => state[j] = "done"
<1>. Types
  BY DEF WikiInv
<1>1. state \in [Jobs -> Q!States]
  BY QueueFacts DEF WikiInv
<1>2. CASE Requests
  <2>1. ASSUME NEW s \in Slugs, UploadInsert(s) \/ UploadPut(s)
        PROVE  /\ UNCHANGED <<pc, cur, state, wiki, index, hpc, locals, history, admin>>
               /\ \/ row' = row /\ uploads' = uploads
                  \/ /\ row[s] = 0 /\ uploads' = [uploads EXCEPT ![s] = @ + 1]
                     /\ row' = [row EXCEPT ![s] = uploads'[s]]
    BY <2>1 DEF UploadInsert, UploadPut, queueVars
  <2>2. ASSUME NEW s \in Slugs, UploadEnqueue(s)
        PROVE  /\ UNCHANGED <<pc, cur, wiki, index, hpc, locals, history, admin, row, uploads>>
               /\ \E j \in Jobs : state[j] = "absent" /\ state' = [state EXCEPT ![j] = "queued"]
    BY <2>2 DEF UploadEnqueue, Q!Enqueue, Q!loop
  <2>3. PICK s \in Slugs : UploadInsert(s) \/ UploadPut(s) \/ UploadEnqueue(s)
    BY <1>2 DEF Requests
  <2>4. CASE UploadInsert(s) \/ UploadPut(s)
    BY <2>1, <2>4 DEF Types, history
  <2>5. CASE UploadEnqueue(s)
    BY <1>1, <2>2, <2>5 DEF history
  <2>. QED
    BY <2>3, <2>4, <2>5
<1>3. ASSUME NEW j \in Jobs, DeleteSource(j) \/ AdminJob(j)
      PROVE  /\ UNCHANGED <<pc, cur, wiki, index, hpc, locals, torn, missed, skipped, dropped, row, uploads>>
             /\ state[j] = "absent" /\ state' = [state EXCEPT ![j] = "queued"]
             /\ asked' = asked \/ asked' = [asked EXCEPT ![j] = row[SlugOf[j]]]
             /\ admin' = admin \/ \E k \in {"reembed", "lint"} : admin' = [admin EXCEPT ![j] = k]
  BY <1>3 DEF DeleteSource, AdminJob, Q!Enqueue, Q!loop, rows, history
<1>4. CASE \E j \in Jobs : DeleteSource(j) \/ AdminJob(j)
  <2>1. PICK j \in Jobs : DeleteSource(j) \/ AdminJob(j)
    BY <1>4
  <2>2. \A s \in Slugs : row'[s] = row[s] /\ uploads'[s] = uploads[s]
    BY <1>3, <2>1
  <2>3. \A i \in Jobs : i # j => state'[i] = state[i] /\ asked'[i] = asked[i] /\ admin'[i] = admin[i]
    BY <1>1, <1>3, <2>1 DEF Types
  <2>4. state[j] = "absent" /\ state'[j] = "queued"
    BY <1>1, <1>3, <2>1
  <2>. QED
    BY <1>3, <2>1, <2>2, <2>3, <2>4
<1>5. CASE \E j \in Jobs : Time(j)
  <2>1. UNCHANGED <<pc, cur, state, wiki, index, hpc, locals, history, row, uploads, admin>>
    BY <1>5 DEF Time, Q!DelayElapses, Q!LeaseLapses, Q!LeaseOverrun, Q!loop, rows
  <2>. QED
    BY <2>1 DEF history
<1>. QED
  BY <1>2, <1>4, <1>5

LEMMA OutsideTypes ==
  ASSUME WikiInv, Requests \/ (\E j \in Jobs : DeleteSource(j) \/ AdminJob(j) \/ Time(j))
  PROVE  Types'
<1>. Types /\ Shape
  BY DEF WikiInv
<1>1. ASSUME NEW s \in Slugs, UploadInsert(s) PROVE Types'
  <2>1. uploads[s] + 1 \in Uploads /\ uploads[s] + 1 # 0
    BY <1>1, RemovalAssumption DEF Types, UploadInsert, Uploads
  <2>2. row' = [row EXCEPT ![s] = uploads[s] + 1] /\ uploads' = [uploads EXCEPT ![s] = uploads[s] + 1]
    BY <1>1 DEF Types, UploadInsert
  <2>. QED
    BY <1>1, <2>1, <2>2 DEF Types, UploadInsert, wiki, locals, history
<1>2. ASSUME NEW s \in Slugs, UploadPut(s) \/ UploadEnqueue(s) PROVE Types'
  <2>1. /\ UNCHANGED <<row, status, uploads, admin, wiki, index, hpc, locals, history>>
        /\ blob' \in [Slugs -> Uploads] /\ req' \in [Slugs -> {"none", "put", "enqueue"}]
    BY <1>2 DEF Types, UploadPut, UploadEnqueue
  <2>. QED
    BY <2>1 DEF Types, wiki, locals, history
<1>3. ASSUME NEW j \in Jobs, DeleteSource(j) PROVE Types'
  <2>1. /\ asked' = [asked EXCEPT ![j] = row[SlugOf[j]]]
        /\ UNCHANGED <<rows, wiki, index, hpc, locals, torn, missed, skipped, dropped>>
    BY <1>3 DEF DeleteSource
  <2>2. SlugOf[j] \in Slugs
    BY RemovalAssumption
  <2>3. asked' \in [Jobs -> Uploads]
    BY <2>1, <2>2 DEF Types
  <2>. QED
    BY <2>1, <2>3 DEF Types, rows, wiki, locals
<1>4. ASSUME NEW j \in Jobs, AdminJob(j) PROVE Types'
  BY <1>4 DEF Types, AdminJob, wiki, locals, history
<1>5. ASSUME NEW j \in Jobs, Time(j) PROVE Types'
  BY <1>5 DEF Types, Time, rows, wiki, locals, history
<1>. QED
  BY <1>1, <1>2, <1>3, <1>4, <1>5 DEF Requests

LEMMA OutsideShape ==
  ASSUME WikiInv, Requests \/ (\E j \in Jobs : DeleteSource(j) \/ AdminJob(j) \/ Time(j))
  PROVE  Shape'
<1>. Types /\ Shape
  BY DEF WikiInv
<1>1. UNCHANGED <<pc, cur, hpc>>
  BY OutsideFrame DEF locals
<1>2. \A j \in Jobs : state[j] # "absent" =>
        state'[j] = state[j] /\ asked'[j] = asked[j] /\ admin'[j] = admin[j]
  BY OutsideFrame
<1>3. \A s \in Slugs : /\ row[s] \in Nat /\ uploads[s] \in Nat
                       /\ \/ row'[s] = row[s] /\ uploads'[s] = uploads[s]
                          \/ row[s] = 0 /\ row'[s] = uploads'[s] /\ uploads'[s] = uploads[s] + 1
  BY OutsideFrame DEF Types, Uploads
<1>4. \A x \in Workers : pc[x] \notin {"idle", "gone"} => cur[x] \in Jobs /\ state[cur[x]] # "absent"
  BY InHand
<1>5. \A x \in Workers : hpc'[x] # "none" <=> pc'[x] = "handling"
  BY <1>1 DEF Shape
<1>6. \A x \in Workers : pc'[x] \notin {"idle", "gone"} => state'[cur'[x]] # "absent"
  BY <1>1, <1>2, <1>4
<1>7. \A x \in Workers : hpc'[x] # "none" => PlaceOK(x)'
  BY <1>1, <1>2, <1>4 DEF Shape, PlaceOK, Kind
<1>8. \A s \in Slugs : row'[s] <= uploads'[s]
  BY <1>3 DEF Shape
<1>9. ASSUME NEW j \in Jobs
      PROVE  /\ asked'[j] <= uploads'[SlugOf[j]]
             /\ state'[j] # "absent" /\ KindOf[j] = "remove" => asked'[j] # 0
             /\ state'[j] # "absent" /\ KindOf[j] = "admin" => admin'[j] # "none"
  <2>1. SlugOf[j] \in Slugs /\ asked[j] \in Nat /\ row[SlugOf[j]] \in Nat
    BY RemovalAssumption DEF Types, Uploads
  <2>2. asked'[j] = asked[j] \/ (asked'[j] = row[SlugOf[j]] /\ row' = row)
    BY DEF Types, Requests, UploadInsert, UploadPut, UploadEnqueue, DeleteSource, AdminJob, Time, history, rows
  <2>3. asked'[j] <= uploads'[SlugOf[j]]
    BY <1>3, <2>1, <2>2 DEF Shape
  <2>4. CASE state[j] # "absent"
    BY <1>2, <2>3, <2>4 DEF Shape
  <2>5. CASE state[j] = "absent" /\ state'[j] # "absent"
    <3>1. state \in [Jobs -> Q!States]
      BY QueueFacts DEF WikiInv
    <3>2. ASSUME NEW i \in Jobs, Q!Enqueue(i) PROVE i = j
      BY <2>5, <3>1, <3>2 DEF Q!Enqueue
    <3>3. CASE Requests
      BY <2>3, <2>5, <3>2, <3>3 DEF Requests, UploadInsert, UploadPut, UploadEnqueue, queueVars
    <3>4. CASE \E i \in Jobs : DeleteSource(i) \/ AdminJob(i) \/ Time(i)
      <4>1. PICK i \in Jobs : DeleteSource(i) \/ AdminJob(i)
        BY <2>5, <3>4 DEF Time, Q!DelayElapses, Q!LeaseLapses, Q!LeaseOverrun
      <4>2. i = j
        BY <3>2, <4>1 DEF DeleteSource, AdminJob
      <4>3. KindOf[j] = "remove" => asked'[j] # 0
        BY <4>1, <4>2 DEF DeleteSource, AdminJob, Types
      <4>4. KindOf[j] = "admin" => admin'[j] # "none"
        BY <4>1, <4>2 DEF DeleteSource, AdminJob, Types
      <4>. QED
        BY <2>3, <4>3, <4>4
    <3>. QED
      BY <3>3, <3>4
  <2>. QED
    BY <2>3, <2>4, <2>5
<1>. QED
  BY <1>5, <1>6, <1>7, <1>8, <1>9 DEF Shape

LEMMA RestartFrame ==
  ASSUME WikiInv, Restart
  PROVE  /\ UNCHANGED <<state, row, blob, status, uploads, admin, wiki, index, asked, missed, skipped, dropped>>
         /\ \A x \in Workers : hpc'[x] = "none" /\ pc'[x] = "idle"
         /\ Forget(Workers)
  BY DEF Restart, Q!Restart, Q!rows, Forget

LEMMA WikiNext == WikiInv /\ [Next]_vars => WikiInv'
<1> SUFFICES ASSUME WikiInv, [Next]_vars PROVE WikiInv'
  OBVIOUS
<1>. Types /\ Shape
  BY DEF WikiInv
<1> SUFFICES Types' /\ Shape'
  BY QueueNext DEF WikiInv
<1>1. CASE UNCHANGED vars
  BY <1>1 DEF vars, queueVars, rows, wiki, locals, history, Types, Shape, PlaceOK, Kind
<1>2. CASE Requests \/ (\E j \in Jobs : DeleteSource(j) \/ AdminJob(j) \/ Time(j))
  BY <1>2, OutsideTypes, OutsideShape
<1>3. CASE Restart
  <2>1. req' \in [Slugs -> {"none", "put", "enqueue"}]
    BY <1>3 DEF Restart
  <2>2. \A x \in Workers : pc[x] = "handling" => Src(x) \in Slugs
    BY InHand
  <2>3. Types'
    BY <1>3, <2>1, <2>2, RestartFrame, ForgetTypes
  <2>4. Shape'
    BY <1>3, RestartFrame DEF Shape
  <2>. QED
    BY <2>3, <2>4
<1>4. ASSUME NEW w \in Workers, Works(w) \/ Ends(w) \/ Loops(w) PROVE Types' /\ Shape'
  BY <1>4, HandlerTypes, HandlerShape, EndKeeps, LoopTypes, LoopShape
<1>. QED
  BY <1>1, <1>2, <1>3, <1>4, NextSteps

LEMMA WikiAlways == Spec => []WikiInv
  BY WikiInit, WikiNext, PTL DEF Spec

\* Every variable keeps its type, whatever number of workers, crashes and uploads.
THEOREM RemovalTypeCorrect == Spec => []TypeOK
<1>1. WikiInv => TypeOK
  BY QueueFacts DEF WikiInv, Types, TypeOK
<1>. QED
  BY <1>1, WikiAlways, PTL

-----------------------------------------------------------------------------
(* A removal that is done.  DoneMeansRemoved is not inductive: the job is  *)
(* done by a verdict, and the handler is out of hand before it.            *)

Removes(w, places) == hpc[w] \in places /\ Kind(w) = "remove"

\* A handler, or a loop waiting to complete the job, that has removed its source.
Removed(w) ==
  Removes(w, {"sweep", "stop"}) \/ (pc[w] = "returned_ok" /\ Kind(w) = "remove") => row[Src(w)] # asked[cur[w]]

DoneInv == DoneMeansRemoved /\ \A w \in Workers : Removed(w)

\* Once a row is gone or another's, it is not the one a job was asked to remove.
LEMMA GoneForGood ==
  ASSUME WikiInv, WikiInv', [Next]_vars, NEW j \in Jobs, KindOf[j] = "remove", state[j] # "absent",
         row[SlugOf[j]] # asked[j]
  PROVE  asked'[j] = asked[j] /\ row'[SlugOf[j]] # asked[j]
<1>. Types /\ Shape
  BY DEF WikiInv
<1>. DEFINE s == SlugOf[j]
<1>1. s \in Slugs /\ asked[j] \in Nat /\ row[s] \in Nat /\ uploads[s] \in Nat /\ asked[j] # 0 /\ asked[j] <= uploads[s]
  BY RemovalAssumption DEF Types, Shape, Uploads
<1>2. CASE Requests \/ (\E i \in Jobs : DeleteSource(i) \/ AdminJob(i) \/ Time(i))
  <2>1. asked'[j] = asked[j]
    BY <1>2, OutsideFrame
  <2>2. \/ row'[s] = row[s] /\ uploads'[s] = uploads[s]
        \/ row[s] = 0 /\ row'[s] = uploads'[s] /\ uploads'[s] = uploads[s] + 1
    BY <1>1, <1>2, OutsideFrame
  <2>. QED
    BY <1>1, <2>1, <2>2
<1>3. CASE Restart \/ UNCHANGED vars
  BY <1>3, RestartFrame DEF vars, rows, history
<1>4. ASSUME NEW w \in Workers, Ends(w) \/ Loops(w) PROVE asked'[j] = asked[j] /\ row'[s] # asked[j]
  BY <1>4, EndFrame, LoopFrame DEF rows, history
<1>5. ASSUME NEW w \in Workers, Works(w) PROVE asked'[j] = asked[j] /\ row'[s] # asked[j]
  <2>1. asked' = asked
    BY <1>5, HandlerFrame
  <2>2. row' = row \/ row' = [row EXCEPT ![Src(w)] = 0]
    BY <1>5 DEF Works, Get, WriteFile, Commit, ReadTouched, Upsert, AllUpserted, Distill, MarkCommitted,
                MarkDone, PlanRemoval, DeleteRow, AllRowsDeleted, EmbedFails, DeleteBlob, DeleteSourceRow,
                ListPages, ClearRow, ReadBatch, SkipPage, rows
  <2>. QED
    BY <1>1, <2>1, <2>2 DEF Types
<1>. QED
  BY <1>2, <1>3, <1>4, <1>5, NextSteps

\* The handler has removed the source once it is past the row, or found none.
LEMMA HandlerRemoves ==
  ASSUME WikiInv, NEW w \in Workers, Works(w), Removed(w), Removes(w, {"sweep", "stop"})'
  PROVE  row'[Src(w)] # asked[cur[w]]
<1>. Types /\ Shape
  BY DEF WikiInv
<1>1. /\ cur[w] \in Jobs /\ Src(w) \in Slugs /\ state[cur[w]] # "absent" /\ Kind(w)' = Kind(w)
      /\ PlaceOK(w) /\ hpc'[w] \in {"sweep", "stop"} /\ Kind(w) = "remove"
  BY HandlerFrame, InHand, SameHand DEF queueVars, Shape, Removes
<1>2. KindOf[cur[w]] = "remove"
  BY <1>1 DEF Kind, Types
<1>3. asked[cur[w]] # 0
  BY <1>1, <1>2 DEF Shape
<1>4. \/ Get(w) /\ row[Src(w)] = 0
      \/ DeleteBlob(w) /\ hpc[w] = "sweep"
      \/ DeleteSourceRow(w)
  BY <1>1 DEF Works, Get, WriteFile, Commit, ReadTouched, Upsert, AllUpserted, Distill, MarkCommitted,
              MarkDone, PlanRemoval, DeleteRow, AllRowsDeleted, EmbedFails, DeleteBlob, AfterBlob, AfterRows,
              ListPages, ClearRow, ReadBatch, SkipPage, At, Goto, PlaceOK, RemovePlaces, Types
<1>5. CASE Get(w) /\ row[Src(w)] = 0
  BY <1>3, <1>5 DEF Get, rows
<1>6. CASE DeleteBlob(w) /\ hpc[w] = "sweep"
  BY <1>1, <1>6 DEF Removed, Removes, DeleteBlob
<1>7. CASE DeleteSourceRow(w)
  BY <1>1, <1>3, <1>7 DEF DeleteSourceRow, Types
<1>. QED
  BY <1>4, <1>5, <1>6, <1>7

LEMMA DoneInit == Init => DoneInv
  BY DEF Init, Q!Init, DoneInv, DoneMeansRemoved, Removed, Removes

LEMMA DoneNext == WikiInv /\ WikiInv' /\ DoneInv /\ [Next]_vars => DoneInv'
<1> SUFFICES ASSUME WikiInv, WikiInv', DoneInv, [Next]_vars PROVE DoneInv'
  OBVIOUS
<1>. Types /\ Shape
  BY DEF WikiInv
<1>. DEFINE Out(w) == Removes(w, {"sweep", "stop"}) \/ (pc[w] = "returned_ok" /\ Kind(w) = "remove")
<1>1. ASSUME NEW w \in Workers, Out(w), UNCHANGED <<cur[w], admin[cur[w]]>> PROVE row'[Src(w)] # asked'[cur[w]]
  <2>1. PICK j \in Jobs : j = cur[w] /\ state[j] # "absent" /\ KindOf[j] = "remove"
    <3>1. pc[w] \notin {"idle", "gone"} /\ Kind(w) = "remove"
      BY <1>1 DEF Shape, Removes
    <3>2. cur[w] \in Jobs /\ state[cur[w]] # "absent"
      BY <3>1, InHand
    <3>. QED
      BY <3>1, <3>2 DEF Kind, Types
  <2>2. row[SlugOf[j]] # asked[j]
    BY <1>1, <2>1 DEF DoneInv, Removed, Src
  <2>3. asked'[j] = asked[j] /\ row'[SlugOf[j]] # asked[j]
    BY <2>1, <2>2, GoneForGood
  <2>. QED
    BY <2>1, <2>3 DEF Src
<1>2. ASSUME NEW w \in Workers, ~Works(w), Out(w)'
      PROVE  Out(w) /\ UNCHANGED <<cur[w], admin[cur[w]]>>
  <2>1. CASE UNCHANGED vars
    BY <1>2, <2>1 DEF vars, queueVars, rows, Removes, Kind
  <2>2. CASE Requests \/ (\E j \in Jobs : DeleteSource(j) \/ AdminJob(j) \/ Time(j))
    <3>1. UNCHANGED <<pc, cur, hpc>>
      BY <2>2, OutsideFrame DEF locals
    <3>2. cur[w] \in Jobs /\ state[cur[w]] # "absent"
      BY <1>2, <3>1, InHand DEF Shape, Removes
    <3>3. admin'[cur[w]] = admin[cur[w]]
      BY <2>2, <3>2, OutsideFrame
    <3>. QED
      BY <1>2, <3>1, <3>3 DEF Removes, Kind
  <2>3. CASE Restart
    BY <1>2, <2>3, RestartFrame DEF Removes
  <2>4. ASSUME NEW x \in Workers, Works(x) PROVE Out(w) /\ UNCHANGED <<cur[w], admin[cur[w]]>>
    <3>1. UNCHANGED <<pc, cur, admin>> /\ hpc'[w] = hpc[w]
      BY <1>2, <2>4, HandlerFrame DEF queueVars
    <3>. QED
      BY <1>2, <3>1 DEF Removes, Kind
  <2>5. ASSUME NEW x \in Workers, Ends(x) PROVE Out(w) /\ UNCHANGED <<cur[w], admin[cur[w]]>>
    <3>1. admin' = admin
      BY <2>5, EndFrame DEF rows
    <3>2. CASE x = w
      <4>1. hpc'[w] = "none" /\ cur'[w] = cur[w] /\ hpc[w] = "stop"
        BY <1>2, <2>5, <3>2, EndFrame DEF Removes
      <4>. QED
        BY <1>2, <3>1, <4>1 DEF Removes, Kind
    <3>3. CASE x # w
      <4>1. pc'[w] = pc[w] /\ cur'[w] = cur[w] /\ hpc'[w] = hpc[w]
        BY <2>5, <3>3, EndFrame
      <4>. QED
        BY <1>2, <3>1, <4>1 DEF Removes, Kind
    <3>. QED
      BY <3>2, <3>3
  <2>6. ASSUME NEW x \in Workers, Loops(x) PROVE Out(w) /\ UNCHANGED <<cur[w], admin[cur[w]]>>
    <3>1. admin' = admin
      BY <2>6, LoopFrame
    <3>2. x # w
      BY <1>2, <2>6, LoopFrame DEF Removes
    <3>3. pc'[w] = pc[w] /\ cur'[w] = cur[w] /\ hpc'[w] = hpc[w]
      BY <2>6, <3>2, LoopFrame
    <3>. QED
      BY <1>2, <3>1, <3>3 DEF Removes, Kind
  <2>. QED
    BY <2>1, <2>2, <2>3, <2>4, <2>5, <2>6, NextSteps
<1>3. ASSUME NEW w \in Workers PROVE Removed(w)'
  <2>1. CASE Works(w)
    <3>1. UNCHANGED <<pc, cur, asked, admin>> /\ pc[w] = "handling"
      BY <2>1, HandlerFrame DEF queueVars
    <3>2. Src(w)' = Src(w)
      BY <3>1, SameHand
    <3>3. Removes(w, {"sweep", "stop"})' => row'[Src(w)] # asked[cur[w]]
      BY <2>1, HandlerRemoves DEF DoneInv
    <3>. QED
      BY <3>1, <3>2, <3>3 DEF Removed
  <2>2. CASE ~Works(w)
    <3>1. Out(w)' => row'[Src(w)] # asked'[cur[w]] /\ cur'[w] = cur[w]
      BY <1>1, <1>2, <2>2
    <3>. QED
      BY <3>1 DEF Removed, Src
  <2>. QED
    BY <2>1, <2>2
<1>4. ASSUME NEW j \in Jobs, KindOf[j] = "remove", state'[j] = "done" PROVE row'[SlugOf[j]] # asked'[j]
  <2>1. CASE state[j] = "done"
    <3>1. row[SlugOf[j]] # asked[j]
      BY <1>4, <2>1 DEF DoneInv, DoneMeansRemoved
    <3>. QED
      BY <1>4, <2>1, <3>1, GoneForGood
  <2>2. CASE state[j] # "done"
    <3>1. PICK w \in Workers : Settle(w) /\ Q!CompleteJob(w) /\ cur[w] = j
      <4>1. state \in [Jobs -> Q!States]
        BY QueueFacts DEF WikiInv
      <4>2. ASSUME NEW w \in Workers, Loops(w)
            PROVE  Settle(w) /\ Q!CompleteJob(w) /\ cur[w] = j
        BY <1>4, <2>2, <4>1, <4>2
        DEF Loops, Claim, Q!Claim, Settle, MarkSourceFailed, Q!CompleteJob, Q!FailJob, Q!Verdict,
            Q!VerdictLost, Q!MarkSourceFailed, Q!rows
      <4>3. \E w \in Workers : Loops(w)
        BY <1>4, <2>2, NextSteps, OutsideFrame, RestartFrame, HandlerFrame, EndFrame DEF vars, queueVars
      <4>. QED
        BY <4>2, <4>3
    <3>2. pc[w] = "returned_ok" /\ Kind(w) = "remove" /\ Src(w) = SlugOf[j] /\ UNCHANGED <<row, asked>>
      BY <1>4, <3>1 DEF Settle, Q!CompleteJob, Kind, Src, rows, history
    <3>. QED
      BY <3>1, <3>2 DEF DoneInv, Removed
  <2>. QED
    BY <2>1, <2>2
<1>. HIDE DEF Out
<1>. QED
  BY <1>3, <1>4 DEF DoneInv, DoneMeansRemoved

\* A remove job that is done has removed the source it was asked to remove, whatever
\* crashed, was retried or reclaimed, and whoever bears the slug by now.
THEOREM DoneJobsHaveRemoved == Spec => []DoneMeansRemoved
<1>1. Init => WikiInv /\ DoneInv
  BY WikiInit, DoneInit
<1>2. WikiInv /\ DoneInv /\ [Next]_vars => (WikiInv /\ DoneInv)'
  BY WikiNext, DoneNext
<1>3. DoneInv => DoneMeansRemoved
  BY DEF DoneInv
<1>. QED
  BY <1>1, <1>2, <1>3, PTL DEF Spec

-----------------------------------------------------------------------------
(* The wiki, with one worker.  RemovedIsUnreferenced is not inductive: a   *)
(* removal takes the source off one page after the other, and counts on    *)
(* the work it planned being what the pages then need.                     *)

OneWorker == \A v, w \in Workers : v = w

\* The source a handler takes off its pages.
Own(w) == IF Kind(w) = "remove" THEN {Src(w)} ELSE {}

\* What is still to be written names only sources that have a row, and what a removal
\* writes keeps everything but its source on the page.
WriteOK(w) == hpc[w] = "write" => \A p \in Todo(w) :
  /\ Kind(w) # "ingest" => tree[p] \subseteq work[w][p] \cup Own(w)
  /\ Own(w) \cap work[w][p] = {}
  /\ \A t \in work[w][p] : row[t] # 0

\* What is still to be indexed is as the work tree has it.
UpsertOK(w) == hpc[w] = "upsert" => \A p \in Todo(w) : work[w][p] = tree[p]

\* A handler's source has a row until a removal takes it.
RowOK(w) ==
  /\ Kind(w) = "ingest" /\ hpc[w] # "get" => row[Src(w)] # 0
  /\ Removes(w, RemovePlaces \ {"get", "sweep", "stop"}) => row[Src(w)] # 0

\* How far a removal has got with its source.
OffOK(w) ==
  /\ Removes(w, {"write"}) => \A p \in Pages \ Todo(w) : Src(w) \notin tree[p]
  /\ Removes(w, {"commit", "rows", "patch", "upsert", "blob", "row"}) => \A p \in Pages : Src(w) \notin tree[p]
  /\ Removes(w, {"rows", "patch", "upsert", "blob", "row"}) => \A p \in Pages : Src(w) \notin head[p]

HandOK(w) == WriteOK(w) /\ UpsertOK(w) /\ RowOK(w) /\ OffOK(w)

PagesInv ==
  /\ \A w \in Workers : hpc[w] # "none" => HandOK(w)
  /\ RemovedIsUnreferenced
  /\ OthersKept

LEMMA PagesInit == Init => PagesInv
  BY RemovalAssumption DEF Init, PagesInv, RemovedIsUnreferenced, OthersKept

\* The same handler a step later.
LEMMA SameHandler ==
  ASSUME WikiInv, NEW w \in Workers, Works(w)
  PROVE  /\ Kind(w)' = Kind(w) /\ Src(w)' = Src(w) /\ Own(w)' = Own(w)
         /\ Src(w) \in Slugs /\ PlaceOK(w) /\ hpc[w] # "none"
         /\ \A p \in Todo(w) : p \in Pages /\ work[w][p] \in SUBSET Slugs
         /\ Todo(w)' = DOMAIN work'[w]
<1>. Types /\ Shape
  BY DEF WikiInv
<1>1. UNCHANGED <<cur, admin, pc>> /\ pc[w] = "handling" /\ hpc[w] # "none"
  BY HandlerFrame DEF queueVars
<1>2. Kind(w)' = Kind(w) /\ Src(w)' = Src(w)
  BY <1>1, SameHand
<1>3. work[w] \in Contents
  BY DEF Types
<1>. QED
  BY <1>1, <1>2, <1>3, InHand, OfContents DEF Own, Shape, Todo

\* Taking one page off the work to do.
LEMMA Dropped ==
  ASSUME Types, NEW w \in Workers, NEW p \in Todo(w), Drop(w, p)
  PROVE  Todo(w)' = Todo(w) \ {p} /\ \A q \in Todo(w)' : work'[w][q] = work[w][q]
<1>1. work'[w] = Restrict(work[w], Todo(w) \ {p})
  BY DEF Drop, Types
<1>. QED
  BY <1>1 DEF Todo, Restrict

LEMMA HandKept ==
  ASSUME WikiInv, PagesInv, NEW w \in Workers, Works(w)
  PROVE  HandOK(w)'
<1>. Types /\ Shape /\ HandOK(w) /\ RemovedIsUnreferenced
  BY SameHandler DEF WikiInv, PagesInv
<1>1. /\ Kind(w)' = Kind(w) /\ Src(w)' = Src(w) /\ Own(w)' = Own(w) /\ Src(w) \in Slugs /\ PlaceOK(w)
      /\ \A p \in Todo(w) : p \in Pages /\ work[w][p] \in SUBSET Slugs
  BY SameHandler
<1>. USE DEF HandOK, WriteOK, UpsertOK, RowOK, OffOK, Removes, At, Goto
<1>2. CASE Get(w)
  <2>1. UNCHANGED <<row, tree, head, work>>
    BY <1>2 DEF Get, rows, wiki, locals
  <2>2. /\ hpc'[w] \in {"stop", "embed", "distill", "sweep", "plan", "commit", "list"}
        /\ Kind(w) = "ingest" => row[Src(w)] # 0
        /\ Kind(w) = "remove" => hpc'[w] = "sweep" \/ (hpc'[w] = "plan" /\ row[Src(w)] # 0)
    BY <1>2 DEF Get, Types
  <2>. QED
    BY <1>1, <2>1, <2>2
<1>3. CASE WriteFile(w)
  <2>1. PICK p \in Todo(w) : /\ tree' = [tree EXCEPT ![p] = work[w][p]]
                             /\ Drop(w, p)
                             /\ hpc'[w] = IF Todo(w) = {p} THEN "commit" ELSE "write"
    BY <1>3 DEF WriteFile, Types
  <2>2. UNCHANGED <<row, head>> /\ hpc[w] = "write"
    BY <1>3 DEF WriteFile, rows
  <2>3. Todo(w)' = Todo(w) \ {p} /\ \A q \in Todo(w)' : work'[w][q] = work[w][q]
    BY <2>1, Dropped
  <2>4. tree'[p] = work[w][p] /\ \A q \in Pages : q # p => tree'[q] = tree[q]
    BY <1>1, <2>1 DEF Types
  <2>5. WriteOK(w)' /\ UpsertOK(w)' /\ RowOK(w)'
    BY <1>1, <2>1, <2>2, <2>3, <2>4 DEF RemovePlaces
  <2>6. \A q \in Pages \ Todo(w)' : Kind(w) = "remove" => Src(w) \notin tree'[q]
    BY <1>1, <2>2, <2>3, <2>4 DEF Own
  <2>. QED
    BY <1>1, <2>1, <2>3, <2>5, <2>6
<1>4. CASE Commit(w)
  <2>1. /\ head' = tree /\ UNCHANGED <<row, tree, work>> /\ hpc[w] = "commit"
        /\ hpc'[w] = CASE Kind(w) = "ingest" -> "committed" [] Kind(w) = "remove" -> "rows" [] OTHER -> "stop"
    BY <1>4 DEF Commit, rows, locals, Types
  <2>2. hpc'[w] \in {"committed", "rows", "stop"} /\ (Kind(w) = "remove" => hpc'[w] = "rows")
    BY <2>1
  <2>. QED
    BY <1>1, <2>1, <2>2 DEF RemovePlaces
<1>5. CASE ReadTouched(w) \/ ReadBatch(w)
  <2>1. /\ UNCHANGED <<row, tree, head>> /\ hpc[w] \in {"embed", "patch", "clear"} /\ hpc'[w] = "upsert"
        /\ \E S \in SUBSET Pages : work'[w] = Restrict(tree, S)
    BY <1>5 DEF ReadTouched, ReadBatch, Batch, rows, wiki, Types
  <2>2. \A p \in Todo(w)' : work'[w][p] = tree[p]
    BY <1>1, <2>1 DEF Restrict, Todo
  <2>3. /\ hpc[w] = "clear" => Kind(w) = "reembed"
        /\ hpc[w] = "embed" => Kind(w) = "ingest"
    BY <1>1 DEF PlaceOK, IngestPlaces, RemovePlaces, ReembedPlaces, LintPlaces
  <2>. QED
    BY <1>1, <2>1, <2>2, <2>3 DEF RemovePlaces
<1>6. CASE Upsert(w) \/ SkipPage(w)
  <2>1. PICK p \in Todo(w) : Drop(w, p)
    BY <1>6 DEF Upsert, SkipPage
  <2>2. UNCHANGED <<row, tree, head, hpc>> /\ hpc[w] = "upsert"
    BY <1>6 DEF Upsert, SkipPage, rows, wiki
  <2>3. Todo(w)' = Todo(w) \ {p} /\ \A q \in Todo(w)' : work'[w][q] = work[w][q]
    BY <2>1, Dropped
  <2>. QED
    BY <1>1, <2>2, <2>3
<1>7. CASE AllUpserted(w) \/ AllRowsDeleted(w) \/ EmbedFails(w)
  <2>1. UNCHANGED <<row, tree, head>> /\ hpc[w] \in {"upsert", "rows", "patch"}
        /\ hpc'[w] \in {"done", "blob", "patch", "stop"}
    BY <1>7 DEF AllUpserted, AllRowsDeleted, EmbedFails, AfterRows, rows, wiki, Types
  <2>. QED
    BY <1>1, <2>1 DEF RemovePlaces
<1>8. CASE Distill(w)
  <2>1. PICK S \in SUBSET Pages : /\ Plan(w, S)
                                  /\ hpc'[w] = IF S = {} THEN "committed" ELSE "write"
    BY <1>8 DEF Distill, Types
  <2>2. UNCHANGED <<row, tree, head>> /\ hpc[w] = "distill"
    BY <1>8 DEF Distill, rows, wiki
  <2>3. PICK c \in [S -> {C \in Citings : C \subseteq Seen(w)}] : work'[w] = c /\ Todo(w)' = S
    BY <1>1, <2>1 DEF Plan, Types, Todo
  <2>4. Kind(w) = "ingest" /\ row[Src(w)] # 0
    BY <1>1, <2>2 DEF PlaceOK, RemovePlaces, ReembedPlaces, LintPlaces
  <2>5. \A t \in Seen(w) : row[t] # 0
    BY <2>4 DEF RemovedIsUnreferenced, Types, Seen
  <2>. QED
    BY <1>1, <2>1, <2>2, <2>3, <2>4, <2>5 DEF Own
<1>9. CASE MarkCommitted(w) \/ MarkDone(w)
  <2>1. UNCHANGED <<row, tree, head, work>> /\ hpc[w] \in {"committed", "done"} /\ hpc'[w] \in {"get", "stop"}
    BY <1>9 DEF MarkCommitted, MarkDone, wiki, locals, Types
  <2>. QED
    BY <1>1, <2>1 DEF PlaceOK, RemovePlaces, ReembedPlaces, LintPlaces
<1>10. CASE PlanRemoval(w)
  <2>. DEFINE s == Src(w)
              A == Affected(s)
  <2>1. /\ UNCHANGED <<row, tree, head>> /\ hpc[w] = "plan" /\ hpc'[w] = IF A = {} THEN "commit" ELSE "write"
        /\ work'[w] = [p \in A |-> IF Shared(p, s) THEN tree[p] \ {s} ELSE {}]
    BY <1>10 DEF PlanRemoval, rows, wiki, Types
  <2>2. Kind(w) = "remove" /\ row[s] # 0
    BY <1>1, <2>1 DEF PlaceOK, IngestPlaces, RemovePlaces, ReembedPlaces, LintPlaces
  <2>3. Todo(w)' = A /\ \A p \in A : work'[w][p] = tree[p] \ {s}
    BY <1>1, <2>1 DEF Todo, Shared
  <2>4. \A p \in Pages : \A t \in tree[p] : row[t] # 0
    BY DEF RemovedIsUnreferenced, Types
  <2>5. \A p \in Pages \ A : s \notin tree[p]
    BY DEF Affected
  <2>6. A \subseteq Pages
    BY DEF Affected
  <2>. HIDE DEF s, A
  <2>7. Own(w)' = {s} /\ Src(w)' = s
    BY <1>1, <2>2 DEF Own, s
  <2>8. WriteOK(w)'
    BY <1>1, <2>1, <2>3, <2>4, <2>6, <2>7
  <2>. QED
    BY <1>1, <2>1, <2>2, <2>3, <2>5, <2>7, <2>8
<1>11. CASE DeleteRow(w) \/ DeleteBlob(w) \/ DeleteSourceRow(w)
  <2>1. /\ UNCHANGED <<tree, head>> /\ hpc[w] \in {"rows", "blob", "sweep", "row"}
        /\ hpc'[w] \in {"rows", "row", "stop"}
        /\ hpc'[w] = "stop" \/ (row' = row /\ hpc[w] \in {"rows", "blob"})
    BY <1>11 DEF DeleteRow, DeleteBlob, DeleteSourceRow, AfterBlob, rows, wiki, Types
  <2>2. Kind(w) = "remove"
    BY <1>1, <2>1 DEF PlaceOK, IngestPlaces, ReembedPlaces, LintPlaces
  <2>. QED
    BY <1>1, <2>1, <2>2 DEF RemovePlaces
<1>12. CASE ListPages(w) \/ ClearRow(w)
  <2>1. hpc[w] \in {"list", "clear"} /\ hpc'[w] = "clear"
    BY <1>12 DEF ListPages, ClearRow, Types
  <2>. QED
    BY <1>1, <2>1 DEF PlaceOK, IngestPlaces, RemovePlaces, LintPlaces
<1>. QED
  BY <1>2, <1>3, <1>4, <1>5, <1>6, <1>7, <1>8, <1>9, <1>10, <1>11, <1>12 DEF Works

\* One worker's handler is all that changes the pages.
LEMMA PagesKept ==
  ASSUME WikiInv, PagesInv, NEW w \in Workers, Works(w)
  PROVE  RemovedIsUnreferenced' /\ OthersKept'
<1>. Types /\ Shape /\ HandOK(w) /\ RemovedIsUnreferenced /\ OthersKept
  BY SameHandler DEF WikiInv, PagesInv
<1>1. /\ Src(w) \in Slugs /\ PlaceOK(w) /\ state' = state
      /\ \A p \in Todo(w) : p \in Pages /\ work[w][p] \in SUBSET Slugs
  BY SameHandler, HandlerFrame DEF queueVars
<1>2. CASE WriteFile(w)
  <2>1. PICK p \in Todo(w) :
          /\ tree' = [tree EXCEPT ![p] = work[w][p]]
          /\ dropped' = IF Kind(w) = "ingest" THEN dropped \cup (tree[p] \ work[w][p]) ELSE dropped
    BY <1>2 DEF WriteFile
  <2>2. UNCHANGED <<row, head>> /\ hpc[w] = "write"
    BY <1>2 DEF WriteFile, rows, At
  <2>3. /\ Kind(w) # "ingest" => tree[p] \subseteq work[w][p] \cup Own(w)
        /\ \A t \in work[w][p] : row[t] # 0
    BY <2>1, <2>2 DEF HandOK, WriteOK
  <2>4. tree'[p] = work[w][p] /\ \A q \in Pages : q # p => tree'[q] = tree[q]
    BY <1>1, <2>1 DEF Types
  <2>5. RemovedIsUnreferenced'
    BY <2>2, <2>3, <2>4 DEF RemovedIsUnreferenced
  <2>6. ASSUME NEW s \in Own(w) PROVE \E j \in Jobs : KindOf[j] = "remove" /\ SlugOf[j] = s /\ state[j] # "absent"
    <3>1. Kind(w) = "remove" /\ s = Src(w)
      BY <2>6 DEF Own
    <3>2. cur[w] \in Jobs /\ state[cur[w]] # "absent"
      BY <1>2, InHand DEF WriteFile, At
    <3>3. KindOf[cur[w]] = "remove"
      BY <3>1, <3>2 DEF Kind, Types
    <3>. QED
      BY <3>1, <3>2, <3>3 DEF Src
  <2>7. dropped \subseteq dropped' /\ tree[p] \subseteq work[w][p] \cup Own(w) \cup dropped'
    BY <2>1, <2>3
  <2>8. OthersKept'
    BY <1>1, <2>2, <2>4, <2>6, <2>7 DEF OthersKept
  <2>. QED
    BY <2>5, <2>8
<1>3. CASE Commit(w)
  <2>1. head' = tree /\ UNCHANGED <<row, tree, dropped>>
    BY <1>3 DEF Commit, rows, history
  <2>. QED
    BY <1>1, <2>1 DEF RemovedIsUnreferenced, OthersKept
<1>4. CASE DeleteSourceRow(w)
  <2>1. UNCHANGED <<tree, head, dropped>> /\ row' = [row EXCEPT ![Src(w)] = 0] /\ hpc[w] = "row"
    BY <1>4 DEF DeleteSourceRow, wiki, history, At
  <2>2. Kind(w) = "remove"
    BY <1>1, <2>1 DEF PlaceOK, IngestPlaces, ReembedPlaces, LintPlaces
  <2>3. \A p \in Pages : Src(w) \notin tree[p] /\ Src(w) \notin head[p]
    BY <2>1, <2>2 DEF HandOK, OffOK, Removes
  <2>. QED
    BY <1>1, <2>1, <2>3 DEF RemovedIsUnreferenced, OthersKept, Types
<1>5. CASE ~WriteFile(w) /\ ~Commit(w) /\ ~DeleteSourceRow(w)
  <2>1. UNCHANGED <<tree, head, row, dropped>>
    BY <1>5 DEF Works, Get, ReadTouched, Upsert, AllUpserted, Distill, MarkCommitted, MarkDone, PlanRemoval,
                DeleteRow, AllRowsDeleted, EmbedFails, DeleteBlob, ListPages, ClearRow, ReadBatch, SkipPage,
                rows, wiki, history
  <2>. QED
    BY <1>1, <2>1 DEF RemovedIsUnreferenced, OthersKept
<1>. QED
  BY <1>2, <1>3, <1>4, <1>5

\* Between a handler's steps, rows are only added and pages stay as they are.
LEMMA PagesBetween ==
  ASSUME WikiInv, [Next]_vars, ~(\E w \in Workers : Works(w))
  PROVE  /\ UNCHANGED <<tree, head, changed, dropped>>
         /\ \A s \in Slugs : row'[s] = 0 => row[s] = 0
         /\ \A s \in Slugs : row[s] # 0 => row'[s] # 0
         /\ \A j \in Jobs : state'[j] = "absent" => state[j] = "absent"
<1>. Types
  BY DEF WikiInv
<1>1. CASE UNCHANGED vars
  BY <1>1 DEF vars, queueVars, rows, wiki, history
<1>2. CASE Restart
  BY <1>2, RestartFrame DEF wiki
<1>3. ASSUME NEW w \in Workers, Ends(w)
      PROVE  UNCHANGED <<tree, head, changed, dropped, row, state>>
  BY <1>3, EndFrame DEF rows, wiki
<1>4. ASSUME NEW w \in Workers, Loops(w)
      PROVE  UNCHANGED <<tree, head, changed, dropped, row>> /\ \A j \in Jobs : state[j] # "absent" <=> state'[j] # "absent"
  BY <1>4, LoopFrame DEF wiki, history
<1>5. CASE Requests \/ (\E j \in Jobs : DeleteSource(j) \/ AdminJob(j) \/ Time(j))
  <2>1. UNCHANGED <<tree, head, changed, dropped>> /\ \A j \in Jobs : state[j] # "absent" => state'[j] = state[j]
    BY <1>5, OutsideFrame DEF wiki
  <2>2. \A s \in Slugs : /\ uploads[s] \in Nat
                         /\ \/ row'[s] = row[s]
                            \/ row[s] = 0 /\ row'[s] = uploads[s] + 1
    BY <1>5, OutsideFrame DEF Types, Uploads
  <2>. QED
    BY <2>1, <2>2
<1>. QED
  BY <1>1, <1>2, <1>3, <1>4, <1>5, NextSteps

\* With one worker, a handler that a step of another kind leaves in hand is where it was.
LEMMA HandBetween ==
  ASSUME OneWorker, WikiInv, [Next]_vars, NEW w \in Workers, ~Works(w), hpc'[w] # "none"
  PROVE  \/ hpc'[w] = "get"
         \/ /\ UNCHANGED <<cur, hpc, work, gone, patched, index, torn, missed, skipped>>
            /\ hpc[w] # "none" /\ Kind(w)' = Kind(w) /\ Src(w)' = Src(w)
<1>. Types /\ Shape
  BY DEF WikiInv
<1>1. \A x \in Workers : x = w
  BY DEF OneWorker
<1>2. CASE UNCHANGED vars
  <2>1. UNCHANGED <<cur, admin, hpc, work, gone, patched, index, torn, missed, skipped>>
    BY <1>2 DEF vars, queueVars, rows, locals, history
  <2>. QED
    BY <2>1, SameHand
<1>3. CASE Restart \/ Ends(w)
  BY <1>3, RestartFrame, EndFrame
<1>4. CASE Loops(w)
  BY <1>4, LoopFrame
<1>5. CASE Requests \/ (\E j \in Jobs : DeleteSource(j) \/ AdminJob(j) \/ Time(j))
  <2>1. UNCHANGED <<pc, cur, hpc, work, gone, patched, index, torn, missed, skipped>>
    BY <1>5, OutsideFrame DEF locals
  <2>2. cur[w] \in Jobs /\ state[cur[w]] # "absent"
    BY <2>1, InHand DEF Shape
  <2>3. admin'[cur[w]] = admin[cur[w]]
    BY <1>5, <2>2, OutsideFrame
  <2>. QED
    BY <2>1, <2>3 DEF Kind, Src
<1>. QED
  BY <1>1, <1>2, <1>3, <1>4, <1>5, NextSteps

LEMMA PagesNext ==
  ASSUME OneWorker
  PROVE  WikiInv /\ WikiInv' /\ PagesInv /\ [Next]_vars => PagesInv'
<1> SUFFICES ASSUME WikiInv, WikiInv', PagesInv, [Next]_vars PROVE PagesInv'
  OBVIOUS
<1>1. CASE \E w \in Workers : Works(w)
  <2>1. PICK w \in Workers : Works(w)
    BY <1>1
  <2>2. \A x \in Workers : x = w
    BY DEF OneWorker
  <2>. QED
    BY <2>1, <2>2, HandKept, PagesKept DEF PagesInv
<1>2. CASE ~(\E w \in Workers : Works(w))
  <2>1. RemovedIsUnreferenced' /\ OthersKept'
    BY <1>2, PagesBetween DEF PagesInv, RemovedIsUnreferenced, OthersKept
  <2>2. ASSUME NEW w \in Workers, hpc'[w] # "none" PROVE HandOK(w)'
    <3>1. CASE hpc'[w] = "get"
      BY <3>1 DEF HandOK, WriteOK, UpsertOK, RowOK, OffOK, Removes
    <3>2. CASE hpc'[w] # "get"
      <4>1. /\ UNCHANGED <<hpc, work>> /\ hpc[w] # "none" /\ Kind(w)' = Kind(w) /\ Src(w)' = Src(w)
        BY <1>2, <2>2, <3>2, HandBetween
      <4>2. pc[w] = "handling"
        BY <4>1 DEF WikiInv, Shape
      <4>3. HandOK(w) /\ Own(w)' = Own(w) /\ Src(w) \in Slugs /\ Todo(w)' = Todo(w)
        BY <4>1, <4>2, InHand DEF PagesInv, Own, Todo
      <4>4. UNCHANGED <<tree, head>> /\ \A s \in Slugs : row[s] # 0 => row'[s] # 0
        BY <1>2, PagesBetween
      <4>5. \A p \in Todo(w) : work[w][p] \in SUBSET Slugs
        BY OfContents DEF WikiInv, Types, Todo
      <4>. QED
        BY <4>1, <4>3, <4>4, <4>5 DEF HandOK, WriteOK, UpsertOK, RowOK, OffOK, Removes
    <3>. QED
      BY <3>1, <3>2
  <2>. QED
    BY <2>1, <2>2 DEF PagesInv
<1>. QED
  BY <1>1, <1>2

\* With one worker, no page of HEAD or of the work tree names a source whose row is gone:
\* a retry plans from the tree a crashed run left behind, and its commit takes that run's
\* writes along.
THEOREM RemovedStayUnreferenced ==
  ASSUME OneWorker
  PROVE  Spec => []RemovedIsUnreferenced
<1>1. Init => WikiInv /\ PagesInv
  BY WikiInit, PagesInit
<1>2. WikiInv /\ PagesInv /\ [Next]_vars => (WikiInv /\ PagesInv)'
  BY WikiNext, PagesNext
<1>3. PagesInv => RemovedIsUnreferenced
  BY DEF PagesInv
<1>. QED
  BY <1>1, <1>2, <1>3, PTL DEF Spec

\* With one worker, no removal, rebuild or lint, crashed or not, takes a source off a page
\* while nobody asked for that source's removal; an ingest's agent may, and what it has
\* rewritten without the source is all that is excepted.
THEOREM OthersAlwaysKept ==
  ASSUME OneWorker
  PROVE  Spec => []OthersKept
<1>1. Init => WikiInv /\ PagesInv
  BY WikiInit, PagesInit
<1>2. WikiInv /\ PagesInv /\ [Next]_vars => (WikiInv /\ PagesInv)'
  BY WikiNext, PagesNext
<1>3. PagesInv => OthersKept
  BY DEF PagesInv
<1>. QED
  BY <1>1, <1>2, <1>3, PTL DEF Spec

-----------------------------------------------------------------------------
(* The index, with one worker.  Outside the removal of a source, its rows  *)
(* are of pages that name it; within, the handler still has them to see to.*)

MidRemoval == {"write", "commit", "rows", "patch", "upsert"}

Sound(s) == \A p \in Pages : s \in index[p] => s \in tree[p] /\ s \in head[p]

\* What is left to do for the rows that name the source being removed.
ClearOK(w) == \A p \in Pages :
  /\ hpc[w] \in {"write", "commit"} /\ Src(w) \in index[p] =>
       Src(w) \in head[p] /\ (p \in gone[w] \/ p \in patched[w])
  /\ hpc[w] = "write" /\ p \in patched[w] => IF p \in Todo(w) THEN work[w][p] # {} ELSE tree[p] # {}
  /\ hpc[w] \in {"commit", "rows"} /\ p \in patched[w] => tree[p] # {}
  /\ hpc[w] = "rows" /\ Src(w) \in index[p] => p \in gone[w] \/ (p \in patched[w] /\ p \in changed)
  /\ hpc[w] = "patch" /\ Src(w) \in index[p] => p \in changed /\ tree[p] # {}
  /\ hpc[w] = "upsert" /\ Src(w) \in index[p] => p \in Todo(w)

Intact == Slugs \ (torn \cup missed \cup dropped)

IndexInv ==
  /\ \A s \in Intact : (\A w \in Workers : Removes(w, MidRemoval) => Src(w) # s) => Sound(s)
  /\ \A w \in Workers : Removes(w, MidRemoval) /\ Src(w) \in Intact => ClearOK(w)

LEMMA IndexInit == Init => IndexInv
  BY RemovalAssumption DEF Init, IndexInv, Sound, Removes, MidRemoval

\* While the source is not being removed, its rows are sound.
LEMMA SoundBefore ==
  ASSUME OneWorker, IndexInv, NEW w \in Workers, NEW s \in Intact, ~(Removes(w, MidRemoval) /\ Src(w) = s)
  PROVE  Sound(s)
  BY DEF OneWorker, IndexInv

\* The same of the state after.
LEMMA IndexAfter ==
  ASSUME OneWorker, NEW w \in Workers,
         \A s \in Intact' : ~(Removes(w, MidRemoval)' /\ Src(w)' = s) => Sound(s)',
         Removes(w, MidRemoval)' /\ Src(w)' \in Intact' => ClearOK(w)'
  PROVE  IndexInv'
  BY DEF OneWorker, IndexInv

\* The steps of an ingest, of a rebuild, of a lint.
LEMMA IndexByOthers ==
  ASSUME OneWorker, WikiInv, PagesInv, IndexInv, NEW w \in Workers, Works(w), Kind(w) # "remove"
  PROVE  IndexInv'
<1>. Types /\ Shape /\ HandOK(w)
  BY SameHandler DEF WikiInv, PagesInv
<1>1. /\ Kind(w)' = Kind(w) /\ Own(w) = {} /\ PlaceOK(w)
      /\ \A p \in Todo(w) : p \in Pages /\ work[w][p] \in SUBSET Slugs
  BY SameHandler DEF Own
<1>2. \A s \in Intact : Sound(s)
  BY SoundBefore DEF Removes
<1>3. torn \subseteq torn' /\ missed' = missed /\ dropped \subseteq dropped'
  <2>1. ~PlanRemoval(w) /\ ~DeleteRow(w) /\ ~AllRowsDeleted(w) /\ ~EmbedFails(w) /\ ~DeleteBlob(w)
        /\ ~DeleteSourceRow(w)
    BY <1>1 DEF PlanRemoval, DeleteRow, AllRowsDeleted, EmbedFails, DeleteBlob, DeleteSourceRow, At, PlaceOK,
                IngestPlaces, ReembedPlaces, LintPlaces
  <2>. QED
    BY <2>1 DEF Works, Get, WriteFile, Commit, ReadTouched, Upsert, AllUpserted, Distill, MarkCommitted,
                MarkDone, ListPages, ClearRow, ReadBatch, SkipPage, history
<1>4. \A s \in Intact' : Sound(s)'
  <2>1. CASE WriteFile(w)
    <3>1. PICK p \in Todo(w) :
            /\ tree' = [tree EXCEPT ![p] = work[w][p]]
            /\ dropped' = IF Kind(w) = "ingest" THEN dropped \cup (tree[p] \ work[w][p]) ELSE dropped
      BY <2>1 DEF WriteFile
    <3>2. tree[p] \subseteq work[w][p] \cup dropped' /\ UNCHANGED <<head, index>>
      BY <1>1, <2>1, <3>1 DEF WriteFile, At, HandOK, WriteOK
    <3>3. \A q \in Pages : tree[q] \subseteq tree'[q] \cup dropped'
      BY <1>1, <3>1, <3>2 DEF Types
    <3>. QED
      BY <1>2, <1>3, <3>2, <3>3 DEF Sound, Intact
  <2>2. CASE Commit(w)
    <3>1. head' = tree /\ UNCHANGED <<tree, index>>
      BY <2>2 DEF Commit
    <3>. QED
      BY <1>2, <1>3, <3>1 DEF Sound, Intact
  <2>3. CASE Upsert(w)
    <3>1. PICK p \in Todo(w) : index' = [index EXCEPT ![p] = work[w][p]] /\ torn' = torn \cup (work[w][p] \ head[p])
      BY <2>3 DEF Upsert
    <3>2. work[w][p] = tree[p] /\ UNCHANGED <<tree, head>>
      BY <2>3, <3>1 DEF Upsert, At, HandOK, UpsertOK, wiki
    <3>3. \A q \in Pages : index'[q] = IF q = p THEN tree[p] ELSE index[q]
      BY <1>1, <3>1, <3>2 DEF Types
    <3>. QED
      BY <1>2, <1>3, <3>1, <3>2, <3>3 DEF Sound, Intact
  <2>4. CASE ClearRow(w)
    <3>1. UNCHANGED <<tree, head>> /\ \A p \in Pages : index'[p] \subseteq index[p]
      BY <2>4 DEF ClearRow, wiki, Types
    <3>. QED
      BY <1>2, <1>3, <3>1 DEF Sound, Intact
  <2>5. CASE ~WriteFile(w) /\ ~Commit(w) /\ ~Upsert(w) /\ ~ClearRow(w)
    <3>1. ~DeleteRow(w)
      BY <1>1 DEF DeleteRow, At, PlaceOK, IngestPlaces, ReembedPlaces, LintPlaces
    <3>2. UNCHANGED <<tree, head, index>>
      BY <2>5, <3>1 DEF Works, Get, ReadTouched, AllUpserted, Distill, MarkCommitted, MarkDone, PlanRemoval,
                        AllRowsDeleted, EmbedFails, DeleteBlob, DeleteSourceRow, ListPages, ReadBatch, SkipPage,
                        wiki
    <3>. QED
      BY <1>2, <1>3, <3>2 DEF Sound, Intact
  <2>. QED
    BY <2>1, <2>2, <2>3, <2>4, <2>5
<1>. QED
  BY <1>1, <1>4, IndexAfter DEF Removes

\* The steps of a removal, for the sources that are not removed ...
LEMMA IndexBeside ==
  ASSUME OneWorker, WikiInv, PagesInv, IndexInv, NEW w \in Workers, Works(w), Kind(w) = "remove",
         NEW s \in Intact', s # Src(w)
  PROVE  Sound(s)'
<1>. Types /\ Shape /\ HandOK(w)
  BY SameHandler DEF WikiInv, PagesInv
<1>1. /\ Own(w) = {Src(w)} /\ PlaceOK(w)
      /\ \A p \in Todo(w) : p \in Pages /\ work[w][p] \in SUBSET Slugs
  BY SameHandler DEF Own
<1>2. torn \subseteq torn' /\ missed \subseteq missed' /\ dropped \subseteq dropped'
  BY DEF Works, Get, WriteFile, Commit, ReadTouched, Upsert, AllUpserted, Distill, MarkCommitted,
         MarkDone, PlanRemoval, DeleteRow, AllRowsDeleted, EmbedFails, DeleteBlob, DeleteSourceRow,
         ListPages, ClearRow, ReadBatch, SkipPage, history
<1>3. Sound(s)
  BY <1>2, SoundBefore DEF Intact
<1>4. CASE WriteFile(w)
  <2>1. PICK p \in Todo(w) : tree' = [tree EXCEPT ![p] = work[w][p]]
    BY <1>4 DEF WriteFile
  <2>2. tree[p] \subseteq work[w][p] \cup {Src(w)} /\ UNCHANGED <<head, index>>
    BY <1>1, <1>4, <2>1 DEF WriteFile, At, HandOK, WriteOK
  <2>3. \A q \in Pages : s \in tree[q] => s \in tree'[q]
    BY <1>1, <2>1, <2>2 DEF Types
  <2>. QED
    BY <1>3, <2>2, <2>3 DEF Sound
<1>5. CASE Commit(w)
  <2>1. head' = tree /\ UNCHANGED <<tree, index>>
    BY <1>5 DEF Commit
  <2>. QED
    BY <1>3, <2>1 DEF Sound
<1>6. CASE Upsert(w)
  <2>1. PICK p \in Todo(w) : index' = [index EXCEPT ![p] = work[w][p]] /\ torn' = torn \cup (work[w][p] \ head[p])
    BY <1>6 DEF Upsert
  <2>2. work[w][p] = tree[p] /\ UNCHANGED <<tree, head>>
    BY <1>6, <2>1 DEF Upsert, At, HandOK, UpsertOK, wiki
  <2>3. \A q \in Pages : index'[q] = IF q = p THEN tree[p] ELSE index[q]
    BY <1>1, <2>1, <2>2 DEF Types
  <2>. QED
    BY <1>3, <2>1, <2>2, <2>3 DEF Sound, Intact
<1>7. CASE DeleteRow(w)
  <2>1. UNCHANGED <<tree, head>> /\ \A p \in Pages : index'[p] \subseteq index[p]
    BY <1>7 DEF DeleteRow, wiki, Types
  <2>. QED
    BY <1>3, <2>1 DEF Sound
<1>8. CASE ~WriteFile(w) /\ ~Commit(w) /\ ~Upsert(w) /\ ~DeleteRow(w)
  <2>1. ~ClearRow(w)
    BY <1>1 DEF ClearRow, At, PlaceOK, RemovePlaces
  <2>2. UNCHANGED <<tree, head, index>>
    BY <1>8, <2>1 DEF Works, Get, ReadTouched, AllUpserted, Distill, MarkCommitted, MarkDone, PlanRemoval,
                      AllRowsDeleted, EmbedFails, DeleteBlob, DeleteSourceRow, ListPages, ReadBatch, SkipPage,
                      wiki
  <2>. QED
    BY <1>3, <2>2 DEF Sound
<1>. QED
  BY <1>4, <1>5, <1>6, <1>7, <1>8

\* ... and for the one that is: what still names it is on the handler's lists.
LEMMA IndexRemoval ==
  ASSUME OneWorker, WikiInv, PagesInv, IndexInv, NEW w \in Workers, Works(w), Kind(w) = "remove",
         Src(w) \in Intact'
  PROVE  IF Removes(w, MidRemoval)' THEN ClearOK(w)' ELSE Sound(Src(w))'
<1>. Types /\ Shape /\ HandOK(w)
  BY SameHandler DEF WikiInv, PagesInv
<1>. DEFINE s == Src(w)
<1>1. /\ Kind(w)' = "remove" /\ Src(w)' = s /\ PlaceOK(w) /\ s \in Slugs /\ Own(w) = {s}
      /\ \A p \in Todo(w) : p \in Pages /\ work[w][p] \in SUBSET Slugs
  BY SameHandler DEF Own
<1>2. torn \subseteq torn' /\ missed \subseteq missed' /\ dropped \subseteq dropped'
  BY DEF Works, Get, WriteFile, Commit, ReadTouched, Upsert, AllUpserted, Distill, MarkCommitted,
         MarkDone, PlanRemoval, DeleteRow, AllRowsDeleted, EmbedFails, DeleteBlob, DeleteSourceRow,
         ListPages, ClearRow, ReadBatch, SkipPage, history
<1>3. s \in Intact /\ s \in Intact'
  BY <1>2 DEF Intact
<1>4. IF hpc[w] \in MidRemoval THEN ClearOK(w) ELSE Sound(s)
  BY <1>1, <1>3, SoundBefore DEF IndexInv, Removes
<1>. HIDE DEF s
<1>5. /\ Removes(w, MidRemoval)' <=> hpc'[w] \in MidRemoval
      /\ Sound(Src(w))' <=> \A p \in Pages : s \in index'[p] => s \in tree'[p] /\ s \in head'[p]
  BY <1>1 DEF Removes, Sound
<1>6. CASE Get(w) \/ DeleteBlob(w) \/ DeleteSourceRow(w)
  <2>1. hpc'[w] \notin MidRemoval /\ hpc[w] \notin MidRemoval
    BY <1>1, <1>6 DEF Get, DeleteBlob, DeleteSourceRow, AfterBlob, At, Goto, Types, MidRemoval
  <2>2. UNCHANGED <<index, tree, head>>
    BY <1>6 DEF Get, DeleteBlob, DeleteSourceRow, wiki
  <2>. QED
    BY <1>4, <1>5, <2>1, <2>2 DEF Sound
<1>7. CASE PlanRemoval(w)
  <2>. DEFINE A == Affected(s)
  <2>1. /\ UNCHANGED <<tree, head, index>> /\ hpc[w] = "plan" /\ hpc'[w] = IF A = {} THEN "commit" ELSE "write"
        /\ work'[w] = [p \in A |-> IF Shared(p, s) THEN tree[p] \ {s} ELSE {}]
        /\ patched'[w] = {p \in A : Shared(p, s)} /\ gone'[w] = {p \in A : ~Shared(p, s)}
    BY <1>7 DEF PlanRemoval, wiki, Types, At, Goto, s
  <2>2. Todo(w)' = A /\ \A p \in patched'[w] : p \in A /\ work'[w][p] # {}
    BY <2>1 DEF Todo, Shared
  <2>3. \A p \in Pages : s \in index[p] => p \in A /\ s \in head[p]
    BY <1>4, <2>1 DEF MidRemoval, Sound, Affected
  <2>4. \A p \in Pages : s \in index[p] => p \in gone'[w] \/ p \in patched'[w]
    BY <2>1, <2>3
  <2>5. A = {} => patched'[w] = {}
    BY <2>1
  <2>. HIDE DEF A
  <2>. QED
    BY <1>1, <1>5, <2>1, <2>2, <2>3, <2>4, <2>5 DEF MidRemoval, ClearOK
<1>8. CASE WriteFile(w)
  <2>1. PICK p \in Todo(w) : /\ tree' = [tree EXCEPT ![p] = work[w][p]]
                             /\ Drop(w, p)
                             /\ hpc'[w] = IF Todo(w) = {p} THEN "commit" ELSE "write"
    BY <1>8 DEF WriteFile, Types, Goto
  <2>2. UNCHANGED <<head, index, gone, patched>> /\ hpc[w] = "write"
    BY <1>8 DEF WriteFile, At
  <2>3. Todo(w)' = Todo(w) \ {p} /\ \A q \in Todo(w)' : work'[w][q] = work[w][q]
    BY <2>1, Dropped
  <2>4. tree'[p] = work[w][p] /\ \A q \in Pages : q # p => tree'[q] = tree[q]
    BY <1>1, <2>1 DEF Types
  <2>5. ClearOK(w)
    BY <1>4, <2>2 DEF MidRemoval
  <2>6. ASSUME NEW q \in patched[w] PROVE IF q \in Todo(w)' THEN work'[w][q] # {} ELSE tree'[q] # {}
    <3>1. q \in Pages /\ IF q \in Todo(w) THEN work[w][q] # {} ELSE tree[q] # {}
      BY <2>2, <2>5 DEF ClearOK, Types
    <3>. QED
      BY <2>3, <2>4, <3>1
  <2>7. \A q \in Pages : s \in index[q] => s \in head[q] /\ (q \in gone[w] \/ q \in patched[w])
    BY <2>2, <2>5 DEF ClearOK, s
  <2>8. hpc'[w] = "commit" => Todo(w)' = {}
    BY <2>1, <2>3
  <2>. QED
    BY <1>1, <1>5, <2>1, <2>2, <2>6, <2>7, <2>8 DEF MidRemoval, ClearOK
<1>9. CASE Commit(w)
  <2>1. /\ head' = tree /\ UNCHANGED <<tree, index, gone, patched>> /\ hpc[w] = "commit" /\ hpc'[w] = "rows"
        /\ changed' = {p \in Pages : tree[p] # head[p]}
    BY <1>1, <1>9 DEF Commit, locals, At, Goto, Types
  <2>2. \A p \in Pages : s \notin tree[p]
    BY <1>1, <2>1 DEF HandOK, OffOK, Removes, s
  <2>3. ClearOK(w)
    BY <1>4, <2>1 DEF MidRemoval
  <2>4. \A p \in Pages : /\ p \in patched[w] => tree[p] # {}
                         /\ s \in index[p] => s \in head[p] /\ (p \in gone[w] \/ p \in patched[w])
    BY <2>1, <2>3 DEF ClearOK, s
  <2>5. \A p \in Pages : s \in index[p] => p \in gone[w] \/ (p \in patched[w] /\ p \in changed')
    BY <2>1, <2>2, <2>4
  <2>. QED
    BY <1>1, <1>5, <2>1, <2>4, <2>5 DEF MidRemoval, ClearOK
<1>10. CASE DeleteRow(w)
  <2>1. PICK p \in gone[w] : /\ \/ index' = [index EXCEPT ![p] = {}] /\ UNCHANGED missed
                                \/ UNCHANGED index /\ missed' = missed \cup {s}
                             /\ gone' = [gone EXCEPT ![w] = @ \ {p}]
    BY <1>10 DEF DeleteRow, s
  <2>2. UNCHANGED <<tree, changed, hpc, patched>> /\ hpc[w] = "rows"
    BY <1>10 DEF DeleteRow, wiki, At
  <2>3. index' = [index EXCEPT ![p] = {}] /\ gone'[w] = gone[w] \ {p} /\ p \in Pages
    BY <1>3, <2>1 DEF Intact, Types
  <2>4. \A q \in Pages : index'[q] = IF q = p THEN {} ELSE index[q]
    BY <2>3 DEF Types
  <2>5. ClearOK(w)
    BY <1>4, <2>2 DEF MidRemoval
  <2>6. \A q \in Pages : /\ q \in patched[w] => tree[q] # {}
                         /\ s \in index[q] => q \in gone[w] \/ (q \in patched[w] /\ q \in changed)
    BY <2>2, <2>5 DEF ClearOK, s
  <2>7. \A q \in Pages : s \in index'[q] => q \in gone'[w] \/ (q \in patched[w] /\ q \in changed)
    BY <2>3, <2>4, <2>6
  <2>. QED
    BY <1>1, <1>5, <2>2, <2>6, <2>7 DEF MidRemoval, ClearOK
<1>11. CASE AllRowsDeleted(w)
  <2>1. /\ UNCHANGED <<tree, head, changed, index, patched>> /\ hpc[w] = "rows" /\ gone[w] = {}
        /\ hpc'[w] = IF patched[w] = {} THEN "blob" ELSE "patch"
    BY <1>11 DEF AllRowsDeleted, AfterRows, wiki, locals, At, Goto, Types
  <2>2. ClearOK(w)
    BY <1>4, <2>1 DEF MidRemoval
  <2>3. \A p \in Pages : s \in index[p] => p \in patched[w] /\ p \in changed /\ tree[p] # {}
    BY <2>1, <2>2 DEF ClearOK, s
  <2>. QED
    BY <1>1, <1>5, <2>1, <2>3 DEF MidRemoval, ClearOK
<1>12. CASE ReadTouched(w)
  <2>. DEFINE S == {p \in changed : tree[p] # {}}
  <2>1. /\ UNCHANGED <<index, tree, head>> /\ hpc[w] \in {"embed", "patch"} /\ hpc'[w] = "upsert"
        /\ work'[w] = Restrict(tree, S)
    BY <1>12 DEF ReadTouched, wiki, At, Goto, Types
  <2>2. hpc[w] = "patch"
    BY <1>1, <2>1 DEF PlaceOK, RemovePlaces
  <2>3. ClearOK(w)
    BY <1>4, <2>2 DEF MidRemoval
  <2>4. Todo(w)' = S
    BY <2>1 DEF Todo, Restrict
  <2>5. \A p \in Pages : s \in index[p] => p \in S
    BY <2>2, <2>3 DEF ClearOK, s
  <2>. QED
    BY <1>1, <1>5, <2>1, <2>4, <2>5 DEF MidRemoval, ClearOK
<1>13. CASE Upsert(w)
  <2>1. PICK p \in Todo(w) : index' = [index EXCEPT ![p] = work[w][p]] /\ Drop(w, p)
    BY <1>13 DEF Upsert
  <2>2. UNCHANGED hpc /\ hpc[w] = "upsert"
    BY <1>13 DEF Upsert, At
  <2>3. Todo(w)' = Todo(w) \ {p}
    BY <2>1, Dropped
  <2>4. s \notin work[w][p]
    BY <1>1, <2>1, <2>2 DEF HandOK, UpsertOK, OffOK, Removes, s
  <2>5. \A q \in Pages : index'[q] = IF q = p THEN work[w][p] ELSE index[q]
    BY <1>1, <2>1 DEF Types
  <2>6. ClearOK(w)
    BY <1>4, <2>2 DEF MidRemoval
  <2>7. \A q \in Pages : s \in index[q] => q \in Todo(w)
    BY <2>2, <2>6 DEF ClearOK, s
  <2>8. \A q \in Pages : s \in index'[q] => q \in Todo(w)'
    BY <2>3, <2>4, <2>5, <2>7
  <2>. QED
    BY <1>1, <1>5, <2>2, <2>8 DEF MidRemoval, ClearOK
<1>14. CASE AllUpserted(w)
  <2>1. UNCHANGED index /\ hpc[w] = "upsert" /\ Todo(w) = {} /\ hpc'[w] = "blob"
    BY <1>1, <1>14 DEF AllUpserted, At, Goto, Types
  <2>2. ClearOK(w)
    BY <1>4, <2>1 DEF MidRemoval
  <2>3. \A p \in Pages : s \notin index[p]
    BY <2>1, <2>2 DEF ClearOK, s
  <2>. QED
    BY <1>5, <2>1, <2>3 DEF MidRemoval
<1>15. ~EmbedFails(w)
  BY <1>3 DEF EmbedFails, Intact, s
<1>16. ~Distill(w) /\ ~MarkCommitted(w) /\ ~MarkDone(w) /\ ~ListPages(w) /\ ~ClearRow(w) /\ ~ReadBatch(w)
       /\ ~SkipPage(w)
  BY <1>1 DEF Distill, MarkCommitted, MarkDone, ListPages, ClearRow, ReadBatch, SkipPage, At, PlaceOK, RemovePlaces
<1>. QED
  BY <1>6, <1>7, <1>8, <1>9, <1>10, <1>11, <1>12, <1>13, <1>14, <1>15, <1>16 DEF Works

\* The removal under way in a step that is none of its handler's goes on or is torn.
LEMMA IndexBetween ==
  ASSUME OneWorker, WikiInv, PagesInv, IndexInv, [Next]_vars, ~(\E w \in Workers : Works(w))
  PROVE  IndexInv'
<1>. Types /\ Shape
  BY DEF WikiInv
<1>1. UNCHANGED <<tree, head, changed, dropped>>
  BY PagesBetween
<1>2. /\ UNCHANGED <<index, missed>> /\ torn \subseteq torn'
  <2>1. CASE UNCHANGED vars
    BY <2>1 DEF vars, history
  <2>2. CASE Requests \/ (\E j \in Jobs : DeleteSource(j) \/ AdminJob(j) \/ Time(j))
    BY <2>2, OutsideFrame
  <2>3. CASE Restart
    BY <2>3, RestartFrame DEF Forget
  <2>4. ASSUME NEW w \in Workers, Ends(w) PROVE UNCHANGED <<index, missed>> /\ torn \subseteq torn'
    BY <2>4, EndFrame DEF Forget
  <2>5. ASSUME NEW w \in Workers, Loops(w) PROVE UNCHANGED <<index, missed>> /\ torn \subseteq torn'
    BY <2>5, LoopFrame DEF history
  <2>. QED
    BY <2>1, <2>2, <2>3, <2>4, <2>5, NextSteps
<1>3. ASSUME NEW w \in Workers, Removes(w, MidRemoval)
      PROVE  \/ Src(w) \in torn'
             \/ /\ UNCHANGED <<hpc, work, gone, patched>> /\ Kind(w)' = Kind(w) /\ Src(w)' = Src(w)
  <2>1. hpc[w] # "none" /\ pc[w] = "handling" /\ hpc[w] \in MidRemoval /\ Kind(w) = "remove"
    BY <1>3 DEF Removes, MidRemoval, Shape
  <2>2. CASE Ends(w) \/ Restart
    <3>1. \E W \in SUBSET Workers : w \in W /\ Forget(W)
      BY <2>2, EndFrame, RestartFrame
    <3>. QED
      BY <2>1, <3>1 DEF Forget, Tears, MidRemoval
  <2>3. CASE ~Ends(w) /\ ~Restart
    <3>1. hpc'[w] # "none" /\ hpc'[w] # "get"
      <4>1. \A x \in Workers : x = w
        BY DEF OneWorker
      <4>2. CASE UNCHANGED vars
        BY <2>1, <4>2 DEF vars, MidRemoval
      <4>3. CASE Requests \/ (\E j \in Jobs : DeleteSource(j) \/ AdminJob(j) \/ Time(j))
        BY <2>1, <4>3, OutsideFrame DEF MidRemoval
      <4>4. ~Loops(w)
        BY <2>1, LoopFrame
      <4>. QED
        BY <2>3, <4>1, <4>2, <4>3, <4>4, NextSteps
    <3>. QED
      BY <3>1, HandBetween
  <2>. QED
    BY <2>2, <2>3
<1>4. ASSUME NEW w \in Workers, Removes(w, MidRemoval)'
      PROVE  UNCHANGED <<hpc, work, gone, patched>> /\ Kind(w)' = Kind(w) /\ Src(w)' = Src(w)
  <2>1. hpc'[w] # "none" /\ hpc'[w] # "get"
    BY <1>4 DEF Removes, MidRemoval
  <2>. QED
    BY <2>1, HandBetween
<1>5. ASSUME NEW s \in Intact', \A w \in Workers : Removes(w, MidRemoval)' => Src(w)' # s PROVE Sound(s)'
  <2>1. s \in Intact /\ s \notin torn'
    BY <1>1, <1>2 DEF Intact
  <2>2. \A w \in Workers : Removes(w, MidRemoval) => Src(w) # s
    BY <1>3, <1>5, <2>1 DEF Removes
  <2>3. Sound(s)
    BY <2>1, <2>2 DEF IndexInv
  <2>. QED
    BY <1>1, <1>2, <2>3 DEF Sound
<1>6. ASSUME NEW w \in Workers, Removes(w, MidRemoval)', Src(w)' \in Intact' PROVE ClearOK(w)'
  <2>1. UNCHANGED <<hpc, work, gone, patched>> /\ Kind(w)' = Kind(w) /\ Src(w)' = Src(w)
    BY <1>4, <1>6
  <2>2. Removes(w, MidRemoval) /\ Src(w) \in Intact
    BY <1>1, <1>2, <1>6, <2>1 DEF Removes, Intact
  <2>3. ClearOK(w)
    BY <2>2 DEF IndexInv
  <2>. QED
    BY <1>1, <1>2, <2>1, <2>3 DEF ClearOK, Todo
<1>. QED
  BY <1>5, <1>6 DEF IndexInv

LEMMA IndexNext ==
  ASSUME OneWorker
  PROVE  WikiInv /\ PagesInv /\ IndexInv /\ [Next]_vars => IndexInv'
<1> SUFFICES ASSUME WikiInv, PagesInv, IndexInv, [Next]_vars PROVE IndexInv'
  OBVIOUS
<1>1. ASSUME NEW w \in Workers, Works(w), Kind(w) = "remove" PROVE IndexInv'
  <2>1. Src(w)' = Src(w)
    BY <1>1, SameHandler
  <2>2. ASSUME NEW s \in Intact', ~(Removes(w, MidRemoval)' /\ Src(w)' = s) PROVE Sound(s)'
    BY <1>1, <2>1, <2>2, IndexBeside, IndexRemoval
  <2>3. ASSUME Removes(w, MidRemoval)', Src(w)' \in Intact' PROVE ClearOK(w)'
    BY <1>1, <2>1, <2>3, IndexRemoval
  <2>. QED
    BY <1>1, <2>2, <2>3, IndexAfter
<1>. QED
  BY <1>1, IndexByOthers, IndexBetween

\* With one worker, search finds no page by a source whose row is gone, unless its removal
\* was interrupted after its first write, an update of the index failed, or an agent had
\* taken the source off a page.
THEOREM RemovedStayUnsearchable ==
  ASSUME OneWorker
  PROVE  Spec => []RemovedIsUnsearchable
<1>1. Init => WikiInv /\ PagesInv /\ IndexInv
  BY WikiInit, PagesInit, IndexInit
<1>2. WikiInv /\ PagesInv /\ IndexInv /\ [Next]_vars => (WikiInv /\ PagesInv /\ IndexInv)'
  BY WikiNext, PagesNext, IndexNext
<1>3. WikiInv /\ PagesInv /\ IndexInv => RemovedIsUnsearchable
  <2> SUFFICES ASSUME WikiInv, PagesInv, IndexInv, NEW s \in Intact, row[s] = 0 PROVE \A p \in Pages : s \notin index[p]
    BY DEF RemovedIsUnsearchable, Intact
  <2>1. \A w \in Workers : Removes(w, MidRemoval) => Src(w) # s
    BY DEF PagesInv, HandOK, RowOK, Removes, MidRemoval, RemovePlaces
  <2>2. Sound(s)
    BY <2>1 DEF IndexInv
  <2>. QED
    BY <2>2 DEF Sound, PagesInv, RemovedIsUnreferenced, Intact
<1>. QED
  BY <1>1, <1>2, <1>3, PTL DEF Spec

-----------------------------------------------------------------------------
(* A rebuild of the index, with one worker: every page of the work tree is *)
(* listed, then cleared, then in its batch, then indexed or skipped.       *)

Rebuilt(p) == index[p] = tree[p] \/ p \in skipped

RebuildOK(w) == Kind(w) = "reembed" => \A p \in Pages : tree[p] # {} =>
  /\ hpc[w] = "clear" => p \in gone[w] \/ p \in patched[w]
  /\ hpc[w] = "upsert" => p \in Todo(w) \/ Rebuilt(p)
  /\ hpc[w] = "stop" => Rebuilt(p)

RebuildInv == \A w \in Workers : hpc[w] # "none" => RebuildOK(w)

LEMMA RebuildHandler ==
  ASSUME WikiInv, PagesInv, RebuildInv, NEW w \in Workers, Works(w)
  PROVE  RebuildOK(w)'
<1>. Types /\ Shape /\ HandOK(w) /\ RebuildOK(w)
  BY SameHandler DEF WikiInv, PagesInv, RebuildInv
<1>1. /\ Kind(w)' = Kind(w) /\ PlaceOK(w)
      /\ \A p \in Todo(w) : p \in Pages /\ work[w][p] \in SUBSET Slugs
  BY SameHandler
<1> SUFFICES ASSUME Kind(w) = "reembed" PROVE RebuildOK(w)'
  BY <1>1 DEF RebuildOK
<1>. USE DEF RebuildOK, Rebuilt, At, Goto
<1>2. CASE Get(w)
  BY <1>1, <1>2 DEF Get, Types
<1>3. CASE ListPages(w)
  BY <1>3 DEF ListPages, wiki, Types
<1>4. CASE ClearRow(w)
  <2>1. PICK p \in gone[w] : /\ gone' = [gone EXCEPT ![w] = @ \ {p}]
                             /\ patched' = [patched EXCEPT ![w] = @ \cup {p}]
    BY <1>4 DEF ClearRow
  <2>2. UNCHANGED <<tree, hpc>> /\ hpc[w] = "clear"
    BY <1>4 DEF ClearRow, wiki
  <2>. QED
    BY <2>1, <2>2 DEF Types
<1>5. CASE ReadBatch(w)
  <2>1. /\ UNCHANGED <<tree, index, skipped>> /\ hpc[w] = "clear" /\ gone[w] = {} /\ hpc'[w] = "upsert"
        /\ work'[w] = Restrict(tree, Batch(w))
    BY <1>5 DEF ReadBatch, wiki, history, Types
  <2>2. Todo(w)' = Batch(w)
    BY <2>1 DEF Todo, Restrict
  <2>. QED
    BY <2>1, <2>2 DEF Batch
<1>6. CASE Upsert(w)
  <2>1. PICK p \in Todo(w) : index' = [index EXCEPT ![p] = work[w][p]] /\ Drop(w, p)
    BY <1>6 DEF Upsert
  <2>2. UNCHANGED <<tree, skipped, hpc>> /\ hpc[w] = "upsert"
    BY <1>6 DEF Upsert, wiki
  <2>3. Todo(w)' = Todo(w) \ {p}
    BY <2>1, Dropped
  <2>4. work[w][p] = tree[p]
    BY <2>1, <2>2 DEF HandOK, UpsertOK
  <2>5. \A q \in Pages : index'[q] = IF q = p THEN tree[p] ELSE index[q]
    BY <1>1, <2>1, <2>4 DEF Types
  <2>. QED
    BY <2>2, <2>3, <2>5
<1>7. CASE SkipPage(w)
  <2>1. PICK p \in Todo(w) : skipped' = skipped \cup {p} /\ Drop(w, p)
    BY <1>7 DEF SkipPage
  <2>2. UNCHANGED <<tree, index, hpc>> /\ hpc[w] = "upsert"
    BY <1>7 DEF SkipPage, wiki
  <2>3. Todo(w)' = Todo(w) \ {p}
    BY <2>1, Dropped
  <2>. QED
    BY <2>1, <2>2, <2>3
<1>8. CASE AllUpserted(w)
  <2>1. UNCHANGED <<tree, index, skipped>> /\ hpc[w] = "upsert" /\ Todo(w) = {} /\ hpc'[w] = "stop"
    BY <1>8 DEF AllUpserted, wiki, history, Types
  <2>. QED
    BY <2>1
<1>9. hpc[w] \in {"get", "list", "clear", "upsert", "stop"}
  BY <1>1 DEF PlaceOK, ReembedPlaces
<1>10. ~WriteFile(w) /\ ~Commit(w) /\ ~ReadTouched(w) /\ ~Distill(w) /\ ~MarkCommitted(w) /\ ~MarkDone(w)
       /\ ~PlanRemoval(w) /\ ~DeleteRow(w) /\ ~AllRowsDeleted(w) /\ ~EmbedFails(w) /\ ~DeleteBlob(w)
       /\ ~DeleteSourceRow(w)
  BY <1>9 DEF WriteFile, Commit, ReadTouched, Distill, MarkCommitted, MarkDone, PlanRemoval, DeleteRow,
              AllRowsDeleted, EmbedFails, DeleteBlob, DeleteSourceRow
<1>. QED
  BY <1>2, <1>3, <1>4, <1>5, <1>6, <1>7, <1>8, <1>10 DEF Works

LEMMA RebuildNext ==
  ASSUME OneWorker
  PROVE  WikiInv /\ PagesInv /\ RebuildInv /\ [Next]_vars => RebuildInv'
<1> SUFFICES ASSUME WikiInv, PagesInv, RebuildInv, [Next]_vars, NEW w \in Workers, hpc'[w] # "none"
             PROVE  RebuildOK(w)'
  BY DEF RebuildInv
<1>1. CASE Works(w)
  BY <1>1, RebuildHandler
<1>2. CASE ~Works(w)
  <2>1. CASE hpc'[w] = "get"
    BY <2>1 DEF RebuildOK
  <2>2. CASE hpc'[w] # "get"
    <3>1. UNCHANGED <<hpc, work, gone, patched, index, skipped>> /\ Kind(w)' = Kind(w)
      BY <1>2, <2>2, HandBetween
    <3>2. UNCHANGED tree
      <4>1. ~(\E x \in Workers : Works(x))
        BY <1>2 DEF OneWorker
      <4>. QED
        BY <4>1, PagesBetween DEF WikiInv
    <3>. QED
      BY <3>1, <3>2 DEF RebuildInv, RebuildOK, Rebuilt, Todo
  <2>. QED
    BY <2>1, <2>2
<1>. QED
  BY <1>1, <1>2

\* With one worker, a reembed that ends without an error has left the row of every page of
\* the work tree as the tree has it, but for the pages whose upsert failed.
THEOREM ReembedAlwaysRebuilds ==
  ASSUME OneWorker
  PROVE  Spec => []ReembedRebuilds
<1>1. Init => WikiInv /\ PagesInv /\ RebuildInv
  BY WikiInit, PagesInit DEF Init, RebuildInv
<1>2. WikiInv /\ PagesInv /\ RebuildInv /\ [Next]_vars => (WikiInv /\ PagesInv /\ RebuildInv)'
  BY WikiNext, PagesNext, RebuildNext
<1>3. RebuildInv => ReembedRebuilds
  BY DEF RebuildInv, RebuildOK, Rebuilt, ReembedRebuilds, At
<1>. QED
  BY <1>1, <1>2, <1>3, PTL DEF Spec
=============================================================================
