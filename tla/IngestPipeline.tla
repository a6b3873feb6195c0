--------------------------- MODULE IngestPipeline ---------------------------
(***************************************************************************)
(* The ingest pipeline: the state machine a source walks through           *)
(* (qpedia-ingest/src/handlers/ingest.rs with classify.rs, distill.rs and  *)
(* embed.rs), the requests that start it (upload, replace and resume in    *)
(* qpedia-api/src/routes.rs), composed with the job queue that drives it.  *)
(*                                                                         *)
(* One action is one SQL statement, one blob call or one git commit of a   *)
(* handler or a request, so every await is a point where another worker, a *)
(* request or a crash can step in.  Contents are abstracted to versions:   *)
(* version v of a source's bytes gives version v of its text, its wiki     *)
(* page and its index row; 0 is "none yet".  commit_bundle is one step     *)
(* here.                                                                   *)
(***************************************************************************)
EXTENDS Integers, FiniteSets

CONSTANTS
  Sources,      \* rows of the sources table, present or future
  SourceOf,     \* payload.source_id of every job, [Jobs -> Sources]
  MaxVersion,   \* bound: how often the bytes of a source change, plus one
  Unsupported,  \* versions whose mime has no extractor
  LlmConfigs,   \* may a boot find an LLM configured: a subset of BOOLEAN
  Embedder,     \* is an embedder configured
  Jobs, Workers, MaxAttempts, FaultKinds, MaxFaults, NoJob, NoWorker, NoSource

VARIABLES
  state, attempt, locked_by, expired, due, ahead, pc, cur, marked, overrun, faults

\* Every job of this module is an ingest job.
Q == INSTANCE JobQueue WITH IngestJobs <- Jobs

Versions == 0..MaxVersion

ASSUME IngestAssumption ==
  /\ Q!JobQueueAssumption
  /\ SourceOf \in [Jobs -> Sources]
  /\ MaxVersion \in Nat \ {0}
  /\ Unsupported \subseteq Versions
  /\ LlmConfigs \subseteq BOOLEAN /\ LlmConfigs # {}
  /\ Embedder \in BOOLEAN
  /\ NoSource \notin Sources

VARIABLES
  status,     \* sources.status; "absent" before the INSERT
  sha,        \* sources.sha256, as a version
  bytes,      \* the original blob
  text,       \* extracted.txt
  page,       \* the source's page in the wiki repository
  head,       \* the source whose commit is HEAD
  index,      \* the source's row in wiki_pages
  req,        \* the upload, replace or resume request under way for the source
  llm,        \* this process has an LLM
  hpc,        \* where the handler of each worker is
  before,     \* its local variable `before`
  ver,        \* the version it read last: of the row, then of the blob or page
  touched,    \* the source whose pages embed_changed_pages found in HEAD
  distilled,  \* history: version the agent last finished with
  raced,      \* history: sources replaced while a handler was at work on them
  doubled,    \* history: sources two handlers were at work on at once
  cut,        \* history: sources whose request or failure mark a fault cut off
  crossed     \* history: two sources, where a handler of one embedded the other's commit

queueVars == <<state, attempt, locked_by, expired, due, ahead, pc, cur, marked, overrun, faults>>
stores == <<sha, bytes, text, page, head, index, distilled>>
handler == <<hpc, before, ver, touched>>
locals == <<before, ver, touched>>
history == <<raced, doubled, cut, crossed>>
vars == <<queueVars, status, stores, req, llm, handler, history>>

\* SourceStatus, without the variants no code writes.
Statuses == {"absent", "pending", "extracting", "extracted", "classifying", "classified",
  "agent_distilling", "committed", "embedding", "done", "tainted", "failed"}
Terminal == {"done", "tainted", "failed"}
Requests == {"none", "put", "row", "enqueue", "resume"}
Places == {"none", "get", "extract", "extract_read", "extract_put", "extract_done",
  "unsupported", "classify", "classify_read", "classify_done", "distill", "distill_read",
  "distill_commit", "distill_done", "embed", "embed_read", "embed_put", "embed_done",
  "taint", "stop", "reread"}

TypeOK ==
  /\ Q!TypeOK
  /\ status \in [Sources -> Statuses]
  /\ sha \in [Sources -> Versions] /\ bytes \in [Sources -> Versions]
  /\ text \in [Sources -> Versions] /\ page \in [Sources -> Versions]
  /\ index \in [Sources -> Versions] /\ distilled \in [Sources -> Versions]
  /\ head \in Sources \cup {NoSource}
  /\ req \in [Sources -> Requests]
  /\ llm \in BOOLEAN
  /\ hpc \in [Workers -> Places]
  /\ before \in [Workers -> Statuses]
  /\ ver \in [Workers -> Versions]
  /\ touched \in [Workers -> Sources \cup {NoSource}]
  /\ raced \subseteq Sources /\ doubled \subseteq Sources
  /\ cut \subseteq Sources /\ crossed \subseteq Sources

Zero == [s \in Sources |-> 0]

Init ==
  /\ Q!Init
  /\ status = [s \in Sources |-> "absent"]
  /\ sha = Zero /\ bytes = Zero /\ text = Zero
  /\ page = Zero /\ index = Zero /\ distilled = Zero
  /\ head = NoSource
  /\ req = [s \in Sources |-> "none"]
  /\ llm \in LlmConfigs
  /\ hpc = [w \in Workers |-> "none"]
  /\ before = [w \in Workers |-> "absent"]
  /\ ver = [w \in Workers |-> 0]
  /\ touched = [w \in Workers |-> NoSource]
  /\ raced = {}
  /\ doubled = {}
  /\ cut = {}
  /\ crossed = {}

-----------------------------------------------------------------------------
(* Requests.  Bounds: one request per source is under way at a time, and   *)
(* one begins only while a job of the source is left for it to enqueue.    *)

JobLeft(s) == \E j \in Jobs : SourceOf[j] = s /\ state[j] = "absent"

Pass(s, from, to) == req[s] = from /\ req' = [req EXCEPT ![s] = to]

\* upload_source up to insert_source.
UploadInsert(s) ==
  /\ status[s] = "absent"
  /\ JobLeft(s)
  /\ status' = [status EXCEPT ![s] = "pending"]
  /\ sha' = [sha EXCEPT ![s] = 1]
  /\ Pass(s, "none", "put")
  /\ UNCHANGED <<queueVars, bytes, text, page, head, index, distilled, llm, handler, history>>

\* upload_source stores the original.
UploadPut(s) ==
  /\ Pass(s, "put", "enqueue")
  /\ bytes' = [bytes EXCEPT ![s] = sha[s]]
  /\ UNCHANGED <<queueVars, status, sha, text, page, head, index, distilled, llm, handler, history>>

\* replace_source up to blob.put: the same bytes are a no-op, new ones are stored.
ReplacePut(s) ==
  /\ status[s] # "absent"
  /\ JobLeft(s)
  /\ Pass(s, "none", "row")
  /\ \E v \in 1..MaxVersion :
       /\ v > sha[s]
       /\ bytes' = [bytes EXCEPT ![s] = v]
  /\ UNCHANGED <<queueVars, status, sha, text, page, head, index, distilled, llm, handler, history>>

InHand(s) == \E w \in Workers : pc[w] = "handling" /\ SourceOf[cur[w]] = s

\* replace_source_blob.
ReplaceRow(s) ==
  /\ Pass(s, "row", "enqueue")
  /\ sha' = [sha EXCEPT ![s] = bytes[s]]
  /\ status' = [status EXCEPT ![s] = "pending"]
  /\ raced' = IF InHand(s) THEN raced \cup {s} ELSE raced
  /\ UNCHANGED <<queueVars, bytes, text, page, head, index, distilled, llm, handler, doubled, cut, crossed>>

\* The WHERE clause of list_stalled; any source may be old enough.
Stalled(s) == status[s] \notin Terminal \cup {"absent"}

\* resume_stalled_sources lists the source.
ResumeList(s) ==
  /\ Stalled(s)
  /\ JobLeft(s)
  /\ Pass(s, "none", "resume")
  /\ UNCHANGED <<queueVars, status, stores, llm, handler, history>>

\* The last step of all three requests: enqueue an ingest job.
RequestEnqueue(s) ==
  /\ Pass(s, "enqueue", "none") \/ Pass(s, "resume", "none")
  /\ \E j \in Jobs : SourceOf[j] = s /\ Q!Enqueue(j)
  /\ UNCHANGED <<status, stores, llm, handler, history>>

\* A statement of a request fails, or its client is gone: the rest is not done.
RequestDies(s) ==
  /\ req[s] # "none"
  /\ Q!Fault("db")
  /\ req' = [req EXCEPT ![s] = "none"]
  /\ cut' = IF req[s] = "resume" THEN cut ELSE cut \cup {s}
  /\ UNCHANGED <<state, attempt, locked_by, expired, due, ahead, pc, cur, marked, overrun>>
  /\ UNCHANGED <<status, stores, llm, handler, raced, doubled, crossed>>

-----------------------------------------------------------------------------
(* The handler: ingest::run and the phases it calls.                       *)

At(w, place) == pc[w] = "handling" /\ hpc[w] = place
Goto(w, place) == hpc' = [hpc EXCEPT ![w] = place]
Src(w) == SourceOf[cur[w]]

\* A step of the handler that changes no row, blob or page.
Local(w, from, to) ==
  /\ At(w, from) /\ Goto(w, to)
  /\ UNCHANGED <<queueVars, status, stores, req, llm, history>>

\* update_status
Write(w, from, st, to) ==
  /\ At(w, from) /\ Goto(w, to)
  /\ status' = [status EXCEPT ![Src(w)] = st]
  /\ UNCHANGED <<queueVars, stores, req, llm, locals, history>>

Claim(w, j) ==
  /\ Q!Claim(w, j)
  /\ Goto(w, "get")
  /\ doubled' = IF InHand(SourceOf[j]) THEN doubled \cup {SourceOf[j]} ELSE doubled
  /\ UNCHANGED <<status, stores, req, llm, locals, raced, cut, crossed>>

\* Seeded fault: a source found in the middle of its extraction is taken for extracted.
EntrySkipping(st) ==
  CASE st \in {"pending", "failed"} -> "extract"
    [] st \in {"extracting", "extracted", "classifying"} -> "classify"
    [] st \in {"classified", "agent_distilling"} -> "distill"
    [] st \in {"committed", "embedding"} -> "embed"
    [] OTHER -> "stop"

\* Seeded fault: a source found in the middle of its upserts is taken for embedded.
EntryEmbedded(st) ==
  CASE st \in {"pending", "extracting", "failed"} -> "extract"
    [] st \in {"extracted", "classifying"} -> "classify"
    [] st \in {"classified", "agent_distilling"} -> "distill"
    [] st = "committed" -> "embed"
    [] st = "embedding" -> "embed_done"
    [] OTHER -> "stop"

\* The phase step_once enters for a status.
Entry(st) ==
  CASE st \in {"pending", "extracting", "failed"} -> "extract"
    [] st \in {"extracted", "classifying"} -> "classify"
    [] st \in {"classified", "agent_distilling"} -> "distill"
    [] st \in {"committed", "embedding"} -> "embed"
    [] OTHER -> "stop"

\* The top of the loop in run, and step_once's match on the status it read.  The
\* extract phase takes the mime from the row read here, the bytes from the blob.
Get(w) ==
  /\ Local(w, "get", CASE Entry(status[Src(w)]) \in {"classify", "distill"} /\ ~llm -> "taint"
                       [] Entry(status[Src(w)]) = "embed" /\ ~Embedder -> "embed_done"
                       [] OTHER -> Entry(status[Src(w)]))
  /\ before' = [before EXCEPT ![w] = status[Src(w)]]
  /\ ver' = [ver EXCEPT ![w] = IF Entry(status[Src(w)]) = "extract" THEN sha[Src(w)] ELSE 0]
  /\ UNCHANGED touched

Read(w, from, to, v) ==
  /\ Local(w, from, to)
  /\ v # 0
  /\ ver' = [ver EXCEPT ![w] = v]
  /\ UNCHANGED <<before, touched>>

\* put_text
PutText(w) ==
  /\ At(w, "extract_put") /\ Goto(w, "extract_done")
  /\ text' = [text EXCEPT ![Src(w)] = ver[w]]
  /\ ver' = [ver EXCEPT ![w] = 0]
  /\ UNCHANGED <<queueVars, status, sha, bytes, page, head, index, distilled, req, llm,
                 before, touched, history>>

\* extract_phase: status, blob.get, the extractor, put_text, status.
Extract(w) ==
  \/ Write(w, "extract", "extracting", "extract_read")
  \/ Read(w, "extract_read",
          IF ver[w] \in Unsupported THEN "unsupported" ELSE "extract_put", bytes[Src(w)])
  \/ Write(w, "unsupported", "tainted", "reread")
  \/ PutText(w)
  \/ Write(w, "extract_done", "extracted", "reread")

\* classify::run: status, the text, the LLM's answer (or none: empty text), status.
Classify(w) ==
  \/ Write(w, "classify", "classifying", "classify_read")
  \/ /\ Local(w, "classify_read", "classify_done")
     /\ text[Src(w)] # 0
     /\ UNCHANGED locals
  \/ Write(w, "classify_done", "classified", "reread")

\* commit_bundle; an empty bundle commits nothing.
CommitBundle(w) ==
  /\ At(w, "distill_commit") /\ Goto(w, "distill_done")
  /\ \/ page' = [page EXCEPT ![Src(w)] = ver[w]] /\ head' = Src(w)
     \/ UNCHANGED <<page, head>>
  /\ distilled' = [distilled EXCEPT ![Src(w)] = ver[w]]
  /\ ver' = [ver EXCEPT ![w] = 0]
  /\ UNCHANGED <<queueVars, status, sha, bytes, text, index, req, llm, before, touched, history>>

\* distill::run: status, the agent reads the text, the bundle is committed, status.
Distill(w) ==
  \/ Write(w, "distill", "agent_distilling", "distill_read")
  \/ Read(w, "distill_read", "distill_commit", text[Src(w)])
  \/ CommitBundle(w)
  \/ Write(w, "distill_done", "committed", "reread")

\* embed_changed_pages finds the pages HEAD touched, whosever they are, reads them ...
ReadChangedPages(w) ==
  /\ At(w, "embed_read")
  /\ Goto(w, IF head = NoSource THEN "embed_done" ELSE "embed_put")
  /\ touched' = [touched EXCEPT ![w] = head]
  /\ ver' = [ver EXCEPT ![w] = IF head = NoSource THEN 0 ELSE page[head]]
  /\ crossed' = IF head \in {NoSource, Src(w)} THEN crossed ELSE crossed \cup {head, Src(w)}
  /\ UNCHANGED <<queueVars, status, stores, req, llm, before, raced, doubled, cut>>

\* ... and upserts their rows.
UpsertPages(w) ==
  /\ At(w, "embed_put") /\ Goto(w, "embed_done")
  /\ index' = [index EXCEPT ![touched[w]] = ver[w]]
  /\ touched' = [touched EXCEPT ![w] = NoSource]
  /\ ver' = [ver EXCEPT ![w] = 0]
  /\ UNCHANGED <<queueVars, status, sha, bytes, text, page, head, distilled, req, llm,
                 before, history>>

\* embed::run: status, the pages and their rows, status.
Embed(w) ==
  \/ Write(w, "embed", "embedding", "embed_read")
  \/ ReadChangedPages(w) \/ UpsertPages(w)
  \/ Write(w, "embed_done", "done", "reread")

\* Seeded fault: the unused SourceStatus::Dead is written.
TaintDead(w) == Write(w, "taint", "dead", "stop")

\* step_once without an LLM.
Taint(w) == Write(w, "taint", "tainted", "stop")

\* The handler and its local variables are gone.
Forget(w) ==
  /\ Goto(w, "none")
  /\ before' = [before EXCEPT ![w] = "absent"]
  /\ ver' = [ver EXCEPT ![w] = 0]
  /\ touched' = [touched EXCEPT ![w] = NoSource]

Return(w, result) ==
  /\ Q!HandlerReturns(w)
  /\ pc'[w] = result
  /\ Forget(w)
  /\ UNCHANGED <<status, stores, req, llm, history>>

\* Seeded fault: one phase per job.
RereadOnce(w) == At(w, "reread") /\ Return(w, "returned_ok")

\* The loop re-reads the status, and ends when the step left it as it was.
Reread(w) ==
  \/ /\ Local(w, "reread", "get")
     /\ status[Src(w)] # before[w]
     /\ UNCHANGED locals
  \/ /\ At(w, "reread")
     /\ status[Src(w)] = before[w]
     /\ Return(w, "returned_ok")

Stop(w) == At(w, "stop") /\ Return(w, "returned_ok")

\* Any await of the handler can fail, and `?` ends it.
HandlerFails(w) == pc[w] = "handling" /\ Return(w, "returned_err")

HandlerStep(w) ==
  \/ Get(w) \/ Extract(w) \/ Classify(w) \/ Distill(w) \/ Embed(w)
  \/ Taint(w) \/ Reread(w) \/ Stop(w)

-----------------------------------------------------------------------------
(* The loop around the handler, time, and faults.                          *)

Settle(w) ==
  /\ Q!CompleteJob(w) \/ Q!FailJob(w)
  /\ UNCHANGED <<status, stores, req, llm, handler, history>>

\* Seeded fault: the dead job's source keeps its status.
MarkNothing(w) ==
  /\ Q!MarkSourceFailed(w)
  /\ UNCHANGED <<status, stores, req, llm, handler, history>>

\* update_status(Failed) of a dead job's source, whatever its status is by then.
MarkSourceFailed(w) ==
  /\ Q!MarkSourceFailed(w)
  /\ status' = [status EXCEPT ![Src(w)] = "failed"]
  /\ UNCHANGED <<stores, req, llm, handler, history>>

Marking == {Src(w) : w \in {x \in Workers : pc[x] = "marking"}}

VerdictLost(w) ==
  /\ Q!VerdictLost(w)
  /\ cut' = IF pc[w] = "marking" THEN cut \cup {Src(w)} ELSE cut
  /\ UNCHANGED <<status, stores, req, llm, handler, raced, doubled, crossed>>

Panic(w) ==
  /\ Q!Panic(w)
  /\ Forget(w)
  /\ UNCHANGED <<status, stores, req, llm, history>>

\* The process dies with its handlers and requests, and boots with the
\* configuration of the day.
Restart ==
  /\ Q!Restart
  /\ hpc' = [w \in Workers |-> "none"]
  /\ before' = [w \in Workers |-> "absent"]
  /\ ver' = [w \in Workers |-> 0]
  /\ touched' = [w \in Workers |-> NoSource]
  /\ req' = [s \in Sources |-> "none"]
  /\ llm' \in LlmConfigs
  /\ cut' = cut \cup Marking \cup {s \in Sources : req[s] \notin {"none", "resume"}}
  /\ UNCHANGED <<status, stores, raced, doubled, crossed>>

Time(j) ==
  /\ Q!DelayElapses(j) \/ Q!LeaseLapses(j)
  /\ UNCHANGED <<status, stores, req, llm, handler, history>>

LeaseOverrun(j) ==
  /\ Q!LeaseOverrun(j)
  /\ UNCHANGED <<status, stores, req, llm, handler, history>>

RequestStep(s) == UploadPut(s) \/ ReplaceRow(s) \/ RequestEnqueue(s)

WorkerStep(w) ==
  \/ \E j \in Jobs : Claim(w, j)
  \/ HandlerStep(w)
  \/ Settle(w)
  \/ MarkSourceFailed(w)

Next ==
  \/ \E s \in Sources : UploadInsert(s) \/ ReplacePut(s) \/ ResumeList(s) \/ RequestStep(s) \/ RequestDies(s)
  \/ \E w \in Workers : WorkerStep(w) \/ HandlerFails(w) \/ VerdictLost(w) \/ Panic(w)
  \/ \E j \in Jobs : Time(j) \/ LeaseOverrun(j)
  \/ Restart

Spec == Init /\ [][Next]_vars

\* Workers and requests keep going, time passes, handlers come to an end.
Fairness ==
  /\ \A w \in Workers : WF_vars(WorkerStep(w))
  /\ \A s \in Sources : WF_vars(RequestStep(s))
  /\ \A j \in Jobs : WF_vars(Time(j))

FairSpec == Spec /\ Fairness

-----------------------------------------------------------------------------
(* Properties.                                                             *)

\* What a source's text and pages should be made from.
Current(s) == {sha[s], bytes[s]}

\* Version v is no older than the row says, and current; only after a replacement
\* that was cut off with its bytes stored may it be what that one left.
Fresh(s, v) == v >= sha[s] /\ (s \in cut \/ v \in Current(s))

\* Unless the source was replaced under a running handler, no phase is skipped:
\* whatever crashed, failed, was retried or ran twice, a source past extraction
\* has its text from the current bytes and a source past distillation had the
\* current text distilled (ingest.rs, step_once: phases re-enter by status).
NothingSkipped == \A s \in Sources \ raced :
  /\ status[s] \notin Terminal \cup {"absent", "pending", "extracting"} => Fresh(s, text[s])
  /\ status[s] \in {"committed", "embedding", "done"} => Fresh(s, distilled[s])

\* A source that is done has its committed page in the search index: embed.rs embeds
\* the pages of HEAD, so HEAD has to be this source's commit by then.  Whatever was
\* retried, crashed or replaced, it is, unless a handler met another source's commit
\* there (FailedUpsertIsRetried: the code does not find out) or two handlers were at work
\* on the source at once.
DoneIsIndexed == \A s \in Sources \ (doubled \cup crossed) :
  status[s] = "done" /\ Embedder => index[s] = page[s]

\* Something will move the source on, without a resume: a job, a request about to
\* enqueue one, or a worker about to mark it failed.
Driven(s) ==
  \/ req[s] \notin {"none", "resume"}
  \/ s \in Marking
  \/ \E j \in Jobs : SourceOf[j] = s /\ state[j] \in {"queued", "running"}

\* Sources of jobs that one worker may have reclaimed from another at work on them:
\* the verdict of either ends the job for both (jobs.rs, complete_job and fail_job).
Reclaimed == {SourceOf[j] : j \in overrun}

\* A source is never left in mid-pipeline with nothing to drive it, unless a
\* fault cut off its request or the runner's update to 'failed', or a lease was too
\* short for its handler.  The handlers of two jobs at once, either of which may end
\* early because the other moved the status (ingest.rs, run), do not change that.
NeverForgotten == \A s \in Sources \ (cut \cup Reclaimed) :
  status[s] \in Terminal \cup {"absent"} \/ Driven(s)

\* What a source is tainted for: this process has no LLM, or the bytes have no
\* extractor (or had none before the replacement that a running handler overwrote).
Lacking(s) == ~llm \/ sha[s] \in Unsupported \/ s \in raced

\* A source under way comes to `done` or `failed`, or stops as `tainted` for want of an
\* LLM or an extractor and for nothing else, unless a fault cut it off or two handlers
\* kept moving it under each other.  Whether a tainted source goes on once it lacks
\* nothing is another question: see TaintedIsResumed.
SourceSettles == \A s \in Sources :
  status[s] \notin Terminal \cup {"absent"} ~>
    \/ status[s] \in {"done", "failed"} \/ s \in cut \cup doubled
    \/ status[s] = "tainted" /\ Lacking(s)
=============================================================================
