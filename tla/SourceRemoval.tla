--------------------------- MODULE SourceRemoval ---------------------------
(***************************************************************************)
(* The wiki of one tenant and the jobs that change it: ingest (its commit  *)
(* and embed phases), remove, reembed and lint                             *)
(* (qpedia-ingest/src/handlers), over the git work tree and HEAD           *)
(* (qpedia-store/src/wikirepo.rs), the wiki_pages table, the blobs and the *)
(* source rows, composed with the job queue that runs them.                *)
(*                                                                         *)
(* A page is abstracted to the source_ids of its frontmatter; no ids is no *)
(* page.  Pages without sources, index.md and log.md are left out, except  *)
(* that the line appended to log.md makes every remove bundle a change.    *)
(* Reading all pages is one step; writing is one step per file, and        *)
(* committing another, because a crash between them leaves the tree dirty. *)
(***************************************************************************)
EXTENDS Integers, FiniteSets, Functions

CONSTANTS
  Slugs,        \* sources.slug, the identity of a source for every job
  Pages,        \* paths of wiki pages
  FirstPages,   \* the wiki at the start, [Pages -> SUBSET Slugs]
  Citings,      \* bound: the source_ids an agent may write into a page
  MaxUploads,   \* bound: how many sources bear a slug one after the other
  KindOf,       \* jobs.kind, where "admin" stands for reembed or lint
  SlugOf,       \* payload.source_id, for ingest and remove jobs
  Jobs, Workers, MaxAttempts, FaultKinds, MaxFaults, NoJob, NoWorker

VARIABLES
  state, attempt, locked_by, expired, due, ahead, pc, cur, marked, overrun, faults

Q == INSTANCE JobQueue WITH IngestJobs <- {j \in Jobs : KindOf[j] = "ingest"}

ASSUME RemovalAssumption ==
  /\ Q!JobQueueAssumption
  /\ FirstPages \in [Pages -> SUBSET Slugs]
  /\ Citings \subseteq SUBSET Slugs \ {{}}
  /\ MaxUploads \in Nat \ {0}
  /\ KindOf \in [Jobs -> {"ingest", "remove", "admin"}]
  /\ SlugOf \in [Jobs -> Slugs]

VARIABLES
  row,      \* which upload the source row of a slug is, 0 without a row
  blob,     \* which upload's files the blob directory of a slug holds
  status,   \* sources.status, collapsed to what the wiki jobs tell apart
  tree,     \* the work tree of the wiki repository
  head,     \* the tree of HEAD
  changed,  \* pages the HEAD commit touched
  index,    \* wiki_pages.source_slugs, by path
  req,      \* the upload under way for a slug
  uploads,  \* how many sources have borne the slug
  admin,    \* jobs.kind of the admin jobs
  hpc,      \* where the handler of each worker is
  work,     \* its pages still to write, delete or upsert, with their contents
  gone,     \* its to_delete, the pages whose rows it has to delete
  patched,  \* its to_patch, by path
  asked,    \* history: the upload a remove job was asked to remove
  torn,     \* history: slugs whose removal was interrupted after its first write,
            \* or an uncommitted page of which was indexed
  missed,   \* history: slugs for whose removal a non-fatal index update failed
  skipped,  \* history: pages the last reembed could not upsert
  dropped   \* history: slugs an agent has taken off a page it rewrote

queueVars == <<state, attempt, locked_by, expired, due, ahead, pc, cur, marked, overrun, faults>>
rows == <<row, blob, status, req, uploads, admin>>
wiki == <<tree, head, changed>>
locals == <<work, gone, patched>>
history == <<asked, torn, missed, skipped, dropped>>
vars == <<queueVars, rows, wiki, index, hpc, locals, history>>

Uploads == 0..MaxUploads
Nothing == [p \in {} |-> {}]
Contents == UNION {[S -> SUBSET Slugs] : S \in SUBSET Pages}
Places == {"none", "get", "distill", "plan", "write", "commit", "committed", "embed", "upsert",
  "done", "rows", "patch", "blob", "sweep", "row", "list", "clear", "stop"}

TypeOK ==
  /\ Q!TypeOK
  /\ row \in [Slugs -> Uploads] /\ blob \in [Slugs -> Uploads] /\ uploads \in [Slugs -> Uploads]
  /\ status \in [Slugs -> {"none", "pending", "committed", "done", "failed"}]
  /\ \A s \in Slugs : row[s] = 0 <=> status[s] = "none"
  /\ tree \in [Pages -> SUBSET Slugs] /\ head \in [Pages -> SUBSET Slugs]
  /\ index \in [Pages -> SUBSET Slugs]
  /\ changed \subseteq Pages
  /\ req \in [Slugs -> {"none", "put", "enqueue"}]
  /\ admin \in [Jobs -> {"none", "reembed", "lint"}]
  /\ hpc \in [Workers -> Places]
  /\ work \in [Workers -> Contents]
  /\ gone \in [Workers -> SUBSET Pages] /\ patched \in [Workers -> SUBSET Pages]
  /\ asked \in [Jobs -> Uploads]
  /\ torn \subseteq Slugs /\ missed \subseteq Slugs /\ skipped \subseteq Pages
  /\ dropped \subseteq Slugs

\* Every slug's first source is ingested; the wiki and its index are in step.
Init ==
  /\ Q!Init
  /\ row = [s \in Slugs |-> 1] /\ blob = row /\ uploads = row
  /\ status = [s \in Slugs |-> "done"]
  /\ tree = FirstPages /\ head = FirstPages /\ index = FirstPages
  /\ changed = {}
  /\ req = [s \in Slugs |-> "none"]
  /\ admin = [j \in Jobs |-> "none"]
  /\ hpc = [w \in Workers |-> "none"]
  /\ work = [w \in Workers |-> Nothing]
  /\ gone = [w \in Workers |-> {}] /\ patched = [w \in Workers |-> {}]
  /\ asked = [j \in Jobs |-> 0]
  /\ torn = {} /\ missed = {} /\ skipped = {} /\ dropped = {}

-----------------------------------------------------------------------------
(* Requests.                                                               *)

JobLeft(kind, s) == \E j \in Jobs : KindOf[j] = kind /\ SlugOf[j] = s /\ state[j] = "absent"

\* upload_source of a file whose name yields the slug: unique_source_slug takes
\* the slug as it stands when no row bears it.
UploadInsert(s) ==
  /\ row[s] = 0 /\ req[s] = "none"
  /\ uploads[s] < MaxUploads
  /\ JobLeft("ingest", s)
  /\ uploads' = [uploads EXCEPT ![s] = @ + 1]
  /\ row' = [row EXCEPT ![s] = uploads'[s]]
  /\ status' = [status EXCEPT ![s] = "pending"]
  /\ req' = [req EXCEPT ![s] = "put"]
  /\ UNCHANGED <<queueVars, blob, admin, wiki, index, hpc, locals, history>>

UploadPut(s) ==
  /\ req[s] = "put"
  /\ req' = [req EXCEPT ![s] = "enqueue"]
  /\ blob' = [blob EXCEPT ![s] = uploads[s]]
  /\ UNCHANGED <<queueVars, row, status, uploads, admin, wiki, index, hpc, locals, history>>

UploadEnqueue(s) ==
  /\ req[s] = "enqueue"
  /\ req' = [req EXCEPT ![s] = "none"]
  /\ \E j \in Jobs : KindOf[j] = "ingest" /\ SlugOf[j] = s /\ Q!Enqueue(j)
  /\ UNCHANGED <<row, blob, status, uploads, admin, wiki, index, hpc, locals, history>>

\* delete_source: the row is there, and a remove job is enqueued.  A row that
\* goes between the two statements goes before the job runs either way.
DeleteSource(j) ==
  /\ KindOf[j] = "remove"
  /\ row[SlugOf[j]] # 0
  /\ Q!Enqueue(j)
  /\ asked' = [asked EXCEPT ![j] = row[SlugOf[j]]]
  /\ UNCHANGED <<rows, wiki, index, hpc, locals, torn, missed, skipped, dropped>>

\* admin_reembed and admin_lint.
AdminJob(j) ==
  /\ KindOf[j] = "admin"
  /\ Q!Enqueue(j)
  /\ \E kind \in {"reembed", "lint"} : admin' = [admin EXCEPT ![j] = kind]
  /\ UNCHANGED <<row, blob, status, req, uploads, wiki, index, hpc, locals, history>>

-----------------------------------------------------------------------------
(* Steps every handler is made of.                                         *)

At(w, place) == pc[w] = "handling" /\ hpc[w] = place
Goto(w, place) == hpc' = [hpc EXCEPT ![w] = place]
Src(w) == SlugOf[cur[w]]
Kind(w) == IF KindOf[cur[w]] = "admin" THEN admin[cur[w]] ELSE KindOf[cur[w]]
Todo(w) == DOMAIN work[w]
Drop(w, p) == work' = [work EXCEPT ![w] = Restrict(work[w], Todo(w) \ {p})]

\* Seeded fault: the update inserts what it does not find.
SetStatusAlways(s, st) == status' = [status EXCEPT ![s] = st]

\* update_status: an UPDATE that finds no row changes nothing.
SetStatus(s, st) ==
  status' = IF row[s] = 0 THEN status ELSE [status EXCEPT ![s] = st]

Claim(w, j) ==
  /\ Q!Claim(w, j)
  /\ Goto(w, "get")
  /\ UNCHANGED <<rows, wiki, index, locals, history>>

\* The top of the four handlers.  ingest::run fails without a row.
Get(w) ==
  /\ At(w, "get")
  /\ \/ /\ Kind(w) = "ingest" /\ row[Src(w)] # 0
        /\ Goto(w, CASE status[Src(w)] = "done" -> "stop"
                     [] status[Src(w)] = "committed" -> "embed"
                     [] OTHER -> "distill")
     \/ Kind(w) = "remove" /\ Goto(w, IF row[Src(w)] = 0 THEN "sweep" ELSE "plan")
     \/ Kind(w) \in {"reembed", "lint"} /\ Goto(w, IF Kind(w) = "lint" THEN "commit" ELSE "list")
  /\ UNCHANGED <<queueVars, rows, wiki, index, locals, history>>

\* commit_bundle, one file of the bundle: the page is replaced whole.
WriteFile(w) ==
  /\ At(w, "write")
  /\ \E p \in Todo(w) :
       /\ tree' = [tree EXCEPT ![p] = work[w][p]]
       /\ dropped' = IF Kind(w) = "ingest" THEN dropped \cup (tree[p] \ work[w][p]) ELSE dropped
       /\ Drop(w, p)
       /\ Goto(w, IF Todo(w) = {p} THEN "commit" ELSE "write")
  /\ UNCHANGED <<queueVars, rows, head, changed, index, gone, patched, asked, torn, missed, skipped>>

\* commit_bundle, add -A and commit: whatever is in the tree.  A patch of the
\* agent changes the body of a page too.
Commit(w) ==
  /\ At(w, "commit")
  /\ head' = tree
  /\ changed' = {p \in Pages : tree[p] # head[p]} \cup
                (IF Kind(w) = "ingest" THEN patched[w] ELSE {})
  /\ Goto(w, CASE Kind(w) = "ingest" -> "committed"
               [] Kind(w) = "remove" -> "rows"
               [] OTHER -> "stop")
  /\ UNCHANGED <<queueVars, rows, tree, index, locals, history>>

\* embed_changed_pages up to the embedder: the pages HEAD touched, as they are.
ReadTouched(w) ==
  /\ At(w, "embed") \/ At(w, "patch")
  /\ work' = [work EXCEPT ![w] = Restrict(tree, {p \in changed : tree[p] # {}})]
  /\ Goto(w, "upsert")
  /\ UNCHANGED <<queueVars, rows, wiki, index, gone, patched, history>>

\* upsert_wiki_page.  The page was read from the work tree, committed or not.
Upsert(w) ==
  /\ At(w, "upsert")
  /\ \E p \in Todo(w) :
       /\ index' = [index EXCEPT ![p] = work[w][p]]
       /\ torn' = torn \cup (work[w][p] \ head[p])
       /\ Drop(w, p)
  /\ UNCHANGED <<queueVars, rows, wiki, hpc, gone, patched, asked, missed, skipped, dropped>>

AllUpserted(w) ==
  /\ At(w, "upsert") /\ Todo(w) = {}
  /\ Goto(w, CASE Kind(w) = "ingest" -> "done"
               [] Kind(w) = "remove" -> "blob"
               [] OTHER -> "stop")
  /\ UNCHANGED <<queueVars, rows, wiki, index, locals, history>>

-----------------------------------------------------------------------------
(* ingest, from distill on.                                                *)

\* The sources an agent can know of: its own, and those the pages name.
Seen(w) == {Src(w)} \cup UNION {tree[p] : p \in Pages}

\* distill::run: the agent reads the source's text and proposes pages whole.  Nothing
\* holds it to the source_ids a page had (prompt and validator look at none): it may
\* write any of the sources it knows of.  An empty bundle is no commit.
Plan(w, S) ==
  /\ \E c \in [S -> {C \in Citings : C \subseteq Seen(w)}] : work' = [work EXCEPT ![w] = c]
  /\ patched' = [patched EXCEPT ![w] = S]

Distill(w) ==
  /\ At(w, "distill")
  /\ blob[Src(w)] # 0
  /\ \E S \in SUBSET Pages :
       /\ Plan(w, S)
       /\ Goto(w, IF S = {} THEN "committed" ELSE "write")
  /\ UNCHANGED <<queueVars, rows, wiki, index, gone, history>>

MarkCommitted(w) ==
  /\ At(w, "committed")
  /\ SetStatus(Src(w), "committed")
  /\ Goto(w, "get")
  /\ UNCHANGED <<queueVars, row, blob, req, uploads, admin, wiki, index, locals, history>>

MarkDone(w) ==
  /\ At(w, "done")
  /\ SetStatus(Src(w), "done")
  /\ Goto(w, "stop")
  /\ UNCHANGED <<queueVars, row, blob, req, uploads, admin, wiki, index, locals, history>>

-----------------------------------------------------------------------------
(* remove.                                                                 *)

\* Seeded fault: shared pages are deleted with the source.
SharedNever(p, s) == FALSE

\* Other sources remain.
Shared(p, s) == tree[p] \ {s} # {}

\* Seeded fault: pages the source shares with others are not looked at.
AffectedAlone(s) == {p \in Pages : tree[p] = {s}}

\* Pages of the work tree whose source_ids name the source.
Affected(s) == {p \in Pages : s \in tree[p]}

\* run, steps 1 to 4: delete the pages of this source alone, patch the others.
PlanRemoval(w) ==
  LET s == Src(w)
      A == Affected(s)
  IN
  /\ At(w, "plan")
  /\ work' = [work EXCEPT ![w] = [p \in A |-> IF Shared(p, s) THEN tree[p] \ {s} ELSE {}]]
  /\ patched' = [patched EXCEPT ![w] = {p \in A : Shared(p, s)}]
  /\ gone' = [gone EXCEPT ![w] = {p \in A : ~Shared(p, s)}]
  /\ Goto(w, IF A = {} THEN "commit" ELSE "write")
  /\ UNCHANGED <<queueVars, rows, wiki, index, history>>

\* Step 6a: delete_wiki_page of a deleted page; an error is not fatal.
DeleteRow(w) ==
  /\ At(w, "rows")
  /\ \E p \in gone[w] :
       /\ \/ index' = [index EXCEPT ![p] = {}] /\ UNCHANGED missed
          \/ UNCHANGED index /\ missed' = missed \cup {Src(w)}
       /\ gone' = [gone EXCEPT ![w] = @ \ {p}]
  /\ UNCHANGED <<queueVars, rows, wiki, hpc, work, patched, asked, torn, skipped, dropped>>

\* Seeded fault: the patched pages are not embedded again.
AfterRowsNoPatch(w) == "blob"

\* Step 6b is for patched pages.
AfterRows(w) == IF patched[w] = {} THEN "blob" ELSE "patch"

AllRowsDeleted(w) ==
  /\ At(w, "rows") /\ gone[w] = {}
  /\ Goto(w, AfterRows(w))
  /\ UNCHANGED <<queueVars, rows, wiki, index, locals, history>>

\* Step 6b fails: not fatal either.
EmbedFails(w) ==
  /\ At(w, "patch") \/ At(w, "upsert")
  /\ Kind(w) = "remove"
  /\ missed' = missed \cup {Src(w)}
  /\ work' = [work EXCEPT ![w] = Nothing]
  /\ Goto(w, "blob")
  /\ UNCHANGED <<queueVars, rows, wiki, index, gone, patched, asked, torn, skipped, dropped>>

\* Seeded fault: every removal ends after its blobs, as the early return does, and never
\* drops the row.
AfterBlobAlways(w) == "stop"

\* The early return of a run that found no row deletes the blobs and nothing else.
AfterBlob(w) == IF hpc[w] = "sweep" THEN "stop" ELSE "row"

\* Step 7: delete_all, whose errors are ignored.
DeleteBlob(w) ==
  /\ At(w, "blob") \/ At(w, "sweep")
  /\ blob' \in {[blob EXCEPT ![Src(w)] = 0], blob}
  /\ Goto(w, AfterBlob(w))
  /\ UNCHANGED <<queueVars, row, status, req, uploads, admin, wiki, index, locals, history>>

\* Step 8: delete_source of the store, by slug.
DeleteSourceRow(w) ==
  /\ At(w, "row")
  /\ row' = [row EXCEPT ![Src(w)] = 0]
  /\ status' = [status EXCEPT ![Src(w)] = "none"]
  /\ Goto(w, "stop")
  /\ UNCHANGED <<queueVars, blob, req, uploads, admin, wiki, index, locals, history>>

-----------------------------------------------------------------------------
(* reembed.                                                                *)

\* run: the pages git has now.
ListPages(w) ==
  /\ At(w, "list")
  /\ gone' = [gone EXCEPT ![w] = {p \in Pages : tree[p] # {}}]
  /\ skipped' = {}
  /\ Goto(w, "clear")
  /\ UNCHANGED <<queueVars, rows, wiki, index, work, patched, asked, torn, missed, dropped>>

\* Step 1: the rows of these pages are deleted; errors are ignored.
ClearRow(w) ==
  /\ At(w, "clear")
  /\ \E p \in gone[w] :
       /\ index' \in {[index EXCEPT ![p] = {}], index}
       /\ gone' = [gone EXCEPT ![w] = @ \ {p}]
       /\ patched' = [patched EXCEPT ![w] = @ \cup {p}]
  /\ UNCHANGED <<queueVars, rows, wiki, hpc, work, history>>

\* Seeded fault: only the pages HEAD touched are embedded.
BatchTouched(w) == patched[w] \cap changed

\* The pages listed at the start that are still there.
Batch(w) == {p \in patched[w] : tree[p] # {}}

\* Step 2: they are read and embedded; a page that is gone by now is skipped.
ReadBatch(w) ==
  /\ At(w, "clear") /\ gone[w] = {}
  /\ work' = [work EXCEPT ![w] = Restrict(tree, Batch(w))]
  /\ Goto(w, "upsert")
  /\ UNCHANGED <<queueVars, rows, wiki, index, gone, patched, history>>

\* A failed upsert skips the page.
SkipPage(w) ==
  /\ At(w, "upsert") /\ Kind(w) = "reembed"
  /\ \E p \in Todo(w) : skipped' = skipped \cup {p} /\ Drop(w, p)
  /\ UNCHANGED <<queueVars, rows, wiki, index, hpc, gone, patched, asked, torn, missed, dropped>>

-----------------------------------------------------------------------------
(* The loop around the handlers, time, and faults.                         *)

\* What an end of the handlers of the workers in W leaves torn: a removal that
\* has written a file and not yet reached the blobs.
Tears(W) == {Src(w) : w \in {x \in W :
  pc[x] = "handling" /\ Kind(x) = "remove" /\ hpc[x] \in {"write", "commit", "rows", "patch", "upsert"}}}

Forget(W) ==
  /\ hpc' = [w \in Workers |-> IF w \in W THEN "none" ELSE hpc[w]]
  /\ work' = [w \in Workers |-> IF w \in W THEN Nothing ELSE work[w]]
  /\ gone' = [w \in Workers |-> IF w \in W THEN {} ELSE gone[w]]
  /\ patched' = [w \in Workers |-> IF w \in W THEN {} ELSE patched[w]]
  /\ torn' = torn \cup Tears(W)

Stop(w) ==
  /\ At(w, "stop")
  /\ Q!HandlerReturns(w) /\ pc'[w] = "returned_ok"
  /\ Forget({w})
  /\ UNCHANGED <<rows, wiki, index, asked, missed, skipped, dropped>>

\* Where an error is ignored, or only logged.  A reembed at "upsert" may still
\* fail to embed its next batch.
NotFatal(w) == CASE Kind(w) = "ingest" -> {}
                 [] Kind(w) = "remove" -> {"patch", "upsert", "blob", "sweep", "stop"}
                 [] OTHER -> {"stop"}

\* Any other await of a handler can fail, git rev-parse after a commit included.
HandlerFails(w) ==
  /\ pc[w] = "handling" /\ hpc[w] \notin NotFatal(w)
  /\ Q!HandlerReturns(w) /\ pc'[w] = "returned_err"
  /\ Forget({w})
  /\ UNCHANGED <<rows, wiki, index, asked, missed, skipped, dropped>>

Settle(w) ==
  /\ Q!CompleteJob(w) \/ Q!FailJob(w) \/ Q!VerdictLost(w)
  /\ UNCHANGED <<rows, wiki, index, hpc, locals, history>>

MarkSourceFailed(w) ==
  /\ Q!MarkSourceFailed(w)
  /\ SetStatus(Src(w), "failed")
  /\ UNCHANGED <<row, blob, req, uploads, admin, wiki, index, hpc, locals, history>>

Panic(w) ==
  /\ Q!Panic(w)
  /\ Forget({w})
  /\ UNCHANGED <<rows, wiki, index, asked, missed, skipped, dropped>>

Restart ==
  /\ Q!Restart
  /\ Forget(Workers)
  /\ req' = [s \in Slugs |-> "none"]
  /\ UNCHANGED <<row, blob, status, uploads, admin, wiki, index, asked, missed, skipped, dropped>>

Time(j) ==
  /\ Q!DelayElapses(j) \/ Q!LeaseLapses(j) \/ Q!LeaseOverrun(j)
  /\ UNCHANGED <<rows, wiki, index, hpc, locals, history>>

WorkerStep(w) ==
  \/ \E j \in Jobs : Claim(w, j)
  \/ Get(w) \/ WriteFile(w) \/ Commit(w) \/ ReadTouched(w) \/ Upsert(w) \/ AllUpserted(w)
  \/ Distill(w) \/ MarkCommitted(w) \/ MarkDone(w)
  \/ PlanRemoval(w) \/ DeleteRow(w) \/ AllRowsDeleted(w) \/ EmbedFails(w)
  \/ DeleteBlob(w) \/ DeleteSourceRow(w)
  \/ ListPages(w) \/ ClearRow(w) \/ ReadBatch(w) \/ SkipPage(w)
  \/ Stop(w) \/ Settle(w) \/ MarkSourceFailed(w)

Next ==
  \/ \E s \in Slugs : UploadInsert(s) \/ UploadPut(s) \/ UploadEnqueue(s)
  \/ \E j \in Jobs : DeleteSource(j) \/ AdminJob(j) \/ Time(j)
  \/ \E w \in Workers : WorkerStep(w) \/ HandlerFails(w) \/ Panic(w)
  \/ Restart

Spec == Init /\ [][Next]_vars

-----------------------------------------------------------------------------
(* Properties.                                                             *)

\* With one worker, a source whose row is gone is on no page, neither in HEAD nor
\* in the work tree: a retry plans from the tree a crashed run left behind, its
\* commit takes that run's writes along, and the row goes last (remove.rs).
RemovedIsUnreferenced == \A s \in Slugs : row[s] = 0 =>
  \A p \in Pages : s \notin head[p] /\ s \notin tree[p]

\* With one worker, search finds no page by a removed source, unless its removal
\* was interrupted between its first write and its last row, one of its updates of
\* the index failed (remove.rs, 6a, 6b), a page that a crashed ingest had not committed
\* was indexed, or an agent had taken the source off a page before: a removal does not
\* look at that page, and its row may still be the one before.
RemovedIsUnsearchable == \A s \in Slugs \ (torn \cup missed \cup dropped) : row[s] = 0 =>
  \A p \in Pages : s \notin index[p]

\* A remove job that is done has removed the source it was asked to remove,
\* through whatever retries, reclaims and re-uploads of the slug.
DoneMeansRemoved == \A j \in Jobs :
  KindOf[j] = "remove" /\ state[j] = "done" => row[SlugOf[j]] # asked[j]

\* With one worker, a removal deletes no page of another source and takes no other id
\* off (remove.rs, 1 and 2), be it crashed between two files and finished by a retry or
\* by the commit of another job; nor does a reembed or a lint.  A source nobody asked to
\* remove leaves its pages only where an ingest's agent rewrites them without it, which
\* nothing in the code prevents.
OthersKept == \A s \in Slugs \ dropped :
  (\A j \in Jobs : KindOf[j] = "remove" /\ SlugOf[j] = s => state[j] = "absent")
    => \A p \in Pages : s \in FirstPages[p] => s \in tree[p] /\ s \in head[p]

\* With one worker, a reembed that has come to its end has brought the row of every
\* page in the work tree up to date, but for the pages it skipped (reembed.rs).  A row
\* whose page is gone is not on the list and stays, "clear" though the file says it does.
ReembedRebuilds == \A w \in Workers :
  At(w, "stop") /\ Kind(w) = "reembed" =>
    \A p \in Pages \ skipped : tree[p] # {} => index[p] = tree[p]
=============================================================================
