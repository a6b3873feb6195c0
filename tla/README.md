# QPedia in TLA+

TLA+ specifications of QPedia (`crates/`), the TLC runs that check them and the
theorems TLAPS proves about them. Paths below are relative to `crates/` unless they
start with `src/`; `PROJECT.json` gives the lines each definition stands for.

## 1. The system

QPedia turns uploaded documents into a wiki. One process, `qpedia-api`, serves HTTP
requests and runs a pool of worker loops (`QPEDIA_WORKERS`, one by default) and a
scheduler. All of them share four stores that no transaction spans:

| store | what is in it | code |
|---|---|---|
| Postgres | jobs, sources, `wiki_pages` (search index), connectors, workspaces, sessions, folders | `qpedia-pg-store` |
| git | one repository per tenant, the wiki pages; the truth the index is derived from | `qpedia-store/src/wikirepo.rs` |
| blobs | `<slug>/original.<ext>`, `extracted.txt`, `manifest.json` | `qpedia-store/src/blob.rs` |
| memory | worker loops, repository cache, rate-limit buckets | `qpedia-ingest`, `qpedia-api` |

### Inventory

| component | state | operations | what makes it correct | module |
|---|---|---|---|---|
| Job queue, worker loops | `jobs` row: state, attempt, lease, `next_run_at`; the loop's job | `enqueue`, `claim_next_job`, `complete_job`, `fail_job`, mark the source failed | one runner per job while leases outlive handlers, attempts within budget, final verdicts, no starvation | `JobQueue` |
| Ingest pipeline | `sources.status`, text, page, index row | phases extract, classify, distill, embed; taint | no phase skipped, done means indexed unless another source's commit was met at HEAD, every source comes to a stop with a reason | `IngestPipeline` |
| Source requests | the request between its statements | upload, replace, move, delete, resume | a source whose request was not cut off has something to drive it; an upload gets the ACL of its folder | `IngestPipeline`, `SourceRemoval`, `Folders` |
| Remove pipeline | work tree, HEAD, index, blobs, row | plan, write, commit, clean up, drop the row | no page names a removed source; a removal leaves the other sources' pages alone | `SourceRemoval` |
| Re-embedding | index rows | list, clear, embed in batches | every listed page whose upsert did not fail has its row again | `SourceRemoval` |
| Wiki repository | directory, git index, HEAD, cache of open repositories | `get`, `open_or_init`, `commit_bundle`, `changed_in_head`, `list_pages` | an initialisation that ran through undisturbed has seeded; a lone one never seeds over an edit | `WikiStore`, `SourceRemoval` (commits) |
| Lint | the run: list, texts, look-ups, clusters; `_meta/lint.json` | the four checks, clusters, report, reorganisation | the report is true of what nobody touched meanwhile | `WikiLint`, `Folders` (reorganisation), `SourceRemoval` (commit) |
| Agent, validator | staged operations, turns | tools, limits, validation, commit | a bundle creates and patches what is (not) there; two patches of the log lose no line | `WikiAgent` |
| Archive expansion | child sources, attempts | read with caps, probe, insert, enqueue | a done archive has a child and a job for each entry, and one more at most per retry | `ArchiveExpansion` |
| Connector sync, scheduler | cursor, `last_sync_at`, jobs | tick, trigger, list, download, ingest, advance the cursor | what the cursor has passed has been ingested or counted as an error | `ConnectorSync` |
| Workspaces, invites | tenants, members, invites, sessions | create, switch, join, leave, invite, accept, log in | the last owner as the request saw it stays, an invite recorded as used is used up, rights follow the membership found | `Workspaces` |
| Domain claims | `workspace_domains`, DNS | claim, verify, delete | one holder per domain, and only one that proved it | `DomainClaims` |
| Pending logins, Drive grants | `oidc_pending`, `oauth_grants`, connectors | start, callback, exchange, name, insert | a handshake serves once | `Handshakes` |
| Signing keys | the cache of Firebase's keys | verify, refresh | no key is accepted long after its withdrawal | `KeyCache` |
| Folders, ACLs | folder rows, pins, rules, `folder_path` | pin, move, auto-organize, resolve, delete | a choice the organizer could see is kept; a folder whose files are stored under its own path keeps its row | `Folders` |
| Slugs | `(tenant, slug)` | probe, insert | a slug names one thing | `ArchiveExpansion`, `Handshakes`, `SourceRemoval` |
| Rate limiter | tokens per tenant | check | at most the burst plus the refill; honest advice | `ChatLimiter` |
| Retriever, chat, search | the run: pages read, context, events | gather, fall back, search, fetch, stream | pages only of what the caller may read, as the file was when read; hits only of pages readable at that moment | `ChatRetrieval` |
| LLM providers | the decoder's buffer | decode a streamed answer | the tokens of the answer, whole and in order | `TokenStream` |
| Embedding clients, extractors, telemetry, CLI, benchmark | none the above depends on | I/O | - | not modelled |

Each property holds with the exceptions that its comment names; section 4 collects what they
leave out.

**How they interact.** A request writes a row, a blob and then a job, each by itself.
A worker claims the job and runs its handler; the handler goes through the stores one
await at a time; the loop then stores the job's verdict, and for a dead ingest job the
source's `failed`. Handlers of different jobs meet only in the stores: the source row,
the work tree and HEAD of the tenant's repository, the index.

**What is hard.** Every await is a point where another worker, a request, a crash or an
error can come in; errors of several statements are dropped on purpose; a job is run again
after a failure or a lapsed lease, and its handler has to be idempotent; the embed phases
read "the pages of HEAD" and so depend on what was committed last. `PROJECT.json` lists
these hazards line by line with the property that watches each.

## 2. The modules

```
AbstractJobQueue <--implements-- JobQueue <--INSTANCE-- IngestPipeline
                                    |     <--INSTANCE-- SourceRemoval
                 JobQueueProofs, JobQueueRefinement

                     IngestPipelineProofs        SourceRemovalProofs

MCTenancy  EXTENDS  Workspaces, DomainClaims, Handshakes, KeyCache
                    WorkspacesProofs  <--EXTENDS-- TenancyProofs (the other three, and all four)
MCLibrary  EXTENDS  ConnectorSync, ArchiveExpansion, Folders, WikiStore, WikiAgent,
                    WikiLint, ChatLimiter, ChatRetrieval, TokenStream
                    WikiProofs (WikiStore, WikiAgent, WikiLint, ChatLimiter, ChatRetrieval)
                      <--EXTENDS-- LibraryProofs (the other four, and all nine)
```

A module `...Proofs` extends what it is about and adds no action: it holds the inductive
invariants, the lemmas and the theorems of section 5.

The modules under `MCTenancy` and `MCLibrary` model parts whose code shares no state, or
whose influence on each other comes at any time and is therefore an action of the module
it happens to (a page deleted under a chat, a commit between two steps of an agent). The
two MC modules run one part at a time: `focus` picks it in the initial state, and the
others stay as they begin, so nothing is multiplied. A definition named like an action
with a suffix (`TakePendingKept`, `ResolveAclShortest`, ...) and the comment "Seeded
fault" is a wrong variant of the definition after it; it is not part of a specification,
and the runs fail with it in the place of the right one.

### `JobQueue` - `jobs.rs`, `runner.rs`

One action per SQL statement. `Claim` is the single `UPDATE ... FOR UPDATE SKIP
LOCKED`: `Claimable` is its WHERE clause, `First` its ORDER BY, `CountedAttempt` its
`attempt + 1`. `CompleteJob` and `FailJob` write by id alone, as the code does;
`VerdictLost` is a verdict whose error the loop drops. `pc` and `cur` are the position
of each loop and its local variable `job`. Faults: a panicking handler ends its worker
for good (`Panic`), the process restarts (`Restart`), a statement fails (`db`), a lease
lapses under a live handler (`LeaseOverrun`); the history variable `overrun` remembers
which jobs that happened to, because the comment in `claim_next_job` requires leases
to outlive handlers.

Time is reduced to what the SQL compares: `expired` (`locked_until < now`), `due`
(`next_run_at <= now`) and `ahead`, the order of `next_run_at`. A new row is behind all
due rows and before the delayed ones, a retry behind all, which is what `now` and
`now + 5 s` give when delays are equal.

### `AbstractJobQueue` - the promise

Per job a phase, the set of its runners and a count of starts: a pending job is started
by one worker, an active one is finished, retried while attempts last, given up when
they are used, or lost and pending again; done and dead are final. A job whose lease was
overrun is `void`: nothing is promised about it.

### `IngestPipeline` - `handlers/ingest.rs`, `classify.rs`, `distill.rs`, `embed.rs`

`Get` is the top of the loop and `step_once`'s match on the status (`Entry`); each phase
is an operator whose disjuncts are its statements in order; `Reread` is the test that
ends the loop. Contents are versions: the bytes' version `v` gives text, page and index
row `v`. `text`, `page` and `index` say from which version they were made, `sha` and
`bytes` are the row's and the blob's version, which differ while a replacement is
between its two steps. Requests are upload, replace and resume, statement by statement.
The phases' statements that change a store have a name: `PutText`, `CommitBundle` (one step
here), `ReadChangedPages`, `UpsertPages`. An LLM may be configured at one boot and not at the
next; `Unsupported` versions have a mime without an extractor.

History variables: `distilled` (what the agent last worked on), `raced` (replaced while a
handler was at work), `doubled` (two handlers at once), `cut` (a request or the mark
`failed` cut off by a fault), `crossed` (two sources, where a handler of one found the
other's commit at HEAD and embedded that). `Reclaimed` are the sources of jobs whose lease
was overrun. Properties name them where the code gives no guarantee.

### `SourceRemoval` - `handlers/remove.rs`, `reembed.rs`, `lint.rs`, `wikirepo.rs`

All jobs that write one tenant's wiki. A page is the set of `source_ids` in its
frontmatter, the empty set is no page. `tree` and `head` are the work tree and HEAD,
`changed` is what `changed_in_head` returns, `index` is `wiki_pages.source_slugs`.
`WriteFile` is one file of a bundle, `Commit` is `add -A` and `commit`. `PlanRemoval` to
`DeleteSourceRow` are the steps of `remove::run`; a removal that finds no row deletes the
blobs and stops (place `sweep`); errors the code calls non-fatal are
alternatives of the actions, the others are `HandlerFails`. A slug can be uploaded again
after its removal: `row[s]` and `blob[s]` say which upload they belong to.

Abstractions: pages without sources, `index.md` and `log.md` are left out, except that
the line in `log.md` makes every removal's bundle a change. An ingest's agent replaces pages
whole: on each page it writes it names any of the sources it can know of, its own and those
that pages name (`Seen`), and may leave out ids the page had, which neither the prompt nor
the validator forbids. That it does not make up ids is assumed. `dropped` remembers which
sources it took off a page. Reading all pages is one step: within one worker nothing
runs in between. `reembed` has one batch. A panicking worker and a failing statement are
faults of `JobQueue`.

### `Workspaces` - `routes.rs`, `auth.rs`; `workspaces.rs`, `tenants.rs`, `sessions.rs`

A request is `req[b]`, one per browser, and goes from place to place, one transaction at a
time: `LoginJoinRowless`, `LoginJoin`, `LoginMint`; `CreateProbe`, `CreateUpsert`,
`CreateJoin`; `SwitchCheck`, `SwitchMove`; `RemoveCheck`, `RemoveDelete`; `AcceptCheck`,
`AcceptJoin`, `AcceptMark`, `AcceptRole`. What a handler's local variables carry from one to
the next is in `req`: the row of the `User` extractor, the role found, the workspace.
`remove_member` is one transaction, but under READ COMMITTED and without a lock its read and
its delete are two steps. `Abandon` cuts a request off anywhere. `redeemed` remembers which
invites had their use recorded. A user's individual workspace is `Home[u]`, of which nothing
is assumed: its id is `u-` and a slug of the user's, and slugs of different ids may be
equal.

### `DomainClaims` - `routes.rs`, `workspaces.rs`, migration 0007

`claim` is the table, `IndexAllows` its partial unique index. A verification reads the token
(`VerifyRead`), asks DNS (`VerifyAsk`) and updates (`VerifyMark`); the zone changes in between
(`ChangeZone`), a claim is deleted and made again with another token. `issued` and `proved`
remember which token went to whom and which was seen in DNS.

### `Handshakes` - `auth.rs`, `routes.rs`; `oidc_pending.rs`, `oauth_grants.rs`, `slug.rs`, `connectors.rs`

`pending` is `oidc_pending`; `TakePending` is its `DELETE ... RETURNING`, `StaleRows` what the
clean-up deletes. A callback exchanges the code, then opens a session or stores the grant,
probes a name and inserts the connector, and may break off between any two. Each handshake
counts what it has made in `opened`.

### `KeyCache` - `firebase.rs`

`Verify`, `FetchKeys`, `StoreKeys`, `LookAgain` are the stretches between the awaits and
locks of the verifier. Time is the ticks of `KeyTick` against `JWKS_TTL` and `HTTP_TIMEOUT`;
Firebase publishes and withdraws keys at any time (`Rotate`). `seen` remembers when each key
was last in the published set.

### `ConnectorSync` - `app.rs`, `routes.rs`, `handlers/sync.rs`, `qpedia-connectors`

`Schedule` is a tick of the scheduler over `DueConnectors`, `TriggerSync` the request. A
sync lists (`ListPage`, with `Hidden` for a document modified between two pages), downloads
(`Endpoint` picks the address from the listed mime, `Serves` whether it answers), ingests or
counts an error, and saves the cursor (`NewCursor`). Two syncs of a connector run at once, a
sync dies or fails at any step, documents change at any time. `arrived` remembers whether
the latest revision has an ingest job. The row may be deleted and made again under a sync:
cursors are per row id.

### `ArchiveExpansion` - `handlers/archive.rs`, `slug.rs`

`ReadEntries` is a fold over the entries with the three caps. `ProbeEntry`, `InsertEntry`,
`EnqueueEntry` and `FinishExpansion` are the loop; `UploadSource` takes slugs between a
probe and its insert, and an insert that then meets the unique index fails the attempt. An
entry has the size its header declares, which the caps are about, and the bytes that reading
it yields, which nothing bounds. A retry starts from the first entry and makes its children
again: the property counts them, one per attempt, and does not deny them (section 4).

### `Folders` - `folders.rs`, `folder_acls.rs`, `routes.rs`, `classify.rs`, `lint.rs`

A path is a sequence of names. `Slug` is `slugify_folder`: folder rows, rules and a user's
moves are at slugs (`Paths`), while uploads, syncs and the organizers store a source's path
as it is given (`GivenPaths`). `SetPin` is the row that creating a folder, uploading an
archive and (un)locking write alike. `ResolveAcl` is the longest prefix that has a rule; an
upload is `ResolveUpload` and `InsertSource`, a deletion `CountFolder` and
`DeleteFolderRow`, an automatic move `ReadSource`, `CheckPin` and `Organize`. `changed`
remembers what happened between such a pair, for the properties to name.

### `WikiStore` - `wikirepo.rs`

`Get` and `CacheRepo` are the two stretches under the lock of `WikiRepoStore::get`; between
them `open_or_init` runs without it: `GitInit`, `GitConfig`, `WriteSeed`, `MakeDirs`,
`GitAdd`, `CommitSeeds`. `CommitBundle` needs the author that `GitConfig` leaves: git is
taken to have no other one. `CallFails` and `Restart` cut any step; `cut` and `overlapped`
remember that.

### `WikiAgent` - `agent.rs`, `validator.rs`, `wikirepo.rs`

A run stages operations through tools (`ProposeNew`, `ProposePatch`, `AppendLog`;
`ReadStaged` is `read_page` on staged operations, the first on the path), ends a turn
(`EndTurn`), validates (`PostUniverse`, `CheckPage`) and commits (`CommitRun`). Other jobs
write and delete pages and append to the log in between (`OtherCommits`, `DeletePage`);
`behind` remembers what they changed after the run had looked.

### `WikiLint` - `qpedia-lint/src/lib.rs`, `handlers/lint.rs`

`LintList`, `LintRead` per page, `LintRow` per source, `LintCluster` per tag, `LintCommit`.
`BrokenLinks`, `Orphans`, `MissingFromIndex` and `StaleInIndex` are the checks of the code
over what was read; the property states them over the disk.

### `ChatLimiter`, `ChatRetrieval`, `TokenStream` - `rate_limit.rs`; `qpedia-retriever`; `qpedia-llm`

`Check` is `check`, in units of a sixtieth of a token; `granted` remembers when chats were
allowed, from which `RateHolds` counts every window. `ChatRetrieval` has the gather loop
(`LoadPage` and `SearchTool` by a tool call, `EndGatherTurn`, the caps on pages and bytes),
the fallback (`Fallback`), the search and the fetch of a page, and the events of the answer
in order; a page is read in one step and its sources are looked up in a later one. `cites`
is the file of a page, `indexed` its row in the index, which follows the file only later. A
page in `loaded` was handed out by its text; a hit in `allowed` was let through for the text
of its file (`cites`) and is handed out with title and snippet of the row (`shown`). `Take`
counts as the code does: characters against the cap, never fewer than `MIN_TAKE` of them
(1024 in the code), added up in bytes. `TokenStream` drains the buffer event by event:
`EventLength` finds the terminator, `DataLines` the data lines, `TokenLines` those among
them that have a token and no `[DONE]` before them; `Yield` works them off in order,
`Receive` cuts anywhere, `Break` ends the connection. A token is known by the place of its
line in the answer, so that equal texts stay apart. The reference (`Said`) reads the answer
as a whole, line by line, without buffer or terminators. An answer ends its lines with LF or
with CR LF, not with both (`OneLineEnd`; see the limits below).

## 3. The runs

| run | instance | shows |
|---|---|---|
| `queue_safety` | 3 jobs (2 ingest), 2 workers, 2 faults of any kind | types, `AttemptBudget`, `SingleRunner`, `MarkedSourcesAreDead`; `JobQueue` implements `AbstractJobQueue` (`KeepsPromise`) |
| `queue_stream` | 3 rows reused for ever, 2 workers, 1 fault | `NoStarvation`, `DeadSourceSurfaces` |
| `pipeline_workers` | 1 source, 2 jobs, 2 workers, a replacement or a resume, 1 panic | `NothingSkipped`, `DoneIsIndexed`, `NeverForgotten` |
| `pipeline_crash` | 1 source, 2 jobs, 1 worker, 1 restart, database error or overrun; LLM comes and goes; an unsupported type | types, `SourceSettles` |
| `pipeline_replaced` | 1 worker, no fault | violated: `ReplacementIsProcessed` |
| `pipeline_indexed` | 2 sources, 1 worker, no fault but failing handlers | violated: `FailedUpsertIsRetried` |
| `pipeline_resumed` | 1 source, 2 jobs, 1 worker, 1 restart; the LLM comes with it | violated: `TaintedIsResumed` |
| `removal` | 2 slugs, 2 pages (one shared), a remove, an ingest of the slug uploaded again, and a reembed or lint; 1 worker, 1 fault of any kind | the six properties of `SourceRemoval` |
| `removal_retry` | 1 remove job, 1 restart | violated: `RetryCleansIndex` |
| `tenancy` | `MCTenancy`, one part at a time, see below | types, `InvitesHold`, `OwnersStay`, `MovesAreCurrent`, `DomainsAreProved`, `HandshakesServeOnce`, `KeysAreCurrent` |
| `workspaces_owner` | the workspaces part, no invite | violated: `LastOwnerStays` |
| `library` | `MCLibrary`, one part at a time, see below | types, `CursorCovers`, `CursorNeverRewound`, `ExpansionIsSound`, `OrganizersKeepOff`, `FoldersInUseStay`, `UploadsFollowRules`, `HandedOutIsSeeded`, `EditsStay`, `LinesStay`, `BundlesLand`, `LimiterKeepsItsWord`, `ContextIsReadable`, `TokensFollowTheAnswer`, `ReportsStand` |

| part | instance | why it is enough |
|---|---|---|
| workspaces | 2 users (one an operator) with workspaces of their own, 1 organisation slug, 2 browsers, 1 invite | two requests are the least that can interleave; a user may have both browsers; users who share an individual workspace are left to the theorems |
| domains | 2 workspaces, 1 domain, 3 tokens, 2 verifications | a claim made again while its old token is asked for, and a rival |
| handshakes | 3 handshakes of either kind, 2 callbacks, 2 names | two callbacks of one handshake, and a third whose connector takes the name |
| keys | 2 keys, 2 verifications, TTL 2, timeout 1, clock 3 | an answer older than what is stored; a key that outlives the TTL |
| sync | 2 documents with bytes of their own (a native one only ever errs), 2 workers, clock 2, 1 row, 1 queued job per connector, 1 fault | two overlapping syncs, a document modified between two pages, a failure, a retry |
| archive | 1 archive with an entry to skip and one larger than it says, a bomb, or too many entries; 3 attempts, 2 uploads | two retries, and an upload between a probe and its insert |
| folders, rules | 1 source, slugs of depth 0, 1 and 2 and two paths that are not their own slugs, 1 organizer, 1 request | a parent, a child and the root are what the prefixes tell apart; the first has no rules, the second no folder rows, as no operation reads both tables |
| store | 2 callers, 2 faults | one initialises while the other comes; a second failure on what the first left |
| agent | 1 run next to other jobs' commits, 2 pages, 2 turns, 3 operations | a page linked to and one that links; a third patch is one over `read_page` |
| limiter | 2 tenants, 25 tokens a minute, burst 2, 5 s | a refill that is no whole number of tokens, a full bucket, a refusal |
| chat | 2 pages (one over the cap, of two-byte characters), 2 sources, 1 group, 2 turns, cap 3, `MIN_TAKE` 2 | a text rewritten or indexed, and a source's ACL changed, between read and look-up; a rest of the cap below `MIN_TAKE` |
| stream | 4 answers in either dialect, cut anywhere | LF and CR LF, several events in a chunk, `[DONE]` before the end, bytes that are no UTF-8 |
| lint | 3 pages with the index, 1 source, 1 cluster | a page written or deleted between list and read, read and report |

**Bounds.** `MaxFaults` bounds the faults of a behaviour, `MaxVersion` and `MaxUploads`
how often bytes and slugs change, `Jobs` how many jobs there are. Three jobs on two
workers are the least at which a job can be overtaken while both workers are busy; two
faults are the least at which a job is lost twice or a verdict is lost after a
reclaim. `max_attempts` is 2 for one job and 1 for the others in place of 5 and 3: what
matters is whether another attempt is left, and both cases occur. Two pages, one of them
shared, let a removal delete and patch in the same bundle, with a crash between the
two files. Deadlock is not checked: the queue may run empty and, after panics, have no
worker; bounded parts come to their end. In `tenancy` only the two browsers are symmetric.
Clocks and the numbers of handshakes, uploads and attempts are bounded by guards that
name the constant.

**One worker.** `SourceRemoval` states its properties for one worker, the default. With
more, nothing in the code keeps two jobs of a tenant out of the same work tree, and their
bundles mix: the hazard list says what is to be expected.

**Fairness.** Workers, requests under way and time are weakly fair, each by itself: a
loop of `JobRunner` never stops (`poll_idle` is finite), a handler's awaits end (HTTP
clients and `git` are assumed to answer or fail), the clock advances. Nothing is assumed
of users, and no fault has to happen. A handler may fail at every step, so fairness
never forces a success: `SourceSettles` holds because `failed` is an end. The
properties do not say that a source gets done. The modules of `tenancy` and `library` state
safety only: what they would promise to do in the end depends on users, on a remote
system or on the queue, whose liveness `queue_stream` and `pipeline_crash` show.

## 4. What the runs found

- **A replacement can be lost** (`pipeline_replaced`). A handler between two phases
  overwrites the `pending` of `replace_source` with its own next status and ends `done`;
  the replacement's job then has nothing to do. `routes.rs:495` and `sources.rs:188` say
  the pipeline re-runs.
- **A failed upsert is not always retried** (`pipeline_indexed`). The embed phase takes the
  pages of HEAD. If another source is committed before the retry, the retry embeds that
  source's pages; the first one's page never reaches the index. `src/README.md:199` says
  the job retries.
- **A retried removal leaves rows** (`removal_retry`). After a crash behind the first
  deleted file the retry's plan no longer lists the page, so its `wiki_pages` row is never
  deleted; `src/README.md:217` says the retry goes on to the `wiki_pages` cleanup.
- **The last two owners can remove each other** (`workspaces_owner`). Two concurrent
  `create_workspace` requests find the same slug free and make two owners of one workspace;
  crossing removals each count two owners. `workspaces.rs:147` and `:151` say the last
  owner is not removed.
- **A tainted source is not resumed by a job** (`pipeline_resumed`). `step_once` has no case
  for `tainted` and stops (`ingest.rs:115`), so an ingest job does nothing, whatever is
  configured by then; `list_stalled` does not offer such sources either.
  `qpedia-core/src/source.rs:43-45` says the source "can be resumed by re-enqueueing an Ingest
  job", `ingest.rs:141-143` and CHANGELOG lines 316-320 that it is re-drivable,
  `src/README.md:168` and `:171` that it is resumable with one click. Only a replacement of
  its bytes moves it. `SourceSettles` therefore lets a source stop as tainted only where an LLM
  or an extractor is lacking, and says nothing of what comes after.

The passing properties exclude these cases by name (`raced`, `crossed`, `doubled`, `torn`,
...) and show that nothing else goes wrong in the same way. `missed` and `skipped` are the
updates of the index that the code itself calls non-fatal.

### Limits of the code the properties step around

A passing property says what its comment says, and no more. Where the code does less than
its docs and comments promise, or than a reader would expect, and no run shows it, the
properties are stated so as to hold of what the code does, and this list says what they leave
out. The first group contradicts a line of the repository:

- *Archives.* A retry makes the children of earlier entries again, under new slugs, and each
  has its own ingest job. `qpedia-pg-store/src/jobs.rs:57`, `src/README.md:156` and `:376`,
  DESIGN.md:278 and CHANGELOG lines 307-308 call handlers and transitions idempotent.
  `MAX_ENTRY_BYTES` and the zip-bomb guard test the sizes that headers declare
  (`archive.rs:85-95`); the read (`:97`) has no bound of its own.
- *Folders.* Migration 0001 (line 55) calls `sources.folder_path` a "slugified path" and
  0004 (lines 15-16) a convention, but an upload stores it as given (`routes.rs:990`,
  `:1041`), and `classify.rs:96-100` and `lint.rs:25-35` store `/<doc_type>` as it is.
  `folder_source_count` compares a slug with them, so a folder with such files counts none
  and can be deleted. `classify.rs:90-92` says no folder the user chose is overridden; a
  choice made after its look is.
- *Chat.* The cap on bytes is called hard (`retriever/src/lib.rs:7-8`, DESIGN.md:430), while
  `lib.rs:335-337` counts characters against it, grants every page 1024 and adds up bytes:
  what is proved is four times the cap. The fallback loads whole pages, outside of it. The
  agent is said never to see content the caller cannot read (`lib.rs:12-13`); a search
  decides by the file as it is (`lib.rs:312-319`, `routes.rs:817-827`) and hands out title
  and snippet of the index's row, which may be of an earlier text with other sources, until
  it is embedded again.
- *Workspaces.* `routes.rs:214-215` says that two people's individual workspaces never collide; their ids
  are slugs (`slug.rs:22-41` lowercases, collapses and cuts at 80 characters), so two users'
  may.
- *Re-embedding.* `reembed.rs:1` and `:35` say all rows are cleared; rows of pages that are no
  longer in the tree are not on the list and stay.
- *Sync.* A Google-native document is never exported: `list_changed` stores the mime of the
  export (`gdrive.rs:171`), and `download` looks up the export of that mime, which is none,
  and asks for `alt=media`, which Drive refuses. `gdrive.rs:198-199` says such documents
  must be exported. `Endpoint` and `Serves` model it; each try is counted as an error.

The second group contradicts none that we know of:

- *Sync.* The scheduler does not look for a sync that is queued or running, so a slow one is
  doubled, and every modified document becomes a new source. A document modified behind a
  listing, or at the stamp of the cursor, waits for its next change, as does one whose
  ingestion failed.
- *Workspaces.* A session keeps its rights until it ends, also after its user was removed;
  `MovesAreCurrent` is about the moment of entering. A callback of Google makes the connector
  in the tenant the session is in by then, and a grant may stay without a connector. An invite
  lets in everybody who opened it before its use was recorded.
- *Wiki.* A caller that comes while another one is still seeding can have its edit of the
  index overwritten by the seed (`overlapped`); a patch of `_meta/lint.json` fails without the
  seeded folder. `read_page` shows an agent its first staged operation on a path, so a third
  patch drops the lines of the second. A lint's report holds the time of the run and so is
  always a change: the branch for "nothing to commit" is never taken by it.
- *Chat.* An answer whose stream is closed early ends without an error. Event terminators
  are looked for as `\n\n` and `\r\n\r\n`; mixed ones are not one. The limiter's buckets are
  per process and are forgotten with it.

## 5. What is proved

Every invariant and every action property that a passing run checks is also a theorem, for
every value of the constants that the modules' named assumptions admit: any number of jobs,
workers, sources, pages, requests and faults. The assumptions on constants say what they
are (sets are finite where the code counts them, caps are positive, the "no such" values are
none of the others) and hold in every run's instance. Where a theorem needs more, the table
says so.

| module | theorems | of |
|---|---|---|
| `JobQueueProofs` | `TypeCorrect`, `AttemptsWithinBudget`, `OneRunner`, `OnlyDeadAreMarked` | `JobQueue` |
| `JobQueueRefinement` | `QueueKeepsPromise`: `JobQueue` implements `AbstractJobQueue` | `JobQueue` |
| `IngestPipelineProofs` | `PipelineTypeCorrect`, `NothingIsSkipped`, `NeverIsForgotten`, `DoneIsAlwaysIndexed` | `IngestPipeline` |
| `SourceRemovalProofs` | `RemovalTypeCorrect`, `DoneJobsHaveRemoved`; with one worker `RemovedStayUnreferenced`, `OthersAlwaysKept`, `RemovedStayUnsearchable`, `ReembedAlwaysRebuilds` | `SourceRemoval` |
| `WorkspacesProofs` | `WorkspacesTypeCorrect`, `InvitesAlwaysHold`, `OwnersAlwaysStay`, `MovesAlwaysCurrent` | `Workspaces` |
| `TenancyProofs` | `DomainTypeCorrect`, `DomainsProved`; `HandshakeTypeCorrect`, `HandshakesServed`; `KeyTypeCorrect`, `CachedKeysAreCurrent`; `TenancyTypeCorrect` | `DomainClaims`, `Handshakes`, `KeyCache`, `MCTenancy` |
| `LibraryProofs` | `ConnectorsTypeCorrect`, `CursorsAlwaysCover`, `CursorsNeverRewound`; `ArchiveTypeCorrect`, `ExpansionAlwaysSound`; `FoldersTypeCorrect`, `OrganizersAlwaysKeepOff`, `FoldersInUseAlwaysStay`, `UploadsAlwaysFollowRules`; `TokenStreamTypeCorrect`, `TokensAlwaysFollow`; `LibraryTypeCorrect` | `ConnectorSync`, `ArchiveExpansion`, `Folders`, `TokenStream`, `MCLibrary` |
| `WikiProofs` | `WikiStoreTypeCorrect`, `HandedOutAlwaysSeeded`, `EditsAlwaysStay`; `WikiAgentTypeCorrect`, `BundlesAlwaysLand`, `LinesAlwaysStay`; `WikiLintTypeCorrect`, `ReportsAlwaysStand`; `ChatTypeCorrect`, `ContextAlwaysReadable`; `ChatLimiterTypeCorrect`, `LimiterAlwaysKeepsItsWord` | `WikiStore`, `WikiAgent`, `WikiLint`, `ChatRetrieval`, `ChatLimiter` |

**Hypotheses that are more than types.** *One worker* (`OneWorker` in `SourceRemovalProofs`):
the default of `QPEDIA_WORKERS`; with two, two jobs of a tenant share a work tree and the
four statements are false. *One kind of line end*
(`OneLineEnd`): what the providers send; with both kinds in one answer the code misses
terminators that the reference sees.

### The arguments

Hardly a property is inductive as it stands. What had to be added, and why:

- **Queue.** `TypeOK` needs `LoopOK`: a loop past its claim holds a job. A reclaim adds an
  attempt without looking at `max_attempts`, so `AttemptBudget` needs `LostHasReserve`: a
  running job that has lost its runner or its lease has an attempt in reserve, because
  losing it took a fault. `SingleRunner` and `MarkedSourcesAreDead` are inductive together
  (`HolderInv`): a row can be claimed only if it is queued or its lease has lapsed, either of
  which contradicts a runner under a lease in force. The refinement maps `running` without a
  runner to `pending`, and each action to `Submit`, `Start`, `Finish`, `Retry`, `GiveUp`,
  `Lose`, `Void`, `Ignore` or a stutter; `Lose` takes a set because a restart loses every
  runner at once.
- **Pipeline.** The queue's invariants are carried over (`QP == INSTANCE JobQueueProofs`).
  `SkipInv`: a blob and its row agree unless a replacement is between its two statements
  (`BytesOK`), and what a handler has in hand is of the bytes it read unless they were
  replaced meanwhile (`HandsFresh`). `KeepInv` follows who will drive a source on: a job
  that is queued or running (`Kept`), a request that will enqueue one (`Carried`), a handler
  past its last look (`GoesOn`). `IndexInv`: unless a handler
  met another source's commit at HEAD (`crossed`), or two were at work (`Alone`), a handler in
  the embed phase holds its own source's page (`Embeds`).
- **Removal.** `WikiInv` says what work tree and HEAD have between two files of a bundle;
  `PagesInv` what the handler in its place holds of them (`HandOK`: the files still to
  write, the pages to upsert, the row to drop); `IndexInv` which rows the index has while
  they are cleared (`Sound`, `ClearOK`); `RebuildInv` what a reembed still owes. What an
  ingest writes is bounded by what its agent had seen, and what it took off is in `dropped`.
- **Workspaces.** `WInv` is about what a request carries from one transaction to the next
  (`RequestsOK`): the role it found, the workspace it is about to enter, the invite it has
  looked at (`InvitesOK`); an individual workspace has no members but those whose ids yield
  its id, be it one or several (`HomesAreOwn`).
- **Domains, handshakes, keys.** `AskedIsProved` (an answer of DNS that is being written was
  seen), `OwnersAreProved`, `OneOwner` (the partial unique index); `ServedIsTaken` (who served
  has taken the row out); `KeysSeen` and `RequestOK` (an answer under way is at most one
  timeout older than what it was asked for).
- **Connectors.** `SyncOwes`: a revision without an ingest job is ahead of the cursor as the
  sync read it, and one of a listed document is on the list of documents to ingest or ahead
  of the stamps seen. This is what makes the cursor that is written cover.
- **Archives.** A child is of a readable entry and of one attempt, each entry once
  (`ChildrenFit`); an expansion under way holds the entries that have no child yet
  (`ExpansionFits`); slugs differ. `ReadEntries` is a fold; that its sums keep to the caps is
  shown for every prefix of the entries (`ReadSoFar`), in terms of declared sizes.
- **Folders.** What an organizer, a deletion or an upload has looked up is still true, or
  the pair of its steps is marked as overtaken (`MovesStand`, `DeletesStand`,
  `UploadsStand`); locks and rules are compared by slug, files by their stored path.
  `NearestDecides`: of a path's prefixes with a rule, the longest decides, in a tree of any
  depth.
- **Streams.** `AnswerInv`: what is worked off ends with an empty line, and its data lines
  are settled: what arrives later changes none of them (`WorkedIsSettled`). Below any byte
  that is no line end, an empty line has its terminator in the buffer (`BlankIsTerminator`);
  so the first event ends where the reference's does (`EventEnds`), and its data lines are
  those that count (`EventCounts`). `RestIsSilent`: without a terminator nothing is owed.
- **Repository.** What a commit has is staged, and what is staged is in the work tree
  (`Layers`); whoever is past a step of `open_or_init` finds what the step left (`Seeding`).
- **Agent.** `BundleValid`: what is staged fits the pages as the run saw them; `LogKnown` and
  `LogChained`: each patch of the log continues the one before it.
- **Lint, chat, limiter.** What a run has read stands, or the page or source was touched
  (`PagesStand`, `SourcesStand`); a chat's pages stay within their cap, and its bytes pass
  theirs by what one page may bring (`Capped`); texts and hits come from pages whose sources
  were looked up, and nothing is in hand once the answer streams; a bucket's tokens pay for
  every window of chats granted (`RoomLeft`, `Rated`).
- **Composition.** A behaviour of `TenancySpec` or `LibrarySpec` is one of each part's
  specification (`PartsRun`), so every theorem above holds of the parts together.

**Induction over data.** The library's induction theorems take an operator as a parameter and
cannot be used here. Where a statement is about every prefix, every subset or every fold,
the proof takes a least counterexample: a set of numbers has a least one (`LeastOf`), a
finite set a smallest one among any of its subsets (`SmallestOf`), both from the
well-foundedness of strict inclusion. `FoldExists` shows so that the equations of
`MapThenFoldSet` have a solution, on which `SumIsFold`, `SumSplits` and `ReadingsExist` rest;
`InOrderIs` that a finite set of numbers can be enumerated in order.

**Only model-checked:** the liveness properties `NoStarvation`, `DeadSourceSurfaces` and
`SourceSettles` (fairness and ENABLED are beyond the prover), and that the five statements of
section 4 are violated.

## 6. Not modelled

- *I/O without state the rest depends on:* embedding clients, extractors, `complete` of the
  LLM providers (one request, one answer), telemetry and the audit log, the CLI, the
  benchmark, routing and configuration. That one of these fails is an action of the module
  that calls it. `llm_config.rs` has no caller in the repository.
- *External:* signatures and claims of tokens, the identity providers, DNS, Drive and
  Confluence, git and Postgres. Row-level security and encryption belong to Postgres and
  libraries; transactions are READ COMMITTED, unique indexes hold.
- *Reads that decide nothing:* listings, counters, `near_duplicates`, page history, the text
  search; the ranking of search results (any `k` paths are returned).
- *Text:* prompts, wording, `slugify`, languages, sizes of pages, the edits of `index.md` and
  `log.md` in a removal.
- *Left out of a modelled part:* deletions at the remote side, between two pages of a
  listing too (Confluence pages by offset, `confluence.rs:73-124`, and would then skip a
  document), and documents without a stamp; the ACL of an archive's children, which is the
  archive's; e-mails and renames of workspaces, the mode without login, Confluence's cursor
  by versions, the refresh of Drive tokens, re-classification, delete operations of a bundle
  (no tool proposes one).
- *Two tenants in one blob directory* (`blob.rs:54` names it by the slug alone), *old remove
  jobs of a slug used again*, and *two workers in one work tree*: see the notes of these
  hazards in `PROJECT.json`.

## 7. Plan

1. *Done:* `JobQueue` with its abstract specification, proofs and refinement;
   `IngestPipeline`; `SourceRemoval`; the modules of `MCTenancy` and `MCLibrary`.
2. *Done:* the proofs of section 5, of every safety property that a passing run checks.
3. An abstract wiki (committed pages and their index) that the crash-free `SourceRemoval`
   implements; `SourceRemoval` with two remove jobs of one slug.
4. Liveness of a sync and of an expansion over the queue's fairness.
