---------------------------- MODULE ConnectorSync ----------------------------
(***************************************************************************)
(* Connectors and their synchronisation: the scheduler (qpedia-api/src/    *)
(* app.rs), the connector requests (routes.rs), the sync handler           *)
(* (qpedia-ingest/src/handlers/sync.rs) and the listings and downloads of  *)
(* qpedia-connectors (confluence.rs, gdrive.rs).                           *)
(*                                                                         *)
(* One connector name, whose row may be deleted and created again.  The    *)
(* remote system keeps, per document, the time stamp of its latest         *)
(* revision; it is modified at any time, also between two pages of a       *)
(* listing, and every page holds one document here.  The job queue is      *)
(* reduced to what JobQueue shows of it: a job is run at least once, two   *)
(* jobs of one connector may run at the same time, and a job that failed   *)
(* is run again or is dead.                                                *)
(***************************************************************************)
EXTENDS Integers, FiniteSets, FiniteSetsExt

CONSTANTS
  Docs,        \* remote documents
  NativeDocs,  \* those of them that are Google-native: no bytes of their own
  MaxTime,     \* bound: clock of the remote system
  Rows,        \* bound: connector rows ever inserted, as 1..Rows
  Workers,     \* syncs that may run at once
  MaxJobs,     \* bound: sync jobs queued at once
  MaxSyncFaults, \* bound: failures and restarts
  NoConnector, Idle

ASSUME ConnectorSyncAssumption ==
  /\ Docs # {} /\ NativeDocs \subseteq Docs
  /\ MaxTime \in Nat \ {0} /\ Rows \in Nat /\ MaxJobs \in Nat /\ MaxSyncFaults \in Nat

VARIABLES
  clock,      \* time at the remote system
  remote,     \* stamp of each document's latest revision; 0 without one
  connector,  \* the connectors row of the name
  inserted,   \* rows inserted so far: the last id
  jobs,       \* queued sync jobs, by connector id
  sync,       \* what each worker's sync is doing
  arrived,    \* is there an ingest job for the latest revision?
  syncFaults

syncVars == <<clock, remote, connector, inserted, jobs, sync, arrived, syncFaults>>
remoteVars == <<clock, remote>>
adminVars == <<connector, inserted>>

Connectors == [id : 1..Rows, cursor : 0..MaxTime, enabled : BOOLEAN, due : BOOLEAN]
Mimes == {"native", "exported", "binary"}
Syncs == [id : 1..Rows, at : {"list", "docs", "enqueue"}, since : 0..MaxTime, left : SUBSET Docs,
          docs : SUBSET (Docs \X Mimes), seen : 0..MaxTime,
          doc : {<<>>} \cup (Docs \X Mimes), stamp : 0..MaxTime]

SyncTypeOK ==
  /\ clock \in 1..MaxTime /\ remote \in [Docs -> 0..clock]
  /\ connector \in Connectors \cup {NoConnector}
  /\ inserted \in 0..Rows
  /\ jobs \in [1..Rows -> 0..MaxJobs]
  /\ \A w \in Workers : sync[w] = Idle \/
       /\ sync[w] \in Syncs
       /\ sync[w].at = "list" <=> sync[w].left # {}
       /\ sync[w].at = "enqueue" => sync[w].doc \in sync[w].docs
  /\ arrived \in [Docs -> {"no", "queued", "excused"}]

ConnectorSyncInit ==
  /\ clock = 1 /\ remote = [d \in Docs |-> 0]
  /\ connector = NoConnector /\ inserted = 0
  /\ jobs = [i \in 1..Rows |-> 0]
  /\ sync = [w \in Workers |-> Idle]
  /\ arrived = [d \in Docs |-> "no"]
  /\ syncFaults = 0

RowExists(i) == connector # NoConnector /\ connector.id = i
SyncAt(w, place) == sync[w] # Idle /\ sync[w].at = place
Busy(d) == {w \in Workers : sync[w] # Idle /\ d \notin sync[w].left}

-----------------------------------------------------------------------------
(* The remote system. *)

RemoteTick ==
  /\ clock < MaxTime /\ clock' = clock + 1
  /\ UNCHANGED <<remote, adminVars, jobs, sync, arrived, syncFaults>>

\* A revision that a cursor hides from its birth on is excused: its stamp is not
\* beyond the cursor, or a listing that has been past the document will see, or has
\* seen, another revision as young as this one.
Hidden(d) ==
  \/ connector # NoConnector /\ connector.cursor >= clock
  \/ \E w \in Workers : sync[w] # Idle /\ sync[w].since >= clock
  \/ \E w \in Busy(d) : sync[w].at = "list" \/ sync[w].seen >= clock

Modify(d) ==
  /\ remote[d] < clock
  /\ remote' = [remote EXCEPT ![d] = clock]
  /\ arrived' = [arrived EXCEPT ![d] = IF Hidden(d) THEN "excused" ELSE "no"]
  /\ UNCHANGED <<clock, adminVars, jobs, sync, syncFaults>>

-----------------------------------------------------------------------------
(* Requests and the scheduler. *)

\* create_connector: an insert, refused while there is a connector of the name.
CreateConnector(enabled) ==
  /\ connector = NoConnector /\ inserted < Rows
  /\ inserted' = inserted + 1
  /\ connector' = [id |-> inserted + 1, cursor |-> 0, enabled |-> enabled, due |-> TRUE]
  /\ UNCHANGED <<remoteVars, jobs, sync, arrived, syncFaults>>

\* delete_connector_route: its jobs and its sources stay.
DeleteConnector ==
  /\ connector # NoConnector
  /\ connector' = NoConnector
  /\ UNCHANGED <<remoteVars, inserted, jobs, sync, arrived, syncFaults>>

\* sync_job and enqueue
EnqueueSync(i) ==
  /\ jobs[i] < MaxJobs
  /\ jobs' = [jobs EXCEPT ![i] = @ + 1]
  /\ UNCHANGED <<remoteVars, adminVars, sync, arrived, syncFaults>>

\* trigger_connector_sync
TriggerSync == connector # NoConnector /\ EnqueueSync(connector.id)

\* due_connectors: enabled, and last_run_at null or long ago.
DueConnectors == {i \in 1..Rows : RowExists(i) /\ connector.enabled /\ connector.due}

\* A tick of the scheduler, which does not look for a job that is queued or running.
Schedule == \E i \in DueConnectors : EnqueueSync(i)

\* QPEDIA_SYNC_STALE_SECS pass.
GrowDue ==
  /\ connector # NoConnector /\ ~connector.due
  /\ connector' = [connector EXCEPT !.due = TRUE]
  /\ UNCHANGED <<remoteVars, inserted, jobs, sync, arrived, syncFaults>>

-----------------------------------------------------------------------------
(* sync::run *)

\* update_connector_cursor: by id, so it does nothing once the row is gone.
UpdateCursor(i, cursor) ==
  connector' = IF RowExists(i) THEN [connector EXCEPT !.cursor = cursor, !.due = FALSE] ELSE connector

SyncFault == syncFaults < MaxSyncFaults /\ syncFaults' = syncFaults + 1
LeaveSync(w) == sync' = [sync EXCEPT ![w] = Idle]

\* The job fails: it is queued again, or dead after its last attempt.
FailJob(i) == jobs' \in {jobs, [jobs EXCEPT ![i] = IF @ < MaxJobs THEN @ + 1 ELSE @]}

\* get_connector: without a row the job fails for good, as ids do not come back; a
\* disabled connector is skipped.
StartSync(w, i) ==
  /\ sync[w] = Idle /\ jobs[i] > 0
  /\ jobs' = [jobs EXCEPT ![i] = @ - 1]
  /\ IF RowExists(i) /\ connector.enabled
     THEN sync' = [sync EXCEPT ![w] =
            [id |-> i, at |-> "list", since |-> connector.cursor, left |-> Docs, docs |-> {},
             seen |-> 0, doc |-> <<>>, stamp |-> 0]]
     ELSE UNCHANGED sync
  /\ UNCHANGED <<remoteVars, adminVars, arrived, syncFaults>>

\* export_target: the mime a listed document is presented with.
ListedMime(d) == IF d \in NativeDocs THEN "exported" ELSE "binary"

\* list_changed: the next page.  Confluence's client and Drive's query both leave out
\* what is not beyond the cursor.
ListPage(w, d) ==
  /\ SyncAt(w, "list") /\ d \in sync[w].left
  /\ LET r == sync[w]
         left == r.left \ {d}
         changed == remote[d] > r.since
     IN sync' = [sync EXCEPT ![w].left = left,
                   ![w].at = IF left = {} THEN "docs" ELSE "list",
                   ![w].docs = IF changed THEN @ \cup {<<d, ListedMime(d)>>} ELSE @,
                   ![w].seen = IF changed /\ remote[d] > @ THEN remote[d] ELSE @]
  /\ UNCHANGED <<remoteVars, adminVars, jobs, arrived, syncFaults>>

\* A page fails: the cursor is stored as it was read, with the error.
ListFails(w) ==
  /\ SyncAt(w, "list") /\ SyncFault
  /\ UpdateCursor(sync[w].id, sync[w].since)
  /\ FailJob(sync[w].id) /\ LeaveSync(w)
  /\ UNCHANGED <<remoteVars, inserted, arrived>>

\* download: the endpoint asked for a document, by the mime it was listed with.
Endpoint(mime) == IF mime = "native" THEN "export" ELSE "media"
\* External: a native document is exported, any other one has bytes of its own.
Serves(d, endpoint) == (d \in NativeDocs) = (endpoint = "export")

\* ingest_one: the connector is looked up again, by name; the document is downloaded
\* as it is by now, and its source row inserted ...
Download(w) ==
  /\ SyncAt(w, "docs") /\ connector # NoConnector
  /\ \E e \in sync[w].docs :
       /\ Serves(e[1], Endpoint(e[2]))
       /\ sync' = [sync EXCEPT ![w].at = "enqueue", ![w].doc = e, ![w].stamp = remote[e[1]]]
  /\ UNCHANGED <<remoteVars, adminVars, jobs, arrived, syncFaults>>

NextDoc(w, e) ==
  sync' = [sync EXCEPT ![w].at = "docs", ![w].docs = @ \ {e}, ![w].doc = <<>>, ![w].stamp = 0]

\* ... its bytes are stored and its ingest job enqueued.
EnqueueDoc(w) ==
  /\ SyncAt(w, "enqueue")
  /\ LET e == sync[w].doc
     IN /\ arrived' = [arrived EXCEPT ![e[1]] = IF sync[w].stamp = remote[e[1]] THEN "queued" ELSE @]
        /\ NextDoc(w, e)
  /\ UNCHANGED <<remoteVars, adminVars, jobs, syncFaults>>

\* A document fails: it is counted, and the sync goes on.
CountError(w, e) ==
  /\ arrived' = [arrived EXCEPT ![e[1]] = IF @ = "no" THEN "excused" ELSE @]
  /\ NextDoc(w, e)
  /\ UNCHANGED <<remoteVars, adminVars, jobs>>

DocFails(w) ==
  \/ /\ SyncAt(w, "docs")
     /\ \E e \in sync[w].docs :
          /\ CountError(w, e)
          /\ IF connector # NoConnector /\ Serves(e[1], Endpoint(e[2])) THEN SyncFault ELSE UNCHANGED syncFaults
  \/ SyncAt(w, "enqueue") /\ CountError(w, sync[w].doc) /\ SyncFault

\* Seeded fault: without a changed document there is no new cursor.
SaveCursorNull(w) ==
  /\ SyncAt(w, "docs") /\ sync[w].docs = {}
  /\ UpdateCursor(sync[w].id, sync[w].seen)
  /\ LeaveSync(w)
  /\ UNCHANGED <<remoteVars, inserted, jobs, arrived, syncFaults>>

\* Seeded fault: the cursor is the time of the sync, not of the documents it saw.
NewCursorNow(r) == clock

\* The latest stamp seen, else the cursor as it was read.
NewCursor(r) == IF r.seen = 0 THEN r.since ELSE r.seen

SaveCursor(w) ==
  /\ SyncAt(w, "docs") /\ sync[w].docs = {}
  /\ UpdateCursor(sync[w].id, NewCursor(sync[w]))
  /\ LeaveSync(w)
  /\ UNCHANGED <<remoteVars, inserted, jobs, arrived, syncFaults>>

\* The last update fails, or the process dies anywhere: the job is run again after
\* its back-off or when its lease has lapsed, or is dead.
SyncDies(w) ==
  /\ sync[w] # Idle /\ SyncFault
  /\ FailJob(sync[w].id) /\ LeaveSync(w)
  /\ UNCHANGED <<remoteVars, adminVars, arrived>>

-----------------------------------------------------------------------------
SyncStep(w) ==
  \/ \E i \in 1..Rows : StartSync(w, i)
  \/ \E d \in Docs : ListPage(w, d)
  \/ Download(w) \/ EnqueueDoc(w) \/ SaveCursor(w)

ConnectorSyncNext ==
  \/ RemoteTick
  \/ \E d \in Docs : Modify(d)
  \/ \E enabled \in BOOLEAN : CreateConnector(enabled)
  \/ DeleteConnector \/ TriggerSync \/ Schedule \/ GrowDue
  \/ \E w \in Workers : SyncStep(w) \/ ListFails(w) \/ DocFails(w) \/ SyncDies(w)

ConnectorSyncSpec == ConnectorSyncInit /\ [][ConnectorSyncNext]_syncVars

-----------------------------------------------------------------------------
(* Properties. *)

\* What the cursor has passed has an ingest job, whatever failed, died or ran twice;
\* except a revision whose ingestion was counted as an error, and one made behind a
\* listing's back with a stamp the listing's cursor covers.
CursorCovers ==
  connector # NoConnector =>
    \A d \in Docs : 0 < remote[d] /\ remote[d] <= connector.cursor => arrived[d] # "no"

\* A cursor goes back only where two syncs of the connector overlap, and the one that
\* read the older cursor comes to its end last.
CursorNeverRewound ==
  [][connector # NoConnector /\ connector' # NoConnector /\ connector'.id = connector.id
     /\ connector'.cursor < connector.cursor =>
       \E w \in Workers : sync[w] # Idle /\ sync'[w] = Idle /\ sync[w].id = connector.id
                          /\ sync[w].since < connector.cursor]_syncVars
=============================================================================
