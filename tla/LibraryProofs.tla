--------------------------- MODULE LibraryProofs ---------------------------
(***************************************************************************)
(* Theorems about how sources come into the library and where they are     *)
(* kept: the synchronisation of connectors, the expansion of archives, the *)
(* folders and their rules; about the stream of an answer; and about all   *)
(* parts of the library together.  They hold for every number of           *)
(* documents, entries, workers, requests and faults, for every tree of     *)
(* folders, and for answers of any length.                                 *)
(***************************************************************************)
EXTENDS MCLibrary, WikiProofs, SequenceTheorems

-----------------------------------------------------------------------------
(* Finite sets.  Induction over them is a least counterexample among their *)
(* subsets.                                                                *)

\* A finite set has a smallest one among any of its subsets.
LEMMA SmallestOf ==
  ASSUME NEW S, IsFiniteSet(S), NEW T \in SUBSET (SUBSET S), T # {}
  PROVE  \E s \in T : \A r \in T : r \subseteq s => r = s
<1>1. T \subseteq FiniteSubsetsOf(S)
  BY FS_Subset DEF FiniteSubsetsOf
<1>2. PICK s \in T : \A r \in T : ~(<<r, s>> \in StrictSubsetOrdering(S))
  BY <1>1, WFMin, FS_StrictSubsetOrderingWellFounded
<1>. QED
  BY <1>2 DEF StrictSubsetOrdering

\* The cardinalities of a finite set's subsets.
LEMMA SubsetsCount ==
  ASSUME NEW S, IsFiniteSet(S), NEW s \in SUBSET S
  PROVE  /\ IsFiniteSet(s) /\ Cardinality(s) \in Nat /\ Cardinality(s) <= Cardinality(S)
         /\ Cardinality(s) = 0 <=> s = {}
         /\ \A x \in s : Cardinality(s \ {x}) = Cardinality(s) - 1
<1>1. IsFiniteSet(s) /\ Cardinality(s) <= Cardinality(S)
  BY FS_Subset
<1>. QED
  BY <1>1, FS_CardinalityType, FS_EmptySet, FS_RemoveElement

\* Which member goes first at each turn of a fold over S.
Picks(S, pick) == \A s \in SUBSET S : s # {} => pick[s] \in s

\* The equations of MapThenFoldSet: g holds the value of the fold over each subset.
FoldsTo(S, base, pick, F, g) ==
  \A s \in SUBSET S : g[s] = IF s = {} THEN base ELSE F[<<pick[s], g[s \ {pick[s]}]>>]

\* A fold over a finite set has a result: the equations of MapThenFoldSet have a solution.
LEMMA FoldExists ==
  ASSUME NEW S, IsFiniteSet(S), NEW V, NEW base \in V,
         NEW pick, Picks(S, pick), NEW F \in [S \X V -> V]
  PROVE  \E g \in [SUBSET S -> V] : FoldsTo(S, base, pick, F, g)
<1>. DEFINE Small(n) == {s \in SUBSET S : Cardinality(s) <= n}
            Solves(g, n) == /\ g \in [Small(n) -> V]
                            /\ \A s \in Small(n) : g[s] = IF s = {} THEN base ELSE F[<<pick[s], g[s \ {pick[s]}]>>]
            bad == {n \in Nat : ~ \E g : Solves(g, n)}
<1>1. \A s \in SUBSET S : /\ Cardinality(s) \in Nat /\ Cardinality(s) <= Cardinality(S)
                          /\ (Cardinality(s) = 0 <=> s = {})
                          /\ \A x \in s : Cardinality(s \ {x}) = Cardinality(s) - 1
  BY SubsetsCount
<1>2. bad = {}
  <2>1. SUFFICES ASSUME bad # {} PROVE FALSE
    OBVIOUS
  <2>2. PICK n \in bad : \A m \in bad : n <= m
    BY <2>1, LeastOf
  <2>3. n # 0
    <3>1. \A s \in Small(0) : s = {}
      BY <1>1
    <3>2. Solves([s \in Small(0) |-> base], 0)
      BY <3>1
    <3>. HIDE DEF Solves
    <3>. QED
      BY <3>2
  <2>4. n \in Nat /\ n - 1 \in Nat /\ \E g : Solves(g, n - 1)
    <3>1. n \in Nat
      BY <2>2
    <3>2. n - 1 \in Nat /\ n - 1 \notin bad
      <4>. HIDE DEF bad
      <4>. QED
        BY <2>2, <2>3, <3>1
    <3>. HIDE DEF Solves
    <3>. QED
      BY <3>1, <3>2
  <2>5. PICK g : Solves(g, n - 1)
    BY <2>4
  <2>. DEFINE h == [s \in Small(n) |-> IF s \in Small(n - 1) THEN g[s] ELSE F[<<pick[s], g[s \ {pick[s]}]>>]]
  <2>6. \A s \in Small(n) : s # {} => s \ {pick[s]} \in Small(n - 1) /\ pick[s] \in S
    BY <1>1, <2>4 DEF Picks
  <2>7. {} \in Small(n - 1) /\ Small(n - 1) \subseteq Small(n)
    BY <1>1, <2>4
  <2>8. h \in [Small(n) -> V]
    <3>1. ASSUME NEW s \in Small(n), s \notin Small(n - 1)
          PROVE  F[<<pick[s], g[s \ {pick[s]}]>>] \in V
      <4>1. s # {} /\ pick[s] \in S /\ g[s \ {pick[s]}] \in V
        BY <2>5, <2>6, <2>7, <3>1
      <4>. QED
        BY <4>1
    <3>. QED
      BY <2>5, <3>1
  <2>9. ASSUME NEW s \in Small(n)
        PROVE  h[s] = IF s = {} THEN base ELSE F[<<pick[s], h[s \ {pick[s]}]>>]
    <3>1. CASE s = {}
      BY <2>5, <2>7, <3>1
    <3>2. CASE s # {}
      <4>1. h[s \ {pick[s]}] = g[s \ {pick[s]}]
        BY <2>6, <2>7, <3>2
      <4>2. h[s] = F[<<pick[s], g[s \ {pick[s]}]>>]
        BY <2>5, <3>2
      <4>. QED
        BY <3>2, <4>1, <4>2
    <3>. QED
      BY <3>1, <3>2
  <2>10. Solves(h, n)
    BY <2>8, <2>9
  <2>. QED
    BY <2>2, <2>10
<1>3. Cardinality(S) \in Nat
  BY FS_CardinalityType
<1>4. PICK g : Solves(g, Cardinality(S))
  BY <1>2, <1>3
<1>5. Small(Cardinality(S)) = SUBSET S
  BY <1>1
<1>. QED
  BY <1>4, <1>5 DEF FoldsTo

-----------------------------------------------------------------------------
(* Connectors.  What a sync in progress owes to the cursor it will write:  *)
(* a revision that has no ingest job is ahead of the cursor as it was      *)
(* read, and one of a listed document is on the list of documents to       *)
(* ingest, or ahead of the stamps seen.                                    *)

Unfetched(d) == 0 < remote[d] /\ arrived[d] = "no"

SyncTyped(r) ==
  /\ r \in Syncs
  /\ r.at = "list" <=> r.left # {}
  /\ r.at = "enqueue" => r.doc \in r.docs

SyncOwes(r) == \A d \in Docs : Unfetched(d) =>
  /\ remote[d] > r.since
  /\ d \notin r.left => \/ <<d, ListedMime(d)>> \in r.docs
                        \/ r.at # "list" /\ remote[d] > r.seen
  /\ r.at = "enqueue" /\ r.doc[1] = d => r.stamp = remote[d] \/ remote[d] > r.seen

SyncOK(r) ==
  /\ SyncTyped(r) /\ SyncOwes(r)
  /\ r.seen = 0 \/ r.seen > r.since

SyncInv ==
  /\ clock \in 1..MaxTime /\ remote \in [Docs -> 0..clock]
  /\ connector \in Connectors \cup {NoConnector} /\ inserted \in 0..Rows
  /\ jobs \in [1..Rows -> 0..MaxJobs]
  /\ sync \in [Workers -> Syncs \cup {Idle}]
  /\ arrived \in [Docs -> {"no", "queued", "excused"}]
  /\ \A w \in Workers : sync[w] # Idle => SyncOK(sync[w])
  /\ CursorCovers

LEMMA SyncStarts == ConnectorSyncInit => SyncInv
  BY ConnectorSyncAssumption DEF ConnectorSyncInit, SyncInv, CursorCovers

\* A step of one worker's sync, from r to n, that changes nothing else it owes to.
LEMMA SyncMoves ==
  ASSUME SyncInv, NEW w \in Workers, NEW n \in Syncs \cup {Idle}, sync' = [sync EXCEPT ![w] = n],
         UNCHANGED <<clock, remote, arrived>>, n # Idle => SyncOK(n)
  PROVE  /\ sync' \in [Workers -> Syncs \cup {Idle}]
         /\ \A v \in Workers : sync'[v] # Idle => SyncOK(sync[v])'
<1>1. ASSUME NEW r, SyncOK(r) PROVE SyncOK(r)'
  BY <1>1 DEF SyncOK, SyncTyped, SyncOwes, Unfetched
<1>2. \A v \in Workers : sync'[v] = IF v = w THEN n ELSE sync[v]
  BY DEF SyncInv
<1>. QED
  BY <1>1, <1>2 DEF SyncInv

\* The remote system.
LEMMA RemoteKeeps ==
  ASSUME SyncInv, RemoteTick \/ \E d \in Docs : Modify(d)
  PROVE  SyncInv'
<1>1. CASE RemoteTick
  <2>1. \A r : SyncOK(r) => SyncOK(r)'
    BY <1>1 DEF RemoteTick, SyncOK, SyncTyped, SyncOwes, Unfetched
  <2>2. clock' \in 1..MaxTime /\ remote' \in [Docs -> 0..clock']
    BY <1>1, ConnectorSyncAssumption DEF RemoteTick, SyncInv
  <2>. QED
    BY <1>1, <2>1, <2>2 DEF RemoteTick, adminVars, SyncInv, CursorCovers
<1>2. ASSUME NEW d \in Docs, Modify(d) PROVE SyncInv'
  <2>1. /\ UNCHANGED <<clock, connector, inserted, jobs, sync>>
        /\ remote' = [remote EXCEPT ![d] = clock]
        /\ arrived' = [arrived EXCEPT ![d] = IF Hidden(d) THEN "excused" ELSE "no"]
    BY <1>2 DEF Modify, adminVars
  <2>2. remote' \in [Docs -> 0..clock] /\ arrived' \in [Docs -> {"no", "queued", "excused"}] /\ clock \in Nat
    BY <2>1, ConnectorSyncAssumption DEF SyncInv
  <2>3. \A e \in Docs : e # d => remote'[e] = remote[e] /\ arrived'[e] = arrived[e]
    BY <2>1 DEF SyncInv
  <2>4. remote'[d] = clock /\ (arrived'[d] = "no" => ~Hidden(d))
    BY <2>1 DEF SyncInv
  <2>5. CursorCovers'
    <3>1. connector \in Connectors \cup {NoConnector}
      BY DEF SyncInv
    <3>2. connector # NoConnector => connector.cursor \in Nat
      BY <3>1, ConnectorSyncAssumption DEF Connectors
    <3>3. connector # NoConnector /\ arrived'[d] = "no" => ~(remote'[d] <= connector.cursor)
      BY <2>2, <2>4, <3>2 DEF Hidden
    <3>. QED
      BY <2>1, <2>3, <3>3 DEF CursorCovers, SyncInv
  <2>6. ASSUME NEW w \in Workers, sync[w] # Idle PROVE SyncOK(sync[w])'
    <3>. DEFINE r == sync[w]
    <3>1. SyncOK(r) /\ r \in Syncs
      BY <2>6 DEF SyncInv, SyncOK, SyncTyped
    <3>2. r.since \in Nat /\ r.seen \in Nat /\ r.at \in {"list", "docs", "enqueue"}
      BY <3>1, ConnectorSyncAssumption DEF Syncs
    <3>3. arrived'[d] = "no" =>
            remote'[d] > r.since /\ (d \notin r.left => r.at # "list" /\ remote'[d] > r.seen)
      BY <2>2, <2>4, <2>6, <3>2 DEF Hidden, Busy
    <3>4. r.at = "enqueue" => r.left = {}
      BY <3>1 DEF SyncOK, SyncTyped
    <3>5. SyncOwes(r)'
      BY <2>1, <2>3, <3>1, <3>3, <3>4 DEF SyncOK, SyncOwes, Unfetched
    <3>. QED
      BY <2>1, <3>1, <3>5 DEF SyncOK, SyncTyped
  <2>. QED
    BY <2>1, <2>2, <2>5, <2>6 DEF SyncInv
<1>. QED
  BY <1>1, <1>2

\* Requests and the scheduler.
LEMMA RequestsKeepSyncs ==
  ASSUME SyncInv,
         (\E enabled \in BOOLEAN : CreateConnector(enabled)) \/ DeleteConnector \/ TriggerSync \/ Schedule \/ GrowDue
  PROVE  SyncInv'
<1>1. UNCHANGED <<clock, remote, sync, arrived>>
  BY DEF CreateConnector, DeleteConnector, TriggerSync, Schedule, EnqueueSync, GrowDue, remoteVars
<1>2. \A r : SyncOK(r) => SyncOK(r)'
  BY <1>1 DEF SyncOK, SyncTyped, SyncOwes, Unfetched
<1>3. CASE \E enabled \in BOOLEAN : CreateConnector(enabled)
  <2>1. PICK enabled \in BOOLEAN : CreateConnector(enabled)
    BY <1>3
  <2>2. /\ inserted' = inserted + 1 /\ inserted' \in 1..Rows /\ UNCHANGED jobs
        /\ connector' = [id |-> inserted', cursor |-> 0, enabled |-> enabled, due |-> TRUE]
    BY <2>1, ConnectorSyncAssumption DEF CreateConnector, SyncInv
  <2>3. connector' \in Connectors /\ connector'.cursor = 0
    BY <2>2, ConnectorSyncAssumption DEF Connectors
  <2>. QED
    BY <1>1, <1>2, <2>2, <2>3 DEF SyncInv, CursorCovers
<1>4. CASE DeleteConnector
  BY <1>1, <1>2, <1>4 DEF DeleteConnector, SyncInv, CursorCovers
<1>5. CASE TriggerSync \/ Schedule
  <2>1. PICK i \in 1..Rows : EnqueueSync(i)
    BY <1>5 DEF TriggerSync, Schedule, DueConnectors, SyncInv, Connectors
  <2>2. jobs' \in [1..Rows -> 0..MaxJobs] /\ UNCHANGED adminVars
    BY <2>1, ConnectorSyncAssumption DEF EnqueueSync, SyncInv
  <2>. QED
    BY <1>1, <1>2, <2>2 DEF SyncInv, CursorCovers, adminVars
<1>6. CASE GrowDue
  <2>1. connector' \in Connectors /\ connector'.cursor = connector.cursor /\ UNCHANGED <<inserted, jobs>>
    BY <1>6 DEF GrowDue, SyncInv, Connectors
  <2>. QED
    BY <1>1, <1>2, <1>6, <2>1 DEF SyncInv, CursorCovers, GrowDue
<1>. QED
  BY <1>3, <1>4, <1>5, <1>6

\* A sync begins, with the cursor as it is.
LEMMA StartKeeps ==
  ASSUME SyncInv, NEW w \in Workers, NEW i \in 1..Rows, StartSync(w, i)
  PROVE  SyncInv'
<1>1. /\ UNCHANGED <<clock, remote, connector, inserted, arrived>> /\ jobs' = [jobs EXCEPT ![i] = @ - 1] /\ jobs[i] > 0
  BY DEF StartSync, remoteVars, adminVars
<1>2. jobs' \in [1..Rows -> 0..MaxJobs]
  BY <1>1, ConnectorSyncAssumption DEF SyncInv
<1>3. CASE RowExists(i) /\ connector.enabled
  <2>. DEFINE n == [id |-> i, at |-> "list", since |-> connector.cursor, left |-> Docs, docs |-> {},
                    seen |-> 0, doc |-> <<>>, stamp |-> 0]
  <2>1. sync' = [sync EXCEPT ![w] = n]
    BY <1>3 DEF StartSync
  <2>2. connector.cursor \in 0..MaxTime
    BY <1>3 DEF SyncInv, RowExists, Connectors
  <2>3. n \in Syncs
    BY <2>2, ConnectorSyncAssumption DEF Syncs
  <2>4. \A d \in Docs : Unfetched(d) => remote[d] > connector.cursor
    BY <1>3, <2>2, ConnectorSyncAssumption DEF SyncInv, CursorCovers, Unfetched, RowExists
  <2>5. SyncOK(n)
    BY <2>3, <2>4, ConnectorSyncAssumption DEF SyncOK, SyncTyped, SyncOwes
  <2>. HIDE DEF n
  <2>6. /\ sync' \in [Workers -> Syncs \cup {Idle}]
        /\ \A v \in Workers : sync'[v] # Idle => SyncOK(sync[v])'
    BY <1>1, <2>1, <2>3, <2>5, SyncMoves
  <2>. QED
    BY <1>1, <1>2, <2>6 DEF SyncInv, CursorCovers
<1>4. CASE ~(RowExists(i) /\ connector.enabled)
  <2>1. sync' = sync
    BY <1>4 DEF StartSync
  <2>. QED
    BY <1>1, <1>2, <2>1 DEF SyncInv, CursorCovers, SyncOK, SyncTyped, SyncOwes, Unfetched
<1>. QED
  BY <1>3, <1>4

\* A page of the listing: a document with a revision beyond the cursor goes on the list.
LEMMA ListPageKeeps ==
  ASSUME SyncInv, NEW w \in Workers, NEW d \in Docs, ListPage(w, d)
  PROVE  SyncInv'
<1>. DEFINE r == sync[w]
            left == r.left \ {d}
            beyond == remote[d] > r.since
            n == [r EXCEPT !.left = left,
                           !.at = IF left = {} THEN "docs" ELSE "list",
                           !.docs = IF beyond THEN @ \cup {<<d, ListedMime(d)>>} ELSE @,
                           !.seen = IF beyond /\ remote[d] > @ THEN remote[d] ELSE @]
<1>1. /\ UNCHANGED <<clock, remote, connector, inserted, jobs, arrived>>
      /\ r # Idle /\ r.at = "list" /\ d \in r.left
  BY DEF ListPage, SyncAt, remoteVars, adminVars
<1>2. SyncOK(r) /\ r \in Syncs
  BY <1>1 DEF SyncInv, SyncOK, SyncTyped
<1>3. sync' = [sync EXCEPT ![w] = n]
  BY DEF ListPage, SyncInv
<1>4. remote[d] \in 0..MaxTime /\ ListedMime(d) \in Mimes
  BY ConnectorSyncAssumption DEF SyncInv, ListedMime, Mimes
<1>5. n \in Syncs
  <2>. DEFINE docs == IF beyond THEN r.docs \cup {<<d, ListedMime(d)>>} ELSE r.docs
              seen == IF beyond /\ remote[d] > r.seen THEN remote[d] ELSE r.seen
              at == IF left = {} THEN "docs" ELSE "list"
  <2>1. left \in SUBSET Docs /\ docs \in SUBSET (Docs \X Mimes) /\ seen \in 0..MaxTime
    BY <1>2, <1>4 DEF Syncs
  <2>2. at \in {"list", "docs", "enqueue"}
    OBVIOUS
  <2>3. n = [r EXCEPT !.left = left, !.at = at, !.docs = docs, !.seen = seen]
    BY <1>2 DEF Syncs
  <2>. HIDE DEF left, docs, seen, at
  <2>. QED
    BY <1>2, <2>1, <2>2, <2>3 DEF Syncs
<1>6. /\ n.since = r.since /\ n.left = left /\ n.at \in {"list", "docs"} /\ (n.at = "list" <=> left # {})
      /\ r.docs \subseteq n.docs /\ n.seen = IF beyond /\ remote[d] > r.seen THEN remote[d] ELSE r.seen
      /\ beyond => <<d, ListedMime(d)>> \in n.docs
  BY <1>2 DEF Syncs
<1>7. r.since \in Nat /\ r.seen \in Nat /\ remote[d] \in Nat
  BY <1>2, <1>4, ConnectorSyncAssumption DEF Syncs
<1>. HIDE DEF n
<1>8. ASSUME NEW e \in Docs, Unfetched(e)
      PROVE  remote[e] > n.since /\ (e \notin n.left => <<e, ListedMime(e)>> \in n.docs)
  BY <1>1, <1>2, <1>6, <1>8 DEF SyncOK, SyncOwes
<1>9. SyncOK(n)
  BY <1>2, <1>5, <1>6, <1>7, <1>8 DEF SyncOK, SyncTyped, SyncOwes
<1>10. /\ sync' \in [Workers -> Syncs \cup {Idle}]
       /\ \A v \in Workers : sync'[v] # Idle => SyncOK(sync[v])'
  BY <1>1, <1>3, <1>5, <1>9, SyncMoves
<1>. QED
  BY <1>1, <1>10 DEF SyncInv, CursorCovers

\* A document is downloaded, as it is by now.
LEMMA DownloadKeeps ==
  ASSUME SyncInv, NEW w \in Workers, Download(w)
  PROVE  SyncInv'
<1>. DEFINE r == sync[w]
<1>1. /\ UNCHANGED <<clock, remote, connector, inserted, jobs, arrived>> /\ r # Idle /\ r.at = "docs"
  BY DEF Download, SyncAt, remoteVars, adminVars
<1>2. SyncOK(r) /\ r \in Syncs
  BY <1>1 DEF SyncInv, SyncOK, SyncTyped
<1>3. PICK e \in r.docs : sync' = [sync EXCEPT ![w].at = "enqueue", ![w].doc = e, ![w].stamp = remote[e[1]]]
  BY DEF Download
<1>. DEFINE n == [r EXCEPT !.at = "enqueue", !.doc = e, !.stamp = remote[e[1]]]
<1>4. e \in Docs \X Mimes /\ remote[e[1]] \in 0..MaxTime
  BY <1>2, ConnectorSyncAssumption DEF Syncs, SyncInv
<1>5. n \in Syncs
  BY <1>2, <1>4 DEF Syncs
<1>6. /\ n.since = r.since /\ n.left = r.left /\ n.at = "enqueue" /\ n.docs = r.docs /\ n.seen = r.seen
      /\ n.doc = e /\ n.stamp = remote[e[1]]
  BY <1>2 DEF Syncs
<1>7. sync' = [sync EXCEPT ![w] = n]
  BY <1>3 DEF SyncInv
<1>. HIDE DEF n
<1>8. SyncOK(n)
  BY <1>1, <1>2, <1>5, <1>6 DEF SyncOK, SyncTyped, SyncOwes
<1>9. /\ sync' \in [Workers -> Syncs \cup {Idle}]
      /\ \A v \in Workers : sync'[v] # Idle => SyncOK(sync[v])'
  BY <1>1, <1>5, <1>7, <1>8, SyncMoves
<1>. QED
  BY <1>1, <1>9 DEF SyncInv, CursorCovers

\* What is ingested, or counted as an error, is missing no more; the other syncs owe it
\* as before or not at all.
LEMMA ArrivalsKeep ==
  ASSUME SyncInv, NEW r, SyncOK(r), UNCHANGED remote,
         \A d \in Docs : arrived'[d] = "no" => arrived[d] = "no"
  PROVE  SyncOK(r)'
  BY DEF SyncOK, SyncTyped, SyncOwes, Unfetched

\* The document a sync is at is off its list, ingested or counted.
LEMMA NextDocKeeps ==
  ASSUME SyncInv, NEW w \in Workers, sync[w] # Idle, NEW e \in sync[w].docs, NextDoc(w, e), sync[w].at # "list",
         UNCHANGED <<clock, remote, connector, inserted, jobs>>,
         arrived' \in [Docs -> {"no", "queued", "excused"}],
         \A d \in Docs : arrived'[d] = "no" => arrived[d] = "no",
         0 < remote[e[1]] /\ arrived'[e[1]] = "no" => remote[e[1]] > sync[w].seen
  PROVE  SyncInv'
<1>. DEFINE r == sync[w]
            n == [r EXCEPT !.at = "docs", !.docs = @ \ {e}, !.doc = <<>>, !.stamp = 0]
<1>1. SyncOK(r) /\ r \in Syncs
  BY DEF SyncInv, SyncOK, SyncTyped
<1>2. sync' = [sync EXCEPT ![w] = n]
  BY DEF NextDoc, SyncInv
<1>3. n \in Syncs
  <2>. DEFINE docs == r.docs \ {e}
  <2>1. docs \in SUBSET (Docs \X Mimes) /\ <<>> \in {<<>>} \cup (Docs \X Mimes) /\ 0 \in 0..MaxTime
    BY <1>1, ConnectorSyncAssumption DEF Syncs
  <2>2. n = [r EXCEPT !.at = "docs", !.docs = docs, !.doc = <<>>, !.stamp = 0]
    BY <1>1 DEF Syncs
  <2>. HIDE DEF docs
  <2>. QED
    BY <1>1, <2>1, <2>2 DEF Syncs
<1>4. /\ n.since = r.since /\ n.left = r.left /\ n.at = "docs" /\ n.docs = r.docs \ {e} /\ n.seen = r.seen
  BY <1>1 DEF Syncs
<1>5. e \in Docs \X Mimes
  BY <1>1 DEF Syncs
<1>. HIDE DEF n
<1>6. ASSUME NEW d \in Docs, 0 < remote[d], arrived'[d] = "no"
      PROVE  /\ remote[d] > n.since
             /\ d \notin n.left => <<d, ListedMime(d)>> \in n.docs \/ remote[d] > n.seen
  BY <1>1, <1>4, <1>5, <1>6 DEF SyncOK, SyncOwes, Unfetched
<1>7. ASSUME NEW m, m = n PROVE SyncOK(m)'
  <2>1. m \in Syncs /\ m.at = "docs" /\ m.left = r.left /\ m.since = r.since /\ m.seen = r.seen
    BY <1>3, <1>4, <1>7
  <2>2. m.left = {} /\ (m.seen = 0 \/ m.seen > m.since)
    BY <1>1, <2>1 DEF SyncOK, SyncTyped
  <2>3. \A d \in Docs : 0 < remote[d] /\ arrived'[d] = "no" =>
          /\ remote[d] > m.since
          /\ <<d, ListedMime(d)>> \in m.docs \/ remote[d] > m.seen
    BY <1>4, <1>6, <1>7, <2>1, <2>2
  <2>. QED
    BY <2>1, <2>2, <2>3 DEF SyncOK, SyncTyped, SyncOwes, Unfetched
<1>8. ASSUME NEW v \in Workers, v # w, sync[v] # Idle PROVE SyncOK(sync[v])'
  <2>1. sync'[v] = sync[v]
    BY <1>2, <1>8 DEF SyncInv
  <2>. QED
    BY <1>8, <2>1, ArrivalsKeep DEF SyncInv
<1>9. sync'[w] = n /\ sync' \in [Workers -> Syncs \cup {Idle}]
  BY <1>2, <1>3 DEF SyncInv
<1>10. CursorCovers'
  BY DEF SyncInv, CursorCovers
<1>11. SyncOK(sync[w])'
  BY <1>7, <1>9
<1>12. ASSUME NEW v \in Workers, sync'[v] # Idle PROVE SyncOK(sync[v])'
  <2>1. CASE v = w
    BY <1>11, <2>1
  <2>2. CASE v # w
    <3>1. sync'[v] = sync[v]
      BY <1>2, <2>2 DEF SyncInv
    <3>. QED
      BY <1>8, <1>12, <2>2, <3>1
  <2>. QED
    BY <2>1, <2>2
<1>. QED
  BY <1>9, <1>10, <1>12 DEF SyncInv

LEMMA EnqueueDocKeeps ==
  ASSUME SyncInv, NEW w \in Workers, EnqueueDoc(w)
  PROVE  SyncInv'
<1>1. PICK r, e : r = sync[w] /\ e = r.doc
  OBVIOUS
<1>2. /\ UNCHANGED <<clock, remote, connector, inserted, jobs>> /\ r # Idle /\ r.at = "enqueue" /\ NextDoc(w, e)
      /\ arrived' = [arrived EXCEPT ![e[1]] = IF r.stamp = remote[e[1]] THEN "queued" ELSE @]
  BY <1>1 DEF EnqueueDoc, SyncAt, remoteVars, adminVars
<1>3. SyncOK(r) /\ e \in r.docs /\ e \in Docs \X Mimes
  BY <1>1, <1>2 DEF SyncInv, SyncOK, SyncTyped, Syncs
<1>4. e[1] \in Docs
  BY <1>3
<1>5. arrived' \in [Docs -> {"no", "queued", "excused"}] /\ \A d \in Docs : arrived'[d] = "no" => arrived[d] = "no"
  BY <1>2, <1>4 DEF SyncInv
<1>6. arrived'[e[1]] = "no" => r.stamp # remote[e[1]]
  BY <1>2, <1>4 DEF SyncInv
<1>7. 0 < remote[e[1]] /\ arrived'[e[1]] = "no" => remote[e[1]] > r.seen
  BY <1>1, <1>2, <1>3, <1>4, <1>5, <1>6 DEF SyncOK, SyncOwes, Unfetched
<1>. QED
  BY <1>1, <1>2, <1>3, <1>5, <1>7, NextDocKeeps

LEMMA DocFailsKeeps ==
  ASSUME SyncInv, NEW w \in Workers, DocFails(w)
  PROVE  SyncInv'
<1>1. sync[w] # Idle /\ sync[w].at # "list" /\ \E e \in sync[w].docs : CountError(w, e)
  BY DEF DocFails, SyncAt, SyncInv, SyncOK, SyncTyped
<1>2. PICK e \in sync[w].docs : CountError(w, e)
  BY <1>1
<1>3. /\ UNCHANGED <<clock, remote, connector, inserted, jobs>> /\ NextDoc(w, e)
      /\ arrived' = [arrived EXCEPT ![e[1]] = IF @ = "no" THEN "excused" ELSE @]
  BY <1>2 DEF CountError, remoteVars, adminVars
<1>4. e[1] \in Docs
  BY <1>1 DEF SyncInv, SyncOK, SyncTyped, Syncs
<1>5. arrived' \in [Docs -> {"no", "queued", "excused"}] /\ \A d \in Docs : arrived'[d] = "no" => arrived[d] = "no"
  BY <1>3, <1>4 DEF SyncInv
<1>6. arrived'[e[1]] # "no"
  BY <1>3, <1>4 DEF SyncInv
<1>. QED
  BY <1>1, <1>3, <1>5, <1>6, NextDocKeeps

\* A job that fails is queued again or dead.
LEMMA FailJobTyped ==
  ASSUME SyncInv, NEW i \in 1..Rows, FailJob(i)
  PROVE  jobs' \in [1..Rows -> 0..MaxJobs]
<1>1. \A k \in 1..Rows : jobs[k] \in 0..MaxJobs
  BY DEF SyncInv
<1>2. [jobs EXCEPT ![i] = IF @ < MaxJobs THEN @ + 1 ELSE @] \in [1..Rows -> 0..MaxJobs]
  BY <1>1, ConnectorSyncAssumption DEF SyncInv
<1>. QED
  BY <1>2 DEF FailJob, SyncInv

\* The syncs that go on when one ends.
LEMMA LeavingKeeps ==
  ASSUME SyncInv, NEW w \in Workers, LeaveSync(w), UNCHANGED <<clock, remote, arrived>>
  PROVE  /\ sync' \in [Workers -> Syncs \cup {Idle}]
         /\ \A v \in Workers : sync'[v] # Idle => SyncOK(sync[v])'
  BY SyncMoves DEF LeaveSync

\* A cursor short of everything that is missing can be written.
LEMMA CursorWritten ==
  ASSUME SyncInv, NEW i, NEW c \in 0..MaxTime, UpdateCursor(i, c), UNCHANGED <<remote, arrived>>,
         \A d \in Docs : Unfetched(d) => remote[d] > c
  PROVE  connector' \in Connectors \cup {NoConnector} /\ CursorCovers'
<1>1. CASE RowExists(i)
  <2>1. connector' = [connector EXCEPT !.cursor = c, !.due = FALSE] /\ connector \in Connectors
    BY <1>1 DEF UpdateCursor, RowExists, SyncInv
  <2>2. connector' \in Connectors /\ connector'.cursor = c
    BY <2>1 DEF Connectors
  <2>3. \A d \in Docs : remote[d] \in Nat
    BY ConnectorSyncAssumption DEF SyncInv
  <2>. QED
    BY <2>2, <2>3, ConnectorSyncAssumption DEF CursorCovers, Unfetched
<1>2. CASE ~RowExists(i)
  BY <1>2 DEF UpdateCursor, SyncInv, CursorCovers
<1>. QED
  BY <1>1, <1>2

LEMMA EndsKeep ==
  ASSUME SyncInv, NEW w \in Workers, SaveCursor(w) \/ ListFails(w) \/ SyncDies(w)
  PROVE  SyncInv'
<1>1. PICK r : r = sync[w]
  OBVIOUS
<1>2. r # Idle /\ LeaveSync(w) /\ UNCHANGED <<clock, remote, arrived, inserted>>
  BY <1>1 DEF SaveCursor, ListFails, SyncDies, SyncAt, remoteVars, adminVars
<1>3. SyncOK(r) /\ r \in Syncs /\ r.id \in 1..Rows
  BY <1>1, <1>2 DEF SyncInv, SyncOK, SyncTyped, Syncs
<1>4. /\ sync' \in [Workers -> Syncs \cup {Idle}]
      /\ \A v \in Workers : sync'[v] # Idle => SyncOK(sync[v])'
  BY <1>2, LeavingKeeps
<1>5. r.since \in 0..MaxTime /\ NewCursor(r) \in 0..MaxTime
  BY <1>3 DEF Syncs, NewCursor
<1>6. connector' \in Connectors \cup {NoConnector} /\ CursorCovers'
  <2>1. CASE SaveCursor(w)
    <3>1. UpdateCursor(r.id, NewCursor(r)) /\ r.at = "docs" /\ r.docs = {}
      BY <1>1, <2>1 DEF SaveCursor, SyncAt
    <3>2. r.left = {}
      BY <1>3, <3>1 DEF SyncOK, SyncTyped
    <3>3. \A d \in Docs : Unfetched(d) => remote[d] > NewCursor(r)
      BY <1>3, <3>1, <3>2 DEF SyncOK, SyncOwes, NewCursor
    <3>. QED
      BY <1>2, <1>5, <3>1, <3>3, CursorWritten
  <2>2. CASE ListFails(w)
    <3>1. UpdateCursor(r.id, r.since)
      BY <1>1, <2>2 DEF ListFails
    <3>2. \A d \in Docs : Unfetched(d) => remote[d] > r.since
      BY <1>3 DEF SyncOK, SyncOwes
    <3>. QED
      BY <1>2, <1>5, <3>1, <3>2, CursorWritten
  <2>3. CASE SyncDies(w)
    BY <1>2, <2>3 DEF SyncDies, adminVars, SyncInv, CursorCovers
  <2>. QED
    BY <2>1, <2>2, <2>3
<1>7. jobs' \in [1..Rows -> 0..MaxJobs]
  <2>1. jobs' = jobs \/ FailJob(r.id)
    BY <1>1 DEF SaveCursor, ListFails, SyncDies
  <2>. QED
    BY <1>3, <2>1, FailJobTyped DEF SyncInv
<1>. QED
  BY <1>2, <1>4, <1>6, <1>7 DEF SyncInv

LEMMA SyncNextKeeps == SyncInv /\ [ConnectorSyncNext]_syncVars => SyncInv'
<1>1. SUFFICES ASSUME SyncInv, [ConnectorSyncNext]_syncVars PROVE SyncInv'
  OBVIOUS
<1>2. CASE RemoteTick \/ \E d \in Docs : Modify(d)
  BY <1>1, <1>2, RemoteKeeps
<1>3. CASE (\E enabled \in BOOLEAN : CreateConnector(enabled)) \/ DeleteConnector \/ TriggerSync \/ Schedule \/ GrowDue
  BY <1>1, <1>3, RequestsKeepSyncs
<1>4. ASSUME NEW w \in Workers, SyncStep(w) PROVE SyncInv'
  BY <1>1, <1>4, StartKeeps, ListPageKeeps, DownloadKeeps, EnqueueDocKeeps, EndsKeep DEF SyncStep
<1>5. ASSUME NEW w \in Workers, ListFails(w) \/ DocFails(w) \/ SyncDies(w) PROVE SyncInv'
  BY <1>1, <1>5, DocFailsKeeps, EndsKeep
<1>6. CASE UNCHANGED syncVars
  BY <1>1, <1>6 DEF syncVars, SyncInv, CursorCovers, SyncOK, SyncTyped, SyncOwes, Unfetched
<1>. QED
  BY <1>1, <1>2, <1>3, <1>4, <1>5, <1>6 DEF ConnectorSyncNext

LEMMA SyncInvHolds == ConnectorSyncSpec => []SyncInv
  BY SyncStarts, SyncNextKeeps, PTL DEF ConnectorSyncSpec

\* Type correctness of the connectors: what a sync lists, has seen and ingests stays
\* inside what there is, and a sync leaves its listing only with every document listed.
THEOREM ConnectorsTypeCorrect == ConnectorSyncSpec => []SyncTypeOK
<1>1. SyncInv => SyncTypeOK
  BY DEF SyncInv, SyncTypeOK, SyncOK, SyncTyped
<1>. QED
  BY <1>1, SyncInvHolds, PTL

\* sync::run and update_connector_cursor: whatever pages fail, syncs die, overlap or run
\* twice, no stored cursor has passed a revision that has no ingest job and was not
\* counted as an error.
THEOREM CursorsAlwaysCover == ConnectorSyncSpec => []CursorCovers
<1>1. SyncInv => CursorCovers
  BY DEF SyncInv
<1>. QED
  BY <1>1, SyncInvHolds, PTL

\* The one step that takes a cursor back is the end of a sync that had read an older one.
LEMMA RewindsOverlap ==
  ASSUME SyncInv, [ConnectorSyncNext]_syncVars,
         connector # NoConnector, connector' # NoConnector, connector'.id = connector.id,
         connector'.cursor < connector.cursor
  PROVE  \E w \in Workers : /\ sync[w] # Idle /\ sync'[w] = Idle /\ sync[w].id = connector.id
                            /\ sync[w].since < connector.cursor
<1>1. connector \in Connectors /\ connector.cursor \in Nat /\ connector.id \in 1..Rows
  BY ConnectorSyncAssumption DEF SyncInv, Connectors
<1>2. connector' # connector
  BY <1>1
<1>3. ~\E enabled \in BOOLEAN : CreateConnector(enabled)
  BY DEF CreateConnector
<1>4. ~GrowDue
  <2>1. GrowDue => connector'.cursor = connector.cursor
    BY <1>1 DEF GrowDue, Connectors
  <2>. QED
    BY <1>1, <2>1
<1>5. PICK w \in Workers : SaveCursor(w) \/ ListFails(w)
  BY <1>2, <1>3, <1>4
     DEF ConnectorSyncNext, SyncStep, RemoteTick, Modify, DeleteConnector, TriggerSync, Schedule, EnqueueSync,
         StartSync, ListPage, Download, EnqueueDoc, DocFails, CountError, SyncDies, adminVars, syncVars
<1>6. sync[w] # Idle /\ LeaveSync(w)
  BY <1>5 DEF SaveCursor, ListFails, SyncAt
<1>7. SyncOK(sync[w]) /\ sync[w] \in Syncs
  BY <1>6 DEF SyncInv, SyncOK, SyncTyped
<1>8. PICK c \in {sync[w].since, NewCursor(sync[w])} : UpdateCursor(sync[w].id, c)
  BY <1>5 DEF SaveCursor, ListFails
<1>9. sync[w].since \in Nat /\ c \in Nat /\ sync[w].since <= c
  BY <1>7, ConnectorSyncAssumption DEF SyncOK, NewCursor, Syncs
<1>10. sync[w].id = connector.id /\ connector'.cursor = c
  BY <1>1, <1>2, <1>8 DEF UpdateCursor, RowExists, Connectors
<1>11. sync'[w] = Idle
  BY <1>6 DEF LeaveSync, SyncInv
<1>. QED
  BY <1>1, <1>6, <1>9, <1>10, <1>11

\* update_connector_cursor: a stored cursor goes back only where two syncs of the
\* connector overlap and the one that read the older cursor ends last.
THEOREM CursorsNeverRewound == ConnectorSyncSpec => CursorNeverRewound
<1>1. SyncInv /\ [ConnectorSyncNext]_syncVars =>
        [connector # NoConnector /\ connector' # NoConnector /\ connector'.id = connector.id
         /\ connector'.cursor < connector.cursor =>
           \E w \in Workers : sync[w] # Idle /\ sync'[w] = Idle /\ sync[w].id = connector.id
                              /\ sync[w].since < connector.cursor]_syncVars
  BY RewindsOverlap
<1>. QED
  BY <1>1, SyncInvHolds, PTL DEF ConnectorSyncSpec, CursorNeverRewound

-----------------------------------------------------------------------------
(* Sums of entries' sizes. *)

\* The sizes of the entries that the members of M were made from, added up.
SumOf(c, M) == MapThenSumSet(LAMBDA x : c[x.entry].size, M)

\* The equations of that sum.
SumsTo(c, M, g) ==
  \A s \in SUBSET M :
    g[s] = IF s = {} THEN 0
           ELSE c[(CHOOSE x \in s : TRUE).entry].size + g[s \ {CHOOSE x \in s : TRUE}]

\* The sum is the fold's value, whatever larger set it is computed in.
LEMMA SumIsFold ==
  ASSUME NEW c, NEW M, IsFiniteSet(M), \A x \in M : c[x.entry].size \in Nat
  PROVE  \E g \in [SUBSET M -> Nat] : SumsTo(c, M, g) /\ \A s \in SUBSET M : SumOf(c, s) = g[s]
<1>. DEFINE pick == [s \in SUBSET M |-> CHOOSE x \in s : TRUE]
            F == [p \in M \X Nat |-> c[p[1].entry].size + p[2]]
            Eq(g, S) == g = [s \in SUBSET S |-> IF s = {} THEN 0
                       ELSE c[(CHOOSE x \in s : TRUE).entry].size + g[s \ {CHOOSE x \in s : TRUE}]]
<1>1. Picks(M, pick) /\ \A s \in SUBSET M : s # {} => pick[s] \in s /\ pick[s] = CHOOSE x \in s : TRUE
  BY DEF Picks
<1>2. F \in [M \X Nat -> Nat]
  OBVIOUS
<1>3. \A x \in M, n \in Nat : F[<<x, n>>] = c[x.entry].size + n
  OBVIOUS
<1>4. PICK g \in [SUBSET M -> Nat] : FoldsTo(M, 0, pick, F, g)
  <2>. HIDE DEF pick, F
  <2>. QED
    BY <1>1, <1>2, FoldExists
<1>5. SumsTo(c, M, g)
  <2>1. ASSUME NEW s \in SUBSET M, s # {}
        PROVE  g[s] = c[(CHOOSE x \in s : TRUE).entry].size + g[s \ {CHOOSE x \in s : TRUE}]
    <3>1. pick[s] \in M /\ g[s \ {pick[s]}] \in Nat
      BY <1>1, <2>1
    <3>. HIDE DEF F
    <3>2. g[s] = c[pick[s].entry].size + g[s \ {pick[s]}]
      BY <1>3, <1>4, <2>1, <3>1 DEF FoldsTo
    <3>. QED
      BY <1>1, <2>1, <3>2
  <2>2. g[{}] = 0
    BY <1>4 DEF FoldsTo
  <2>. QED
    BY <2>1, <2>2 DEF SumsTo
<1>6. ASSUME NEW S \in SUBSET M
      PROVE  SumOf(c, S) = g[S]
  <2>. DEFINE h == CHOOSE h : Eq(h, S)
              r == [s \in SUBSET S |-> g[s]]
  <2>1. SumOf(c, S) = h[S]
    BY DEF SumOf, MapThenSumSet, MapThenFoldSet
  <2>2. Eq(r, S)
    <3>1. \A s \in SUBSET S : r[s] = IF s = {} THEN 0
                       ELSE c[(CHOOSE x \in s : TRUE).entry].size + r[s \ {CHOOSE x \in s : TRUE}]
      BY <1>5 DEF SumsTo
    <3>. QED
      BY <3>1
  <2>3. Eq(h, S)
    <3>. HIDE DEF Eq, r
    <3>. QED
      BY <2>2
  <2>. HIDE DEF h
  <2>4. \A s \in SUBSET S : h[s] = g[s]
    <3>. DEFINE bad == {s \in SUBSET S : h[s] # g[s]}
    <3>1. SUFFICES ASSUME bad # {} PROVE FALSE
      OBVIOUS
    <3>2. PICK s \in bad : \A t \in bad : t \subseteq s => t = s
      <4>1. bad \in SUBSET (SUBSET M)
        OBVIOUS
      <4>. HIDE DEF bad
      <4>. QED
        BY <3>1, <4>1, SmallestOf
    <3>3. s \in SUBSET S /\ s # {}
      BY <1>5, <2>3, <3>2 DEF SumsTo
    <3>4. h[s \ {CHOOSE x \in s : TRUE}] = g[s \ {CHOOSE x \in s : TRUE}]
      BY <3>2, <3>3
    <3>5. g[s] = c[(CHOOSE x \in s : TRUE).entry].size + g[s \ {CHOOSE x \in s : TRUE}]
      BY <1>5, <3>3 DEF SumsTo
    <3>6. h[s] = c[(CHOOSE x \in s : TRUE).entry].size + h[s \ {CHOOSE x \in s : TRUE}]
      BY <2>3, <3>3
    <3>7. h[s] # g[s]
      BY <3>2
    <3>. QED
      BY <3>4, <3>5, <3>6, <3>7
  <2>. QED
    BY <2>1, <2>4
<1>. QED
  BY <1>5, <1>6

\* Any member can be taken out first: addition does not mind the order.
LEMMA SumSplits ==
  ASSUME NEW c, NEW M, IsFiniteSet(M), \A x \in M : c[x.entry].size \in Nat
  PROVE  /\ SumOf(c, M) \in Nat /\ SumOf(c, {}) = 0
         /\ \A x \in M : SumOf(c, M) = c[x.entry].size + SumOf(c, M \ {x})
<1>1. PICK g \in [SUBSET M -> Nat] : SumsTo(c, M, g) /\ \A s \in SUBSET M : SumOf(c, s) = g[s]
  BY SumIsFold
<1>. DEFINE bad == {s \in SUBSET M : ~ \A x \in s : g[s] = c[x.entry].size + g[s \ {x}]}
<1>2. bad = {}
  <2>1. SUFFICES ASSUME bad # {} PROVE FALSE
    OBVIOUS
  <2>2. PICK s \in bad : \A t \in bad : t \subseteq s => t = s
    <3>1. bad \in SUBSET (SUBSET M)
      OBVIOUS
    <3>. HIDE DEF bad
    <3>. QED
      BY <2>1, <3>1, SmallestOf
  <2>3. PICK x \in s : g[s] # c[x.entry].size + g[s \ {x}]
    BY <2>2
  <2>4. PICK y \in s : g[s] = c[y.entry].size + g[s \ {y}]
    <3>1. s \in SUBSET M /\ s # {}
      BY <2>2, <2>3
    <3>2. (CHOOSE x1 \in s : TRUE) \in s
      BY <3>1
    <3>. QED
      BY <1>1, <3>1, <3>2 DEF SumsTo
  <2>5. x # y
    BY <2>3, <2>4
  <2>6. s \ {x} \notin bad /\ s \ {y} \notin bad
    BY <2>2, <2>3, <2>4
  <2>7. g[s \ {y}] = c[x.entry].size + g[(s \ {y}) \ {x}] /\ g[s \ {x}] = c[y.entry].size + g[(s \ {x}) \ {y}]
    BY <2>2, <2>3, <2>4, <2>5, <2>6
  <2>8. (s \ {y}) \ {x} = (s \ {x}) \ {y} /\ (s \ {x}) \ {y} \in SUBSET M
    BY <2>2
  <2>9. c[x.entry].size \in Nat /\ c[y.entry].size \in Nat /\ g[(s \ {x}) \ {y}] \in Nat
    BY <2>2, <2>3, <2>4, <2>8
  <2>10. c[x.entry].size + (c[y.entry].size + g[(s \ {x}) \ {y}]) = c[y.entry].size + (c[x.entry].size + g[(s \ {x}) \ {y}])
    BY <2>9
  <2>11. g[s] = c[y.entry].size + (c[x.entry].size + g[(s \ {x}) \ {y}])
    BY <2>4, <2>7, <2>8
  <2>. QED
    BY <2>3, <2>7, <2>10, <2>11
<1>3. ASSUME NEW x \in M
      PROVE  g[M] = c[x.entry].size + g[M \ {x}]
  <2>1. M \notin bad
    BY <1>2
  <2>. QED
    BY <2>1
<1>4. g[M] \in Nat /\ g[{}] = 0
  BY <1>1 DEF SumsTo
<1>. QED
  BY <1>1, <1>3, <1>4

-----------------------------------------------------------------------------
(* read_entries. *)

\* The results of read_entries.
Readings == [bomb : BOOLEAN, total : Nat, kept : Seq(Nat)]
NothingRead == [bomb |-> FALSE, total |-> 0, kept |-> <<>>]

\* The readings after each entry: g[i] is read_entries' state behind entry i.
ReadsTo(c, g) ==
  /\ g \in [0..Len(c) -> Readings] /\ g[0] = NothingRead
  /\ \A i \in 1..Len(c) : g[i] = ReadEntry(g[i - 1], i, c[i])
  /\ ReadEntries(c) = g[Len(c)]

\* The greatest of the first numbers.
LEMMA MaxOf ==
  ASSUME NEW n \in Nat
  PROVE  /\ \A s \in SUBSET (1..n) : s # {} => Max(s) \in s
         /\ \A i \in 1..n : Max(1..i) = i
<1>1. ASSUME NEW s \in SUBSET (1..n), s # {}
      PROVE  \E x \in s : \A y \in s : x >= y
  <2>. DEFINE T == {n - x : x \in s}
  <2>1. T \in SUBSET Nat /\ T # {}
    <3>1. \A x \in s : n - x \in Nat
      OBVIOUS
    <3>. QED
      BY <1>1, <3>1
  <2>2. PICK m \in T : \A k \in T : m <= k
    <3>. HIDE DEF T
    <3>. QED
      BY <2>1, LeastOf
  <2>3. PICK x \in s : m = n - x
    BY <2>2
  <2>4. \A y \in s : n - x <= n - y
    BY <2>2, <2>3
  <2>5. \A y \in s : x \in Int /\ y \in Int
    <3>1. \A k \in 1..n : k \in Int
      OBVIOUS
    <3>2. x \in 1..n /\ \A y \in s : y \in 1..n
      BY <2>3
    <3>. QED
      BY <3>1, <3>2
  <2>. QED
    BY <2>4, <2>5
<1>2. ASSUME NEW s \in SUBSET (1..n), s # {}
      PROVE  Max(s) \in s /\ \A y \in s : Max(s) >= y
  BY <1>1, <1>2 DEF Max
<1>3. ASSUME NEW i \in 1..n
      PROVE  Max(1..i) = i
  <2>1. 1..i \in SUBSET (1..n) /\ i \in 1..i
    OBVIOUS
  <2>2. Max(1..i) \in 1..i /\ Max(1..i) >= i
    BY <1>2, <2>1
  <2>. QED
    BY <2>2
<1>. QED
  BY <1>2, <1>3

\* An archive's entries have sizes.
LEMMA EntriesSized ==
  ASSUME NEW c \in Seq(ZipEntries), NEW i \in 1..Len(c)
  PROVE  c[i].size \in Nat /\ i \in Nat /\ i - 1 \in Nat
<1>1. c[i] \in ZipEntries
  OBVIOUS
<1>2. Len(c) \in Nat
  OBVIOUS
<1>. QED
  BY <1>1, <1>2 DEF ZipEntries

\* One turn keeps to the results.
LEMMA ReadEntryTyped ==
  ASSUME NEW c \in Seq(ZipEntries), NEW acc \in Readings, NEW i \in 1..Len(c)
  PROVE  ReadEntry(acc, i, c[i]) \in Readings
<1>1. c[i].size \in Nat /\ acc.total + c[i].size \in Nat /\ i \in Nat
  BY EntriesSized DEF Readings
<1>2. Append(acc.kept, i) \in Seq(Nat)
  BY <1>1 DEF Readings
<1>3. [acc EXCEPT !.bomb = TRUE] \in Readings
  BY DEF Readings
<1>4. [acc EXCEPT !.total = acc.total + c[i].size, !.kept = Append(acc.kept, i)] \in Readings
  BY <1>1, <1>2 DEF Readings
<1>. QED
  BY <1>3, <1>4 DEF ReadEntry

LEMMA ReadingsExist ==
  ASSUME NEW c \in Seq(ZipEntries)
  PROVE  \E g : ReadsTo(c, g)
<1>. DEFINE n == Len(c)
            D == 1..n
            pick == [s \in SUBSET D |-> Max(s)]
            F == [p \in D \X Readings |-> ReadEntry(p[2], p[1], c[p[1]])]
            ids == [i \in DOMAIN c |-> i]
            Eq(g) == g = [s \in SUBSET DOMAIN ids |->
                       IF s = {} THEN NothingRead ELSE ReadEntry(g[s \ {Max(s)}], ids[Max(s)], c[ids[Max(s)]])]
            h == CHOOSE h : Eq(h)
<1>1. n \in Nat /\ IsFiniteSet(D) /\ DOMAIN ids = D /\ \A i \in D : ids[i] = i
  BY FS_Interval
<1>2. \A s \in SUBSET D : s # {} => Max(s) \in s
  BY <1>1, MaxOf
<1>3. Picks(D, pick)
  BY <1>2 DEF Picks
<1>4. F \in [D \X Readings -> Readings] /\ \A i \in D, r \in Readings : F[<<i, r>>] = ReadEntry(r, i, c[i])
  BY ReadEntryTyped
<1>5. NothingRead \in Readings
  BY DEF NothingRead, Readings
<1>6. PICK f \in [SUBSET D -> Readings] : FoldsTo(D, NothingRead, pick, F, f)
  <2>. HIDE DEF pick, F, D
  <2>. QED
    BY <1>1, <1>3, <1>4, <1>5, FoldExists
<1>7. \A s \in SUBSET D : f[s] = IF s = {} THEN NothingRead ELSE ReadEntry(f[s \ {Max(s)}], Max(s), c[Max(s)])
  <2>1. ASSUME NEW s \in SUBSET D, s # {}
        PROVE  f[s] = ReadEntry(f[s \ {Max(s)}], Max(s), c[Max(s)])
    <3>1. Max(s) \in D /\ s \ {Max(s)} \in SUBSET D /\ pick[s] = Max(s)
      BY <1>2, <2>1
    <3>2. f[s \ {Max(s)}] \in Readings
      BY <3>1
    <3>3. f[s] = F[<<Max(s), f[s \ {Max(s)}]>>]
      BY <1>6, <2>1, <3>1 DEF FoldsTo
    <3>. HIDE DEF F, pick
    <3>. QED
      BY <1>4, <3>1, <3>2, <3>3
  <2>2. f[{}] = NothingRead
    BY <1>6 DEF FoldsTo
  <2>. QED
    BY <2>1, <2>2
<1>8. Eq(f)
  <2>1. \A s \in SUBSET D : s # {} => ids[Max(s)] = Max(s)
    BY <1>1, <1>2
  <2>2. \A s \in SUBSET D : f[s] = IF s = {} THEN NothingRead ELSE ReadEntry(f[s \ {Max(s)}], ids[Max(s)], c[ids[Max(s)]])
    BY <1>7, <2>1
  <2>. HIDE DEF ids, D
  <2>. QED
    BY <1>1, <2>2
<1>9. Eq(h)
  <2>. HIDE DEF Eq
  <2>. QED
    BY <1>8
<1>10. ReadEntries(c) = h[DOMAIN ids]
  BY DEF ReadEntries, FoldLeft, MapThenFoldSet, NothingRead
<1>. HIDE DEF h
<1>11. \A s \in SUBSET D : h[s] = IF s = {} THEN NothingRead ELSE ReadEntry(h[s \ {Max(s)}], Max(s), c[Max(s)])
  <2>1. \A s \in SUBSET D : h[s] = IF s = {} THEN NothingRead ELSE ReadEntry(h[s \ {Max(s)}], ids[Max(s)], c[ids[Max(s)]])
    BY <1>1, <1>9
  <2>2. \A s \in SUBSET D : s # {} => ids[Max(s)] = Max(s)
    BY <1>1, <1>2
  <2>. HIDE DEF ids
  <2>. QED
    BY <2>1, <2>2
<1>12. \A s \in SUBSET D : h[s] \in Readings
  <2>. DEFINE bad == {s \in SUBSET D : h[s] # f[s]}
  <2>1. SUFFICES ASSUME bad # {} PROVE FALSE
    OBVIOUS
  <2>2. PICK s \in bad : \A t \in bad : t \subseteq s => t = s
    <3>1. bad \in SUBSET (SUBSET D)
      OBVIOUS
    <3>2. IsFiniteSet(D)
      BY <1>1
    <3>. HIDE DEF bad, D
    <3>. QED
      BY <2>1, <3>1, <3>2, SmallestOf
  <2>3. s \in SUBSET D /\ s # {} /\ h[s] # f[s]
    BY <1>7, <1>11, <2>2
  <2>4. h[s \ {Max(s)}] = f[s \ {Max(s)}]
    <3>. DEFINE r == s \ {Max(s)}
    <3>1. Max(s) \in s
      BY <1>2, <2>3
    <3>2. r \in SUBSET D /\ r \subseteq s /\ r # s
      BY <2>3, <3>1
    <3>3. r \notin bad
      <4>. HIDE DEF r, bad
      <4>. QED
        BY <2>2, <3>2
    <3>. QED
      BY <3>2, <3>3
  <2>5. f[s] = ReadEntry(f[s \ {Max(s)}], Max(s), c[Max(s)])
    BY <1>7, <2>3
  <2>6. h[s] = ReadEntry(h[s \ {Max(s)}], Max(s), c[Max(s)])
    BY <1>11, <2>3
  <2>. QED
    BY <2>3, <2>4, <2>5, <2>6
<1>. DEFINE g == [i \in 0..n |-> h[1..i]]
<1>13. g \in [0..n -> Readings] /\ g[0] = NothingRead /\ g[n] = ReadEntries(c)
  <2>1. \A i \in 0..n : 1..i \in SUBSET D
    BY <1>1
  <2>2. 1..0 = {} /\ 0 \in 0..n /\ n \in 0..n
    BY <1>1
  <2>3. h[{}] = NothingRead
    BY <1>11
  <2>. HIDE DEF ids
  <2>. QED
    BY <1>1, <1>10, <1>12, <2>1, <2>2, <2>3
<1>14. ASSUME NEW i \in 1..n
       PROVE  g[i] = ReadEntry(g[i - 1], i, c[i])
  <2>1. 1..i \in SUBSET D /\ 1..i # {} /\ i \in 0..n /\ i - 1 \in 0..n /\ (1..i) \ {i} = 1..(i - 1)
    BY <1>1
  <2>2. Max(1..i) = i
    BY <1>1, MaxOf
  <2>. QED
    BY <1>11, <2>1, <2>2
<1>. HIDE DEF g
<1>. QED
  BY <1>13, <1>14 DEF ReadsTo

\* What is made of each readable entry among the first i, at most once, adds up to no more than t.
SumsWithin(c, i, t) ==
  \A M : /\ IsFiniteSet(M)
         /\ \A x, y \in M : x.entry = y.entry => x = y
         /\ \A x \in M : x.entry \in 1..i /\ IsKept(c[x.entry])
         => SumOf(c, M) <= t

\* The entries in k are readable ones among the first i, all of them, each once.
KeepsReadable(c, i, k) ==
  /\ \A j \in DOMAIN k : k[j] \in 1..i
  /\ \A j, l \in DOMAIN k : k[j] = k[l] => j = l
  /\ \A e \in 1..i : IsKept(c[e]) <=> \E j \in DOMAIN k : k[j] = e

\* read_entries' state behind the first i entries, when no bomb was met.
ReadSoFar(c, i, r) ==
  r.total <= MAX_TOTAL_UNCOMPRESSED /\ KeepsReadable(c, i, r.kept) /\ SumsWithin(c, i, r.total)

\* One more entry is kept.
LEMMA OneMoreKept ==
  ASSUME NEW c, NEW i \in Nat \ {0}, NEW k \in Seq(Nat), KeepsReadable(c, i - 1, k), IsKept(c[i])
  PROVE  KeepsReadable(c, i, Append(k, i))
<1>. DEFINE n == Len(k)
            kk == Append(k, i)
<1>1. /\ n \in Nat /\ DOMAIN k = 1..n /\ DOMAIN kk = 1..(n + 1)
      /\ kk[n + 1] = i /\ \A j \in 1..n : kk[j] = k[j]
  OBVIOUS
<1>. HIDE DEF n, kk
<1>2. \A j \in DOMAIN kk : j = n + 1 \/ j \in 1..n
  BY <1>1
<1>3. \A j \in 1..n : k[j] \in 1..(i - 1) /\ k[j] # i
  BY <1>1 DEF KeepsReadable
<1>4. \A j \in DOMAIN kk : kk[j] \in 1..i
  BY <1>1, <1>2, <1>3
<1>5. \A j, l \in DOMAIN kk : kk[j] = kk[l] => j = l
  BY <1>1, <1>2, <1>3 DEF KeepsReadable
<1>6. ASSUME NEW e \in 1..i
      PROVE  IsKept(c[e]) <=> \E j \in DOMAIN kk : kk[j] = e
  <2>1. CASE e = i
    BY <1>1, <2>1
  <2>2. CASE e # i
    <3>1. e \in 1..(i - 1)
      BY <2>2
    <3>2. (\E j \in DOMAIN kk : kk[j] = e) <=> \E j \in DOMAIN k : k[j] = e
      BY <1>1, <1>2, <2>2
    <3>. QED
      BY <3>1, <3>2 DEF KeepsReadable
  <2>. QED
    BY <2>1, <2>2
<1>. QED
  BY <1>4, <1>5, <1>6 DEF KeepsReadable, kk

\* An entry that is not readable changes nothing.
LEMMA NoMoreKept ==
  ASSUME NEW c, NEW i \in Nat \ {0}, NEW k \in Seq(Nat), KeepsReadable(c, i - 1, k), ~IsKept(c[i])
  PROVE  KeepsReadable(c, i, k)
<1>1. \A j \in DOMAIN k : k[j] \in 1..(i - 1) /\ k[j] # i /\ k[j] \in 1..i
  BY DEF KeepsReadable
<1>2. \A e \in 1..i : e = i \/ e \in 1..(i - 1)
  OBVIOUS
<1>. QED
  BY <1>1, <1>2 DEF KeepsReadable

\* The sums behind one more entry.
LEMMA OneMoreSummed ==
  ASSUME NEW c \in Seq(ZipEntries), NEW i \in 1..Len(c), NEW t \in Nat, SumsWithin(c, i - 1, t)
  PROVE  /\ ~IsKept(c[i]) => SumsWithin(c, i, t)
         /\ SumsWithin(c, i, t + c[i].size)
<1>1. c[i].size \in Nat /\ \A e \in 1..i : e = i \/ e \in 1..(i - 1)
  BY EntriesSized
<1>2. \A e \in 1..i : c[e].size \in Nat
  <2>1. \A e \in 1..i : e \in 1..Len(c)
    OBVIOUS
  <2>. QED
    BY <2>1, EntriesSized
<1>3. SUFFICES ASSUME NEW M, IsFiniteSet(M), \A x, y \in M : x.entry = y.entry => x = y,
                      \A x \in M : x.entry \in 1..i /\ IsKept(c[x.entry])
               PROVE  /\ ~IsKept(c[i]) => SumOf(c, M) <= t
                      /\ SumOf(c, M) <= t + c[i].size
  BY DEF SumsWithin
<1>4. \A x \in M : c[x.entry].size \in Nat
  BY <1>2, <1>3
<1>5. CASE \E x \in M : x.entry = i
  <2>1. PICK x \in M : x.entry = i
    BY <1>5
  <2>2. IsFiniteSet(M \ {x}) /\ \A y \in M \ {x} : c[y.entry].size \in Nat
    BY <1>3, <1>4, FS_RemoveElement
  <2>3. \A y \in M \ {x} : y.entry \in 1..(i - 1) /\ IsKept(c[y.entry])
    BY <1>1, <1>3, <2>1
  <2>4. SumOf(c, M \ {x}) <= t
    <3>1. \A y, z \in M \ {x} : y.entry = z.entry => y = z
      BY <1>3
    <3>. QED
      BY <2>2, <2>3, <3>1 DEF SumsWithin
  <2>5. SumOf(c, M) = c[x.entry].size + SumOf(c, M \ {x})
    BY <1>3, <1>4, SumSplits
  <2>6. SumOf(c, M \ {x}) \in Nat
    BY <2>2, SumSplits
  <2>. QED
    BY <1>1, <1>3, <2>1, <2>4, <2>5, <2>6
<1>6. CASE ~\E x \in M : x.entry = i
  <2>1. \A y \in M : y.entry \in 1..(i - 1) /\ IsKept(c[y.entry])
    BY <1>1, <1>3, <1>6
  <2>2. SumOf(c, M) <= t
    BY <1>3, <2>1 DEF SumsWithin
  <2>3. SumOf(c, M) \in Nat
    BY <1>3, <1>4, SumSplits
  <2>. QED
    BY <1>1, <2>2, <2>3
<1>. QED
  BY <1>5, <1>6

LEMMA ReadEntrySound ==
  ASSUME NEW c \in Seq(ZipEntries), NEW i \in 1..Len(c), NEW r \in Readings, ~r.bomb, ReadSoFar(c, i - 1, r),
         ~ReadEntry(r, i, c[i]).bomb
  PROVE  ReadSoFar(c, i, ReadEntry(r, i, c[i]))
<1>1. c[i].size \in Nat /\ i \in Nat \ {0} /\ r.total \in Nat /\ r.kept \in Seq(Nat)
  <2>1. r.total \in Nat /\ r.kept \in Seq(Nat)
    BY DEF Readings
  <2>2. Len(c) \in Nat /\ i \in Nat \ {0}
    BY LenProperties
  <2>3. \A k \in 1..Len(c) : c[k].size \in Nat
    BY EntriesSized
  <2>. QED
    BY <2>1, <2>2, <2>3
<1>2. r.total <= MAX_TOTAL_UNCOMPRESSED /\ KeepsReadable(c, i - 1, r.kept) /\ SumsWithin(c, i - 1, r.total)
  BY DEF ReadSoFar
<1>3. CASE ~IsKept(c[i])
  <2>1. ReadEntry(r, i, c[i]) = r
    BY <1>3 DEF ReadEntry
  <2>. QED
    BY <1>1, <1>2, <1>3, <2>1, NoMoreKept, OneMoreSummed DEF ReadSoFar
<1>4. CASE IsKept(c[i])
  <2>. DEFINE t == r.total + c[i].size
  <2>1. ~(t > MAX_TOTAL_UNCOMPRESSED)
    BY <1>4 DEF ReadEntry, Readings
  <2>2. ReadEntry(r, i, c[i]) = [r EXCEPT !.total = t, !.kept = Append(r.kept, i)]
    BY <1>4, <2>1 DEF ReadEntry
  <2>3. ReadEntry(r, i, c[i]).total = t /\ ReadEntry(r, i, c[i]).kept = Append(r.kept, i)
    BY <2>2 DEF Readings
  <2>4. KeepsReadable(c, i, Append(r.kept, i)) /\ SumsWithin(c, i, t)
    BY <1>1, <1>2, <1>4, OneMoreKept, OneMoreSummed
  <2>5. t <= MAX_TOTAL_UNCOMPRESSED
    BY <1>1, <2>1, ArchiveAssumption
  <2>. QED
    BY <2>3, <2>4, <2>5 DEF ReadSoFar
<1>. QED
  BY <1>3, <1>4

\* What read_entries takes out of an archive that is no bomb.
LEMMA ReadsKeepToCaps ==
  ASSUME NEW c \in Seq(ZipEntries), ~ReadEntries(c).bomb
  PROVE  ReadEntries(c) \in Readings /\ ReadSoFar(c, Len(c), ReadEntries(c))
<1>1. PICK g : ReadsTo(c, g)
  BY ReadingsExist
<1>2. /\ \A i \in 0..Len(c) : g[i] \in Readings
      /\ g[0] = NothingRead /\ ReadEntries(c) = g[Len(c)] /\ Len(c) \in Nat
      /\ \A i \in 1..Len(c) : g[i] = ReadEntry(g[i - 1], i, c[i])
  BY <1>1 DEF ReadsTo
<1>. DEFINE bad == {i \in 0..Len(c) : ~g[i].bomb /\ ~ReadSoFar(c, i, g[i])}
<1>3. bad = {}
  <2>1. SUFFICES ASSUME bad # {} PROVE FALSE
    OBVIOUS
  <2>2. PICK i \in bad : \A j \in bad : i <= j
    <3>1. bad \in SUBSET Nat
      OBVIOUS
    <3>. HIDE DEF bad
    <3>. QED
      BY <2>1, <3>1, LeastOf
  <2>3. ReadSoFar(c, 0, g[0])
    <3>1. ASSUME NEW M, \A x \in M : x.entry \in 1..0
          PROVE  SumOf(c, M) <= 0
      <4>1. M = {}
        BY <3>1
      <4>2. SumOf(c, {}) = 0
        BY SumSplits, FS_EmptySet
      <4>. QED
        BY <4>1, <4>2
    <3>2. NothingRead.total = 0 /\ NothingRead.kept = <<>> /\ DOMAIN NothingRead.kept = {}
      BY DEF NothingRead
    <3>. QED
      BY <1>2, <3>1, <3>2, ArchiveAssumption DEF ReadSoFar, SumsWithin, KeepsReadable
  <2>4. i \in 1..Len(c) /\ i - 1 \in 0..Len(c) /\ i - 1 \notin bad
    <3>1. i \in 0..Len(c) /\ i # 0
      BY <2>2, <2>3
    <3>2. i - 1 \notin bad
      <4>. HIDE DEF bad
      <4>. QED
        BY <2>2, <3>1
    <3>. QED
      BY <1>2, <3>1, <3>2
  <2>5. g[i] = ReadEntry(g[i - 1], i, c[i]) /\ g[i - 1] \in Readings /\ ~g[i].bomb /\ ~ReadSoFar(c, i, g[i])
    BY <1>2, <2>2, <2>4
  <2>6. ~g[i - 1].bomb
    BY <2>5 DEF ReadEntry
  <2>7. ReadSoFar(c, i - 1, g[i - 1])
    BY <2>4, <2>6
  <2>. QED
    BY <2>4, <2>5, <2>6, <2>7, ReadEntrySound
<1>4. Len(c) \in 0..Len(c)
  BY <1>2
<1>. QED
  BY <1>2, <1>3, <1>4

-----------------------------------------------------------------------------
(* The expansion of archives. *)

Sourced == [archive : Archives \cup {"none"}, entry : Nat, attempt : 0..MaxAttempts, size_bytes : Nat,
            slug : Slugs, job : BOOLEAN]

\* Two states of one source: only its job may have come in between.
SameChild(c, d) ==
  /\ c.archive = d.archive /\ c.entry = d.entry /\ c.attempt = d.attempt /\ c.slug = d.slug
  /\ c.job => d.job

\* What the attempt under way has made so far.
Latest(a) == {c \in Children(a) : c.attempt = attempt[a]}

\* The entries of an archive that are to become sources.
Readable(a) == {i \in DOMAIN content[a] : IsKept(content[a][i])}

SlugsDiffer == \A c, d \in children : c.slug = d.slug => c = d

\* Only archives that are not refused have children: of readable entries, each at most
\* once in an attempt.
ChildrenFit(a) ==
  /\ \A c \in Children(a) : ~IsRefused(content[a]) /\ c.entry \in Readable(a) /\ c.attempt \in 1..attempt[a]
  /\ \A c, d \in Children(a) : c.attempt = d.attempt /\ c.entry = d.entry => c = d

\* What is left to do and what this attempt has made are all the readable entries, and
\* only an entry that is to be enqueued is in both.
ExpansionFits(a, x) ==
  /\ status[a] = "extracting" /\ attempt[a] >= 1
  /\ x.at = "read" => Latest(a) = {}
  /\ x.at # "read" =>
       /\ ~IsRefused(content[a])
       /\ \A j \in DOMAIN x.todo : x.todo[j] \in Readable(a)
       /\ \A j, l \in DOMAIN x.todo : x.todo[j] = x.todo[l] => j = l
       /\ \A j \in DOMAIN x.todo, c \in Latest(a) : c.entry = x.todo[j] => x.at = "enqueue" /\ j = 1
       /\ \A e \in Readable(a) : (\E j \in DOMAIN x.todo : x.todo[j] = e) \/ \E c \in Latest(a) : c.entry = e /\ c.job
  /\ x.at \in {"insert", "enqueue"} => x.todo # <<>> /\ x.slug \in Slugs
  /\ x.at = "enqueue" => \E c \in Latest(a) : c.entry = x.todo[1] /\ c.slug = x.slug

\* A done archive is expanded, and nothing is at work on it.
DoneFits(a) ==
  status[a] = "done" =>
    /\ expand[a] = {} /\ ~IsRefused(content[a])
    /\ \A e \in Readable(a) : \E c \in Children(a) : c.entry = e /\ c.job

ArchiveFits(a) == ChildrenFit(a) /\ (\A x \in expand[a] : ExpansionFits(a, x)) /\ DoneFits(a)

\* The inductive invariant of the expansions.
ArchiveInv ==
  /\ ArchiveTypeOK /\ IsFiniteSet(children) /\ SlugsDiffer
  /\ \A a \in Archives : ArchiveFits(a)

LEMMA ArchiveStarts == ArchiveInit => ArchiveInv
<1>. SUFFICES ASSUME ArchiveInit PROVE ArchiveInv
  OBVIOUS
<1>1. ArchiveTypeOK
  BY ArchiveAssumption DEF ArchiveInit, ArchiveTypeOK
<1>2. IsFiniteSet(children) /\ SlugsDiffer
  BY FS_EmptySet DEF ArchiveInit, SlugsDiffer
<1>3. \A a \in Archives : ArchiveFits(a)
  BY DEF ArchiveInit, ArchiveFits, ChildrenFit, DoneFits, Children
<1>. QED
  BY <1>1, <1>2, <1>3 DEF ArchiveInv

\* An archive that a step does nothing to keeps what it has: its children stay, at most
\* with jobs added, and nobody else's become its own.
LEMMA BystandersKeep ==
  ASSUME ArchiveInv, SlugsDiffer', NEW a \in Archives,
         content' = content, status'[a] = status[a], attempt'[a] = attempt[a], expand'[a] = expand[a],
         \A c \in Children(a) : \E d \in Children(a)' : SameChild(c, d),
         \A d \in Children(a)' : \E c \in Children(a) : SameChild(c, d)
  PROVE  ArchiveFits(a)'
<1>1. ChildrenFit(a) /\ (\A x \in expand[a] : ExpansionFits(a, x)) /\ DoneFits(a)
  BY DEF ArchiveInv, ArchiveFits
<1>2. Readable(a)' = Readable(a)
  BY DEF Readable
<1>3. \A c \in Latest(a) : \E d \in Latest(a)' : SameChild(c, d)
  BY DEF Latest, SameChild
<1>4. \A d \in Latest(a)' : \E c \in Latest(a) : SameChild(c, d)
  BY DEF Latest, SameChild
<1>5. ChildrenFit(a)'
  <2>1. ASSUME NEW d \in Children(a)'
        PROVE  ~IsRefused(content[a]) /\ d.entry \in Readable(a) /\ d.attempt \in 1..attempt[a]
    BY <1>1 DEF ChildrenFit, SameChild
  <2>2. ASSUME NEW d \in Children(a)', NEW e \in Children(a)', d.attempt = e.attempt, d.entry = e.entry
        PROVE  d = e
    <3>1. PICK c \in Children(a) : SameChild(c, d)
      OBVIOUS
    <3>2. PICK b \in Children(a) : SameChild(b, e)
      OBVIOUS
    <3>3. b = c
      BY <1>1, <2>2, <3>1, <3>2 DEF ChildrenFit, SameChild
    <3>. QED
      BY <3>1, <3>2, <3>3 DEF SameChild, SlugsDiffer, Children
  <2>. QED
    BY <1>2, <2>1, <2>2 DEF ChildrenFit
<1>6. ASSUME NEW x \in expand[a]
      PROVE  ExpansionFits(a, x)'
  <2>1. ExpansionFits(a, x)
    BY <1>1
  <2>2. x.at = "read" => Latest(a)' = {}
    BY <1>4, <2>1 DEF ExpansionFits
  <2>3. x.at # "read" => \A j \in DOMAIN x.todo, d \in Latest(a)' : d.entry = x.todo[j] => x.at = "enqueue" /\ j = 1
    BY <1>4, <2>1 DEF ExpansionFits, SameChild
  <2>4. x.at # "read" => \A e \in Readable(a) : (\E j \in DOMAIN x.todo : x.todo[j] = e) \/ \E d \in Latest(a)' : d.entry = e /\ d.job
    BY <1>3, <2>1 DEF ExpansionFits, SameChild
  <2>5. x.at = "enqueue" => \E d \in Latest(a)' : d.entry = x.todo[1] /\ d.slug = x.slug
    BY <1>3, <2>1 DEF ExpansionFits, SameChild
  <2>. QED
    BY <1>2, <2>1, <2>2, <2>3, <2>4, <2>5 DEF ExpansionFits
<1>7. DoneFits(a)'
  BY <1>1, <1>2 DEF DoneFits, SameChild
<1>. QED
  BY <1>5, <1>6, <1>7 DEF ArchiveFits

\* Steps that make no sources and leave the others alone.
LEMMA OwnStepKeeps ==
  ASSUME ArchiveInv, NEW a \in Archives, children' = children, content' = content, uploaded' = uploaded,
         \A b \in Archives \ {a} : status'[b] = status[b] /\ attempt'[b] = attempt[b] /\ expand'[b] = expand[b],
         ArchiveTypeOK', ArchiveFits(a)'
  PROVE  ArchiveInv'
<1>1. IsFiniteSet(children)' /\ SlugsDiffer'
  BY DEF ArchiveInv, SlugsDiffer
<1>2. ASSUME NEW b \in Archives, b # a
      PROVE  ArchiveFits(b)'
  <2>1. Children(b)' = Children(b) /\ \A c : SameChild(c, c)
    BY DEF Children, SameChild
  <2>2. /\ \A c \in Children(b) : \E d \in Children(b)' : SameChild(c, d)
        /\ \A d \in Children(b)' : \E c \in Children(b) : SameChild(c, d)
    BY <2>1
  <2>3. status'[b] = status[b] /\ attempt'[b] = attempt[b] /\ expand'[b] = expand[b]
    BY <1>2
  <2>. QED
    BY <1>1, <2>2, <2>3, BystandersKeep
<1>. QED
  BY <1>1, <1>2 DEF ArchiveInv

\* A free slug is nobody's.
LEMMA FreeIsUnused == \A n \in FreeSlug : n \in Slugs /\ n \in 0..MaxSlug /\ n \notin Used
  BY ArchiveAssumption DEF FreeSlug, Slugs

\* A source is added under a slug nobody has.
LEMMA AddedChild ==
  ASSUME ArchiveInv, NEW d, d.slug \in Slugs, d.slug \notin Used, children' = children \cup {d}
  PROVE  IsFiniteSet(children)' /\ SlugsDiffer'
<1>1. IsFiniteSet(children')
  BY FS_AddElement DEF ArchiveInv
<1>2. \A c \in children : c.slug # d.slug
  BY DEF Used
<1>. QED
  BY <1>1, <1>2 DEF ArchiveInv, SlugsDiffer

\* Archives that the added source does not come from keep what they have.
LEMMA OthersChild ==
  ASSUME ArchiveInv, NEW d, children' = children \cup {d}, NEW b, d.archive # b
  PROVE  /\ \A c \in Children(b) : \E e \in Children(b)' : SameChild(c, e)
         /\ \A e \in Children(b)' : \E c \in Children(b) : SameChild(c, e)
<1>1. Children(b)' = Children(b) /\ \A c : SameChild(c, c)
  BY DEF Children, SameChild
<1>. QED
  BY <1>1

LEMMA UploadKeeps == ArchiveInv /\ UploadSource => ArchiveInv'
<1>. SUFFICES ASSUME ArchiveInv, UploadSource PROVE ArchiveInv'
  OBVIOUS
<1>1. PICK n \in FreeSlug : children' = children \cup {[archive |-> "none", entry |-> 0, attempt |-> 0, size_bytes |-> 0, slug |-> n, job |-> TRUE]}
  BY DEF UploadSource
<1>. DEFINE d == [archive |-> "none", entry |-> 0, attempt |-> 0, size_bytes |-> 0, slug |-> n, job |-> TRUE]
<1>2. n \in Slugs /\ n \notin Used /\ d.slug = n /\ d.archive = "none"
  BY FreeIsUnused
<1>3. d \in Sourced
  BY <1>2, ArchiveAssumption DEF Sourced
<1>4. children' = children \cup {d}
  BY <1>1
<1>5. ArchiveTypeOK'
  <2>. HIDE DEF d
  <2>1. uploaded' \in 0..Uploads
    BY ArchiveAssumption DEF UploadSource, ArchiveInv, ArchiveTypeOK
  <2>2. children' \subseteq Sourced
    BY <1>3, <1>4 DEF ArchiveInv, ArchiveTypeOK, Sourced
  <2>. QED
    BY <2>1, <2>2 DEF UploadSource, ArchiveInv, ArchiveTypeOK, Sourced
<1>. HIDE DEF d
<1>6. IsFiniteSet(children)' /\ SlugsDiffer'
  BY <1>2, <1>4, AddedChild
<1>7. ASSUME NEW b \in Archives
      PROVE  ArchiveFits(b)'
  <2>1. d.archive # b
    BY <1>2, ArchiveAssumption
  <2>3. /\ \A c \in Children(b) : \E e \in Children(b)' : SameChild(c, e)
        /\ \A e \in Children(b)' : \E c \in Children(b) : SameChild(c, e)
    BY <1>4, <2>1, OthersChild
  <2>4. content' = content /\ status' = status /\ attempt' = attempt /\ expand' = expand
    BY DEF UploadSource
  <2>. QED
    BY <1>6, <2>3, <2>4, BystandersKeep
<1>. QED
  BY <1>5, <1>6, <1>7 DEF ArchiveInv

LEMMA BeginKeeps ==
  ASSUME ArchiveInv, NEW a \in Archives, BeginExpansion(a)
  PROVE  ArchiveInv'
<1>. DEFINE x == [at |-> "read", todo |-> <<>>, slug |-> 0]
<1>1. /\ attempt' = [attempt EXCEPT ![a] = attempt[a] + 1]
      /\ status' = [status EXCEPT ![a] = "extracting"]
      /\ expand' = [expand EXCEPT ![a] = {x}]
      /\ attempt[a] < MaxAttempts /\ status[a] # "done"
      /\ content' = content /\ children' = children /\ uploaded' = uploaded
  BY DEF BeginExpansion
<1>2. /\ attempt'[a] = attempt[a] + 1 /\ attempt[a] \in Nat /\ attempt'[a] \in 0..MaxAttempts
      /\ status'[a] = "extracting" /\ expand'[a] = {x}
      /\ \A b \in Archives \ {a} : status'[b] = status[b] /\ attempt'[b] = attempt[b] /\ expand'[b] = expand[b]
  BY <1>1, ArchiveAssumption DEF ArchiveInv, ArchiveTypeOK
<1>3. x \in [at : {"read", "probe", "insert", "enqueue"}, todo : Seq(Nat), slug : 0..MaxSlug]
  BY ArchiveAssumption
<1>4. x.at = "read"
  OBVIOUS
<1>. HIDE DEF x
<1>5. ArchiveTypeOK'
  BY <1>1, <1>2, <1>3 DEF ArchiveInv, ArchiveTypeOK
<1>6. Children(a)' = Children(a) /\ Readable(a)' = Readable(a) /\ ChildrenFit(a)
  BY <1>1 DEF Children, Readable, ArchiveInv, ArchiveFits
<1>7. ChildrenFit(a)'
  BY <1>1, <1>2, <1>6 DEF ChildrenFit
<1>8. Latest(a)' = {}
  BY <1>2, <1>6 DEF ChildrenFit, Latest
<1>9. ExpansionFits(a, x)'
  BY <1>2, <1>4, <1>8 DEF ExpansionFits
<1>10. DoneFits(a)'
  BY <1>2 DEF DoneFits
<1>11. ArchiveFits(a)'
  BY <1>2, <1>7, <1>9, <1>10 DEF ArchiveFits
<1>. QED
  BY <1>1, <1>2, <1>5, <1>11, OwnStepKeeps

\* An expansion goes on, and nothing else changes.
LEMMA AdvanceKeeps ==
  ASSUME ArchiveInv, NEW a \in Archives, NEW x \in expand[a], NEW y, Advance(a, y),
         y \in [at : {"read", "probe", "insert", "enqueue"}, todo : Seq(Nat), slug : 0..MaxSlug],
         UNCHANGED <<content, status, attempt, children, uploaded>>,
         ExpansionFits(a, x) => ExpansionFits(a, y)
  PROVE  ArchiveInv'
<1>1. expand' = [expand EXCEPT ![a] = {y}] /\ expand'[a] = {y} /\ \A b \in Archives \ {a} : expand'[b] = expand[b]
  BY DEF Advance, ArchiveInv, ArchiveTypeOK
<1>2. ArchiveTypeOK'
  BY <1>1 DEF ArchiveInv, ArchiveTypeOK
<1>3. Children(a)' = Children(a) /\ Readable(a)' = Readable(a) /\ Latest(a)' = Latest(a)
  BY DEF Children, Readable, Latest
<1>4. ChildrenFit(a) /\ ExpansionFits(a, x) /\ DoneFits(a)
  BY DEF ArchiveInv, ArchiveFits
<1>5. ChildrenFit(a)' /\ ExpansionFits(a, y)'
  BY <1>3, <1>4 DEF ChildrenFit, ExpansionFits
<1>6. DoneFits(a)'
  BY <1>4 DEF DoneFits
<1>7. ArchiveFits(a)'
  BY <1>1, <1>5, <1>6 DEF ArchiveFits
<1>. QED
  BY <1>1, <1>2, <1>7, OwnStepKeeps

LEMMA ReadArchiveKeeps ==
  ASSUME ArchiveInv, NEW a \in Archives, ReadArchive(a)
  PROVE  ArchiveInv'
<1>1. PICK x \in expand[a] :
        /\ x.at = "read" /\ ~IsRefused(content[a])
        /\ Advance(a, [x EXCEPT !.at = "probe", !.todo = ReadEntries(content[a]).kept])
        /\ UNCHANGED <<content, status, attempt, children, uploaded>>
  BY DEF ReadArchive, Expanding
<1>. DEFINE k == ReadEntries(content[a]).kept
            y == [x EXCEPT !.at = "probe", !.todo = k]
<1>2. content[a] \in Seq(ZipEntries)
  BY ArchiveAssumption DEF ArchiveInv, ArchiveTypeOK
<1>3. ~ReadEntries(content[a]).bomb
  BY <1>1 DEF IsRefused
<1>4. k \in Seq(Nat) /\ KeepsReadable(content[a], Len(content[a]), k)
  <2>1. ReadEntries(content[a]) \in Readings /\ ReadSoFar(content[a], Len(content[a]), ReadEntries(content[a]))
    BY <1>2, <1>3, ReadsKeepToCaps
  <2>. QED
    BY <2>1 DEF Readings, ReadSoFar
<1>5. DOMAIN content[a] = 1..Len(content[a])
  BY <1>2
<1>6. x \in [at : {"read", "probe", "insert", "enqueue"}, todo : Seq(Nat), slug : 0..MaxSlug]
  BY DEF ArchiveInv, ArchiveTypeOK
<1>. HIDE DEF k
<1>7. y \in [at : {"read", "probe", "insert", "enqueue"}, todo : Seq(Nat), slug : 0..MaxSlug] /\ y.at = "probe" /\ y.todo = k
  BY <1>4, <1>6
<1>. HIDE DEF y
<1>8. ASSUME ExpansionFits(a, x)
      PROVE  ExpansionFits(a, y)
  <2>1. Latest(a) = {} /\ status[a] = "extracting" /\ attempt[a] >= 1
    BY <1>1, <1>8 DEF ExpansionFits
  <2>2. \A j \in DOMAIN k : k[j] \in Readable(a)
    BY <1>4, <1>5 DEF KeepsReadable, Readable
  <2>3. \A e \in Readable(a) : \E j \in DOMAIN k : k[j] = e
    BY <1>4, <1>5 DEF KeepsReadable, Readable
  <2>4. \A j, l \in DOMAIN k : k[j] = k[l] => j = l
    BY <1>4 DEF KeepsReadable
  <2>. QED
    BY <1>1, <1>7, <2>1, <2>2, <2>3, <2>4 DEF ExpansionFits
<1>9. Advance(a, y)
  BY <1>1 DEF y, k
<1>. QED
  BY <1>1, <1>7, <1>8, <1>9, AdvanceKeeps

LEMMA ProbeKeeps ==
  ASSUME ArchiveInv, NEW a \in Archives, ProbeEntry(a)
  PROVE  ArchiveInv'
<1>1. PICK x \in expand[a], n \in FreeSlug :
        /\ x.at = "probe" /\ x.todo # <<>>
        /\ Advance(a, [x EXCEPT !.at = "insert", !.slug = n])
        /\ UNCHANGED <<content, status, attempt, children, uploaded>>
  BY DEF ProbeEntry, Expanding
<1>. DEFINE y == [x EXCEPT !.at = "insert", !.slug = n]
<1>2. n \in Slugs /\ n \in 0..MaxSlug
  BY FreeIsUnused
<1>3. x \in [at : {"read", "probe", "insert", "enqueue"}, todo : Seq(Nat), slug : 0..MaxSlug]
  BY DEF ArchiveInv, ArchiveTypeOK
<1>4. y \in [at : {"read", "probe", "insert", "enqueue"}, todo : Seq(Nat), slug : 0..MaxSlug]
      /\ y.at = "insert" /\ y.todo = x.todo /\ y.slug = n
  BY <1>2, <1>3
<1>5. Advance(a, y)
  BY <1>1
<1>. HIDE DEF y
<1>6. ExpansionFits(a, x) => ExpansionFits(a, y)
  BY <1>1, <1>2, <1>4 DEF ExpansionFits
<1>. QED
  BY <1>1, <1>4, <1>5, <1>6, AdvanceKeeps

\* An expansion ends, and its archive is done or tried again or dead.
LEMMA LeaveKeeps ==
  ASSUME ArchiveInv, NEW a \in Archives, expand' = [expand EXCEPT ![a] = {}],
         NEW s \in {"pending", "extracting", "done", "failed"}, status' = [status EXCEPT ![a] = s],
         UNCHANGED <<content, attempt, children, uploaded>>,
         s = "done" => /\ ~IsRefused(content[a])
                       /\ \A e \in Readable(a) : \E c \in Children(a) : c.entry = e /\ c.job
  PROVE  ArchiveInv'
<1>1. /\ expand'[a] = {} /\ status'[a] = s
      /\ \A b \in Archives \ {a} : expand'[b] = expand[b] /\ status'[b] = status[b]
  BY DEF ArchiveInv, ArchiveTypeOK
<1>2. ArchiveTypeOK'
  BY DEF ArchiveInv, ArchiveTypeOK
<1>3. Children(a)' = Children(a) /\ Readable(a)' = Readable(a)
  BY DEF Children, Readable
<1>4. ChildrenFit(a)'
  BY <1>3 DEF ArchiveInv, ArchiveFits, ChildrenFit
<1>5. DoneFits(a)'
  BY <1>1, <1>3 DEF DoneFits
<1>6. ArchiveFits(a)'
  BY <1>1, <1>4, <1>5 DEF ArchiveFits
<1>. QED
  BY <1>1, <1>2, <1>6, OwnStepKeeps

LEMMA FinishKeeps ==
  ASSUME ArchiveInv, NEW a \in Archives, FinishExpansion(a)
  PROVE  ArchiveInv'
<1>1. PICK x \in expand[a] : x.at = "probe" /\ x.todo = <<>>
  BY DEF FinishExpansion, Expanding
<1>2. ExpansionFits(a, x)
  BY DEF ArchiveInv, ArchiveFits
<1>3. ~IsRefused(content[a]) /\ \A e \in Readable(a) : \E c \in Children(a) : c.entry = e /\ c.job
  BY <1>1, <1>2 DEF ExpansionFits, Latest
<1>. QED
  BY <1>3, LeaveKeeps DEF FinishExpansion

LEMMA FailKeeps ==
  ASSUME ArchiveInv, NEW a \in Archives, ExpansionFails(a)
  PROVE  ArchiveInv'
<1>. DEFINE s == IF attempt[a] = MaxAttempts THEN "failed" ELSE status[a]
<1>1. status[a] \in {"pending", "extracting", "done", "failed"}
  BY DEF ArchiveInv, ArchiveTypeOK
<1>2. s \in {"pending", "extracting", "done", "failed"} /\ s # "done"
  <2>1. status[a] # "done"
    BY DEF ExpansionFails, ArchiveInv, ArchiveFits, DoneFits
  <2>. QED
    BY <1>1, <2>1
<1>3. status' = [status EXCEPT ![a] = s]
  BY DEF ExpansionFails
<1>. HIDE DEF s
<1>. QED
  BY <1>2, <1>3, LeaveKeeps DEF ExpansionFails

\* The child of the next entry is made, without its job yet.
LEMMA InsertEntryKeeps ==
  ASSUME ArchiveInv, NEW a \in Archives, InsertEntry(a)
  PROVE  ArchiveInv'
<1>1. PICK x \in expand[a] :
        /\ x.at = "insert" /\ x.slug \notin Used
        /\ children' = children \cup {Child(a, x)}
        /\ Advance(a, [x EXCEPT !.at = "enqueue"])
        /\ UNCHANGED <<content, status, attempt, uploaded>>
  BY DEF InsertEntry, Expanding
<1>. DEFINE y == [x EXCEPT !.at = "enqueue"]
            d == Child(a, x)
<1>2. x \in [at : {"read", "probe", "insert", "enqueue"}, todo : Seq(Nat), slug : 0..MaxSlug]
      /\ attempt[a] \in 0..MaxAttempts
  BY DEF ArchiveInv, ArchiveTypeOK
<1>3. ChildrenFit(a) /\ ExpansionFits(a, x) /\ DoneFits(a)
  BY DEF ArchiveInv, ArchiveFits
<1>4. /\ status[a] = "extracting" /\ attempt[a] >= 1 /\ ~IsRefused(content[a]) /\ x.todo # <<>> /\ x.slug \in Slugs
      /\ \A j \in DOMAIN x.todo : x.todo[j] \in Readable(a)
      /\ \A j, l \in DOMAIN x.todo : x.todo[j] = x.todo[l] => j = l
      /\ \A j \in DOMAIN x.todo, c \in Latest(a) : c.entry # x.todo[j]
      /\ \A e \in Readable(a) : (\E j \in DOMAIN x.todo : x.todo[j] = e) \/ \E c \in Latest(a) : c.entry = e /\ c.job
  BY <1>1, <1>3 DEF ExpansionFits
<1>5. 1 \in DOMAIN x.todo /\ Head(x.todo) = x.todo[1] /\ x.todo[1] \in Nat
  BY <1>2, <1>4
<1>6. /\ y \in [at : {"read", "probe", "insert", "enqueue"}, todo : Seq(Nat), slug : 0..MaxSlug]
      /\ y.at = "enqueue" /\ y.todo = x.todo /\ y.slug = x.slug
  BY <1>2
<1>7. /\ d \in Sourced
      /\ d.archive = a /\ d.entry = x.todo[1] /\ d.attempt = attempt[a] /\ d.slug = x.slug
  <2>1. content[a] \in Seq(ZipEntries) /\ x.todo[1] \in DOMAIN content[a]
    BY <1>4, <1>5, ArchiveAssumption DEF ArchiveInv, ArchiveTypeOK, Readable
  <2>2. content[a][x.todo[1]].bytes \in Nat
    <3>1. content[a][x.todo[1]] \in ZipEntries
      BY <2>1
    <3>. QED
      BY <3>1 DEF ZipEntries
  <2>. DEFINE size == content[a][x.todo[1]].bytes
  <2>3. d = [archive |-> a, entry |-> x.todo[1], attempt |-> attempt[a], size_bytes |-> size, slug |-> x.slug,
             job |-> FALSE]
    BY <1>5 DEF Child
  <2>. HIDE DEF d, size
  <2>4. size \in Nat
    BY <2>2 DEF size
  <2>. QED
    BY <1>2, <1>4, <1>5, <2>3, <2>4 DEF Sourced
<1>8. children' = children \cup {d} /\ Advance(a, y)
  BY <1>1
<1>. HIDE DEF d, y
<1>9. /\ expand' = [expand EXCEPT ![a] = {y}] /\ expand'[a] = {y}
      /\ \A b \in Archives \ {a} : expand'[b] = expand[b]
  BY <1>8 DEF Advance, ArchiveInv, ArchiveTypeOK
<1>10. ArchiveTypeOK'
  BY <1>1, <1>6, <1>7, <1>8, <1>9 DEF ArchiveInv, ArchiveTypeOK, Sourced
<1>11. IsFiniteSet(children)' /\ SlugsDiffer'
  BY <1>1, <1>4, <1>7, <1>8, AddedChild
<1>12. /\ Readable(a)' = Readable(a) /\ Children(a)' = Children(a) \cup {d} /\ Latest(a)' = Latest(a) \cup {d}
  BY <1>1, <1>7, <1>8 DEF Readable, Children, Latest
<1>13. ChildrenFit(a)'
  <2>1. \A c \in Children(a)' : ~IsRefused(content[a]) /\ c.entry \in Readable(a) /\ c.attempt \in 1..attempt[a]
    BY <1>2, <1>3, <1>4, <1>5, <1>7, <1>12 DEF ChildrenFit
  <2>2. \A c \in Children(a) : ~(c.attempt = d.attempt /\ c.entry = d.entry)
    BY <1>4, <1>5, <1>7 DEF Latest
  <2>3. \A b, c \in Children(a)' : b.attempt = c.attempt /\ b.entry = c.entry => b = c
    BY <1>3, <1>12, <2>2 DEF ChildrenFit
  <2>. QED
    BY <1>1, <1>12, <2>1, <2>3 DEF ChildrenFit
<1>14. ExpansionFits(a, y)'
  <2>1. \A j \in DOMAIN y.todo, c \in Latest(a)' : c.entry = y.todo[j] => j = 1
    BY <1>4, <1>5, <1>6, <1>7, <1>12
  <2>2. \A e \in Readable(a) : (\E j \in DOMAIN y.todo : y.todo[j] = e) \/ \E c \in Latest(a)' : c.entry = e /\ c.job
    BY <1>4, <1>6, <1>12
  <2>3. \E c \in Latest(a)' : c.entry = y.todo[1] /\ c.slug = y.slug
    BY <1>6, <1>7, <1>12
  <2>. QED
    BY <1>1, <1>4, <1>6, <1>12, <2>1, <2>2, <2>3 DEF ExpansionFits
<1>15. DoneFits(a)'
  BY <1>1, <1>4 DEF DoneFits
<1>16. ArchiveFits(a)'
  BY <1>9, <1>13, <1>14, <1>15 DEF ArchiveFits
<1>17. ASSUME NEW b \in Archives, b # a
       PROVE  ArchiveFits(b)'
  <2>1. /\ \A c \in Children(b) : \E e \in Children(b)' : SameChild(c, e)
        /\ \A e \in Children(b)' : \E c \in Children(b) : SameChild(c, e)
    BY <1>7, <1>8, <1>17, OthersChild
  <2>2. content' = content /\ status'[b] = status[b] /\ attempt'[b] = attempt[b] /\ expand'[b] = expand[b]
    BY <1>1, <1>9, <1>17
  <2>. QED
    BY <1>11, <2>1, <2>2, BystandersKeep
<1>. QED
  BY <1>10, <1>11, <1>16, <1>17 DEF ArchiveInv

\* A sequence without its first.
LEMMA TailDrops ==
  ASSUME NEW s \in Seq(Nat), s # <<>>
  PROVE  /\ Tail(s) \in Seq(Nat)
         /\ \A j \in DOMAIN Tail(s) : j \in Nat /\ j + 1 \in DOMAIN s /\ j + 1 # 1 /\ Tail(s)[j] = s[j + 1]
         /\ \A j \in DOMAIN s : j # 1 => j - 1 \in DOMAIN Tail(s) /\ Tail(s)[j - 1] = s[j]
<1>1. /\ Len(s) \in Nat /\ Len(s) >= 1 /\ DOMAIN s = 1..Len(s)
      /\ Tail(s) \in Seq(Nat) /\ DOMAIN Tail(s) = 1..(Len(s) - 1)
      /\ \A j \in 1..(Len(s) - 1) : Tail(s)[j] = s[j + 1]
  OBVIOUS
<1>. QED
  BY <1>1

\* The child gets its job, and the next entry is up.
LEMMA EnqueueKeeps ==
  ASSUME ArchiveInv, NEW a \in Archives, EnqueueEntry(a)
  PROVE  ArchiveInv'
<1>1. PICK x \in expand[a] :
        /\ x.at = "enqueue"
        /\ children' = {IF c.slug = x.slug THEN [c EXCEPT !.job = TRUE] ELSE c : c \in children}
        /\ Advance(a, [x EXCEPT !.at = "probe", !.todo = Tail(x.todo), !.slug = 0])
        /\ UNCHANGED <<content, status, attempt, uploaded>>
  BY DEF EnqueueEntry, Expanding
<1>. DEFINE With(c) == IF c.slug = x.slug THEN [c EXCEPT !.job = TRUE] ELSE c
            y == [x EXCEPT !.at = "probe", !.todo = Tail(x.todo), !.slug = 0]
            R == Sourced
<1>2. /\ x \in [at : {"read", "probe", "insert", "enqueue"}, todo : Seq(Nat), slug : 0..MaxSlug]
      /\ attempt[a] \in 0..MaxAttempts /\ children \subseteq R
  BY DEF ArchiveInv, ArchiveTypeOK, Sourced
<1>3. ChildrenFit(a) /\ ExpansionFits(a, x) /\ DoneFits(a)
  BY DEF ArchiveInv, ArchiveFits
<1>4. /\ status[a] = "extracting" /\ attempt[a] >= 1 /\ ~IsRefused(content[a]) /\ x.todo # <<>>
      /\ \A j \in DOMAIN x.todo : x.todo[j] \in Readable(a)
      /\ \A j, l \in DOMAIN x.todo : x.todo[j] = x.todo[l] => j = l
      /\ \A j \in DOMAIN x.todo, c \in Latest(a) : c.entry = x.todo[j] => j = 1
      /\ \A e \in Readable(a) : (\E j \in DOMAIN x.todo : x.todo[j] = e) \/ \E c \in Latest(a) : c.entry = e /\ c.job
      /\ \E c \in Latest(a) : c.entry = x.todo[1] /\ c.slug = x.slug
  BY <1>1, <1>3 DEF ExpansionFits
<1>5. \A c \in children : /\ With(c) \in R /\ SameChild(c, With(c))
                          /\ c.slug = x.slug => With(c).job
  <2>1. ASSUME NEW c \in children
        PROVE  With(c) \in R /\ SameChild(c, With(c)) /\ (c.slug = x.slug => With(c).job)
    <3>1. c \in R
      BY <1>2
    <3>. QED
      BY <3>1 DEF SameChild, Sourced
  <2>. QED
    BY <2>1
<1>6. children' = {With(c) : c \in children} /\ Advance(a, y)
  BY <1>1
<1>7. /\ Tail(x.todo) \in Seq(Nat)
      /\ \A j \in DOMAIN Tail(x.todo) : j \in Nat /\ j + 1 \in DOMAIN x.todo /\ j + 1 # 1 /\ Tail(x.todo)[j] = x.todo[j + 1]
      /\ \A j \in DOMAIN x.todo : j # 1 => j - 1 \in DOMAIN Tail(x.todo) /\ Tail(x.todo)[j - 1] = x.todo[j]
  BY <1>2, <1>4, TailDrops
<1>8. /\ y \in [at : {"read", "probe", "insert", "enqueue"}, todo : Seq(Nat), slug : 0..MaxSlug]
      /\ y.at = "probe" /\ y.todo = Tail(x.todo)
  <2>. DEFINE t == Tail(x.todo)
  <2>1. t \in Seq(Nat) /\ 0 \in 0..MaxSlug
    BY <1>7, ArchiveAssumption
  <2>. HIDE DEF t
  <2>2. [x EXCEPT !.at = "probe", !.todo = t, !.slug = 0] \in [at : {"read", "probe", "insert", "enqueue"}, todo : Seq(Nat), slug : 0..MaxSlug]
    BY <1>2, <2>1
  <2>3. [x EXCEPT !.at = "probe", !.todo = t, !.slug = 0].at = "probe" /\ [x EXCEPT !.at = "probe", !.todo = t, !.slug = 0].todo = t
    BY <1>2
  <2>. QED
    BY <2>2, <2>3 DEF t
<1>9. IsFiniteSet(children')
  <2>. DEFINE f == [c \in children |-> With(c)]
  <2>1. f \in Surjection(children, children')
    BY <1>6 DEF Surjection
  <2>. HIDE DEF f
  <2>. QED
    BY <2>1, FS_Surjection DEF ArchiveInv
<1>. HIDE DEF With, y
<1>10. SlugsDiffer'
  <2>1. ASSUME NEW c \in children, NEW d \in children, With(c).slug = With(d).slug
        PROVE  With(c) = With(d)
    BY <1>5, <2>1 DEF SameChild, ArchiveInv, SlugsDiffer
  <2>. QED
    BY <1>6, <2>1 DEF SlugsDiffer
<1>11. /\ expand' = [expand EXCEPT ![a] = {y}] /\ expand'[a] = {y}
       /\ \A b \in Archives \ {a} : expand'[b] = expand[b]
  BY <1>6 DEF Advance, ArchiveInv, ArchiveTypeOK
<1>12. ArchiveTypeOK'
  <2>1. children' \subseteq R
    BY <1>5, <1>6
  <2>. QED
    BY <1>1, <1>8, <1>11, <2>1 DEF ArchiveInv, ArchiveTypeOK, Sourced
<1>13. ASSUME NEW b \in Archives
       PROVE  /\ \A c \in Children(b) : With(c) \in Children(b)' /\ SameChild(c, With(c))
              /\ \A d \in Children(b)' : \E c \in Children(b) : d = With(c) /\ SameChild(c, d)
  BY <1>5, <1>6 DEF Children, SameChild
<1>14. /\ \A c \in Latest(a) : With(c) \in Latest(a)' /\ SameChild(c, With(c))
       /\ \A d \in Latest(a)' : \E c \in Latest(a) : d = With(c) /\ SameChild(c, d)
       /\ Readable(a)' = Readable(a)
  <2>1. attempt' = attempt /\ content' = content
    BY <1>1
  <2>. QED
    BY <1>13, <2>1 DEF Latest, SameChild, Readable
<1>15. ChildrenFit(a)'
  <2>1. \A d \in Children(a)' : ~IsRefused(content[a]) /\ d.entry \in Readable(a) /\ d.attempt \in 1..attempt[a]
    BY <1>3, <1>13 DEF ChildrenFit, SameChild
  <2>2. ASSUME NEW d \in Children(a)', NEW e \in Children(a)', d.attempt = e.attempt, d.entry = e.entry
        PROVE  d = e
    <3>1. PICK c \in Children(a) : d = With(c) /\ SameChild(c, d)
      BY <1>13
    <3>2. PICK b \in Children(a) : e = With(b) /\ SameChild(b, e)
      BY <1>13
    <3>3. b = c
      BY <1>3, <2>2, <3>1, <3>2 DEF ChildrenFit, SameChild
    <3>. QED
      BY <3>1, <3>2, <3>3
  <2>. QED
    BY <1>1, <1>14, <2>1, <2>2 DEF ChildrenFit
<1>16. ExpansionFits(a, y)'
  <2>1. /\ \A j \in DOMAIN y.todo : y.todo[j] \in Readable(a)
        /\ \A j, l \in DOMAIN y.todo : y.todo[j] = y.todo[l] => j = l
    <3>1. \A j \in DOMAIN y.todo : j + 1 \in DOMAIN x.todo /\ y.todo[j] = x.todo[j + 1]
      BY <1>7, <1>8
    <3>2. \A j, l \in DOMAIN y.todo : j + 1 = l + 1 => j = l
      BY <1>7, <1>8
    <3>. QED
      BY <1>4, <3>1, <3>2
  <2>2. \A j \in DOMAIN y.todo, d \in Latest(a)' : d.entry # y.todo[j]
    <3>1. ASSUME NEW j \in DOMAIN y.todo, NEW c \in Latest(a)
          PROVE  c.entry # y.todo[j]
      <4>1. j + 1 \in DOMAIN x.todo /\ j + 1 # 1 /\ y.todo[j] = x.todo[j + 1]
        BY <1>7, <1>8
      <4>. QED
        BY <1>4, <4>1
    <3>. QED
      BY <1>14, <3>1 DEF SameChild
  <2>3. ASSUME NEW e \in Readable(a)
        PROVE  (\E j \in DOMAIN y.todo : y.todo[j] = e) \/ \E d \in Latest(a)' : d.entry = e /\ d.job
    <3>1. CASE e = x.todo[1]
      <4>1. PICK c \in Latest(a) : c.entry = x.todo[1] /\ c.slug = x.slug
        BY <1>4
      <4>2. With(c) \in Latest(a)' /\ With(c).entry = e /\ With(c).job
        BY <1>5, <1>14, <3>1, <4>1 DEF SameChild, Latest, Children
      <4>. QED
        BY <4>2
    <3>2. CASE \E j \in DOMAIN x.todo : x.todo[j] = e /\ j # 1
      <4>1. PICK j \in DOMAIN x.todo : x.todo[j] = e /\ j # 1
        BY <3>2
      <4>2. j - 1 \in DOMAIN y.todo /\ y.todo[j - 1] = e
        BY <1>7, <1>8, <4>1
      <4>. QED
        BY <4>2
    <3>3. CASE \E c \in Latest(a) : c.entry = e /\ c.job
      BY <1>14, <3>3 DEF SameChild
    <3>. QED
      BY <1>4, <3>1, <3>2, <3>3
  <2>4. status'[a] = "extracting" /\ attempt'[a] >= 1 /\ ~IsRefused(content'[a])
    BY <1>1, <1>4
  <2>. QED
    BY <1>8, <1>14, <2>1, <2>2, <2>3, <2>4 DEF ExpansionFits
<1>17. DoneFits(a)'
  BY <1>1, <1>4 DEF DoneFits
<1>18. ArchiveFits(a)'
  BY <1>11, <1>15, <1>16, <1>17 DEF ArchiveFits
<1>19. ASSUME NEW b \in Archives, b # a
       PROVE  ArchiveFits(b)'
  <2>1. /\ \A c \in Children(b) : \E e \in Children(b)' : SameChild(c, e)
        /\ \A e \in Children(b)' : \E c \in Children(b) : SameChild(c, e)
    BY <1>13
  <2>2. content' = content /\ status'[b] = status[b] /\ attempt'[b] = attempt[b] /\ expand'[b] = expand[b]
    BY <1>1, <1>11, <1>19
  <2>. QED
    BY <1>10, <2>1, <2>2, BystandersKeep
<1>. QED
  BY <1>9, <1>10, <1>12, <1>18, <1>19 DEF ArchiveInv

LEMMA ArchiveNextKeeps == ArchiveInv /\ [ArchiveNext]_archiveVars => ArchiveInv'
<1>. SUFFICES ASSUME ArchiveInv, [ArchiveNext]_archiveVars PROVE ArchiveInv'
  OBVIOUS
<1>1. CASE UNCHANGED archiveVars
  <2>1. UNCHANGED <<content, status, attempt, expand, children, uploaded>>
    BY <1>1 DEF archiveVars
  <2>2. ArchiveTypeOK' /\ IsFiniteSet(children)' /\ SlugsDiffer'
    BY <2>1 DEF ArchiveInv, ArchiveTypeOK, SlugsDiffer
  <2>3. ASSUME NEW a \in Archives
        PROVE  ArchiveFits(a)'
    <3>1. Children(a)' = Children(a) /\ \A c : SameChild(c, c)
      BY <2>1 DEF Children, SameChild
    <3>2. /\ \A c \in Children(a) : \E d \in Children(a)' : SameChild(c, d)
          /\ \A d \in Children(a)' : \E c \in Children(a) : SameChild(c, d)
      BY <3>1
    <3>. QED
      BY <2>1, <2>2, <3>2, BystandersKeep
  <2>. QED
    BY <2>2, <2>3 DEF ArchiveInv
<1>2. CASE ArchiveNext
  BY <1>2, UploadKeeps, BeginKeeps, ReadArchiveKeeps, ProbeKeeps, InsertEntryKeeps, EnqueueKeeps, FinishKeeps, FailKeeps
     DEF ArchiveNext
<1>. QED
  BY <1>1, <1>2

LEMMA ArchiveInvHolds == ArchiveSpec => []ArchiveInv
  BY ArchiveStarts, ArchiveNextKeeps, PTL DEF ArchiveSpec

\* The variables of the expansion keep their types: one expansion of an archive at a time,
\* slugs within those the probe tries (archive.rs, slug.rs).
THEOREM ArchiveTypeCorrect == ArchiveSpec => []ArchiveTypeOK
<1>1. ArchiveInv => ArchiveTypeOK
  BY DEF ArchiveInv
<1>. QED
  BY <1>1, ArchiveInvHolds, PTL

\* However often an archive is tried again and whoever takes slugs meanwhile, done means that
\* every readable entry has a source with an ingest job; an entry has at most one source for
\* each attempt at its archive; and what an attempt takes is within the caps on a file and on
\* the archive by the sizes that the entries' headers declare (archive.rs, expand, read_entries).
THEOREM ExpansionAlwaysSound == ArchiveSpec => []ExpansionIsSound
<1>1. ArchiveInv => ExpansionIsSound
  <2>. SUFFICES ASSUME ArchiveInv PROVE ExpansionIsSound
    OBVIOUS
  <2>1. \A a \in Archives : content[a] \in Seq(ZipEntries) /\ ChildrenFit(a) /\ DoneFits(a)
    BY ArchiveAssumption DEF ArchiveInv, ArchiveTypeOK, ArchiveFits
  <2>2. DoneIsExpanded
    <3>1. SUFFICES ASSUME NEW a \in Archives, status[a] = "done"
                   PROVE  /\ Len(content[a]) <= MAX_ENTRIES
                          /\ \A i \in DOMAIN content[a] : IsKept(content[a][i]) => \E c \in Children(a) : c.entry = i /\ c.job
      BY DEF DoneIsExpanded
    <3>2. Len(content[a]) <= MAX_ENTRIES
      <4>1. ~(Len(content[a]) > MAX_ENTRIES) /\ Len(content[a]) \in Nat
        BY <2>1, <3>1 DEF DoneFits, IsRefused
      <4>. QED
        BY <4>1, ArchiveAssumption
    <3>. QED
      BY <2>1, <3>1, <3>2 DEF DoneFits, Readable
  <2>3. ASSUME NEW a \in Archives, NEW n \in 1..MaxAttempts, NEW made, made = {c \in Children(a) : c.attempt = n}
        PROVE  /\ Cardinality({c.entry : c \in made}) = Cardinality(made)
               /\ \A c \in made : content[a][c.entry].size <= MAX_ENTRY_BYTES
               /\ SumOf(content[a], made) <= MAX_TOTAL_UNCOMPRESSED
    <3>2. IsFiniteSet(made)
      <4>1. made \subseteq children
        BY <2>3 DEF Children
      <4>. QED
        BY <4>1, FS_Subset DEF ArchiveInv
    <3>3. \A c, d \in made : c.entry = d.entry => c = d
      BY <2>1, <2>3 DEF ChildrenFit
    <3>4. \A c \in made : c.entry \in Readable(a) /\ ~IsRefused(content[a])
      BY <2>1, <2>3 DEF ChildrenFit
    <3>5. Cardinality({c.entry : c \in made}) = Cardinality(made)
      <4>. DEFINE T == {c.entry : c \in made}
                  f == [c \in made |-> c.entry]
      <4>1. f \in Surjection(made, T) /\ f \in Injection(made, T)
        BY <3>3 DEF Surjection, Injection, IsInjective
      <4>. HIDE DEF f, T
      <4>2. Cardinality(T) = Cardinality(made)
        BY <3>2, <4>1, FS_Surjection
      <4>. QED
        BY <4>2 DEF T
    <3>6. \A c \in made : content[a][c.entry].size <= MAX_ENTRY_BYTES
      BY <3>4 DEF Readable, IsKept
    <3>7. SumOf(content[a], made) <= MAX_TOTAL_UNCOMPRESSED
      <4>1. CASE made = {}
        <5>1. SumOf(content[a], {}) = 0
          BY FS_EmptySet, SumSplits
        <5>. QED
          BY <4>1, <5>1, ArchiveAssumption
      <4>2. CASE made # {}
        <5>. DEFINE r == ReadEntries(content[a])
        <5>1. r \in Readings /\ ReadSoFar(content[a], Len(content[a]), r)
          BY <2>1, <3>4, <4>2, ReadsKeepToCaps DEF IsRefused
        <5>2. \A c \in made : c.entry \in 1..Len(content[a]) /\ IsKept(content[a][c.entry])
          BY <2>1, <3>4 DEF Readable
        <5>3. \A c \in made : content[a][c.entry].size \in Nat
          BY <2>1, <5>2, EntriesSized
        <5>4. SumOf(content[a], made) <= r.total
          BY <3>2, <3>3, <5>1, <5>2 DEF ReadSoFar, SumsWithin
        <5>5. SumOf(content[a], made) \in Nat
          BY <3>2, <5>3, SumSplits
        <5>6. r.total \in Nat /\ r.total <= MAX_TOTAL_UNCOMPRESSED
          BY <5>1 DEF Readings, ReadSoFar
        <5>. QED
          BY <5>4, <5>5, <5>6, ArchiveAssumption
      <4>. QED
        BY <4>1, <4>2
    <3>. QED
      BY <3>5, <3>6, <3>7
  <2>4. ASSUME NEW a \in Archives, NEW i \in DOMAIN content[a]
        PROVE  Cardinality({c \in Children(a) : c.entry = i}) <= attempt[a]
    <3>. DEFINE T == {c \in Children(a) : c.entry = i}
                f == [c \in T |-> c.attempt]
    <3>1. \A c \in T : c.attempt \in 1..attempt[a]
      BY <2>1 DEF ChildrenFit
    <3>2. \A c, d \in T : c.attempt = d.attempt => c = d
      BY <2>1 DEF ChildrenFit
    <3>3. f \in Injection(T, 1..attempt[a])
      BY <3>1, <3>2 DEF Injection, IsInjective
    <3>4. attempt[a] \in Nat
      BY ArchiveAssumption DEF ArchiveInv, ArchiveTypeOK
    <3>5. IsFiniteSet(1..attempt[a]) /\ Cardinality(1..attempt[a]) = attempt[a]
      BY <3>4, FS_Interval
    <3>. HIDE DEF T, f
    <3>6. Cardinality(T) <= attempt[a]
      BY <3>3, <3>5, FS_Injection
    <3>. QED
      BY <3>6 DEF T
  <2>5. AttemptsAreCapped
    BY <2>3, <2>4 DEF AttemptsAreCapped, SumOf
  <2>. QED
    BY <2>2, <2>5 DEF ExpansionIsSound
<1>. QED
  BY <1>1, ArchiveInvHolds, PTL

-----------------------------------------------------------------------------
(* Folders.  A move, a deletion and an upload that are under way still     *)
(* stand by what they looked at, or the history tells that it has changed. *)

Moves == [at : {"check", "move"}, source : Sources, to : DocTypes]
Askings == [op : {"delete"}, path : Paths] \cup [op : {"upload"}, path : GivenPaths, acl : Acls]

FoldersTyped ==
  /\ folder \in [Sources -> GivenPaths \cup {NoSource}] /\ acl \in [Sources -> Acls]
  /\ row \in [Paths -> {"none", "open", "pinned"}]
  /\ rule \in [Paths -> Acls \cup {NoRule}]
  /\ organizing \in [Organizers -> SUBSET Moves]
  /\ \A o \in Organizers : \A m, n \in organizing[o] : m = n
  /\ asking \in [Requests -> SUBSET Askings]
  /\ \A r \in Requests : \A m, n \in asking[r] : m = n
  /\ changed \subseteq Organizers \X {"moved", "pinned"} \cup Requests \X {"arrived", "ruled"}

MovesStand == \A o \in Organizers : \A m \in organizing[o] :
  /\ folder[m.source] # NoSource
  /\ folder[m.source] = Root \/ <<o, "moved">> \in changed
  /\ m.at = "move" => row[Slug[m.to]] # "pinned" \/ <<o, "pinned">> \in changed

DeletesStand == \A r \in Requests : \A q \in asking[r] :
  q.op = "delete" => Under(q.path) = {} \/ <<r, "arrived">> \in changed

\* p is the folder nearest to f, f itself or above it, that has a rule.
Nearest(p, f) ==
  /\ IsPrefix(p, f) /\ rule[p] # NoRule
  /\ \A q \in Paths \ {p} : IsPrefix(p, q) /\ IsPrefix(q, f) => rule[q] = NoRule

UploadsStand == \A r \in Requests : \A q \in asking[r] :
  q.op = "upload" /\ <<r, "ruled">> \notin changed =>
    \A p \in Paths : Nearest(p, Slug[q.path]) => q.acl = rule[p]

FoldersInv == FoldersTyped /\ MovesStand /\ DeletesStand /\ UploadsStand

LEMMA FoldersStart == FoldersInit => FoldersInv
  BY DEF FoldersInit, FoldersInv, FoldersTyped, MovesStand, DeletesStand, UploadsStand, Acls

\* What is stored is a path as given, and slugified a folder's.
LEMMA SlugsAreFolders ==
  /\ Paths \subseteq GivenPaths /\ DocTypes \subseteq GivenPaths /\ NoSource \notin GivenPaths
  /\ \A p \in GivenPaths : Slug[p] \in Paths
  BY FoldersAssumption

\* The longest prefix of a path that has a rule is the nearest folder that has one.
LEMMA NearestDecides ==
  ASSUME FoldersTyped, NEW f \in Paths, NEW p \in Paths, Nearest(p, f)
  PROVE  ResolveAcl(f) = rule[p]
<1>. DEFINE found == {q \in Candidates(f) : rule[q] # NoRule}
<1>1. f \in Seq(FolderNames) /\ p \in Seq(FolderNames) /\ Len(f) \in Nat /\ Len(p) \in Nat /\ Len(p) <= Len(f)
  BY FoldersAssumption DEF Nearest, IsPrefix
<1>2. p = SubSeq(f, 1, Len(p))
  BY <1>1, SubSeqFull DEF Nearest, IsPrefix
<1>3. p \in found
  <2>1. Len(p) \in 0..Len(f)
    BY <1>1
  <2>2. p \in Candidates(f)
    BY <1>2, <2>1 DEF Candidates
  <2>. QED
    BY <2>2 DEF Nearest
<1>4. ASSUME NEW n \in 0..Len(f)
      PROVE  /\ Len(SubSeq(f, 1, n)) = n
             /\ \A i \in 1..n : SubSeq(f, 1, n)[i] = f[i]
             /\ SubSeq(f, 1, n) \in Seq(FolderNames)
  <2>1. \A i \in 1..n : f[i] \in FolderNames
    BY <1>1
  <2>. QED
    BY <2>1, <1>1, SubSeqProperties
<1>5. ASSUME NEW q \in found PROVE Len(q) <= Len(p)
  <2>1. PICK n \in 0..Len(f) : q = SubSeq(f, 1, n)
    BY <1>5 DEF Candidates
  <2>2. SUFFICES ASSUME n > Len(p) PROVE FALSE
    BY <1>1, <1>4, <2>1
  <2>3. q \in Paths /\ q # p /\ Len(q) = n /\ q \in Seq(FolderNames)
    BY <1>1, <1>4, <2>1, <2>2, FoldersAssumption
  <2>4. IsPrefix(q, f)
    BY <1>1, <2>1, <2>3, SubSeqFull DEF IsPrefix
  <2>5. SubSeq(q, 1, Len(p)) = SubSeq(f, 1, Len(p))
    <3>. DEFINE s == SubSeq(q, 1, Len(p))
                t == SubSeq(f, 1, Len(p))
    <3>1. \A i \in 1..Len(p) : q[i] = f[i] /\ q[i] \in FolderNames
      BY <1>1, <1>4, <2>1, <2>2
    <3>2. s \in Seq(FolderNames) /\ Len(s) = Len(p) /\ \A i \in 1..Len(p) : s[i] = q[i]
      BY <1>1, <3>1, SubSeqProperties
    <3>3. t \in Seq(FolderNames) /\ Len(t) = Len(p) /\ \A i \in 1..Len(p) : t[i] = f[i]
      BY <1>1, <1>4
    <3>. HIDE DEF s, t
    <3>4. s = t
      BY <1>1, <3>1, <3>2, <3>3
    <3>. QED
      BY <3>4 DEF s, t
  <2>6. IsPrefix(p, q)
    BY <1>1, <1>2, <2>2, <2>3, <2>5, SubSeqFull DEF IsPrefix
  <2>. QED
    BY <1>5, <2>3, <2>4, <2>6 DEF Nearest
<1>. DEFINE longest == CHOOSE q \in found : \A x \in found : Len(q) >= Len(x)
<1>6. longest \in found /\ Len(longest) >= Len(p)
  <2>1. \A x \in found : Len(p) >= Len(x)
    <3>1. \A x \in found : Len(x) \in Nat
      BY <1>1, <1>4 DEF Candidates
    <3>. QED
      BY <1>1, <1>5, <3>1
  <2>2. \E q \in found : \A x \in found : Len(q) >= Len(x)
    BY <1>3, <2>1
  <2>. QED
    BY <1>3, <2>2
<1>7. longest = p
  <2>1. PICK n \in 0..Len(f) : longest = SubSeq(f, 1, n)
    BY <1>6 DEF Candidates
  <2>2. Len(longest) = n
    BY <1>4, <2>1
  <2>3. Len(longest) <= Len(p)
    BY <1>5, <1>6
  <2>4. n = Len(p)
    BY <1>1, <1>6, <2>2, <2>3
  <2>. QED
    BY <1>2, <2>1, <2>4
<1>. QED
  BY <1>3, <1>7 DEF ResolveAcl

\* What is resolved is a rule, or none.
LEMMA ResolvesToRules ==
  ASSUME FoldersTyped, NEW f \in Paths
  PROVE  ResolveAcl(f) = NoRule \/ ResolveAcl(f) \in Acls
<1>. DEFINE found == {q \in Candidates(f) : rule[q] # NoRule}
<1>1. SUFFICES ASSUME found # {} PROVE ResolveAcl(f) = NoRule \/ ResolveAcl(f) \in Acls
  BY DEF ResolveAcl
<1>2. found \subseteq Paths
  BY FoldersAssumption DEF Candidates
<1>3. \A q \in found : rule[q] \in Acls \cup {NoRule}
  BY <1>2 DEF FoldersTyped
<1>4. \E q \in found : \A x \in found : Len(q) >= Len(x)
  <2>1. Len(f) \in Nat /\ f \in Seq(FolderNames)
    BY FoldersAssumption
  <2>. DEFINE L == {Len(q) : q \in found}
  <2>2. \A q \in found : Len(q) \in 0..Len(f)
    <3>1. ASSUME NEW n \in 0..Len(f) PROVE Len(SubSeq(f, 1, n)) = n
      <4>1. \A i \in 1..n : f[i] \in FolderNames
        BY <2>1
      <4>. QED
        BY <4>1, <2>1, SubSeqProperties
    <3>. QED
      BY <3>1 DEF Candidates
  <2>. DEFINE Short == {Len(f) - Len(q) : q \in found}
  <2>3. Short \in SUBSET Nat /\ Short # {}
    BY <1>1, <2>1, <2>2
  <2>4. PICK n \in Short : \A m \in Short : n <= m
    BY <2>3, LeastOf
  <2>5. PICK q \in found : n = Len(f) - Len(q)
    BY <2>4
  <2>6. \A x \in found : Len(f) - Len(q) <= Len(f) - Len(x)
    BY <2>4, <2>5
  <2>. QED
    BY <2>1, <2>2, <2>6
<1>. QED
  BY <1>1, <1>3, <1>4 DEF ResolveAcl

\* The rules.
LEMMA RulesKeep ==
  ASSUME FoldersInv, NEW p \in Paths, NEW a \in Acls \cup {NoRule}, PutRule(p, a)
  PROVE  FoldersInv'
<1>1. /\ UNCHANGED <<folder, acl, row, organizing, asking>>
      /\ rule' = [rule EXCEPT ![p] = a] /\ changed' = changed \cup (Uploading \X {"ruled"})
  BY DEF PutRule, treeVars
<1>2. FoldersTyped'
  <2>1. rule' \in [Paths -> Acls \cup {NoRule}] /\ Uploading \subseteq Requests
    BY <1>1 DEF FoldersInv, FoldersTyped, Uploading
  <2>. QED
    BY <1>1, <2>1 DEF FoldersInv, FoldersTyped, Acls
<1>3. MovesStand' /\ DeletesStand'
  BY <1>1 DEF FoldersInv, MovesStand, DeletesStand, Under
<1>4. UploadsStand'
  BY <1>1 DEF UploadsStand, Uploading
<1>. QED
  BY <1>2, <1>3, <1>4 DEF FoldersInv

\* An upload resolves the rule of its folder.
LEMMA ResolveKeeps ==
  ASSUME FoldersInv, NEW r \in Requests, NEW p \in GivenPaths, NEW default \in Acls, ResolveUpload(r, p, default)
  PROVE  FoldersInv'
<1>. DEFINE a == IF ResolveAcl(Slug[p]) = NoRule THEN default ELSE ResolveAcl(Slug[p])
            n == [op |-> "upload", path |-> p, acl |-> a]
<1>1. UNCHANGED <<folder, acl, row, rule, organizing, changed>> /\ asking' = [asking EXCEPT ![r] = {n}]
  BY DEF ResolveUpload, treeVars
<1>2. a \in Acls
  BY ResolvesToRules, SlugsAreFolders DEF FoldersInv
<1>3. \A q \in Paths : Nearest(q, Slug[p]) => a = rule[q]
  <2>1. ASSUME NEW q \in Paths, Nearest(q, Slug[p]) PROVE a = rule[q]
    <3>1. ResolveAcl(Slug[p]) = rule[q] /\ rule[q] # NoRule
      BY <2>1, NearestDecides, SlugsAreFolders DEF FoldersInv, Nearest
    <3>. QED
      BY <3>1
  <2>. QED
    BY <2>1
<1>. HIDE DEF a
<1>4. n \in Askings
  BY <1>2 DEF Askings
<1>5. n.op = "upload" /\ n.path = p /\ n.acl = a
  OBVIOUS
<1>. HIDE DEF n
<1>6. asking' \in [Requests -> SUBSET Askings] /\ \A v \in Requests : asking'[v] = IF v = r THEN {n} ELSE asking[v]
  BY <1>1, <1>4 DEF FoldersInv, FoldersTyped
<1>7. FoldersTyped'
  BY <1>1, <1>6 DEF FoldersInv, FoldersTyped, Acls
<1>8. MovesStand'
  BY <1>1 DEF FoldersInv, MovesStand
<1>9. DeletesStand' 
  BY <1>1, <1>5, <1>6 DEF FoldersInv, DeletesStand, Under
<1>10. UploadsStand'
  BY <1>1, <1>3, <1>5, <1>6 DEF FoldersInv, UploadsStand, Nearest
<1>. QED
  BY <1>7, <1>8, <1>9, <1>10 DEF FoldersInv

\* A source comes into the folder p, by an upload or a move: it stays behind nobody's
\* back, and a deletion it gets in the way of is marked.
LEMMA ComingInKeeps ==
  ASSUME FoldersInv, NEW s \in Sources, NEW p \in GivenPaths, folder' = [folder EXCEPT ![s] = p],
         UNCHANGED <<row, rule>>,
         \A o \in Organizers : organizing'[o] \subseteq organizing[o],
         \A r \in Requests : asking'[r] \subseteq asking[r],
         \A o \in Organizers, v \in {"moved", "pinned"} :
           organizing'[o] # {} /\ <<o, v>> \in changed => <<o, v>> \in changed',
         \A o \in Organizers : organizing'[o] # {} /\ o \in Behind(s) => <<o, "moved">> \in changed',
         \A r \in Requests, v \in {"arrived", "ruled"} :
           asking'[r] # {} /\ <<r, v>> \in changed => <<r, v>> \in changed',
         \A r \in Requests : asking'[r] # {} /\ r \in Deleting(p) => <<r, "arrived">> \in changed'
  PROVE  MovesStand' /\ DeletesStand' /\ UploadsStand'
<1>1. \A x \in Sources : folder'[x] = IF x = s THEN p ELSE folder[x]
  BY DEF FoldersInv, FoldersTyped
<1>2. p # NoSource
  BY FoldersAssumption
<1>3. MovesStand'
  <2>1. ASSUME NEW o \in Organizers, NEW m \in organizing'[o]
        PROVE  /\ folder'[m.source] # NoSource
               /\ folder'[m.source] = Root \/ <<o, "moved">> \in changed'
               /\ m.at = "move" => row'[Slug[m.to]] # "pinned" \/ <<o, "pinned">> \in changed'
    <3>1. m \in organizing[o] /\ m \in Moves /\ m.source \in Sources /\ organizing'[o] # {}
      BY <2>1 DEF FoldersInv, FoldersTyped, Moves
    <3>2. m.source = s => o \in Behind(s)
      BY <3>1 DEF Behind
    <3>. QED
      BY <1>1, <1>2, <2>1, <3>1, <3>2 DEF FoldersInv, MovesStand
  <2>. QED
    BY <2>1 DEF MovesStand
<1>4. DeletesStand'
  <2>1. ASSUME NEW r \in Requests, NEW q \in asking'[r], q.op = "delete"
        PROVE  Under(q.path)' = {} \/ <<r, "arrived">> \in changed'
    <3>1. q \in asking[r] /\ asking'[r] # {}
      BY <2>1
    <3>2. CASE r \in Deleting(p)
      BY <3>1, <3>2
    <3>3. CASE r \notin Deleting(p)
      <4>1. ~IsPrefix(q.path, p)
        BY <2>1, <3>1, <3>3 DEF Deleting
      <4>2. Under(q.path)' \subseteq Under(q.path)
        BY <1>1, <4>1 DEF Under
      <4>. QED
        BY <2>1, <3>1, <4>2 DEF FoldersInv, DeletesStand
    <3>. QED
      BY <3>2, <3>3
  <2>. QED
    BY <2>1 DEF DeletesStand
<1>5. UploadsStand'
  <2>1. ASSUME NEW r \in Requests, NEW q \in asking'[r] PROVE q \in asking[r] /\ asking'[r] # {}
    BY <2>1
  <2>2. \A x, f : Nearest(x, f)' <=> Nearest(x, f)
    BY DEF Nearest
  <2>. QED
    BY <2>1, <2>2 DEF FoldersInv, UploadsStand
<1>. QED
  BY <1>3, <1>4, <1>5

LEMMA InsertKeeps ==
  ASSUME FoldersInv, NEW r \in Requests, InsertSource(r)
  PROVE  FoldersInv'
<1>1. PICK q \in asking[r], s \in Sources :
        /\ q.op = "upload" /\ folder[s] = NoSource
        /\ folder' = [folder EXCEPT ![s] = q.path] /\ acl' = [acl EXCEPT ![s] = q.acl]
        /\ changed' = (changed \ {<<r, "ruled">>}) \cup (Deleting(q.path) \X {"arrived"})
        /\ asking' = [asking EXCEPT ![r] = {}]
        /\ UNCHANGED <<row, rule, organizing>>
  BY DEF InsertSource
<1>2. q \in Askings /\ q.path \in GivenPaths /\ q.acl \in Acls
  <2>1. q \in Askings
    BY <1>1 DEF FoldersInv, FoldersTyped
  <2>. QED
    BY <1>1, <2>1 DEF Askings
<1>3. \A v \in Requests : asking'[v] = IF v = r THEN {} ELSE asking[v]
  BY <1>1 DEF FoldersInv, FoldersTyped
<1>4. FoldersTyped'
  <2>1. folder' \in [Sources -> GivenPaths \cup {NoSource}] /\ acl' \in [Sources -> Acls]
    BY <1>1, <1>2 DEF FoldersInv, FoldersTyped
  <2>2. asking' \in [Requests -> SUBSET Askings] /\ \A v \in Requests : \A m, n \in asking'[v] : m = n
    BY <1>1, <1>3 DEF FoldersInv, FoldersTyped
  <2>3. changed' \subseteq Organizers \X {"moved", "pinned"} \cup Requests \X {"arrived", "ruled"}
    BY <1>1 DEF FoldersInv, FoldersTyped, Deleting
  <2>. QED
    BY <1>1, <2>1, <2>2, <2>3 DEF FoldersInv, FoldersTyped, Acls
<1>5. \A o \in Organizers : o \notin Behind(s)
  BY <1>1 DEF FoldersInv, MovesStand, Behind
<1>6. \A o \in Organizers, v \in {"moved", "pinned"} : <<o, v>> \in changed => <<o, v>> \in changed'
  BY <1>1
<1>7. \A v \in Requests, x \in {"arrived", "ruled"} :
        asking'[v] # {} /\ <<v, x>> \in changed => <<v, x>> \in changed'
  BY <1>1, <1>3
<1>8. \A v \in Requests : asking'[v] # {} /\ v \in Deleting(q.path) => <<v, "arrived">> \in changed'
  BY <1>1
<1>9. MovesStand' /\ DeletesStand' /\ UploadsStand'
  <2>1. /\ \A o \in Organizers : organizing'[o] \subseteq organizing[o]
        /\ \A v \in Requests : asking'[v] \subseteq asking[v]
    BY <1>1, <1>3
  <2>2. /\ \A o \in Organizers : organizing'[o] # {} /\ o \in Behind(s) => <<o, "moved">> \in changed'
        /\ \A o \in Organizers, v \in {"moved", "pinned"} :
             organizing'[o] # {} /\ <<o, v>> \in changed => <<o, v>> \in changed'
    BY <1>5, <1>6
  <2>3. folder' = [folder EXCEPT ![s] = q.path] /\ UNCHANGED <<row, rule>>
    BY <1>1
  <2>. QED
    BY <1>2, <1>7, <1>8, <2>1, <2>2, <2>3, ComingInKeeps
<1>. QED
  BY <1>4, <1>9 DEF FoldersInv

LEMMA MoveKeeps ==
  ASSUME FoldersInv, NEW s \in Sources, NEW p \in Paths, MoveSource(s, p)
  PROVE  FoldersInv'
<1>1. /\ folder' = [folder EXCEPT ![s] = p] /\ UNCHANGED <<acl, row, rule, organizing, asking>>
      /\ changed' = changed \cup (Behind(s) \X {"moved"}) \cup (Deleting(p) \X {"arrived"})
  BY DEF MoveSource
<1>2. FoldersTyped'
  <2>1. folder' \in [Sources -> GivenPaths \cup {NoSource}]
    BY <1>1, SlugsAreFolders DEF FoldersInv, FoldersTyped
  <2>2. changed' \subseteq Organizers \X {"moved", "pinned"} \cup Requests \X {"arrived", "ruled"}
    BY <1>1 DEF FoldersInv, FoldersTyped, Deleting, Behind
  <2>. QED
    BY <1>1, <2>1, <2>2 DEF FoldersInv, FoldersTyped, Acls
<1>3. /\ \A o \in Organizers : o \in Behind(s) => <<o, "moved">> \in changed'
      /\ \A r \in Requests : r \in Deleting(p) => <<r, "arrived">> \in changed'
      /\ changed \subseteq changed'
  BY <1>1
<1>4. MovesStand' /\ DeletesStand' /\ UploadsStand'
  BY <1>1, <1>3, SlugsAreFolders, ComingInKeeps
<1>. QED
  BY <1>2, <1>4 DEF FoldersInv

LEMMA OrganizeKeeps ==
  ASSUME FoldersInv, NEW o \in Organizers, Organize(o)
  PROVE  FoldersInv'
<1>1. PICK m \in organizing[o] :
        /\ m.at = "move" /\ folder' = [folder EXCEPT ![m.source] = m.to]
        /\ organizing' = [organizing EXCEPT ![o] = {}]
        /\ changed' = (changed \cup (Behind(m.source) \X {"moved"}) \cup (Deleting(m.to) \X {"arrived"}))
                        \ ({o} \X {"moved", "pinned"})
        /\ UNCHANGED <<acl, row, rule, asking>>
  BY DEF Organize
<1>2. m.source \in Sources /\ m.to \in GivenPaths
  <2>1. m \in Moves
    BY <1>1 DEF FoldersInv, FoldersTyped
  <2>. QED
    BY <2>1, SlugsAreFolders DEF Moves
<1>3. \A x \in Organizers : organizing'[x] = IF x = o THEN {} ELSE organizing[x]
  BY <1>1 DEF FoldersInv, FoldersTyped
<1>4. FoldersTyped'
  <2>1. folder' \in [Sources -> GivenPaths \cup {NoSource}]
    BY <1>1, <1>2 DEF FoldersInv, FoldersTyped
  <2>2. organizing' \in [Organizers -> SUBSET Moves] /\ \A x \in Organizers : \A v, n \in organizing'[x] : v = n
    BY <1>1, <1>3 DEF FoldersInv, FoldersTyped
  <2>3. changed' \subseteq Organizers \X {"moved", "pinned"} \cup Requests \X {"arrived", "ruled"}
    BY <1>1 DEF FoldersInv, FoldersTyped, Deleting, Behind
  <2>. QED
    BY <1>1, <2>1, <2>2, <2>3 DEF FoldersInv, FoldersTyped, Acls
<1>5. \A x \in Organizers, v \in {"moved", "pinned"} :
        organizing'[x] # {} /\ <<x, v>> \in changed => <<x, v>> \in changed'
  BY <1>1, <1>3
<1>6. \A x \in Organizers : organizing'[x] # {} /\ x \in Behind(m.source) => <<x, "moved">> \in changed'
  BY <1>1, <1>3
<1>7. \A r \in Requests, x \in {"arrived", "ruled"} : <<r, x>> \in changed => <<r, x>> \in changed'
  BY <1>1
<1>8. \A r \in Requests : asking'[r] # {} /\ r \in Deleting(m.to) => <<r, "arrived">> \in changed'
  BY <1>1
<1>9. MovesStand' /\ DeletesStand' /\ UploadsStand'
  <2>1. /\ \A x \in Organizers : organizing'[x] \subseteq organizing[x]
        /\ \A r \in Requests : asking'[r] \subseteq asking[r]
    BY <1>1, <1>3
  <2>2. \A r \in Requests, x \in {"arrived", "ruled"} :
          asking'[r] # {} /\ <<r, x>> \in changed => <<r, x>> \in changed'
    BY <1>7
  <2>3. folder' = [folder EXCEPT ![m.source] = m.to] /\ UNCHANGED <<row, rule>>
    BY <1>1
  <2>. QED
    BY <1>2, <1>5, <1>6, <1>8, <2>1, <2>2, <2>3, ComingInKeeps
<1>. QED
  BY <1>4, <1>9 DEF FoldersInv

\* The other steps of an organizer: no source and no folder changes.
LEMMA OrganizersKeep ==
  ASSUME FoldersInv, NEW o \in Organizers,
         (\E s \in Sources, p \in DocTypes : ReadSource(o, s, p)) \/ CheckPin(o) \/ OrganizeFails(o)
  PROVE  FoldersInv'
<1>1. UNCHANGED <<folder, acl, row, rule, asking>>
  BY DEF ReadSource, CheckPin, OrganizeFails, treeVars
<1>. DEFINE Stands(m) == /\ folder[m.source] # NoSource
                         /\ folder[m.source] = Root \/ <<o, "moved">> \in changed
                         /\ m.at = "move" => row[Slug[m.to]] # "pinned"
            Left(N) ==
              /\ organizing' = [organizing EXCEPT ![o] = N]
              /\ \/ N = {} /\ changed' = changed \ ({o} \X {"moved", "pinned"})
                 \/ changed' = changed /\ N \subseteq Moves /\ (\A m, n \in N : m = n) /\ \A m \in N : Stands(m)
<1>2. PICK N : Left(N)
  <2>1. CASE \E s \in Sources, p \in DocTypes : ReadSource(o, s, p)
    <3>1. PICK s \in Sources, p \in DocTypes : ReadSource(o, s, p)
      BY <2>1
    <3>. DEFINE m == [at |-> "check", source |-> s, to |-> p]
    <3>2. folder[s] = Root /\ organizing' = [organizing EXCEPT ![o] = {m}] /\ changed' = changed
      BY <3>1 DEF ReadSource
    <3>3. m \in Moves /\ m.at = "check" /\ m.source = s
      BY DEF Moves
    <3>4. Root # NoSource
      BY FoldersAssumption
    <3>5. Left({m})
      BY <3>2, <3>3, <3>4
    <3>. HIDE DEF Left
    <3>. QED
      BY <3>5
  <2>2. CASE CheckPin(o)
    <3>1. PICK m \in organizing[o] :
            /\ m.at = "check"
            /\ IF row[Slug[m.to]] = "pinned" THEN Ends(o)
               ELSE /\ organizing' = [organizing EXCEPT ![o] = {[m EXCEPT !.at = "move"]}]
                    /\ UNCHANGED changed
      BY <2>2 DEF CheckPin
    <3>2. CASE row[Slug[m.to]] = "pinned"
      BY <3>1, <3>2 DEF Ends
    <3>3. CASE row[Slug[m.to]] # "pinned"
      <4>. DEFINE n == [m EXCEPT !.at = "move"]
      <4>1. m \in Moves
        BY DEF FoldersInv, FoldersTyped
      <4>2. n \in Moves /\ n.source = m.source /\ n.to = m.to
        BY <4>1 DEF Moves
      <4>3. folder[m.source] # NoSource /\ (folder[m.source] = Root \/ <<o, "moved">> \in changed)
        BY DEF FoldersInv, MovesStand
      <4>4. organizing' = [organizing EXCEPT ![o] = {n}] /\ changed' = changed
        BY <3>1, <3>3
      <4>. HIDE DEF n
      <4>5. Left({n})
        BY <3>3, <4>2, <4>3, <4>4
      <4>. HIDE DEF Left
      <4>. QED
        BY <4>5
    <3>. QED
      BY <3>2, <3>3
  <2>3. CASE OrganizeFails(o)
    BY <2>3 DEF OrganizeFails, Ends
  <2>. QED
    BY <2>1, <2>2, <2>3
<1>3. \A x \in Organizers : organizing'[x] = IF x = o THEN N ELSE organizing[x]
  BY <1>2 DEF FoldersInv, FoldersTyped
<1>4. organizing' \in [Organizers -> SUBSET Moves] /\ \A x \in Organizers : \A m, n \in organizing'[x] : m = n
  <2>1. N \in SUBSET Moves
    BY <1>2
  <2>. QED
    BY <1>2, <1>3, <2>1 DEF FoldersInv, FoldersTyped
<1>5. /\ changed' \subseteq changed
      /\ \A x \in Organizers : \A v : x # o /\ <<x, v>> \in changed => <<x, v>> \in changed'
      /\ \A r \in Requests, v \in {"arrived", "ruled"} : <<r, v>> \in changed => <<r, v>> \in changed'
  BY <1>2
<1>6. FoldersTyped'
  BY <1>1, <1>4, <1>5 DEF FoldersInv, FoldersTyped, Acls
<1>7. MovesStand'
  <2>1. ASSUME NEW x \in Organizers, NEW m \in organizing'[x]
        PROVE  /\ folder'[m.source] # NoSource
               /\ folder'[m.source] = Root \/ <<x, "moved">> \in changed'
               /\ m.at = "move" => row'[Slug[m.to]] # "pinned" \/ <<x, "pinned">> \in changed'
    <3>1. CASE x = o
      BY <1>1, <1>2, <1>3, <2>1, <3>1
    <3>2. CASE x # o
      BY <1>1, <1>3, <1>5, <2>1, <3>2 DEF FoldersInv, MovesStand
    <3>. QED
      BY <3>1, <3>2
  <2>. QED
    BY <2>1 DEF MovesStand
<1>8. DeletesStand'
  BY <1>1, <1>5 DEF FoldersInv, DeletesStand, Under
<1>9. UploadsStand'
  <2>1. \A x, f : Nearest(x, f)' <=> Nearest(x, f)
    BY <1>1 DEF Nearest
  <2>2. \A r \in Requests : <<r, "ruled">> \notin changed' => <<r, "ruled">> \notin changed
    BY <1>5
  <2>. QED
    BY <1>1, <2>1, <2>2 DEF FoldersInv, UploadsStand
<1>. QED
  BY <1>6, <1>7, <1>8, <1>9 DEF FoldersInv

\* A folder is made, locked or unlocked.
LEMMA PinsKeep ==
  ASSUME FoldersInv, NEW p \in Paths, NEW pinned \in BOOLEAN, SetPin(p, pinned)
  PROVE  FoldersInv'
<1>1. /\ UNCHANGED <<folder, acl, rule, organizing, asking>>
      /\ row' = [row EXCEPT ![p] = IF pinned THEN "pinned" ELSE "open"]
      /\ changed' = IF pinned THEN changed \cup (Targeting(p) \X {"pinned"}) ELSE changed
  BY DEF SetPin, treeVars
<1>2. \A x \in Paths : row'[x] = IF x = p THEN IF pinned THEN "pinned" ELSE "open" ELSE row[x]
  BY <1>1 DEF FoldersInv, FoldersTyped
<1>3. FoldersTyped'
  <2>1. row' \in [Paths -> {"none", "open", "pinned"}]
    BY <1>1 DEF FoldersInv, FoldersTyped
  <2>2. changed' \subseteq Organizers \X {"moved", "pinned"} \cup Requests \X {"arrived", "ruled"}
    BY <1>1 DEF FoldersInv, FoldersTyped, Targeting
  <2>. QED
    BY <1>1, <2>1, <2>2 DEF FoldersInv, FoldersTyped, Acls
<1>4. changed \subseteq changed' /\ \A r \in Requests, v \in {"arrived", "ruled"} : <<r, v>> \in changed' => <<r, v>> \in changed
  BY <1>1
<1>5. MovesStand'
  <2>1. ASSUME NEW o \in Organizers, NEW m \in organizing[o]
        PROVE  m.at = "move" => row'[Slug[m.to]] # "pinned" \/ <<o, "pinned">> \in changed'
    <3>1. SUFFICES ASSUME m.at = "move", row'[Slug[m.to]] = "pinned" PROVE <<o, "pinned">> \in changed'
      OBVIOUS
    <3>2. Slug[m.to] \in Paths
      BY SlugsAreFolders DEF FoldersInv, FoldersTyped, Moves
    <3>3. CASE Slug[m.to] = p
      <4>1. pinned /\ o \in Targeting(p)
        BY <1>2, <3>1, <3>2, <3>3 DEF Targeting
      <4>. QED
        BY <1>1, <4>1
    <3>4. CASE Slug[m.to] # p
      BY <1>2, <1>4, <3>1, <3>2, <3>4 DEF FoldersInv, MovesStand
    <3>. QED
      BY <3>3, <3>4
  <2>. QED
    BY <1>1, <1>4, <2>1 DEF FoldersInv, MovesStand
<1>6. DeletesStand'
  BY <1>1, <1>4 DEF FoldersInv, DeletesStand, Under
<1>7. UploadsStand'
  <2>1. \A x, f : Nearest(x, f)' <=> Nearest(x, f)
    BY <1>1 DEF Nearest
  <2>. QED
    BY <1>1, <1>4, <2>1 DEF FoldersInv, UploadsStand
<1>. QED
  BY <1>3, <1>5, <1>6, <1>7 DEF FoldersInv

\* A deletion counts, and deletes.
LEMMA CountKeeps ==
  ASSUME FoldersInv, NEW r \in Requests, NEW p \in Paths, CountFolder(r, p)
  PROVE  FoldersInv'
<1>. DEFINE n == [op |-> "delete", path |-> p]
<1>1. /\ UNCHANGED <<folder, acl, row, rule, organizing, changed>> /\ asking' = [asking EXCEPT ![r] = {n}]
      /\ Under(p) = {}
  BY DEF CountFolder, treeVars
<1>2. n \in Askings /\ n.op = "delete" /\ n.path = p
  BY DEF Askings
<1>. HIDE DEF n
<1>3. asking' \in [Requests -> SUBSET Askings] /\ \A v \in Requests : asking'[v] = IF v = r THEN {n} ELSE asking[v]
  BY <1>1, <1>2 DEF FoldersInv, FoldersTyped
<1>4. FoldersTyped'
  BY <1>1, <1>3 DEF FoldersInv, FoldersTyped, Acls
<1>5. MovesStand'
  BY <1>1 DEF FoldersInv, MovesStand
<1>6. DeletesStand'
  <2>1. \A q : Under(q)' = Under(q)
    BY <1>1 DEF Under
  <2>. QED
    BY <1>1, <1>2, <1>3, <2>1 DEF FoldersInv, DeletesStand
<1>7. UploadsStand'
  <2>1. \A x, f : Nearest(x, f)' <=> Nearest(x, f)
    BY <1>1 DEF Nearest
  <2>. QED
    BY <1>1, <1>2, <1>3, <2>1 DEF FoldersInv, UploadsStand
<1>. QED
  BY <1>4, <1>5, <1>6, <1>7 DEF FoldersInv

LEMMA DeleteKeeps ==
  ASSUME FoldersInv, NEW r \in Requests, DeleteFolderRow(r)
  PROVE  FoldersInv'
<1>1. PICK q \in asking[r] :
        /\ q.op = "delete" /\ row' = [row EXCEPT ![q.path] = "none"]
        /\ asking' = [asking EXCEPT ![r] = {}]
        /\ changed' = changed \ {<<r, "arrived">>} /\ UNCHANGED <<folder, acl, rule, organizing>>
  BY DEF DeleteFolderRow, treeVars
<1>2. \A v \in Requests : asking'[v] = IF v = r THEN {} ELSE asking[v]
  BY <1>1 DEF FoldersInv, FoldersTyped
<1>3. asking' \in [Requests -> SUBSET Askings]
  BY <1>1 DEF FoldersInv, FoldersTyped
<1>4. row' \in [Paths -> {"none", "open", "pinned"}] /\ \A p \in Paths : row'[p] = "pinned" => row[p] = "pinned"
  BY <1>1 DEF FoldersInv, FoldersTyped
<1>5. /\ \A o \in Organizers, v \in {"moved", "pinned"} : <<o, v>> \in changed => <<o, v>> \in changed'
      /\ \A v \in Requests : v # r /\ <<v, "arrived">> \in changed => <<v, "arrived">> \in changed'
      /\ \A v \in Requests : <<v, "ruled">> \in changed => <<v, "ruled">> \in changed'
  BY <1>1
<1>6. FoldersTyped'
  BY <1>1, <1>2, <1>3, <1>4 DEF FoldersInv, FoldersTyped, Acls
<1>7. MovesStand'
  <2>1. \A o \in Organizers : \A m \in organizing[o] : Slug[m.to] \in Paths
    BY SlugsAreFolders DEF FoldersInv, FoldersTyped, Moves
  <2>. QED
    BY <1>1, <1>4, <1>5, <2>1 DEF FoldersInv, MovesStand
<1>8. DeletesStand'
  <2>1. \A p : Under(p)' = Under(p)
    BY <1>1 DEF Under
  <2>. QED
    BY <1>2, <1>5, <2>1 DEF FoldersInv, DeletesStand
<1>9. UploadsStand'
  <2>1. \A x, f : Nearest(x, f)' <=> Nearest(x, f)
    BY <1>1 DEF Nearest
  <2>. QED
    BY <1>1, <1>2, <1>5, <2>1 DEF FoldersInv, UploadsStand
<1>. QED
  BY <1>6, <1>7, <1>8, <1>9 DEF FoldersInv

LEMMA FoldersNextKeeps == FoldersInv /\ [FoldersNext]_folderVars => FoldersInv'
<1>1. SUFFICES ASSUME FoldersInv, [FoldersNext]_folderVars PROVE FoldersInv'
  OBVIOUS
<1>2. ASSUME NEW p \in Paths,
             (\E a \in Acls : SetFolderAcl(p, a)) \/ DeleteFolderAcl(p)
             \/ (\E s \in Sources : MoveSource(s, p)) \/ (\E pinned \in BOOLEAN : SetPin(p, pinned))
             \/ \E r \in Requests : CountFolder(r, p)
      PROVE  FoldersInv'
  BY <1>1, <1>2, RulesKeep, MoveKeeps, PinsKeep, CountKeeps DEF SetFolderAcl, DeleteFolderAcl
<1>3. ASSUME NEW p \in GivenPaths, NEW r \in Requests, NEW default \in Acls, ResolveUpload(r, p, default)
      PROVE  FoldersInv'
  BY <1>1, <1>3, ResolveKeeps
<1>4. ASSUME NEW r \in Requests, InsertSource(r) \/ DeleteFolderRow(r) PROVE FoldersInv'
  BY <1>1, <1>4, InsertKeeps, DeleteKeeps
<1>5. ASSUME NEW o \in Organizers,
             (\E s \in Sources, p \in DocTypes : ReadSource(o, s, p)) \/ CheckPin(o) \/ Organize(o) \/ OrganizeFails(o)
      PROVE  FoldersInv'
  BY <1>1, <1>5, OrganizersKeep, OrganizeKeeps
<1>6. CASE UNCHANGED folderVars
  <2>1. UNCHANGED <<folder, acl, row, rule, organizing, asking, changed>>
    BY <1>6 DEF folderVars
  <2>. QED
    BY <1>1, <2>1 DEF FoldersInv, FoldersTyped, MovesStand, DeletesStand, UploadsStand, Nearest, Under, Acls
<1>. QED
  BY <1>1, <1>2, <1>3, <1>4, <1>5, <1>6 DEF FoldersNext

LEMMA FoldersInvHolds == FoldersSpec => []FoldersInv
  BY FoldersStart, FoldersNextKeeps, PTL DEF FoldersSpec

\* Type correctness of the folder tree.
THEOREM FoldersTypeCorrect == FoldersSpec => []FoldersTypeOK
<1>1. FoldersInv => FoldersTypeOK
  BY DEF FoldersInv, FoldersTyped, FoldersTypeOK
<1>. QED
  BY <1>1, FoldersInvHolds, PTL

\* classify.rs and lint.rs, between is_folder_pinned and update_folder_path.
LEMMA MovesKeepOff ==
  ASSUME FoldersInv, [FoldersNext]_folderVars, NEW o \in Organizers, NEW s \in Sources,
         Organizes(o, s), organizing'[o] = {}, folder'[s] # folder[s]
  PROVE  /\ folder[s] = Root \/ <<o, "moved">> \in changed
         /\ row[Slug[folder'[s]]] # "pinned" \/ <<o, "pinned">> \in changed
<1>1. organizing' # organizing /\ folder' # folder
  BY DEF Organizes
<1>2. PICK v \in Organizers : Organize(v)
  BY <1>1 DEF FoldersNext, folderVars, SetFolderAcl, DeleteFolderAcl, PutRule, MoveSource, ResolveUpload, SetPin,
              CountFolder, InsertSource, DeleteFolderRow, ReadSource, CheckPin, OrganizeFails,
              treeVars
<1>3. PICK m \in organizing[v] : /\ m.at = "move" /\ folder' = [folder EXCEPT ![m.source] = m.to]
                                 /\ organizing' = [organizing EXCEPT ![v] = {}]
  BY <1>2 DEF Organize
<1>4. v = o
  BY <1>3 DEF FoldersInv, FoldersTyped, Organizes
<1>5. m.source = s /\ folder'[s] = m.to
  BY <1>3 DEF FoldersInv, FoldersTyped
<1>. QED
  BY <1>3, <1>4, <1>5 DEF FoldersInv, MovesStand

\* Classification and lint: whoever moves sources or locks folders meanwhile, a source is
\* taken out of a folder of the user's, or put into a locked one, only when that came
\* about after the job had looked.
THEOREM OrganizersAlwaysKeepOff == FoldersSpec => OrganizersKeepOff
<1>1. FoldersInv /\ [FoldersNext]_folderVars =>
        [\A o \in Organizers, s \in Sources :
           Organizes(o, s) /\ organizing'[o] = {} /\ folder'[s] # folder[s] =>
             /\ folder[s] = Root \/ <<o, "moved">> \in changed
             /\ row[Slug[folder'[s]]] # "pinned" \/ <<o, "pinned">> \in changed]_folderVars
  BY MovesKeepOff
<1>. QED
  BY <1>1, FoldersInvHolds, PTL DEF FoldersSpec, OrganizersKeepOff

\* delete_folder, between folder_source_count and the DELETE.
LEMMA RowsGoEmpty ==
  ASSUME FoldersInv, [FoldersNext]_folderVars, NEW p \in Paths,
         row[p] # "none", row'[p] = "none", Under(p) # {}
  PROVE  \E r \in Requests : <<r, "arrived">> \in changed /\ \E q \in asking[r] : q.path = p
<1>1. row' # row
  OBVIOUS
<1>2. ASSUME NEW x \in Paths, NEW pinned \in BOOLEAN, SetPin(x, pinned) PROVE FALSE
  BY <1>2 DEF SetPin, FoldersInv, FoldersTyped
<1>3. PICK r \in Requests : DeleteFolderRow(r)
  BY <1>1, <1>2
     DEF FoldersNext, folderVars, SetFolderAcl, DeleteFolderAcl, PutRule, MoveSource, ResolveUpload,
         CountFolder, InsertSource, ReadSource, CheckPin, Organize, OrganizeFails
<1>4. PICK q \in asking[r] : q.op = "delete" /\ row' = [row EXCEPT ![q.path] = "none"]
  BY <1>3 DEF DeleteFolderRow
<1>5. q.path = p
  BY <1>4 DEF FoldersInv, FoldersTyped
<1>. QED
  BY <1>4, <1>5 DEF FoldersInv, DeletesStand

\* Deletion of folders: a folder with files at any depth, by their paths as stored, loses
\* its row, and its lock, only when they came between the count and the deletion.
THEOREM FoldersInUseAlwaysStay == FoldersSpec => FoldersInUseStay
<1>1. FoldersInv /\ [FoldersNext]_folderVars =>
        [\A p \in Paths : row[p] # "none" /\ row'[p] = "none" /\ Under(p) # {} =>
           \E r \in Requests : <<r, "arrived">> \in changed /\ \E q \in asking[r] : q.path = p]_folderVars
  BY RowsGoEmpty
<1>. QED
  BY <1>1, FoldersInvHolds, PTL DEF FoldersSpec, FoldersInUseStay

\* upload_source and sync::run, between resolve_folder_acl and the INSERT.
LEMMA UploadsFollow ==
  ASSUME FoldersInv, [FoldersNext]_folderVars, NEW r \in Requests, NEW s \in Sources, NEW p \in Paths,
         folder[s] = NoSource, folder'[s] # NoSource, asking'[r] # asking[r], <<r, "ruled">> \notin changed,
         Nearest(p, Slug[folder'[s]])
  PROVE  acl'[s] = rule[p]
<1>1. asking' # asking /\ folder' # folder
  OBVIOUS
<1>2. PICK v \in Requests : InsertSource(v)
  BY <1>1 DEF FoldersNext, folderVars, SetFolderAcl, DeleteFolderAcl, PutRule, MoveSource, ResolveUpload, SetPin,
              CountFolder, DeleteFolderRow, ReadSource, CheckPin, Organize, OrganizeFails, treeVars
<1>3. PICK q \in asking[v], x \in Sources :
        /\ q.op = "upload" /\ folder' = [folder EXCEPT ![x] = q.path] /\ acl' = [acl EXCEPT ![x] = q.acl]
        /\ asking' = [asking EXCEPT ![v] = {}]
  BY <1>2 DEF InsertSource
<1>4. v = r /\ x = s
  BY <1>3 DEF FoldersInv, FoldersTyped
<1>5. folder'[s] = q.path /\ acl'[s] = q.acl
  BY <1>3, <1>4 DEF FoldersInv, FoldersTyped
<1>. QED
  BY <1>3, <1>4, <1>5 DEF FoldersInv, UploadsStand

\* resolve_folder_acl: a source comes in with the groups of the nearest rule above its
\* slugified path, in a folder tree of any depth, unless rules were written after the upload had asked.
THEOREM UploadsAlwaysFollowRules == FoldersSpec => UploadsFollowRules
<1>1. FoldersInv /\ [FoldersNext]_folderVars =>
        [\A r \in Requests, s \in Sources, p \in Paths :
           /\ folder[s] = NoSource /\ folder'[s] # NoSource /\ asking'[r] # asking[r]
           /\ <<r, "ruled">> \notin changed
           /\ IsPrefix(p, Slug[folder'[s]]) /\ rule[p] # NoRule
           /\ \A q \in Paths \ {p} : IsPrefix(p, q) /\ IsPrefix(q, Slug[folder'[s]]) => rule[q] = NoRule
           => acl'[s] = rule[p]]_folderVars
  <2>1. SUFFICES ASSUME FoldersInv, [FoldersNext]_folderVars, NEW r \in Requests, NEW s \in Sources, NEW p \in Paths,
                        folder[s] = NoSource, folder'[s] # NoSource, asking'[r] # asking[r],
                        <<r, "ruled">> \notin changed, IsPrefix(p, Slug[folder'[s]]), rule[p] # NoRule,
                        \A q \in Paths \ {p} : IsPrefix(p, q) /\ IsPrefix(q, Slug[folder'[s]]) => rule[q] = NoRule
                 PROVE  acl'[s] = rule[p]
    OBVIOUS
  <2>2. Nearest(p, Slug[folder'[s]])
    BY <2>1 DEF Nearest
  <2>. QED
    BY <2>1, <2>2, UploadsFollow
<1>. QED
  BY <1>1, FoldersInvHolds, PTL DEF FoldersSpec, UploadsFollowRules

-----------------------------------------------------------------------------
(* Streams.  What has been worked off ends with an empty line, or is       *)
(* nothing; its data lines have been settled, and nothing that arrives     *)
(* later changes what they say.                                            *)

Worked == received - Len(buffer)

AnswerInv ==
  /\ TokenStreamTypeOK
  /\ Worked = 0 \/ IsBlank(answer, Worked)
  /\ \A m, n \in DOMAIN tokens : m < n => tokens[m] < tokens[n]
  /\ \A n \in DOMAIN tokens : tokens[n] \in Said(received) /\ tokens[n] <= Worked
  /\ \A i \in Said(received) : i <= Worked => \E n \in DOMAIN tokens : tokens[n] = i
  /\ source = "open" /\ openai => \A k \in 1..Worked : Counts(k, received) => answer[k + 1] # Done

LEMMA OneMore ==
  ASSUME NEW S, IsFiniteSet(S), NEW n \in Nat, Cardinality(S) <= n, NEW x
  PROVE  IsFiniteSet(S \cup {x}) /\ Cardinality(S \cup {x}) <= n + 1
<1>1. Cardinality(S) \in Nat
  BY FS_CardinalityType
<1>2. IsFiniteSet(S \cup {x}) /\ Cardinality(S \cup {x}) = IF x \in S THEN Cardinality(S) ELSE Cardinality(S) + 1
  BY FS_AddElement
<1>. QED
  BY <1>1, <1>2

LEMMA FourAtMost ==
  ASSUME NEW a, NEW b, NEW c, NEW d
  PROVE  Cardinality({a, b, c, d}) <= 4
<1>1. IsFiniteSet({}) /\ Cardinality({}) <= 0
  BY FS_EmptySet
<1>2. IsFiniteSet({} \cup {a}) /\ Cardinality({} \cup {a}) <= 0 + 1
  BY <1>1, OneMore
<1>3. IsFiniteSet({a}) /\ Cardinality({a}) <= 1 /\ 1 \in Nat
  <2>1. {} \cup {a} = {a}
    OBVIOUS
  <2>. QED
    BY <1>2, <2>1
<1>4. IsFiniteSet({a} \cup {b}) /\ Cardinality({a} \cup {b}) <= 1 + 1
  BY <1>3, OneMore
<1>5. IsFiniteSet({a, b}) /\ Cardinality({a, b}) <= 2 /\ 2 \in Nat
  <2>1. {a} \cup {b} = {a, b}
    OBVIOUS
  <2>. QED
    BY <1>4, <2>1
<1>6. IsFiniteSet({a, b} \cup {c}) /\ Cardinality({a, b} \cup {c}) <= 2 + 1
  BY <1>5, OneMore
<1>7. IsFiniteSet({a, b, c}) /\ Cardinality({a, b, c}) <= 3 /\ 3 \in Nat
  <2>1. {a, b} \cup {c} = {a, b, c}
    OBVIOUS
  <2>. QED
    BY <1>6, <2>1
<1>8. Cardinality({a, b, c} \cup {d}) <= 3 + 1
  BY <1>7, OneMore
<1>9. {a, b, c} \cup {d} = {a, b, c, d}
  OBVIOUS
<1>. QED
  BY <1>8, <1>9

\* The bytes that the code tells apart differ.
Distinct ==
  /\ LF # CR /\ LF # Data /\ LF # Bad /\ CR # Data /\ CR # Bad /\ Data # Bad /\ Data # Done
  /\ Done \notin Tokens

LEMMA BytesDiffer == Distinct
<1>1. ASSUME NEW a, NEW b, NEW c, NEW d, {LF, CR, Data, Done, Bad} = {a, b, c, d} PROVE FALSE
  <2>1. Cardinality({a, b, c, d}) <= 4
    BY FourAtMost
  <2>2. Cardinality({a, b, c, d}) = 5
    BY <1>1, TokenStreamAssumption
  <2>. QED
    BY <2>1, <2>2
<1>2. LF # CR
  <2>1. SUFFICES ASSUME LF = CR PROVE FALSE
    OBVIOUS
  <2>2. {LF, CR, Data, Done, Bad} = {CR, Data, Done, Bad}
    BY <2>1
  <2>. QED
    BY <1>1, <2>2
<1>3. LF # Data
  <2>1. SUFFICES ASSUME LF = Data PROVE FALSE
    OBVIOUS
  <2>2. {LF, CR, Data, Done, Bad} = {CR, Data, Done, Bad}
    BY <2>1
  <2>. QED
    BY <1>1, <2>2
<1>4. LF # Bad
  <2>1. SUFFICES ASSUME LF = Bad PROVE FALSE
    OBVIOUS
  <2>2. {LF, CR, Data, Done, Bad} = {CR, Data, Done, Bad}
    BY <2>1
  <2>. QED
    BY <1>1, <2>2
<1>5. CR # Data
  <2>1. SUFFICES ASSUME CR = Data PROVE FALSE
    OBVIOUS
  <2>2. {LF, CR, Data, Done, Bad} = {LF, Data, Done, Bad}
    BY <2>1
  <2>. QED
    BY <1>1, <2>2
<1>6. CR # Bad
  <2>1. SUFFICES ASSUME CR = Bad PROVE FALSE
    OBVIOUS
  <2>2. {LF, CR, Data, Done, Bad} = {LF, Data, Done, Bad}
    BY <2>1
  <2>. QED
    BY <1>1, <2>2
<1>7. Data # Bad
  <2>1. SUFFICES ASSUME Data = Bad PROVE FALSE
    OBVIOUS
  <2>2. {LF, CR, Data, Done, Bad} = {LF, CR, Done, Bad}
    BY <2>1
  <2>. QED
    BY <1>1, <2>2
<1>8. Data # Done
  <2>1. SUFFICES ASSUME Data = Done PROVE FALSE
    OBVIOUS
  <2>2. {LF, CR, Data, Done, Bad} = {LF, CR, Done, Bad}
    BY <2>1
  <2>. QED
    BY <1>1, <2>2
<1>9. Done \notin Tokens
  BY TokenStreamAssumption
<1>. QED
  BY <1>2, <1>3, <1>4, <1>5, <1>6, <1>7, <1>8, <1>9 DEF Distinct

\* The buffer is the end of what has arrived.
LEMMA BufferIsAnswer ==
  ASSUME TokenStreamTypeOK
  PROVE  /\ Len(answer) \in Nat /\ received \in Nat /\ received <= Len(answer) /\ Len(buffer) \in Nat
         /\ Worked \in 0..received /\ received = Worked + Len(buffer)
         /\ DOMAIN answer = 1..Len(answer) /\ DOMAIN buffer = 1..Len(buffer)
         /\ \A i \in 1..Len(answer) : answer[i] \in Bytes
         /\ \A i \in 1..Len(buffer) : buffer[i] = answer[Worked + i]
<1>1. answer \in Seq(Bytes) /\ buffer \in Seq(Bytes) /\ received \in 0..Len(answer)
  BY TokenStreamAssumption DEF TokenStreamTypeOK
<1>2. /\ Len(answer) \in Nat /\ received \in Nat /\ received <= Len(answer) /\ Len(buffer) \in Nat
      /\ DOMAIN answer = 1..Len(answer) /\ DOMAIN buffer = 1..Len(buffer)
      /\ \A i \in 1..Len(answer) : answer[i] \in Bytes
  BY <1>1, LenProperties
<1>3. Worked \in 0..received /\ received = Worked + Len(buffer)
  BY <1>2 DEF Worked, TokenStreamTypeOK
<1>4. buffer = SubSeq(answer, Worked + 1, received)
  BY DEF Worked, TokenStreamTypeOK
<1>5. \A i \in 1..(received - (Worked + 1) + 1) : SubSeq(answer, Worked + 1, received)[i] = answer[Worked + 1 + i - 1]
  <2>1. Worked + 1 \in Int /\ received \in Int /\ \A i \in (Worked + 1)..received : answer[i] \in Bytes
    BY <1>2, <1>3
  <2>. QED
    BY <2>1, SubSeqProperties
<1>6. \A i \in 1..Len(buffer) : buffer[i] = answer[Worked + i]
  <2>1. ASSUME NEW i \in 1..Len(buffer) PROVE buffer[i] = answer[Worked + i]
    <3>1. i \in 1..(received - (Worked + 1) + 1) /\ Worked + 1 + i - 1 = Worked + i
      BY <1>2, <1>3
    <3>2. SubSeq(answer, Worked + 1, received)[i] = answer[Worked + 1 + i - 1]
      BY <1>5, <3>1
    <3>. QED
      BY <1>4, <3>1, <3>2
  <2>. QED
    BY <2>1
<1>. QED
  BY <1>2, <1>3, <1>6

\* What is worked off is settled: what arrives later does not change it.
LEMMA WorkedIsSettled ==
  ASSUME TokenStreamTypeOK, Worked = 0 \/ IsBlank(answer, Worked),
         NEW m \in Nat, Worked <= m, NEW r \in Nat, Worked <= r, NEW i \in 1..Worked
  PROVE  /\ Counts(i, m) <=> Counts(i, r)
         /\ i \in Said(m) <=> i \in Said(r)
<1>0. Worked \in Nat /\ i <= Worked /\ Worked # 0 /\ IsBlank(answer, Worked)
  BY BufferIsAnswer
<1>1. ASSUME NEW a \in Nat, Worked <= a, NEW b \in Nat, Worked <= b, NEW k \in 1..Worked, Counts(k, a)
      PROVE  Counts(k, b)
  <2>1. PICK j \in k..a : /\ IsBlank(answer, j) /\ \A l \in k..(j - 1) : ~IsBlank(answer, l)
                          /\ \A h \in 1..j : answer[h] = Bad => \E l \in h..k : IsBlank(answer, l)
    BY <1>1 DEF Counts
  <2>2. j <= Worked
    <3>1. SUFFICES ASSUME Worked < j PROVE FALSE
      BY <1>0, <2>1
    <3>2. Worked \in k..(j - 1)
      BY <1>0, <2>1, <3>1
    <3>. QED
      BY <1>0, <2>1, <3>2
  <2>3. j \in k..b
    BY <1>0, <1>1, <2>1, <2>2
  <2>. QED
    BY <1>1, <2>1, <2>3 DEF Counts
<1>2. \A k \in 1..Worked : Counts(k, m) <=> Counts(k, r)
  BY <1>1
<1>3. i \in 1..m /\ i \in 1..r /\ \A k \in 1..i : k \in 1..Worked
  BY <1>0
<1>4. i \in Said(m) <=> i \in Said(r)
  BY <1>2, <1>3 DEF Said
<1>. QED
  BY <1>2, <1>4

\* Behind the buffer's start, an empty line below a byte that is no line end has its
\* terminator in the buffer.
LEMMA BlankIsTerminator ==
  ASSUME TokenStreamTypeOK, NEW i \in Nat, Worked < i, NEW j \in Nat, i < j, j <= received,
         answer[i] # LF, answer[i] # CR, IsBlank(answer, j)
  PROVE  \E u \in Terminators(buffer) : /\ i < Worked + u
                                        /\ \/ At2(buffer, u) /\ Worked + u + 1 = j
                                           \/ At4(buffer, u) /\ Worked + u + 3 = j
<1>0. /\ Len(answer) \in Nat /\ received \in Nat /\ received <= Len(answer) /\ Len(buffer) \in Nat
      /\ Worked \in Nat /\ received = Worked + Len(buffer)
      /\ DOMAIN answer = 1..Len(answer) /\ DOMAIN buffer = 1..Len(buffer)
      /\ \A k \in 1..Len(buffer) : buffer[k] = answer[Worked + k]
  BY BufferIsAnswer
<1>1. CASE answer[j] = LF /\ answer[j - 1] = LF
  <2>. DEFINE u == j - 1 - Worked
  <2>1. i < j - 1
    BY <1>1
  <2>2. u \in 1..Len(buffer) /\ u + 1 \in 1..Len(buffer) /\ Worked + u = j - 1 /\ Worked + (u + 1) = j
    BY <1>0, <2>1
  <2>3. buffer[u] = LF /\ buffer[u + 1] = LF
    <3>. HIDE DEF u
    <3>. QED
      BY <1>0, <1>1, <2>2
  <2>4. At2(buffer, u) /\ u \in Terminators(buffer)
    <3>. HIDE DEF u
    <3>. QED
      BY <1>0, <2>2, <2>3 DEF At2, Terminators
  <2>5. i < Worked + u /\ Worked + u + 1 = j
    BY <1>0, <2>1
  <2>. QED
    BY <2>4, <2>5
<1>2. CASE j > 2 /\ answer[j] = LF /\ answer[j - 1] = CR /\ answer[j - 2] = LF
  <2>1. i < j - 1
    BY <1>2
  <2>2. i < j - 2
    BY <1>2, <2>1
  <2>3. j \in 1..Len(answer) /\ j - 1 \in 1..Len(answer) /\ j - 2 \in 1..Len(answer)
    BY <1>0, <1>2
  <2>4. OneLineEnd(answer)
    BY TokenStreamAssumption DEF TokenStreamTypeOK
  <2>5. answer[j - 3] = CR
    <3>1. ~ (\A k \in 1..Len(answer) : answer[k] # CR)
      BY <1>2, <2>3
    <3>2. \A k \in 1..Len(answer) : answer[k] = LF => answer[k - 1] = CR
      BY <1>0, <2>4, <3>1 DEF OneLineEnd
    <3>3. answer[(j - 2) - 1] = CR
      BY <1>2, <2>3, <3>2
    <3>4. (j - 2) - 1 = j - 3
      OBVIOUS
    <3>. QED
      BY <3>3, <3>4
  <2>6. i < j - 3
    BY <2>2, <2>5
  <2>. DEFINE u == j - 3 - Worked
  <2>7. /\ u \in 1..Len(buffer) /\ u + 1 \in 1..Len(buffer) /\ u + 2 \in 1..Len(buffer) /\ u + 3 \in 1..Len(buffer)
        /\ Worked + u = j - 3 /\ Worked + (u + 1) = j - 2 /\ Worked + (u + 2) = j - 1 /\ Worked + (u + 3) = j
    BY <1>0, <2>6
  <2>8. buffer[u] = CR /\ buffer[u + 1] = LF /\ buffer[u + 2] = CR /\ buffer[u + 3] = LF
    <3>. HIDE DEF u
    <3>. QED
      BY <1>0, <1>2, <2>5, <2>7
  <2>9. At4(buffer, u) /\ u \in Terminators(buffer)
    <3>. HIDE DEF u
    <3>. QED
      BY <1>0, <2>7, <2>8 DEF At4, Terminators
  <2>10. i < Worked + u /\ Worked + u + 3 = j
    BY <1>0, <2>6
  <2>. QED
    BY <2>9, <2>10
<1>. QED
  BY <1>1, <1>2 DEF IsBlank

\* Without a terminator in the buffer, no data line behind what is worked off counts.
LEMMA RestIsSilent ==
  ASSUME TokenStreamTypeOK, Terminators(buffer) = {}, NEW i \in Nat, Worked < i
  PROVE  ~Counts(i, received)
<1>1. SUFFICES ASSUME Counts(i, received) PROVE FALSE
  OBVIOUS
<1>2. received \in Nat
  BY BufferIsAnswer
<1>3. PICK j \in i..received : IsBlank(answer, j)
  BY <1>1 DEF Counts
<1>4. answer[i] = Data /\ answer[j] = LF /\ Distinct
  BY <1>1, <1>3, BytesDiffer DEF Counts, IsBlank
<1>5. j \in Nat /\ i < j /\ j <= received
  BY <1>2, <1>3, <1>4 DEF Distinct
<1>. QED
  BY <1>3, <1>4, <1>5, BlankIsTerminator DEF Distinct

\* The first event of the buffer ends with the first empty line below any byte of it that
\* is no line end.
LEMMA EventEnds ==
  ASSUME TokenStreamTypeOK, Terminators(buffer) # {}
  PROVE  /\ EventLength(buffer) \in 1..Len(buffer)
         /\ IsBlank(answer, Worked + EventLength(buffer))
         /\ \A i, j \in Nat : /\ Worked < i /\ i < j /\ j < Worked + EventLength(buffer)
                              /\ answer[i] # LF /\ answer[i] # CR
                              => ~IsBlank(answer, j)
<1>0. /\ Len(answer) \in Nat /\ received \in Nat /\ received <= Len(answer) /\ Len(buffer) \in Nat
      /\ Worked \in Nat /\ received = Worked + Len(buffer)
      /\ DOMAIN answer = 1..Len(answer) /\ DOMAIN buffer = 1..Len(buffer)
      /\ \A k \in 1..Len(buffer) : buffer[k] = answer[Worked + k]
  BY BufferIsAnswer
<1>. DEFINE u == CHOOSE i \in Terminators(buffer) : \A j \in Terminators(buffer) : i <= j
            e == EventLength(buffer)
<1>1. u \in Terminators(buffer) /\ \A j \in Terminators(buffer) : u <= j
  <2>1. Terminators(buffer) \in SUBSET Nat
    BY <1>0 DEF Terminators
  <2>. QED
    BY <2>1, LeastOf
<1>2. e = IF At2(buffer, u) THEN u + 1 ELSE u + 3
  BY DEF EventLength
<1>. HIDE DEF u, e
<1>3. u \in 1..Len(buffer) /\ (At2(buffer, u) \/ At4(buffer, u))
  BY <1>0, <1>1 DEF Terminators
<1>4. LF # CR
  BY BytesDiffer DEF Distinct
<1>5. e \in 1..Len(buffer) /\ buffer[e] = LF
  <2>1. CASE At2(buffer, u)
    BY <1>0, <1>2, <1>3, <2>1 DEF At2
  <2>2. CASE ~At2(buffer, u)
    BY <1>0, <1>2, <1>3, <2>2 DEF At4
  <2>. QED
    BY <2>1, <2>2
<1>6. IsBlank(answer, Worked + e)
  <2>1. CASE At2(buffer, u)
    <3>1. u \in 1..Len(buffer) /\ u + 1 \in 1..Len(buffer) /\ e = u + 1 /\ buffer[u] = LF /\ buffer[u + 1] = LF
      BY <1>0, <1>2, <1>3, <2>1 DEF At2
    <3>2. answer[Worked + u] = LF /\ answer[Worked + (u + 1)] = LF
      BY <1>0, <3>1
    <3>3. Worked + u = (Worked + e) - 1 /\ Worked + (u + 1) = Worked + e /\ Worked + e > 1
      BY <1>0, <3>1
    <3>. QED
      BY <3>2, <3>3 DEF IsBlank
  <2>2. CASE ~At2(buffer, u)
    <3>1. /\ u \in 1..Len(buffer) /\ u + 1 \in 1..Len(buffer) /\ u + 2 \in 1..Len(buffer) /\ u + 3 \in 1..Len(buffer)
          /\ e = u + 3 /\ buffer[u + 1] = LF /\ buffer[u + 2] = CR /\ buffer[u + 3] = LF
      BY <1>0, <1>2, <1>3, <2>2 DEF At4
    <3>2. answer[Worked + (u + 1)] = LF /\ answer[Worked + (u + 2)] = CR /\ answer[Worked + (u + 3)] = LF
      BY <1>0, <3>1
    <3>3. /\ Worked + (u + 1) = (Worked + e) - 2 /\ Worked + (u + 2) = (Worked + e) - 1
          /\ Worked + (u + 3) = Worked + e /\ Worked + e > 2
      BY <1>0, <3>1
    <3>. QED
      BY <3>2, <3>3 DEF IsBlank
  <2>. QED
    BY <2>1, <2>2
<1>7. ASSUME NEW i \in Nat, NEW j \in Nat, Worked < i, i < j, j < Worked + e, answer[i] # LF, answer[i] # CR,
             IsBlank(answer, j)
      PROVE  FALSE
  <2>1. j <= received
    BY <1>0, <1>5, <1>7
  <2>2. PICK v \in Terminators(buffer) : \/ At2(buffer, v) /\ Worked + v + 1 = j
                                         \/ At4(buffer, v) /\ Worked + v + 3 = j
    BY <1>7, <2>1, BlankIsTerminator
  <2>3. u <= v /\ v \in 1..Len(buffer)
    BY <1>0, <1>1, <2>2 DEF Terminators
  <2>4. CASE At2(buffer, u)
    <3>1. e = u + 1
      BY <1>2, <2>4
    <3>. QED
      BY <1>0, <1>3, <1>7, <2>2, <2>3, <3>1
  <2>5. CASE ~At2(buffer, u)
    <3>1. e = u + 3 /\ At4(buffer, u)
      BY <1>2, <1>3, <2>5
    <3>2. At2(buffer, v) /\ v < u + 2
      BY <1>0, <1>3, <1>7, <2>2, <2>3, <3>1
    <3>3. v = u + 1
      BY <1>3, <2>3, <2>5, <3>2
    <3>4. buffer[(u + 1) + 1] = LF /\ buffer[u + 2] = CR
      BY <3>1, <3>2, <3>3 DEF At2, At4
    <3>5. (u + 1) + 1 = u + 2
      BY <1>3
    <3>. QED
      BY <1>4, <3>4, <3>5
  <2>. QED
    BY <2>4, <2>5
<1>. QED
  BY <1>5, <1>6, <1>7 DEF e

\* The first event, and what its lines are in the answer.
Event == SubSeq(buffer, 1, EventLength(buffer))

LEMMA EventIsAnswer ==
  ASSUME TokenStreamTypeOK, Terminators(buffer) # {}
  PROVE  /\ Event \in Seq(Bytes) /\ DOMAIN Event = 1..EventLength(buffer)
         /\ \A i \in 1..EventLength(buffer) : Event[i] = answer[Worked + i]
<1>1. EventLength(buffer) \in 1..Len(buffer)
  BY EventEnds
<1>2. /\ Len(buffer) \in Nat /\ buffer \in Seq(Bytes) /\ \A i \in 1..Len(buffer) : buffer[i] = answer[Worked + i]
  BY BufferIsAnswer DEF TokenStreamTypeOK
<1>3. \A i \in 1..EventLength(buffer) : buffer[i] \in Bytes /\ i \in 1..Len(buffer)
  BY <1>1, <1>2, ElementOfSeq
<1>4. /\ Event \in Seq(Bytes) /\ Len(Event) = EventLength(buffer)
      /\ \A i \in 1..EventLength(buffer) - 1 + 1 : Event[i] = buffer[1 + i - 1]
  BY <1>1, <1>3, SubSeqProperties DEF Event
<1>5. \A i \in 1..EventLength(buffer) : i \in 1..EventLength(buffer) - 1 + 1 /\ 1 + i - 1 = i
  BY <1>1
<1>. QED
  BY <1>2, <1>3, <1>4, <1>5, LenProperties

\* The data lines of the first event are those of the answer that count.
LEMMA EventCounts ==
  ASSUME TokenStreamTypeOK, Terminators(buffer) # {}, Worked = 0 \/ IsBlank(answer, Worked),
         NEW i \in 1..EventLength(buffer)
  PROVE  /\ i \in DataLines(Event) <=> Counts(Worked + i, received)
         /\ i \in DataLines(Event) => i < EventLength(buffer) /\ Event[i + 1] = answer[Worked + i + 1]
<1>. DEFINE e == EventLength(buffer)
<1>0. /\ Len(answer) \in Nat /\ received \in Nat /\ received <= Len(answer) /\ Len(buffer) \in Nat
      /\ Worked \in Nat /\ received = Worked + Len(buffer)
      /\ e \in 1..Len(buffer) /\ IsBlank(answer, Worked + e) /\ i \in 1..e
  BY BufferIsAnswer, EventEnds
<1>1. \A k, j \in Nat : /\ Worked < k /\ k < j /\ j < Worked + e /\ answer[k] # LF /\ answer[k] # CR
                        => ~IsBlank(answer, j)
  BY EventEnds
<1>2. DOMAIN Event = 1..e /\ \A k \in 1..e : Event[k] = answer[Worked + k]
  BY EventIsAnswer
<1>. HIDE DEF e
<1>3. Distinct
  BY BytesDiffer
<1>4. IsLineStart(Event, i) <=> IsLineStart(answer, Worked + i)
  <2>1. CASE i = 1
    <3>1. Worked = 0 \/ answer[Worked] = LF
      BY DEF IsBlank
    <3>2. (Worked + i) - 1 = Worked /\ (Worked = 0 => Worked + i = 1)
      BY <1>0, <2>1
    <3>. QED
      BY <2>1, <3>1, <3>2 DEF IsLineStart
  <2>2. CASE i # 1
    <3>1. i - 1 \in 1..e /\ Worked + (i - 1) = (Worked + i) - 1 /\ Worked + i # 1
      BY <1>0, <2>2
    <3>2. Event[i - 1] = answer[(Worked + i) - 1]
      BY <1>2, <3>1
    <3>. QED
      BY <2>2, <3>1, <3>2 DEF IsLineStart
  <2>. QED
    BY <2>1, <2>2
<1>5. answer[Worked + e] = LF /\ Event[i] = answer[Worked + i]
  BY <1>0, <1>2 DEF IsBlank
<1>6. ASSUME i \in DataLines(Event) PROVE Counts(Worked + i, received)
  <2>1. /\ answer[Worked + i] = Data /\ IsLineStart(answer, Worked + i)
        /\ \A k \in 1..e : answer[Worked + k] # Bad
    BY <1>2, <1>4, <1>5, <1>6 DEF DataLines
  <2>2. i < e /\ Worked + e \in (Worked + i)..received
    <3>1. i # e
      BY <1>3, <1>5, <2>1 DEF Distinct
    <3>. QED
      BY <1>0, <3>1
  <2>3. ASSUME NEW k \in (Worked + i)..(Worked + e - 1) PROVE ~IsBlank(answer, k)
    <3>1. CASE k = Worked + i
      BY <1>3, <2>1, <3>1 DEF Distinct, IsBlank
    <3>2. CASE k # Worked + i
      <4>1. k \in Nat /\ Worked + i \in Nat /\ Worked < Worked + i /\ Worked + i < k /\ k < Worked + e
        BY <1>0, <3>2
      <4>. QED
        BY <1>1, <1>3, <2>1, <4>1 DEF Distinct
    <3>. QED
      BY <3>1, <3>2
  <2>4. ASSUME NEW k \in 1..(Worked + e), answer[k] = Bad PROVE \E l \in k..(Worked + i) : IsBlank(answer, l)
    <3>1. k <= Worked
      <4>1. SUFFICES ASSUME Worked < k PROVE FALSE
        BY <1>0
      <4>2. k - Worked \in 1..e /\ Worked + (k - Worked) = k
        BY <1>0, <4>1
      <4>. QED
        BY <2>1, <2>4, <4>2
    <3>2. IsBlank(answer, Worked) /\ Worked \in k..(Worked + i)
      BY <1>0, <3>1
    <3>. QED
      BY <3>2
  <2>5. \E j \in (Worked + i)..received :
          /\ IsBlank(answer, j) /\ \A k \in (Worked + i)..(j - 1) : ~IsBlank(answer, k)
          /\ \A k \in 1..j : answer[k] = Bad => \E l \in k..(Worked + i) : IsBlank(answer, l)
    BY <1>0, <2>2, <2>3, <2>4
  <2>. QED
    BY <2>1, <2>5 DEF Counts
<1>7. ASSUME Counts(Worked + i, received) PROVE i \in DataLines(Event)
  <2>1. answer[Worked + i] = Data /\ IsLineStart(answer, Worked + i)
    BY <1>7 DEF Counts
  <2>2. PICK j \in (Worked + i)..received :
          /\ IsBlank(answer, j) /\ \A k \in (Worked + i)..(j - 1) : ~IsBlank(answer, k)
          /\ \A k \in 1..j : answer[k] = Bad => \E l \in k..(Worked + i) : IsBlank(answer, l)
    BY <1>7 DEF Counts
  <2>3. i < e
    <3>1. i # e
      BY <1>3, <1>5, <2>1 DEF Distinct
    <3>. QED
      BY <1>0, <3>1
  <2>4. Worked + e <= j
    <3>1. j # Worked + i
      BY <1>3, <2>1, <2>2 DEF Distinct, IsBlank
    <3>2. j \in Nat /\ Worked + i \in Nat /\ Worked < Worked + i /\ Worked + i < j
      BY <1>0, <2>2, <3>1
    <3>3. ~ (j < Worked + e)
      BY <1>1, <1>3, <2>1, <2>2, <3>2 DEF Distinct
    <3>. QED
      BY <1>0, <3>2, <3>3
  <2>5. ASSUME NEW k \in 1..e, answer[Worked + k] = Bad PROVE FALSE
    <3>1. Worked + k \in 1..j
      BY <1>0, <2>2, <2>4
    <3>2. PICK l \in (Worked + k)..(Worked + i) : IsBlank(answer, l)
      BY <2>2, <2>5, <3>1
    <3>3. l # Worked + k /\ l # Worked + i
      BY <1>3, <2>1, <2>5, <3>2 DEF Distinct, IsBlank
    <3>4. l \in Nat /\ Worked + k \in Nat /\ Worked < Worked + k /\ Worked + k < l /\ l < Worked + e
      BY <1>0, <2>3, <3>2, <3>3
    <3>. QED
      BY <1>1, <1>3, <2>5, <3>2, <3>4 DEF Distinct
  <2>. QED
    BY <1>0, <1>2, <1>4, <1>5, <2>1, <2>5 DEF DataLines
<1>8. ASSUME i \in DataLines(Event) PROVE i < e /\ Event[i + 1] = answer[Worked + i + 1]
  <2>1. i # e
    BY <1>3, <1>5, <1>8 DEF Distinct, DataLines
  <2>2. i < e /\ i + 1 \in 1..e /\ Worked + (i + 1) = Worked + i + 1
    BY <1>0, <2>1
  <2>. QED
    BY <1>2, <2>2
<1>. QED
  BY <1>6, <1>7, <1>8 DEF e

\* An enumeration of a set of numbers in their order.
Increasing(q, n) == \A l, m \in 1..n : l < m => q[l] < q[m]
Enumerates(q, S) == q \in [1..Cardinality(S) -> S] /\ Increasing(q, Cardinality(S))

LEMMA GreatestOf ==
  ASSUME NEW S, IsFiniteSet(S)
  PROVE  S \subseteq Nat /\ S # {} => \E x \in S : \A y \in S : y <= x
<1>0. SUFFICES ASSUME S # {}, S \subseteq Nat PROVE \E x \in S : \A y \in S : y <= x
  OBVIOUS
<1>. DEFINE Rest(x) == {y \in S : x < y}
            bad == {Rest(x) : x \in S}
<1>1. bad \in SUBSET (SUBSET S) /\ bad # {}
  BY <1>0
<1>2. \E s \in bad : \A r \in bad : r \subseteq s => r = s
  <2>. HIDE DEF bad
  <2>. QED
    BY <1>1, SmallestOf
<1>3. PICK x \in S : \A z \in S : Rest(z) \subseteq Rest(x) => Rest(z) = Rest(x)
  <2>1. \A r : r \in bad <=> \E z \in S : r = Rest(z)
    OBVIOUS
  <2>. HIDE DEF bad, Rest
  <2>. QED
    BY <1>2, <2>1
<1>4. ASSUME NEW y \in S, x < y PROVE FALSE
  <2>1. \A z \in Rest(y) : z \in Rest(x)
    BY <1>0, <1>4
  <2>2. y \in Rest(x) /\ y \notin Rest(y)
    BY <1>0, <1>4
  <2>3. Rest(y) \subseteq Rest(x) /\ Rest(y) # Rest(x)
    <3>. HIDE DEF Rest
    <3>. QED
      BY <2>1, <2>2
  <2>. HIDE DEF Rest
  <2>. QED
    BY <1>3, <2>3
<1>. QED
  BY <1>0, <1>4

LEMMA EnumerationExists ==
  ASSUME NEW S, IsFiniteSet(S)
  PROVE  S \subseteq Nat => \E q : Enumerates(q, S)
<1>0. SUFFICES ASSUME S \subseteq Nat PROVE \E q : Enumerates(q, S)
  OBVIOUS
<1>. DEFINE bad == {s \in SUBSET S : ~ \E q : Enumerates(q, s)}
<1>1. SUFFICES ASSUME bad # {} PROVE FALSE
  <2>1. S \in SUBSET S
    OBVIOUS
  <2>. QED
    BY <2>1
<1>2. PICK s \in bad : \A r \in bad : r \subseteq s => r = s
  <2>1. bad \in SUBSET (SUBSET S)
    OBVIOUS
  <2>. HIDE DEF bad
  <2>. QED
    BY <1>1, <2>1, SmallestOf
<1>3. s \subseteq S /\ IsFiniteSet(s) /\ s \subseteq Nat /\ Cardinality(s) \in Nat
  BY <1>0, FS_Subset, FS_CardinalityType
<1>4. s # {}
  <2>1. SUFFICES ASSUME s = {} PROVE FALSE
    OBVIOUS
  <2>2. Cardinality(s) = 0
    BY <2>1, FS_EmptySet
  <2>3. <<>> \in [1..0 -> s] /\ Increasing(<<>>, 0)
    BY DEF Increasing
  <2>4. Enumerates(<<>>, s)
    BY <2>2, <2>3 DEF Enumerates
  <2>. QED
    BY <2>4
<1>5. PICK x \in s : \A y \in s : y <= x
  BY <1>3, <1>4, GreatestOf
<1>. DEFINE r == s \ {x} n == Cardinality(s)
<1>6. Cardinality(r) = n - 1 /\ n \in Nat /\ n - 1 \in Nat
  <2>1. Cardinality(r) = n - 1 /\ n \in Nat
    BY <1>3, <1>5, FS_RemoveElement
  <2>2. n # 0
    BY <1>3, <1>4, FS_EmptySet
  <2>. QED
    BY <2>1, <2>2
<1>7. PICK q : Enumerates(q, r)
  <2>1. r \subseteq s /\ r # s /\ r \in SUBSET S
    BY <1>3, <1>5
  <2>2. r \notin bad
    <3>. HIDE DEF bad, r
    <3>. QED
      BY <1>2, <2>1
  <2>. QED
    BY <2>1, <2>2
<1>. DEFINE p == [m \in 1..n |-> IF m < n THEN q[m] ELSE x]
<1>8. q \in [1..(n - 1) -> r] /\ \A l, m \in 1..(n - 1) : l < m => q[l] < q[m]
  BY <1>6, <1>7 DEF Enumerates, Increasing
<1>9. \A m \in 1..n : m < n => m \in 1..(n - 1) /\ p[m] = q[m] /\ q[m] \in r
  BY <1>6, <1>8
<1>10. \A m \in 1..n : ~(m < n) => m = n /\ p[m] = x
  BY <1>6
<1>11. \A y \in r : y < x /\ y \in s
  BY <1>3, <1>5
<1>12. p \in [1..n -> s]
  <2>1. \A m \in 1..n : (IF m < n THEN q[m] ELSE x) \in s
    <3>. HIDE DEF r
    <3>. QED
      BY <1>5, <1>9, <1>11
  <2>. QED
    BY <2>1
<1>13. ASSUME NEW l \in 1..n, NEW m \in 1..n, l < m PROVE p[l] < p[m]
  <2>. HIDE DEF p, r
  <2>1. l < n /\ l \in 1..(n - 1)
    BY <1>6, <1>13
  <2>2. CASE m < n
    BY <1>8, <1>9, <1>13, <2>1, <2>2
  <2>3. CASE ~(m < n)
    BY <1>9, <1>10, <1>11, <2>1, <2>3
  <2>. QED
    BY <2>2, <2>3
<1>14. Enumerates(p, s)
  <2>. HIDE DEF p
  <2>. QED
    BY <1>12, <1>13 DEF Enumerates, Increasing
<1>. QED
  BY <1>14

\* The loop over a finite set of lines meets each of them.
LEMMA InOrderIs ==
  ASSUME NEW S, IsFiniteSet(S), S \subseteq Nat
  PROVE  /\ Cardinality(S) \in Nat /\ Enumerates(InOrder(S), S) /\ DOMAIN InOrder(S) = 1..Cardinality(S)
         /\ \A x \in S : \E m \in 1..Cardinality(S) : InOrder(S)[m] = x
<1>. DEFINE n == Cardinality(S) q == InOrder(S)
<1>1. n \in Nat
  BY FS_CardinalityType
<1>2. Enumerates(q, S)
  <2>1. \E p : Enumerates(p, S)
    BY EnumerationExists
  <2>2. \E p \in [1..n -> S] : \A l, m \in 1..n : l < m => p[l] < p[m]
    BY <2>1 DEF Enumerates, Increasing
  <2>. QED
    BY <2>2 DEF InOrder, Enumerates, Increasing
<1>. HIDE DEF n, q
<1>3. q \in [1..n -> S] /\ \A l, m \in 1..n : l < m => q[l] < q[m]
  BY <1>2 DEF Enumerates, Increasing, n
<1>4. ASSUME NEW x \in S, \A m \in 1..n : q[m] # x PROVE FALSE
  <2>1. q \in [1..n -> S \ {x}]
    BY <1>3, <1>4
  <2>2. IsFiniteSet(S \ {x}) /\ Cardinality(S \ {x}) = n - 1
    BY FS_RemoveElement DEF n
  <2>3. IsFiniteSet(1..n) /\ Cardinality(1..n) = n
    BY <1>1, FS_Interval
  <2>4. Cardinality(S \ {x}) < Cardinality(1..n)
    BY <1>1, <2>2, <2>3
  <2>5. PICK l, m \in 1..n : l # m /\ q[l] = q[m]
    <3>1. \A A, B : \A f \in [A -> B] :
            IsFiniteSet(A) /\ IsFiniteSet(B) /\ Cardinality(B) < Cardinality(A) => \E l, m \in A : l # m /\ f[l] = f[m]
      BY FS_PigeonHole
    <3>. QED
      BY <2>1, <2>2, <2>3, <2>4, <3>1, Zenon
  <2>6. l < m \/ m < l
    BY <2>5
  <2>7. q[l] \in Nat /\ q[m] \in Nat
    BY <1>3, <2>5
  <2>. QED
    BY <1>3, <2>5, <2>6, <2>7
<1>. QED
  BY <1>1, <1>2, <1>3, <1>4 DEF n, q

LEMMA StreamStarts == TokenStreamInit => AnswerInv
<1>. SUFFICES ASSUME TokenStreamInit PROVE AnswerInv
  OBVIOUS
<1>1. answer \in Seq(Bytes) /\ Len(answer) \in Nat
  BY TokenStreamAssumption, LenProperties DEF TokenStreamInit
<1>2. received = 0 /\ buffer = <<>> /\ tokens = <<>> /\ Len(buffer) = 0 /\ DOMAIN tokens = {}
  BY EmptySeq DEF TokenStreamInit
<1>3. SubSeq(answer, received - Len(buffer) + 1, received) = <<>>
  <2>1. SubSeq(answer, 1, 0) = <<>>
    BY SubSeqEmpty
  <2>2. received - Len(buffer) + 1 = 1
    BY <1>2
  <2>. QED
    BY <1>2, <2>1, <2>2
<1>4. TokenStreamTypeOK
  <2>1. /\ openai \in BOOLEAN /\ answer \in Answers /\ received \in 0..Len(answer)
        /\ Len(buffer) <= received /\ source \in {"open", "ended", "failed"}
    BY <1>1, <1>2 DEF TokenStreamInit
  <2>2. buffer \in Seq(Bytes) /\ tokens \in Seq(1..received)
    BY <1>2, EmptySeq
  <2>3. buffer = SubSeq(answer, received - Len(buffer) + 1, received)
    BY <1>2, <1>3
  <2>. QED
    BY <2>1, <2>2, <2>3 DEF TokenStreamTypeOK
<1>5. Worked = 0
  <2>1. received = 0 /\ Len(buffer) = 0
    BY <1>2
  <2>. QED
    BY <2>1 DEF Worked
<1>6. Said(received) = {}
  BY <1>2 DEF Said
<1>. QED
  BY <1>2, <1>4, <1>5, <1>6 DEF AnswerInv

\* A chunk that arrives.
LEMMA ReceiveKeeps ==
  ASSUME AnswerInv, NEW n \in 1..Len(answer), Receive(n)
  PROVE  AnswerInv'
<1>0. /\ TokenStreamTypeOK /\ Len(answer) \in Nat /\ received \in Nat /\ received <= Len(answer) /\ Len(buffer) \in Nat
      /\ Worked \in 0..received /\ received = Worked + Len(buffer)
      /\ answer \in Seq(Bytes) /\ buffer \in Seq(Bytes) /\ DOMAIN answer = 1..Len(answer)
      /\ \A i \in 1..Len(answer) : answer[i] \in Bytes
      /\ \A i \in 1..Len(buffer) : buffer[i] = answer[Worked + i]
  BY BufferIsAnswer, TokenStreamAssumption DEF AnswerInv, TokenStreamTypeOK
<1>. DEFINE chunk == SubSeq(answer, received + 1, received + n)
<1>1. /\ source = "open" /\ received + n <= Len(answer) /\ buffer' = buffer \o chunk /\ received' = received + n
      /\ openai' = openai /\ answer' = answer /\ tokens' = tokens /\ source' = source
  BY DEF Receive
<1>2. /\ chunk \in Seq(Bytes) /\ Len(chunk) = n
      /\ \A i \in 1..n : chunk[i] = answer[received + i]
  <2>1. received + 1 \in Int /\ received + n \in Int /\ n \in Nat /\ \A i \in (received + 1)..(received + n) : answer[i] \in Bytes
    BY <1>0, <1>1
  <2>2. /\ chunk \in Seq(Bytes)
        /\ Len(chunk) = IF received + 1 <= received + n THEN (received + n) - (received + 1) + 1 ELSE 0
        /\ \A i \in 1..((received + n) - (received + 1) + 1) : chunk[i] = answer[(received + 1) + i - 1]
    BY <2>1, SubSeqProperties
  <2>3. \A i \in 1..n : i \in 1..((received + n) - (received + 1) + 1) /\ (received + 1) + i - 1 = received + i
    BY <1>0
  <2>. HIDE DEF chunk
  <2>4. Len(chunk) = n
    BY <1>0, <2>1, <2>2
  <2>. QED
    BY <2>2, <2>3, <2>4
<1>. HIDE DEF chunk
<1>3. /\ buffer' \in Seq(Bytes) /\ Len(buffer') = Len(buffer) + n
      /\ \A i \in 1..Len(buffer) + n : buffer'[i] = IF i <= Len(buffer) THEN buffer[i] ELSE chunk[i - Len(buffer)]
  BY <1>0, <1>1, <1>2, ConcatProperties
<1>4. Worked' = Worked
  <2>1. Worked' = received' - Len(buffer')
    BY DEF Worked
  <2>. QED
    BY <1>0, <1>1, <1>3, <2>1
<1>5. \A i \in 1..Len(buffer') : buffer'[i] = answer[Worked + i]
  <2>1. ASSUME NEW i \in 1..Len(buffer') PROVE buffer'[i] = answer[Worked + i]
    <3>1. i \in 1..Len(buffer) + n
      BY <1>3
    <3>2. CASE i <= Len(buffer)
      BY <1>0, <1>3, <3>1, <3>2
    <3>3. CASE ~(i <= Len(buffer))
      <4>1. i - Len(buffer) \in 1..n /\ received + (i - Len(buffer)) = Worked + i
        BY <1>0, <3>1, <3>3
      <4>. QED
        BY <1>2, <1>3, <3>1, <3>3, <4>1
    <3>. QED
      BY <3>2, <3>3
  <2>. QED
    BY <2>1
<1>6. buffer' = SubSeq(answer, received' - Len(buffer') + 1, received')
  <2>. DEFINE s == SubSeq(answer, Worked + 1, received')
  <2>1. received' \in 0..Len(answer) /\ received' = Worked + Len(buffer') /\ received' - Len(buffer') = Worked
    <3>1. /\ received + n \in 0..Len(answer) /\ received + n = Worked + (Len(buffer) + n)
          /\ (received + n) - (Len(buffer) + n) = Worked
      BY <1>0, <1>1
    <3>2. received' = received + n /\ Len(buffer') = Len(buffer) + n
      BY <1>1, <1>3
    <3>. QED
      BY <3>1, <3>2
  <2>2. \A i \in (Worked + 1)..received' : answer[i] \in Bytes
    BY <1>0, <2>1
  <2>3. /\ s \in Seq(Bytes) /\ Len(s) = IF Worked + 1 <= received' THEN received' - (Worked + 1) + 1 ELSE 0
        /\ \A i \in 1..(received' - (Worked + 1) + 1) : s[i] = answer[(Worked + 1) + i - 1]
    BY <1>0, <2>1, <2>2, SubSeqProperties
  <2>. HIDE DEF s
  <2>4. Len(s) = Len(buffer')
    BY <1>0, <1>3, <2>1, <2>3
  <2>5. \A i \in 1..Len(buffer') : i \in 1..(received' - (Worked + 1) + 1) /\ (Worked + 1) + i - 1 = Worked + i
    BY <1>0, <1>3, <2>1
  <2>6. \A i \in 1..Len(buffer') : buffer'[i] = s[i]
    BY <1>5, <2>3, <2>5
  <2>7. buffer' = s
    BY <1>3, <2>3, <2>4, <2>6, SeqEqual
  <2>. QED
    BY <2>1, <2>7 DEF s
<1>7. TokenStreamTypeOK'
  <2>1. tokens' \in Seq(1..received')
    <3>1. tokens \in Seq(1..received) /\ 1..received \subseteq 1..received'
      BY <1>0, <1>1 DEF TokenStreamTypeOK
    <3>. QED
      BY <1>1, <3>1, SeqMonotonic
  <2>2. received' \in 0..Len(answer') /\ Len(buffer') <= received'
    BY <1>0, <1>1, <1>3
  <2>3. openai' \in BOOLEAN /\ answer' \in Answers /\ source' \in {"open", "ended", "failed"}
    BY <1>0, <1>1 DEF TokenStreamTypeOK
  <2>. QED
    BY <1>1, <1>3, <1>6, <2>1, <2>2, <2>3 DEF TokenStreamTypeOK
<1>8. Worked' = 0 \/ IsBlank(answer', Worked')
  BY <1>1, <1>4 DEF AnswerInv
<1>9. \A i \in 1..Worked : /\ Counts(i, received') <=> Counts(i, received)
                           /\ i \in Said(received') <=> i \in Said(received)
  <2>1. received' \in Nat /\ Worked <= received' /\ Worked <= received
    BY <1>0, <1>1
  <2>. QED
    BY <1>0, <2>1, WorkedIsSettled DEF AnswerInv
<1>10. \A i, m : Counts(i, m)' <=> Counts(i, m)
  BY <1>1 DEF Counts
<1>11. \A m : Said(m)' = Said(m)
  BY <1>1, <1>10 DEF Said
<1>12. \A i \in Said(received) : i \in Nat /\ 1 <= i
  BY <1>0 DEF Said
<1>13. \A i \in Said(received') : i \in Nat /\ 1 <= i
  BY <1>0, <1>1 DEF Said
<1>. QED
  BY <1>0, <1>1, <1>4, <1>7, <1>8, <1>9, <1>10, <1>11, <1>12, <1>13 DEF AnswerInv

\* The first event, worked off.
LEMMA DrainKeeps ==
  ASSUME AnswerInv, Drain
  PROVE  AnswerInv'
<1>. DEFINE e == EventLength(buffer)
            L == TokenLines(Event)
            q == InOrder(L)
            c == Cardinality(L)
<1>0. /\ TokenStreamTypeOK /\ Len(answer) \in Nat /\ received \in Nat /\ received <= Len(answer) /\ Len(buffer) \in Nat
      /\ Worked \in 0..received /\ received = Worked + Len(buffer)
      /\ answer \in Seq(Bytes) /\ buffer \in Seq(Bytes) /\ DOMAIN answer = 1..Len(answer)
      /\ \A i \in 1..Len(answer) : answer[i] \in Bytes
      /\ \A i \in 1..Len(buffer) : buffer[i] = answer[Worked + i]
      /\ Worked = 0 \/ IsBlank(answer, Worked)
      /\ Terminators(buffer) # {} /\ source = "open"
  BY BufferIsAnswer, TokenStreamAssumption DEF AnswerInv, TokenStreamTypeOK, Drain
<1>1. e \in 1..Len(buffer) /\ IsBlank(answer, Worked + e)
  BY <1>0, EventEnds
<1>2. /\ buffer' = SubSeq(buffer, e + 1, Len(buffer)) /\ received' = received
      /\ openai' = openai /\ answer' = answer
      /\ tokens' = tokens \o [n \in DOMAIN q |-> Worked + q[n]]
      /\ source' = IF \E i \in DataLines(Event) : IsDone(Event, i) THEN "ended" ELSE "open"
  BY DEF Drain, Yield, Event, Worked
<1>3. /\ Event \in Seq(Bytes) /\ DOMAIN Event = 1..e
      /\ \A i \in 1..e : Event[i] = answer[Worked + i]
  BY <1>0, EventIsAnswer
<1>4. \A i \in 1..e : /\ i \in DataLines(Event) <=> Counts(Worked + i, received)
                      /\ i \in DataLines(Event) => i < e /\ Event[i + 1] = answer[Worked + i + 1]
  BY <1>0, EventCounts
<1>5. DataLines(Event) \subseteq 1..e /\ L \subseteq 1..e /\ L \subseteq Nat /\ IsFiniteSet(L)
  <2>1. DataLines(Event) \subseteq 1..e /\ L \subseteq DataLines(Event)
    BY <1>3 DEF DataLines, TokenLines
  <2>2. IsFiniteSet(1..e)
    BY <1>0, <1>1, FS_Interval
  <2>3. 1..e \subseteq Nat
    BY <1>1
  <2>. HIDE DEF L, e
  <2>4. L \subseteq 1..e
    BY <2>1
  <2>. QED
    BY <2>1, <2>2, <2>3, <2>4, FS_Subset
<1>. HIDE DEF e
<1>6. /\ c \in Nat /\ q \in [1..c -> L] /\ DOMAIN q = 1..c
      /\ \A l, m \in 1..c : l < m => q[l] < q[m]
      /\ \A x \in L : \E m \in 1..c : q[m] = x
  <2>. HIDE DEF L
  <2>. QED
    BY <1>5, InOrderIs DEF Enumerates, Increasing
<1>7. \A i \in 1..e : i \in L <=> /\ i \in DataLines(Event) /\ Event[i + 1] \in Tokens
                                  /\ \A k \in DataLines(Event) : k < i => ~IsDone(Event, k)
  BY DEF TokenLines
<1>. HIDE DEF L, q, c
\* The lines whose tokens are yielded are those the event has to say.
<1>8. ASSUME NEW i \in 1..e PROVE i \in L <=> Worked + i \in Said(received)
  <2>1. Worked + i \in 1..received
    BY <1>0, <1>1
  <2>2. ASSUME i \in L PROVE Worked + i \in Said(received)
    <3>1. i \in DataLines(Event) /\ Counts(Worked + i, received) /\ answer[Worked + i + 1] \in Tokens
      BY <1>4, <1>7, <2>2
    <3>2. ASSUME openai, NEW k \in 1..(Worked + i), Counts(k, received) PROVE answer[k + 1] # Done
      <4>1. CASE k <= Worked
        <5>1. k \in 1..Worked
          BY <1>0, <4>1
        <5>. QED
          BY <1>0, <3>2, <5>1 DEF AnswerInv
      <4>2. CASE k = Worked + i
        BY <3>1, <4>2, BytesDiffer DEF Distinct
      <4>3. CASE ~(k <= Worked) /\ k # Worked + i
        <5>1. k - Worked \in 1..e /\ k - Worked < i /\ Worked + (k - Worked) = k
          BY <1>0, <1>1, <4>3
        <5>2. k - Worked \in DataLines(Event) /\ Event[(k - Worked) + 1] = answer[Worked + (k - Worked) + 1]
          BY <1>4, <3>2, <5>1
        <5>3. ~IsDone(Event, k - Worked)
          BY <1>7, <2>2, <5>1, <5>2
        <5>. QED
          BY <3>2, <5>1, <5>2, <5>3 DEF IsDone
      <4>. QED
        BY <4>1, <4>2, <4>3
    <3>. QED
      BY <2>1, <3>1, <3>2 DEF Said
  <2>3. ASSUME Worked + i \in Said(received) PROVE i \in L
    <3>1. Counts(Worked + i, received) /\ answer[Worked + i + 1] \in Tokens
      BY <2>3 DEF Said
    <3>2. i \in DataLines(Event) /\ Event[i + 1] \in Tokens
      BY <1>4, <3>1
    <3>3. ASSUME NEW k \in DataLines(Event), k < i, IsDone(Event, k) PROVE FALSE
      <4>1. k \in 1..e /\ Worked + k \in 1..(Worked + i)
        BY <1>0, <1>5, <3>3
      <4>2. openai /\ Counts(Worked + k, received) /\ answer[Worked + k + 1] = Done
        BY <1>4, <3>3, <4>1 DEF IsDone
      <4>. QED
        BY <2>3, <4>1, <4>2 DEF Said
    <3>. QED
      BY <1>7, <3>2, <3>3
  <2>. QED
    BY <2>2, <2>3
\* The buffer.
<1>9. /\ buffer' \in Seq(Bytes) /\ Len(buffer') = Len(buffer) - e
      /\ \A i \in 1..Len(buffer) - e : buffer'[i] = buffer[e + i]
  <2>1. e + 1 \in Int /\ Len(buffer) \in Int /\ \A i \in (e + 1)..Len(buffer) : buffer[i] \in Bytes
    <3>1. \A i \in (e + 1)..Len(buffer) : i \in 1..Len(buffer)
      BY <1>0, <1>1
    <3>. QED
      BY <1>0, <1>1, <3>1, ElementOfSeq
  <2>2. /\ buffer' \in Seq(Bytes)
        /\ Len(buffer') = IF e + 1 <= Len(buffer) THEN Len(buffer) - (e + 1) + 1 ELSE 0
        /\ \A i \in 1..(Len(buffer) - (e + 1) + 1) : buffer'[i] = buffer[(e + 1) + i - 1]
    BY <1>2, <2>1, SubSeqProperties
  <2>3. \A i \in 1..Len(buffer) - e : i \in 1..(Len(buffer) - (e + 1) + 1) /\ (e + 1) + i - 1 = e + i
    BY <1>0, <1>1
  <2>4. Len(buffer') = Len(buffer) - e
    BY <1>0, <1>1, <2>2
  <2>. QED
    BY <2>2, <2>3, <2>4
<1>10. Worked' = Worked + e /\ Worked + e \in 0..received
  <2>1. Worked' = received' - Len(buffer')
    BY DEF Worked
  <2>2. received - (Len(buffer) - e) = Worked + e /\ Worked + e \in 0..received
    BY <1>0, <1>1
  <2>. QED
    BY <1>2, <1>9, <2>1, <2>2
<1>11. buffer' = SubSeq(answer, received' - Len(buffer') + 1, received')
  <2>. DEFINE s == SubSeq(answer, Worked + e + 1, received)
  <2>1. \A i \in (Worked + e + 1)..received : answer[i] \in Bytes
    BY <1>0, <1>1
  <2>2. /\ s \in Seq(Bytes) /\ Len(s) = IF Worked + e + 1 <= received THEN received - (Worked + e + 1) + 1 ELSE 0
        /\ \A i \in 1..(received - (Worked + e + 1) + 1) : s[i] = answer[(Worked + e + 1) + i - 1]
    BY <1>0, <1>1, <2>1, SubSeqProperties
  <2>. HIDE DEF s
  <2>3. Len(s) = Len(buffer) - e
    BY <1>0, <1>1, <2>2
  <2>4. \A i \in 1..Len(buffer) - e : /\ i \in 1..(received - (Worked + e + 1) + 1) /\ (Worked + e + 1) + i - 1 = Worked + (e + i)
                                      /\ e + i \in 1..Len(buffer)
    BY <1>0, <1>1
  <2>5. \A i \in 1..Len(buffer) - e : buffer'[i] = s[i]
    <3>1. ASSUME NEW i \in 1..Len(buffer) - e PROVE buffer'[i] = s[i]
      <4>1. buffer'[i] = answer[Worked + (e + i)]
        BY <1>0, <1>9, <2>4
      <4>2. s[i] = answer[Worked + (e + i)]
        BY <2>2, <2>4
      <4>. QED
        BY <4>1, <4>2
    <3>. QED
      BY <3>1
  <2>6. buffer' = s
    BY <1>9, <2>2, <2>3, <2>5, SeqEqual
  <2>7. received' - Len(buffer') + 1 = Worked + e + 1
    <3>1. received - (Len(buffer) - e) + 1 = Worked + e + 1
      BY <1>0, <1>1
    <3>. QED
      BY <1>2, <1>9, <3>1
  <2>. QED
    BY <1>2, <2>6, <2>7 DEF s
\* The tokens.
<1>. DEFINE new == [n \in 1..c |-> Worked + q[n]]
<1>12. \A n \in 1..c : /\ q[n] \in L /\ q[n] \in 1..e /\ new[n] = Worked + q[n]
                       /\ new[n] \in 1..received /\ Worked < new[n] /\ new[n] <= Worked + e
  <2>1. \A n \in 1..c : q[n] \in L /\ q[n] \in 1..e
    BY <1>5, <1>6
  <2>2. \A x \in 1..e : Worked + x \in 1..received /\ Worked < Worked + x /\ Worked + x <= Worked + e
    BY <1>0, <1>1
  <2>3. \A n \in 1..c : new[n] = Worked + q[n]
    OBVIOUS
  <2>. HIDE DEF new
  <2>. QED
    BY <2>1, <2>2, <2>3
<1>13. new \in Seq(1..received) /\ Len(new) = c
  <2>1. new \in [1..c -> 1..received]
    BY <1>12
  <2>. HIDE DEF new
  <2>2. new \in Seq(1..received)
    BY <1>6, <2>1, SeqDef
  <2>3. DOMAIN new = 1..c /\ DOMAIN new = 1..Len(new) /\ Len(new) \in Nat
    BY <2>1, <2>2, LenProperties
  <2>. QED
    BY <1>6, <2>2, <2>3
<1>14. tokens' = tokens \o new /\ tokens \in Seq(1..received)
  BY <1>0, <1>2, <1>6 DEF TokenStreamTypeOK
<1>. HIDE DEF new
<1>. DEFINE t == Len(tokens)
<1>15. /\ tokens' \in Seq(1..received) /\ Len(tokens') = t + c /\ t \in Nat
       /\ DOMAIN tokens' = 1..(t + c) /\ DOMAIN tokens = 1..t
       /\ \A n \in 1..(t + c) : tokens'[n] = IF n <= t THEN tokens[n] ELSE new[n - t]
  <2>1. /\ tokens' \in Seq(1..received) /\ Len(tokens') = t + Len(new)
        /\ \A n \in 1..(t + Len(new)) : tokens'[n] = IF n <= t THEN tokens[n] ELSE new[n - t]
    BY <1>13, <1>14, ConcatProperties
  <2>2. Len(tokens') = t + c /\ \A n \in 1..(t + c) : tokens'[n] = IF n <= t THEN tokens[n] ELSE new[n - t]
    BY <1>13, <2>1
  <2>. QED
    BY <1>14, <2>1, <2>2, LenProperties
<1>. HIDE DEF t
<1>16. \A n \in 1..(t + c) : \/ n \in 1..t /\ n \in DOMAIN tokens /\ tokens'[n] = tokens[n]
                             \/ t < n /\ n - t \in 1..c /\ tokens'[n] = new[n - t]
  BY <1>6, <1>15
<1>17. TokenStreamTypeOK'
  <2>1. received' \in 0..Len(answer') /\ Len(buffer') <= received'
    <3>1. Len(buffer) - e <= received /\ received \in 0..Len(answer)
      BY <1>0, <1>1
    <3>. QED
      BY <1>2, <1>9, <3>1
  <2>2. openai' \in BOOLEAN /\ answer' \in Answers /\ source' \in {"open", "ended", "failed"}
    BY <1>0, <1>2 DEF TokenStreamTypeOK
  <2>3. tokens' \in Seq(1..received') /\ buffer' \in Seq(Bytes)
    BY <1>2, <1>9, <1>15
  <2>4. buffer' = SubSeq(answer', received' - Len(buffer') + 1, received')
    BY <1>2, <1>11
  <2>. QED
    BY <2>1, <2>2, <2>3, <2>4 DEF TokenStreamTypeOK
<1>18. Worked' = 0 \/ IsBlank(answer', Worked')
  <2>1. answer' = answer /\ Worked' = Worked + e
    BY <1>2, <1>10
  <2>2. IsBlank(answer, Worked')
    BY <1>1, <2>1
  <2>. QED
    BY <2>1, <2>2
<1>19. \A n \in DOMAIN tokens : tokens[n] \in Said(received) /\ tokens[n] \in 1..received /\ tokens[n] <= Worked
  <2>1. \A n \in 1..Len(tokens) : tokens[n] \in 1..received
    BY <1>14, ElementOfSeq
  <2>2. DOMAIN tokens = 1..Len(tokens)
    BY <1>14, LenProperties
  <2>3. \A n \in DOMAIN tokens : tokens[n] \in Said(received) /\ tokens[n] <= Worked
    BY DEF AnswerInv
  <2>. QED
    BY <2>1, <2>2, <2>3
<1>20. ASSUME NEW m \in 1..(t + c), NEW n \in 1..(t + c), m < n PROVE tokens'[m] < tokens'[n]
  <2>1. CASE n \in 1..t /\ n \in DOMAIN tokens /\ tokens'[n] = tokens[n]
    <3>1. m \in 1..t /\ m \in DOMAIN tokens /\ tokens'[m] = tokens[m]
      BY <1>15, <1>20, <2>1
    <3>. QED
      BY <1>20, <2>1, <3>1 DEF AnswerInv
  <2>2. CASE t < n /\ n - t \in 1..c /\ tokens'[n] = new[n - t]
    <3>1. CASE m \in 1..t /\ m \in DOMAIN tokens /\ tokens'[m] = tokens[m]
      BY <1>0, <1>12, <1>19, <2>2, <3>1
    <3>2. CASE t < m /\ m - t \in 1..c /\ tokens'[m] = new[m - t]
      <4>1. m - t < n - t
        BY <1>15, <1>20
      <4>2. q[m - t] < q[n - t] /\ q[m - t] \in 1..e /\ q[n - t] \in 1..e
        BY <1>6, <1>12, <2>2, <3>2, <4>1
      <4>3. new[m - t] = Worked + q[m - t] /\ new[n - t] = Worked + q[n - t]
        BY <1>12, <2>2, <3>2
      <4>4. Worked + q[m - t] < Worked + q[n - t]
        BY <1>0, <4>2
      <4>. QED
        BY <2>2, <3>2, <4>3, <4>4
    <3>. QED
      BY <1>16, <3>1, <3>2
  <2>. QED
    BY <1>16, <2>1, <2>2
<1>21. ASSUME NEW n \in 1..(t + c) PROVE tokens'[n] \in Said(received) /\ tokens'[n] <= Worked + e
  <2>1. CASE n \in 1..t /\ n \in DOMAIN tokens /\ tokens'[n] = tokens[n]
    <3>1. Worked <= Worked + e
      BY <1>0, <1>1
    <3>2. tokens[n] \in Int /\ tokens[n] <= Worked /\ tokens[n] \in Said(received)
      BY <1>19, <2>1
    <3>. QED
      BY <1>0, <1>1, <2>1, <3>1, <3>2
  <2>2. CASE t < n /\ n - t \in 1..c /\ tokens'[n] = new[n - t]
    <3>1. q[n - t] \in L /\ q[n - t] \in 1..e /\ new[n - t] = Worked + q[n - t] /\ new[n - t] <= Worked + e
      BY <1>12, <2>2
    <3>2. Worked + q[n - t] \in Said(received)
      BY <1>8, <3>1
    <3>. QED
      BY <2>2, <3>1, <3>2
  <2>. QED
    BY <1>16, <2>1, <2>2
<1>22. ASSUME NEW i \in Said(received), i <= Worked + e PROVE \E n \in 1..(t + c) : tokens'[n] = i
  <2>0. i \in 1..received
    BY <1>22 DEF Said
  <2>1. CASE i <= Worked
    <3>1. PICK n \in DOMAIN tokens : tokens[n] = i
      BY <1>22, <2>1 DEF AnswerInv
    <3>2. n \in 1..(t + c) /\ n <= t
      BY <1>6, <1>15
    <3>. QED
      BY <1>15, <3>1, <3>2
  <2>2. CASE ~(i <= Worked)
    <3>1. i - Worked \in 1..e /\ Worked + (i - Worked) = i
      BY <1>0, <1>1, <1>22, <2>0, <2>2
    <3>2. i - Worked \in L
      BY <1>8, <1>22, <3>1
    <3>3. PICK m \in 1..c : q[m] = i - Worked
      BY <1>6, <3>2
    <3>4. new[m] = i
      BY <1>12, <3>1, <3>3
    <3>5. t + m \in 1..(t + c) /\ ~(t + m <= t) /\ (t + m) - t = m
      BY <1>6, <1>15
    <3>. QED
      BY <1>15, <3>4, <3>5
  <2>. QED
    BY <2>1, <2>2
<1>23. ASSUME source' = "open", openai, NEW k \in 1..(Worked + e), Counts(k, received) PROVE answer[k + 1] # Done
  <2>1. CASE k <= Worked
    <3>1. k \in 1..Worked
      BY <1>0, <2>1
    <3>. QED
      BY <1>0, <1>23, <3>1 DEF AnswerInv
  <2>2. CASE ~(k <= Worked)
    <3>1. k - Worked \in 1..e /\ Worked + (k - Worked) = k
      BY <1>0, <1>1, <2>2
    <3>2. k - Worked \in DataLines(Event) /\ Event[(k - Worked) + 1] = answer[Worked + (k - Worked) + 1]
      BY <1>4, <1>23, <3>1
    <3>3. ~IsDone(Event, k - Worked)
      BY <1>2, <1>23, <3>2
    <3>. QED
      BY <1>23, <3>1, <3>2, <3>3 DEF IsDone
  <2>. QED
    BY <2>1, <2>2
<1>24. \A i, m : Counts(i, m)' <=> Counts(i, m)
  BY <1>2 DEF Counts
<1>25. \A m : Said(m)' = Said(m)
  BY <1>2, <1>24 DEF Said
<1>. QED
  BY <1>2, <1>10, <1>15, <1>17, <1>18, <1>20, <1>21, <1>22, <1>23, <1>24, <1>25 DEF AnswerInv

\* The stream ends, or nothing happens.
LEMMA EndKeeps ==
  ASSUME AnswerInv, Close \/ Break \/ UNCHANGED tokenVars
  PROVE  AnswerInv'
<1>1. /\ openai' = openai /\ answer' = answer /\ received' = received /\ buffer' = buffer /\ tokens' = tokens
      /\ source' \in {source, "ended", "failed"}
  BY DEF Close, Break, tokenVars
<1>2. \A i, m : Counts(i, m)' <=> Counts(i, m)
  BY <1>1 DEF Counts
<1>3. \A m : Said(m)' = Said(m)
  BY <1>1, <1>2 DEF Said
<1>4. Worked' = Worked
  BY <1>1 DEF Worked
<1>5. TokenStreamTypeOK'
  BY <1>1 DEF AnswerInv, TokenStreamTypeOK
<1>. QED
  BY <1>1, <1>2, <1>3, <1>4, <1>5 DEF AnswerInv

LEMMA StreamNextKeeps ==
  ASSUME AnswerInv, [TokenStreamNext]_tokenVars
  PROVE  AnswerInv'
  BY ReceiveKeeps, DrainKeeps, EndKeeps DEF TokenStreamNext

LEMMA StreamInvariant == TokenStreamSpec => []AnswerInv
  BY StreamStarts, StreamNextKeeps, PTL DEF TokenStreamSpec

\* The stream keeps its place in the answer: its buffer is the end of what has arrived
\* (find_event_terminator and the drain of the buffer in anthropic.rs and openrouter.rs).
THEOREM TokenStreamTypeCorrect == TokenStreamSpec => []TokenStreamTypeOK
<1>1. AnswerInv => TokenStreamTypeOK
  BY DEF AnswerInv
<1>. QED
  BY <1>1, StreamInvariant, PTL

\* However an answer of any length is cut into chunks, and wherever it breaks off, the
\* tokens yielded are those of its whole events, once each and in order
\* (anthropic_sse_to_tokens, openai_sse_to_tokens).
THEOREM TokensAlwaysFollow == TokenStreamSpec => []TokensFollowTheAnswer
<1>1. ASSUME AnswerInv PROVE TokensFollowTheAnswer
  <2>1. ASSUME NEW i \in Said(received)
        PROVE  \/ \E n \in DOMAIN tokens : tokens[n] = i
               \/ Terminators(buffer) # {} /\ \A n \in DOMAIN tokens : tokens[n] < i
    <3>1. /\ i \in Nat /\ Worked \in Nat /\ Counts(i, received) /\ TokenStreamTypeOK
          /\ \A n \in DOMAIN tokens : tokens[n] \in Nat /\ tokens[n] <= Worked
      <4>1. received \in Nat /\ Worked \in Nat /\ TokenStreamTypeOK
        BY <1>1, BufferIsAnswer DEF AnswerInv
      <4>2. i \in 1..received /\ Counts(i, received) /\ \A k \in Said(received) : k \in 1..received
        BY <2>1 DEF Said
      <4>3. \A n \in DOMAIN tokens : tokens[n] \in Said(received) /\ tokens[n] <= Worked
        BY <1>1 DEF AnswerInv
      <4>4. \A k \in 1..received : k \in Nat
        BY <4>1
      <4>5. \A n \in DOMAIN tokens : tokens[n] \in Nat
        BY <4>2, <4>3, <4>4
      <4>. QED
        BY <4>1, <4>2, <4>3, <4>4, <4>5
    <3>2. CASE i <= Worked
      BY <1>1, <2>1, <3>2 DEF AnswerInv
    <3>3. CASE ~(i <= Worked)
      <4>1. Worked < i
        BY <3>1, <3>3
      <4>2. Terminators(buffer) # {}
        BY <3>1, <4>1, RestIsSilent
      <4>. QED
        BY <3>1, <4>1, <4>2
    <3>. QED
      BY <3>2, <3>3
  <2>. QED
    BY <1>1, <2>1 DEF AnswerInv, TokensFollowTheAnswer
<1>. QED
  BY <1>1, StreamInvariant, PTL

-----------------------------------------------------------------------------
(* All parts.  A behaviour of the library is one of each of its parts:     *)
(* what one part does leaves the others as they are.                       *)

LEMMA PartsStart ==
  ASSUME LibraryInit
  PROVE  /\ ConnectorSyncInit /\ ArchiveInit /\ FoldersInit /\ WikiStoreInit /\ WikiAgentInit
         /\ ChatLimiterInit /\ ChatRetrievalInit /\ TokenStreamInit /\ WikiLintInit
  BY DEF LibraryInit

LEMMA PartsMove ==
  ASSUME [LibraryNext]_libraryVars
  PROVE  /\ [ConnectorSyncNext]_syncVars /\ [ArchiveNext]_archiveVars /\ [FoldersNext]_folderVars
         /\ [WikiStoreNext]_wikiStoreVars /\ [WikiAgentNext]_agentVars /\ [ChatLimiterNext]_limiterVars
         /\ [ChatRetrievalNext]_chatVars /\ [TokenStreamNext]_tokenVars /\ [WikiLintNext]_lintVars
<1>1. CASE UNCHANGED libraryVars
  BY <1>1 DEF libraryVars
<1>2. CASE LibraryNext
  BY <1>2 DEF LibraryNext
<1>. QED
  BY <1>1, <1>2

LEMMA PartsRun == LibrarySpec =>
  /\ ConnectorSyncSpec /\ ArchiveSpec /\ FoldersSpec /\ WikiStoreSpec /\ WikiAgentSpec
  /\ ChatLimiterSpec /\ ChatRetrievalSpec /\ TokenStreamSpec /\ WikiLintSpec
  BY PartsStart, PartsMove, PTL
  DEF LibrarySpec, ConnectorSyncSpec, ArchiveSpec, FoldersSpec, WikiStoreSpec, WikiAgentSpec, ChatLimiterSpec,
      ChatRetrievalSpec, TokenStreamSpec, WikiLintSpec

\* Together, too, the parts keep their state in the shape the code gives it (the rows, the
\* files and the buffers of all the sources the modules name).
THEOREM LibraryTypeCorrect == LibrarySpec => []LibraryTypeOK
<1>1. LibrarySpec =>
        /\ []SyncTypeOK /\ []ArchiveTypeOK /\ []FoldersTypeOK /\ []WikiStoreTypeOK /\ []WikiAgentTypeOK
        /\ []ChatLimiterTypeOK /\ []ChatRetrievalTypeOK /\ []TokenStreamTypeOK /\ []WikiLintTypeOK
  BY PartsRun, ConnectorsTypeCorrect, ArchiveTypeCorrect, FoldersTypeCorrect, WikiStoreTypeCorrect,
     WikiAgentTypeCorrect, ChatLimiterTypeCorrect, ChatTypeCorrect, TokenStreamTypeCorrect, WikiLintTypeCorrect, PTL
<1>2. /\ SyncTypeOK /\ ArchiveTypeOK /\ FoldersTypeOK /\ WikiStoreTypeOK /\ WikiAgentTypeOK
      /\ ChatLimiterTypeOK /\ ChatRetrievalTypeOK /\ TokenStreamTypeOK /\ WikiLintTypeOK
      => LibraryTypeOK
  BY DEF LibraryTypeOK
<1>. QED
  BY <1>1, <1>2, PTL
=============================================================================
