------------------------------ MODULE WikiLint ------------------------------
(***************************************************************************)
(* The wiki linter (qpedia-lint/src/lib.rs, run by the lint job,           *)
(* qpedia-ingest/src/handlers/lint.rs).                                    *)
(*                                                                         *)
(* A run lists the pages, reads them one by one, looks the sources they    *)
(* name up one by one, asks the LLM about the pages that share a tag and   *)
(* commits its report, without a lock around the whole: people and jobs    *)
(* write and delete pages, and sources are deleted, between any two of     *)
(* these steps.                                                            *)
(*                                                                         *)
(* A page is reduced to its links, source ids and tags.  Near-duplicates   *)
(* come from the index by one query and are left out, as is the text the   *)
(* LLM sees and says.                                                      *)
(***************************************************************************)
EXTENDS Integers, FiniteSets

CONSTANTS
  LintPages,     \* paths, those of system pages among them
  Index,         \* index.md
  SystemPages,   \* SKIP_FROM_ORPHAN_CHECK
  LintTexts,     \* the texts of a page: [links : SUBSET LintPages, ids : SUBSET LintSources, tags : SUBSET Tags]
  LintSources,   \* source ids
  Tags,
  MAX_CLUSTERS   \* QPEDIA_LINT_MAX_CLUSTERS

ASSUME WikiLintAssumption ==
  /\ Index \in SystemPages /\ SystemPages \subseteq LintPages /\ MAX_CLUSTERS \in Nat
  /\ LintTexts \in [LintPages -> SUBSET [links : SUBSET LintPages, ids : SUBSET LintSources, tags : SUBSET Tags]]

VARIABLES
  disk,     \* the text of each page, as a set; {} for a page that is not there
  rows,     \* the sources that have a row
  lint,     \* the lint that runs, as a set
  touched   \* history: pages and sources written or deleted since the run began

lintVars == <<disk, rows, lint, touched>>

OnDisk == {p \in LintPages : disk[p] # {}}

Lints == [at : {"pages", "rows", "clusters", "commit"}, pages : SUBSET LintPages, left : SUBSET LintPages,
          read : [LintPages -> SUBSET UNION {LintTexts[p] : p \in LintPages}], unasked : SUBSET LintSources,
          stale : SUBSET LintSources, tags : SUBSET Tags, contradictions : SUBSET Tags]

WikiLintTypeOK ==
  /\ \A p \in LintPages : disk[p] \subseteq LintTexts[p] /\ (\A s, t \in disk[p] : s = t)
  /\ rows \subseteq LintSources
  /\ lint \subseteq Lints /\ (\A l, m \in lint : l = m)
  /\ touched \subseteq LintPages \cup LintSources
  /\ \A l \in lint : Cardinality(l.tags) <= MAX_CLUSTERS /\ l.contradictions \subseteq l.tags

WikiLintInit ==
  /\ disk \in [LintPages -> {{}} \cup {{t} : t \in UNION {LintTexts[p] : p \in LintPages}}]
  /\ \A p \in LintPages : disk[p] \subseteq LintTexts[p]
  /\ rows = LintSources /\ lint = {} /\ touched = {}

-----------------------------------------------------------------------------
(* People and jobs. *)

PutPage(p, text) ==
  /\ disk[p] # {text} /\ disk' = [disk EXCEPT ![p] = {text}]
  /\ touched' = IF lint = {} THEN {} ELSE touched \cup {p}
  /\ UNCHANGED <<rows, lint>>

DropPage(p) ==
  /\ disk[p] # {} /\ disk' = [disk EXCEPT ![p] = {}]
  /\ touched' = IF lint = {} THEN {} ELSE touched \cup {p}
  /\ UNCHANGED <<rows, lint>>

DropRow(s) ==
  /\ s \in rows /\ rows' = rows \ {s}
  /\ touched' = IF lint = {} THEN {} ELSE touched \cup {s}
  /\ UNCHANGED <<disk, lint>>

-----------------------------------------------------------------------------
(* What a run has read: Linter::run *)

Read(l) == {p \in l.pages : l.read[p] # {}}
Of(l, p, field) == UNION {text[field] : text \in l.read[p]}

BrokenLinks(l) == {link \in Read(l) \X LintPages : link[2] \in Of(l, link[1], "links") \ l.pages}
Inbound(l) == UNION {Of(l, p, "links") : p \in Read(l)}
Orphans(l) == l.pages \ (SystemPages \cup Inbound(l))

\* index_drift, empty if there is no index.
MissingFromIndex(l) == IF Index \in Read(l) THEN l.pages \ (SystemPages \cup Of(l, Index, "links")) ELSE {}
StaleInIndex(l) == IF Index \in Read(l) THEN Of(l, Index, "links") \ l.pages ELSE {}

\* The pages about a tag; detect_contradictions takes tags of two pages or more.
About(l, tag) == {p \in Read(l) \ SystemPages : tag \in Of(l, p, "tags")}
Clusters(l) == {tag \in Tags : Cardinality(About(l, tag)) >= 2}

-----------------------------------------------------------------------------
(* The lint job, from wiki_store.get on. *)

LintList ==
  /\ lint = {} /\ touched' = {}
  /\ lint' = {[at |-> "pages", pages |-> OnDisk, left |-> OnDisk, read |-> [p \in LintPages |-> {}],
               unasked |-> {}, stale |-> {}, tags |-> {}, contradictions |-> {}]}
  /\ UNCHANGED <<disk, rows>>

\* Seeded fault: a page that is gone by now ends the walk.
LintReadBreak(p) ==
  \E l \in lint :
    /\ l.at = "pages" /\ p \in l.left
    /\ lint' = {[l EXCEPT !.left = IF disk[p] = {} THEN {} ELSE @ \ {p}, !.read[p] = disk[p]]}
    /\ UNCHANGED <<disk, rows, touched>>

\* The next page is read; one that is gone by now is passed over.
LintRead(p) ==
  \E l \in lint :
    /\ l.at = "pages" /\ p \in l.left
    /\ lint' = {[l EXCEPT !.left = @ \ {p}, !.read[p] = disk[p]]}
    /\ UNCHANGED <<disk, rows, touched>>

\* All pages are read, and the sources they name collected.
LintCollect ==
  \E l \in lint :
    /\ l.at = "pages" /\ l.left = {}
    /\ lint' = {[l EXCEPT !.at = "rows", !.unasked = UNION {Of(l, p, "ids") : p \in Read(l)}]}
    /\ UNCHANGED <<disk, rows, touched>>

LintRow(s) ==
  \E l \in lint :
    /\ l.at = "rows" /\ s \in l.unasked
    /\ lint' = {[l EXCEPT !.unasked = @ \ {s}, !.stale = IF s \in rows THEN @ ELSE @ \cup {s}]}
    /\ UNCHANGED <<disk, rows, touched>>

\* All sources are looked up.  Without an LLM nobody is asked about contradictions.
LintRowsDone ==
  \E l \in lint, next \in {"clusters", "commit"} :
    /\ l.at = "rows" /\ l.unasked = {}
    /\ lint' = {[l EXCEPT !.at = next]}
    /\ UNCHANGED <<disk, rows, touched>>

\* The LLM is asked about the largest cluster left; it finds a contradiction, or none,
\* or its answer is of no use.
LintCluster(tag) ==
  \E l \in lint, found \in BOOLEAN :
    /\ l.at = "clusters" /\ Cardinality(l.tags) < MAX_CLUSTERS
    /\ tag \in Clusters(l) \ l.tags
    /\ \A other \in Clusters(l) \ l.tags : Cardinality(About(l, other)) <= Cardinality(About(l, tag))
    /\ lint' = {[l EXCEPT !.tags = @ \cup {tag}, !.contradictions = IF found THEN @ \cup {tag} ELSE @]}
    /\ UNCHANGED <<disk, rows, touched>>

LintClustersDone ==
  \E l \in lint :
    /\ l.at = "clusters"
    /\ Cardinality(l.tags) = MAX_CLUSTERS \/ Clusters(l) \subseteq l.tags
    /\ lint' = {[l EXCEPT !.at = "commit"]}
    /\ UNCHANGED <<disk, rows, touched>>

\* The report is committed to _meta/lint.json, which no link leads to.
LintCommit ==
  /\ \E l \in lint : l.at = "commit"
  /\ lint' = {} /\ touched' = {}
  /\ UNCHANGED <<disk, rows>>

\* A page cannot be read, a row not looked up or the commit fails; or the worker is gone.
LintFails ==
  /\ lint # {} /\ lint' = {} /\ touched' = {}
  /\ UNCHANGED <<disk, rows>>

WikiLintNext ==
  \/ \E p \in LintPages :
       \/ \E text \in LintTexts[p] : PutPage(p, text)
       \/ DropPage(p) \/ LintRead(p)
  \/ \E s \in LintSources : DropRow(s) \/ LintRow(s)
  \/ \E tag \in Tags : LintCluster(tag)
  \/ LintList \/ LintCollect \/ LintRowsDone \/ LintClustersDone \/ LintCommit \/ LintFails

WikiLintSpec == WikiLintInit /\ [][WikiLintNext]_lintVars

-----------------------------------------------------------------------------
Links(p) == UNION {text.links : text \in disk[p]}
Names(p) == UNION {text.ids : text \in disk[p]}

\* What a report says of pages and sources nobody touched since its run began is what
\* the disk and the rows say, whatever happened to the others in between: a link between
\* two such pages is reported if and only if it is broken, a page linked to from one is
\* no orphan and a page not linked to is one, the index is compared with what is there,
\* and a source is stale if a page names it and it has no row.
ReportsStand ==
  \A l \in lint :
    LET still == LintPages \ touched
        quiet == touched \cap LintPages = {}
    IN l.at = "commit" =>
         /\ \A p, t \in still : <<p, t>> \in BrokenLinks(l) <=> t \in Links(p) \ OnDisk
         /\ \A p \in still \ SystemPages :
              /\ p \in Orphans(l) => p \in OnDisk /\ \A q \in still : p \notin Links(q)
              /\ p \in OnDisk /\ p \notin Orphans(l) => ~quiet \/ \E q \in OnDisk : p \in Links(q)
         /\ Index \in still \cap OnDisk =>
              /\ MissingFromIndex(l) \cap still = (OnDisk \ (SystemPages \cup Links(Index))) \cap still
              /\ StaleInIndex(l) \cap still = (Links(Index) \ OnDisk) \cap still
         /\ \A s \in LintSources \ touched :
              /\ s \in l.stale => s \notin rows /\ (quiet => \E p \in OnDisk : s \in Names(p))
              /\ s \notin rows /\ (\E p \in still : s \in Names(p)) => s \in l.stale
=============================================================================
