--------------------------- MODULE MCSourceRemoval ---------------------------
(* Instances of SourceRemoval for TLC. *)
EXTENDS SourceRemoval

CONSTANTS w1, j1, j2, j3, s1, s2, p1, p2

\* p1 is a page of s1 alone, p2 one it shares with s2.
MCFirstPages == [p \in Pages |-> IF p = p1 THEN {s1} ELSE {s1, s2}]

\* s1 is removed, uploaded again and ingested; the index is rebuilt, or the
\* wiki linted, in between.
MCKindOf == [j \in Jobs |->
  CASE j = j1 -> "remove" [] j = j2 -> "ingest" [] OTHER -> "admin"]
MCSlugOf == [j \in Jobs |-> s1]

\* An agent that names its source alone, and one that names s2 as well.
MCCitings == {{s1}, {s1, s2}}

\* Two attempts for the removal, one for the others.
MCMaxAttempts == [j \in Jobs |-> IF j = j1 THEN 2 ELSE 1]

-----------------------------------------------------------------------------
\* README, Remove Pipeline: idempotent, a retry after the commit goes on with the
\* clean-up of wiki_pages, so that a removal that is done, and had no update of the
\* index fail, leaves no rows of the pages that named the source.
RetryCleansIndex == \A j \in Jobs :
  KindOf[j] = "remove" /\ state[j] = "done" /\ row[SlugOf[j]] = 0 /\ SlugOf[j] \notin missed \cup dropped =>
    \A p \in Pages : SlugOf[j] \notin index[p]
=============================================================================
