-------------------------- MODULE ArchiveExpansion --------------------------
(***************************************************************************)
(* The expansion of zip archives (qpedia-ingest/src/handlers/archive.rs)   *)
(* into sources of their own, whose slugs are found by probing             *)
(* (qpedia-pg-store/src/slug.rs).                                          *)
(*                                                                         *)
(* Several archives, whose entries share a file name, are expanded at      *)
(* once, next to uploads of that name; an expansion fails or dies between  *)
(* any two of its steps and is run again from the start while the job has  *)
(* attempts left.  An archive's content is any short sequence of entries.  *)
(* Sizes are small integers against the same comparisons; the header of an *)
(* entry may lie about its own.                                            *)
(***************************************************************************)
EXTENDS Integers, FiniteSets, SequencesExt

CONSTANTS
  Archives,
  Contents,        \* the sequences of entries an archive may hold
  MAX_ENTRIES,     \* archive.rs
  MAX_ENTRY_BYTES,
  MAX_TOTAL_UNCOMPRESSED,
  MaxAttempts,     \* attempts of an archive's job
  Uploads,         \* bound: uploads of a file of the entries' name
  MaxSlug          \* bound: name, name-2, name-3, ..., as 1..MaxSlug

\* An entry: what it is, the uncompressed size its header declares, and the bytes that
\* reading it to its end yields, which nothing holds to the header.
EntryKinds == {"dir", "encrypted", "unsafe", "file"}
ZipEntries == [kind : EntryKinds, size : Nat, bytes : Nat]

ASSUME ArchiveAssumption ==
  /\ MAX_ENTRIES \in Nat /\ MAX_ENTRY_BYTES \in Nat /\ MAX_TOTAL_UNCOMPRESSED \in Nat
  /\ MaxAttempts \in Nat /\ Uploads \in Nat /\ MaxSlug \in Nat
  /\ Contents \subseteq Seq(ZipEntries) /\ "none" \notin Archives

VARIABLES
  content,   \* the entries of each archive
  status,    \* sources.status of each archive
  attempt,   \* attempts its job has used
  expand,    \* the expansion under way, as a set
  children,  \* the sources: who made them, from which entry, of how many bytes, and their ingest job
  uploaded   \* uploads made

archiveVars == <<content, status, attempt, expand, children, uploaded>>

-----------------------------------------------------------------------------
(* read_entries *)

\* Folders, encrypted entries, paths that leave the folder and files that are large by
\* their headers are skipped.
IsKept(e) == e.kind = "file" /\ e.size <= MAX_ENTRY_BYTES

\* Seeded fault: the entry that goes over the cap is let through.
ReadEntryAfter(acc, i, e) ==
  IF acc.bomb \/ ~IsKept(e) THEN acc
  ELSE IF acc.total > MAX_TOTAL_UNCOMPRESSED THEN [acc EXCEPT !.bomb = TRUE]
  ELSE [acc EXCEPT !.total = @ + e.size, !.kept = Append(@, i)]

\* One turn of the loop: the running total of the declared sizes is checked, and all the
\* bytes are read.
ReadEntry(acc, i, e) ==
  LET total == acc.total + e.size
  IN IF acc.bomb \/ ~IsKept(e) THEN acc
     ELSE IF total > MAX_TOTAL_UNCOMPRESSED THEN [acc EXCEPT !.bomb = TRUE]
     ELSE [acc EXCEPT !.total = total, !.kept = Append(@, i)]

ReadEntries(c) ==
  LET step(acc, i) == ReadEntry(acc, i, c[i])
  IN FoldLeft(step, [bomb |-> FALSE, total |-> 0, kept |-> <<>>], [i \in DOMAIN c |-> i])

\* The archive as a whole is refused.
IsRefused(c) == Len(c) > MAX_ENTRIES \/ ReadEntries(c).bomb

-----------------------------------------------------------------------------
Slugs == 1..MaxSlug
Used == {c.slug : c \in children}
Children(a) == {c \in children : c.archive = a}

\* probe_unique: the first slug that no source has.
FreeSlug == {n \in Slugs : n \notin Used /\ \A m \in 1..(n - 1) : m \in Used}

ArchiveTypeOK ==
  /\ content \in [Archives -> Contents]
  /\ status \in [Archives -> {"pending", "extracting", "done", "failed"}]
  /\ attempt \in [Archives -> 0..MaxAttempts]
  /\ expand \in [Archives -> SUBSET [at : {"read", "probe", "insert", "enqueue"}, todo : Seq(Nat), slug : 0..MaxSlug]]
  /\ \A a \in Archives : \A x, y \in expand[a] : x = y
  /\ children \subseteq [archive : Archives \cup {"none"}, entry : Nat, attempt : 0..MaxAttempts, size_bytes : Nat,
                        slug : Slugs, job : BOOLEAN]
  /\ uploaded \in 0..Uploads

ArchiveInit ==
  /\ content \in [Archives -> Contents]
  /\ status = [a \in Archives |-> "pending"]
  /\ attempt = [a \in Archives |-> 0]
  /\ expand = [a \in Archives |-> {}]
  /\ children = {} /\ uploaded = 0

\* upload_source of a file of that name, up to its ingest job.
UploadSource ==
  /\ uploaded < Uploads /\ uploaded' = uploaded + 1
  /\ \E n \in FreeSlug :
       children' = children \cup
         {[archive |-> "none", entry |-> 0, attempt |-> 0, size_bytes |-> 0, slug |-> n, job |-> TRUE]}
  /\ UNCHANGED <<content, status, attempt, expand>>

\* The job is claimed: the archive is extracting, its bytes are read, its folder made.
BeginExpansion(a) ==
  /\ expand[a] = {} /\ status[a] \notin {"done", "failed"} /\ attempt[a] < MaxAttempts
  /\ attempt' = [attempt EXCEPT ![a] = @ + 1]
  /\ status' = [status EXCEPT ![a] = "extracting"]
  /\ expand' = [expand EXCEPT ![a] = {[at |-> "read", todo |-> <<>>, slug |-> 0]}]
  /\ UNCHANGED <<content, children, uploaded>>

Expanding(a, place) == {x \in expand[a] : x.at = place}
Advance(a, x) == expand' = [expand EXCEPT ![a] = {x}]

ReadArchive(a) ==
  \E x \in Expanding(a, "read") :
    /\ ~IsRefused(content[a])
    /\ Advance(a, [x EXCEPT !.at = "probe", !.todo = ReadEntries(content[a]).kept])
    /\ UNCHANGED <<content, status, attempt, children, uploaded>>

\* unique_source_slug for the next entry
ProbeEntry(a) ==
  \E x \in Expanding(a, "probe"), n \in FreeSlug :
    /\ x.todo # <<>>
    /\ Advance(a, [x EXCEPT !.at = "insert", !.slug = n])
    /\ UNCHANGED <<content, status, attempt, children, uploaded>>

Child(a, x) ==
  LET i == Head(x.todo)
  IN [archive |-> a, entry |-> i, attempt |-> attempt[a], size_bytes |-> content[a][i].bytes, slug |-> x.slug, job |-> FALSE]

\* Seeded fault: an entry whose slug was taken in the meantime is left out.
InsertOrSkip(a) ==
  \E x \in Expanding(a, "insert") :
    /\ IF x.slug \notin Used
       THEN children' = children \cup {Child(a, x)} /\ Advance(a, [x EXCEPT !.at = "enqueue"])
       ELSE UNCHANGED children /\ Advance(a, [x EXCEPT !.at = "probe", !.todo = Tail(@)])
    /\ UNCHANGED <<content, status, attempt, uploaded>>

\* insert_source; the unique index refuses a slug that was taken since (see ExpansionFails).
InsertEntry(a) ==
  \E x \in Expanding(a, "insert") :
    /\ x.slug \notin Used
    /\ children' = children \cup {Child(a, x)}
    /\ Advance(a, [x EXCEPT !.at = "enqueue"])
    /\ UNCHANGED <<content, status, attempt, uploaded>>

\* The entry's bytes are stored and its ingest job enqueued.
EnqueueEntry(a) ==
  \E x \in Expanding(a, "enqueue") :
    /\ children' = {IF c.slug = x.slug THEN [c EXCEPT !.job = TRUE] ELSE c : c \in children}
    /\ Advance(a, [x EXCEPT !.at = "probe", !.todo = Tail(@), !.slug = 0])
    /\ UNCHANGED <<content, status, attempt, uploaded>>

\* The manifest is written and the archive done.
FinishExpansion(a) ==
  \E x \in Expanding(a, "probe") :
    /\ x.todo = <<>>
    /\ status' = [status EXCEPT ![a] = "done"]
    /\ expand' = [expand EXCEPT ![a] = {}]
    /\ UNCHANGED <<content, attempt, children, uploaded>>

\* A step fails, by itself, because the archive is refused or its slug taken, or the
\* worker dies: what was made stays, and the job is run again or is dead.
ExpansionFails(a) ==
  /\ expand[a] # {}
  /\ expand' = [expand EXCEPT ![a] = {}]
  /\ status' = [status EXCEPT ![a] = IF attempt[a] = MaxAttempts THEN "failed" ELSE @]
  /\ UNCHANGED <<content, attempt, children, uploaded>>

ArchiveNext ==
  \/ UploadSource
  \/ \E a \in Archives :
       BeginExpansion(a) \/ ReadArchive(a) \/ ProbeEntry(a) \/ InsertEntry(a) \/ EnqueueEntry(a) \/ FinishExpansion(a) \/ ExpansionFails(a)

ArchiveSpec == ArchiveInit /\ [][ArchiveNext]_archiveVars

-----------------------------------------------------------------------------
(* Properties. *)

\* A done archive has given every readable entry a source with an ingest job,
\* whatever its attempts met, and was not one that must be refused.
DoneIsExpanded ==
  \A a \in Archives : status[a] = "done" =>
    /\ Len(content[a]) <= MAX_ENTRIES
    /\ \A i \in DOMAIN content[a] : IsKept(content[a][i]) =>
         \E c \in Children(a) : c.entry = i /\ c.job

\* By the sizes that headers declare, what one attempt takes out of an archive stays
\* within the caps; the bytes it stores need not.  No attempt takes an entry twice, but
\* every attempt begins anew: an entry has as many sources as attempts came to it.
AttemptsAreCapped ==
  \A a \in Archives :
    LET size(c) == content[a][c.entry].size
    IN /\ \A n \in 1..MaxAttempts :
            LET made == {c \in Children(a) : c.attempt = n}
            IN /\ Cardinality({c.entry : c \in made}) = Cardinality(made)
               /\ \A c \in made : size(c) <= MAX_ENTRY_BYTES
               /\ MapThenSumSet(size, made) <= MAX_TOTAL_UNCOMPRESSED
       /\ \A i \in DOMAIN content[a] : Cardinality({c \in Children(a) : c.entry = i}) <= attempt[a]

\* Both hold however often an archive is retried and whoever takes slugs meanwhile.
ExpansionIsSound == DoneIsExpanded /\ AttemptsAreCapped
=============================================================================
