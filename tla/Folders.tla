------------------------------ MODULE Folders ------------------------------
(***************************************************************************)
(* The folder tree: explicit folders and their pins, the folder of a       *)
(* source, and the ACL rules of folders (qpedia-pg-store/src/folders.rs,   *)
(* folder_acls.rs; qpedia-api/src/routes.rs), with the two automatic moves *)
(* of sources out of the root folder (qpedia-ingest/src/handlers/          *)
(* classify.rs, lint.rs).                                                  *)
(*                                                                         *)
(* A path is the sequence of its names; the root is <<>>.  Folders, their  *)
(* rules and a user's moves are on what slugify_folder makes of the path   *)
(* given, while uploads, syncs and the automatic moves store it as given.  *)
(* A user's move is one statement; an automatic one is decided on what was *)
(* read before, and for classify an LLM call lies in between.              *)
(***************************************************************************)
EXTENDS Integers, FiniteSets, SequencesExt

CONSTANTS
  FolderNames,  \* the names paths are made of
  GivenPaths,   \* paths as they are given
  Paths,        \* those that are made of slugs, with all their prefixes
  Slug,         \* slugify_folder
  DocTypes,     \* folders a classification may send a source to: /<doc_type>
  Sources,      \* bound: sources ever uploaded
  Groups,
  Organizers,   \* classify and lint jobs under way at once
  Requests,     \* uploads and folder deletions under way at once
  NoSource, NoRule

Root == <<>>

ASSUME FoldersAssumption ==
  /\ GivenPaths \subseteq Seq(FolderNames) /\ NoSource \notin GivenPaths
  /\ Paths \subseteq GivenPaths /\ DocTypes \subseteq GivenPaths
  /\ Root \in Paths /\ \A p \in Paths : \A n \in 0..Len(p) : SubSeq(p, 1, n) \in Paths
  /\ Slug \in [GivenPaths -> Paths] /\ \A p \in Paths : Slug[p] = p
  /\ "admin" \in Groups

VARIABLES
  folder,      \* folder_path of each source, as stored
  acl,         \* its ACL
  row,         \* the folders table: "none", or the pin of the row
  rule,        \* the folder_acls table
  organizing,  \* the automatic move each organizer is at, as a set
  asking,      \* the upload or deletion each request is at, as a set
  changed      \* history: what has changed behind the back of a move, an upload or a deletion

folderVars == <<folder, acl, row, rule, organizing, asking, changed>>
treeVars == <<folder, acl>>

Acls == SUBSET Groups

FoldersTypeOK ==
  /\ folder \in [Sources -> GivenPaths \cup {NoSource}] /\ acl \in [Sources -> Acls]
  /\ row \in [Paths -> {"none", "open", "pinned"}]
  /\ rule \in [Paths -> Acls \cup {NoRule}]
  /\ \A o \in Organizers : \A m, n \in organizing[o] : m = n
  /\ \A r \in Requests : \A m, n \in asking[r] : m = n
  /\ changed \subseteq Organizers \X {"moved", "pinned"} \cup Requests \X {"arrived", "ruled"}

FoldersInit ==
  /\ folder = [s \in Sources |-> NoSource] /\ acl = [s \in Sources |-> {}]
  /\ row = [p \in Paths |-> "none"]
  /\ rule = [p \in Paths |-> NoRule]
  /\ organizing = [o \in Organizers |-> {}]
  /\ asking = [r \in Requests |-> {}]
  /\ changed = {}

\* The files whose stored path, as it stands, is p or below it: folder_source_count.
Under(p) == {s \in Sources : folder[s] # NoSource /\ IsPrefix(p, folder[s])}

-----------------------------------------------------------------------------
(* Rules and uploads. *)

\* resolve_folder_acl: the chain of a path is the path, its parents and the root ...
Candidates(p) == {SubSeq(p, 1, n) : n \in 0..Len(p)}

\* Seeded fault: the candidates are ordered the other way round.
ResolveAclShortest(p) ==
  LET found == {q \in Candidates(p) : rule[q] # NoRule}
  IN IF found = {} THEN NoRule
     ELSE rule[CHOOSE q \in found : \A x \in found : Len(q) <= Len(x)]

\* ... and the longest one that has a rule decides.
ResolveAcl(p) ==
  LET found == {q \in Candidates(p) : rule[q] # NoRule}
  IN IF found = {} THEN NoRule
     ELSE rule[CHOOSE q \in found : \A x \in found : Len(q) >= Len(x)]

Uploading == {r \in Requests : \E q \in asking[r] : q.op = "upload"}

\* The rule of a folder is written; what an upload has resolved stays.
PutRule(p, a) ==
  /\ rule' = [rule EXCEPT ![p] = a]
  /\ changed' = changed \cup (Uploading \X {"ruled"})
  /\ UNCHANGED <<treeVars, row, organizing, asking>>

SetFolderAcl(p, a) == PutRule(p, a)

DeleteFolderAcl(p) == rule[p] # NoRule /\ PutRule(p, NoRule)

\* upload_source, with the user's groups for a default, and sync::run, with admins
\* only: the rule is resolved for the slugified path ...
ResolveUpload(r, p, default) ==
  /\ asking[r] = {}
  /\ asking' = [asking EXCEPT ![r] =
       {[op |-> "upload", path |-> p,
         acl |-> IF ResolveAcl(Slug[p]) = NoRule THEN default ELSE ResolveAcl(Slug[p])]}]
  /\ UNCHANGED <<treeVars, row, rule, organizing, changed>>

\* The requests that are deleting a folder which a source comes into.
Deleting(p) == {r \in Requests : \E q \in asking[r] : q.op = "delete" /\ IsPrefix(q.path, p)}

\* ... and the source inserted, with the path as it was given.
InsertSource(r) ==
  \E q \in asking[r], s \in Sources :
    /\ q.op = "upload" /\ folder[s] = NoSource
    /\ folder' = [folder EXCEPT ![s] = q.path] /\ acl' = [acl EXCEPT ![s] = q.acl]
    /\ changed' = (changed \ {<<r, "ruled">>}) \cup (Deleting(q.path) \X {"arrived"})
    /\ asking' = [asking EXCEPT ![r] = {}]
    /\ UNCHANGED <<row, rule, organizing>>

-----------------------------------------------------------------------------
(* Folders. *)

Behind(s) == {o \in Organizers : \E m \in organizing[o] : m.source = s}
Targeting(p) == {o \in Organizers : \E m \in organizing[o] : m.at = "move" /\ Slug[m.to] = p}

\* create_folder, also for an archive's folders, and set_folder_pinned write the same row.
SetPin(p, pinned) ==
  /\ row' = [row EXCEPT ![p] = IF pinned THEN "pinned" ELSE "open"]
  /\ changed' = IF pinned THEN changed \cup (Targeting(p) \X {"pinned"}) ELSE changed
  /\ UNCHANGED <<treeVars, rule, organizing, asking>>

\* Seeded fault: only the files of the folder itself are counted.
CountFolderFlat(r, p) ==
  /\ asking[r] = {} /\ \A s \in Sources : folder[s] # p
  /\ asking' = [asking EXCEPT ![r] = {[op |-> "delete", path |-> p]}]
  /\ UNCHANGED <<treeVars, row, rule, organizing, changed>>

\* delete_folder: folder_source_count must be 0, of the folder and below; it compares the
\* slugified path with the stored ones ...
CountFolder(r, p) ==
  /\ asking[r] = {} /\ Under(p) = {}
  /\ asking' = [asking EXCEPT ![r] = {[op |-> "delete", path |-> p]}]
  /\ UNCHANGED <<treeVars, row, rule, organizing, changed>>

\* ... and then the row goes, whatever has come since.
DeleteFolderRow(r) ==
  \E q \in asking[r] :
    /\ q.op = "delete"
    /\ row' = [row EXCEPT ![q.path] = "none"]
    /\ asking' = [asking EXCEPT ![r] = {}]
    /\ changed' = changed \ {<<r, "arrived">>}
    /\ UNCHANGED <<treeVars, rule, organizing>>

\* move_source
MoveSource(s, p) ==
  /\ folder[s] # NoSource
  /\ folder' = [folder EXCEPT ![s] = p]
  /\ changed' = changed \cup (Behind(s) \X {"moved"}) \cup (Deleting(p) \X {"arrived"})
  /\ UNCHANGED <<acl, row, rule, organizing, asking>>

-----------------------------------------------------------------------------
(* Automatic moves. *)

Ends(o) ==
  /\ organizing' = [organizing EXCEPT ![o] = {}]
  /\ changed' = changed \ ({o} \X {"moved", "pinned"})

\* Seeded fault: the folder of the row is not looked at.
ReadAnySource(o, s, p) ==
  /\ organizing[o] = {} /\ folder[s] # NoSource
  /\ organizing' = [organizing EXCEPT ![o] = {[at |-> "check", source |-> s, to |-> p]}]
  /\ UNCHANGED <<treeVars, row, rule, asking, changed>>

\* classify reads the row before it asks the LLM for a doc_type; lint lists the sources
\* of the root folder and takes them one after the other.
ReadSource(o, s, p) ==
  /\ organizing[o] = {} /\ folder[s] = Root
  /\ organizing' = [organizing EXCEPT ![o] = {[at |-> "check", source |-> s, to |-> p]}]
  /\ UNCHANGED <<treeVars, row, rule, asking, changed>>

\* is_folder_pinned
CheckPin(o) ==
  \E m \in organizing[o] :
    /\ m.at = "check"
    /\ IF row[Slug[m.to]] = "pinned" THEN Ends(o)
       ELSE /\ organizing' = [organizing EXCEPT ![o] = {[m EXCEPT !.at = "move"]}]
            /\ UNCHANGED changed
    /\ UNCHANGED <<treeVars, row, rule, asking>>

\* update_folder_path with the doc_type as it is, whatever folder the source is in by now.
Organize(o) ==
  \E m \in organizing[o] :
    /\ m.at = "move"
    /\ folder' = [folder EXCEPT ![m.source] = m.to]
    /\ organizing' = [organizing EXCEPT ![o] = {}]
    /\ changed' = (changed \cup (Behind(m.source) \X {"moved"}) \cup (Deleting(m.to) \X {"arrived"}))
                    \ ({o} \X {"moved", "pinned"})
    /\ UNCHANGED <<acl, row, rule, asking>>

\* The LLM call or a statement fails, or the process dies.
OrganizeFails(o) ==
  /\ organizing[o] # {} /\ Ends(o)
  /\ UNCHANGED <<treeVars, row, rule, asking>>

-----------------------------------------------------------------------------
FoldersNext ==
  \/ \E p \in Paths :
       \/ \E a \in Acls : SetFolderAcl(p, a)
       \/ DeleteFolderAcl(p)
       \/ \E s \in Sources : MoveSource(s, p)
       \/ \E pinned \in BOOLEAN : SetPin(p, pinned)
       \/ \E r \in Requests : CountFolder(r, p)
  \/ \E p \in GivenPaths, r \in Requests, default \in Acls : ResolveUpload(r, p, default)
  \/ \E r \in Requests : InsertSource(r) \/ DeleteFolderRow(r)
  \/ \E o \in Organizers :
       \/ \E s \in Sources, p \in DocTypes : ReadSource(o, s, p)
       \/ CheckPin(o) \/ Organize(o) \/ OrganizeFails(o)

FoldersSpec == FoldersInit /\ [][FoldersNext]_folderVars

-----------------------------------------------------------------------------
(* Properties. *)

Organizes(o, s) == \E m \in organizing[o] : m.at = "move" /\ m.source = s

\* An automatic move takes a source out of the root folder only, and never into a
\* folder the user has locked, except where the source was moved by somebody else, or
\* the folder locked, after the job had looked.
OrganizersKeepOff ==
  [][\A o \in Organizers, s \in Sources :
       Organizes(o, s) /\ organizing'[o] = {} /\ folder'[s] # folder[s] =>
         /\ folder[s] = Root \/ <<o, "moved">> \in changed
         /\ row[Slug[folder'[s]]] # "pinned" \/ <<o, "pinned">> \in changed]_folderVars

\* A folder with files in it, or below it, loses its row, and with it its lock, only
\* when the files came while it was being deleted.  The files are those whose path, as it
\* is stored, is the folder's or below it; others, stored by a name that is not its own
\* slug, keep no folder, although the schema calls every stored path slugified.
FoldersInUseStay ==
  [][\A p \in Paths : row[p] # "none" /\ row'[p] = "none" /\ Under(p) # {} =>
       \E r \in Requests : <<r, "arrived">> \in changed /\ \E q \in asking[r] : q.path = p]_folderVars

\* A source comes in with the groups of the rule nearest to its folder, slugified, however
\* far up that is; unless a rule was written after the upload had asked.
UploadsFollowRules ==
  [][\A r \in Requests, s \in Sources, p \in Paths :
       /\ folder[s] = NoSource /\ folder'[s] # NoSource /\ asking'[r] # asking[r]
       /\ <<r, "ruled">> \notin changed
       /\ IsPrefix(p, Slug[folder'[s]]) /\ rule[p] # NoRule
       /\ \A q \in Paths \ {p} : IsPrefix(p, q) /\ IsPrefix(q, Slug[folder'[s]]) => rule[q] = NoRule
       => acl'[s] = rule[p]]_folderVars
=============================================================================
