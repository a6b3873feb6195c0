----------------------------- MODULE WikiStore -----------------------------
(***************************************************************************)
(* The wiki repository of one tenant as it comes to be: WikiRepoStore::get *)
(* and its cache, WikiRepo::open_or_init with its git commands, and        *)
(* commit_bundle (qpedia-store/src/wikirepo.rs).                           *)
(*                                                                         *)
(* Callers are the worker's jobs and the API's requests, which share the   *)
(* store.  Each git command and each file write is a step; any of them may *)
(* fail, and the process may die, after which all callers are gone and the *)
(* cache is empty, but the directory is as it was left.  A bundle patches  *)
(* the index, as an ingest does, or the lint report, whose folder is       *)
(* seeded.                                                                 *)
(***************************************************************************)
EXTENDS Naturals

CONSTANTS
  Callers,
  MaxFaults    \* bound: failed commands and restarts

ASSUME WikiStoreAssumption == MaxFaults \in Nat

Seeds == {"QPEDIA.md", "index.md"}
Reports == {"_meta/lint.json"}
Files == Seeds \cup Reports

VARIABLES
  cached,       \* is the tenant in WikiRepoStore.cache?
  git,          \* is there a .git?
  author,       \* its user.name and user.email
  dirs,         \* the seeded folders
  tree,         \* working tree: what each file holds
  index,        \* the git index
  head,         \* the tree of the HEAD commit
  caller,       \* where each caller is in get or commit_bundle
  cut,          \* history: an initialisation ended between `git init` and its commit
  overlapped,   \* history: a caller opened the repository while another was initialising it
  faults

repoVars == <<git, author, dirs, tree, index, head>>
wikiStoreVars == <<cached, repoVars, caller, cut, overlapped, faults>>

Nothing == [f \in Files |-> "absent"]

InitSteps == {"init", "config", "seed", "dirs", "add", "commit"}
Places == {"idle", "open", "held", "cache", "stage", "land"} \cup InitSteps

WikiStoreTypeOK ==
  /\ cached \in BOOLEAN /\ git \in BOOLEAN /\ author \in BOOLEAN /\ dirs \in BOOLEAN
  /\ tree \in [Files -> {"absent", "seed", "edited"}]
  /\ index \in [Files -> {"absent", "seed", "edited"}]
  /\ head \in [Files -> {"absent", "seed", "edited"}]
  /\ caller \in [Callers -> [at : Places, todo : SUBSET Seeds]]
  /\ \A c \in Callers : caller[c].todo # {} => caller[c].at = "seed"
  /\ (author \/ head # Nothing => git) /\ (cached => git)
  /\ cut \in BOOLEAN /\ overlapped \in BOOLEAN

At(c, place) == caller[c].at = place
Go(c, place) == caller' = [caller EXCEPT ![c] = [at |-> place, todo |-> IF place = "seed" THEN Seeds ELSE {}]]
Initialising == {c \in Callers : caller[c].at \in InitSteps}

\* The process starts on no repository, or on one that an ingest has edited before.
WikiStoreInit ==
  /\ cached = FALSE /\ git \in BOOLEAN /\ author = git /\ dirs = git
  /\ head = IF git THEN [Nothing EXCEPT !["QPEDIA.md"] = "seed", !["index.md"] = "edited"] ELSE Nothing
  /\ tree = head /\ index = head
  /\ caller = [c \in Callers |-> [at |-> "idle", todo |-> {}]]
  /\ cut = FALSE /\ overlapped = FALSE /\ faults = 0

-----------------------------------------------------------------------------
(* WikiRepoStore::get *)

\* The cache is looked up under its lock, which is released before the repository is
\* opened.
Get(c) ==
  /\ At(c, "idle")
  /\ IF cached THEN Go(c, "held") ELSE Go(c, "open")
  /\ UNCHANGED <<cached, repoVars, cut, overlapped, faults>>

\* Seeded fault: the repository is initialised whenever it is opened.
IsInitialisedNever == FALSE

IsInitialised == git

\* open_or_init: whether to initialise is decided on .git alone.
Open(c) ==
  /\ At(c, "open")
  /\ IF IsInitialised THEN Go(c, "cache") ELSE Go(c, "init")
  /\ overlapped' = (overlapped \/ Initialising # {})
  /\ UNCHANGED <<cached, repoVars, cut, faults>>

\* The repository goes into the cache and to the caller.
CacheRepo(c) ==
  /\ At(c, "cache")
  /\ cached' = TRUE /\ Go(c, "held")
  /\ UNCHANGED <<repoVars, cut, overlapped, faults>>

-----------------------------------------------------------------------------
(* The initialisation. *)

GitInit(c) ==
  /\ At(c, "init")
  /\ git' = TRUE /\ Go(c, "config")
  /\ UNCHANGED <<cached, author, dirs, tree, index, head, cut, overlapped, faults>>

GitConfig(c) ==
  /\ At(c, "config")
  /\ author' = TRUE /\ Go(c, "seed")
  /\ UNCHANGED <<cached, git, dirs, tree, index, head, cut, overlapped, faults>>

\* Seeded fault: the loop is left after the first file.
WriteSeedOnce(c) ==
  /\ At(c, "seed")
  /\ tree' = [tree EXCEPT !["QPEDIA.md"] = "seed"] /\ Go(c, "dirs")
  /\ UNCHANGED <<cached, git, author, dirs, index, head, cut, overlapped, faults>>

\* QPEDIA.md and index.md (log.md goes like it), one write after the other, whatever
\* they hold.
WriteSeed(c) ==
  /\ At(c, "seed")
  /\ \E f \in caller[c].todo :
       /\ f = "QPEDIA.md" \/ "QPEDIA.md" \notin caller[c].todo
       /\ tree' = [tree EXCEPT ![f] = "seed"]
       /\ IF caller[c].todo = {f} THEN Go(c, "dirs")
          ELSE caller' = [caller EXCEPT ![c].todo = @ \ {f}]
  /\ UNCHANGED <<cached, git, author, dirs, index, head, cut, overlapped, faults>>

MakeDirs(c) ==
  /\ At(c, "dirs")
  /\ dirs' = TRUE /\ Go(c, "add")
  /\ UNCHANGED <<cached, git, author, tree, index, head, cut, overlapped, faults>>

\* git add -A takes the whole working tree, whoever wrote it.
GitAdd(c, from, to) ==
  /\ At(c, from)
  /\ index' = tree /\ Go(c, to)
  /\ UNCHANGED <<cached, git, author, dirs, tree, head, cut, overlapped, faults>>

\* git commit needs an author, and a change.
CanCommit == author /\ index # head

CommitSeeds(c) ==
  /\ At(c, "commit") /\ CanCommit
  /\ head' = index /\ Go(c, "cache")
  /\ UNCHANGED <<cached, git, author, dirs, tree, index, cut, overlapped, faults>>

-----------------------------------------------------------------------------
(* commit_bundle *)

\* The bundle's patch is written; a report needs its folder.
PatchFile(c, f) ==
  /\ At(c, "held")
  /\ f = "index.md" \/ (f \in Reports /\ dirs)
  /\ tree' = [tree EXCEPT ![f] = "edited"] /\ Go(c, "stage")
  /\ UNCHANGED <<cached, git, author, dirs, index, head, cut, overlapped, faults>>

CommitBundle(c) ==
  /\ At(c, "land") /\ CanCommit
  /\ head' = index /\ Go(c, "idle")
  /\ UNCHANGED <<cached, git, author, dirs, tree, index, cut, overlapped, faults>>

\* The caller is done with the repository.
Release(c) ==
  /\ At(c, "held") /\ Go(c, "idle")
  /\ UNCHANGED <<cached, repoVars, cut, overlapped, faults>>

-----------------------------------------------------------------------------
(* Failures. *)

\* An initialisation that ends here leaves a .git without its first commit.
CutBy(callers) == cut \/ \E c \in callers : caller[c].at \in InitSteps \ {"init"}

\* A command fails, by itself, because another's git holds the lock of the index, or
\* because there is nothing to commit: the caller gives up and leaves its files.
CallFails(c) ==
  /\ caller[c].at \notin {"idle", "held"}
  /\ IF caller[c].at \in {"commit", "land"} /\ ~CanCommit THEN UNCHANGED faults
     ELSE faults < MaxFaults /\ faults' = faults + 1
  /\ cut' = CutBy({c}) /\ Go(c, "idle")
  /\ UNCHANGED <<cached, repoVars, overlapped>>

\* The process dies and is started again.
Restart ==
  /\ faults < MaxFaults /\ faults' = faults + 1
  /\ cut' = CutBy(Callers)
  /\ cached' = FALSE
  /\ caller' = [c \in Callers |-> [at |-> "idle", todo |-> {}]]
  /\ UNCHANGED <<repoVars, overlapped>>

WikiStoreNext ==
  \/ \E c \in Callers :
       \/ Get(c) \/ Open(c) \/ CacheRepo(c) \/ Release(c)
       \/ GitInit(c) \/ GitConfig(c) \/ WriteSeed(c) \/ MakeDirs(c)
       \/ GitAdd(c, "add", "commit") \/ CommitSeeds(c)
       \/ \E f \in Files : PatchFile(c, f)
       \/ GitAdd(c, "stage", "land") \/ CommitBundle(c) \/ CallFails(c)
  \/ Restart

WikiStoreSpec == WikiStoreInit /\ [][WikiStoreNext]_wikiStoreVars

-----------------------------------------------------------------------------
(* Properties. *)

\* A repository that get hands out has its style guide and its index committed and in
\* place, unless an initialisation was cut short or another caller's is still under way.
HandedOutIsSeeded ==
  (\E c \in Callers : At(c, "held")) /\ Initialising = {} /\ ~cut =>
    \A f \in Seeds : head[f] # "absent" /\ tree[f] # "absent"

\* What an ingest committed to the index is never overwritten with the seed again, in the
\* working tree or in a commit, unless a caller came to the repository while another was
\* still initialising it.
EditsStay ==
  [][\A f \in Files : head[f] = "edited" =>
       overlapped \/ (head'[f] = "edited" /\ tree'[f] = "edited")]_wikiStoreVars
=============================================================================
