----------------------------- MODULE WikiProofs -----------------------------
(***************************************************************************)
(* Theorems about the wiki: how its repository comes to be, how it is      *)
(* checked, and what reads it for a user.  They hold for every number of   *)
(* callers, pages and sources and every size of the caps.                  *)
(***************************************************************************)
EXTENDS WikiStore, WikiAgent, WikiLint, ChatRetrieval, ChatLimiter, FiniteSetTheorems, WellFoundedInduction, TLAPS

-----------------------------------------------------------------------------
(* The repository.  Working tree, index and HEAD follow one another: what  *)
(* a commit has is staged, and what is staged is in the working tree.      *)

States == {"absent", "seed", "edited"}
Steps == [at : Places, todo : SUBSET Seeds]

StoreTyped ==
  /\ cached \in BOOLEAN /\ git \in BOOLEAN /\ author \in BOOLEAN /\ dirs \in BOOLEAN
  /\ tree \in [Files -> States] /\ index \in [Files -> States] /\ head \in [Files -> States]
  /\ caller \in [Callers -> Steps]
  /\ \A c \in Callers : caller[c].todo # {} <=> caller[c].at = "seed"
  /\ cut \in BOOLEAN /\ overlapped \in BOOLEAN

NeedsGit == {"cache", "held", "stage", "land", "config", "seed", "dirs", "add", "commit"}

GitFirst ==
  /\ author \/ head # Nothing \/ cached => git
  /\ \A c \in Callers : caller[c].at \in NeedsGit => git

Layers == \A f \in Files :
  /\ head[f] # "absent" => index[f] # "absent"
  /\ index[f] # "absent" => tree[f] # "absent"

Seeding == \A c \in Callers, f \in Seeds :
  /\ caller[c].at \in {"dirs", "add", "commit"} \/ (caller[c].at = "seed" /\ f \notin caller[c].todo) => tree[f] # "absent"
  /\ caller[c].at = "commit" => index[f] # "absent"

FirstCommit == git /\ ~cut =>
  (\E c \in Callers : caller[c].at \in InitSteps \ {"init"}) \/ \A f \in Seeds : head[f] # "absent"

\* Unless callers have overlapped, whoever initialises is alone and finds no edit.
Edits ==
  /\ \A f \in Files : (head[f] = "edited" => index[f] = "edited") /\ (index[f] = "edited" => tree[f] = "edited")
  /\ ~git => \A f \in Files : tree[f] # "edited"
  /\ \A c \in Callers : caller[c].at \in InitSteps =>
       /\ ~cached /\ \A f \in Files : tree[f] # "edited"
       /\ \A d \in Callers \ {c} : caller[d].at \in {"idle", "open"}

StoreInv ==
  /\ StoreTyped /\ GitFirst /\ Layers /\ Seeding /\ FirstCommit
  /\ ~overlapped => Edits

LEMMA StoreStarts == WikiStoreInit => StoreInv
<1>1. SUFFICES ASSUME WikiStoreInit PROVE StoreInv
  OBVIOUS
<1>2. /\ cached = FALSE /\ git \in BOOLEAN /\ author = git /\ dirs = git
      /\ cut = FALSE /\ overlapped = FALSE
      /\ \A c \in Callers : caller[c].at = "idle" /\ caller[c].todo = {}
      /\ caller \in [Callers -> Steps]
  BY <1>1 DEF WikiStoreInit, Steps, Places
<1>3. /\ head \in [Files -> States] /\ tree = head /\ index = head
      /\ git => head["QPEDIA.md"] = "seed" /\ head["index.md"] = "edited"
      /\ ~git => head = Nothing
  BY <1>1 DEF WikiStoreInit, Nothing, Files, Seeds, States
<1>4. StoreTyped
  BY <1>2, <1>3 DEF StoreTyped
<1>5. GitFirst /\ Layers /\ Seeding
  BY <1>2, <1>3 DEF GitFirst, Layers, Seeding, NeedsGit
<1>6. FirstCommit
  BY <1>3 DEF FirstCommit, Seeds
<1>7. Edits
  BY <1>2, <1>3 DEF Edits, InitSteps, Nothing
<1>. QED
  BY <1>4, <1>5, <1>6, <1>7 DEF StoreInv

\* A caller goes to another place, and the others stay where they are.
LEMMA Goes ==
  ASSUME StoreInv, NEW c \in Callers, NEW place \in Places, Go(c, place)
  PROVE  /\ caller' \in [Callers -> Steps]
         /\ caller'[c].at = place /\ \A d \in Callers \ {c} : caller'[d] = caller[d]
         /\ caller'[c].todo = (IF place = "seed" THEN Seeds ELSE {})
         /\ \A d \in Callers : caller'[d].todo # {} <=> caller'[d].at = "seed"
<1>. DEFINE n == [at |-> place, todo |-> IF place = "seed" THEN Seeds ELSE {}]
<1>1. n \in Steps /\ n.at = place /\ n.todo = (IF place = "seed" THEN Seeds ELSE {})
  BY DEF Steps
<1>. HIDE DEF n
<1>2. caller' = [caller EXCEPT ![c] = n]
  BY DEF Go, n
<1>3. caller' \in [Callers -> Steps] /\ \A d \in Callers : caller'[d] = IF d = c THEN n ELSE caller[d]
  BY <1>1, <1>2 DEF StoreInv, StoreTyped
<1>. QED
  BY <1>1, <1>3 DEF StoreInv, StoreTyped, Seeds

\* A step that leaves the repository as it is: to look it up, to open it, to hand it out,
\* to release it.
LEMMA LookingKeeps ==
  ASSUME StoreInv, NEW c \in Callers, Get(c) \/ Open(c) \/ CacheRepo(c) \/ Release(c)
  PROVE  StoreInv'
<1>1. UNCHANGED <<git, author, dirs, tree, index, head, cut>>
  BY DEF Get, Open, CacheRepo, Release, repoVars
<1>2. PICK place \in Places : Go(c, place)
  BY DEF Get, Open, CacheRepo, Release, Places, InitSteps
<1>3. /\ caller' \in [Callers -> Steps]
      /\ caller'[c].at = place /\ \A d \in Callers \ {c} : caller'[d] = caller[d]
      /\ \A d \in Callers : caller'[d].todo # {} <=> caller'[d].at = "seed"
  BY <1>2, Goes
<1>4. /\ caller[c].at \in {"idle", "open", "cache", "held"}
      /\ place \in {"open", "cache", "held", "init", "idle"}
      /\ place = "held" /\ caller[c].at = "idle" => cached
      /\ place \in {"cache", "init"} => caller[c].at = "open"
      /\ place = "init" => ~git
      /\ place = "idle" => caller[c].at = "held"
      /\ place \in {"cache", "init"} /\ Initialising # {} => overlapped'
      /\ place = "cache" => git
      /\ place = "open" => ~cached
      /\ overlapped => overlapped'
      /\ cached' \in BOOLEAN /\ overlapped' \in BOOLEAN
      /\ cached' # cached => caller[c].at = "cache"
      /\ place = "held" => caller[c].at \in {"idle", "cache"}
  <2>1. \A x \in Places : Go(c, x) => x = place
    BY <1>3, Goes
  <2>2. {"open", "cache", "held", "init", "idle"} \subseteq Places
    BY DEF Places, InitSteps
  <2>3. CASE Get(c)
    BY <2>1, <2>2, <2>3 DEF Get, At, StoreInv, StoreTyped
  <2>4. CASE Open(c)
    BY <2>1, <2>2, <2>4 DEF Open, At, IsInitialised, StoreInv, StoreTyped
  <2>5. CASE CacheRepo(c)
    BY <2>1, <2>2, <2>5 DEF CacheRepo, At, StoreInv, StoreTyped
  <2>6. CASE Release(c)
    BY <2>1, <2>2, <2>6 DEF Release, At, StoreInv, StoreTyped
  <2>. QED
    BY <2>3, <2>4, <2>5, <2>6
<1>5. GitFirst'
  BY <1>1, <1>3, <1>4 DEF StoreInv, GitFirst, NeedsGit, Nothing
<1>6. StoreTyped'
  BY <1>1, <1>3, <1>4 DEF StoreInv, StoreTyped
<1>7. Layers' /\ Seeding'
  BY <1>1, <1>3, <1>4 DEF StoreInv, Layers, Seeding
<1>8. FirstCommit'
  BY <1>1, <1>3, <1>4 DEF StoreInv, FirstCommit, InitSteps
<1>9. ~overlapped' => Edits'
  <2>1. SUFFICES ASSUME ~overlapped' PROVE Edits'
    OBVIOUS
  <2>2. Edits /\ ~overlapped
    BY <1>4, <2>1 DEF StoreInv
  <2>3. CASE place = "init"
    <3>1. \A d \in Callers : caller[d].at \notin InitSteps
      BY <1>4, <2>1, <2>3 DEF Initialising
    <3>2. ~git /\ ~cached /\ cached' = cached
      BY <1>4, <2>3 DEF StoreInv, GitFirst
    <3>3. \A d \in Callers : caller[d].at \in {"idle", "open"}
      <4>1. \A d \in Callers : caller[d].at \in Places
        BY DEF StoreInv, StoreTyped, Steps
      <4>. QED
        BY <3>1, <3>2, <4>1 DEF StoreInv, GitFirst, NeedsGit, Places
    <3>. QED
      BY <1>1, <1>3, <2>2, <2>3, <3>1, <3>2, <3>3 DEF Edits, InitSteps
  <2>4. CASE place # "init"
    <3>1. \A d \in Callers : caller'[d].at \in InitSteps => caller[d].at \in InitSteps /\ d # c
      BY <1>3, <1>4, <2>4 DEF InitSteps
    <3>2. \A d \in Callers : caller'[d].at \in InitSteps => caller[c].at \in {"idle", "open"}
      BY <2>2, <3>1 DEF Edits
    <3>3. \A d \in Callers : caller'[d].at \in InitSteps => place = "open" /\ cached' = cached
      <4>1. ASSUME NEW d \in Callers, caller'[d].at \in InitSteps PROVE place = "open" /\ cached' = cached
        <5>1. caller[d].at \in InitSteps /\ caller[c].at \in {"idle", "open"} /\ ~cached
          BY <2>2, <3>1, <3>2, <4>1 DEF Edits
        <5>2. place \notin {"cache", "init"}
          BY <1>4, <2>1, <5>1 DEF Initialising
        <5>. QED
          BY <1>4, <5>1, <5>2
      <4>. QED
        BY <4>1
    <3>. QED
      BY <1>1, <1>3, <2>2, <3>1, <3>3 DEF Edits
  <2>. QED
    BY <2>3, <2>4
<1>. QED
  BY <1>5, <1>6, <1>7, <1>8, <1>9 DEF StoreInv

\* The commands of the initialisation, of which WriteSeed is the one that overwrites.
LEMMA InitialisingKeeps ==
  ASSUME StoreInv, NEW c \in Callers,
         GitInit(c) \/ GitConfig(c) \/ WriteSeed(c) \/ MakeDirs(c) \/ GitAdd(c, "add", "commit") \/ CommitSeeds(c)
  PROVE  StoreInv'
<1>1. UNCHANGED <<cached, cut, overlapped>> /\ caller[c].at \in InitSteps
  BY DEF GitInit, GitConfig, WriteSeed, MakeDirs, GitAdd, CommitSeeds, At, InitSteps
<1>2. /\ caller' \in [Callers -> Steps]
      /\ \A d \in Callers \ {c} : caller'[d] = caller[d]
      /\ \A d \in Callers : caller'[d].todo # {} <=> caller'[d].at = "seed"
      /\ caller'[c].at \in (InitSteps \ {"init"}) \cup {"cache"}
      /\ caller'[c].at = "seed" /\ ~WriteSeed(c) => caller'[c].todo = Seeds
  <2>1. CASE WriteSeed(c)
    <3>1. PICK f \in caller[c].todo :
            IF caller[c].todo = {f} THEN Go(c, "dirs") ELSE caller' = [caller EXCEPT ![c].todo = @ \ {f}]
      BY <2>1 DEF WriteSeed
    <3>2. CASE caller[c].todo = {f}
      <4>1. "dirs" \in Places /\ "dirs" \in InitSteps \ {"init"}
        BY DEF Places, InitSteps
      <4>. QED
        BY <2>1, <3>1, <3>2, <4>1, Goes
    <3>3. CASE caller[c].todo # {f}
      <4>. DEFINE n == [caller[c] EXCEPT !.todo = @ \ {f}]
      <4>1. caller[c] \in Steps /\ caller[c].at = "seed"
        BY <2>1 DEF WriteSeed, At, StoreInv, StoreTyped
      <4>2. n \in Steps /\ n.at = "seed" /\ n.todo # {}
        BY <3>1, <3>3, <4>1 DEF Steps
      <4>. HIDE DEF n
      <4>3. caller' = [caller EXCEPT ![c] = n]
        BY <3>1, <3>3 DEF n, StoreInv, StoreTyped
      <4>4. caller' \in [Callers -> Steps] /\ \A d \in Callers : caller'[d] = IF d = c THEN n ELSE caller[d]
        BY <4>2, <4>3 DEF StoreInv, StoreTyped
      <4>. QED
        BY <2>1, <4>2, <4>4 DEF StoreInv, StoreTyped, InitSteps
    <3>. QED
      BY <3>2, <3>3
  <2>2. CASE ~WriteSeed(c)
    <3>1. PICK place \in (InitSteps \ {"init"}) \cup {"cache"} : Go(c, place)
      BY <2>2 DEF GitInit, GitConfig, MakeDirs, GitAdd, CommitSeeds, InitSteps
    <3>2. place \in Places
      BY DEF Places, InitSteps
    <3>. QED
      BY <2>2, <3>1, <3>2, Goes
  <2>. QED
    BY <2>1, <2>2
<1>3. \A x \in Places : Go(c, x) => caller'[c].at = x
  BY Goes
<1>4. {"config", "seed", "dirs", "add", "commit", "cache"} \subseteq Places
  BY DEF Places, InitSteps
<1>5. /\ git' /\ git \in BOOLEAN /\ git' \in BOOLEAN
      /\ author' \in BOOLEAN /\ dirs' \in BOOLEAN
      /\ tree' \in [Files -> States] /\ index' \in [Files -> States] /\ head' \in [Files -> States]
      /\ head' = head \/ (head' = index /\ caller'[c].at = "cache" /\ caller[c].at = "commit")
      /\ index' = index \/ (index' = tree /\ caller[c].at = "add")
      /\ \A f \in Files : tree'[f] = tree[f] \/ tree'[f] = "seed"
      /\ caller'[c].at = "commit" => caller[c].at = "add" /\ index' = tree
      /\ caller'[c].at = "cache" => head' = index /\ caller[c].at = "commit"
      /\ caller'[c].at = "add" => caller[c].at = "dirs"
      /\ ~(head' # head /\ index' # index) /\ ~(index' # index /\ tree' # tree)
  <2>1. CASE WriteSeed(c)
    <3>1. caller[c].at = "seed" /\ UNCHANGED <<git, author, dirs, index, head>>
      BY <2>1 DEF WriteSeed, At
    <3>2. git
      BY <3>1 DEF StoreInv, GitFirst, NeedsGit
    <3>3. PICK f \in caller[c].todo :
            /\ tree' = [tree EXCEPT ![f] = "seed"]
            /\ IF caller[c].todo = {f} THEN Go(c, "dirs") ELSE caller' = [caller EXCEPT ![c].todo = @ \ {f}]
      BY <2>1 DEF WriteSeed
    <3>4. f \in Files
      BY DEF StoreInv, StoreTyped, Steps, Files
    <3>5. caller'[c].at \in {"dirs", "seed"}
      BY <1>3, <1>4, <3>1, <3>3 DEF StoreInv, StoreTyped, Steps
    <3>6. tree' \in [Files -> States] /\ \A x \in Files : tree'[x] = tree[x] \/ tree'[x] = "seed"
      BY <3>3, <3>4 DEF StoreInv, StoreTyped, States
    <3>7. git \in BOOLEAN /\ author \in BOOLEAN /\ dirs \in BOOLEAN
          /\ index \in [Files -> States] /\ head \in [Files -> States]
      BY DEF StoreInv, StoreTyped
    <3>8. caller'[c].at \notin {"add", "commit", "cache"}
      BY <3>5
    <3>. QED
      BY <3>1, <3>2, <3>6, <3>7, <3>8
  <2>2. CASE ~WriteSeed(c)
    <3>1. git \/ GitInit(c)
      BY <2>2 DEF GitConfig, MakeDirs, GitAdd, CommitSeeds, At, StoreInv, GitFirst, NeedsGit
    <3>2. git \in BOOLEAN /\ author \in BOOLEAN /\ dirs \in BOOLEAN /\ tree \in [Files -> States]
          /\ index \in [Files -> States] /\ head \in [Files -> States]
      BY DEF StoreInv, StoreTyped
    <3>3. CASE GitInit(c)
      <4>1. caller'[c].at = "config" /\ UNCHANGED <<author, dirs, tree, index, head>> /\ git' = TRUE
        BY <1>3, <1>4, <3>3 DEF GitInit
      <4>. QED
        BY <3>2, <4>1
    <3>4. CASE GitConfig(c)
      <4>1. caller'[c].at = "seed" /\ UNCHANGED <<git, dirs, tree, index, head>> /\ author' = TRUE
        BY <1>3, <1>4, <3>4 DEF GitConfig
      <4>. QED
        BY <3>1, <3>2, <4>1 DEF GitInit
    <3>5. CASE MakeDirs(c)
      <4>1. caller[c].at = "dirs" /\ caller'[c].at = "add" /\ UNCHANGED <<git, author, tree, index, head>> /\ dirs' = TRUE
        BY <1>3, <1>4, <3>5 DEF MakeDirs, At
      <4>. QED
        BY <3>1, <3>2, <4>1 DEF GitInit
    <3>6. CASE GitAdd(c, "add", "commit")
      <4>1. caller[c].at = "add" /\ caller'[c].at = "commit" /\ UNCHANGED <<git, author, dirs, tree, head>> /\ index' = tree
        BY <1>3, <1>4, <3>6 DEF GitAdd, At
      <4>. QED
        BY <3>1, <3>2, <4>1 DEF GitInit
    <3>7. CASE CommitSeeds(c)
      <4>1. caller[c].at = "commit" /\ caller'[c].at = "cache" /\ UNCHANGED <<git, author, dirs, tree, index>> /\ head' = index
        BY <1>3, <1>4, <3>7 DEF CommitSeeds, At
      <4>. QED
        BY <3>1, <3>2, <4>1 DEF GitInit
    <3>. QED
      BY <2>2, <3>3, <3>4, <3>5, <3>6, <3>7
  <2>. QED
    BY <2>1, <2>2
<1>6. StoreTyped'
  BY <1>1, <1>2, <1>5 DEF StoreInv, StoreTyped
<1>7. GitFirst'
  BY <1>5 DEF GitFirst
<1>8. Layers'
  BY <1>5 DEF StoreInv, Layers
<1>9. Seeding'
  <2>1. ASSUME NEW d \in Callers, NEW f \in Seeds, d # c
        PROVE  /\ caller'[d].at \in {"dirs", "add", "commit"} \/ (caller'[d].at = "seed" /\ f \notin caller'[d].todo)
                    => tree'[f] # "absent"
               /\ caller'[d].at = "commit" => index'[f] # "absent"
    <3>1. f \in Files /\ caller'[d] = caller[d]
      BY <1>2, <2>1 DEF Files
    <3>. QED
      BY <1>5, <3>1 DEF StoreInv, Seeding, Layers
  <2>2. ASSUME NEW f \in Seeds
        PROVE  /\ caller'[c].at \in {"dirs", "add", "commit"} \/ (caller'[c].at = "seed" /\ f \notin caller'[c].todo)
                    => tree'[f] # "absent"
               /\ caller'[c].at = "commit" => index'[f] # "absent"
    <3>1. f \in Files
      BY DEF Files
    <3>2. CASE WriteSeed(c)
      <4>1. PICK e \in caller[c].todo :
              /\ tree' = [tree EXCEPT ![e] = "seed"]
              /\ IF caller[c].todo = {e} THEN Go(c, "dirs") ELSE caller' = [caller EXCEPT ![c].todo = @ \ {e}]
        BY <3>2 DEF WriteSeed
      <4>2. caller[c].at = "seed" /\ (f \notin caller[c].todo => tree[f] # "absent")
        BY <3>2 DEF WriteSeed, At, StoreInv, Seeding
      <4>3. tree'[f] = IF f = e THEN "seed" ELSE tree[f]
        BY <3>1, <4>1 DEF StoreInv, StoreTyped
      <4>4. CASE caller[c].todo = {e}
        BY <1>3, <1>4, <4>1, <4>2, <4>3, <4>4
      <4>5. CASE caller[c].todo # {e}
        <5>1. caller'[c].at = "seed" /\ caller'[c].todo = caller[c].todo \ {e}
          BY <4>1, <4>2, <4>5 DEF StoreInv, StoreTyped, Steps
        <5>. QED
          BY <4>2, <4>3, <5>1
      <4>. QED
        BY <4>4, <4>5
    <3>3. CASE ~WriteSeed(c)
      <4>1. caller'[c].at # "dirs"
        BY <1>3, <1>4, <3>3 DEF GitInit, GitConfig, MakeDirs, GitAdd, CommitSeeds, At
      <4>. QED
        BY <1>2, <1>5, <3>1, <3>3, <4>1 DEF StoreInv, Seeding
    <3>. QED
      BY <3>2, <3>3
  <2>. QED
    BY <2>1, <2>2 DEF Seeding
<1>10. FirstCommit'
  <2>1. CASE caller'[c].at = "cache"
    BY <1>5, <2>1 DEF StoreInv, Seeding, FirstCommit
  <2>2. CASE caller'[c].at # "cache"
    BY <1>2, <2>2 DEF FirstCommit
  <2>. QED
    BY <2>1, <2>2
<1>11. ~overlapped' => Edits'
  <2>1. SUFFICES ASSUME ~overlapped' PROVE Edits'
    OBVIOUS
  <2>2. Edits
    BY <1>1, <2>1 DEF StoreInv
  <2>3. ~cached' /\ \A f \in Files : tree'[f] # "edited" /\ index'[f] # "edited" /\ head'[f] # "edited"
    BY <1>1, <1>5, <2>2 DEF Edits
  <2>4. \A d \in Callers : caller'[d].at \in InitSteps => \A e \in Callers \ {d} : caller'[e].at \in {"idle", "open"}
    BY <1>1, <1>2, <2>2 DEF Edits, InitSteps
  <2>. QED
    BY <2>3, <2>4 DEF Edits
<1>. QED
  BY <1>6, <1>7, <1>8, <1>9, <1>10, <1>11 DEF StoreInv

\* A bundle: only a caller that was handed the repository writes one.
LEMMA BundleKeeps ==
  ASSUME StoreInv, NEW c \in Callers,
         (\E f \in Files : PatchFile(c, f)) \/ GitAdd(c, "stage", "land") \/ CommitBundle(c)
  PROVE  StoreInv'
<1>1. UNCHANGED <<cached, git, author, dirs, cut, overlapped>> /\ caller[c].at \in {"held", "stage", "land"}
  BY DEF PatchFile, GitAdd, CommitBundle, At
<1>2. PICK place \in {"stage", "land", "idle"} : Go(c, place)
  BY DEF PatchFile, GitAdd, CommitBundle
<1>3. /\ caller' \in [Callers -> Steps] /\ caller'[c].at = place
      /\ \A d \in Callers \ {c} : caller'[d] = caller[d]
      /\ \A d \in Callers : caller'[d].todo # {} <=> caller'[d].at = "seed"
  BY <1>2, Goes DEF Places
<1>4. git
  BY <1>1 DEF StoreInv, GitFirst, NeedsGit
<1>5. /\ tree \in [Files -> States] /\ index \in [Files -> States] /\ head \in [Files -> States]
  BY DEF StoreInv, StoreTyped
<1>6. /\ tree' \in [Files -> States] /\ index' \in [Files -> States] /\ head' \in [Files -> States]
      /\ \A f \in Files : tree'[f] = tree[f] \/ tree'[f] = "edited"
      /\ \/ UNCHANGED <<index, head>>
         \/ index' = tree /\ UNCHANGED <<tree, head>>
         \/ head' = index /\ UNCHANGED <<tree, index>>
  <2>1. CASE \E f \in Files : PatchFile(c, f)
    <3>1. PICK f \in Files : PatchFile(c, f)
      BY <2>1
    <3>. QED
      BY <1>5, <3>1 DEF PatchFile, States
  <2>2. CASE GitAdd(c, "stage", "land") \/ CommitBundle(c)
    BY <1>5, <2>2 DEF GitAdd, CommitBundle
  <2>. QED
    BY <2>1, <2>2
<1>7. StoreTyped'
  BY <1>1, <1>3, <1>6 DEF StoreInv, StoreTyped
<1>8. GitFirst'
  BY <1>1, <1>4 DEF GitFirst
<1>9. Layers'
  BY <1>6 DEF StoreInv, Layers
<1>10. Seeding'
  BY <1>3, <1>6 DEF StoreInv, Seeding, Layers, Files
<1>11. FirstCommit'
  <2>1. \A d \in Callers : caller[d].at \in InitSteps => caller'[d] = caller[d]
    BY <1>1, <1>3 DEF InitSteps
  <2>2. \A f \in Files : head[f] # "absent" => head'[f] # "absent"
    BY <1>6 DEF StoreInv, Layers
  <2>. QED
    BY <1>1, <2>1, <2>2 DEF StoreInv, FirstCommit, Files
<1>12. ~overlapped' => Edits'
  <2>1. SUFFICES ASSUME ~overlapped' PROVE Edits'
    OBVIOUS
  <2>2. Edits
    BY <1>1, <2>1 DEF StoreInv
  <2>3. \A d \in Callers : caller[d].at \notin InitSteps
    BY <1>1, <2>2 DEF Edits, InitSteps
  <2>4. \A d \in Callers : caller'[d].at \notin InitSteps
    BY <1>3, <2>3 DEF InitSteps
  <2>. QED
    BY <1>1, <1>4, <1>6, <2>2, <2>4 DEF Edits
<1>. QED
  BY <1>7, <1>8, <1>9, <1>10, <1>11, <1>12 DEF StoreInv

\* Who gives up in the middle of an initialisation has cut it.
LEMMA FailuresKeep ==
  ASSUME StoreInv, Restart \/ \E c \in Callers : CallFails(c)
  PROVE  StoreInv'
<1>1. UNCHANGED <<git, author, dirs, tree, index, head, overlapped>>
  BY DEF Restart, CallFails, repoVars
<1>. DEFINE GaveUp ==
       /\ caller' \in [Callers -> Steps] /\ cut' \in BOOLEAN /\ cached' \in BOOLEAN
       /\ \A d \in Callers : caller'[d].todo # {} <=> caller'[d].at = "seed"
       /\ \A d \in Callers : \/ caller'[d] = caller[d]
                             \/ caller'[d].at = "idle" /\ (caller[d].at \in InitSteps \ {"init"} => cut')
       /\ (cut => cut') /\ (cached' => cached)
<1>2. ASSUME Restart PROVE GaveUp
  <2>1. \A d \in Callers : caller'[d].at = "idle" /\ caller'[d].todo = {}
    BY <1>2 DEF Restart
  <2>2. caller' \in [Callers -> Steps]
    BY <1>2 DEF Restart, Steps, Places
  <2>3. cut' = CutBy(Callers) /\ cached' = FALSE
    BY <1>2 DEF Restart
  <2>. QED
    BY <2>1, <2>2, <2>3 DEF CutBy, StoreInv, StoreTyped
<1>3. ASSUME \E c \in Callers : CallFails(c) PROVE GaveUp
  <2>1. PICK c \in Callers : CallFails(c)
    BY <1>3
  <2>2. Go(c, "idle") /\ cut' = CutBy({c}) /\ cached' = cached
    BY <2>1 DEF CallFails
  <2>3. "idle" \in Places
    BY DEF Places
  <2>4. /\ caller' \in [Callers -> Steps]
        /\ \A d \in Callers : caller'[d].todo # {} <=> caller'[d].at = "seed"
        /\ \A d \in Callers : d # c => caller'[d] = caller[d]
        /\ caller'[c].at = "idle"
    BY <2>2, <2>3, Goes
  <2>5. cut' \in BOOLEAN /\ (cut => cut') /\ (caller[c].at \in InitSteps \ {"init"} => cut')
    BY <2>2 DEF CutBy, StoreInv, StoreTyped
  <2>. QED
    BY <2>2, <2>4, <2>5 DEF StoreInv, StoreTyped
<1>4. GaveUp
  BY <1>2, <1>3
<1>5. StoreTyped'
  BY <1>1, <1>4 DEF StoreInv, StoreTyped
<1>6. GitFirst'
  BY <1>1, <1>4 DEF StoreInv, GitFirst, NeedsGit
<1>7. Layers'
  BY <1>1 DEF StoreInv, Layers
<1>8. Seeding'
  BY <1>1, <1>4 DEF StoreInv, Seeding
<1>9. FirstCommit'
  BY <1>1, <1>4 DEF StoreInv, FirstCommit
<1>10. ~overlapped' => Edits'
  <2>1. \A d \in Callers : caller'[d] = caller[d] \/ caller'[d].at = "idle"
    BY <1>4
  <2>2. \A d \in Callers : caller'[d].at \in InitSteps => caller'[d] = caller[d]
    BY <2>1 DEF InitSteps
  <2>. QED
    BY <1>1, <1>4, <2>1, <2>2 DEF StoreInv, Edits
<1>. QED
  BY <1>5, <1>6, <1>7, <1>8, <1>9, <1>10 DEF StoreInv

LEMMA StoreNextKeeps == StoreInv /\ [WikiStoreNext]_wikiStoreVars => StoreInv'
<1>1. SUFFICES ASSUME StoreInv, [WikiStoreNext]_wikiStoreVars PROVE StoreInv'
  OBVIOUS
<1>2. ASSUME NEW c \in Callers, Get(c) \/ Open(c) \/ CacheRepo(c) \/ Release(c) PROVE StoreInv'
  BY <1>1, <1>2, LookingKeeps
<1>3. ASSUME NEW c \in Callers,
             GitInit(c) \/ GitConfig(c) \/ WriteSeed(c) \/ MakeDirs(c) \/ GitAdd(c, "add", "commit") \/ CommitSeeds(c)
      PROVE  StoreInv'
  BY <1>1, <1>3, InitialisingKeeps
<1>4. ASSUME NEW c \in Callers, (\E f \in Files : PatchFile(c, f)) \/ GitAdd(c, "stage", "land") \/ CommitBundle(c)
      PROVE  StoreInv'
  BY <1>1, <1>4, BundleKeeps
<1>5. CASE Restart \/ \E c \in Callers : CallFails(c)
  BY <1>1, <1>5, FailuresKeep
<1>6. CASE UNCHANGED wikiStoreVars
  <2>1. UNCHANGED <<cached, git, author, dirs, tree, index, head, caller, cut, overlapped>>
    BY <1>6 DEF wikiStoreVars, repoVars
  <2>. QED
    BY <1>1, <2>1 DEF StoreInv, StoreTyped, GitFirst, Layers, Seeding, FirstCommit, Edits
<1>. QED
  BY <1>1, <1>2, <1>3, <1>4, <1>5, <1>6 DEF WikiStoreNext

LEMMA StoreInvHolds == WikiStoreSpec => []StoreInv
  BY StoreStarts, StoreNextKeeps, PTL DEF WikiStoreSpec

\* Type correctness of the repository: only a repository that was made has an author, a
\* commit or a place in the cache.
THEOREM WikiStoreTypeCorrect == WikiStoreSpec => []WikiStoreTypeOK
<1>1. StoreInv => WikiStoreTypeOK
  BY DEF StoreInv, StoreTyped, GitFirst, WikiStoreTypeOK, Steps, States
<1>. QED
  BY <1>1, StoreInvHolds, PTL

\* WikiRepoStore::get and open_or_init: however many callers come at once and whatever
\* command fails, a repository that is handed out has been seeded and committed, unless
\* an initialisation was cut short or is still under way.
THEOREM HandedOutAlwaysSeeded == WikiStoreSpec => []HandedOutIsSeeded
<1>1. ASSUME StoreInv PROVE HandedOutIsSeeded
  <2>1. SUFFICES ASSUME NEW c \in Callers, At(c, "held"), Initialising = {}, ~cut, NEW f \in Seeds
                 PROVE  head[f] # "absent" /\ tree[f] # "absent"
    BY DEF HandedOutIsSeeded
  <2>2. git
    BY <1>1, <2>1 DEF StoreInv, GitFirst, NeedsGit, At
  <2>3. head[f] # "absent"
    BY <1>1, <2>1, <2>2 DEF StoreInv, FirstCommit, Initialising
  <2>. QED
    BY <1>1, <2>3 DEF StoreInv, Layers, Files
<1>. QED
  BY <1>1, StoreInvHolds, PTL

\* A step that finds an edit committed leaves it there.
LEMMA EditsAreKept ==
  ASSUME StoreInv, [WikiStoreNext]_wikiStoreVars, NEW f \in Files, head[f] = "edited", ~overlapped
  PROVE  head'[f] = "edited" /\ tree'[f] = "edited"
<1>1. tree[f] = "edited" /\ index[f] = "edited" /\ Edits
  BY DEF StoreInv, Edits
<1>2. \A c \in Callers : ~WriteSeed(c)
  BY <1>1 DEF WriteSeed, At, Edits, InitSteps
<1>3. head' = head \/ head' = index
  BY <1>2 DEF WikiStoreNext, Get, Open, CacheRepo, Release, GitInit, GitConfig, MakeDirs, GitAdd, CommitSeeds, PatchFile,
              CommitBundle, CallFails, Restart, wikiStoreVars, repoVars
<1>4. tree' = tree \/ \E x \in Files : tree' = [tree EXCEPT ![x] = "edited"]
  BY <1>2 DEF WikiStoreNext, Get, Open, CacheRepo, Release, GitInit, GitConfig, MakeDirs, GitAdd, CommitSeeds, PatchFile,
              CommitBundle, CallFails, Restart, wikiStoreVars, repoVars
<1>. QED
  BY <1>1, <1>3, <1>4 DEF StoreInv, StoreTyped

\* open_or_init next to commit_bundle: once an edit is committed no initialisation writes
\* the seed over it, in the working tree or in a commit, unless a caller opened the
\* repository while another was initialising it.
THEOREM EditsAlwaysStay == WikiStoreSpec => EditsStay
<1>1. StoreInv /\ [WikiStoreNext]_wikiStoreVars =>
        [\A f \in Files : head[f] = "edited" =>
           overlapped \/ (head'[f] = "edited" /\ tree'[f] = "edited")]_wikiStoreVars
  BY EditsAreKept DEF StoreInv, StoreTyped
<1>. QED
  BY <1>1, StoreInvHolds, PTL DEF WikiStoreSpec, EditsStay

-----------------------------------------------------------------------------
(* Chats, searches and fetches.  What a caller has been given stays within *)
(* the caps because what may still be loaded does.                         *)

FoundHits == [path : WikiPages, shown : SUBSET Cited]
Reads == [path : WikiPages, cites : SUBSET Cited, shown : SUBSET Cited]

Chats == [op : {"chat", "search", "page"}, at : {"gather", "tool", "search", "ask", "hits", "answer", "over"},
          turn : 0..GATHER_TURNS, read : Reads \cup {NoRead}, todo : SUBSET FoundHits, loaded : SUBSET Reads,
          allowed : SUBSET Reads, total : 0..(4 * MAX_CONTEXT_BYTES)]

Unread(c) == IF c.read = NoRead THEN 0 ELSE 1

LoadCap(c) == IF c.op = "chat" THEN MAX_PAGES_LOADED ELSE 1
ListCap(c) == IF c.op = "chat" THEN TOOL_LIMIT ELSE SEARCH_LIMIT

Capped(c) ==
  /\ Cardinality(c.loaded) <= LoadCap(c) /\ Cardinality(c.allowed) <= ListCap(c)
  /\ c.at \in {"gather", "tool"} => /\ c.op = "chat" /\ c.turn < GATHER_TURNS
                                   /\ Cardinality(c.loaded) < MAX_PAGES_LOADED /\ c.total < MAX_CONTEXT_BYTES
  /\ c.at = "gather" => c.allowed = {}
  /\ c.at = "tool" => Cardinality(c.allowed) + Cardinality(c.todo) + Unread(c) <= TOOL_LIMIT
  /\ c.at \in {"search", "ask"} => c.loaded = {} /\ c.allowed = {} /\ c.read = NoRead
  /\ c.at = "ask" => c.todo = {}
  /\ c.at = "search" => c.op = "chat"
  /\ c.at = "hits" =>
       /\ c.op = "search" => Cardinality(c.allowed) < SEARCH_LIMIT
       /\ c.op # "search" => Cardinality(c.loaded) + Cardinality(c.todo) + Unread(c) <= LoadCap(c)

Finite(c) == IsFiniteSet(c.loaded) /\ IsFiniteSet(c.allowed) /\ IsFiniteSet(c.todo)

ChatOK(c) == c \in Chats /\ Finite(c) /\ Capped(c)

Quiet(c) == c.op # "chat" \/ c.at \in {"gather", "tool", "search", "ask", "hits"}

ChatInv ==
  /\ cites \in [WikiPages -> (SUBSET Cited) \cup {Missing}]
  /\ indexed \in [WikiPages -> (SUBSET Cited) \cup {Missing}]
  /\ groups \in [Cited -> (SUBSET AllGroups) \cup {Missing}]
  /\ ChatOK(chat)
  /\ stream \in {"", "meta", "token", "done", "error"}
  /\ Quiet(chat) => stream = ""

LEMMA CapsAreNumbers ==
  /\ GATHER_TURNS \in Nat \ {0} /\ MAX_PAGES_LOADED \in Nat \ {0} /\ MAX_CONTEXT_BYTES \in Nat \ {0}
  /\ MIN_TAKE \in Nat \ {0} /\ TOOL_LIMIT \in Nat \ {0}
  /\ MaxPages \in Nat /\ SEARCH_LIMIT \in Nat
  /\ \A c : LoadCap(c) \in Nat \ {0} /\ ListCap(c) \in Nat
  BY ChatRetrievalAssumption DEF LoadCap, ListCap

\* The numbers of what a chat has loaded, let through and still to look at.
LEMMA ChatNumbers ==
  ASSUME NEW c, Finite(c)
  PROVE  Cardinality(c.loaded) \in Nat /\ Cardinality(c.allowed) \in Nat /\ Cardinality(c.todo) \in Nat
         /\ Unread(c) \in {0, 1}
  BY FS_CardinalityType DEF Finite, Unread

LEMMA NothingLoaded == IsFiniteSet({}) /\ Cardinality({}) = 0
  BY FS_EmptySet

\* Loading a page adds at most one to what is loaded.
LEMMA LoadedGrows ==
  ASSUME NEW S, IsFiniteSet(S), NEW r
  PROVE  /\ IsFiniteSet(S \cup {r}) /\ Cardinality(S) \in Nat
         /\ Cardinality(S \cup {r}) \in Nat /\ Cardinality(S \cup {r}) <= Cardinality(S) + 1
  BY FS_CardinalityType, FS_AddElement

LEMMA ChatStarts == ChatRetrievalInit => ChatInv
<1>1. SUFFICES ASSUME ChatRetrievalInit PROVE ChatInv
  OBVIOUS
<1>2. PICK op \in {"chat", "search", "page"} :
        chat = [op |-> op, at |-> IF op = "chat" THEN "gather" ELSE "ask", turn |-> 0, read |-> NoRead,
                todo |-> {}, loaded |-> {}, allowed |-> {}, total |-> 0]
  BY <1>1 DEF ChatRetrievalInit
<1>3. 0 \in 0..GATHER_TURNS /\ 0 \in 0..(4 * MAX_CONTEXT_BYTES)
  BY CapsAreNumbers
<1>4. chat \in Chats
  BY <1>2, <1>3 DEF Chats
<1>5. chat.loaded = {} /\ chat.allowed = {} /\ chat.todo = {} /\ chat.read = NoRead /\ chat.total = 0 /\ chat.turn = 0
      /\ chat.at \in {"gather", "ask"} /\ (chat.at = "gather" => chat.op = "chat")
  BY <1>2
<1>6. Capped(chat) /\ Finite(chat)
  BY <1>5, CapsAreNumbers, NothingLoaded DEF Capped, Finite
<1>7. /\ cites \in [WikiPages -> (SUBSET Cited) \cup {Missing}]
      /\ indexed \in [WikiPages -> (SUBSET Cited) \cup {Missing}]
      /\ groups \in [Cited -> (SUBSET AllGroups) \cup {Missing}]
      /\ stream = ""
  BY <1>1 DEF ChatRetrievalInit
<1>. QED
  BY <1>4, <1>6, <1>7 DEF ChatInv, ChatOK

\* A step of the chat alone.
LEMMA ChatMoves ==
  ASSUME ChatInv, UNCHANGED <<cites, indexed, groups, stream>>, ChatOK(chat'),
         Quiet(chat') => Quiet(chat) \/ stream = ""
  PROVE  ChatInv'
  BY DEF ChatInv, ChatOK, Chats, Reads, FoundHits, Finite, Capped, LoadCap, ListCap, Quiet, Unread

\* The loop of the agent ends with what it has loaded.
LEMMA GatheredOK ==
  ASSUME NEW c \in Chats, Finite(c), c.read = NoRead, c.op = "chat", c.allowed = {},
         Cardinality(c.loaded) <= MAX_PAGES_LOADED
  PROVE  ChatOK(Gathered(c)) /\ Gathered(c).op = "chat" /\ Gathered(c).loaded = c.loaded
<1>. DEFINE at == IF c.loaded = {} THEN "search" ELSE "answer"
            n == [c EXCEPT !.at = at]
<1>1. n \in Chats /\ n.at = at /\ n.op = c.op /\ n.loaded = c.loaded /\ n.allowed = {} /\ n.read = NoRead
      /\ n.todo = c.todo
  BY DEF Chats
<1>2. Gathered(c) = n
  BY DEF Gathered
<1>. HIDE DEF n
<1>3. Finite(n)
  BY <1>1 DEF Finite
<1>4. Capped(n)
  BY <1>1, NothingLoaded, CapsAreNumbers DEF Capped, LoadCap
<1>. QED
  BY <1>1, <1>2, <1>3, <1>4 DEF ChatOK

\* A character is of at most four bytes.
LEMMA FourBytes ==
  ASSUME NEW w \in 1..4, NEW n \in Nat
  PROVE  w * n \in Nat /\ w * n <= 4 * n
<1>1. w = 1 \/ w = 2 \/ w = 3 \/ w = 4
  OBVIOUS
<1>2. CASE w = 1
  BY <1>2
<1>3. CASE w = 2
  BY <1>3
<1>4. CASE w = 3
  BY <1>4
<1>5. CASE w = 4
  BY <1>5
<1>. QED
  BY <1>1, <1>2, <1>3, <1>4, <1>5

\* The overshoot: what one page brings beyond the cap.
LEMMA TakeFits ==
  ASSUME NEW p \in WikiPages, chat.total \in 0..(4 * MAX_CONTEXT_BYTES), chat.total < MAX_CONTEXT_BYTES
  PROVE  chat.total + Take(p) \in 0..(4 * MAX_CONTEXT_BYTES)
<1>. DEFINE left == MAX_CONTEXT_BYTES - chat.total
            take_chars == IF left < MIN_TAKE THEN MIN_TAKE ELSE left
            n == Least2(PageChars[p], take_chars)
<1>1. PageChars[p] \in Nat /\ CharBytes[p] \in 1..4 /\ 4 * MIN_TAKE <= 3 * MAX_CONTEXT_BYTES
  BY ChatRetrievalAssumption
<1>2. take_chars \in Nat /\ chat.total + 4 * take_chars <= 4 * MAX_CONTEXT_BYTES
  BY <1>1, CapsAreNumbers
<1>. HIDE DEF take_chars
<1>3. n \in Nat /\ n <= take_chars
  BY <1>1, <1>2 DEF Least2
<1>4. Take(p) = CharBytes[p] * n
  BY DEF Take, take_chars
<1>. HIDE DEF n
<1>5. Take(p) \in Nat /\ Take(p) <= 4 * n
  BY <1>1, <1>3, <1>4, FourBytes
<1>. QED
  BY <1>2, <1>3, <1>5, CapsAreNumbers

\* A text that is read as it is.
LEMMA OwnTextRead ==
  ASSUME ChatInv, NEW p \in WikiPages, cites[p] # Missing
  PROVE  OwnText(p) \in Reads
  BY DEF ChatInv, OwnText, Reads

LEMMA GatherKeeps ==
  ASSUME ChatInv, (\E p \in WikiPages : ReadPageCall(p)) \/ LoadPage \/ EndGatherTurn
  PROVE  ChatInv'
<1>1. UNCHANGED <<cites, indexed, groups, stream>> /\ chat.at = "gather" /\ Quiet(chat)
  BY DEF ReadPageCall, LoadPage, EndGatherTurn, worldVars, Quiet
<1>2. /\ chat \in Chats /\ Finite(chat) /\ chat.op = "chat" /\ chat.turn < GATHER_TURNS /\ chat.allowed = {}
      /\ Cardinality(chat.loaded) < MAX_PAGES_LOADED /\ chat.total < MAX_CONTEXT_BYTES
      /\ Cardinality(chat.loaded) \in Nat
  BY <1>1, ChatNumbers DEF ChatInv, ChatOK, Capped
<1>3. ASSUME NEW p \in WikiPages, ReadPageCall(p) PROVE ChatOK(chat')
  <2>. DEFINE r == OwnText(p)
  <2>1. r \in Reads /\ chat' = [chat EXCEPT !.read = r]
    BY <1>3, OwnTextRead DEF ReadPageCall
  <2>. HIDE DEF r
  <2>2. chat' \in Chats
    BY <1>2, <2>1 DEF Chats
  <2>3. /\ chat'.at = "gather" /\ chat'.op = "chat" /\ chat'.loaded = chat.loaded /\ chat'.turn = chat.turn
        /\ chat'.total = chat.total /\ chat'.allowed = {} /\ chat'.todo = chat.todo
    BY <1>1, <1>2, <2>1 DEF Chats
  <2>. QED
    BY <1>2, <2>2, <2>3, CapsAreNumbers, NothingLoaded DEF ChatOK, Capped, Finite, LoadCap
<1>4. ASSUME LoadPage PROVE ChatOK(chat')
  <2>. DEFINE r == chat.read
              new == UserCanRead(r.cites) /\ \A l \in chat.loaded : l.path # r.path
              c == IF new THEN [chat EXCEPT !.read = NoRead, !.loaded = @ \cup {r}, !.total = @ + Take(r.path)]
                   ELSE [chat EXCEPT !.read = NoRead]
              full == Cardinality(c.loaded) >= MAX_PAGES_LOADED \/ c.total >= MAX_CONTEXT_BYTES
  <2>1. r # NoRead /\ chat' = IF full THEN Gathered(c) ELSE c
    BY <1>4 DEF LoadPage
  <2>2. r \in Reads
    BY <1>2, <2>1 DEF Chats
  <2>3. chat.total \in 0..(4 * MAX_CONTEXT_BYTES) /\ chat.total + Take(r.path) \in 0..(4 * MAX_CONTEXT_BYTES)
    BY <1>2, <2>2, TakeFits DEF Chats, Reads
  <2>4. chat.loaded \cup {r} \in SUBSET Reads
    BY <1>2, <2>2 DEF Chats
  <2>5. c \in Chats
    <3>1. [chat EXCEPT !.read = NoRead] \in Chats
      BY <1>2 DEF Chats
    <3>2. [chat EXCEPT !.read = NoRead, !.loaded = @ \cup {r}, !.total = @ + Take(r.path)] \in Chats
      BY <1>2, <2>3, <2>4 DEF Chats
    <3>. QED
      BY <3>1, <3>2
  <2>6. /\ c.read = NoRead /\ c.op = "chat" /\ c.at = "gather" /\ c.turn = chat.turn
        /\ c.loaded = chat.loaded \/ c.loaded = chat.loaded \cup {r}
        /\ c.allowed = {} /\ c.todo = chat.todo
    BY <1>1, <1>2 DEF Chats
  <2>. HIDE DEF c
  <2>7. Finite(c) /\ Cardinality(c.loaded) \in Nat /\ Cardinality(c.loaded) <= MAX_PAGES_LOADED
    <3>1. CASE c.loaded = chat.loaded
      BY <1>2, <2>6, <3>1, CapsAreNumbers DEF Finite
    <3>2. CASE c.loaded = chat.loaded \cup {r}
      <4>. DEFINE S == chat.loaded
      <4>1. IsFiniteSet(S)
        BY <1>2 DEF Finite
      <4>2. /\ IsFiniteSet(S \cup {r}) /\ Cardinality(S) \in Nat
            /\ Cardinality(S \cup {r}) \in Nat /\ Cardinality(S \cup {r}) <= Cardinality(S) + 1
        BY <4>1, LoadedGrows
      <4>. QED
        BY <1>2, <2>6, <3>2, <4>2, CapsAreNumbers DEF Finite
    <3>. QED
      BY <2>6, <3>1, <3>2
  <2>8. c.total \in Nat
    <3>1. c.total \in 0..(4 * MAX_CONTEXT_BYTES)
      BY <2>5 DEF Chats
    <3>. QED
      BY <3>1, CapsAreNumbers
  <2>9. CASE full
    <3>1. chat' = Gathered(c)
      BY <2>1, <2>9
    <3>2. ChatOK(Gathered(c))
      BY <2>5, <2>6, <2>7, GatheredOK
    <3>. QED
      BY <3>1, <3>2
  <2>10. CASE ~full
    <3>1. chat' = c
      BY <2>1, <2>10
    <3>2. Cardinality(c.loaded) < MAX_PAGES_LOADED /\ c.total < MAX_CONTEXT_BYTES
      BY <2>7, <2>8, <2>10, CapsAreNumbers
    <3>3. Capped(c)
      BY <1>2, <2>6, <2>7, <3>2, CapsAreNumbers, NothingLoaded DEF Capped, LoadCap
    <3>. QED
      BY <2>5, <2>7, <3>1, <3>3 DEF ChatOK
  <2>. QED
    BY <2>9, <2>10
<1>5. ASSUME EndGatherTurn PROVE ChatOK(chat')
  <2>1. chat.read = NoRead
    BY <1>5 DEF EndGatherTurn
  <2>2. CASE chat' = Gathered(chat)
    BY <1>2, <2>1, <2>2, GatheredOK, CapsAreNumbers
  <2>3. CASE LET c == [chat EXCEPT !.turn = @ + 1]
             IN chat' = IF c.turn = GATHER_TURNS THEN Gathered(c) ELSE c
    <3>. DEFINE c == [chat EXCEPT !.turn = @ + 1]
    <3>1. chat.turn + 1 \in 0..GATHER_TURNS
      BY <1>2, CapsAreNumbers DEF Chats
    <3>2. c \in Chats /\ c.turn = chat.turn + 1
      BY <1>2, <3>1 DEF Chats
    <3>3. c.read = NoRead /\ c.op = "chat" /\ c.at = "gather" /\ c.loaded = chat.loaded /\ c.total = chat.total
          /\ c.allowed = {} /\ c.todo = chat.todo
      BY <1>1, <1>2, <2>1 DEF Chats
    <3>4. chat' = IF c.turn = GATHER_TURNS THEN Gathered(c) ELSE c
      BY <2>3
    <3>. HIDE DEF c
    <3>5. Finite(c)
      BY <1>2, <3>3 DEF Finite
    <3>6. CASE c.turn = GATHER_TURNS
      BY <1>2, <3>2, <3>3, <3>4, <3>5, <3>6, GatheredOK, CapsAreNumbers
    <3>7. CASE c.turn # GATHER_TURNS
      BY <1>2, <3>1, <3>2, <3>3, <3>4, <3>5, <3>7, CapsAreNumbers, NothingLoaded DEF ChatOK, Capped, LoadCap
    <3>. QED
      BY <3>6, <3>7
  <2>. QED
    BY <1>5, <2>2, <2>3 DEF EndGatherTurn
<1>. QED
  BY <1>1, <1>3, <1>4, <1>5, ChatMoves

\* What a search finds: no more than it is asked for.
LEMMA SearchFinds ==
  ASSUME ChatInv, NEW k \in Nat, NEW hits \in DoSearch(k)
  PROVE  hits \in SUBSET FoundHits /\ IsFiniteSet(hits) /\ Cardinality(hits) \in Nat /\ Cardinality(hits) <= k
<1>1. PICK texts \in {indexed, cites} :
        \E S \in SUBSET WikiPages : /\ \A p \in S : texts[p] # Missing
                                   /\ Cardinality(S) <= k
                                   /\ hits = {[path |-> p, shown |-> texts[p]] : p \in S}
  BY DEF DoSearch
<1>2. PICK S \in SUBSET WikiPages : /\ \A p \in S : texts[p] # Missing
                                  /\ Cardinality(S) <= k
                                  /\ hits = {[path |-> p, shown |-> texts[p]] : p \in S}
  BY <1>1
<1>3. texts \in [WikiPages -> (SUBSET Cited) \cup {Missing}]
  BY <1>1 DEF ChatInv
<1>4. hits \in SUBSET FoundHits
  BY <1>2, <1>3 DEF FoundHits
<1>5. IsFiniteSet(S) /\ Cardinality(S) \in Nat
  BY ChatRetrievalAssumption, FS_Subset, FS_CardinalityType
<1>. DEFINE f == [p \in S |-> [path |-> p, shown |-> texts[p]]]
<1>6. f \in Surjection(S, hits)
  BY <1>2 DEF Surjection
<1>. HIDE DEF f
<1>7. IsFiniteSet(hits) /\ Cardinality(hits) <= Cardinality(S)
  BY <1>5, <1>6, FS_Surjection
<1>8. Cardinality(hits) \in Nat
  BY <1>7, FS_CardinalityType
<1>. QED
  BY <1>2, <1>4, <1>5, <1>7, <1>8

\* The chat goes on, or a search, with what a search has found.
LEMMA FoundOK ==
  ASSUME ChatInv, NEW hits \in SUBSET FoundHits, IsFiniteSet(hits), chat.loaded = {}, chat.allowed = {}, chat.read = NoRead,
         chat' = [chat EXCEPT !.todo = hits, !.at = IF hits = {} THEN "answer" ELSE "hits"],
         chat.op # "search" => Cardinality(hits) <= LoadCap(chat),
         chat.op = "search" /\ hits # {} => SEARCH_LIMIT # 0
  PROVE  ChatOK(chat')
<1>. DEFINE c == chat'
<1>1. chat \in Chats
  BY DEF ChatInv, ChatOK
<1>2. c \in Chats
  BY <1>1 DEF Chats
<1>3. c.loaded = {} /\ c.allowed = {} /\ c.read = NoRead /\ c.todo = hits /\ c.op = chat.op
      /\ c.at = IF hits = {} THEN "answer" ELSE "hits"
  BY <1>1 DEF Chats
<1>. HIDE DEF c
<1>4. Finite(c) /\ Cardinality(c.loaded) = 0 /\ Cardinality(c.allowed) = 0 /\ Cardinality(c.todo) \in Nat /\ Unread(c) = 0
  BY <1>3, NothingLoaded, FS_CardinalityType DEF Unread, Finite
<1>5. LoadCap(c) = LoadCap(chat)
  BY <1>3 DEF LoadCap
<1>6. Capped(c)
  BY <1>3, <1>4, <1>5, CapsAreNumbers DEF Capped
<1>. QED
  BY <1>2, <1>4, <1>6 DEF ChatOK, c

LEMMA SearchesKeep ==
  ASSUME ChatInv, Fallback \/ SearchWiki \/ \E p \in WikiPages : GetWikiPage(p)
  PROVE  ChatInv'
<1>1. UNCHANGED <<cites, indexed, groups, stream>> /\ chat.at \in {"search", "ask"} /\ Quiet(chat)
  BY DEF Fallback, SearchWiki, GetWikiPage, worldVars, Quiet
<1>2. chat.loaded = {} /\ chat.allowed = {} /\ chat.read = NoRead /\ (chat.at = "search" => chat.op = "chat")
      /\ chat \in Chats /\ Finite(chat)
  BY <1>1 DEF ChatInv, ChatOK, Capped
<1>3. CASE Fallback
  <2>1. PICK hits \in DoSearch(FallbackMax) :
          chat' = [chat EXCEPT !.todo = hits, !.at = IF hits = {} THEN "answer" ELSE "hits"]
    BY <1>3 DEF Fallback
  <2>2. FallbackMax \in Nat /\ FallbackMax <= MAX_PAGES_LOADED
    BY CapsAreNumbers DEF FallbackMax, Least2
  <2>3. chat.op = "chat"
    BY <1>2, <1>3 DEF Fallback
  <2>4. hits \in SUBSET FoundHits /\ IsFiniteSet(hits) /\ Cardinality(hits) <= LoadCap(chat)
    <3>1. hits \in SUBSET FoundHits /\ IsFiniteSet(hits) /\ Cardinality(hits) \in Nat /\ Cardinality(hits) <= FallbackMax
      BY <2>2, SearchFinds
    <3>. QED
      BY <2>2, <2>3, <3>1, CapsAreNumbers DEF LoadCap
  <2>5. ChatOK(chat')
    BY <1>2, <2>1, <2>3, <2>4, FoundOK
  <2>. QED
    BY <1>1, <2>5, ChatMoves
<1>4. CASE SearchWiki
  <2>1. PICK hits \in DoSearch(3 * SEARCH_LIMIT) :
          chat' = [chat EXCEPT !.todo = hits, !.at = IF hits = {} THEN "answer" ELSE "hits"]
    BY <1>4 DEF SearchWiki
  <2>2. chat.op = "search"
    BY <1>4 DEF SearchWiki
  <2>3. 3 * SEARCH_LIMIT \in Nat
    BY CapsAreNumbers
  <2>4. hits \in SUBSET FoundHits /\ IsFiniteSet(hits) /\ Cardinality(hits) \in Nat /\ Cardinality(hits) <= 3 * SEARCH_LIMIT
    BY <2>3, SearchFinds
  <2>5. hits # {} => SEARCH_LIMIT # 0
    BY <2>4, FS_EmptySet
  <2>6. ChatOK(chat')
    BY <1>2, <2>1, <2>2, <2>4, <2>5, FoundOK
  <2>. QED
    BY <1>1, <2>6, ChatMoves
<1>5. CASE \E p \in WikiPages : GetWikiPage(p)
  <2>1. PICK p \in WikiPages : GetWikiPage(p)
    BY <1>5
  <2>2. chat.op = "page" /\ chat.at = "ask"
    BY <2>1 DEF GetWikiPage
  <2>3. CASE cites[p] = Missing
    <3>. DEFINE n == [chat EXCEPT !.at = "answer"]
    <3>1. n \in Chats /\ n.at = "answer" /\ n.op = "page" /\ n.loaded = {} /\ n.allowed = {} /\ n.todo = chat.todo
      BY <1>2, <2>2 DEF Chats
    <3>2. chat' = n
      BY <2>1, <2>3 DEF GetWikiPage
    <3>. HIDE DEF n
    <3>3. ChatOK(chat')
      BY <1>2, <3>1, <3>2, CapsAreNumbers, NothingLoaded DEF ChatOK, Finite, Capped
    <3>. QED
      BY <1>1, <3>3, ChatMoves
  <2>4. CASE cites[p] # Missing
    <3>. DEFINE r == OwnText(p)
                n == [chat EXCEPT !.at = "hits", !.read = r]
    <3>1. r \in Reads
      BY <2>4, OwnTextRead
    <3>2. chat' = n
      BY <2>1, <2>4 DEF GetWikiPage
    <3>. HIDE DEF r
    <3>3. n \in Chats /\ n.at = "hits" /\ n.op = "page" /\ n.loaded = {} /\ n.allowed = {} /\ n.todo = chat.todo
      BY <1>2, <2>2, <3>1 DEF Chats
    <3>. HIDE DEF n
    <3>4. chat.todo = {}
      BY <2>2 DEF ChatInv, ChatOK, Capped
    <3>5. Finite(n) /\ Cardinality(n.loaded) = 0 /\ Cardinality(n.allowed) = 0 /\ Cardinality(n.todo) = 0
          /\ Unread(n) \in {0, 1} /\ LoadCap(n) = 1
      BY <3>3, <3>4, NothingLoaded DEF Finite, Unread, LoadCap
    <3>6. ChatOK(chat')
      BY <3>2, <3>3, <3>5, CapsAreNumbers DEF ChatOK, Capped
    <3>. QED
      BY <1>1, <3>6, ChatMoves
  <2>. QED
    BY <2>3, <2>4
<1>. QED
  BY <1>3, <1>4, <1>5

\* The agent searches, and is told of what was let through.
LEMMA ToolsKeep ==
  ASSUME ChatInv, SearchTool \/ EndSearchTool
  PROVE  ChatInv'
<1>1. UNCHANGED <<cites, indexed, groups, stream>> /\ chat.at \in {"gather", "tool"} /\ chat.read = NoRead /\ Quiet(chat)
  BY DEF SearchTool, EndSearchTool, worldVars, Quiet
<1>2. /\ chat \in Chats /\ Finite(chat) /\ chat.op = "chat" /\ chat.turn < GATHER_TURNS
      /\ Cardinality(chat.loaded) < MAX_PAGES_LOADED /\ chat.total < MAX_CONTEXT_BYTES
      /\ Cardinality(chat.loaded) <= LoadCap(chat)
  BY <1>1 DEF ChatInv, ChatOK, Capped
<1>3. ASSUME SearchTool PROVE ChatOK(chat')
  <2>1. PICK hits \in DoSearch(TOOL_LIMIT) : chat' = [chat EXCEPT !.todo = hits, !.at = "tool"]
    BY <1>3 DEF SearchTool
  <2>2. chat.allowed = {}
    BY <1>3 DEF SearchTool, ChatInv, ChatOK, Capped
  <2>3. hits \in SUBSET FoundHits /\ IsFiniteSet(hits) /\ Cardinality(hits) \in Nat /\ Cardinality(hits) <= TOOL_LIMIT
    BY CapsAreNumbers, SearchFinds
  <2>. DEFINE n == [chat EXCEPT !.todo = hits, !.at = "tool"]
  <2>4. /\ n \in Chats /\ n.at = "tool" /\ n.op = "chat" /\ n.loaded = chat.loaded /\ n.turn = chat.turn
        /\ n.total = chat.total /\ n.allowed = {} /\ n.todo = hits /\ n.read = NoRead
    BY <1>1, <1>2, <2>2, <2>3 DEF Chats
  <2>5. chat' = n
    BY <2>1
  <2>. HIDE DEF n
  <2>6. Finite(n) /\ Cardinality(n.allowed) = 0 /\ Unread(n) = 0 /\ LoadCap(n) = LoadCap(chat)
    BY <1>2, <2>3, <2>4, NothingLoaded DEF Finite, Unread, LoadCap
  <2>. QED
    BY <1>2, <2>3, <2>4, <2>5, <2>6, CapsAreNumbers DEF ChatOK, Capped
<1>4. ASSUME EndSearchTool PROVE ChatOK(chat')
  <2>. DEFINE n == [chat EXCEPT !.at = "gather", !.allowed = {}]
  <2>1. chat' = n
    BY <1>4 DEF EndSearchTool
  <2>2. /\ n \in Chats /\ n.at = "gather" /\ n.op = "chat" /\ n.loaded = chat.loaded /\ n.turn = chat.turn
        /\ n.total = chat.total /\ n.allowed = {} /\ n.todo = chat.todo
    BY <1>2 DEF Chats
  <2>. HIDE DEF n
  <2>3. Finite(n) /\ Cardinality(n.allowed) = 0 /\ LoadCap(n) = LoadCap(chat)
    BY <1>2, <2>2, NothingLoaded DEF Finite, LoadCap
  <2>. QED
    BY <1>2, <2>1, <2>2, <2>3, CapsAreNumbers DEF ChatOK, Capped
<1>. QED
  BY <1>1, <1>3, <1>4, ChatMoves

\* A hit is worked off: what is left to do and what is given out do not outgrow the caps.
LEMMA NextHitOK ==
  ASSUME ChatInv, chat.at \in {"hits", "tool"}, NEW c \in Chats, Finite(c), c.op = chat.op, c.at = chat.at,
         c.read = NoRead, c.turn = chat.turn, c.total = chat.total,
         Cardinality(c.loaded) <= LoadCap(chat), Cardinality(c.allowed) <= ListCap(chat),
         c.at = "tool" => c.loaded = chat.loaded /\ Cardinality(c.allowed) + Cardinality(c.todo) <= TOOL_LIMIT,
         c.at = "hits" /\ c.op # "search" => Cardinality(c.loaded) + Cardinality(c.todo) <= LoadCap(chat)
  PROVE  ChatOK(NextHit(c)) /\ NextHit(c).op = chat.op
<1>. DEFINE enough == c.op = "search" /\ Cardinality(c.allowed) >= SEARCH_LIMIT
            over == c.at = "hits" /\ (c.todo = {} \/ enough)
            n == [c EXCEPT !.at = "answer", !.todo = {}]
<1>1. /\ Cardinality(c.loaded) \in Nat /\ Cardinality(c.allowed) \in Nat /\ Cardinality(c.todo) \in Nat /\ Unread(c) = 0
      /\ LoadCap(c) = LoadCap(chat) /\ ListCap(c) = ListCap(chat)
  BY ChatNumbers DEF Unread, LoadCap, ListCap
<1>2. CASE over
  <2>1. NextHit(c) = n
    BY <1>2 DEF NextHit
  <2>2. n \in Chats /\ n.at = "answer" /\ n.loaded = c.loaded /\ n.allowed = c.allowed /\ n.op = c.op /\ n.todo = {}
    BY DEF Chats
  <2>. HIDE DEF n
  <2>3. Finite(n) /\ LoadCap(n) = LoadCap(chat) /\ ListCap(n) = ListCap(chat)
    BY <1>1, <2>2, NothingLoaded DEF Finite, LoadCap, ListCap
  <2>. QED
    BY <2>1, <2>2, <2>3 DEF ChatOK, Capped
<1>3. CASE ~over
  <2>1. NextHit(c) = c
    BY <1>3 DEF NextHit
  <2>2. c.at = "hits" /\ c.op = "search" => Cardinality(c.allowed) < SEARCH_LIMIT
    BY <1>1, <1>3, CapsAreNumbers
  <2>3. c.at = "tool" => /\ c.op = "chat" /\ c.turn < GATHER_TURNS
                         /\ Cardinality(c.loaded) < MAX_PAGES_LOADED /\ c.total < MAX_CONTEXT_BYTES
    BY DEF ChatInv, ChatOK, Capped
  <2>4. c.at = "tool" => Cardinality(c.allowed) + Cardinality(c.todo) + Unread(c) <= TOOL_LIMIT
    BY <1>1, CapsAreNumbers
  <2>5. c.at = "hits" /\ c.op # "search" => Cardinality(c.loaded) + Cardinality(c.todo) + Unread(c) <= LoadCap(c)
    BY <1>1, CapsAreNumbers
  <2>. QED
    BY <1>1, <2>1, <2>2, <2>3, <2>4, <2>5 DEF ChatOK, Capped
<1>. QED
  BY <1>2, <1>3

LEMMA HitsKeep ==
  ASSUME ChatInv, (\E h \in chat.todo : ReadHit(h)) \/ ListHit \/ LoadHit
  PROVE  ChatInv'
<1>1. UNCHANGED <<cites, indexed, groups, stream>> /\ chat.at \in {"hits", "tool"} /\ Quiet(chat)
  BY DEF ReadHit, ListHit, LoadHit, worldVars, Quiet, ChatInv, ChatOK, Capped
<1>2. /\ chat \in Chats /\ Finite(chat) /\ Capped(chat)
      /\ Cardinality(chat.loaded) \in Nat /\ Cardinality(chat.allowed) \in Nat /\ Cardinality(chat.todo) \in Nat
      /\ Cardinality(chat.loaded) <= LoadCap(chat) /\ Cardinality(chat.allowed) <= ListCap(chat)
      /\ chat.at = "tool" => chat.op = "chat"
  BY ChatNumbers DEF ChatInv, ChatOK, Capped
<1>3. /\ chat.at = "tool" => Cardinality(chat.allowed) + Cardinality(chat.todo) + Unread(chat) <= TOOL_LIMIT
      /\ chat.at = "hits" /\ chat.op = "search" => Cardinality(chat.allowed) < SEARCH_LIMIT
      /\ chat.at = "hits" /\ chat.op # "search" =>
           Cardinality(chat.loaded) + Cardinality(chat.todo) + Unread(chat) <= LoadCap(chat)
  BY <1>2 DEF Capped
<1>4. ASSUME NEW h \in chat.todo, ReadHit(h) PROVE ChatOK(chat')
  <2>. DEFINE c == [chat EXCEPT !.todo = @ \ {h}]
              r == [path |-> h.path, cites |-> cites[h.path], shown |-> h.shown]
  <2>1. chat.read = NoRead /\ chat' = IF cites[h.path] = Missing THEN NextHit(c) ELSE [c EXCEPT !.read = r]
    BY <1>4 DEF ReadHit
  <2>2. /\ c \in Chats /\ c.op = chat.op /\ c.at = chat.at /\ c.read = NoRead /\ c.loaded = chat.loaded
        /\ c.allowed = chat.allowed /\ c.todo = chat.todo \ {h} /\ c.turn = chat.turn /\ c.total = chat.total
    BY <1>2, <2>1 DEF Chats
  <2>. HIDE DEF c
  <2>3. Cardinality(c.todo) = Cardinality(chat.todo) - 1 /\ IsFiniteSet(c.todo)
    BY <1>2, <1>4, <2>2, FS_RemoveElement DEF Finite
  <2>4. Unread(chat) = 0 /\ Finite(c) /\ LoadCap(c) = LoadCap(chat) /\ ListCap(c) = ListCap(chat)
    BY <1>2, <2>1, <2>2, <2>3 DEF Unread, Finite, LoadCap, ListCap
  <2>5. CASE cites[h.path] = Missing
    <3>1. /\ c.at = "tool" => Cardinality(c.allowed) + Cardinality(c.todo) <= TOOL_LIMIT
          /\ c.at = "hits" /\ c.op # "search" => Cardinality(c.loaded) + Cardinality(c.todo) <= LoadCap(chat)
      BY <1>2, <1>3, <2>2, <2>3, <2>4, CapsAreNumbers
    <3>2. ChatOK(NextHit(c))
      BY <1>1, <1>2, <2>2, <2>4, <3>1, NextHitOK
    <3>. QED
      BY <2>1, <2>5, <3>2
  <2>6. CASE cites[h.path] # Missing
    <3>. DEFINE n == [c EXCEPT !.read = r]
    <3>1. h \in FoundHits
      BY <1>2 DEF Chats
    <3>2. cites[h.path] \in SUBSET Cited
      BY <2>6, <3>1 DEF ChatInv, FoundHits
    <3>3. r \in Reads
      BY <3>1, <3>2 DEF Reads, FoundHits
    <3>. HIDE DEF r
    <3>4. n \in Chats /\ n.op = c.op /\ n.at = c.at /\ n.loaded = c.loaded /\ n.allowed = c.allowed /\ n.todo = c.todo
          /\ n.turn = c.turn /\ n.total = c.total
      BY <2>2, <3>3 DEF Chats
    <3>5. chat' = n
      BY <2>1, <2>6
    <3>. HIDE DEF n
    <3>6. Unread(n) \in {0, 1} /\ Finite(n) /\ LoadCap(n) = LoadCap(chat) /\ ListCap(n) = ListCap(chat)
      BY <2>2, <2>4, <3>4 DEF Unread, Finite, LoadCap, ListCap
    <3>7. n.at = "tool" => /\ n.op = "chat" /\ n.turn < GATHER_TURNS
                           /\ Cardinality(n.loaded) < MAX_PAGES_LOADED /\ n.total < MAX_CONTEXT_BYTES
      BY <1>2, <2>2, <3>4 DEF Capped
    <3>8. /\ n.at = "tool" => Cardinality(n.allowed) + Cardinality(n.todo) + Unread(n) <= TOOL_LIMIT
          /\ n.at = "hits" /\ n.op = "search" => Cardinality(n.allowed) < SEARCH_LIMIT
          /\ n.at = "hits" /\ n.op # "search" =>
               Cardinality(n.loaded) + Cardinality(n.todo) + Unread(n) <= LoadCap(chat)
      BY <1>2, <1>3, <2>2, <2>3, <2>4, <3>4, <3>6, CapsAreNumbers
    <3>9. Capped(n)
      BY <1>1, <1>2, <2>2, <3>4, <3>6, <3>7, <3>8 DEF Capped
    <3>. QED
      BY <3>4, <3>5, <3>6, <3>9 DEF ChatOK
  <2>. QED
    BY <2>5, <2>6
<1>5. ASSUME ListHit PROVE ChatOK(chat')
  <2>. DEFINE allowed == IF UserCanRead(chat.read.cites) THEN chat.allowed \cup {chat.read} ELSE chat.allowed
              c == [chat EXCEPT !.read = NoRead, !.allowed = allowed]
  <2>1. chat.read # NoRead /\ chat' = NextHit(c) /\ (chat.at = "tool" \/ chat.op = "search")
    BY <1>2, <1>5 DEF ListHit, Chats
  <2>2. allowed \in SUBSET Reads
    BY <1>2, <2>1 DEF Chats
  <2>3. IsFiniteSet(allowed) /\ Cardinality(allowed) \in Nat /\ Cardinality(allowed) <= Cardinality(chat.allowed) + 1
    <3>. DEFINE S == chat.allowed
    <3>1. IsFiniteSet(S)
      BY <1>2 DEF Finite
    <3>2. IsFiniteSet(S \cup {chat.read}) /\ Cardinality(S \cup {chat.read}) \in Nat
          /\ Cardinality(S \cup {chat.read}) <= Cardinality(S) + 1
      BY <3>1, LoadedGrows
    <3>. QED
      BY <1>2, <3>1, <3>2
  <2>. HIDE DEF allowed
  <2>4. /\ c \in Chats /\ c.op = chat.op /\ c.at = chat.at /\ c.read = NoRead /\ c.loaded = chat.loaded
        /\ c.allowed = allowed /\ c.todo = chat.todo /\ c.turn = chat.turn /\ c.total = chat.total
    BY <1>2, <2>2 DEF Chats
  <2>5. Unread(chat) = 1 /\ Finite(c)
    BY <1>2, <2>1, <2>3, <2>4 DEF Unread, Finite
  <2>. HIDE DEF c
  <2>6. c.at = "tool" => Cardinality(c.allowed) + Cardinality(c.todo) <= TOOL_LIMIT
    BY <1>2, <1>3, <2>3, <2>4, <2>5, CapsAreNumbers
  <2>7. Cardinality(c.allowed) <= ListCap(chat)
    <3>1. CASE chat.at = "tool"
      <4>1. ListCap(chat) = TOOL_LIMIT
        BY <1>2, <3>1 DEF ListCap
      <4>. QED
        BY <1>2, <2>3, <2>4, <2>6, <3>1, <4>1, CapsAreNumbers
    <3>2. CASE chat.at = "hits"
      <4>1. chat.op = "search" /\ ListCap(chat) = SEARCH_LIMIT
        BY <2>1, <3>2 DEF ListCap
      <4>. QED
        BY <1>2, <1>3, <2>3, <2>4, <3>2, <4>1, CapsAreNumbers
    <3>. QED
      BY <1>1, <3>1, <3>2
  <2>8. c.at = "hits" => c.op = "search"
    BY <2>1, <2>4
  <2>9. ChatOK(NextHit(c))
    BY <1>1, <1>2, <2>4, <2>5, <2>6, <2>7, <2>8, NextHitOK
  <2>. QED
    BY <2>1, <2>9
<1>6. ASSUME LoadHit PROVE ChatOK(chat')
  <2>. DEFINE loaded == IF UserCanRead(chat.read.cites) THEN chat.loaded \cup {chat.read} ELSE chat.loaded
              c == [chat EXCEPT !.read = NoRead, !.loaded = loaded]
  <2>1. chat.read # NoRead /\ chat' = NextHit(c) /\ chat.at = "hits" /\ chat.op # "search"
    BY <1>2, <1>6 DEF LoadHit, Chats
  <2>2. loaded \in SUBSET Reads
    BY <1>2, <2>1 DEF Chats
  <2>3. IsFiniteSet(loaded) /\ Cardinality(loaded) \in Nat /\ Cardinality(loaded) <= Cardinality(chat.loaded) + 1
    <3>. DEFINE S == chat.loaded
    <3>1. IsFiniteSet(S)
      BY <1>2 DEF Finite
    <3>2. IsFiniteSet(S \cup {chat.read}) /\ Cardinality(S \cup {chat.read}) \in Nat
          /\ Cardinality(S \cup {chat.read}) <= Cardinality(S) + 1
      BY <3>1, LoadedGrows
    <3>. QED
      BY <1>2, <3>1, <3>2
  <2>. HIDE DEF loaded
  <2>4. /\ c \in Chats /\ c.op = chat.op /\ c.at = "hits" /\ c.read = NoRead /\ c.loaded = loaded
        /\ c.allowed = chat.allowed /\ c.todo = chat.todo /\ c.turn = chat.turn /\ c.total = chat.total
    BY <1>2, <2>1, <2>2 DEF Chats
  <2>5. Unread(chat) = 1 /\ Finite(c)
    BY <1>2, <2>1, <2>3, <2>4 DEF Unread, Finite
  <2>. HIDE DEF c
  <2>6. Cardinality(c.loaded) + Cardinality(c.todo) <= LoadCap(chat) /\ Cardinality(c.loaded) <= LoadCap(chat)
    BY <1>2, <1>3, <2>1, <2>3, <2>4, <2>5, CapsAreNumbers
  <2>7. ChatOK(NextHit(c))
    BY <1>2, <2>1, <2>4, <2>5, <2>6, NextHitOK
  <2>. QED
    BY <2>1, <2>7
<1>7. Quiet(chat') => Quiet(chat) \/ stream = ""
  BY <1>1
<1>. QED
  BY <1>1, <1>4, <1>5, <1>6, <1>7, ChatMoves

\* The stream, and the answer of a search or a fetch.
LEMMA AnswersKeep ==
  ASSUME ChatInv, GatherFails \/ SendMeta \/ SendToken \/ SendDone \/ StreamFails \/ Respond
  PROVE  ChatInv'
<1>1. PICK at \in {"answer", "over"} : chat' = [chat EXCEPT !.at = at]
  BY DEF GatherFails, SendMeta, SendToken, SendDone, StreamFails, Respond, Send
<1>2. chat \in Chats /\ Finite(chat) /\ Capped(chat)
  BY DEF ChatInv, ChatOK
<1>3. chat' \in Chats /\ chat'.at = at /\ chat'.op = chat.op /\ chat'.loaded = chat.loaded /\ chat'.allowed = chat.allowed
      /\ chat'.todo = chat.todo
  BY <1>1, <1>2 DEF Chats
<1>4. ChatOK(chat')
  <2>. DEFINE n == chat'
  <2>1. LoadCap(n) = LoadCap(chat) /\ ListCap(n) = ListCap(chat)
    BY <1>3 DEF LoadCap, ListCap
  <2>. QED
    BY <1>2, <1>3, <2>1 DEF ChatOK, Capped, Finite
<1>5. UNCHANGED <<cites, indexed, groups>> /\ stream' \in {"", "meta", "token", "done", "error"}
      /\ (chat.op # "chat" => stream' = "")
  <2>1. chat.op # "chat" => stream = "" /\ chat.at # "gather"
    BY <1>2 DEF ChatInv, Quiet, Capped
  <2>. QED
    BY <2>1 DEF GatherFails, SendMeta, SendToken, SendDone, StreamFails, Respond, Send, worldVars, ChatInv
<1>. QED
  BY <1>3, <1>4, <1>5 DEF ChatInv, ChatOK, Chats, Reads, FoundHits, Finite, Capped, LoadCap, ListCap, Quiet, Unread

LEMMA ChatNextKeeps == ChatInv /\ [ChatRetrievalNext]_chatVars => ChatInv'
<1>1. SUFFICES ASSUME ChatInv, [ChatRetrievalNext]_chatVars PROVE ChatInv'
  OBVIOUS
<1>2. CASE (\E p \in WikiPages : ReadPageCall(p)) \/ LoadPage \/ EndGatherTurn
  BY <1>1, <1>2, GatherKeeps
<1>3. CASE Fallback \/ SearchWiki \/ \E p \in WikiPages : GetWikiPage(p)
  BY <1>1, <1>3, SearchesKeep
<1>4. CASE SearchTool \/ EndSearchTool
  BY <1>1, <1>4, ToolsKeep
<1>5. CASE (\E h \in chat.todo : ReadHit(h)) \/ ListHit \/ LoadHit
  BY <1>1, <1>5, HitsKeep
<1>6. CASE GatherFails \/ SendMeta \/ SendToken \/ SendDone \/ StreamFails \/ Respond
  BY <1>1, <1>6, AnswersKeep
<1>7. ASSUME UNCHANGED <<chat, stream>>,
             cites' \in [WikiPages -> (SUBSET Cited) \cup {Missing}],
             indexed' \in [WikiPages -> (SUBSET Cited) \cup {Missing}],
             groups' \in [Cited -> (SUBSET AllGroups) \cup {Missing}]
      PROVE  ChatInv'
  BY <1>1, <1>7 DEF ChatInv, ChatOK, Chats, Reads, FoundHits, Finite, Capped, LoadCap, ListCap, Quiet, Unread
<1>8. ASSUME NEW p \in WikiPages, NEW cited \in PageCites[p] \cup {Missing}, WritePage(p, cited) PROVE ChatInv'
  <2>1. cited \in (SUBSET Cited) \cup {Missing}
    BY ChatRetrievalAssumption
  <2>. QED
    BY <1>1, <1>7, <1>8, <2>1 DEF WritePage, ChatInv
<1>9. ASSUME NEW p \in WikiPages, IndexPage(p) PROVE ChatInv'
  BY <1>1, <1>7, <1>9 DEF IndexPage, ChatInv
<1>10. ASSUME NEW s \in Cited, NEW acl \in (SUBSET AllGroups) \cup {Missing}, SetSource(s, acl) PROVE ChatInv'
  BY <1>1, <1>7, <1>10 DEF SetSource, ChatInv
<1>11. CASE UNCHANGED chatVars
  BY <1>1, <1>7, <1>11 DEF chatVars, ChatInv
<1>. QED
  BY <1>1, <1>2, <1>3, <1>4, <1>5, <1>6, <1>8, <1>9, <1>10, <1>11 DEF ChatRetrievalNext

LEMMA ChatInvHolds == ChatRetrievalSpec => []ChatInv
  BY ChatStarts, ChatNextKeeps, PTL DEF ChatRetrievalSpec

\* Type correctness of what reads the wiki, and its caps: a chat never loads more pages
\* than its cap, nor bytes than four times theirs, which is as much as the last page it
\* takes may add; a search gives no more pages than its limit; and only a chat sends
\* events.
THEOREM ChatTypeCorrect == ChatRetrievalSpec => []ChatRetrievalTypeOK
<1>1. ASSUME ChatInv PROVE ChatRetrievalTypeOK
  <2>1. chat \in Chats /\ Finite(chat) /\ Capped(chat) /\ (Quiet(chat) => stream = "")
    BY <1>1 DEF ChatInv, ChatOK
  <2>2. /\ chat.op \in {"chat", "search", "page"} /\ chat.turn \in 0..GATHER_TURNS
        /\ chat.total \in 0..(4 * MAX_CONTEXT_BYTES) /\ chat.read \in Reads \cup {NoRead}
        /\ chat.at \in {"gather", "tool", "search", "ask", "hits", "answer", "over"}
    BY <2>1 DEF Chats
  <2>3. chat.total <= 4 * MAX_CONTEXT_BYTES /\ (chat.read = NoRead \/ chat.read.cites \subseteq Cited)
    BY <2>2, CapsAreNumbers DEF Reads
  <2>. QED
    BY <1>1, <2>1, <2>2, <2>3 DEF ChatInv, ChatRetrievalTypeOK, Capped, Quiet, LoadCap, ListCap
<1>. QED
  BY <1>1, ChatInvHolds, PTL

\* What a step gives out has been read, and passed the ACL check, in this very state.
GivenNow(r) ==
  /\ stream = ""
  /\ "admin" \in UserGroups \/ r.cites = {}
     \/ \E s \in r.cites : groups[s] # Missing /\ groups[s] \cap UserGroups # {}

\* Only the look-ups give anything out.
LEMMA OnlyLookUps ==
  ASSUME ChatInv, [ChatRetrievalNext]_chatVars, ~LoadPage, ~ListHit, ~LoadHit
  PROVE  chat'.loaded \subseteq chat.loaded /\ chat'.allowed \subseteq chat.allowed
<1>1. chat \in Chats
  BY DEF ChatInv, ChatOK
<1>2. \A c \in Chats : /\ Gathered(c).loaded = c.loaded /\ NextHit(c).loaded = c.loaded
                      /\ Gathered(c).allowed = c.allowed /\ NextHit(c).allowed = c.allowed
  BY DEF Chats, Gathered, NextHit
<1>3. CASE EndGatherTurn
  <2>1. chat.at = "gather" => chat.turn + 1 \in 0..GATHER_TURNS
    <3>1. chat.turn \in 0..GATHER_TURNS /\ (chat.at = "gather" => chat.turn < GATHER_TURNS)
      BY <1>1 DEF ChatInv, ChatOK, Capped, Chats
    <3>. QED
      BY <3>1, CapsAreNumbers
  <2>2. chat.at = "gather" => [chat EXCEPT !.turn = @ + 1] \in Chats
    BY <1>1, <2>1 DEF Chats
  <2>3. [chat EXCEPT !.turn = @ + 1].loaded = chat.loaded /\ [chat EXCEPT !.turn = @ + 1].allowed = chat.allowed
    BY <1>1 DEF Chats
  <2>. QED
    BY <1>1, <1>2, <1>3, <2>2, <2>3 DEF EndGatherTurn
<1>4. ASSUME NEW h \in chat.todo, ReadHit(h) PROVE chat'.loaded = chat.loaded /\ chat'.allowed = chat.allowed
  <2>. DEFINE c == [chat EXCEPT !.todo = @ \ {h}]
              r == [path |-> h.path, cites |-> cites[h.path], shown |-> h.shown]
  <2>1. c \in Chats /\ c.loaded = chat.loaded /\ c.allowed = chat.allowed
    BY <1>1 DEF Chats
  <2>2. chat' = IF cites[h.path] = Missing THEN NextHit(c) ELSE [c EXCEPT !.read = r]
    BY <1>4 DEF ReadHit
  <2>. HIDE DEF c, r
  <2>3. [c EXCEPT !.read = r].loaded = c.loaded /\ [c EXCEPT !.read = r].allowed = c.allowed
    BY <2>1 DEF Chats
  <2>. QED
    BY <1>2, <2>1, <2>2, <2>3
<1>5. CASE ~EndGatherTurn /\ ~\E h \in chat.todo : ReadHit(h)
  BY <1>1, <1>5
     DEF ChatRetrievalNext, chatVars, ReadPageCall, GetWikiPage, IndexPage, SearchTool, EndSearchTool, Fallback,
         SearchWiki, Respond, GatherFails, SendMeta, SendToken, SendDone, StreamFails, Send, WritePage, SetSource, Chats
<1>. QED
  BY <1>3, <1>4, <1>5

\* What is given out is the page read, which the caller may read.
LEMMA GivenIsReadable ==
  ASSUME ChatInv, [ChatRetrievalNext]_chatVars,
         NEW r \in (chat'.loaded \ chat.loaded) \cup (chat'.allowed \ chat.allowed)
  PROVE  GivenNow(r)
<1>1. chat \in Chats
  BY DEF ChatInv, ChatOK
<1>2. LoadPage \/ ListHit \/ LoadHit
  BY OnlyLookUps
<1>3. stream = ""
  BY <1>2 DEF LoadPage, ListHit, LoadHit, ChatInv, Quiet
<1>4. r = chat.read /\ UserCanRead(r.cites)
  <2>1. CASE LoadPage
    <3>. DEFINE x == chat.read
                new == UserCanRead(x.cites) /\ \A l \in chat.loaded : l.path # x.path
                c == IF new THEN [chat EXCEPT !.read = NoRead, !.loaded = @ \cup {x}, !.total = @ + Take(x.path)]
                     ELSE [chat EXCEPT !.read = NoRead]
    <3>1. chat'.loaded = c.loaded /\ chat'.allowed = c.allowed
      BY <1>1, <2>1 DEF LoadPage, Gathered, Chats
    <3>2. c.allowed = chat.allowed /\ c.loaded = IF new THEN chat.loaded \cup {x} ELSE chat.loaded
      BY <1>1 DEF Chats
    <3>. QED
      BY <3>1, <3>2
  <2>2. CASE ListHit
    <3>1. /\ chat'.loaded = chat.loaded
          /\ chat'.allowed = IF UserCanRead(chat.read.cites) THEN chat.allowed \cup {chat.read} ELSE chat.allowed
      BY <1>1, <2>2 DEF ListHit, NextHit, Chats
    <3>. QED
      BY <3>1
  <2>3. CASE LoadHit
    <3>1. /\ chat'.allowed = chat.allowed
          /\ chat'.loaded = IF UserCanRead(chat.read.cites) THEN chat.loaded \cup {chat.read} ELSE chat.loaded
      BY <1>1, <2>3 DEF LoadHit, NextHit, Chats
    <3>. QED
      BY <3>1
  <2>. QED
    BY <1>2, <2>1, <2>2, <2>3
<1>. QED
  BY <1>3, <1>4 DEF UserCanRead, GivenNow

\* user_can_read_page in gather, in its search tool, in the fallback, in search_wiki and
\* in get_wiki_page: whatever is committed, deleted, indexed or reassigned between the
\* read of a page and the look-up of its sources, the caller may read a source that the
\* text read cites.  For a chat's context and a fetched page that text is the one given
\* out; for a hit of a search it is that of the file, while title and snippet are of the
\* text searched.  Nothing is taken in once the answer streams.
THEOREM ContextAlwaysReadable == ChatRetrievalSpec => ContextIsReadable
<1>1. ChatInv /\ [ChatRetrievalNext]_chatVars =>
        [\A r \in (chat'.loaded \ chat.loaded) \cup (chat'.allowed \ chat.allowed) :
           /\ stream = ""
           /\ "admin" \in UserGroups \/ r.cites = {}
              \/ \E s \in r.cites : groups[s] # Missing /\ groups[s] \cap UserGroups # {}]_chatVars
  BY GivenIsReadable DEF GivenNow
<1>. QED
  BY <1>1, ChatInvHolds, PTL DEF ChatRetrievalSpec, ContextIsReadable

-----------------------------------------------------------------------------
(* The chat limiter.  The rate holds because every stretch that begins     *)
(* with a chat still has room for the tokens in the bucket; the advice     *)
(* because the bucket will hold a token by then.                           *)

Cap == BURST * Token

Buckets == [tokens : 0..Cap, last_refill : Nat]

LimiterTyped ==
  /\ now \in 0..MaxSeconds
  /\ bucket \in [Tenants -> Buckets \cup {NoBucket}]
  /\ \A t \in Tenants : bucket[t] # NoBucket => bucket[t].last_refill <= now
  /\ granted \in [Tenants -> Seq(Nat)]
  /\ \A t \in Tenants : \A i \in DOMAIN granted[t] : granted[t][i] <= now
  /\ advised \in [Tenants -> Nat \cup {NoAdvice}]

\* What a stretch from the i-th chat on may still take.
RoomLeft(g, b) == \A i \in 1..Len(g) :
  (Len(g) - i + 1) * Token + b.tokens <= Cap + (b.last_refill - g[i]) * RPM

Rated(g) == \A i, j \in 1..Len(g) : i <= j => (j - i + 1) * Token <= Cap + (g[j] - g[i]) * RPM

\* Who comes at that time finds a token.
Promised(a, b) == b.tokens + (a - b.last_refill) * RPM >= Token

LimiterInv ==
  /\ LimiterTyped
  /\ \A t \in Tenants :
       /\ Rated(granted[t])
       /\ bucket[t] = NoBucket => granted[t] = <<>> /\ advised[t] = NoAdvice
       /\ bucket[t] # NoBucket => RoomLeft(granted[t], bucket[t])
       /\ advised[t] # NoAdvice => Promised(advised[t], bucket[t])

LEMMA RatesAreNumbers ==
  /\ RPM \in Nat /\ RPM >= 1 /\ BURST \in Nat /\ BURST >= 1 /\ MaxSeconds \in Nat
  /\ Token = 60 /\ Cap \in Nat /\ Cap >= Token
  BY ChatLimiterAssumption DEF Token, Cap

LEMMA BucketsAreBuckets == NoBucket \notin Buckets
<1>1. Buckets \subseteq [tokens : Nat, last_refill : Nat]
  BY RatesAreNumbers DEF Buckets
<1>. QED
  BY <1>1, ChatLimiterAssumption

LEMMA LimiterStarts == ChatLimiterInit => LimiterInv
  BY RatesAreNumbers DEF ChatLimiterInit, LimiterInv, LimiterTyped, Rated, RoomLeft

\* Times further apart refill more.
LEMMA LongerRefillsMore ==
  ASSUME NEW m \in Int, NEW n \in Int, m <= n
  PROVE  m * RPM <= n * RPM /\ m * RPM \in Int /\ n * RPM \in Int
<1>1. (n - m) * RPM >= 0
  BY RatesAreNumbers
<1>2. n * RPM = m * RPM + (n - m) * RPM
  BY RatesAreNumbers
<1>. QED
  BY <1>1, <1>2, RatesAreNumbers

\* The seconds a refusal names, rounded up, are enough for the tokens that are missing.
LEMMA AdviceSuffices ==
  ASSUME NEW tokens \in Nat, tokens < Token
  PROVE  RetryAfter(tokens) \in Nat /\ tokens + RetryAfter(tokens) * RPM >= Token
<1>. DEFINE y == Token - tokens + RPM - 1
            q == y \div RPM
<1>1. y \in Nat /\ RPM \in Nat /\ RPM > 0
  BY RatesAreNumbers
<1>2. q \in Int /\ y < (q + 1) * RPM
  BY <1>1
<1>3. (q + 1) * RPM = q * RPM + RPM /\ q * RPM \in Int
  BY <1>1, <1>2
<1>4. q * RPM >= Token - tokens
  BY <1>1, <1>2, <1>3, RatesAreNumbers
<1>5. q >= 1
  <2>1. SUFFICES ASSUME q <= 0 PROVE FALSE
    BY <1>2
  <2>2. q * RPM <= 0 * RPM
    BY <1>2, <2>1, LongerRefillsMore
  <2>. QED
    BY <1>3, <1>4, <2>2, RatesAreNumbers
<1>6. RetryAfter(tokens) = q
  BY <1>2, <1>5 DEF RetryAfter
<1>. QED
  BY <1>2, <1>4, <1>5, <1>6, <1>3, RatesAreNumbers

\* The refill of a stretch is that of its two parts.
LEMMA RefillsAdd ==
  ASSUME NEW x \in Int, NEW y \in Int, NEW z \in Int
  PROVE  /\ (x - z) * RPM = (y - z) * RPM + (x - y) * RPM
         /\ (x - z) * RPM \in Int /\ (y - z) * RPM \in Int /\ (x - y) * RPM \in Int
<1>. DEFINE m == y - z
            n == x - y
<1>1. m \in Int /\ n \in Int /\ RPM \in Int /\ x - z = m + n
  BY RatesAreNumbers
<1>. HIDE DEF m, n
<1>2. (m + n) * RPM = m * RPM + n * RPM /\ m * RPM \in Int /\ n * RPM \in Int
  BY <1>1
<1>3. m * RPM + n * RPM \in Int
  BY <1>2
<1>4. (x - z) * RPM = m * RPM + n * RPM
  BY <1>1, <1>2
<1>. QED
  BY <1>2, <1>3, <1>4 DEF m, n

\* What a check finds in the bucket.
Found(t) == IF bucket[t] = NoBucket THEN Cap ELSE Refill(bucket[t])

LEMMA FoundIsTokens ==
  ASSUME LimiterInv, NEW t \in Tenants
  PROVE  /\ Found(t) \in 0..Cap
         /\ \A i \in 1..Len(granted[t]) :
              (Len(granted[t]) - i + 1) * Token + Found(t) <= Cap + (now - granted[t][i]) * RPM
<1>1. CASE bucket[t] = NoBucket
  <2>1. Len(granted[t]) = 0
    BY <1>1 DEF LimiterInv
  <2>. QED
    BY <1>1, <2>1, RatesAreNumbers DEF Found
<1>2. CASE bucket[t] # NoBucket
  <2>. DEFINE b == bucket[t]
              g == granted[t]
              elapsed == now - b.last_refill
  <2>1. b \in Buckets /\ b.last_refill <= now /\ RoomLeft(g, b) /\ g \in Seq(Nat) /\ now \in Nat
    BY <1>2, RatesAreNumbers DEF LimiterInv, LimiterTyped
  <2>2. b.tokens \in Nat /\ b.tokens <= Cap /\ b.last_refill \in Nat /\ elapsed \in Nat
    BY <2>1, RatesAreNumbers DEF Buckets
  <2>3. elapsed * RPM >= 0 /\ elapsed * RPM \in Int
    BY <2>2, RatesAreNumbers
  <2>4. Found(t) = IF b.tokens + elapsed * RPM > Cap THEN Cap ELSE b.tokens + elapsed * RPM
    BY <1>2 DEF Found, Refill, Cap
  <2>. HIDE DEF elapsed
  <2>5. Found(t) \in 0..Cap /\ Found(t) <= b.tokens + elapsed * RPM
    BY <2>2, <2>3, <2>4, RatesAreNumbers
  <2>6. ASSUME NEW i \in 1..Len(g)
        PROVE  (Len(g) - i + 1) * Token + Found(t) <= Cap + (now - g[i]) * RPM
    <3>1. (Len(g) - i + 1) * Token + b.tokens <= Cap + (b.last_refill - g[i]) * RPM
      BY <2>1 DEF RoomLeft
    <3>2. g[i] \in Nat /\ Len(g) \in Nat /\ i \in Nat
      BY <2>1
    <3>. DEFINE all == (now - g[i]) * RPM
                early == (b.last_refill - g[i]) * RPM
                late == elapsed * RPM
                taken == (Len(g) - i + 1) * Token
                tokens == b.tokens
                found == Found(t)
    <3>3. all = early + late /\ all \in Int /\ early \in Int /\ late \in Int
      <4>1. now \in Int /\ b.last_refill \in Int /\ g[i] \in Int
        BY <2>1, <2>2, <3>2
      <4>2. /\ (now - g[i]) * RPM = (b.last_refill - g[i]) * RPM + (now - b.last_refill) * RPM
            /\ (now - g[i]) * RPM \in Int /\ (b.last_refill - g[i]) * RPM \in Int
            /\ (now - b.last_refill) * RPM \in Int
        <5>. HIDE DEF b, g
        <5>. QED
          BY <4>1, RefillsAdd, Zenon
      <4>. QED
        BY <4>2 DEF elapsed
    <3>4. taken \in Int
      BY <3>2, RatesAreNumbers
    <3>5. tokens \in Int /\ found \in Int /\ found <= tokens + late /\ taken + tokens <= Cap + early
      BY <2>2, <2>5, <3>1
    <3>6. taken + found <= Cap + all
      <4>. HIDE DEF all, early, late, taken, tokens, found
      <4>. QED
        BY <3>3, <3>4, <3>5, RatesAreNumbers
    <3>. QED
      BY <3>6
  <2>. QED
    BY <2>5, <2>6
<1>. QED
  BY <1>1, <1>2

\* A check that finds a token takes it.
LEMMA GrantKeepsInv ==
  ASSUME LimiterInv, NEW t \in Tenants, Check(t), Found(t) >= Token
  PROVE  LimiterInv'
<1>. DEFINE found == Found(t)
            g == granted[t]
            n == Len(granted[t])
            h == Append(granted[t], now)
            b == [tokens |-> Found(t) - Token, last_refill |-> now]
<1>1. /\ bucket' = [bucket EXCEPT ![t] = b]
      /\ granted' = [granted EXCEPT ![t] = h]
      /\ advised' = [advised EXCEPT ![t] = NoAdvice]
      /\ now' = now
  BY RatesAreNumbers DEF Check, Found, Cap
<1>2. /\ found \in 0..Cap
      /\ \A i \in 1..n : (n - i + 1) * Token + found <= Cap + (now - g[i]) * RPM
  BY FoundIsTokens
<1>3. LimiterTyped /\ Rated(g)
  BY DEF LimiterInv
<1>4. now \in Nat /\ g \in Seq(Nat) /\ n \in Nat
  BY <1>3, RatesAreNumbers DEF LimiterTyped
<1>5. b \in Buckets /\ b.tokens = found - Token /\ b.last_refill = now
  BY <1>2, <1>4, RatesAreNumbers DEF Buckets
<1>6. h \in Seq(Nat) /\ Len(h) = n + 1 /\ h[n + 1] = now /\ \A i \in 1..n : h[i] = g[i]
  BY <1>4
<1>7. RoomLeft(h, b)
  <2>1. ASSUME NEW i \in 1..(n + 1)
        PROVE  (n + 1 - i + 1) * Token + (found - Token) <= Cap + (now - h[i]) * RPM
    <3>1. CASE i = n + 1
      <4>1. (now - h[i]) * RPM = 0 /\ (n + 1 - i + 1) * Token = Token
        BY <3>1, <1>4, <1>6, RatesAreNumbers
      <4>2. found \in Int /\ found <= Cap
        BY <1>2, RatesAreNumbers
      <4>3. Token + (found - Token) <= Cap + 0
        <5>. HIDE DEF found
        <5>. QED
          BY <4>2, RatesAreNumbers
      <4>. QED
        BY <4>1, <4>3
    <3>2. CASE i # n + 1
      <4>1. i \in 1..n /\ h[i] = g[i] /\ g[i] \in Nat
        BY <3>2, <1>4, <1>6
      <4>2. (n + 1 - i + 1) * Token = (n - i + 1) * Token + Token
        BY <4>1, <1>4, RatesAreNumbers
      <4>3. (n - i + 1) * Token + found <= Cap + (now - g[i]) * RPM
        BY <4>1, <1>2
      <4>4. (n - i + 1) * Token \in Int /\ (now - g[i]) * RPM \in Int /\ found \in Int
        <5>1. i \in Int /\ n \in Int /\ now \in Int /\ g[i] \in Int /\ RPM \in Int /\ Token \in Int
          BY <4>1, <1>4, RatesAreNumbers
        <5>2. n - i + 1 \in Int /\ now - g[i] \in Int
          BY <5>1
        <5>3. found \in Int
          BY <1>2, RatesAreNumbers
        <5>4. \A x, y \in Int : x * y \in Int
          OBVIOUS
        <5>. QED
          BY <5>1, <5>2, <5>3, <5>4
      <4>. QED
        BY <4>1, <4>2, <4>3, <4>4, RatesAreNumbers
    <3>. QED
      BY <3>1, <3>2
  <2>. QED
    BY <2>1, <1>5, <1>6 DEF RoomLeft
<1>8. Rated(h)
  <2>1. ASSUME NEW i \in 1..(n + 1), NEW j \in 1..(n + 1), i <= j
        PROVE  (j - i + 1) * Token <= Cap + (h[j] - h[i]) * RPM
    <3>1. CASE j # n + 1
      <4>1. i \in 1..n /\ j \in 1..n /\ h[i] = g[i] /\ h[j] = g[j]
        BY <3>1, <2>1, <1>4, <1>6
      <4>. QED
        BY <4>1, <2>1, <1>3 DEF Rated
    <3>2. CASE j = n + 1
      <4>1. (Len(h) - i + 1) * Token + b.tokens <= Cap + (b.last_refill - h[i]) * RPM
        BY <1>6, <1>7 DEF RoomLeft
      <4>2. Len(h) = j /\ b.last_refill = h[j]
        BY <1>5, <1>6, <3>2
      <4>3. h[i] \in Nat /\ h[j] \in Nat /\ i \in Nat /\ j \in Nat
        BY <1>4, <1>6
      <4>4. (j - i + 1) * Token \in Int /\ (h[j] - h[i]) * RPM \in Int /\ b.tokens \in Nat
        BY <4>3, <1>5, RatesAreNumbers DEF Buckets
      <4>5. (j - i + 1) * Token + b.tokens <= Cap + (h[j] - h[i]) * RPM
        BY <4>1, <4>2
      <4>. HIDE DEF h, b
      <4>. QED
        BY <4>4, <4>5, RatesAreNumbers
    <3>. QED
      BY <3>1, <3>2
  <2>. QED
    BY <2>1, <1>6 DEF Rated
<1>9. \A i \in DOMAIN h : h[i] <= now
  <2>1. \A i \in DOMAIN g : g[i] <= now
    BY <1>3 DEF LimiterTyped
  <2>2. DOMAIN g = 1..n /\ DOMAIN h = 1..(n + 1)
    BY <1>4, <1>6
  <2>. QED
    BY <2>1, <2>2, <1>4, <1>6
<1>10. b # NoBucket
  BY <1>5, BucketsAreBuckets
<1>. HIDE DEF h, b
<1>11. LimiterTyped'
  BY <1>1, <1>3, <1>5, <1>6, <1>9, <1>4, RatesAreNumbers DEF LimiterTyped
<1>12. ASSUME NEW u \in Tenants
       PROVE  /\ Rated(granted'[u])
              /\ bucket'[u] = NoBucket => granted'[u] = <<>> /\ advised'[u] = NoAdvice
              /\ bucket'[u] # NoBucket => RoomLeft(granted'[u], bucket'[u])
              /\ advised'[u] # NoAdvice => Promised(advised'[u], bucket'[u])
  <2>1. CASE u = t
    BY <2>1, <1>1, <1>3, <1>7, <1>8, <1>10 DEF LimiterTyped
  <2>2. CASE u # t
    <3>1. granted'[u] = granted[u] /\ bucket'[u] = bucket[u] /\ advised'[u] = advised[u]
      BY <2>2, <1>1, <1>3 DEF LimiterTyped
    <3>. QED
      BY <3>1 DEF LimiterInv
  <2>. QED
    BY <2>1, <2>2
<1>. QED
  BY <1>11, <1>12 DEF LimiterInv, Rated, RoomLeft, Promised

\* A check that finds no token says when there is one.
LEMMA RefusalKeepsInv ==
  ASSUME LimiterInv, NEW t \in Tenants, Check(t), Found(t) < Token
  PROVE  LimiterInv'
<1>. DEFINE found == Found(t)
            g == granted[t]
            n == Len(granted[t])
            b == [tokens |-> Found(t), last_refill |-> now]
            wait == RetryAfter(Found(t))
<1>1. /\ found \in 0..Cap
      /\ \A i \in 1..n : (n - i + 1) * Token + found <= Cap + (now - g[i]) * RPM
  BY FoundIsTokens
<1>2. /\ bucket' = [bucket EXCEPT ![t] = b]
      /\ granted' = granted
      /\ advised' = [advised EXCEPT ![t] = now + wait]
      /\ now' = now
  BY <1>1, RatesAreNumbers DEF Check, Found, Cap
<1>3. LimiterTyped /\ Rated(g)
  BY DEF LimiterInv
<1>4. now \in Nat
  BY <1>3, RatesAreNumbers DEF LimiterTyped
<1>5. b \in Buckets /\ b.tokens = found /\ b.last_refill = now /\ b # NoBucket
  BY <1>1, <1>4, BucketsAreBuckets DEF Buckets
<1>6. RoomLeft(g, b)
  BY <1>1, <1>5 DEF RoomLeft
<1>7. wait \in Nat /\ found + wait * RPM >= Token
  <2>1. found \in Nat
    BY <1>1, RatesAreNumbers
  <2>. QED
    BY <2>1, AdviceSuffices
<1>8. now + wait \in Nat /\ (now + wait) - now = wait
  <2>. HIDE DEF wait
  <2>. QED
    BY <1>4, <1>7
<1>9. Promised(now + wait, b)
  BY <1>5, <1>7, <1>8 DEF Promised
<1>. HIDE DEF b, wait
<1>10. LimiterTyped'
  BY <1>2, <1>3, <1>4, <1>5, <1>8, RatesAreNumbers DEF LimiterTyped
<1>11. ASSUME NEW u \in Tenants
       PROVE  /\ Rated(granted'[u])
              /\ bucket'[u] = NoBucket => granted'[u] = <<>> /\ advised'[u] = NoAdvice
              /\ bucket'[u] # NoBucket => RoomLeft(granted'[u], bucket'[u])
              /\ advised'[u] # NoAdvice => Promised(advised'[u], bucket'[u])
  <2>1. CASE u = t
    BY <2>1, <1>2, <1>3, <1>5, <1>6, <1>9 DEF LimiterTyped
  <2>2. CASE u # t
    <3>1. granted'[u] = granted[u] /\ bucket'[u] = bucket[u] /\ advised'[u] = advised[u]
      BY <2>2, <1>2, <1>3 DEF LimiterTyped
    <3>. QED
      BY <3>1 DEF LimiterInv
  <2>. QED
    BY <2>1, <2>2
<1>. QED
  BY <1>10, <1>11 DEF LimiterInv, Rated, RoomLeft, Promised

LEMMA LimiterSteps == LimiterInv /\ [ChatLimiterNext]_limiterVars => LimiterInv'
<1>. SUFFICES ASSUME LimiterInv, [ChatLimiterNext]_limiterVars PROVE LimiterInv'
  OBVIOUS
<1>1. ASSUME Second PROVE LimiterInv'
  <2>1. now' \in 0..MaxSeconds /\ now' >= now /\ now \in Nat
    BY <1>1, RatesAreNumbers DEF Second, LimiterInv, LimiterTyped
  <2>2. bucket' = bucket /\ granted' = granted /\ advised' = advised
    BY <1>1 DEF Second
  <2>3. LimiterTyped'
    <3>1. ASSUME NEW t \in Tenants, bucket[t] # NoBucket PROVE bucket[t].last_refill <= now'
      <4>1. bucket[t].last_refill <= now /\ bucket[t] \in Buckets
        BY <3>1 DEF LimiterInv, LimiterTyped
      <4>2. bucket[t].last_refill \in Nat
        BY <4>1 DEF Buckets
      <4>. QED
        BY <4>1, <4>2, <2>1, RatesAreNumbers
    <3>2. ASSUME NEW t \in Tenants, NEW i \in DOMAIN granted[t] PROVE granted[t][i] <= now'
      <4>1. granted[t][i] <= now /\ granted[t] \in Seq(Nat)
        BY DEF LimiterInv, LimiterTyped
      <4>2. granted[t][i] \in Nat
        BY <4>1
      <4>. QED
        BY <4>1, <4>2, <2>1, RatesAreNumbers
    <3>. QED
      BY <2>1, <2>2, <3>1, <3>2 DEF LimiterInv, LimiterTyped
  <2>. QED
    BY <2>2, <2>3 DEF LimiterInv, Rated, RoomLeft, Promised
<1>2. ASSUME NEW t \in Tenants, Check(t) PROVE LimiterInv'
  <2>1. Found(t) \in Int
    BY FoundIsTokens, RatesAreNumbers
  <2>2. Found(t) >= Token \/ Found(t) < Token
    BY <2>1, RatesAreNumbers
  <2>. QED
    BY <1>2, <2>2, GrantKeepsInv, RefusalKeepsInv
<1>3. ASSUME RestartLimiter PROVE LimiterInv'
  BY <1>3 DEF RestartLimiter, LimiterInv, LimiterTyped, Rated
<1>4. ASSUME UNCHANGED limiterVars PROVE LimiterInv'
  BY <1>4 DEF limiterVars, LimiterInv, LimiterTyped, Rated, RoomLeft, Promised
<1>. QED
  BY <1>1, <1>2, <1>3, <1>4 DEF ChatLimiterNext

LEMMA LimiterInvHolds == ChatLimiterSpec => []LimiterInv
  BY LimiterStarts, LimiterSteps, PTL DEF ChatLimiterSpec

\* A bucket never holds more than the burst and was never refilled in the future
\* (rate_limit.rs, check).
THEOREM ChatLimiterTypeCorrect == ChatLimiterSpec => []ChatLimiterTypeOK
<1>1. ASSUME LimiterInv PROVE ChatLimiterTypeOK
  <2>1. LimiterTyped
    BY <1>1 DEF LimiterInv
  <2>2. ASSUME NEW t \in Tenants, bucket[t] # NoBucket
        PROVE  bucket[t].tokens \in 0..(BURST * Token) /\ bucket[t].last_refill \in 0..now
    <3>1. bucket[t] \in Buckets /\ bucket[t].last_refill <= now /\ now \in 0..MaxSeconds
      BY <2>1, <2>2 DEF LimiterTyped
    <3>2. bucket[t].tokens \in 0..Cap /\ bucket[t].last_refill \in Nat
      BY <3>1 DEF Buckets
    <3>. QED
      BY <3>1, <3>2, RatesAreNumbers DEF Cap
  <2>3. ASSUME NEW t \in Tenants, NEW i \in DOMAIN granted[t] PROVE granted[t][i] \in 0..now
    <3>1. granted[t] \in Seq(Nat) /\ granted[t][i] <= now /\ now \in 0..MaxSeconds
      BY <2>1 DEF LimiterTyped
    <3>2. granted[t][i] \in Nat
      BY <3>1
    <3>. QED
      BY <3>1, <3>2, RatesAreNumbers
  <2>. QED
    BY <2>1, <2>2, <2>3 DEF LimiterTyped, ChatLimiterTypeOK
<1>. QED
  BY <1>1, LimiterInvHolds, PTL

LEMMA AdviceIsKept == LimiterInv /\ [ChatLimiterNext]_limiterVars => AdviceHolds \/ UNCHANGED limiterVars
<1>. SUFFICES ASSUME LimiterInv, ChatLimiterNext, NEW t \in Tenants,
                     advised[t] # NoAdvice, now >= advised[t], bucket'[t] # bucket[t],
                     bucket'[t] # NoBucket
              PROVE  granted'[t] # granted[t]
  BY DEF AdviceHolds
<1>1. PICK u \in Tenants : Check(u)
  BY DEF ChatLimiterNext, Second, RestartLimiter
<1>2. LimiterTyped
  BY DEF LimiterInv
<1>3. u = t
  BY <1>1, <1>2 DEF Check, LimiterTyped
<1>4. bucket[t] # NoBucket /\ Promised(advised[t], bucket[t])
  BY DEF LimiterInv
<1>. DEFINE b == bucket[t]
<1>5. b.tokens \in 0..Cap /\ b.last_refill \in Nat /\ b.last_refill <= now
  BY <1>2, <1>4 DEF LimiterTyped, Buckets
<1>6. now \in Nat /\ advised[t] \in Nat
  BY <1>2, RatesAreNumbers DEF LimiterTyped
<1>7. (advised[t] - b.last_refill) * RPM <= (now - b.last_refill) * RPM
  <2>. DEFINE x == advised[t] - b.last_refill
              y == now - b.last_refill
  <2>1. x \in Int /\ y \in Int /\ x <= y
    BY <1>5, <1>6
  <2>2. x * RPM <= y * RPM
    <3>. HIDE DEF x, y
    <3>. QED
      BY <2>1, LongerRefillsMore
  <2>. QED
    BY <2>2
<1>8. (advised[t] - b.last_refill) * RPM \in Int /\ (now - b.last_refill) * RPM \in Int
  BY <1>5, <1>6, RatesAreNumbers
<1>9. b.tokens + (now - b.last_refill) * RPM >= Token
  <2>. DEFINE x == (advised[t] - b.last_refill) * RPM
              y == (now - b.last_refill) * RPM
              z == b.tokens
  <2>1. x \in Int /\ y \in Int /\ z \in Int /\ x <= y /\ z + x >= Token
    BY <1>4, <1>5, <1>7, <1>8 DEF Promised
  <2>2. z + y >= Token
    <3>. HIDE DEF x, y, z
    <3>. QED
      BY <2>1, RatesAreNumbers
  <2>. QED
    BY <2>2
<1>10. Refill(b) >= Token
  BY <1>9, RatesAreNumbers DEF Refill, Cap
<1>11. granted' = [granted EXCEPT ![t] = Append(@, now)]
  BY <1>1, <1>3, <1>4, <1>10 DEF Check
<1>12. granted'[t] = Append(granted[t], now) /\ granted[t] \in Seq(Nat)
  BY <1>2, <1>11 DEF LimiterTyped
<1>13. Len(granted'[t]) = Len(granted[t]) + 1 /\ Len(granted[t]) \in Nat
  BY <1>6, <1>12
<1>. QED
  BY <1>13

\* However a tenant's chats and refusals are spread over time, no stretch of it gets more
\* chats than the burst and what was refilled meanwhile; and the seconds a refusal names
\* (Retry-After, rate_limit.rs) are enough, whatever the rate and the burst.
THEOREM LimiterAlwaysKeepsItsWord == ChatLimiterSpec => LimiterKeepsItsWord
<1>1. LimiterInv => RateHolds
  <2>1. SUFFICES ASSUME LimiterInv PROVE RateHolds
    OBVIOUS
  <2>2. ASSUME NEW t \in Tenants PROVE DOMAIN granted[t] = 1..Len(granted[t]) /\ Rated(granted[t])
    BY <2>1 DEF LimiterInv, LimiterTyped
  <2>. QED
    BY <2>2 DEF RateHolds, Rated, Cap
<1>2. LimiterInv /\ RateHolds' /\ [ChatLimiterNext]_limiterVars => [RateHolds' /\ AdviceHolds]_limiterVars
  BY AdviceIsKept
<1>. QED
  BY <1>1, <1>2, LimiterInvHolds, PTL DEF ChatLimiterSpec, LimiterKeepsItsWord

-----------------------------------------------------------------------------
(* The linter.  What a run has in hand of a page or a source nobody has    *)
(* touched since it began is what the disk and the rows still say.         *)

LintTextsOf == UNION {LintTexts[p] : p \in LintPages}

LintTyped ==
  /\ disk \in [LintPages -> SUBSET LintTextsOf]
  /\ \A p \in LintPages : disk[p] \subseteq LintTexts[p] /\ (\A s, t \in disk[p] : s = t)
  /\ rows \subseteq LintSources
  /\ \A l, m \in lint : l = m
  /\ touched \subseteq LintPages \cup LintSources

\* The sources the pages of a run name.
Ids(l) == UNION {Of(l, p, "ids") : p \in Read(l)}

LintShape(l) ==
  /\ l \in Lints /\ l.left \subseteq l.pages
  /\ IsFiniteSet(l.tags) /\ Cardinality(l.tags) <= MAX_CLUSTERS /\ l.contradictions \subseteq l.tags
  /\ l.at # "pages" => l.left = {}

\* The pages as they were listed and read; d, touch: the disk and what was touched.
PagesStand(l, d, touch) == \A p \in LintPages \ touch :
  /\ p \in l.pages <=> d[p] # {}
  /\ p \notin l.left => l.read[p] = d[p]

SourcesStand(l, have, touch) ==
  /\ l.at = "pages" => l.stale = {} /\ l.unasked = {}
  /\ l.unasked \subseteq Ids(l) /\ l.stale \subseteq Ids(l)
  /\ l.at \in {"clusters", "commit"} => l.unasked = {}
  /\ \A s \in LintSources \ touch :
       /\ s \in l.stale => s \notin have
       /\ l.at # "pages" /\ s \in Ids(l) \ l.unasked /\ s \notin have => s \in l.stale

LintInv ==
  /\ LintTyped
  /\ \A l \in lint : LintShape(l) /\ PagesStand(l, disk, touched) /\ SourcesStand(l, rows, touched)

LEMMA LintTextsAreTexts ==
  ASSUME NEW t \in LintTextsOf
  PROVE  t.links \subseteq LintPages /\ t.ids \subseteq LintSources /\ t.tags \subseteq Tags
<1>1. PICK p \in LintPages : t \in LintTexts[p]
  BY DEF LintTextsOf
<1>2. t \in [links : SUBSET LintPages, ids : SUBSET LintSources, tags : SUBSET Tags]
  BY <1>1, WikiLintAssumption
<1>. QED
  BY <1>2

LEMMA IdsAreSources ==
  ASSUME NEW l \in Lints
  PROVE  Ids(l) \subseteq LintSources
<1>1. l.read \in [LintPages -> SUBSET LintTextsOf] /\ l.pages \subseteq LintPages
  BY DEF Lints, LintTextsOf
<1>2. ASSUME NEW s \in Ids(l) PROVE s \in LintSources
  <2>1. PICK p \in Read(l) : s \in Of(l, p, "ids")
    BY <1>2 DEF Ids
  <2>2. PICK t \in l.read[p] : s \in t.ids
    BY <2>1 DEF Of
  <2>3. t \in LintTextsOf
    BY <1>1, <2>1, <2>2 DEF Read
  <2>. QED
    BY <2>2, <2>3, LintTextsAreTexts
<1>. QED
  BY <1>2

\* Ids are a matter of what was listed and read.
LEMMA IdsFollowReads ==
  ASSUME NEW l, NEW m, m.pages = l.pages, m.read = l.read
  PROVE  Ids(m) = Ids(l)
  BY DEF Ids, Read, Of

LEMMA LintStarts == WikiLintInit => LintInv
<1>. SUFFICES ASSUME WikiLintInit PROVE LintInv
  OBVIOUS
<1>1. disk \in [LintPages -> SUBSET LintTextsOf]
  BY DEF WikiLintInit, LintTextsOf
<1>2. \A p \in LintPages : \A s, t \in disk[p] : s = t
  BY DEF WikiLintInit
<1>. QED
  BY <1>1, <1>2 DEF WikiLintInit, LintInv, LintTyped

\* Touching a page or a source takes nothing from what is said of the others.
LEMMA TouchingKeepsInv ==
  ASSUME LintInv, NEW x \in LintPages \cup LintSources,
         touched' = IF lint = {} THEN {} ELSE touched \cup {x}, lint' = lint,
         \/ /\ x \in LintPages /\ rows' = rows
            /\ \E new \in SUBSET LintTexts[x] : (\A s, t \in new : s = t) /\ disk' = [disk EXCEPT ![x] = new]
         \/ x \in LintSources /\ rows' = rows \ {x} /\ disk' = disk
  PROVE  LintInv'
<1>1. LintTyped /\ \A l \in lint : LintShape(l) /\ PagesStand(l, disk, touched) /\ SourcesStand(l, rows, touched)
  BY DEF LintInv
<1>2. \A p \in LintPages : LintTexts[p] \subseteq LintTextsOf
  BY DEF LintTextsOf
<1>3. disk' \in [LintPages -> SUBSET LintTextsOf]
      /\ \A p \in LintPages : disk'[p] \subseteq LintTexts[p] /\ (\A s, t \in disk'[p] : s = t)
  BY <1>1, <1>2 DEF LintTyped
<1>4. rows' \subseteq LintSources /\ touched' \subseteq LintPages \cup LintSources
  BY <1>1 DEF LintTyped
<1>5. LintTyped'
  BY <1>1, <1>3, <1>4 DEF LintTyped
<1>6. ASSUME NEW l \in lint
      PROVE  PagesStand(l, disk', touched') /\ SourcesStand(l, rows', touched')
  <2>1. touched' = touched \cup {x}
    BY <1>6
  <2>2. PagesStand(l, disk, touched) /\ SourcesStand(l, rows, touched)
    BY <1>1
  <2>3. \A p \in LintPages \ touched' : disk'[p] = disk[p] /\ p \notin touched
    BY <1>1, <2>1 DEF LintTyped
  <2>4. \A s \in LintSources \ touched' : (s \in rows' <=> s \in rows) /\ s \notin touched
    BY <2>1
  <2>5. PagesStand(l, disk', touched')
    BY <2>2, <2>3 DEF PagesStand
  <2>. QED
    BY <2>2, <2>4, <2>5 DEF SourcesStand
<1>. QED
  BY <1>1, <1>5, <1>6 DEF LintInv, LintShape

\* A step of the run that touches nothing.
LEMMA RunningKeepsInv ==
  ASSUME LintInv, NEW m, lint' = {m}, disk' = disk, rows' = rows, touched' = touched,
         LintShape(m), PagesStand(m, disk, touched), SourcesStand(m, rows, touched)
  PROVE  LintInv'
<1>1. LintTyped'
  BY DEF LintInv, LintTyped
<1>. QED
  BY <1>1 DEF LintInv, LintShape, PagesStand, SourcesStand, Ids

LEMMA EndingKeepsInv ==
  ASSUME LintInv, lint' = {}, touched' = {}, disk' = disk, rows' = rows
  PROVE  LintInv'
  BY DEF LintInv, LintTyped

LEMMA ListKeepsInv ==
  ASSUME LintInv, LintList
  PROVE  LintInv'
<1>. DEFINE m == [at |-> "pages", pages |-> OnDisk, left |-> OnDisk, read |-> [p \in LintPages |-> {}],
                  unasked |-> {}, stale |-> {}, tags |-> {}, contradictions |-> {}]
<1>1. lint' = {m} /\ touched' = {} /\ disk' = disk /\ rows' = rows
  BY DEF LintList
<1>2. /\ m.at = "pages" /\ m.pages = OnDisk /\ m.left = OnDisk /\ m.read = [p \in LintPages |-> {}]
      /\ m.unasked = {} /\ m.stale = {} /\ m.tags = {} /\ m.contradictions = {}
  OBVIOUS
<1>3. m \in Lints
  <2>1. OnDisk \in SUBSET LintPages
    BY DEF OnDisk
  <2>2. [p \in LintPages |-> {}] \in [LintPages -> SUBSET UNION {LintTexts[p] : p \in LintPages}]
    OBVIOUS
  <2>. QED
    BY <2>1, <2>2 DEF Lints
<1>. HIDE DEF m
<1>4. LintShape(m)
  <2>1. IsFiniteSet({}) /\ Cardinality({}) = 0
    BY FS_EmptySet
  <2>. QED
    BY <1>2, <1>3, <2>1, WikiLintAssumption DEF LintShape
<1>5. PagesStand(m, disk, {})
  BY <1>2 DEF PagesStand, OnDisk
<1>6. Ids(m) = {}
  <2>1. OnDisk \subseteq LintPages
    BY DEF OnDisk
  <2>2. Read(m) = {}
    BY <1>2, <2>1 DEF Read
  <2>. QED
    BY <2>2 DEF Ids
<1>7. SourcesStand(m, rows, {})
  BY <1>2, <1>6 DEF SourcesStand
<1>8. LintTyped'
  BY <1>1 DEF LintInv, LintTyped
<1>. QED
  BY <1>1, <1>4, <1>5, <1>7, <1>8 DEF LintInv, LintShape, PagesStand, SourcesStand, Ids

LEMMA ReadKeepsInv ==
  ASSUME LintInv, NEW p \in LintPages, LintRead(p)
  PROVE  LintInv'
<1>1. PICK l \in lint :
        /\ l.at = "pages" /\ p \in l.left
        /\ lint' = {[l EXCEPT !.left = @ \ {p}, !.read[p] = disk[p]]}
        /\ disk' = disk /\ rows' = rows /\ touched' = touched
  BY DEF LintRead
<1>2. LintTyped /\ LintShape(l) /\ PagesStand(l, disk, touched) /\ SourcesStand(l, rows, touched)
  BY DEF LintInv
<1>. DEFINE m == [l EXCEPT !.left = @ \ {p}, !.read[p] = disk[p]]
<1>3. l \in Lints /\ l.read \in [LintPages -> SUBSET LintTextsOf]
  BY <1>2 DEF LintShape, Lints, LintTextsOf
<1>4. /\ m.at = "pages" /\ m.pages = l.pages /\ m.left = l.left \ {p}
      /\ m.read = [l.read EXCEPT ![p] = disk[p]]
      /\ m.unasked = l.unasked /\ m.stale = l.stale /\ m.tags = l.tags /\ m.contradictions = l.contradictions
  BY <1>1, <1>3 DEF Lints
<1>5. m \in Lints
  <2>1. disk[p] \subseteq LintTextsOf
    BY <1>2 DEF LintTyped
  <2>2. [l.read EXCEPT ![p] = disk[p]] \in [LintPages -> SUBSET LintTextsOf] /\ l.left \ {p} \in SUBSET LintPages
    BY <1>3, <2>1 DEF Lints
  <2>. QED
    BY <1>3, <2>2 DEF Lints, LintTextsOf
<1>. HIDE DEF m
<1>6. LintShape(m)
  BY <1>2, <1>4, <1>5 DEF LintShape
<1>7. PagesStand(m, disk, touched)
  BY <1>2, <1>3, <1>4 DEF PagesStand
<1>8. SourcesStand(m, rows, touched)
  <2>1. l.stale = {} /\ l.unasked = {}
    BY <1>1, <1>2 DEF SourcesStand
  <2>. QED
    BY <1>4, <2>1 DEF SourcesStand
<1>. QED
  BY <1>1, <1>6, <1>7, <1>8, RunningKeepsInv DEF m

LEMMA CollectKeepsInv ==
  ASSUME LintInv, LintCollect
  PROVE  LintInv'
<1>1. PICK l \in lint :
        /\ l.at = "pages" /\ l.left = {}
        /\ lint' = {[l EXCEPT !.at = "rows", !.unasked = Ids(l)]}
        /\ disk' = disk /\ rows' = rows /\ touched' = touched
  BY DEF LintCollect, Ids
<1>2. LintTyped /\ LintShape(l) /\ PagesStand(l, disk, touched) /\ SourcesStand(l, rows, touched)
  BY DEF LintInv
<1>. DEFINE m == [l EXCEPT !.at = "rows", !.unasked = Ids(l)]
<1>3. l \in Lints
  BY <1>2 DEF LintShape
<1>4. Ids(l) \subseteq LintSources
  BY <1>3, IdsAreSources
<1>5. /\ m.at = "rows" /\ m.pages = l.pages /\ m.left = l.left /\ m.read = l.read
      /\ m.unasked = Ids(l) /\ m.stale = l.stale /\ m.tags = l.tags /\ m.contradictions = l.contradictions
  BY <1>1, <1>3 DEF Lints
<1>6. m \in Lints
  BY <1>3, <1>4 DEF Lints
<1>. HIDE DEF m
<1>7. LintShape(m) /\ PagesStand(m, disk, touched)
  BY <1>1, <1>2, <1>5, <1>6 DEF LintShape, PagesStand
<1>8. Ids(m) = Ids(l)
  BY <1>5, IdsFollowReads
<1>9. SourcesStand(m, rows, touched)
  BY <1>1, <1>2, <1>5, <1>8 DEF SourcesStand
<1>. QED
  BY <1>1, <1>7, <1>9, RunningKeepsInv DEF m

LEMMA RowKeepsInv ==
  ASSUME LintInv, NEW s \in LintSources, LintRow(s)
  PROVE  LintInv'
<1>1. PICK l \in lint :
        /\ l.at = "rows" /\ s \in l.unasked
        /\ lint' = {[l EXCEPT !.unasked = @ \ {s}, !.stale = IF s \in rows THEN @ ELSE @ \cup {s}]}
        /\ disk' = disk /\ rows' = rows /\ touched' = touched
  BY DEF LintRow
<1>2. LintTyped /\ LintShape(l) /\ PagesStand(l, disk, touched) /\ SourcesStand(l, rows, touched)
  BY DEF LintInv
<1>. DEFINE stale == IF s \in rows THEN l.stale ELSE l.stale \cup {s}
            m == [l EXCEPT !.unasked = @ \ {s}, !.stale = stale]
<1>3. l \in Lints /\ lint' = {m}
  BY <1>1, <1>2 DEF LintShape
<1>4. /\ m.at = "rows" /\ m.pages = l.pages /\ m.left = l.left /\ m.read = l.read
      /\ m.unasked = l.unasked \ {s} /\ m.stale = stale /\ m.tags = l.tags /\ m.contradictions = l.contradictions
  BY <1>1, <1>3 DEF Lints
<1>5. m \in Lints
  BY <1>3 DEF Lints
<1>. HIDE DEF m
<1>6. LintShape(m) /\ PagesStand(m, disk, touched)
  BY <1>1, <1>2, <1>4, <1>5 DEF LintShape, PagesStand
<1>7. Ids(m) = Ids(l)
  BY <1>4, IdsFollowReads
<1>8. SourcesStand(m, rows, touched)
  BY <1>1, <1>2, <1>4, <1>7 DEF SourcesStand
<1>. QED
  BY <1>1, <1>3, <1>6, <1>8, RunningKeepsInv

\* A step of the run that only goes on, or asks about a tag.
LEMMA GoingOnKeepsInv ==
  ASSUME LintInv, NEW l \in lint, NEW m \in Lints, lint' = {m}, disk' = disk, rows' = rows, touched' = touched,
         m.pages = l.pages, m.left = l.left, m.read = l.read, m.unasked = l.unasked, m.stale = l.stale,
         IsFiniteSet(m.tags), Cardinality(m.tags) <= MAX_CLUSTERS, m.contradictions \subseteq m.tags,
         l.at # "pages", m.at # "pages", l.unasked = {}
  PROVE  LintInv'
<1>1. LintShape(l) /\ PagesStand(l, disk, touched) /\ SourcesStand(l, rows, touched)
  BY DEF LintInv
<1>2. Ids(m) = Ids(l)
  BY IdsFollowReads
<1>3. LintShape(m) /\ PagesStand(m, disk, touched)
  BY <1>1 DEF LintShape, PagesStand
<1>4. SourcesStand(m, rows, touched)
  BY <1>1, <1>2 DEF SourcesStand
<1>. QED
  BY <1>3, <1>4, RunningKeepsInv

LEMMA ClusterKeepsInv ==
  ASSUME LintInv, NEW tag \in Tags, LintCluster(tag)
  PROVE  LintInv'
<1>1. PICK l \in lint, found \in BOOLEAN :
        /\ l.at = "clusters" /\ Cardinality(l.tags) < MAX_CLUSTERS /\ tag \in Clusters(l) \ l.tags
        /\ lint' = {[l EXCEPT !.tags = @ \cup {tag}, !.contradictions = IF found THEN @ \cup {tag} ELSE @]}
        /\ disk' = disk /\ rows' = rows /\ touched' = touched
  BY DEF LintCluster
<1>. DEFINE both == IF found THEN l.contradictions \cup {tag} ELSE l.contradictions
            m == [l EXCEPT !.tags = @ \cup {tag}, !.contradictions = both]
<1>2. l \in Lints /\ IsFiniteSet(l.tags) /\ l.contradictions \subseteq l.tags /\ l.unasked = {}
  BY <1>1 DEF LintInv, LintShape, SourcesStand
<1>3. /\ m.at = "clusters" /\ m.pages = l.pages /\ m.left = l.left /\ m.read = l.read
      /\ m.unasked = l.unasked /\ m.stale = l.stale /\ m.tags = l.tags \cup {tag} /\ m.contradictions = both
  BY <1>1, <1>2 DEF Lints
<1>4. m \in Lints /\ lint' = {m}
  <2>1. l.tags \cup {tag} \in SUBSET Tags /\ both \in SUBSET Tags
    BY <1>2 DEF Lints
  <2>. QED
    BY <1>1, <1>2, <2>1 DEF Lints
<1>5. both \subseteq l.tags \cup {tag}
  BY <1>2
<1>6. IsFiniteSet(l.tags \cup {tag}) /\ Cardinality(l.tags \cup {tag}) = Cardinality(l.tags) + 1
      /\ Cardinality(l.tags) \in Nat
  BY <1>1, <1>2, FS_AddElement, FS_CardinalityType
<1>7. Cardinality(l.tags \cup {tag}) <= MAX_CLUSTERS
  BY <1>1, <1>6, WikiLintAssumption
<1>. HIDE DEF m, both
<1>. QED
  BY <1>1, <1>2, <1>3, <1>4, <1>5, <1>6, <1>7, GoingOnKeepsInv

LEMMA DoneKeepsInv ==
  ASSUME LintInv, LintRowsDone \/ LintClustersDone
  PROVE  LintInv'
<1>1. PICK l \in lint, next \in {"clusters", "commit"} :
        /\ l.at \in {"rows", "clusters"} /\ (l.at = "rows" => l.unasked = {})
        /\ lint' = {[l EXCEPT !.at = next]}
        /\ disk' = disk /\ rows' = rows /\ touched' = touched
  BY DEF LintRowsDone, LintClustersDone
<1>. DEFINE m == [l EXCEPT !.at = next]
<1>2. l \in Lints /\ LintShape(l) /\ l.unasked = {}
  BY <1>1 DEF LintInv, LintShape, SourcesStand
<1>3. /\ m.at = next /\ m.pages = l.pages /\ m.left = l.left /\ m.read = l.read
      /\ m.unasked = l.unasked /\ m.stale = l.stale /\ m.tags = l.tags /\ m.contradictions = l.contradictions
  BY <1>1, <1>2 DEF Lints
<1>4. m \in Lints /\ lint' = {m}
  BY <1>1, <1>2 DEF Lints
<1>. HIDE DEF m
<1>. QED
  BY <1>1, <1>2, <1>3, <1>4, GoingOnKeepsInv DEF LintShape

LEMMA LintSteps == LintInv /\ [WikiLintNext]_lintVars => LintInv'
<1>. SUFFICES ASSUME LintInv, [WikiLintNext]_lintVars PROVE LintInv'
  OBVIOUS
<1>1. ASSUME NEW p \in LintPages, NEW text \in LintTexts[p], PutPage(p, text) PROVE LintInv'
  <2>1. {text} \in SUBSET LintTexts[p] /\ (\A s, t \in {text} : s = t)
    OBVIOUS
  <2>. QED
    BY <1>1, <2>1, TouchingKeepsInv DEF PutPage
<1>2. ASSUME NEW p \in LintPages, DropPage(p) PROVE LintInv'
  <2>1. {} \in SUBSET LintTexts[p] /\ (\A s, t \in {} : s = t)
    OBVIOUS
  <2>. QED
    BY <1>2, <2>1, TouchingKeepsInv DEF DropPage
<1>3. ASSUME NEW s \in LintSources, DropRow(s) PROVE LintInv'
  BY <1>3, TouchingKeepsInv DEF DropRow
<1>4. ASSUME LintCommit \/ LintFails PROVE LintInv'
  BY <1>4, EndingKeepsInv DEF LintCommit, LintFails
<1>5. ASSUME UNCHANGED lintVars PROVE LintInv'
  BY <1>5 DEF lintVars, LintInv, LintTyped, LintShape, PagesStand, SourcesStand, Ids, Lints
<1>. QED
  BY <1>1, <1>2, <1>3, <1>4, <1>5, ListKeepsInv, ReadKeepsInv, CollectKeepsInv, RowKeepsInv, ClusterKeepsInv,
     DoneKeepsInv DEF WikiLintNext

LEMMA LintInvHolds == WikiLintSpec => []LintInv
  BY LintStarts, LintSteps, PTL DEF WikiLintSpec

\* One lint at a time is under way, with what it has read and never more clusters than
\* it may ask about (lib.rs, Linter::run).
THEOREM WikiLintTypeCorrect == WikiLintSpec => []WikiLintTypeOK
<1>1. LintInv => WikiLintTypeOK
  BY DEF LintInv, LintTyped, LintShape, WikiLintTypeOK
<1>. QED
  BY <1>1, LintInvHolds, PTL

LEMMA InvReportsStand == LintInv => ReportsStand
<1>. SUFFICES ASSUME LintInv, NEW l \in lint, l.at = "commit"
              PROVE  LET still == LintPages \ touched
                         quiet == touched \cap LintPages = {}
                     IN  /\ \A p, t \in still : <<p, t>> \in BrokenLinks(l) <=> t \in Links(p) \ OnDisk
                         /\ \A p \in still \ SystemPages :
                              /\ p \in Orphans(l) => p \in OnDisk /\ \A q \in still : p \notin Links(q)
                              /\ p \in OnDisk /\ p \notin Orphans(l) => ~quiet \/ \E q \in OnDisk : p \in Links(q)
                         /\ Index \in still \cap OnDisk =>
                              /\ MissingFromIndex(l) \cap still = (OnDisk \ (SystemPages \cup Links(Index))) \cap still
                              /\ StaleInIndex(l) \cap still = (Links(Index) \ OnDisk) \cap still
                         /\ \A s \in LintSources \ touched :
                              /\ s \in l.stale => s \notin rows /\ (quiet => \E p \in OnDisk : s \in Names(p))
                              /\ s \notin rows /\ (\E p \in still : s \in Names(p)) => s \in l.stale
  BY DEF ReportsStand
<1>. DEFINE still == LintPages \ touched
            quiet == touched \cap LintPages = {}
<1>1. LintTyped /\ LintShape(l) /\ PagesStand(l, disk, touched) /\ SourcesStand(l, rows, touched)
  BY DEF LintInv
<1>2. l.left = {} /\ l.unasked = {}
  BY <1>1 DEF LintShape, SourcesStand
<1>3. l.pages \subseteq LintPages /\ l.read \in [LintPages -> SUBSET LintTextsOf]
  BY <1>1 DEF LintShape, Lints, LintTextsOf
<1>4. ASSUME NEW p \in still
      PROVE  /\ p \in l.pages <=> p \in OnDisk
             /\ p \in Read(l) <=> p \in OnDisk
             /\ Of(l, p, "links") = Links(p) /\ Of(l, p, "ids") = Names(p)
             /\ p \notin OnDisk => Links(p) = {} /\ Names(p) = {}
  <2>1. (p \in l.pages <=> disk[p] # {}) /\ l.read[p] = disk[p] /\ p \in LintPages
    BY <1>1, <1>2, <1>4 DEF PagesStand
  <2>. QED
    BY <2>1 DEF OnDisk, Read, Of, Links, Names
<1>5. ASSUME NEW p \in OnDisk PROVE Links(p) \subseteq LintPages
  <2>1. ASSUME NEW t \in Links(p) PROVE t \in LintPages
    <3>1. PICK x \in disk[p] : t \in x.links
      BY <2>1 DEF Links
    <3>2. x \in LintTextsOf
      BY <3>1, <1>1, <1>5 DEF LintTyped, OnDisk
    <3>. QED
      BY <3>1, <3>2, LintTextsAreTexts
  <2>. QED
    BY <2>1
<1>6. \A p, t \in still : <<p, t>> \in BrokenLinks(l) <=> t \in Links(p) \ OnDisk
  <2>1. SUFFICES ASSUME NEW p \in still, NEW t \in still
                 PROVE  <<p, t>> \in BrokenLinks(l) <=> t \in Links(p) \ OnDisk
    OBVIOUS
  <2>2. <<p, t>> \in BrokenLinks(l) <=> p \in Read(l) /\ t \in LintPages /\ t \in Of(l, p, "links") \ l.pages
    BY DEF BrokenLinks
  <2>. QED
    BY <2>2, <1>4
<1>7. ASSUME NEW p \in still \ SystemPages
      PROVE  /\ p \in Orphans(l) => p \in OnDisk /\ \A q \in still : p \notin Links(q)
             /\ p \in OnDisk /\ p \notin Orphans(l) => ~quiet \/ \E q \in OnDisk : p \in Links(q)
  <2>1. p \in Orphans(l) <=> p \in l.pages /\ p \notin Inbound(l)
    BY <1>7 DEF Orphans
  <2>2. ASSUME NEW q \in still, p \in Links(q) PROVE p \in Inbound(l)
    <3>1. q \in Read(l) /\ p \in Of(l, q, "links")
      BY <2>2, <1>4
    <3>. QED
      BY <3>1 DEF Inbound
  <2>3. ASSUME quiet, p \in Inbound(l) PROVE \E q \in OnDisk : p \in Links(q)
    <3>1. PICK q \in Read(l) : p \in Of(l, q, "links")
      BY <2>3 DEF Inbound
    <3>2. q \in still
      BY <3>1, <2>3, <1>3 DEF Read
    <3>. QED
      BY <3>1, <3>2, <1>4
  <2>. QED
    BY <1>4, <1>7, <2>1, <2>2, <2>3
<1>8. ASSUME Index \in still \cap OnDisk
      PROVE  /\ MissingFromIndex(l) \cap still = (OnDisk \ (SystemPages \cup Links(Index))) \cap still
             /\ StaleInIndex(l) \cap still = (Links(Index) \ OnDisk) \cap still
  <2>1. Index \in Read(l) /\ Of(l, Index, "links") = Links(Index)
    BY <1>4, <1>8
  <2>2. /\ MissingFromIndex(l) = l.pages \ (SystemPages \cup Links(Index))
        /\ StaleInIndex(l) = Links(Index) \ l.pages
    BY <2>1 DEF MissingFromIndex, StaleInIndex
  <2>. QED
    BY <2>2, <1>4
<1>9. ASSUME NEW s \in LintSources \ touched
      PROVE  /\ s \in l.stale => s \notin rows /\ (quiet => \E p \in OnDisk : s \in Names(p))
             /\ s \notin rows /\ (\E p \in still : s \in Names(p)) => s \in l.stale
  <2>1. /\ s \in l.stale => s \notin rows /\ s \in Ids(l)
        /\ s \in Ids(l) /\ s \notin rows => s \in l.stale
    BY <1>1, <1>2, <1>9 DEF SourcesStand
  <2>2. ASSUME quiet, s \in Ids(l) PROVE \E p \in OnDisk : s \in Names(p)
    <3>1. PICK p \in Read(l) : s \in Of(l, p, "ids")
      BY <2>2 DEF Ids
    <3>2. p \in still
      BY <3>1, <2>2, <1>3 DEF Read
    <3>. QED
      BY <3>1, <3>2, <1>4
  <2>3. ASSUME NEW p \in still, s \in Names(p) PROVE s \in Ids(l)
    <3>1. p \in Read(l) /\ s \in Of(l, p, "ids")
      BY <2>3, <1>4
    <3>. QED
      BY <3>1 DEF Ids
  <2>. QED
    BY <2>1, <2>2, <2>3
<1>. QED
  BY <1>6, <1>7, <1>8, <1>9

\* A report that is about to be committed is right about every page and source nobody
\* touched since its run began, in whatever order pages were read, written and deleted
\* and rows dropped meanwhile (lib.rs, Linter::run; lint.rs).
THEOREM ReportsAlwaysStand == WikiLintSpec => []ReportsStand
  BY InvReportsStand, LintInvHolds, PTL

-----------------------------------------------------------------------------
(* The distillation agent, for any number of runs side by side, turns and  *)
(* operations.                                                             *)

\* The operations on a path: OpsOn, of a sequence of them.
OnPath(ops, p) == {i \in DOMAIN ops : ops[i].path = p}

IsFirst(S, i) == i \in S /\ \A j \in S : i <= j

AllTexts == UNION {Texts[p] : p \in Pages}

AgentOps ==
  {o \in [op : {"create", "patch"}, path : Pages, text : AllTexts] : o.text \in Texts[o.path]}
    \cup [op : {"patch"}, path : {Log}, text : SUBSET Lines]

Runs == [at : {"turn", "validate", "commit", "over"}, turn : 0..MAX_TURNS, done : BOOLEAN,
         known : (SUBSET Lines) \cup {NotRead}, ops : Seq(AgentOps)]

RunShape(r) ==
  /\ r \in Runs /\ Len(r.ops) <= MAX_OPS
  /\ r.at = "turn" => r.turn < MAX_TURNS

\* The first operation on a page creates it if and only if there was none; w, bh: the
\* pages and what was changed behind a run's back.
FirstsFit(a, r, w, bh) == \A p \in Pages : <<a, p>> \notin bh =>
  \A i \in OnPath(r.ops, p) : IsFirst(OnPath(r.ops, p), i) => (w[p] = NoPage <=> r.ops[i].op = "create")

\* What was validated still is valid, but for the pages removed meanwhile.
BundleValid(a, r, w, bh) == r.at = "commit" =>
  \A i \in DOMAIN r.ops : r.ops[i].path # Log =>
    /\ r.ops[i].text.fm
    /\ \A q \in r.ops[i].text.links :
         w[q] # NoPage \/ <<a, q>> \in bh \/ \E j \in OnPath(r.ops, q) : r.ops[j].op = "create"

\* The log, as read or staged, holds the lines of the file; l: those lines.
LogKnown(a, r, l, bh) == <<a, Log>> \notin bh =>
  /\ r.known # NotRead => l \subseteq r.known
  /\ \A i \in OnPath(r.ops, Log) : l \subseteq r.ops[i].text

\* Each patch of the log holds its own line and those of the first.
LogChained(a, r) ==
  /\ \A i \in OnPath(r.ops, Log) : <<a, i>> \in r.ops[i].text
  /\ \A i, j \in OnPath(r.ops, Log) : IsFirst(OnPath(r.ops, Log), i) => r.ops[i].text \subseteq r.ops[j].text
  /\ \A i \in OnPath(r.ops, Log) : IsFirst(OnPath(r.ops, Log), i) /\ r.known # NotRead => r.ops[i].text \subseteq r.known

RunSound(a, r, w, l, bh) ==
  /\ RunShape(r)
  /\ FirstsFit(a, r, w, bh) /\ BundleValid(a, r, w, bh) /\ LogKnown(a, r, l, bh) /\ LogChained(a, r)

AgentTyped ==
  /\ wiki \in [Pages -> AllTexts \cup {NoPage}] /\ \A p \in Pages : wiki[p] \in Texts[p] \cup {NoPage}
  /\ log \subseteq Lines
  /\ agent \in [Agents -> Runs]
  /\ behind \subseteq Agents \X (Pages \cup {Log})

AgentInv == AgentTyped /\ \A a \in Agents : RunSound(a, agent[a], wiki, log, behind)

LEMMA OpsAreOps ==
  ASSUME NEW o \in AgentOps
  PROVE  /\ o.path \in Pages \/ (o.path = Log /\ o.op = "patch" /\ o.text \subseteq Lines)
         /\ o.op \in {"create", "patch"}
         /\ o.path # Log => o.path \in Pages /\ o.text \in Texts[o.path] /\ o.text # NoPage
                            /\ o.text.links \subseteq Pages
<1>1. CASE o \in [op : {"patch"}, path : {Log}, text : SUBSET Lines]
  BY <1>1
<1>2. CASE o \in [op : {"create", "patch"}, path : Pages, text : AllTexts] /\ o.text \in Texts[o.path]
  <2>1. o.path \in Pages /\ o.op \in {"create", "patch"}
    BY <1>2
  <2>2. o.text \in [links : SUBSET Pages, fm : BOOLEAN] /\ o.text # NoPage
    BY <1>2, <2>1, WikiAgentAssumption
  <2>3. o.text.links \subseteq Pages
    BY <2>2
  <2>. QED
    BY <1>2, <2>1, <2>2, <2>3
<1>. QED
  BY <1>1, <1>2 DEF AgentOps

LEMMA LogIsNoPage == Log \notin Pages /\ NotRead \notin SUBSET Lines /\ MAX_OPS \in Nat /\ MAX_OPS >= 1
                     /\ MAX_TURNS \in Nat /\ MAX_TURNS >= 1 /\ \A p \in Pages : NoPage \notin Texts[p]
  BY WikiAgentAssumption

\* What one more operation changes.
LEMMA OpsGrow ==
  ASSUME NEW ops \in Seq(AgentOps), NEW o \in AgentOps, NEW p
  PROVE  /\ Append(ops, o) \in Seq(AgentOps) /\ Len(Append(ops, o)) = Len(ops) + 1 /\ Len(ops) \in Nat
         /\ DOMAIN Append(ops, o) = 1..(Len(ops) + 1)
         /\ \A i \in 1..Len(ops) : Append(ops, o)[i] = ops[i]
         /\ Append(ops, o)[Len(ops) + 1] = o
         /\ OnPath(ops, p) \subseteq 1..Len(ops)
         /\ OnPath(Append(ops, o), p) = OnPath(ops, p) \cup {i \in {Len(ops) + 1} : o.path = p}
<1>1. /\ Append(ops, o) \in Seq(AgentOps) /\ Len(Append(ops, o)) = Len(ops) + 1 /\ Len(ops) \in Nat
      /\ DOMAIN Append(ops, o) = 1..(Len(ops) + 1)
      /\ \A i \in 1..Len(ops) : Append(ops, o)[i] = ops[i]
      /\ Append(ops, o)[Len(ops) + 1] = o
      /\ DOMAIN ops = 1..Len(ops)
  OBVIOUS
<1>2. 1..(Len(ops) + 1) = 1..Len(ops) \cup {Len(ops) + 1} /\ Len(ops) + 1 \notin 1..Len(ops)
  BY <1>1
<1>. DEFINE big == Append(ops, o)
            n == Len(ops)
<1>. HIDE DEF big, n
<1>3. OnPath(big, p) = OnPath(ops, p) \cup {i \in {n + 1} : o.path = p}
  BY <1>1, <1>2 DEF OnPath, big, n
<1>. QED
  BY <1>1, <1>3 DEF OnPath, big, n

\* The first of a set stays the first when a later one comes.
LEMMA FirstStays ==
  ASSUME NEW n \in Nat, NEW S \in SUBSET (1..n), NEW extra \in SUBSET {n + 1}, NEW i, IsFirst(S \cup extra, i), S # {}
  PROVE  IsFirst(S, i) /\ i \in S
<1>1. PICK j \in S : TRUE
  OBVIOUS
<1>2. i <= j /\ i \in S \cup extra /\ j \in 1..n
  BY <1>1 DEF IsFirst
<1>3. i # n + 1
  BY <1>2
<1>4. i \in S
  BY <1>2, <1>3
<1>. QED
  BY <1>4 DEF IsFirst

LEMMA AgentStarts == WikiAgentInit => AgentInv
<1>. SUFFICES ASSUME WikiAgentInit PROVE AgentInv
  OBVIOUS
<1>. DEFINE r == [at |-> "turn", turn |-> 0, done |-> FALSE, known |-> NotRead, ops |-> <<>>]
<1>1. /\ r.at = "turn" /\ r.turn = 0 /\ r.done = FALSE /\ r.known = NotRead /\ r.ops = <<>>
      /\ r \in Runs
  BY LogIsNoPage DEF Runs
<1>2. \A a \in Agents : agent[a] = r
  BY DEF WikiAgentInit
<1>3. agent \in [Agents -> Runs]
  BY <1>1 DEF WikiAgentInit
<1>. HIDE DEF r
<1>4. DOMAIN r.ops = {} /\ Len(r.ops) = 0 /\ \A p : OnPath(r.ops, p) = {}
  BY <1>1 DEF OnPath
<1>5. ASSUME NEW a \in Agents PROVE RunSound(a, r, wiki, log, behind)
  <2>1. RunShape(r)
    BY <1>1, <1>4, LogIsNoPage DEF RunShape
  <2>2. log = {}
    BY DEF WikiAgentInit
  <2>. QED
    BY <1>1, <1>4, <2>1, <2>2 DEF RunSound, FirstsFit, BundleValid, LogKnown, LogChained
<1>6. AgentTyped
  BY <1>3 DEF WikiAgentInit, AgentTyped
<1>. QED
  BY <1>2, <1>5, <1>6 DEF AgentInv

\* A step of one run, which touches no file.
LEMMA OwnStepKeepsInv ==
  ASSUME AgentInv, NEW a \in Agents, NEW r, agent' = [agent EXCEPT ![a] = r],
         wiki' = wiki, log' = log, behind' \subseteq behind,
         \A b \in Agents \ {a} : \A p : <<b, p>> \in behind => <<b, p>> \in behind',
         RunSound(a, r, wiki, log, behind')
  PROVE  AgentInv'
<1>1. AgentTyped /\ r \in Runs
  BY DEF AgentInv, RunSound, RunShape
<1>2. AgentTyped'
  BY <1>1 DEF AgentTyped
<1>3. ASSUME NEW b \in Agents PROVE RunSound(b, agent'[b], wiki, log, behind')
  <2>1. CASE b = a
    BY <2>1, <1>1 DEF AgentTyped
  <2>2. CASE b # a
    <3>1. agent'[b] = agent[b] /\ RunSound(b, agent[b], wiki, log, behind)
      BY <2>2, <1>1 DEF AgentInv, AgentTyped
    <3>2. \A p : <<b, p>> \in behind <=> <<b, p>> \in behind'
      BY <2>2
    <3>. QED
      BY <3>1, <3>2 DEF RunSound, FirstsFit, BundleValid, LogKnown
  <2>. QED
    BY <2>1, <2>2
<1>. QED
  BY <1>2, <1>3 DEF AgentInv, RunSound, RunShape, FirstsFit, BundleValid, LogKnown, LogChained

\* Whatever changes files behind a run, it stays sound.
LEMMA ChangesKeepRun ==
  ASSUME NEW a, NEW r, NEW w, NEW l, NEW bh, NEW w2, NEW l2, NEW bh2,
         RunSound(a, r, w, l, bh),
         \A p : <<a, p>> \in bh => <<a, p>> \in bh2,
         \A p \in Pages : <<a, p>> \notin bh2 => w2[p] = w[p],
         <<a, Log>> \notin bh2 => l2 = l
  PROVE  RunSound(a, r, w2, l2, bh2)
<1>1. RunShape(r) /\ FirstsFit(a, r, w, bh) /\ BundleValid(a, r, w, bh) /\ LogKnown(a, r, l, bh) /\ LogChained(a, r)
  BY DEF RunSound
<1>2. FirstsFit(a, r, w2, bh2)
  BY <1>1 DEF FirstsFit
<1>3. BundleValid(a, r, w2, bh2)
  <2>1. SUFFICES ASSUME r.at = "commit", NEW i \in DOMAIN r.ops, r.ops[i].path # Log
                 PROVE  /\ r.ops[i].text.fm
                        /\ \A q \in r.ops[i].text.links :
                             w2[q] # NoPage \/ <<a, q>> \in bh2 \/ \E j \in OnPath(r.ops, q) : r.ops[j].op = "create"
    BY DEF BundleValid
  <2>2. r.ops[i] \in AgentOps
    BY <1>1, <2>1 DEF RunShape, Runs
  <2>3. r.ops[i].text.links \subseteq Pages
    BY <2>1, <2>2, OpsAreOps
  <2>. QED
    BY <1>1, <2>1, <2>3 DEF BundleValid
<1>4. LogKnown(a, r, l2, bh2)
  BY <1>1 DEF LogKnown
<1>. QED
  BY <1>1, <1>2, <1>3, <1>4 DEF RunSound

\* A run that is over has nothing to be wrong about.
LEMMA EndedRunSound ==
  ASSUME AgentInv, NEW a \in Agents, NEW w, NEW l, NEW bh
  PROVE  RunSound(a, [agent[a] EXCEPT !.at = "over", !.ops = <<>>, !.known = NotRead], w, l, bh)
<1>. DEFINE r == [agent[a] EXCEPT !.at = "over", !.ops = <<>>, !.known = NotRead]
<1>1. agent[a] \in Runs
  BY DEF AgentInv, AgentTyped
<1>2. r \in Runs /\ r.at = "over" /\ r.ops = <<>> /\ r.known = NotRead
  <2>1. <<>> \in Seq(AgentOps)
    OBVIOUS
  <2>. QED
    BY <1>1, <2>1 DEF Runs
<1>. HIDE DEF r
<1>3. DOMAIN r.ops = {} /\ Len(r.ops) = 0 /\ \A p : OnPath(r.ops, p) = {}
  BY <1>2 DEF OnPath
<1>4. RunSound(a, r, w, l, bh)
  BY <1>2, <1>3, LogIsNoPage DEF RunSound, RunShape, FirstsFit, BundleValid, LogKnown, LogChained
<1>. QED
  BY <1>4 DEF r

LEMMA EndingRunKeepsInv ==
  ASSUME AgentInv, NEW a \in Agents, EndRun(a), wiki' = wiki, log' = log, behind' = behind
  PROVE  AgentInv'
<1>. DEFINE r == [agent[a] EXCEPT !.at = "over", !.ops = <<>>, !.known = NotRead]
<1>1. agent' = [agent EXCEPT ![a] = r]
  BY DEF EndRun, AgentInv, AgentTyped
<1>2. RunSound(a, r, wiki, log, behind')
  BY EndedRunSound
<1>. HIDE DEF r
<1>. QED
  BY <1>1, <1>2, OwnStepKeepsInv

\* A page's operation is staged.
LEMMA StagedPageSound ==
  ASSUME AgentInv, NEW a \in Agents, agent[a].at = "turn", NEW p \in Pages, NEW t \in Texts[p],
         NEW op \in {"create", "patch"},
         OpsOn(a, p) = {} => (wiki[p] = NoPage <=> op = "create"),
         Stage(a, [op |-> op, path |-> p, text |-> t], agent[a].known), Rely(a, p), wiki' = wiki, log' = log
  PROVE  AgentInv'
<1>. DEFINE o == [op |-> op, path |-> p, text |-> t]
            s == agent[a]
            ops == agent[a].ops
            big == Append(agent[a].ops, o)
            n == Len(agent[a].ops)
            r == [agent[a] EXCEPT !.known = agent[a].known, !.ops = big]
            e == [agent[a] EXCEPT !.at = "over", !.ops = <<>>, !.known = NotRead]
<1>1. agent[a] \in Runs /\ RunSound(a, agent[a], wiki, log, behind) /\ behind \subseteq Agents \X (Pages \cup {Log})
  BY DEF AgentInv, AgentTyped
<1>2. s.ops \in Seq(AgentOps) /\ o \in AgentOps /\ o.path = p /\ o.path # Log /\ o.op = op
  <2>1. o \in [op : {"create", "patch"}, path : Pages, text : AllTexts] /\ o.text \in Texts[o.path]
    BY DEF AllTexts
  <2>2. o \in AgentOps
    BY <2>1 DEF AgentOps
  <2>. QED
    BY <1>1, <2>2, LogIsNoPage DEF Runs
<1>3. /\ behind' \subseteq behind
      /\ \A b \in Agents : \A q : <<b, q>> \in behind /\ ~(b = a /\ q = p) => <<b, q>> \in behind'
      /\ OpsOn(a, p) # {} => behind' = behind
  BY DEF Rely
<1>4. \A q : OpsOn(a, q) = OnPath(s.ops, q)
  BY DEF OpsOn, OnPath
<1>5. CASE OverBudget(big)
  <2>1. agent' = [agent EXCEPT ![a] = e]
    BY <1>5 DEF Stage, AgentInv, AgentTyped
  <2>2. RunSound(a, e, wiki, log, behind')
    BY EndedRunSound
  <2>3. \A b \in Agents \ {a} : \A q : <<b, q>> \in behind => <<b, q>> \in behind'
    BY <1>3
  <2>. HIDE DEF e
  <2>. QED
    BY <1>3, <2>1, <2>2, <2>3, OwnStepKeepsInv
<1>6. CASE ~OverBudget(big)
  <2>1. agent' = [agent EXCEPT ![a] = r]
    BY <1>6 DEF Stage, AgentInv, AgentTyped
  <2>2. /\ big \in Seq(AgentOps) /\ Len(big) = n + 1 /\ n \in Nat /\ DOMAIN big = 1..(n + 1)
        /\ \A i \in 1..n : big[i] = s.ops[i]
        /\ big[n + 1] = o
    <3>. HIDE DEF o
    <3>. QED
      BY <1>2, OpsGrow
  <2>3. \A q : OnPath(s.ops, q) \subseteq 1..n /\ OnPath(big, q) = OnPath(s.ops, q) \cup {i \in {n + 1} : p = q}
    <3>. HIDE DEF o
    <3>. QED
      BY <1>2, OpsGrow
  <2>4. r.at = "turn" /\ r.turn = s.turn /\ r.done = s.done /\ r.known = s.known /\ r.ops = big /\ r \in Runs
    BY <1>1, <2>2 DEF Runs
  <2>5. Len(big) <= MAX_OPS
    BY <1>6, <2>2, LogIsNoPage DEF OverBudget
  <2>. HIDE DEF r, big, o
  <2>6. RunShape(r)
    BY <1>1, <2>4, <2>5 DEF RunSound, RunShape
  <2>7. FirstsFit(a, r, wiki, behind')
    <3>1. SUFFICES ASSUME NEW q \in Pages, <<a, q>> \notin behind', NEW i \in OnPath(big, q), IsFirst(OnPath(big, q), i)
                   PROVE  wiki[q] = NoPage <=> big[i].op = "create"
      BY <2>4 DEF FirstsFit
    <3>2. CASE OnPath(s.ops, q) # {}
      <4>1. IsFirst(OnPath(s.ops, q), i) /\ i \in OnPath(s.ops, q)
        <5>1. {j \in {n + 1} : p = q} \in SUBSET {n + 1} /\ OnPath(s.ops, q) \in SUBSET (1..n)
          BY <2>3
        <5>2. IsFirst(OnPath(s.ops, q) \cup {j \in {n + 1} : p = q}, i)
          BY <3>1, <2>3
        <5>. HIDE DEF n
        <5>. QED
          BY <2>2, <3>2, <5>1, <5>2, FirstStays
      <4>2. <<a, q>> \notin behind
        BY <1>3, <1>4, <3>1, <3>2
      <4>3. wiki[q] = NoPage <=> s.ops[i].op = "create"
        BY <1>1, <4>1, <4>2 DEF RunSound, FirstsFit
      <4>. QED
        BY <2>2, <2>3, <4>1, <4>3
    <3>3. CASE OnPath(s.ops, q) = {}
      <4>1. i = n + 1 /\ q = p
        BY <2>3, <3>1, <3>3
      <4>. QED
        BY <1>2, <1>4, <2>2, <3>3, <4>1
    <3>. QED
      BY <3>2, <3>3
  <2>8. BundleValid(a, r, wiki, behind')
    BY <2>4 DEF BundleValid
  <2>9. OnPath(big, Log) = OnPath(s.ops, Log) /\ \A i \in OnPath(s.ops, Log) : big[i] = s.ops[i]
    BY <2>2, <2>3, LogIsNoPage
  <2>10. LogKnown(a, r, log, behind')
    <3>1. <<a, Log>> \notin behind' => <<a, Log>> \notin behind
      BY <1>3, LogIsNoPage
    <3>. QED
      BY <1>1, <2>4, <2>9, <3>1 DEF RunSound, LogKnown
  <2>11. LogChained(a, r)
    BY <1>1, <2>4, <2>9 DEF RunSound, LogChained
  <2>12. RunSound(a, r, wiki, log, behind')
    BY <2>6, <2>7, <2>8, <2>10, <2>11 DEF RunSound
  <2>13. \A b \in Agents \ {a} : \A q : <<b, q>> \in behind => <<b, q>> \in behind'
    BY <1>3
  <2>. QED
    BY <1>3, <2>1, <2>12, <2>13, OwnStepKeepsInv
<1>. QED
  BY <1>5, <1>6

\* A patch of the log is staged, on what was read of it.
LEMMA AppendLogKeepsInv ==
  ASSUME AgentInv, NEW a \in Agents, AppendLog(a)
  PROVE  AgentInv'
<1>. DEFINE s == agent[a]
            n == Len(agent[a].ops)
            o == [op |-> "patch", path |-> Log, text |-> agent[a].known \cup {<<a, Len(agent[a].ops) + 1>>}]
            big == Append(agent[a].ops, o)
            r == [agent[a] EXCEPT !.known = NotRead, !.ops = big]
            e == [agent[a] EXCEPT !.at = "over", !.ops = <<>>, !.known = NotRead]
<1>1. s \in Runs /\ RunSound(a, s, wiki, log, behind) /\ s.at = "turn" /\ s.known # NotRead
      /\ wiki' = wiki /\ log' = log /\ behind' = behind
  BY DEF AgentInv, AgentTyped, AppendLog, Calling
<1>2. s.ops \in Seq(AgentOps) /\ n \in Nat /\ s.known \in SUBSET Lines
  BY <1>1 DEF Runs
<1>3. CASE OverBudget(big)
  <2>1. agent' = [agent EXCEPT ![a] = e]
    BY <1>3 DEF AppendLog, Stage, AgentInv, AgentTyped
  <2>2. RunSound(a, e, wiki, log, behind')
    BY EndedRunSound
  <2>. HIDE DEF e
  <2>. QED
    BY <1>1, <2>1, <2>2, OwnStepKeepsInv
<1>4. CASE ~OverBudget(big)
  <2>1. agent' = [agent EXCEPT ![a] = r]
    BY <1>4 DEF AppendLog, Stage, AgentInv, AgentTyped
  <2>2. Len(big) = n + 1 /\ Len(big) <= MAX_OPS
    <3>1. Len(big) = n + 1
      <4>. HIDE DEF o
      <4>. QED
        BY <1>2
    <3>. QED
      BY <1>2, <1>4, <3>1, LogIsNoPage DEF OverBudget
  <2>3. <<a, n + 1>> \in Lines
    BY <1>2, <2>2, LogIsNoPage DEF Lines
  <2>4. o \in AgentOps /\ o.path = Log /\ o.op = "patch" /\ o.text = s.known \cup {<<a, n + 1>>}
    BY <1>2, <2>3 DEF AgentOps
  <2>. HIDE DEF o
  <2>5. /\ big \in Seq(AgentOps) /\ DOMAIN big = 1..(n + 1)
        /\ \A i \in 1..n : big[i] = s.ops[i]
        /\ big[n + 1] = o
    BY <1>2, <2>4, OpsGrow
  <2>6. \A q : OnPath(s.ops, q) \subseteq 1..n /\ OnPath(big, q) = OnPath(s.ops, q) \cup {i \in {n + 1} : Log = q}
    BY <1>2, <2>4, OpsGrow
  <2>7. r.at = "turn" /\ r.turn = s.turn /\ r.done = s.done /\ r.known = NotRead /\ r.ops = big /\ r \in Runs
    BY <1>1, <2>5 DEF Runs
  <2>. HIDE DEF r, big
  <2>8. RunShape(r)
    BY <1>1, <2>2, <2>7 DEF RunSound, RunShape
  <2>9. \A q \in Pages : OnPath(big, q) = OnPath(s.ops, q) /\ \A i \in OnPath(s.ops, q) : big[i] = s.ops[i]
    BY <2>5, <2>6, LogIsNoPage
  <2>10. FirstsFit(a, r, wiki, behind)
    BY <1>1, <2>7, <2>9 DEF RunSound, FirstsFit
  <2>11. BundleValid(a, r, wiki, behind)
    BY <2>7 DEF BundleValid
  <2>12. OnPath(big, Log) = OnPath(s.ops, Log) \cup {n + 1} /\ OnPath(s.ops, Log) \subseteq 1..n
         /\ \A i \in OnPath(s.ops, Log) : big[i] = s.ops[i]
    BY <2>5, <2>6
  <2>13. LogKnown(a, r, log, behind)
    BY <1>1, <2>4, <2>5, <2>7, <2>12 DEF RunSound, LogKnown
  <2>14. ASSUME NEW i \in OnPath(big, Log), IsFirst(OnPath(big, Log), i), OnPath(s.ops, Log) # {}
         PROVE  IsFirst(OnPath(s.ops, Log), i) /\ i \in OnPath(s.ops, Log)
    <3>1. IsFirst(OnPath(s.ops, Log) \cup {n + 1}, i) /\ {n + 1} \in SUBSET {n + 1}
          /\ OnPath(s.ops, Log) \in SUBSET (1..n)
      BY <2>12, <2>14
    <3>. HIDE DEF n
    <3>. QED
      BY <1>2, <2>14, <3>1, FirstStays
  <2>15. LogChained(a, r)
    <3>1. \A i \in OnPath(big, Log) : <<a, i>> \in big[i].text
      BY <1>1, <2>4, <2>5, <2>12 DEF RunSound, LogChained
    <3>2. ASSUME NEW i \in OnPath(big, Log), NEW j \in OnPath(big, Log), IsFirst(OnPath(big, Log), i)
          PROVE  big[i].text \subseteq big[j].text
      <4>1. CASE OnPath(s.ops, Log) = {}
        BY <2>12, <4>1
      <4>2. CASE OnPath(s.ops, Log) # {}
        <5>1. IsFirst(OnPath(s.ops, Log), i) /\ i \in OnPath(s.ops, Log)
          BY <2>14, <3>2, <4>2
        <5>2. s.ops[i].text \subseteq s.known /\ big[i] = s.ops[i]
          BY <1>1, <2>12, <5>1 DEF RunSound, LogChained
        <5>3. CASE j = n + 1
          BY <2>4, <2>5, <5>2, <5>3
        <5>4. CASE j \in OnPath(s.ops, Log)
          BY <1>1, <2>12, <5>1, <5>2, <5>4 DEF RunSound, LogChained
        <5>. QED
          BY <2>12, <3>2, <5>3, <5>4
      <4>. QED
        BY <4>1, <4>2
    <3>. QED
      BY <2>7, <3>1, <3>2 DEF LogChained
  <2>16. RunSound(a, r, wiki, log, behind')
    BY <1>1, <2>8, <2>10, <2>11, <2>13, <2>15 DEF RunSound
  <2>. QED
    BY <1>1, <2>1, <2>16, OwnStepKeepsInv
<1>. QED
  BY <1>3, <1>4

\* There is a least of any numbers, and a greatest of those below a bound.
LEMMA LeastOf ==
  ASSUME NEW T \in SUBSET Nat, T # {}
  PROVE  \E n \in T : \A m \in T : n <= m
<1>. DEFINE U == {0..n : n \in T}
<1>1. U \subseteq FiniteSubsetsOf(Nat) /\ U # {}
  <2>1. \A n \in T : IsFiniteSet(0..n) /\ 0..n \in SUBSET Nat
    BY FS_Interval
  <2>. QED
    BY <2>1 DEF FiniteSubsetsOf
<1>2. \E S \in U : \A R \in U : ~(<<R, S>> \in StrictSubsetOrdering(Nat))
  BY <1>1, WFMin, FS_StrictSubsetOrderingWellFounded
<1>3. PICK n \in T : \A m \in T : ~(<<0..m, 0..n>> \in StrictSubsetOrdering(Nat))
  BY <1>2
<1>4. ASSUME NEW m \in T, m < n PROVE FALSE
  <2>1. 0..m \subseteq 0..n /\ 0..m # 0..n /\ 0..n \subseteq Nat /\ 0..m \subseteq Nat
    BY <1>4
  <2>. QED
    BY <1>3, <2>1 DEF StrictSubsetOrdering
<1>. QED
  BY <1>4

LEMMA EndsOf ==
  ASSUME NEW n \in Nat, NEW S \in SUBSET (1..n), S # {}
  PROVE  /\ Least(S) \in S /\ \A j \in S : Least(S) <= j
         /\ Greatest(S) \in S /\ \A j \in S : Greatest(S) >= j
<1>1. \E i \in S : \A j \in S : i <= j
  <2>1. S \in SUBSET Nat
    OBVIOUS
  <2>. QED
    BY <2>1, LeastOf
<1>2. \E i \in S : \A j \in S : i >= j
  <2>. DEFINE T == {n - i : i \in S}
  <2>1. T \in SUBSET Nat /\ T # {}
    <3>1. \A i \in S : n - i \in Nat
      OBVIOUS
    <3>. QED
      BY <3>1
  <2>2. PICK m \in T : \A k \in T : m <= k
    <3>. HIDE DEF T
    <3>. QED
      BY <2>1, LeastOf
  <2>3. PICK i \in S : m = n - i
    BY <2>2
  <2>4. \A j \in S : n - i <= n - j
    BY <2>2, <2>3
  <2>. QED
    BY <2>4
<1>. QED
  BY <1>1, <1>2 DEF Least, Greatest

LEMMA OpsOnPath ==
  ASSUME AgentInv, NEW a \in Agents, NEW p
  PROVE  /\ OpsOn(a, p) = OnPath(agent[a].ops, p) /\ agent[a].ops \in Seq(AgentOps) /\ Len(agent[a].ops) \in Nat
         /\ DOMAIN agent[a].ops = 1..Len(agent[a].ops)
         /\ OpsOn(a, p) \in SUBSET (1..Len(agent[a].ops))
         /\ \A i \in OpsOn(a, p) : agent[a].ops[i] \in AgentOps /\ agent[a].ops[i].path = p
         /\ OpsOn(a, p) # {} =>
              /\ IsFirst(OpsOn(a, p), Least(OpsOn(a, p))) /\ Least(OpsOn(a, p)) \in OpsOn(a, p)
              /\ Greatest(OpsOn(a, p)) \in OpsOn(a, p) /\ \A j \in OpsOn(a, p) : Greatest(OpsOn(a, p)) >= j
<1>1. agent[a].ops \in Seq(AgentOps)
  BY DEF AgentInv, AgentTyped, Runs
<1>2. Len(agent[a].ops) \in Nat /\ DOMAIN agent[a].ops = 1..Len(agent[a].ops)
  BY <1>1
<1>3. OpsOn(a, p) \in SUBSET (1..Len(agent[a].ops))
  BY <1>2 DEF OpsOn
<1>4. \A i \in OpsOn(a, p) : agent[a].ops[i] \in AgentOps /\ agent[a].ops[i].path = p
  BY <1>1, <1>2 DEF OpsOn
<1>5. OpsOn(a, p) # {} =>
        /\ Least(OpsOn(a, p)) \in OpsOn(a, p) /\ \A j \in OpsOn(a, p) : Least(OpsOn(a, p)) <= j
        /\ Greatest(OpsOn(a, p)) \in OpsOn(a, p) /\ \A j \in OpsOn(a, p) : Greatest(OpsOn(a, p)) >= j
  BY <1>2, <1>3, EndsOf
<1>. QED
  BY <1>1, <1>2, <1>3, <1>4, <1>5 DEF OpsOn, OnPath, IsFirst

LEMMA ReadLogKeepsInv ==
  ASSUME AgentInv, NEW a \in Agents, ReadLog(a)
  PROVE  AgentInv'
<1>. DEFINE s == agent[a]
            ops == agent[a].ops
            got == ReadStaged(a)
            r == [agent[a] EXCEPT !.known = got]
<1>1. s \in Runs /\ RunSound(a, s, wiki, log, behind) /\ s.at = "turn" /\ s.known = NotRead
      /\ wiki' = wiki /\ log' = log /\ log \subseteq Lines
  BY DEF AgentInv, AgentTyped, ReadLog, Calling
<1>2. /\ OpsOn(a, Log) = OnPath(ops, Log)
      /\ OpsOn(a, Log) # {} => IsFirst(OpsOn(a, Log), Least(OpsOn(a, Log))) /\ Least(OpsOn(a, Log)) \in OpsOn(a, Log)
      /\ \A i \in OpsOn(a, Log) : ops[i] \in AgentOps /\ ops[i].path = Log
  BY OpsOnPath
<1>3. got \in SUBSET Lines
  <2>1. \A i \in OpsOn(a, Log) : ops[i].text \subseteq Lines
    BY <1>2, OpsAreOps, LogIsNoPage
  <2>. QED
    BY <1>1, <1>2, <2>1 DEF ReadStaged
<1>4. r \in Runs /\ r.at = "turn" /\ r.turn = s.turn /\ r.done = s.done /\ r.known = got /\ r.ops = s.ops
  BY <1>1, <1>3 DEF Runs
<1>5. agent' = [agent EXCEPT ![a] = r]
  BY DEF ReadLog, AgentInv, AgentTyped
<1>6. behind' = IF OpsOn(a, Log) = {} THEN behind \ {<<a, Log>>} ELSE behind
  BY DEF ReadLog
<1>7. OpsOn(a, Log) = {} => got = log
  BY DEF ReadStaged
<1>8. OpsOn(a, Log) # {} => got = ops[Least(OpsOn(a, Log))].text
  BY DEF ReadStaged
<1>. HIDE DEF r, got
<1>9. RunShape(r) /\ FirstsFit(a, r, wiki, behind') /\ BundleValid(a, r, wiki, behind')
  <2>1. \A p \in Pages : <<a, p>> \in behind <=> <<a, p>> \in behind'
    BY <1>6, LogIsNoPage
  <2>. QED
    BY <1>1, <1>4, <2>1 DEF RunSound, RunShape, FirstsFit, BundleValid
<1>10. LogKnown(a, r, log, behind')
  <2>1. CASE OpsOn(a, Log) = {}
    BY <1>2, <1>4, <1>7, <2>1 DEF LogKnown
  <2>2. CASE OpsOn(a, Log) # {}
    BY <1>1, <1>2, <1>4, <1>6, <1>8, <2>2 DEF RunSound, LogKnown
  <2>. QED
    BY <2>1, <2>2
<1>11. LogChained(a, r)
  <2>1. ASSUME NEW i \in OnPath(ops, Log), IsFirst(OnPath(ops, Log), i) PROVE ops[i].text \subseteq got
    BY <1>1, <1>2, <1>8, <2>1 DEF RunSound, LogChained
  <2>. QED
    BY <1>1, <1>4, <2>1 DEF RunSound, LogChained
<1>12. RunSound(a, r, wiki, log, behind')
  BY <1>9, <1>10, <1>11 DEF RunSound
<1>13. behind' \subseteq behind /\ \A b \in Agents \ {a} : \A q : <<b, q>> \in behind => <<b, q>> \in behind'
  BY <1>6
<1>. QED
  BY <1>1, <1>5, <1>12, <1>13, OwnStepKeepsInv

\* A run that goes on with its operations and without the log, or changes nothing of them.
LEMMA MovingOnKeepsInv ==
  ASSUME AgentInv, NEW a \in Agents, NEW r \in Runs, agent' = [agent EXCEPT ![a] = r],
         r.ops = agent[a].ops, r.known \in {NotRead, agent[a].known}, r.at # "commit",
         r.at = "turn" => r.turn < MAX_TURNS,
         wiki' = wiki, log' = log, behind' = behind
  PROVE  AgentInv'
<1>1. RunSound(a, agent[a], wiki, log, behind)
  BY DEF AgentInv
<1>2. RunSound(a, r, wiki, log, behind')
  BY <1>1 DEF RunSound, RunShape, FirstsFit, BundleValid, LogKnown, LogChained
<1>. QED
  BY <1>2, OwnStepKeepsInv

LEMMA CallDoneKeepsInv ==
  ASSUME AgentInv, NEW a \in Agents, CallDone(a)
  PROVE  AgentInv'
<1>. DEFINE r == [agent[a] EXCEPT !.done = TRUE]
<1>1. agent[a] \in Runs /\ agent[a].at = "turn" /\ agent[a].turn < MAX_TURNS
  BY DEF AgentInv, AgentTyped, RunSound, RunShape, CallDone, Calling
<1>2. /\ r \in Runs /\ r.ops = agent[a].ops /\ r.known = agent[a].known /\ r.at = "turn"
      /\ r.turn = agent[a].turn
  BY <1>1 DEF Runs
<1>3. agent' = [agent EXCEPT ![a] = r] /\ wiki' = wiki /\ log' = log /\ behind' = behind
  BY DEF CallDone, AgentInv, AgentTyped
<1>. HIDE DEF r
<1>. QED
  BY <1>1, <1>2, <1>3, MovingOnKeepsInv

LEMMA EndTurnKeepsInv ==
  ASSUME AgentInv, NEW a \in Agents, EndTurn(a)
  PROVE  AgentInv'
<1>. DEFINE turn == agent[a].turn + 1
            v == [agent[a] EXCEPT !.at = "validate", !.known = NotRead]
            g == [agent[a] EXCEPT !.turn = turn]
<1>1. agent[a] \in Runs /\ agent[a].at = "turn" /\ agent[a].turn < MAX_TURNS
      /\ wiki' = wiki /\ log' = log /\ behind' = behind
  BY DEF AgentInv, AgentTyped, RunSound, RunShape, EndTurn, Calling
<1>2. CASE agent' = [agent EXCEPT ![a] = v]
  <2>1. v \in Runs /\ v.ops = agent[a].ops /\ v.known = NotRead /\ v.at = "validate"
    BY <1>1 DEF Runs
  <2>. HIDE DEF v
  <2>. QED
    BY <1>1, <1>2, <2>1, MovingOnKeepsInv
<1>3. CASE EndRun(a)
  BY <1>1, <1>3, EndingRunKeepsInv
<1>4. CASE turn # MAX_TURNS /\ agent' = [agent EXCEPT ![a] = g]
  <2>1. turn \in 0..MAX_TURNS /\ turn < MAX_TURNS
    BY <1>1, <1>4, LogIsNoPage DEF Runs
  <2>2. g \in Runs /\ g.ops = agent[a].ops /\ g.known = agent[a].known /\ g.at = "turn" /\ g.turn = turn
    BY <1>1, <2>1 DEF Runs
  <2>. HIDE DEF g, turn
  <2>. QED
    BY <1>1, <1>4, <2>1, <2>2, MovingOnKeepsInv
<1>. QED
  <2>1. agent' = [agent EXCEPT ![a] = v] \/ EndRun(a) \/ (turn # MAX_TURNS /\ agent' = [agent EXCEPT ![a] = g])
    BY DEF EndTurn, AgentInv, AgentTyped
  <2>. QED
    BY <1>2, <1>3, <1>4, <2>1

LEMMA ValidateKeepsInv ==
  ASSUME AgentInv, NEW a \in Agents, Validate(a)
  PROVE  AgentInv'
<1>. DEFINE s == agent[a]
            ops == agent[a].ops
            r == [agent[a] EXCEPT !.at = "commit"]
<1>1. s \in Runs /\ RunSound(a, s, wiki, log, behind) /\ wiki' = wiki /\ log' = log
  BY DEF AgentInv, AgentTyped, Validate
<1>2. CASE EndRun(a) /\ behind' = behind
  BY <1>1, <1>2, EndingRunKeepsInv
<1>3. CASE /\ \A i \in DOMAIN ops : CheckPage(a, ops[i])
           /\ agent' = [agent EXCEPT ![a] = r]
           /\ behind' = behind \ {<<a, p>> : p \in Pages \ Changed(a)}
  <2>1. r \in Runs /\ r.at = "commit" /\ r.ops = ops /\ r.known = s.known /\ RunShape(r)
    BY <1>1 DEF Runs, RunSound, RunShape
  <2>2. /\ behind' \subseteq behind
        /\ \A b \in Agents \ {a} : \A q : <<b, q>> \in behind => <<b, q>> \in behind'
        /\ <<a, Log>> \in behind => <<a, Log>> \in behind'
        /\ \A p \in Pages : OpsOn(a, p) # {} => (<<a, p>> \in behind <=> <<a, p>> \in behind')
    BY <1>3, LogIsNoPage DEF Changed
  <2>3. \A p : OpsOn(a, p) = OnPath(ops, p)
    BY OpsOnPath
  <2>. HIDE DEF r
  <2>4. FirstsFit(a, r, wiki, behind')
    BY <1>1, <2>1, <2>2, <2>3 DEF RunSound, FirstsFit
  <2>5. BundleValid(a, r, wiki, behind')
    <3>1. SUFFICES ASSUME NEW i \in DOMAIN ops, ops[i].path # Log
                   PROVE  /\ ops[i].text.fm
                          /\ \A q \in ops[i].text.links :
                               wiki[q] # NoPage \/ <<a, q>> \in behind'
                               \/ \E j \in OnPath(ops, q) : ops[j].op = "create"
      BY <2>1 DEF BundleValid
    <3>2. ops[i].text.fm /\ ops[i].text.links \subseteq PostUniverse(a)
      BY <1>3, <3>1 DEF CheckPage
    <3>. QED
      BY <2>3, <3>2 DEF PostUniverse
  <2>6. LogKnown(a, r, log, behind') /\ LogChained(a, r)
    BY <1>1, <2>1, <2>2 DEF RunSound, LogKnown, LogChained
  <2>7. RunSound(a, r, wiki, log, behind')
    BY <2>1, <2>4, <2>5, <2>6 DEF RunSound
  <2>. QED
    BY <1>1, <1>3, <2>2, <2>7, OwnStepKeepsInv
<1>. QED
  BY <1>2, <1>3 DEF Validate, AgentInv, AgentTyped

\* What a commit leaves in a file.
LEMMA AppliedIsText ==
  ASSUME AgentInv, NEW a \in Agents
  PROVE  /\ \A p \in Pages : OpsOn(a, p) # {} => Applied(a, p, wiki[p]) \in Texts[p]
         /\ \A p \in Pages : OpsOn(a, p) = {} => Applied(a, p, wiki[p]) = wiki[p]
         /\ Applied(a, Log, log) \subseteq Lines
         /\ OpsOn(a, Log) = {} => Applied(a, Log, log) = log
<1>1. ASSUME NEW p, OpsOn(a, p) # {}
      PROVE  /\ agent[a].ops[Greatest(OpsOn(a, p))] \in AgentOps /\ agent[a].ops[Greatest(OpsOn(a, p))].path = p
             /\ Applied(a, p, wiki[p]) = agent[a].ops[Greatest(OpsOn(a, p))].text
             /\ Applied(a, p, log) = agent[a].ops[Greatest(OpsOn(a, p))].text
  BY <1>1, OpsOnPath DEF Applied
<1>2. log \subseteq Lines
  BY DEF AgentInv, AgentTyped
<1>3. ASSUME NEW p \in Pages, OpsOn(a, p) # {} PROVE Applied(a, p, wiki[p]) \in Texts[p]
  BY <1>1, <1>3, OpsAreOps, LogIsNoPage
<1>4. Applied(a, Log, log) \subseteq Lines
  <2>1. CASE OpsOn(a, Log) = {}
    BY <1>2, <2>1 DEF Applied
  <2>2. CASE OpsOn(a, Log) # {}
    BY <1>1, <2>2, OpsAreOps, LogIsNoPage
  <2>. QED
    BY <2>1, <2>2
<1>. QED
  BY <1>3, <1>4 DEF Applied

LEMMA CommitRunKeepsInv ==
  ASSUME AgentInv, NEW a \in Agents, CommitRun(a)
  PROVE  AgentInv'
<1>. DEFINE r == [agent[a] EXCEPT !.at = "over", !.ops = <<>>, !.known = NotRead]
<1>1. /\ wiki' = [p \in Pages |-> Applied(a, p, wiki[p])] /\ log' = Applied(a, Log, log)
      /\ behind' = behind \cup ((Agents \ {a}) \X Changed(a))
      /\ agent' = [agent EXCEPT ![a] = r]
  BY DEF CommitRun, EndRun, AgentInv, AgentTyped
<1>2. AgentTyped
  BY DEF AgentInv
<1>3. RunSound(a, r, wiki', log', behind')
  BY EndedRunSound
<1>4. r \in Runs
  BY <1>3 DEF RunSound, RunShape
<1>. HIDE DEF r
<1>5. \A p \in Pages : wiki'[p] \in Texts[p] \cup {NoPage}
  BY <1>1, <1>2, AppliedIsText DEF AgentTyped
<1>6. wiki' \in [Pages -> AllTexts \cup {NoPage}]
  <2>1. \A p \in Pages : Texts[p] \subseteq AllTexts
    BY DEF AllTexts
  <2>. QED
    BY <1>1, <1>5, <2>1
<1>7. log' \subseteq Lines
  BY <1>1, AppliedIsText
<1>8. behind' \subseteq Agents \X (Pages \cup {Log})
  BY <1>1, <1>2 DEF AgentTyped, Changed
<1>9. AgentTyped'
  BY <1>1, <1>2, <1>4, <1>5, <1>6, <1>7, <1>8 DEF AgentTyped
<1>10. ASSUME NEW b \in Agents PROVE RunSound(b, agent'[b], wiki', log', behind')
  <2>1. CASE b = a
    BY <1>1, <1>2, <1>3, <2>1 DEF AgentTyped
  <2>2. CASE b # a
    <3>1. agent'[b] = agent[b] /\ RunSound(b, agent[b], wiki, log, behind)
      BY <1>1, <1>2, <2>2 DEF AgentInv, AgentTyped
    <3>2. \A p : <<b, p>> \in behind => <<b, p>> \in behind'
      BY <1>1
    <3>3. \A p \in Pages : <<b, p>> \notin behind' => wiki'[p] = wiki[p]
      BY <1>1, <2>2, AppliedIsText DEF Changed
    <3>4. <<b, Log>> \notin behind' => log' = log
      BY <1>1, <2>2, AppliedIsText DEF Changed
    <3>5. RunSound(b, agent[b], wiki', log', behind')
      BY <3>1, <3>2, <3>3, <3>4, ChangesKeepRun
    <3>. QED
      BY <3>1, <3>5
  <2>. QED
    BY <2>1, <2>2
<1>. QED
  BY <1>9, <1>10 DEF AgentInv

\* Others change a page, or the log.
LEMMA OthersKeepInv ==
  ASSUME AgentInv, agent' = agent, NEW x \in Pages \cup {Log}, behind' = behind \cup (Agents \X {x}),
         \/ /\ x \in Pages /\ log' = log
            /\ \E t \in Texts[x] \cup {NoPage} : wiki' = [wiki EXCEPT ![x] = t]
         \/ x = Log /\ wiki' = wiki /\ log' = log \cup {<<OtherRun, 1>>}
  PROVE  AgentInv'
<1>1. AgentTyped
  BY DEF AgentInv
<1>2. \A p \in Pages : Texts[p] \subseteq AllTexts
  BY DEF AllTexts
<1>3. <<OtherRun, 1>> \in Lines
  BY LogIsNoPage DEF Lines
<1>4. AgentTyped'
  BY <1>1, <1>2, <1>3 DEF AgentTyped
<1>5. ASSUME NEW b \in Agents PROVE RunSound(b, agent'[b], wiki', log', behind')
  <2>1. agent'[b] = agent[b] /\ RunSound(b, agent[b], wiki, log, behind)
    BY DEF AgentInv
  <2>2. \A p : <<b, p>> \in behind => <<b, p>> \in behind'
    OBVIOUS
  <2>3. \A p \in Pages : <<b, p>> \notin behind' => wiki'[p] = wiki[p]
    BY <1>1 DEF AgentTyped
  <2>4. <<b, Log>> \notin behind' => log' = log
    OBVIOUS
  <2>5. RunSound(b, agent[b], wiki', log', behind')
    BY <2>1, <2>2, <2>3, <2>4, ChangesKeepRun
  <2>. QED
    BY <2>1, <2>5
<1>. QED
  BY <1>4, <1>5 DEF AgentInv

LEMMA AgentSteps == AgentInv /\ [WikiAgentNext]_agentVars => AgentInv'
<1>. SUFFICES ASSUME AgentInv, [WikiAgentNext]_agentVars PROVE AgentInv'
  OBVIOUS
<1>1. ASSUME NEW a \in Agents, NEW p \in Pages, NEW t \in Texts[p], ProposeNew(a, p, t) PROVE AgentInv'
  BY <1>1, StagedPageSound DEF ProposeNew, Calling
<1>2. ASSUME NEW a \in Agents, NEW p \in Pages, NEW t \in Texts[p], ProposePatch(a, p, t) PROVE AgentInv'
  <2>1. OpsOn(a, p) = {} => wiki[p] # NoPage
    BY <1>2 DEF ProposePatch
  <2>. QED
    BY <1>2, <2>1, StagedPageSound DEF ProposePatch, Calling
<1>3. ASSUME NEW a \in Agents, AgentFails(a) PROVE AgentInv'
  BY <1>3, EndingRunKeepsInv DEF AgentFails
<1>4. ASSUME OtherCommits PROVE AgentInv'
  <2>1. CASE \E p \in Pages : \E t \in Texts[p] :
               wiki' = [wiki EXCEPT ![p] = t] /\ behind' = behind \cup (Agents \X {p}) /\ log' = log /\ agent' = agent
    BY <2>1, OthersKeepInv
  <2>2. CASE log' = log \cup {<<OtherRun, 1>>} /\ behind' = behind \cup (Agents \X {Log}) /\ wiki' = wiki /\ agent' = agent
    BY <2>2, OthersKeepInv
  <2>. QED
    BY <1>4, <2>1, <2>2 DEF OtherCommits
<1>5. ASSUME NEW p \in Pages, DeletePage(p) PROVE AgentInv'
  BY <1>5, OthersKeepInv DEF DeletePage
<1>6. ASSUME UNCHANGED agentVars PROVE AgentInv'
  BY <1>6 DEF agentVars, AgentInv, AgentTyped, RunSound, RunShape, FirstsFit, BundleValid, LogKnown, LogChained
<1>. QED
  BY <1>1, <1>2, <1>3, <1>4, <1>5, <1>6, CallDoneKeepsInv, ReadLogKeepsInv, AppendLogKeepsInv, EndTurnKeepsInv,
     ValidateKeepsInv, CommitRunKeepsInv DEF WikiAgentNext

LEMMA AgentInvHolds == WikiAgentSpec => []AgentInv
  BY AgentStarts, AgentSteps, PTL DEF WikiAgentSpec

\* A run never takes more turns than it may, stages more operations than it may or writes
\* to a page what the LLM did not say (agent.rs, run_agent).
THEOREM WikiAgentTypeCorrect == WikiAgentSpec => []WikiAgentTypeOK
<1>1. ASSUME AgentInv PROVE WikiAgentTypeOK
  <2>1. AgentTyped
    BY <1>1 DEF AgentInv
  <2>2. ASSUME NEW a \in Agents
        PROVE  /\ agent[a].at \in {"turn", "validate", "commit", "over"} /\ agent[a].turn \in 0..MAX_TURNS
               /\ agent[a].known = NotRead \/ agent[a].known \subseteq Lines
               /\ Len(agent[a].ops) <= MAX_OPS
               /\ \A i \in DOMAIN agent[a].ops : agent[a].ops[i].op \in {"create", "patch"}
    <3>1. agent[a] \in Runs /\ Len(agent[a].ops) <= MAX_OPS
      BY <1>1 DEF AgentInv, RunSound, RunShape
    <3>2. \A i \in DOMAIN agent[a].ops : agent[a].ops[i] \in AgentOps
      BY <3>1 DEF Runs
    <3>. QED
      BY <3>1, <3>2, OpsAreOps DEF Runs
  <2>. QED
    BY <2>1, <2>2 DEF AgentTyped, WikiAgentTypeOK
<1>. QED
  BY <1>1, AgentInvHolds, PTL

\* Only the commit of a run changes files as the run ends.
LEMMA EndingWithAChangeCommits ==
  ASSUME AgentInv, [WikiAgentNext]_agentVars, NEW a \in Agents,
         agent[a].at = "commit", agent'[a].at = "over", wiki' # wiki \/ log' # log
  PROVE  CommitRun(a)
<1>1. ASSUME NEW b \in Agents, NEW r, agent' = [agent EXCEPT ![b] = r], b # a PROVE FALSE
  BY <1>1 DEF AgentInv, AgentTyped
<1>2. ASSUME NEW b \in Agents, CommitRun(b) PROVE CommitRun(a)
  BY <1>1, <1>2 DEF CommitRun, EndRun, AgentInv, AgentTyped
<1>3. ASSUME agent' = agent PROVE FALSE
  BY <1>3
<1>. QED
  BY <1>2, <1>3 DEF WikiAgentNext, CallDone, ReadLog, AppendLog, ProposeNew, ProposePatch, EndTurn, Validate,
     AgentFails, OtherCommits, DeletePage, agentVars

LEMMA BundleLands ==
  ASSUME AgentInv, [WikiAgentNext]_agentVars, NEW a \in Agents, NEW p \in Pages, Commits(a), OpsOn(a, p) # {}
  PROVE  /\ <<a, p>> \in behind \/ (wiki[p] = NoPage <=> agent[a].ops[Least(OpsOn(a, p))].op = "create")
         /\ wiki'[p].fm /\ \A q \in wiki'[p].links : wiki'[q] # NoPage \/ <<a, q>> \in behind
<1>. DEFINE ops == agent[a].ops
            last == Greatest(OpsOn(a, p))
<1>1. CommitRun(a) /\ agent[a].at = "commit"
  BY EndingWithAChangeCommits DEF Commits
<1>2. RunSound(a, agent[a], wiki, log, behind)
  BY DEF AgentInv
<1>3. /\ \A q : OpsOn(a, q) = OnPath(ops, q)
      /\ IsFirst(OpsOn(a, p), Least(OpsOn(a, p))) /\ Least(OpsOn(a, p)) \in OpsOn(a, p)
      /\ last \in OpsOn(a, p) /\ ops[last] \in AgentOps /\ ops[last].path = p /\ last \in DOMAIN ops
  <2>1. \A q : OpsOn(a, q) = OnPath(ops, q)
    BY DEF OpsOn, OnPath
  <2>2. /\ IsFirst(OpsOn(a, p), Least(OpsOn(a, p))) /\ Least(OpsOn(a, p)) \in OpsOn(a, p)
        /\ last \in OpsOn(a, p) /\ ops[last] \in AgentOps /\ ops[last].path = p
    BY OpsOnPath
  <2>3. \A i \in OpsOn(a, p) : i \in DOMAIN ops
    BY DEF OpsOn
  <2>. QED
    BY <2>1, <2>2, <2>3
<1>4. <<a, p>> \in behind \/ (wiki[p] = NoPage <=> ops[Least(OpsOn(a, p))].op = "create")
  BY <1>2, <1>3 DEF RunSound, FirstsFit
<1>5. wiki'[p] = ops[last].text /\ \A q \in Pages : wiki'[q] = Applied(a, q, wiki[q])
  BY <1>1 DEF CommitRun, Applied
<1>6. ops[last].path # Log
  BY <1>3, LogIsNoPage
<1>7. ops[last].text.links \subseteq Pages
  BY <1>3, <1>6, OpsAreOps
<1>8. /\ ops[last].text.fm
      /\ \A q \in ops[last].text.links :
           wiki[q] # NoPage \/ <<a, q>> \in behind \/ \E j \in OnPath(ops, q) : ops[j].op = "create"
  BY <1>1, <1>2, <1>3, <1>6 DEF RunSound, BundleValid
<1>9. ASSUME NEW q \in Pages, wiki[q] # NoPage \/ OpsOn(a, q) # {} PROVE wiki'[q] # NoPage
  <2>1. CASE OpsOn(a, q) = {}
    BY <1>5, <1>9, <2>1, AppliedIsText
  <2>2. CASE OpsOn(a, q) # {}
    BY <1>5, <2>2, AppliedIsText, LogIsNoPage
  <2>. QED
    BY <2>1, <2>2
<1>. QED
  BY <1>3, <1>4, <1>5, <1>7, <1>8, <1>9

\* A bundle that is committed creates no page over one that was there and patches none
\* that was not, and what it leaves has a frontmatter and links that lead to pages, unless
\* another job made or removed the page after the run had looked (validator.rs, validate;
\* wikirepo.rs, commit_bundle): for any number of runs, turns and operations.
THEOREM BundlesAlwaysLand == WikiAgentSpec => BundlesLand
<1>1. AgentInv /\ [WikiAgentNext]_agentVars =>
        [\A a \in Agents, p \in Pages : Commits(a) /\ OpsOn(a, p) # {} =>
           /\ <<a, p>> \in behind \/ (wiki[p] = NoPage <=> agent[a].ops[Least(OpsOn(a, p))].op = "create")
           /\ wiki'[p].fm /\ \A q \in wiki'[p].links : wiki'[q] # NoPage \/ <<a, q>> \in behind]_agentVars
  BY BundleLands
<1>. QED
  BY <1>1, AgentInvHolds, PTL DEF WikiAgentSpec, BundlesLand

\* Of two operations, each is the first or the last.
LEMMA TwoHaveEnds ==
  ASSUME NEW n \in Nat, NEW S \in SUBSET (1..n), Cardinality(S) <= 2, NEW i \in S
  PROVE  i = Least(S) \/ i = Greatest(S)
<1>. DEFINE l == Least(S)
            g == Greatest(S)
            T == {l} \cup {g} \cup {i}
<1>1. l \in S /\ g \in S /\ l <= i /\ g >= i /\ l <= g
  BY EndsOf
<1>. HIDE DEF l, g
<1>2. SUFFICES ASSUME i # l, i # g PROVE FALSE
  BY DEF l, g
<1>3. l # g
  BY <1>1, <1>2
<1>4. IsFiniteSet({l}) /\ Cardinality({l}) = 1
  BY FS_Singleton
<1>5. IsFiniteSet({l} \cup {g}) /\ Cardinality({l} \cup {g}) = 2
  BY <1>3, <1>4, FS_AddElement
<1>6. IsFiniteSet(T) /\ Cardinality(T) = 3
  BY <1>2, <1>5, FS_AddElement
<1>7. T \subseteq S
  BY <1>1
<1>8. IsFiniteSet(S)
  <2>1. IsFiniteSet(1..n)
    BY FS_Interval
  <2>. QED
    BY <2>1, FS_Subset
<1>9. Cardinality(T) <= Cardinality(S) /\ Cardinality(S) \in Nat
  <2>. HIDE DEF T
  <2>. QED
    BY <1>7, <1>8, FS_Subset, FS_CardinalityType
<1>. QED
  BY <1>6, <1>9

LEMMA LinesSurvive ==
  ASSUME AgentInv, [WikiAgentNext]_agentVars, NEW a \in Agents, CommitsLog(a), <<a, Log>> \notin behind,
         Cardinality(OpsOn(a, Log)) <= 2
  PROVE  log \cup {<<a, i>> : i \in OpsOn(a, Log)} \subseteq log'
<1>. DEFINE ops == agent[a].ops
            S == OpsOn(a, Log)
<1>1. CommitRun(a) /\ log' # log
  BY EndingWithAChangeCommits DEF CommitsLog
<1>2. LogKnown(a, agent[a], log, behind) /\ LogChained(a, agent[a])
  BY DEF AgentInv, RunSound
<1>3. S # {} /\ log' = ops[Greatest(S)].text
  BY <1>1 DEF CommitRun, Applied
<1>4. /\ S = OnPath(ops, Log) /\ S \in SUBSET (1..Len(ops)) /\ Len(ops) \in Nat
      /\ IsFirst(S, Least(S)) /\ Least(S) \in S /\ Greatest(S) \in S
  BY <1>3, OpsOnPath
<1>5. log \subseteq log'
  BY <1>2, <1>3, <1>4 DEF LogKnown
<1>6. <<a, Greatest(S)>> \in log' /\ <<a, Least(S)>> \in log'
  BY <1>2, <1>3, <1>4 DEF LogChained
<1>7. \A i \in S : i = Least(S) \/ i = Greatest(S)
  <2>1. Cardinality(S) <= 2
    OBVIOUS
  <2>. HIDE DEF S, ops
  <2>. QED
    BY <1>4, <2>1, TwoHaveEnds
<1>. QED
  BY <1>5, <1>6, <1>7

\* A commit takes no line out of the log, neither one of another job nor one of its own,
\* unless the log was changed after the run had read it or the run patched it more than
\* twice (agent.rs, read_page and propose_patch): whatever other runs stage and commit.
THEOREM LinesAlwaysStay == WikiAgentSpec => LinesStay
<1>1. AgentInv /\ [WikiAgentNext]_agentVars =>
        [\A a \in Agents : CommitsLog(a) /\ <<a, Log>> \notin behind /\ Cardinality(OpsOn(a, Log)) <= 2 =>
           log \cup {<<a, i>> : i \in OpsOn(a, Log)} \subseteq log']_agentVars
  BY LinesSurvive
<1>. QED
  BY <1>1, AgentInvHolds, PTL DEF WikiAgentSpec, LinesStay
=============================================================================
