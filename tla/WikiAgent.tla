----------------------------- MODULE WikiAgent -----------------------------
(***************************************************************************)
(* The distillation agent: its turns, the tools that stage operations      *)
(* (qpedia-ingest/src/agent.rs), the validation of the bundle              *)
(* (validator.rs) and its application to the wiki (commit_bundle in        *)
(* qpedia-store/src/wikirepo.rs).                                          *)
(*                                                                         *)
(* Next to the runs that are modelled step by step, other jobs of the      *)
(* tenant commit pages, lines and deletions at any time.  The LLM is       *)
(* external: it calls any tool at any time, on any page, with any content; *)
(* of log.md it is assumed to do what its instructions say, to append a    *)
(* line to what it has read.  So a page is its links and whether it has a  *)
(* frontmatter, and the log its lines.  Sizes of pages, which are checked  *)
(* like the number of operations, and the applying of a bundle file by     *)
(* file (see SourceRemoval) are left out.                                  *)
(***************************************************************************)
EXTENDS Integers, FiniteSets, Sequences

CONSTANTS
  Agents,     \* runs of the agent, one per job
  Pages,      \* paths of ordinary pages
  Texts,      \* bound: what the LLM writes to each page, as sets of [links, fm]
  MAX_TURNS, MAX_OPS,
  OtherRun,   \* the author of another job's line in the log
  NoPage, NotRead

Log == "log.md"
Lines == (Agents \cup {OtherRun}) \X (1..MAX_OPS)

ASSUME WikiAgentAssumption ==
  /\ Texts \in [Pages -> SUBSET [links : SUBSET Pages, fm : BOOLEAN]]
  /\ MAX_TURNS \in Nat \ {0} /\ MAX_OPS \in Nat \ {0}
  /\ Log \notin Pages /\ (\A p \in Pages : NoPage \notin Texts[p]) /\ (\A lines \in SUBSET Lines : NotRead # lines)

VARIABLES
  wiki,    \* the pages in the working tree, NoPage where there is none
  log,     \* the lines of log.md
  agent,   \* each run of the agent
  behind   \* history: pages that others changed since a run staged or read them

agentVars == <<wiki, log, agent, behind>>
OpsOn(a, p) == {i \in DOMAIN agent[a].ops : agent[a].ops[i].path = p}
\* The paths a run has staged operations on.
Changed(a) == {p \in Pages \cup {Log} : OpsOn(a, p) # {}}
Least(S) == CHOOSE i \in S : \A j \in S : i <= j
Greatest(S) == CHOOSE i \in S : \A j \in S : i >= j

WikiAgentTypeOK ==
  /\ \A p \in Pages : wiki[p] \in Texts[p] \cup {NoPage}
  /\ log \subseteq Lines
  /\ \A a \in Agents :
       /\ agent[a].at \in {"turn", "validate", "commit", "over"}
       /\ agent[a].turn \in 0..MAX_TURNS
       /\ agent[a].known = NotRead \/ agent[a].known \subseteq Lines
       /\ Len(agent[a].ops) <= MAX_OPS
       /\ \A i \in DOMAIN agent[a].ops : agent[a].ops[i].op \in {"create", "patch"}
  /\ behind \subseteq Agents \X (Pages \cup {Log})

WikiAgentInit ==
  /\ wiki = [p \in Pages |-> NoPage]
  /\ log = {}
  /\ agent = [a \in Agents |-> [at |-> "turn", turn |-> 0, done |-> FALSE, known |-> NotRead, ops |-> <<>>]]
  /\ behind = {}

-----------------------------------------------------------------------------
(* execute_tool; a search, a listing and a read of a page or of the source change
   nothing here, nor does a tool that answers with an error. *)

\* The call to a tool; done is acknowledged, and later calls of the turn still run.
Calling(a) == agent[a].at = "turn"

CallDone(a) ==
  /\ Calling(a) /\ ~agent[a].done
  /\ agent' = [agent EXCEPT ![a].done = TRUE]
  /\ UNCHANGED <<wiki, log, behind>>

\* Seeded fault: what is staged is not looked at.
ReadStagedNot(a) == log

\* read_page of the log: the first staged operation on the path, else the file.
ReadStaged(a) ==
  IF OpsOn(a, Log) = {} THEN log ELSE agent[a].ops[Least(OpsOn(a, Log))].text

ReadLog(a) ==
  /\ Calling(a) /\ agent[a].known = NotRead
  /\ agent' = [agent EXCEPT ![a].known = ReadStaged(a)]
  /\ behind' = IF OpsOn(a, Log) = {} THEN behind \ {<<a, Log>>} ELSE behind
  /\ UNCHANGED <<wiki, log>>

\* Seeded fault: the bundle may be one operation too long.
OverBudgetLate(ops) == Len(ops) > MAX_OPS + 1

\* The op budget is checked after each call.
OverBudget(ops) == Len(ops) > MAX_OPS

Stage(a, op, known) ==
  LET ops == Append(agent[a].ops, op)
  IN agent' = [agent EXCEPT ![a] =
       IF OverBudget(ops) THEN [@ EXCEPT !.at = "over", !.ops = <<>>, !.known = NotRead]
       ELSE [@ EXCEPT !.known = known, !.ops = ops]]

\* propose_patch of log.md, after read_page; the file is seeded and never deleted.
AppendLog(a) ==
  /\ Calling(a) /\ agent[a].known # NotRead
  /\ Stage(a, [op |-> "patch", path |-> Log, text |-> agent[a].known \cup {<<a, Len(agent[a].ops) + 1>>}], NotRead)
  /\ UNCHANGED <<wiki, log, behind>>

\* The existence that a staged operation relies on is fresh again.
Rely(a, p) == behind' = IF OpsOn(a, p) = {} THEN behind \ {<<a, p>>} ELSE behind

\* Seeded fault: only what is staged is asked for.
ProposeNewUnread(a, p, t) ==
  /\ Calling(a) /\ OpsOn(a, p) = {}
  /\ Stage(a, [op |-> "create", path |-> p, text |-> t], agent[a].known) /\ Rely(a, p)
  /\ UNCHANGED <<wiki, log>>

\* propose_new: the path is neither staged nor a page.
ProposeNew(a, p, t) ==
  /\ Calling(a) /\ OpsOn(a, p) = {} /\ wiki[p] = NoPage
  /\ Stage(a, [op |-> "create", path |-> p, text |-> t], agent[a].known) /\ Rely(a, p)
  /\ UNCHANGED <<wiki, log>>

\* propose_patch: the path was created by this run, or is a page.
ProposePatch(a, p, t) ==
  /\ Calling(a)
  /\ wiki[p] # NoPage \/ \E i \in OpsOn(a, p) : agent[a].ops[i].op = "create"
  /\ Stage(a, [op |-> "patch", path |-> p, text |-> t], agent[a].known) /\ Rely(a, p)
  /\ UNCHANGED <<wiki, log>>

-----------------------------------------------------------------------------
(* run_agent and distill::run *)

EndRun(a) == agent' = [agent EXCEPT ![a].at = "over", ![a].ops = <<>>, ![a].known = NotRead]

\* A turn ends: with done the bundle is returned, and an empty one needs no commit; the
\* last turn without done is an error.
EndTurn(a) ==
  /\ Calling(a)
  /\ LET turn == agent[a].turn + 1
     IN IF agent[a].done /\ agent[a].ops # <<>>
        THEN agent' = [agent EXCEPT ![a].at = "validate", ![a].known = NotRead]
        ELSE IF agent[a].done \/ turn = MAX_TURNS THEN EndRun(a)
        ELSE agent' = [agent EXCEPT ![a].turn = turn]
  /\ UNCHANGED <<wiki, log, behind>>

\* validate: the pages there are and those the bundle creates.
PostUniverse(a) ==
  {p \in Pages : wiki[p] # NoPage \/ \E i \in OpsOn(a, p) : agent[a].ops[i].op = "create"}

\* check_page: the log is a system page, and is exempt.
CheckPage(a, o) ==
  o.path # Log => o.text.fm /\ o.text.links \subseteq PostUniverse(a)

Validate(a) ==
  /\ agent[a].at = "validate"
  /\ IF \A i \in DOMAIN agent[a].ops : CheckPage(a, agent[a].ops[i])
     THEN /\ agent' = [agent EXCEPT ![a].at = "commit"]
          /\ behind' = behind \ {<<a, p>> : p \in Pages \ Changed(a)}
     ELSE EndRun(a) /\ UNCHANGED behind
  /\ UNCHANGED <<wiki, log>>

\* The last operation on a path is what the file holds in the end.
Applied(a, p, before) ==
  IF OpsOn(a, p) = {} THEN before ELSE agent[a].ops[Greatest(OpsOn(a, p))].text

\* commit_bundle
CommitRun(a) ==
  /\ agent[a].at = "commit"
  /\ wiki' = [p \in Pages |-> Applied(a, p, wiki[p])]
  /\ log' = Applied(a, Log, log)
  /\ behind' = behind \cup ((Agents \ {a}) \X Changed(a))
  /\ EndRun(a)

\* The LLM or the commit fails, the LLM calls no tool, or the process dies.
AgentFails(a) ==
  /\ agent[a].at \in {"turn", "validate", "commit"}
  /\ EndRun(a)
  /\ UNCHANGED <<wiki, log, behind>>

\* Another run commits a valid page, or a line of the log it has read just now.
OtherCommits ==
  /\ \/ /\ \E p \in Pages : \E t \in Texts[p] :
             /\ t.fm /\ \A q \in t.links \ {p} : wiki[q] # NoPage
             /\ wiki' = [wiki EXCEPT ![p] = t] /\ behind' = behind \cup (Agents \X {p})
        /\ UNCHANGED log
     \/ /\ log' = log \cup {<<OtherRun, 1>>} /\ behind' = behind \cup (Agents \X {Log})
        /\ UNCHANGED wiki
  /\ UNCHANGED agent

\* A removal commits the deletion of a page.
DeletePage(p) ==
  /\ wiki[p] # NoPage
  /\ wiki' = [wiki EXCEPT ![p] = NoPage]
  /\ behind' = behind \cup (Agents \X {p})
  /\ UNCHANGED <<log, agent>>

WikiAgentNext ==
  \/ \E a \in Agents :
       \/ CallDone(a) \/ ReadLog(a) \/ AppendLog(a)
       \/ \E p \in Pages : \E t \in Texts[p] : ProposeNew(a, p, t) \/ ProposePatch(a, p, t)
       \/ EndTurn(a) \/ Validate(a) \/ CommitRun(a) \/ AgentFails(a)
  \/ OtherCommits
  \/ \E p \in Pages : DeletePage(p)

WikiAgentSpec == WikiAgentInit /\ [][WikiAgentNext]_agentVars

-----------------------------------------------------------------------------
(* Properties. *)

Commits(a) == agent[a].at = "commit" /\ agent'[a].at = "over" /\ wiki' # wiki
CommitsLog(a) == agent[a].at = "commit" /\ agent'[a].at = "over" /\ log' # log

\* A line of the log, staged or committed by another job, survives a commit, unless the
\* log was changed after the committing run had read it, or that run has patched it so
\* often that read_page, which returns the first patch, has shown it an old one.
LinesStay ==
  [][\A a \in Agents : CommitsLog(a) /\ <<a, Log>> \notin behind /\ Cardinality(OpsOn(a, Log)) <= 2 =>
       log \cup {<<a, i>> : i \in OpsOn(a, Log)} \subseteq log']_agentVars

\* A bundle creates no page over one that was there, and patches none that was not;
\* what it leaves has a frontmatter, and links that lead to pages.  All of this unless
\* another job made or removed the page after the run, or the validation, had looked.
BundlesLand ==
  [][\A a \in Agents, p \in Pages : Commits(a) /\ OpsOn(a, p) # {} =>
       /\ <<a, p>> \in behind \/ (wiki[p] = NoPage <=> agent[a].ops[Least(OpsOn(a, p))].op = "create")
       /\ wiki'[p].fm /\ \A q \in wiki'[p].links : wiki'[q] # NoPage \/ <<a, q>> \in behind]_agentVars
=============================================================================
