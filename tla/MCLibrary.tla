------------------------------ MODULE MCLibrary ------------------------------
(***************************************************************************)
(* Small instances, for TLC, of the modules that model how sources come    *)
(* into the library, where they are kept, and how its wiki is written and  *)
(* read.  focus picks the part that runs, and the others stay as they      *)
(* begin: what one part does to another (a page deleted under a chat, a    *)
(* commit between the steps of an agent) is an action of the module it     *)
(* happens to.  Folders have two parts: in one no rule is written, in the  *)
(* other no folder's row, for neither table is read with the other.        *)
(***************************************************************************)
EXTENDS ConnectorSync, ArchiveExpansion, Folders, WikiStore, WikiAgent, ChatLimiter, ChatRetrieval, TokenStream,
        WikiLint, TLC

CONSTANTS
  Foci,    \* the parts this instance looks at
  dir1, dir2, title, \* names of folders, two slugs and another
  page1, page2,      \* pages
  tok1, tok2, ping,  \* payloads of an answer's events, two tokens and another
  src1, src2         \* sources that pages name

VARIABLE focus

File(size, bytes) == [kind |-> "file", size |-> size, bytes |-> bytes]

\* With an entry to skip, and another that is larger than its header says; a bomb; and too
\* many entries.
MCContents == {<<File(1, 4), File(3, 3), File(2, 2)>>, <<File(2, 2), File(2, 2)>>, [i \in 1..4 |-> File(0, 0)]}

\* The title is slugified to dir1, at the top, and to dir2 below it.
MCPaths == {<<>>, <<dir1>>, <<dir1, dir2>>}
MCGivenPaths == MCPaths \cup {<<title>>, <<dir1, title>>}
MCSlug == [p \in MCGivenPaths |-> IF p = <<title>> THEN <<dir1>> ELSE IF p = <<dir1, title>> THEN <<dir1, dir2>> ELSE p]
MCDocTypes == {<<dir1>>, <<title>>}

\* The first page links to the second, or has no frontmatter.
MCTexts ==
  [p \in {page1, page2} |->
     IF p = page1 THEN {[links |-> {page2}, fm |-> TRUE], [links |-> {}, fm |-> FALSE]}
     ELSE {[links |-> {}, fm |-> TRUE]}]

\* A page that cites a source or none, and one that cites two.
MCPageCites == [p \in {page1, page2} |-> IF p = page1 THEN {{}, {src1}} ELSE {{src1, src2}}]

\* A page that fits into the context, and one that does not.
MCPageChars == [p \in {page1, page2} |-> IF p = page1 THEN 1 ELSE 9]

\* The long one has characters of two bytes.
MCCharBytes == [p \in {page1, page2} |-> IF p = page1 THEN 1 ELSE 2]

\* Events of one line, with LF; of several lines, with CR LF, and [DONE] before the end;
\* bytes that are not UTF-8; and lines without data, with an end that never comes.
MCBytes == {LF, CR, Data, Done, Bad, tok1, tok2, ping}
MCAnswers == {
  <<Data, tok1, LF, LF, Data, ping, LF, LF, Data, tok2, LF, LF>>,
  <<Data, tok1, CR, LF, CR, LF, Data, tok2, CR, LF, Data, tok1, CR, LF, CR, LF, Data, Done, CR, LF, CR, LF, Data, tok1, CR, LF, CR, LF>>,
  <<Data, tok1, LF, Bad, LF, LF, Data, tok2, LF, Data, Done, LF, Data, tok1, LF, LF>>,
  <<ping, LF, Data, tok1, LF, LF, ping, Data, tok2, LF, Data, ping, LF, LF, Data, tok2, LF>>}

\* An index that lists nothing or all, a page that links to another, and that one.
MCLintTexts ==
  [p \in LintPages |->
     CASE p = Index -> {[links |-> l, ids |-> {}, tags |-> {}] : l \in {{}, {page1, page2}}}
       [] p = page1 -> {[links |-> {page2}, ids |-> {src1}, tags |-> {"g"}]}
       [] p = page2 -> {[links |-> {}, ids |-> {}, tags |-> {"g"}]}]

libraryVars == <<syncVars, archiveVars, folderVars, wikiStoreVars, agentVars, limiterVars, chatVars, tokenVars,
  lintVars, focus>>

LibraryInit ==
  /\ focus \in Foci
  /\ ConnectorSyncInit /\ ArchiveInit /\ FoldersInit /\ WikiStoreInit
  /\ WikiAgentInit /\ ChatLimiterInit /\ ChatRetrievalInit
  /\ TokenStreamInit /\ WikiLintInit
  /\ focus = "archive" \/ content = [arc \in Archives |-> <<File(1, 4), File(3, 3), File(2, 2)>>]
  /\ focus = "store" \/ ~git
  /\ focus = "chat" \/ chat.op = "chat"
  /\ focus = "stream" \/ (openai /\ Len(answer) = 12)
  /\ focus = "lint" \/ OnDisk = {}

LibraryNext ==
  /\ UNCHANGED focus
  /\ \/ /\ focus = "sync" /\ ConnectorSyncNext
        /\ UNCHANGED <<archiveVars, folderVars, wikiStoreVars, agentVars, limiterVars, chatVars, tokenVars, lintVars>>
     \/ /\ focus = "archive" /\ ArchiveNext
        /\ UNCHANGED <<syncVars, folderVars, wikiStoreVars, agentVars, limiterVars, chatVars, tokenVars, lintVars>>
     \/ /\ focus \in {"folders", "rules"} /\ FoldersNext
        /\ UNCHANGED IF focus = "folders" THEN rule ELSE row
        /\ UNCHANGED <<syncVars, archiveVars, wikiStoreVars, agentVars, limiterVars, chatVars, tokenVars, lintVars>>
     \/ /\ focus = "store" /\ WikiStoreNext
        /\ UNCHANGED <<syncVars, archiveVars, folderVars, agentVars, limiterVars, chatVars, tokenVars, lintVars>>
     \/ /\ focus = "agent" /\ WikiAgentNext
        /\ UNCHANGED <<syncVars, archiveVars, folderVars, wikiStoreVars, limiterVars, chatVars, tokenVars, lintVars>>
     \/ /\ focus = "limiter" /\ ChatLimiterNext
        /\ UNCHANGED <<syncVars, archiveVars, folderVars, wikiStoreVars, agentVars, chatVars, tokenVars, lintVars>>
     \/ /\ focus = "chat" /\ ChatRetrievalNext
        /\ UNCHANGED <<syncVars, archiveVars, folderVars, wikiStoreVars, agentVars, limiterVars, tokenVars, lintVars>>
     \/ /\ focus = "stream" /\ TokenStreamNext
        /\ UNCHANGED <<syncVars, archiveVars, folderVars, wikiStoreVars, agentVars, limiterVars, chatVars, lintVars>>
     \/ /\ focus = "lint" /\ WikiLintNext
        /\ UNCHANGED <<syncVars, archiveVars, folderVars, wikiStoreVars, agentVars, limiterVars, chatVars, tokenVars>>

LibrarySpec == LibraryInit /\ [][LibraryNext]_libraryVars

\* The type invariants of the modules, each while its part runs.
LibraryTypeOK ==
  /\ focus = "sync" => SyncTypeOK
  /\ focus = "archive" => ArchiveTypeOK
  /\ focus \in {"folders", "rules"} => FoldersTypeOK
  /\ focus = "store" => WikiStoreTypeOK
  /\ focus = "agent" => WikiAgentTypeOK
  /\ focus = "limiter" => ChatLimiterTypeOK
  /\ focus = "chat" => ChatRetrievalTypeOK
  /\ focus = "stream" => TokenStreamTypeOK
  /\ focus = "lint" => WikiLintTypeOK
=============================================================================
