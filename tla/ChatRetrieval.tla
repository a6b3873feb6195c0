--------------------------- MODULE ChatRetrieval ---------------------------
(***************************************************************************)
(* What reads the wiki for a user: a chat, that is the gathering of pages  *)
(* by the agent's tool calls, the one search it falls back on, and the     *)
(* stream of the answer (qpedia-retriever/src/lib.rs; hybrid_search in     *)
(* qpedia-pg-store/src/wiki.rs; chat in qpedia-api/src/routes.rs); a       *)
(* search of the wiki; and the fetching of a page (search_wiki,            *)
(* get_wiki_page in routes.rs).                                            *)
(*                                                                         *)
(* Meanwhile ingests rewrite pages, removals delete pages and sources, and *)
(* ACLs are changed, also between the read of a page and the look-up of    *)
(* its sources; and the rows of the index follow the files only later.     *)
(* The LLM is external: it calls any tool on any page.  A text is the      *)
(* sources its frontmatter cites; ranking is external too, so a search     *)
(* returns any k of the pages it knows.  What a search says of a page, its *)
(* title and its snippet, is of the text that was searched, while the page *)
(* is let through for the text its file has when the hit is looked at.     *)
(***************************************************************************)
EXTENDS Integers, FiniteSets

CONSTANTS
  WikiPages,
  Cited,             \* sources that pages may cite
  PageCites,         \* the sets of them that the texts of each page may cite
  UserGroups,        \* groups of the caller
  AllGroups,
  PageChars,         \* the characters of each page
  CharBytes,         \* the bytes of each of them in UTF-8
  GATHER_TURNS, MAX_PAGES_LOADED, MAX_CONTEXT_BYTES,
  MIN_TAKE,          \* the 1024 characters a page is always granted
  TOOL_LIMIT,        \* the most hits of the agent's search_wiki, 20
  MaxPages,          \* the request's max_pages
  SEARCH_LIMIT,      \* the limit of a search
  Missing            \* no page, no source

ASSUME ChatRetrievalAssumption ==
  /\ IsFiniteSet(WikiPages) /\ UserGroups \subseteq AllGroups
  /\ PageCites \in [WikiPages -> SUBSET SUBSET Cited]
  /\ PageChars \in [WikiPages -> Nat] /\ CharBytes \in [WikiPages -> 1..4]
  /\ {GATHER_TURNS, MAX_PAGES_LOADED, MAX_CONTEXT_BYTES, MIN_TAKE, TOOL_LIMIT} \subseteq Nat \ {0}
  /\ 4 * MIN_TAKE <= 3 * MAX_CONTEXT_BYTES
  /\ MaxPages \in Nat /\ SEARCH_LIMIT \in Nat

VARIABLES
  cites,     \* the sources the file of each page cites; Missing without the page
  indexed,      \* those of the text that its row in the index has; Missing without a row
  groups,    \* the ACL of each source; Missing without the source
  chat,      \* the chat, search or fetch
  stream     \* the events it has sent

chatVars == <<cites, indexed, groups, chat, stream>>
worldVars == <<cites, indexed, groups>>

\* A page as read: cites is of the text of its file, shown of the text whose title (and
\* snippet) is given out with it.
NoRead == [path |-> Missing, cites |-> {}, shown |-> {}]

\* The bytes that a chat loads pass the cap by what one page may bring: characters are
\* counted against it, of up to four bytes, and never less than MIN_TAKE are granted.
ChatRetrievalTypeOK ==
  /\ cites \in [WikiPages -> (SUBSET Cited) \cup {Missing}]
  /\ indexed \in [WikiPages -> (SUBSET Cited) \cup {Missing}]
  /\ groups \in [Cited -> (SUBSET AllGroups) \cup {Missing}]
  /\ chat.op \in {"chat", "search", "page"}
  /\ chat.at \in {"gather", "tool", "search", "ask", "hits", "answer", "over"}
  /\ chat.turn \in 0..GATHER_TURNS
  /\ chat.op = "chat" => Cardinality(chat.loaded) <= MAX_PAGES_LOADED /\ Cardinality(chat.allowed) <= TOOL_LIMIT
  /\ chat.op # "chat" => stream = "" /\ Cardinality(chat.loaded) <= 1 /\ Cardinality(chat.allowed) <= SEARCH_LIMIT
  /\ chat.total <= 4 * MAX_CONTEXT_BYTES
  /\ chat.at = "gather" => chat.total < MAX_CONTEXT_BYTES
  /\ chat.read = NoRead \/ chat.read.cites \subseteq Cited
  /\ stream \in {"", "meta", "token", "done", "error"}

ChatRetrievalInit ==
  /\ cites = [p \in WikiPages |-> Missing]
  /\ indexed = [p \in WikiPages |-> Missing]
  /\ groups = [s \in Cited |-> Missing]
  /\ \E op \in {"chat", "search", "page"} :
       chat = [op |-> op, at |-> IF op = "chat" THEN "gather" ELSE "ask", turn |-> 0, read |-> NoRead,
               todo |-> {}, loaded |-> {}, allowed |-> {}, total |-> 0]
  /\ stream = ""

-----------------------------------------------------------------------------
(* user_can_read_page; effective_wiki_acl and can_read *)

\* The union of the ACLs of the sources there are; without any it is for admins only,
\* while a page that cites nothing is for all.
UserCanRead(cited) ==
  LET acl == UNION {groups[s] : s \in {x \in cited : groups[x] # Missing}}
  IN "admin" \in UserGroups \/ cited = {} \/ UserGroups \cap acl # {}

-----------------------------------------------------------------------------
(* gather; follow_links, which reads and looks up as read_page does, adds nothing to the
   context, and an unreadable page is answered like one that does not exist. *)

\* The page as its own text has it.
OwnText(p) == [path |-> p, cites |-> cites[p], shown |-> cites[p]]

\* read_page of a tool call: the file is read ...
ReadPageCall(p) ==
  /\ chat.at = "gather" /\ chat.read = NoRead /\ cites[p] # Missing
  /\ chat' = [chat EXCEPT !.read = OwnText(p)]
  /\ UNCHANGED <<worldVars, stream>>

Least2(m, n) == IF m <= n THEN m ELSE n

\* The bytes of the characters that are taken of a page.
Take(p) ==
  LET left == MAX_CONTEXT_BYTES - chat.total
      take_chars == IF left < MIN_TAKE THEN MIN_TAKE ELSE left
  IN CharBytes[p] * Least2(PageChars[p], take_chars)

\* With or without pages, the agent's loop is over.
Gathered(c) == IF c.loaded = {} THEN [c EXCEPT !.at = "search"] ELSE [c EXCEPT !.at = "answer"]

\* ... and then its sources are looked up, and the page loaded unless it is already;
\* at a cap the loop ends.
LoadPage ==
  /\ chat.at = "gather" /\ chat.read # NoRead
  /\ LET r == chat.read
         new == UserCanRead(r.cites) /\ \A l \in chat.loaded : l.path # r.path
         c == IF new THEN [chat EXCEPT !.read = NoRead, !.loaded = @ \cup {r}, !.total = @ + Take(r.path)]
              ELSE [chat EXCEPT !.read = NoRead]
     IN chat' = IF Cardinality(c.loaded) >= MAX_PAGES_LOADED \/ c.total >= MAX_CONTEXT_BYTES
                THEN Gathered(c) ELSE c
  /\ UNCHANGED <<worldVars, stream>>

\* A reply without a call, done, or the last turn ends the loop; else the next turn comes.
EndGatherTurn ==
  /\ chat.at = "gather" /\ chat.read = NoRead
  /\ \/ chat' = Gathered(chat)
     \/ LET c == [chat EXCEPT !.turn = @ + 1]
        IN chat' = IF c.turn = GATHER_TURNS THEN Gathered(c) ELSE c
  /\ UNCHANGED <<worldVars, stream>>

\* do_search, run_search: any k pages of the index, or of a text search of the files.
DoSearch(k) ==
  LET Hits(texts) == {{[path |-> p, shown |-> texts[p]] : p \in S} :
                        S \in {T \in SUBSET {p \in WikiPages : texts[p] # Missing} : Cardinality(T) <= k}}
  IN Hits(indexed) \cup Hits(cites)

\* search_wiki of a tool call.
SearchTool ==
  /\ chat.at = "gather" /\ chat.read = NoRead
  /\ \E hits \in DoSearch(TOOL_LIMIT) \ {{}} : chat' = [chat EXCEPT !.todo = hits, !.at = "tool"]
  /\ UNCHANGED <<worldVars, stream>>

\* The agent is told of the hits let through.
EndSearchTool ==
  /\ chat.at = "tool" /\ chat.todo = {} /\ chat.read = NoRead
  /\ chat' = [chat EXCEPT !.at = "gather", !.allowed = {}]
  /\ UNCHANGED <<worldVars, stream>>

FallbackMax == Least2(IF MaxPages < 1 THEN 1 ELSE MaxPages, MAX_PAGES_LOADED)

\* The agent loaded nothing: one search for the question itself.
Fallback ==
  /\ chat.at = "search"
  /\ \E hits \in DoSearch(FallbackMax) :
       chat' = [chat EXCEPT !.todo = hits, !.at = IF hits = {} THEN "answer" ELSE "hits"]
  /\ UNCHANGED <<worldVars, stream>>

\* search_wiki: run_search finds up to three times the limit.
SearchWiki ==
  /\ chat.at = "ask" /\ chat.op = "search"
  /\ \E hits \in DoSearch(3 * SEARCH_LIMIT) :
       chat' = [chat EXCEPT !.todo = hits, !.at = IF hits = {} THEN "answer" ELSE "hits"]
  /\ UNCHANGED <<worldVars, stream>>

\* get_wiki_page: the one page is read, or there is none.
GetWikiPage(p) ==
  /\ chat.at = "ask" /\ chat.op = "page"
  /\ chat' = IF cites[p] = Missing THEN [chat EXCEPT !.at = "answer"]
             ELSE [chat EXCEPT !.at = "hits", !.read = OwnText(p)]
  /\ UNCHANGED <<worldVars, stream>>

\* No hit is left, or a search has as many as it may give.
NextHit(c) ==
  LET enough == c.op = "search" /\ Cardinality(c.allowed) >= SEARCH_LIMIT
  IN IF c.at = "hits" /\ (c.todo = {} \/ enough) THEN [c EXCEPT !.at = "answer", !.todo = {}] ELSE c

\* The file of a hit is read; a page that is gone is left out.
ReadHit(h) ==
  /\ chat.at \in {"hits", "tool"} /\ chat.read = NoRead /\ h \in chat.todo
  /\ chat' = LET c == [chat EXCEPT !.todo = @ \ {h}]
             IN IF cites[h.path] = Missing THEN NextHit(c)
                ELSE [c EXCEPT !.read = [path |-> h.path, cites |-> cites[h.path], shown |-> h.shown]]
  /\ UNCHANGED <<worldVars, stream>>

\* A search gives out what it knows of a page: its title and a snippet, of the text that
\* was searched.
ListHit ==
  /\ chat.at = "tool" \/ (chat.at = "hits" /\ chat.op = "search")
  /\ chat.read # NoRead
  /\ chat' = NextHit([chat EXCEPT !.read = NoRead, !.allowed =
       IF UserCanRead(chat.read.cites) THEN @ \cup {chat.read} ELSE @])
  /\ UNCHANGED <<worldVars, stream>>

\* Seeded fault: the ACL is that of the page as it is by now.
LoadHitAgain ==
  /\ chat.at = "hits" /\ chat.op # "search" /\ chat.read # NoRead
  /\ chat' = LET p == chat.read.path
             IN NextHit([chat EXCEPT !.read = NoRead, !.loaded =
                  IF cites[p] # Missing /\ UserCanRead(cites[p]) THEN @ \cup {chat.read} ELSE @])
  /\ UNCHANGED <<worldVars, stream>>

\* The fallback and a fetch give out the text of the file that was read.
LoadHit ==
  /\ chat.at = "hits" /\ chat.op # "search" /\ chat.read # NoRead
  /\ chat' = NextHit([chat EXCEPT !.read = NoRead, !.loaded =
       IF UserCanRead(chat.read.cites) THEN @ \cup {chat.read} ELSE @])
  /\ UNCHANGED <<worldVars, stream>>

-----------------------------------------------------------------------------
(* chat: the stream. *)

\* An event is sent after one of the given ones.
Send(after, event, at) ==
  /\ stream \in after /\ stream' = event
  /\ chat' = [chat EXCEPT !.at = at]
  /\ UNCHANGED worldVars

\* An LLM call of the loop fails.
GatherFails == chat.at = "gather" /\ chat.read = NoRead /\ Send({""}, "error", "over")

SendMeta == chat.op = "chat" /\ chat.at = "answer" /\ Send({""}, "meta", "answer")
SendToken == chat.at = "answer" /\ Send({"meta", "token"}, "token", "answer")
SendDone == chat.at = "answer" /\ Send({"meta", "token"}, "done", "over")
StreamFails == chat.at = "answer" /\ Send({"meta", "token"}, "error", "over")

\* A search or a fetch is answered, the latter by 404 without a page, or fails.
Respond ==
  /\ chat.op # "chat" /\ chat.at # "over"
  /\ chat' = [chat EXCEPT !.at = "over"]
  /\ UNCHANGED <<worldVars, stream>>

-----------------------------------------------------------------------------
(* What goes on meanwhile. *)

\* A commit writes or deletes a page.
WritePage(p, cited) ==
  /\ cites' = [cites EXCEPT ![p] = cited]
  /\ UNCHANGED <<indexed, groups, chat, stream>>

\* An embedding job writes a page's row, or a removal deletes it.
IndexPage(p) ==
  /\ indexed' = [indexed EXCEPT ![p] = cites[p]]
  /\ UNCHANGED <<cites, groups, chat, stream>>

\* A source is inserted, its ACL changed, or the source removed.
SetSource(s, acl) ==
  /\ groups' = [groups EXCEPT ![s] = acl]
  /\ UNCHANGED <<cites, indexed, chat, stream>>

ChatRetrievalNext ==
  \/ \E p \in WikiPages : ReadPageCall(p) \/ GetWikiPage(p) \/ IndexPage(p)
  \/ \E h \in chat.todo : ReadHit(h)
  \/ LoadPage \/ EndGatherTurn \/ SearchTool \/ EndSearchTool
  \/ Fallback \/ SearchWiki \/ ListHit \/ LoadHit \/ Respond
  \/ GatherFails \/ SendMeta \/ SendToken \/ SendDone \/ StreamFails
  \/ \E p \in WikiPages : \E cited \in PageCites[p] \cup {Missing} : WritePage(p, cited)
  \/ \E s \in Cited, acl \in (SUBSET AllGroups) \cup {Missing} : SetSource(s, acl)

ChatRetrievalSpec == ChatRetrievalInit /\ [][ChatRetrievalNext]_chatVars

-----------------------------------------------------------------------------
(* Properties. *)

\* Whatever is committed or changed between its steps, a chat takes a text into its
\* context, and a fetch into its answer, only if the caller may read a source that this
\* very text cites, or the text cites none; and none is taken once the context is handed
\* over.  A search, of the caller or of the agent, tells of a page only if the caller may
\* read it as its file stood when the hit was looked at; the words it tells are of the
\* text searched, which may be another one.
ContextIsReadable ==
  [][\A r \in (chat'.loaded \ chat.loaded) \cup (chat'.allowed \ chat.allowed) :
       /\ stream = ""
       /\ "admin" \in UserGroups \/ r.cites = {}
          \/ \E s \in r.cites : groups[s] # Missing /\ groups[s] \cap UserGroups # {}]_chatVars
=============================================================================
