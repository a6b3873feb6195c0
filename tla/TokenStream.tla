---------------------------- MODULE TokenStream ----------------------------
(***************************************************************************)
(* The stream of an LLM's answer: server-sent events, cut into chunks      *)
(* anywhere, are put together again and turned into tokens                 *)
(* (anthropic_sse_to_tokens in qpedia-llm/src/anthropic.rs,                *)
(* openai_sse_to_tokens in openrouter.rs, shared by                        *)
(* openai_compatible.rs).                                                  *)
(*                                                                         *)
(* Bytes are reduced to what the code tells apart: LF and CR, "data:", a   *)
(* payload of one symbol and Bad, bytes that are not UTF-8.  A payload is  *)
(* a token, [DONE], or something that yields none.                         *)
(***************************************************************************)
EXTENDS Integers, FiniteSets, SequencesExt

CONSTANTS
  Bytes,            \* what the code tells apart in an answer
  Answers,          \* the sequences of them a provider may send
  Tokens,           \* payloads with a text
  LF, CR, Data, Done, Bad

\* An answer's lines end with LF, or all of them with CR LF.
OneLineEnd(s) == (\A i \in DOMAIN s : s[i] # CR) \/ \A i \in DOMAIN s : s[i] = LF => i > 1 /\ s[i - 1] = CR

ASSUME TokenStreamAssumption ==
  /\ Cardinality({LF, CR, Data, Done, Bad}) = 5 /\ Tokens \cap {LF, CR, Data, Done, Bad} = {}
  /\ Answers \subseteq Seq(Bytes) /\ \A s \in Answers : OneLineEnd(s)

VARIABLES
  openai,    \* is it the dialect that ends with [DONE]?
  answer,    \* what the provider sends
  received,  \* how much of it has arrived
  buffer,    \* bytes that are not yet part of an event
  tokens,    \* the data lines of the answer whose tokens were yielded, in that order
  source     \* "open", and "ended" or "failed" when no more tokens will come

tokenVars == <<openai, answer, received, buffer, tokens, source>>

TokenStreamTypeOK ==
  /\ openai \in BOOLEAN /\ answer \in Answers /\ received \in 0..Len(answer)
  /\ buffer \in Seq(Bytes) /\ Len(buffer) <= received
  /\ buffer = SubSeq(answer, received - Len(buffer) + 1, received)
  /\ tokens \in Seq(1..received)
  /\ source \in {"open", "ended", "failed"}

TokenStreamInit ==
  /\ openai \in BOOLEAN /\ answer \in Answers
  /\ received = 0 /\ buffer = <<>> /\ tokens = <<>> /\ source = "open"

-----------------------------------------------------------------------------
(* find_event_terminator *)

At2(buf, i) == i + 1 \in DOMAIN buf /\ buf[i] = LF /\ buf[i + 1] = LF
At4(buf, i) == i + 3 \in DOMAIN buf /\ buf[i] = CR /\ buf[i + 1] = LF /\ buf[i + 2] = CR /\ buf[i + 3] = LF
Terminators(buf) == {i \in DOMAIN buf : At2(buf, i) \/ At4(buf, i)}

\* The length of the first event in the buffer, with its terminator.
EventLength(buf) ==
  LET i == CHOOSE i \in Terminators(buf) : \A j \in Terminators(buf) : i <= j
  IN IF At2(buf, i) THEN i + 1 ELSE i + 3

IsLineStart(s, i) == i = 1 \/ s[i - 1] = LF

\* The data lines of an event, each followed by its payload; none of an event that is not UTF-8.
DataLines(event) ==
  {i \in DOMAIN event : event[i] = Data /\ IsLineStart(event, i) /\ \A k \in DOMAIN event : event[k] # Bad}

\* [DONE] ends the stream in one dialect, and is no JSON in the other.
IsDone(event, i) == openai /\ event[i + 1] = Done
TokenLines(event) ==
  {i \in DataLines(event) :
     event[i + 1] \in Tokens /\ \A k \in DataLines(event) : k < i => ~IsDone(event, k)}

\* The loop over an event's lines, from the first to the last.
InOrder(S) ==
  CHOOSE q \in [1..Cardinality(S) -> S] : \A m, n \in 1..Cardinality(S) : m < n => q[m] < q[n]

-----------------------------------------------------------------------------
\* A chunk arrives once the buffer holds no complete event.
Receive(n) ==
  /\ source = "open" /\ Terminators(buffer) = {} /\ received + n <= Len(answer)
  /\ buffer' = buffer \o SubSeq(answer, received + 1, received + n)
  /\ received' = received + n
  /\ UNCHANGED <<openai, answer, tokens, source>>

\* Tokens of the first event are yielded; [DONE] closes the stream.
Yield(event) ==
  LET lines == InOrder(TokenLines(event))
  IN /\ tokens' = tokens \o [n \in DOMAIN lines |-> received - Len(buffer) + lines[n]]
     /\ source' = IF \E i \in DataLines(event) : IsDone(event, i) THEN "ended" ELSE "open"

\* Seeded fault: the rest of the chunk goes with its first event.
DrainAll ==
  /\ source = "open" /\ Terminators(buffer) # {}
  /\ Yield(SubSeq(buffer, 1, EventLength(buffer)))
  /\ buffer' = <<>>
  /\ UNCHANGED <<openai, answer, received>>

\* The first event is taken out of the buffer, and its tokens are yielded.
Drain ==
  /\ source = "open" /\ Terminators(buffer) # {}
  /\ Yield(SubSeq(buffer, 1, EventLength(buffer)))
  /\ buffer' = SubSeq(buffer, EventLength(buffer) + 1, Len(buffer))
  /\ UNCHANGED <<openai, answer, received>>

\* The provider closes the connection, after the last byte or before it: no error.
Close ==
  /\ source = "open" /\ Terminators(buffer) = {}
  /\ source' = "ended"
  /\ UNCHANGED <<openai, answer, received, buffer, tokens>>

\* The request is refused, or the connection breaks: an error comes last.
Break ==
  /\ source = "open" /\ Terminators(buffer) = {}
  /\ source' = "failed"
  /\ UNCHANGED <<openai, answer, received, buffer, tokens>>

TokenStreamNext ==
  \/ \E n \in 1..Len(answer) : Receive(n)
  \/ Drain \/ Close \/ Break

TokenStreamSpec == TokenStreamInit /\ [][TokenStreamNext]_tokenVars

-----------------------------------------------------------------------------
(* The reference: what an answer says, line by line, without a buffer. *)

\* An empty line ends at j.
IsBlank(s, j) ==
  \/ j > 1 /\ s[j] = LF /\ s[j - 1] = LF
  \/ j > 2 /\ s[j] = LF /\ s[j - 1] = CR /\ s[j - 2] = LF

\* The events are what lies between the empty lines.  A data line counts, when m bytes
\* have arrived, if its event has its empty line and is all UTF-8.
Counts(i, m) ==
  /\ answer[i] = Data /\ IsLineStart(answer, i)
  /\ \E j \in i..m :
       /\ IsBlank(answer, j) /\ \A k \in i..(j - 1) : ~IsBlank(answer, k)
       /\ \A k \in 1..j : answer[k] = Bad => \E l \in k..i : IsBlank(answer, l)

\* The lines with tokens, up to [DONE].
Said(m) ==
  {i \in 1..m : /\ Counts(i, m) /\ answer[i + 1] \in Tokens
                /\ openai => \A k \in 1..i : Counts(k, m) => answer[k + 1] # Done}

\* However the answer is cut into chunks, and wherever it breaks off, the tokens are
\* those of the events that have arrived whole, in their order: none is split, lost,
\* doubled or made up, and none is held back once its chunk is worked off.
TokensFollowTheAnswer ==
  /\ \A m, n \in DOMAIN tokens : m < n => tokens[m] < tokens[n]
  /\ \A n \in DOMAIN tokens : tokens[n] \in Said(received)
  /\ \A i \in Said(received) :
       \/ \E n \in DOMAIN tokens : tokens[n] = i
       \/ Terminators(buffer) # {} /\ \A n \in DOMAIN tokens : tokens[n] < i
=============================================================================
