-------------------------- MODULE MCIngestPipeline --------------------------
(* Instances of IngestPipeline for TLC. *)
EXTENDS IngestPipeline, TLC

CONSTANTS w1, w2, j1, j2, j3, s1, s2

\* All jobs are about one source.
OneSource == [j \in Jobs |-> s1]

\* Two attempts stand for the code's five: one retry happens.  A second job
\* with one attempt dies at its first failure.
MCMaxAttempts == [j \in Jobs |-> IF j = j1 THEN 2 ELSE 1]

\* Nothing distinguishes the workers.
WorkerSymmetry == Permutations(Workers)

\* Two sources, each uploaded once.
TwoSources == [j \in Jobs |-> IF j = j1 THEN s1 ELSE s2]

-----------------------------------------------------------------------------
(* What the repository says of the pipeline, as it stands.                 *)

\* replace_source (routes.rs): the pipeline re-runs from Pending, so that a
\* source that is done was done with the bytes it now has.
ReplacementIsProcessed == \A s \in Sources :
  status[s] = "done" => distilled[s] \in Current(s)

\* README, Commit: if the upsert fails, the job retries it from Committed, so
\* that a source that is done has its pages in wiki_pages.
FailedUpsertIsRetried == \A s \in Sources :
  status[s] = "done" => index[s] = page[s]

\* SourceStatus::Tainted (source.rs): "the source can be resumed by re-enqueueing an
\* Ingest job once the dependency is available", so that a job at its first attempt that
\* ends with an LLM at hand does not leave a source of a supported type tainted.
TaintedIsResumed == \A w \in Workers :
  At(w, "stop") /\ attempt[cur[w]] = 1 /\ llm /\ sha[Src(w)] \notin Unsupported
    => status[Src(w)] # "tainted"
=============================================================================
