\* One source, one worker, one restart: the LLM is configured at the second boot only.
CONSTANTS
  w1 = w1  w2 = w2
  j1 = j1  j2 = j2  j3 = j3
  s1 = s1  s2 = s2
  Sources = {s1}
  SourceOf <- OneSource
  MaxVersion = 1
  Unsupported = {}
  LlmConfigs = {TRUE, FALSE}
  Embedder = TRUE
  Jobs = {j1, j2}
  Workers = {w1}
  MaxAttempts <- MCMaxAttempts
  FaultKinds = {"restart"}
  MaxFaults = 1
  NoJob = NoJob
  NoWorker = NoWorker
  NoSource = NoSource
SPECIFICATION Spec
INVARIANT TaintedIsResumed
CHECK_DEADLOCK FALSE
