\* One source, one worker, one fault, an LLM that may come or go with a restart.
CONSTANTS
  w1 = w1  w2 = w2
  j1 = j1  j2 = j2  j3 = j3
  s1 = s1  s2 = s2
  Sources = {s1}
  SourceOf <- OneSource
  MaxVersion = 2
  Unsupported = {2}
  LlmConfigs = {TRUE, FALSE}
  Embedder = TRUE
  Jobs = {j1, j2}
  Workers = {w1}
  MaxAttempts <- MCMaxAttempts
  FaultKinds = {"restart", "db", "overrun"}
  MaxFaults = 1
  NoJob = NoJob
  NoWorker = NoWorker
  NoSource = NoSource
SPECIFICATION FairSpec
INVARIANT TypeOK
PROPERTY SourceSettles
CHECK_DEADLOCK FALSE
