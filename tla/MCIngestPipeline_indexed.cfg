\* Two sources, one worker: a step of the first one's embed phase fails once.
CONSTANTS
  w1 = w1  w2 = w2
  j1 = j1  j2 = j2  j3 = j3
  s1 = s1  s2 = s2
  Sources = {s1, s2}
  SourceOf <- TwoSources
  MaxVersion = 1
  Unsupported = {}
  LlmConfigs = {TRUE}
  Embedder = TRUE
  Jobs = {j1, j2}
  Workers = {w1}
  MaxAttempts <- MCMaxAttempts
  FaultKinds = {}
  MaxFaults = 0
  NoJob = NoJob
  NoWorker = NoWorker
  NoSource = NoSource
SPECIFICATION Spec
INVARIANT FailedUpsertIsRetried
CHECK_DEADLOCK FALSE
