\* One source, one worker, no fault: the replacement arrives during the first run.
CONSTANTS
  w1 = w1  w2 = w2
  j1 = j1  j2 = j2  j3 = j3
  s1 = s1  s2 = s2
  Sources = {s1}
  SourceOf <- OneSource
  MaxVersion = 2
  Unsupported = {}
  LlmConfigs = {TRUE}
  Embedder = TRUE
  Jobs = {j1, j2}
  Workers = {w1}
  MaxAttempts <- MCMaxAttempts
  FaultKinds = {}
  MaxFaults = 0
  NoJob = NoJob
  NoWorker = NoWorker
  NoSource = NoSource
SPECIFICATION Spec
INVARIANT ReplacementIsProcessed
CHECK_DEADLOCK FALSE
