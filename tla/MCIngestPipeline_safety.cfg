\* One source, an upload and a replacement or a resume, two workers, one panic.
CONSTANTS
  w1 = w1  w2 = w2
  j1 = j1  j2 = j2  j3 = j3
  s1 = s1  s2 = s2
  Sources = {s1}
  SourceOf <- OneSource
  MaxVersion = 2
  Unsupported = {}
  LlmConfigs = {TRUE}
  Embedder = TRUE
  Jobs = {j1, j2}
  Workers = {w1, w2}
  MaxAttempts <- MCMaxAttempts
  FaultKinds = {"panic"}
  MaxFaults = 1
  NoJob = NoJob
  NoWorker = NoWorker
  NoSource = NoSource
SPECIFICATION Spec
SYMMETRY WorkerSymmetry
INVARIANT NothingSkipped
INVARIANT DoneIsIndexed
INVARIANT NeverForgotten
CHECK_DEADLOCK FALSE
