\* Three jobs, two workers, every kind of fault, two faults.
CONSTANTS
  w1 = w1  w2 = w2
  j1 = j1  j2 = j2  j3 = j3
  Jobs = {j1, j2, j3}
  IngestJobs = {j1, j2}
  Workers = {w1, w2}
  MaxAttempts <- MCMaxAttempts
  FaultKinds = {"restart", "panic", "db", "overrun"}
  MaxFaults = 2
  NoJob = NoJob
  NoWorker = NoWorker
SPECIFICATION Spec
INVARIANT TypeOK
INVARIANT AttemptBudget
INVARIANT SingleRunner
INVARIANT MarkedSourcesAreDead
PROPERTY KeepsPromise
\* The queue may run empty, and every worker may be gone.
CHECK_DEADLOCK FALSE
