\* Three identifiers carry an endless stream of jobs; at most one fault.
CONSTANTS
  w1 = w1  w2 = w2
  j1 = j1  j2 = j2  j3 = j3
  Jobs = {j1, j2, j3}
  IngestJobs = {j1}
  Workers = {w1, w2}
  MaxAttempts <- MCMaxAttempts
  FaultKinds = {"restart", "panic", "db"}
  MaxFaults = 1
  NoJob = NoJob
  NoWorker = NoWorker
SPECIFICATION StreamSpec
PROPERTY NoStarvation
PROPERTY DeadSourceSurfaces
CHECK_DEADLOCK FALSE
