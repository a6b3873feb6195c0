\* One worker; s1 is removed, and the process restarts once.
CONSTANTS
  w1 = w1
  j1 = j1  j2 = j2  j3 = j3
  s1 = s1  s2 = s2
  p1 = p1  p2 = p2
  Slugs = {s1, s2}
  Pages = {p1, p2}
  FirstPages <- MCFirstPages
  MaxUploads = 1
  Citings <- MCCitings
  KindOf <- MCKindOf
  SlugOf <- MCSlugOf
  Jobs = {j1}
  Workers = {w1}
  MaxAttempts <- MCMaxAttempts
  FaultKinds = {"restart"}
  MaxFaults = 1
  NoJob = NoJob
  NoWorker = NoWorker
SPECIFICATION Spec
INVARIANT RetryCleansIndex
CHECK_DEADLOCK FALSE
