\* The instance of MCMirrorScheduler.cfg: three jobs are the fewest with a duplicate
\* beside the successor of an overtaken job.
SPECIFICATION Spec
CONSTANTS
  k1 = k1
  k2 = k2
  github = github
  Keys = {k1, k2}
  Jobs = {j1, j2, j3}
  Threads = {t1, t2}
  Workers = {w1, w2}
  MaxPending = 2
  RecentLimit = 2
  CounterBound = 1
  NoJob = NoJob
  NoKey = NoKey
  NoProvider = NoProvider
  Nobody = Nobody
  ProviderOf <- MCProviderOf
  Filters <- MCFilters
INVARIANT NoDuplicateLiveJobs
\* The bounds on jobs and counters may leave nothing to do.
CHECK_DEADLOCK FALSE
