\* Two keys, three jobs, two handler threads and two workers: enough for an
\* overtaken job, its successor and a duplicate of that one.
SPECIFICATION FairSpec
CONSTANTS
  k1 = k1
  k2 = k2
  github = github
  Keys = {k1, k2}
  Jobs = {j1, j2, j3}
  Threads = {t1, t2}
  Workers = {w1, w2}
  MaxPending = 2
  RecentLimit = 2
  CounterBound = 1
  NoJob = NoJob
  NoKey = NoKey
  NoProvider = NoProvider
  Nobody = Nobody
  ProviderOf <- MCProviderOf
  Filters <- MCFilters
INVARIANTS
  TypeOK
  NoSelfDeadlock
  SlotsAccounted
  EntriesBelongToUnretiredJobs
  DuplicatesOnlyAfterOverlap
  BareFailuresOnlyAfterOverlap
PROPERTIES
  ImplementsBoundedJobs
  AcceptedJobsRetire
\* The bounds on jobs and counters, or a lost slot, may leave nothing to do.
CHECK_DEADLOCK FALSE
