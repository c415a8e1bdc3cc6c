\* What README.md says of a retry after a restart.
SPECIFICATION Spec
CONSTANTS
  Procs = {p1, p2}
  Readers = {q1}
  Refs <- MCRefs
  SafeRefs <- MCSafeRefs
  Head = 1
  BatchSize = 1
  Attempts = 2
  MaxChange = 2
  Readme = Readme
  Nobody = Nobody
INVARIANT RestartedRetryWorks
