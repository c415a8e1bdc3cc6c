\* Two processes share the mirror: one may wait, die or come back while the
\* other clones, fetches or pushes.  One change upstream separates what was
\* fetched before a job was asked for from what was fetched after.
SPECIFICATION FairSpec
CONSTANTS
  Procs = {p1, p2}
  Readers = {q1}
  Refs <- MCRefs
  SafeRefs <- MCSafeRefs
  Head = 1
  BatchSize = 1
  Attempts = 2
  MaxChange = 2
  Readme = Readme
  Nobody = Nobody
INVARIANTS
  TypeOK
  SuccessMeansMirrored
  FailsOnlyWithReason
  FreshMeansServable
PROPERTIES
  NoProjectWithoutLocalMirror
  RefreshOnlyPrunes
  ImplementsServedMirror
  JobsEnd
