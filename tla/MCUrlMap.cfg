\* Two parties, of which one may have mirrored what the other one asks for.
\* A party asks once, so that the run ends.
SPECIFICATION Spec
CONSTANTS
  Parties = {c1, c2}
  Tokens <- MCTokens
  Repos <- MCRepos
  Hosts = {h1, h2}
  ProviderHosts = {h1}
  Syntaxes = {"https", "scp"}
  Refused = Refused
  Missing = Missing
SYMMETRY MCSymmetry
CHECK_DEADLOCK FALSE
INVARIANTS
  TypeOK
  NeverAnotherRepository
  LostOnlyByItsName
  OneRepositoryOneLock
  RetryNamesTheSameJob
  StampsSharedOnlyByUnderscores
  ScanFindsEveryMirror
