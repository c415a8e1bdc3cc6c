\* What README.md says of Git commands that go through the gateway.
SPECIFICATION Spec
CONSTANTS
  Parties = {c1, c2}
  Tokens <- MCTokens
  Repos <- MCRepos
  Hosts = {h1, h2}
  ProviderHosts = {h1}
  Syntaxes = {"https", "scp"}
  Refused = Refused
  Missing = Missing
CHECK_DEADLOCK FALSE
INVARIANT RequestedRepositoryServed
