\* A fetch in either mode and strategy, over a mirror that is created, filled
\* ref by ref and moved while it runs.
SPECIFICATION FairSpec
CONSTANTS
  Clients = {c1}
  Refs <- MCRefs
  SafeRefs <- MCRefs
  DefaultRef = 1
  MaxChange = 2
  Readme = Readme
  Nowhere = Nowhere
  Modes = {"proxy", "redirect"}
  Strategies = {"proxy_upstream", "wait_for_mirror"}
CHECK_DEADLOCK FALSE
INVARIANTS
  TypeOK
  FetchFailsOnlyWithReason
  GitLabOnlyWhenPopulated
  AnswersAreWhole
  CountersAgree
PROPERTIES
  FetchesEnd
