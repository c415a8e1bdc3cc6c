\* Two repairs, one of them for the command, may overlap at every call; two
\* branches are enough for the kept, the upstream's and the local default to
\* differ.
SPECIFICATION Spec
CONSTANTS
  main = main
  dev = dev
  Repairers = {r1, r2}
  Commands = {r2}
  Branches = {main, dev}
  Temp = Temp
  NoBranch = NoBranch
  Rank <- MCRank
INVARIANTS
  TypeOK
  DefaultKeptUnlessOverlap
  TempOnlyAfterDisturbance
  CountedMeansSettled
PROPERTIES
  RepairedMeansCloneable
