\* What a docstring says of the disposable branch.
SPECIFICATION Spec
CONSTANTS
  main = main
  dev = dev
  Repairers = {r1, r2}
  Commands = {r2}
  Branches = {main, dev}
  Temp = Temp
  NoBranch = NoBranch
  Rank <- MCRank
INVARIANT ToggleIsTemporary
