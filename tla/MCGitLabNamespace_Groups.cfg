\* What a docstring says of the groups above a project.
SPECIFICATION Spec
CONSTANTS
  j1 = j1
  j2 = j2
  p1 = p1
  p2 = p2
  top = top
  owner = owner
  Jobs = {j1, j2}
  Projects = {p1, p2}
  Groups = {top, owner}
  Path <- MCPath
  Enforcer = Enforcer
  Root = top
  Desired = 1
  NoLevel = NoLevel
SYMMETRY Symmetry
INVARIANT GroupsEnsured
