------------------------- MODULE MCGitLabNamespace -------------------------
(* A small instance of GitLabNamespace for TLC. *)
EXTENDS GitLabNamespace

CONSTANTS j1, j2, p1, p2, top, owner

(* Two repositories of one owner. *)
MCPath == [p \in Projects |-> <<top, owner>>]

(* Jobs are alike, and so are the projects. *)
Symmetry == Permutations(Jobs) \cup Permutations(Projects)
=============================================================================
