------------------------- MODULE MCMirrorScheduler -------------------------
(* Small instances of MirrorScheduler for TLC. *)
EXTENDS MirrorScheduler

CONSTANTS k1, k2, github

MCProviderOf == [k \in Keys |-> github]

NoFilter == [url |-> NoKey, key |-> NoKey, provider |-> NoProvider, limit |-> 0]
(* A retry of everything, and one restricted to a repository's URL. *)
MCFilters == {NoFilter, [NoFilter EXCEPT !.url = k1, !.limit = 1]}
=============================================================================
