------------------------------ MODULE MCUrlMap ------------------------------
(* A small instance of UrlMap for TLC. *)
EXTENDS UrlMap, TLC

(* An ordinary repository and one in a subgroup; one whose name contains    *)
(* two underscores where the subgroup's slash is, and two with one at       *)
(* either side of a slash; an empty segment; ".git" inside a name and at    *)
(* its beginning, which differ by a slash; a segment named like a service;  *)
(* no owner.                                                                *)
MCRepos == { <<"a", "/", "b">>, <<"a", "/", "b", "/", "c">>, <<"a", "/", "b", "_", "_", "c">>,
             <<"a", "_", "/", "b">>, <<"a", "/", "_", "b">>, <<"a", "/", "/", "b">>, <<"a", "/", "b", ".git", "hub">>,
             <<"a", "/", "b", "/", ".git", "hub">>, <<"a", "/", "info", "/", "refs">>, <<"b">> }
MCTokens == {"/", ".git", "info", "refs", "git-upload-pack",
             "a", "b", "c", "_", "hub"}
MCSymmetry == Permutations(Parties)
=============================================================================
