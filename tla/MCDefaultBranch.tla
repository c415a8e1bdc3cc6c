-------------------------- MODULE MCDefaultBranch --------------------------
(* A small instance of DefaultBranch for TLC. *)
EXTENDS DefaultBranch

CONSTANTS main, dev

(* The underscore sorts before the small letters, after a preferred main.   *)
MCRank == [b \in {main, Temp, dev} |->
             CASE b = main -> 1 [] b = Temp -> 2 [] OTHER -> 3]
=============================================================================
