----------------------------- MODULE MCGateway -----------------------------
(* A small instance of Gateway for TLC. *)
EXTENDS Gateway

(* Two refs that are pushed one after the other.                            *)
MCRefs == {1, 2}
=============================================================================
