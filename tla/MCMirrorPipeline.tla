-------------------------- MODULE MCMirrorPipeline --------------------------
(* A small instance of MirrorPipeline for TLC. *)
EXTENDS MirrorPipeline

(* Two refs that are pushed one at a time, and one that GitLab rejects. *)
MCRefs     == {1, 2, 3}
MCSafeRefs == {1, 2}
=============================================================================
