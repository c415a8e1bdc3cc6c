---------------------------- MODULE ServedMirror ----------------------------
(***************************************************************************)
(* What requests rely on of the mirror they are served from, whoever       *)
(* mirrors the repository and however often that fails: a project, once    *)
(* there, stays; a ref on it, once there, stays; it only moves to a state  *)
(* the upstream had in that ref, never back to an older one; and refs that *)
(* GitLab would refuse never get there.  MirrorPipeline implements this,   *)
(* Gateway builds on it.                                                   *)
(***************************************************************************)
EXTENDS Naturals

CONSTANTS
  Refs, SafeRefs, MaxChange, Readme,    \* as in MirrorPipeline
  DefaultRef                            \* where GitLab puts its first commit

VARIABLES
  now, up, project, gl,   \* as in MirrorPipeline
  past                    \* history: the values each ref has had upstream

mirrorVars == <<now, up, project, gl, past>>

Populated == \E r \in Refs : gl[r] # 0

(* Of two values of a ref, the one of the later change; what is not of the  *)
(* upstream is the oldest.                                                  *)
Newer(v, w) == v \in Nat /\ (w # Readme => v > w)

MirrorInit ==
  /\ now = 1
  /\ up \in [Refs -> {0, 1}]
  /\ past = [r \in Refs |-> {up[r]}]
  /\ project = FALSE
  /\ gl = [r \in Refs |-> 0]

UpstreamMoves ==
  /\ now < MaxChange
  /\ now' = now + 1
  /\ \E r \in Refs, v \in {0, now + 1} :
       /\ up' = [up EXCEPT ![r] = v]
       /\ past' = [past EXCEPT ![r] = @ \cup {v}]
  /\ UNCHANGED <<project, gl>>

(* GitLab may show the project before the commit it begins with.            *)
ProjectAppears ==
  /\ ~project
  /\ project' = TRUE
  /\ \E v \in {0, Readme} : gl' = [gl EXCEPT ![DefaultRef] = v]
  /\ UNCHANGED <<now, up, past>>

RefsMove ==
  /\ project
  /\ gl' \in [Refs -> 0 .. now \cup {Readme}]
  /\ gl' # gl
  /\ \A r \in Refs :
       gl'[r] # gl[r] => r \in SafeRefs /\ gl'[r] \in past[r] \ {0} /\ Newer(gl'[r], gl[r])
  /\ UNCHANGED <<now, up, past, project>>

MirrorNext == UpstreamMoves \/ ProjectAppears \/ RefsMove

MirrorSpec == MirrorInit /\ [][MirrorNext]_mirrorVars

=============================================================================
