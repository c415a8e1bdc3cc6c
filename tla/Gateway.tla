------------------------------- MODULE Gateway -------------------------------
(***************************************************************************)
(* Clients fetching one repository through the gateway: the request path   *)
(* of git_cache_gateway/server.py, from _handle_request() over             *)
(* _select_target() to _proxy() or a redirect, over a mirror that changes  *)
(* meanwhile (ServedMirror).                                               *)
(*                                                                         *)
(* A fetch is two requests: info/refs, which advertises refs, and          *)
(* git-upload-pack, which asks for what was advertised.  Every request has *)
(* a connection and a handler thread of its own and selects its target     *)
(* anew.  (In Git's protocol 2 a request before these two carries no refs  *)
(* and is left out.)  Servers, network and clients may fail at every step; *)
(* these faults are recorded, so that the properties can say what else may *)
(* go wrong.  Left out: what submit() does to the scheduler                *)
(* (MirrorScheduler) but for the exception it raises after the shutdown,   *)
(* which paths map (UrlMap), HEAD requests, headers, byte counts.          *)
(***************************************************************************)
EXTENDS ServedMirror, FiniteSets, Sequences

CONSTANTS
  Clients,
  Modes,         \* [server].mode: "proxy", "redirect"
  Strategies,    \* [server].cache_miss_strategy: "proxy_upstream", "wait_for_mirror"
  Nowhere

ASSUME GatewayAssumption ==
  /\ IsFiniteSet(Clients)
  /\ SafeRefs \subseteq Refs /\ DefaultRef \in Refs
  /\ MaxChange \in Nat \ {0}
  /\ Readme \notin Nat
  /\ Nowhere \notin {"gitlab", "upstream"}

VARIABLES
  mode, strategy,
  refreshes,     \* [background].enabled and .refresh_existing, and stamps have an age
  stamp,         \* the repository's stamp: none, young or old
  down,          \* the scheduler is shut down, handler threads go on
  stored,        \* what GitLab has objects for: pairs of ref and value
  phase,         \* what each client does: its next or current request
  wants,         \* what it was advertised: pairs of ref and value
  source,        \* where its refs came from
  pc,            \* where the handler of its request is
  target,        \* where that request goes
  wire,          \* what has come back on the connection
  stats,         \* ServiceStats, and the number of observe_request() calls
  faults         \* history: what went wrong around each client's fetch

config     == <<mode, strategy, refreshes>>
clientVars == <<phase, wants, source>>
vars == <<mirrorVars, config, stamp, down, stored, clientVars, pc, target, wire,
          stats, faults>>

-----------------------------------------------------------------------------
Targets == {"gitlab", "upstream"}
Tips(m) == {<<r, m[r]>> : r \in {q \in Refs : m[q] # 0}}

(* What the two servers advertise, and what they have the objects of: both  *)
(* keep what a ref has left, and send any object they have.                 *)
Advertised(at) == Tips(IF at = "gitlab" THEN gl ELSE up)
Objects(at) ==
  IF at = "gitlab" THEN stored
  ELSE UNION {{<<r, v>> : v \in past[r] \ {0}} : r \in Refs}

Init ==
  /\ MirrorInit
  /\ mode \in Modes /\ strategy \in Strategies /\ refreshes \in BOOLEAN
  /\ stamp = "none"
  /\ down = FALSE
  /\ stored = {}
  /\ phase = [c \in Clients |-> "start"]
  /\ wants = [c \in Clients |-> {}]
  /\ source = [c \in Clients |-> Nowhere]
  /\ pc = [c \in Clients |-> "none"]
  /\ target = [c \in Clients |-> Nowhere]
  /\ wire = [c \in Clients |-> <<>>]
  /\ stats = [requests |-> 0, hits |-> 0, misses |-> 0, gitlab |-> 0, upstream |-> 0,
              observed |-> 0]
  /\ faults = [c \in Clients |-> {}]

Goto(c, to)  == pc' = [pc EXCEPT ![c] = to]
Count(n)     == stats' = [stats EXCEPT ![n] = @ + 1]
Send(c, s)   == wire' = [wire EXCEPT ![c] = @ \o s]
Blame(c, f)  == faults' = [faults EXCEPT ![c] = @ \cup {f}]
Gone(c)      == "gone" \in faults[c]

(* Steps of a handler leave the rest of the world alone.                    *)
Rest == UNCHANGED <<mirrorVars, config, stamp, down, stored, clientVars>>

(* An exception leaves the handler: the connection is closed as it is.      *)
Dies(c) == Goto(c, "died")

(* A short answer ends the request, unless writing to a client that has     *)
(* hung up raises.                                                          *)
Reply(c, s) ==
  \/ Send(c, s) /\ Goto(c, "over") /\ Count("observed")
  \/ Gone(c) /\ Dies(c) /\ UNCHANGED <<wire, stats>>

-----------------------------------------------------------------------------
(* _handle_request() begins. *)

Request(c) ==
  /\ phase[c] \in {"start", "advertised"}
  /\ phase' = [phase EXCEPT ![c] = IF @ = "start" THEN "refs" ELSE "pack"]
  /\ Goto(c, "project")
  /\ target' = [target EXCEPT ![c] = Nowhere]
  /\ wire' = [wire EXCEPT ![c] = <<>>]
  /\ Count("requests")
  /\ UNCHANGED <<mirrorVars, config, stamp, down, stored, wants, source, faults>>

(* The gateway's own pages, what /retry-failed does aside, and paths that   *)
(* do not map.                                                              *)
RequestPage(c) ==
  /\ phase[c] = "start"
  /\ phase' = [phase EXCEPT ![c] = "page"]
  /\ Goto(c, "page")
  /\ Count("requests")
  /\ UNCHANGED <<mirrorVars, config, stamp, down, stored, wants, source, target, wire, faults>>

Page(c) ==
  /\ pc[c] = "page"
  /\ \E status \in {"200", "404", "405"} : Reply(c, <<status, "text">>)
  /\ Rest /\ UNCHANGED <<target, faults>>

(* gitlab_mirror_ready(): two calls, each of which may fail or find nothing *)
(* and then means a miss.  The repair that follows changes no outcome.  The *)
(* second call is a Git command, as are those of the repair: they have no   *)
(* timeout.                                                                 *)
ReadProject(c) ==
  /\ pc[c] = "project"
  /\ \/ project /\ Goto(c, "refs")
     \/ Goto(c, "miss")
  /\ Rest /\ UNCHANGED <<target, wire, stats, faults>>

HasProject == project
HasRefs    == Populated

ReadRefs(c) ==
  /\ pc[c] = "refs"
  /\ \/ HasRefs /\ Goto(c, IF refreshes THEN "stamp" ELSE "hit")
     \/ Goto(c, "miss")
  /\ Rest /\ UNCHANGED <<target, wire, stats, faults>>

(* is_stale(): exists(), then stat(), without a lock.                       *)
StampExists(c) ==
  /\ pc[c] = "stamp"
  /\ Goto(c, IF stamp = "none" THEN "refresh" ELSE "stat")
  /\ Rest /\ UNCHANGED <<target, wire, stats, faults>>

StampStat(c) ==
  /\ pc[c] = "stat"
  /\ CASE stamp = "none"  -> Dies(c) /\ Blame(c, "stamp")
       [] stamp = "young" -> Goto(c, "hit") /\ UNCHANGED faults
       [] stamp = "old"   -> Goto(c, "refresh") /\ UNCHANGED faults
  /\ Rest /\ UNCHANGED <<target, wire, stats>>

(* scheduler.submit() raises after the shutdown.                            *)
Submit(c, from, to) ==
  /\ pc[c] = from
  /\ IF down THEN Dies(c) /\ Blame(c, "down") ELSE Goto(c, to) /\ UNCHANGED faults
  /\ Rest

SubmitRefresh(c) ==
  /\ Submit(c, "refresh", "hit")
  /\ UNCHANGED <<target, wire, stats>>

CountHit(c) ==
  /\ pc[c] = "hit"
  /\ target' = [target EXCEPT ![c] = "gitlab"]
  /\ Goto(c, "serve")
  /\ Count("hits")
  /\ Rest /\ UNCHANGED <<wire, faults>>

CountMiss(c) ==
  /\ pc[c] = "miss"
  /\ Goto(c, IF strategy = "wait_for_mirror" THEN "ensure" ELSE "submit")
  /\ Count("misses")
  /\ Rest /\ UNCHANGED <<target, wire, faults>>

(* ensure() returns when mirror_once() has mirrored, here or in a job that  *)
(* had the lock before; or it raises.                                       *)
Ensured == \E r \in SafeRefs : gl[r] \notin {0, Readme}

Ensure(c) ==
  /\ pc[c] = "ensure"
  /\ Ensured
  /\ target' = [target EXCEPT ![c] = "gitlab"]
  /\ Goto(c, "serve")
  /\ Rest /\ UNCHANGED <<wire, stats, faults>>

FallsThrough(c) ==
  /\ pc[c] = "ensure"
  /\ Goto(c, "serve")
  /\ Rest /\ UNCHANGED <<target, wire, stats, faults>>

EnsureFails(c) ==
  /\ pc[c] = "ensure"
  /\ Goto(c, "submit")
  /\ Rest /\ UNCHANGED <<target, wire, stats, faults>>

SubmitMiss(c) ==
  /\ Submit(c, "submit", "serve")
  /\ target' = [target EXCEPT ![c] = IF down THEN @ ELSE "upstream"]
  /\ UNCHANGED <<wire, stats>>

-----------------------------------------------------------------------------
(* The request is answered. *)

(* The server a request is passed on to, by the URL made of the mapping.    *)
PacksFromUpstream(c) == IF phase[c] = "pack" THEN "upstream" ELSE target[c]
Server(c) == target[c]

(* Whether it has what is asked for; if not it says so in the body.         *)
Has(c) == phase[c] = "pack" => wants[c] \subseteq Objects(Server(c))

RedirectUnseen(c) ==
  /\ pc[c] = "serve" /\ mode = "redirect"
  /\ Send(c, <<"307">>) /\ Goto(c, "over")
  /\ Rest /\ UNCHANGED <<target, stats, faults>>

Redirect(c) ==
  /\ pc[c] = "serve" /\ mode = "redirect"
  /\ Reply(c, <<"307">>)
  /\ Rest /\ UNCHANGED <<target, faults>>

(* max_request_body_bytes bounds what a client posts.                       *)
TooLarge(c) ==
  /\ pc[c] = "serve" /\ mode = "proxy" /\ phase[c] = "pack"
  /\ Reply(c, <<"413", "text">>)
  /\ Blame(c, "large")
  /\ Rest /\ UNCHANGED target

Proxy(c) ==
  /\ pc[c] = "serve" /\ mode = "proxy"
  /\ Goto(c, "open")
  /\ Count(target[c])
  /\ Rest /\ UNCHANGED <<target, wire, faults>>

(* urlopen() and the head of the answer.  Refs are those of this moment.    *)
Opened(c) ==
  /\ pc[c] = "open"
  /\ Send(c, <<"200">>)
  /\ wants' = [wants EXCEPT ![c] = IF phase[c] = "refs" THEN Advertised(Server(c)) ELSE @]
  /\ Goto(c, IF Has(c) THEN "stream" ELSE "refuse")
  /\ UNCHANGED <<mirrorVars, config, stamp, down, stored, phase, source, target, stats, faults>>

Streamed(c) ==
  /\ pc[c] \in {"stream", "refuse"}
  /\ Send(c, <<IF pc[c] = "stream" THEN "whole" ELSE "refused">>)
  /\ Goto(c, "over")
  /\ Count("observed")
  /\ Rest /\ UNCHANGED <<target, faults>>

(* The server answers with an error status; its body is passed on, and an   *)
(* exception meanwhile is caught by no one.                                 *)
HttpError(c) ==
  /\ pc[c] = "open"
  /\ Blame(c, target[c])
  /\ \/ Send(c, <<"4xx">>) /\ Goto(c, "errorbody")
     \/ Gone(c) /\ Dies(c) /\ UNCHANGED wire
  /\ Rest /\ UNCHANGED <<target, stats>>

ErrorBody(c) ==
  /\ pc[c] = "errorbody"
  /\ Send(c, <<"text">>)
  /\ Goto(c, "over")
  /\ Count("observed")
  /\ Rest /\ UNCHANGED <<target, faults>>

ErrorBodyBreaks(c) ==
  /\ pc[c] = "errorbody"
  /\ Dies(c)
  /\ IF Gone(c) THEN UNCHANGED faults ELSE Blame(c, target[c])
  /\ Rest /\ UNCHANGED <<target, wire, stats>>

(* No connection or a timeout, a write to a client that has hung up, or an  *)
(* error in the midst of a body: all are answered in the same way.          *)
OnlyRefused(c) ==
  /\ pc[c] = "open" /\ Gone(c)
  /\ Goto(c, "bad")
  /\ Rest /\ UNCHANGED <<target, wire, stats, faults>>

NotCaught(c) ==
  /\ pc[c] = "open"
  /\ Dies(c)
  /\ IF Gone(c) THEN UNCHANGED faults ELSE Blame(c, target[c])
  /\ Rest /\ UNCHANGED <<target, wire, stats>>

OpenFails(c) ==
  /\ pc[c] = "open"
  /\ Goto(c, "bad")
  /\ IF Gone(c) THEN UNCHANGED faults ELSE Blame(c, target[c])
  /\ Rest /\ UNCHANGED <<target, wire, stats>>

StreamBreaks(c) ==
  /\ pc[c] \in {"stream", "refuse"}
  /\ Goto(c, "bad")
  /\ Send(c, <<"part">>)
  /\ IF Gone(c) THEN UNCHANGED faults ELSE Blame(c, target[c])
  /\ Rest /\ UNCHANGED <<target, stats>>

BadGateway(c) ==
  /\ pc[c] = "bad"
  /\ Reply(c, <<"502", "text">>)
  /\ Rest /\ UNCHANGED <<target, faults>>

-----------------------------------------------------------------------------
(* Clients. *)

(* A client reads to the end of the connection.  A second head or a text    *)
(* inside the body breaks the framing of Git's packets.                     *)
Whole(w) == w = <<"200", "whole">>

Receive(c) ==
  /\ pc[c] \in {"over", "died"} /\ ~Gone(c)
  /\ Goto(c, "none")
  /\ phase' = [phase EXCEPT ![c] =
       CASE pc[c] = "died"                        -> "reset"
         [] Whole(wire[c]) /\ phase[c] = "refs"   -> "advertised"
         [] Whole(wire[c]) /\ phase[c] = "pack"   -> "done"
         [] phase[c] = "page"                     -> "done"
         [] wire[c] = <<"307">>                   -> "direct"
         [] OTHER                                 -> "failed"]
  /\ source' = [source EXCEPT ![c] = IF phase[c] = "refs" THEN target[c] ELSE @]
  /\ wire' = [wire EXCEPT ![c] = <<>>]
  /\ UNCHANGED <<mirrorVars, config, stamp, down, stored, wants, target, stats, faults>>

(* Git takes the base of a redirect for the rest of the fetch.              *)
Direct(c) ==
  /\ phase[c] = "direct"
  /\ phase' = [phase EXCEPT ![c] = "done"]
  /\ UNCHANGED <<mirrorVars, config, stamp, down, stored, wants, source, pc, target,
                 wire, stats, faults>>

DirectFails(c) ==
  /\ phase[c] = "direct"
  /\ phase' = [phase EXCEPT ![c] = "failed"]
  /\ Blame(c, target[c])
  /\ UNCHANGED <<mirrorVars, config, stamp, down, stored, wants, source, pc, target,
                 wire, stats>>

HangUp(c) ==
  /\ phase[c] \in {"page", "refs", "pack"} /\ ~Gone(c)
  /\ phase' = [phase EXCEPT ![c] = "quit"]
  /\ Blame(c, "gone")
  /\ UNCHANGED <<mirrorVars, config, stamp, down, stored, wants, source, pc, target,
                 wire, stats>>

-----------------------------------------------------------------------------
(* The mirror and the files around it change under the requests.            *)

MirrorMoves ==
  /\ MirrorNext
  /\ stored' = stored \cup Tips(gl')
  /\ UNCHANGED <<config, stamp, down, clientVars, pc, target, wire, stats, faults>>

(* A job touches the stamp, it ages, the cache is deleted with it; it is    *)
(* read only where mirrors are refreshed.                                   *)
StampMoves ==
  /\ refreshes
  /\ \/ Ensured /\ stamp' = "young"
     \/ stamp = "young" /\ stamp' = "old"
     \/ stamp' = "none"
  /\ UNCHANGED <<mirrorVars, config, down, stored, clientVars, pc, target, wire, stats,
                 faults>>

(* run_server() ends; handler threads go on while workers finish.           *)
Shutdown ==
  /\ ~down
  /\ down' = TRUE
  /\ UNCHANGED <<mirrorVars, config, stamp, stored, clientVars, pc, target, wire, stats,
                 faults>>

Next ==
  \/ \E c \in Clients : Request(c)
  \/ \E c \in Clients : RequestPage(c)
  \/ \E c \in Clients : Page(c)
  \/ \E c \in Clients : ReadProject(c)
  \/ \E c \in Clients : ReadRefs(c)
  \/ \E c \in Clients : StampExists(c)
  \/ \E c \in Clients : StampStat(c)
  \/ \E c \in Clients : SubmitRefresh(c)
  \/ \E c \in Clients : CountHit(c)
  \/ \E c \in Clients : CountMiss(c)
  \/ \E c \in Clients : Ensure(c)
  \/ \E c \in Clients : EnsureFails(c)
  \/ \E c \in Clients : SubmitMiss(c)
  \/ \E c \in Clients : Redirect(c)
  \/ \E c \in Clients : TooLarge(c)
  \/ \E c \in Clients : Proxy(c)
  \/ \E c \in Clients : Opened(c)
  \/ \E c \in Clients : Streamed(c)
  \/ \E c \in Clients : HttpError(c)
  \/ \E c \in Clients : ErrorBody(c)
  \/ \E c \in Clients : ErrorBodyBreaks(c)
  \/ \E c \in Clients : OpenFails(c)
  \/ \E c \in Clients : StreamBreaks(c)
  \/ \E c \in Clients : BadGateway(c)
  \/ \E c \in Clients : Receive(c)
  \/ \E c \in Clients : Direct(c)
  \/ \E c \in Clients : DirectFails(c)
  \/ \E c \in Clients : HangUp(c)
  \/ MirrorMoves
  \/ StampMoves
  \/ Shutdown

Spec == Init /\ [][Next]_vars

(* What a handler thread does by itself, a timeout included; an answer of a *)
(* server is nothing to count on, nor is the end of a Git command.          *)
Handle(c) ==
  \/ Page(c) \/ ReadProject(c) \/ StampExists(c) \/ StampStat(c)
  \/ SubmitRefresh(c) \/ CountHit(c) \/ CountMiss(c) \/ SubmitMiss(c)
  \/ Redirect(c) \/ Proxy(c)
  \/ ErrorBodyBreaks(c) \/ OpenFails(c) \/ StreamBreaks(c) \/ BadGateway(c)

Proceed(c) == (phase[c] = "advertised" /\ Request(c)) \/ Receive(c) \/ Direct(c)

(* urlopen() and API calls have a timeout on every read and connect, no     *)
(* answer drips for ever, and a client that waits for an answer reads it.   *)
(* Git commands have no timeout: neither the readiness check's (ReadRefs)   *)
(* nor those of ensure(), which also waits for the lock of a job that runs  *)
(* some, need end.                                                          *)
Fairness == \A c \in Clients : WF_vars(Handle(c)) /\ WF_vars(Proceed(c))

FairSpec == Spec /\ Fairness

-----------------------------------------------------------------------------
(* Properties. *)

Selecting == {"page", "project", "refs", "stamp", "stat", "refresh", "hit", "miss", "ensure", "submit"}
Serving   == {"serve", "open", "stream", "refuse", "errorbody", "bad"}
Over      == {"over", "died"}
Ended     == {"done", "failed", "reset", "quit"}

(* Every variable keeps its type.                                           *)
TypeOK ==
  /\ stamp \in {"none", "young", "old"} /\ down \in BOOLEAN
  /\ stored \subseteq Refs \X (0 .. MaxChange \cup {Readme})
  /\ phase \in [Clients -> {"start", "page", "refs", "advertised", "pack", "direct"} \cup Ended]
  /\ \A c \in Clients : wants[c] \subseteq Refs \X (0 .. MaxChange \cup {Readme})
  /\ source \in [Clients -> Targets \cup {Nowhere}]
  /\ target \in [Clients -> Targets \cup {Nowhere}]
  /\ pc \in [Clients -> {"none"} \cup Selecting \cup Serving \cup Over]
  /\ \A c \in Clients : pc[c] \in Serving => target[c] \in Targets

(* A fetch that no fault touched fails only because its two requests went   *)
(* to different targets: the mirror became ready in between and lacks what  *)
(* the upstream had advertised, or the mirror became unready after it had   *)
(* advertised the commit GitLab made for it.  Falling back from a mirror    *)
(* that holds nothing but states of the upstream never fails a fetch        *)
(* (_handle_request() selecting a target for each request).                 *)
FetchFailsOnlyWithReason ==
  \A c \in Clients : phase[c] \in {"failed", "reset"} /\ faults[c] = {} =>
    \/ source[c] = "upstream" /\ target[c] = "gitlab"
    \/ source[c] = "gitlab" /\ target[c] = "upstream" /\ <<DefaultRef, Readme>> \in wants[c]

(* What the readiness check saw still holds when the request is passed on,  *)
(* however long that takes, and a blocking ensure() has made it so: GitLab  *)
(* is asked only for a repository that has refs there.                      *)
GitLabOnlyWhenPopulated ==
  \A c \in Clients : pc[c] \in Serving /\ target[c] = "gitlab" => Populated

(* Every request is answered by one head and the body that belongs to it,   *)
(* whatever breaks.  Only an error in the midst of a body is followed by a  *)
(* second head inside it, and then there is no other end; only a hung-up    *)
(* client, a stamp deleted under is_stale(), a shut down scheduler and an   *)
(* error answer that breaks off leave a request without its answer          *)
(* (_proxy()).                                                              *)
AnswersAreWhole ==
  \A c \in Clients :
    /\ pc[c] = "over" =>
         \/ wire[c] \in {<<"200", "whole">>, <<"200", "refused">>, <<"307">>}
         \/ wire[c] \in {<<h, "text">> : h \in {"200", "404", "405", "413", "4xx", "502"}}
         \/ wire[c] = <<"200", "part", "502", "text">> /\ faults[c] \cap {target[c], "gone"} # {}
    /\ pc[c] = "died" /\ ~Gone(c) =>
         wire[c] = <<"4xx">> \/ (wire[c] = <<>> /\ faults[c] \cap {"stamp", "down"} # {})

(* The counters of /statusz and /metrics agree: every request is observed   *)
(* when it is over, but for those that died; no request is counted as both  *)
(* a hit and a miss; and what was proxied was counted before                *)
(* (ServiceStats).                                                          *)
CountersAgree ==
  LET Number(S) == Cardinality(S)
      lost      == {c \in Clients : pc[c] = "died" \/ phase[c] = "reset"}
      running   == {c \in Clients : pc[c] \in Selecting \cup Serving}
  IN /\ stats.requests = stats.observed + Number(running) + Number(lost)
     /\ stats.hits + stats.misses <= stats.requests
     /\ stats.upstream <= stats.misses
     /\ strategy = "proxy_upstream" => stats.gitlab <= stats.hits

(* A fetch ends, unless its request waits for ever for a Git command, which *)
(* run() gives no timeout (util.py): nothing else, no server, no scheduler  *)
(* and no broken answer, keeps a handler (gitlab_mirror_ready(), ensure(),  *)
(* _proxy()).                                                               *)
RunsGit(c) == pc[c] \in {"refs", "ensure"}

FetchesEnd ==
  \A c \in Clients :
    \/ <>[]RunsGit(c)
    \/ phase[c] \in {"page", "refs"} ~> phase[c] \in Ended

=============================================================================
