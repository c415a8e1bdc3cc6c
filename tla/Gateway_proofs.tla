---------------------------- MODULE Gateway_proofs ----------------------------
(***************************************************************************)
(* Proofs of the safety properties of Gateway, for any number of clients,  *)
(* any refs and any number of upstream changes.                            *)
(***************************************************************************)
EXTENDS Gateway, FiniteSetTheorems, SequenceTheorems, TLAPS

-----------------------------------------------------------------------------
(* The inductive invariant, in parts. *)

Values     == 0 .. MaxChange \cup {Readme}
Resting    == {"start", "advertised", "direct", "done", "failed", "reset"}
Probing    == {"project", "refs"}
SeenReady  == {"stamp", "stat", "refresh", "hit"}
Missing    == {"miss", "ensure", "submit"}
Unanswered == {"none", "page", "serve", "open"} \cup Probing \cup SeenReady \cup Missing

UpstreamTips == Objects("upstream")

(* What requests are served from: nothing before there is a project, then   *)
(* states of the upstream and GitLab's own commit.                          *)
MirrorPlaced ==
  /\ stamp \in {"none", "young", "old"} /\ down \in BOOLEAN
  /\ now \in 1 .. MaxChange
  /\ up \in [Refs -> 0 .. MaxChange]
  /\ past \in [Refs -> SUBSET (0 .. MaxChange)]
  /\ project \in BOOLEAN
  /\ gl \in [Refs -> Values]
  /\ \A r \in Refs : up[r] \in past[r]
  /\ ~project => \A r \in Refs : gl[r] = 0
  /\ Tips(gl) \subseteq stored
  /\ stored \subseteq UpstreamTips \cup {<<DefaultRef, Readme>>}

(* What is kept for each client, and its type.                              *)
PerClient ==
  /\ phase = [c \in Clients |-> phase[c]]
  /\ wants = [c \in Clients |-> wants[c]]
  /\ source = [c \in Clients |-> source[c]]
  /\ pc = [c \in Clients |-> pc[c]]
  /\ target = [c \in Clients |-> target[c]]
  /\ wire = [c \in Clients |-> wire[c]]
  /\ faults = [c \in Clients |-> faults[c]]

TypedAt(c) ==
  /\ phase[c] \in {"start", "page", "refs", "advertised", "pack", "direct"} \cup Ended
  /\ wants[c] \subseteq Refs \X Values
  /\ source[c] \in Targets \cup {Nowhere}
  /\ target[c] \in Targets \cup {Nowhere}
  /\ pc[c] \in {"none"} \cup Selecting \cup Serving \cup Over

(* A client that has no request running has no handler.                     *)
HandlerPlaced(c) ==
  /\ phase[c] \in Resting => pc[c] = "none"
  /\ pc[c] = "page" => phase[c] \in {"page", "quit"}
  /\ phase[c] = "page" => pc[c] \in {"page", "over", "died"}
  /\ phase[c] = "quit" => Gone(c)
  /\ phase[c] = "page" /\ pc[c] = "died" => Gone(c)
  /\ pc[c] \in Serving => target[c] \in Targets
  /\ pc[c] = "over" /\ phase[c] \in {"refs", "pack"} => target[c] \in Targets

(* What was seen ready has refs, and stays so.                              *)
ReadyStays(c) ==
  /\ pc[c] \in SeenReady => Populated
  /\ pc[c] \in Serving /\ target[c] = "gitlab" => Populated

(* What is on the wire, by what the handler has done.                       *)
WirePlaced(c) ==
  /\ pc[c] \in Unanswered => wire[c] = <<>>
  /\ pc[c] \in {"stream", "refuse"} => wire[c] = <<"200">>
  /\ pc[c] = "errorbody" => wire[c] = <<"4xx">>
  /\ pc[c] = "bad" =>
       \/ wire[c] = <<>>
       \/ wire[c] = <<"200", "part">> /\ faults[c] \cap {target[c], "gone"} # {}

(* AnswersAreWhole, for one client.                                         *)
Replies == {<<"200", "whole">>, <<"200", "refused">>, <<"307">>}
           \cup {<<h, "text">> : h \in {"200", "404", "405", "413", "4xx", "502"}}

AnswerWhole(c) ==
  /\ pc[c] = "over" =>
       \/ wire[c] \in Replies
       \/ wire[c] = <<"200", "part", "502", "text">> /\ faults[c] \cap {target[c], "gone"} # {}
  /\ pc[c] = "died" /\ ~Gone(c) =>
       wire[c] = <<"4xx">> \/ (wire[c] = <<>> /\ faults[c] \cap {"stamp", "down"} # {})

(* What a client was advertised is what the server it came from still has.  *)
AdvertisedStays(c) ==
  /\ phase[c] = "start" => wants[c] = {}
  /\ phase[c] = "refs" /\ pc[c] \in Unanswered => wants[c] = {}
  /\ phase[c] = "refs" => wants[c] \subseteq Objects(target[c])
  /\ phase[c] \in {"advertised", "pack"} =>
       source[c] \in Targets /\ wants[c] \subseteq Objects(source[c])

(* Why a request is refused, when nothing broke.                            *)
TwoTargets(c) ==
  \/ source[c] = "upstream" /\ target[c] = "gitlab"
  \/ source[c] = "gitlab" /\ target[c] = "upstream" /\ <<DefaultRef, Readme>> \in wants[c]

Explained(c) ==
  faults[c] = {} =>
    /\ phase[c] \in {"failed", "reset"} => TwoTargets(c)
    /\ pc[c] \notin {"bad", "died", "errorbody"}
    /\ pc[c] = "refuse" => phase[c] = "pack" /\ TwoTargets(c)
    /\ pc[c] = "over" /\ phase[c] \in {"refs", "pack"} =>
         \/ wire[c] \in {<<"200", "whole">>, <<"307">>}
         \/ wire[c] = <<"200", "refused">> /\ phase[c] = "pack" /\ TwoTargets(c)

ClientOK(c) ==
  /\ TypedAt(c)
  /\ HandlerPlaced(c) /\ ReadyStays(c)
  /\ WirePlaced(c) /\ AnswerWhole(c)
  /\ AdvertisedStays(c) /\ Explained(c)

GatewayInv ==
  /\ PerClient
  /\ MirrorPlaced
  /\ \A c \in Clients : ClientOK(c)

(* The counters, with the requests that are not counted yet.                *)
Running   == {c \in Clients : pc[c] \in Selecting \cup Serving}
Lost      == {c \in Clients : pc[c] = "died" \/ phase[c] = "reset"}
Undecided == {c \in Clients : pc[c] \in Probing \cup SeenReady \cup {"miss"}}
Missed    == {c \in Clients : \/ pc[c] \in {"ensure", "submit"}
                              \/ pc[c] = "serve" /\ target[c] = "upstream"}
Found     == {c \in Clients : pc[c] = "serve" /\ target[c] = "gitlab"}

StatsOK ==
  stats \in [requests : Nat, hits : Nat, misses : Nat, gitlab : Nat, upstream : Nat,
             observed : Nat]

CountersInv ==
  /\ StatsOK
  /\ stats.requests = stats.observed + Cardinality(Running) + Cardinality(Lost)
  /\ stats.hits + stats.misses + Cardinality(Undecided) <= stats.requests
  /\ stats.upstream + Cardinality(Missed) <= stats.misses
  /\ strategy = "proxy_upstream" =>
       /\ \A c \in Clients : pc[c] # "ensure"
       /\ stats.gitlab + Cardinality(Found) <= stats.hits

(* A step of one client leaves them balanced if what it counts is what the  *)
(* client moves from one of these sets to another.                          *)
Tally(c, S) == IF c \in S THEN 1 ELSE 0

ObservedBalanced(c) ==
  stats'.requests - stats.requests =
    stats'.observed - stats.observed + Tally(c, Running') - Tally(c, Running)
                                     + Tally(c, Lost') - Tally(c, Lost)

DecidedBalanced(c) ==
  stats'.hits - stats.hits + stats'.misses - stats.misses
    + Tally(c, Undecided') - Tally(c, Undecided) <= stats'.requests - stats.requests

UpstreamBalanced(c) ==
  stats'.upstream - stats.upstream + Tally(c, Missed') - Tally(c, Missed)
    <= stats'.misses - stats.misses

GitLabBalanced(c) ==
  strategy = "proxy_upstream" /\ pc[c] # "ensure" =>
    /\ pc'[c] # "ensure"
    /\ stats'.gitlab - stats.gitlab + Tally(c, Found') - Tally(c, Found)
         <= stats'.hits - stats.hits

Balanced(c) ==
  StatsOK =>
    /\ StatsOK'
    /\ ObservedBalanced(c) /\ DecidedBalanced(c)
    /\ UpstreamBalanced(c) /\ GitLabBalanced(c)

-----------------------------------------------------------------------------
(* Facts the steps need. *)

(* What a handler writes is appended to what is on the wire.                *)

LEMMA Two == \A a, b : <<a>> \o <<b>> = <<a, b>>
  <1> TAKE a, b
  <1> DEFINE S == {a, b}
             s == <<a>> \o <<b>>
  <1>1. a \in S /\ b \in S
    OBVIOUS
  <1> HIDE DEF S
  <1>2. s \in Seq(S) /\ Len(s) = 2 /\ s[1] = a /\ s[2] = b
    BY <1>1
  <1>3. <<a, b>> \in Seq(S) /\ Len(<<a, b>>) = 2
    BY <1>1
  <1>4. \A i \in 1 .. 2 : s[i] = <<a, b>>[i]
    BY <1>2
  <1> HIDE DEF s
  <1>5. s = <<a, b>>
    BY <1>2, <1>3, <1>4, SeqEqual
  <1> QED
    BY <1>5 DEF s

LEMMA Four == \A a, b, c, d : <<a, b>> \o <<c, d>> = <<a, b, c, d>>
  <1> TAKE a, b, c, d
  <1> DEFINE S == {a, b, c, d}
             s == <<a, b>> \o <<c, d>>
  <1>1. a \in S /\ b \in S /\ c \in S /\ d \in S
    OBVIOUS
  <1> HIDE DEF S
  <1>2. s \in Seq(S) /\ Len(s) = 4 /\ s[1] = a /\ s[2] = b /\ s[3] = c /\ s[4] = d
    BY <1>1
  <1>3. <<a, b, c, d>> \in Seq(S) /\ Len(<<a, b, c, d>>) = 4
    BY <1>1
  <1>4. \A i \in 1 .. 4 : s[i] = <<a, b, c, d>>[i]
    BY <1>2
  <1> HIDE DEF s
  <1>5. s = <<a, b, c, d>>
    BY <1>2, <1>3, <1>4, SeqEqual
  <1> QED
    BY <1>5 DEF s

LEMMA Empty == \A a, b : <<>> \o <<a>> = <<a>> /\ <<>> \o <<a, b>> = <<a, b>>
  <1> TAKE a, b
  <1> DEFINE S == {a, b}
  <1>1. a \in S /\ b \in S
    OBVIOUS
  <1> HIDE DEF S
  <1>2. <<a>> \in Seq(S) /\ <<a, b>> \in Seq(S)
    BY <1>1
  <1> QED
    BY <1>2, ConcatEmptySeq

(* What a handler writes, on what is on the wire.                           *)
LEMMA OnTheWire ==
  /\ \A a : <<>> \o <<a>> = <<a>>
  /\ \A a, b : <<>> \o <<a, b>> = <<a, b>>
  /\ \A a, b : <<a>> \o <<b>> = <<a, b>>
  /\ \A a, b, c, d : <<a, b>> \o <<c, d>> = <<a, b, c, d>>
  BY Empty, Two, Four

(* A step of one client leaves the others where they are.                   *)
Same(d) == UNCHANGED <<phase[d], wants[d], source[d], pc[d], target[d], wire[d], faults[d]>>

(* What is shown of every step of a client.                                 *)
Kept(c) ==
  /\ GatewayInv'
  /\ UNCHANGED strategy
  /\ \A d \in Clients \ {c} : Same(d)
  /\ Balanced(c)

LEMMA HandlerStep ==
  ASSUME GatewayInv, NEW c \in Clients, UNCHANGED <<mirrorVars, strategy, stamp, down, stored>>,
         PerClient', \A d \in Clients \ {c} : Same(d), ClientOK(c)', Balanced(c)
  PROVE  Kept(c)
  <1>1. MirrorPlaced'
    BY DEF GatewayInv, MirrorPlaced, UpstreamTips, Objects, mirrorVars
  <1>2. ASSUME NEW d \in Clients \ {c}
        PROVE  ClientOK(d)'
    <2>1. ClientOK(d) /\ Same(d)
      BY <1>2 DEF GatewayInv
    <2>2. TypedAt(d)' /\ HandlerPlaced(d)' /\ ReadyStays(d)'
      BY <2>1 DEF ClientOK, Same, TypedAt, HandlerPlaced, ReadyStays, Gone, Populated, mirrorVars
    <2>3. WirePlaced(d)' /\ AnswerWhole(d)'
      BY <2>1 DEF ClientOK, Same, WirePlaced, AnswerWhole, Gone
    <2>4. AdvertisedStays(d)' /\ Explained(d)'
      BY <2>1 DEF ClientOK, Same, AdvertisedStays, Explained, TwoTargets, Objects, mirrorVars
    <2> QED
      BY <2>2, <2>3, <2>4 DEF ClientOK
  <1> QED
    BY <1>1, <1>2 DEF GatewayInv, Kept

-----------------------------------------------------------------------------
(* The steps of handlers and clients. *)

(* A request begins with nothing on the wire and no target.                 *)
LEMMA RequestInv ==
  ASSUME GatewayInv, NEW c \in Clients, Request(c)
  PROVE  Kept(c)
  <1>1. PerClient /\ ClientOK(c)
    BY DEF GatewayInv
  <1>2. /\ phase[c] \in {"start", "advertised"}
        /\ phase'[c] = IF phase[c] = "start" THEN "refs" ELSE "pack"
        /\ pc'[c] = "project"
        /\ target'[c] = Nowhere
        /\ wire'[c] = <<>>
        /\ UNCHANGED <<wants[c], source[c], faults[c]>>
        /\ stats' = [stats EXCEPT !.requests = @ + 1]
    BY <1>1 DEF Request, Goto, Count, PerClient
  <1>3. /\ PerClient' /\ UNCHANGED <<mirrorVars, strategy, stamp, down, stored>>
        /\ \A d \in Clients \ {c} : Same(d)
    BY <1>1 DEF Request, Goto, config, PerClient, Same
  <1>4. TypedAt(c)' /\ HandlerPlaced(c)' /\ ReadyStays(c)'
    BY GatewayAssumption, <1>1, <1>2, <1>3 DEF ClientOK, TypedAt, HandlerPlaced,
                                               ReadyStays, SeenReady, Resting, Serving,
                                               Selecting
  <1>5. WirePlaced(c)' /\ AnswerWhole(c)'
    BY <1>1, <1>2 DEF WirePlaced, AnswerWhole
  <1>6. AdvertisedStays(c)' /\ Explained(c)'
    BY <1>1, <1>2, <1>3 DEF ClientOK, AdvertisedStays, Explained, Objects, mirrorVars
  <1>7. Balanced(c)
    <2> SUFFICES ASSUME StatsOK PROVE Balanced(c)
      BY DEF Balanced
    <2>1. StatsOK'
      BY <1>1, <1>2 DEF StatsOK
    <2>2. ObservedBalanced(c)
      BY <1>1, <1>2 DEF StatsOK, ClientOK, HandlerPlaced, ObservedBalanced, Tally,
                        Running, Lost, Resting, Selecting, Serving
    <2>3. DecidedBalanced(c)
      BY <1>1, <1>2 DEF StatsOK, DecidedBalanced, Tally
    <2>4. UpstreamBalanced(c)
      BY <1>1, <1>2 DEF StatsOK, UpstreamBalanced, Tally, Missed
    <2>5. GitLabBalanced(c)
      BY <1>1, <1>2 DEF StatsOK, GitLabBalanced, Tally, Found
    <2> QED
      BY <2>1, <2>2, <2>3, <2>4, <2>5 DEF Balanced
  <1> QED
    BY <1>3, <1>4, <1>5, <1>6, <1>7, HandlerStep DEF ClientOK

(* So does one for a page of the gateway's own.                             *)
LEMMA RequestPageInv ==
  ASSUME GatewayInv, NEW c \in Clients, RequestPage(c)
  PROVE  Kept(c)
  <1>1. PerClient /\ ClientOK(c)
    BY DEF GatewayInv
  <1>2. /\ phase[c] = "start"
        /\ phase'[c] = "page"
        /\ pc'[c] = "page"
        /\ UNCHANGED <<wants[c], source[c], target[c], wire[c], faults[c]>>
        /\ stats' = [stats EXCEPT !.requests = @ + 1]
    BY <1>1 DEF RequestPage, Goto, Count, PerClient
  <1>3. /\ PerClient' /\ UNCHANGED <<mirrorVars, strategy, stamp, down, stored>>
        /\ \A d \in Clients \ {c} : Same(d)
    BY <1>1 DEF RequestPage, Goto, config, PerClient, Same
  <1>4. TypedAt(c)' /\ HandlerPlaced(c)' /\ ReadyStays(c)'
    BY GatewayAssumption, <1>1, <1>2, <1>3 DEF ClientOK, TypedAt, HandlerPlaced,
                                               ReadyStays, SeenReady, Resting, Serving,
                                               Selecting
  <1>5. WirePlaced(c)' /\ AnswerWhole(c)'
    BY <1>1, <1>2 DEF ClientOK, HandlerPlaced, WirePlaced, AnswerWhole, Unanswered,
                      Resting
  <1>6. AdvertisedStays(c)' /\ Explained(c)'
    BY <1>1, <1>2, <1>3 DEF AdvertisedStays, Explained
  <1>7. Balanced(c)
    BY <1>1, <1>2 DEF ClientOK, HandlerPlaced, Balanced, ObservedBalanced,
                      DecidedBalanced, UpstreamBalanced, GitLabBalanced, StatsOK, Tally,
                      Running, Lost, Missed, Found, Resting, Selecting, Serving
  <1> QED
    BY <1>3, <1>4, <1>5, <1>6, <1>7, HandlerStep DEF ClientOK

(* A page is one head and its text.                                         *)
LEMMA PageInv ==
  ASSUME GatewayInv, NEW c \in Clients, Page(c)
  PROVE  Kept(c)
  <1>1. PerClient /\ ClientOK(c)
    BY DEF GatewayInv
  <1>2. /\ pc[c] = "page"
        /\ \/ /\ pc'[c] = "over"
              /\ \E h \in {"200", "404", "405"} : wire'[c] = <<h, "text">>
              /\ UNCHANGED <<phase[c], wants[c], source[c], target[c], faults[c]>>
              /\ stats' = [stats EXCEPT !.observed = @ + 1]
           \/ /\ Gone(c)
              /\ pc'[c] = "died"
              /\ UNCHANGED <<phase[c], wants[c], source[c], target[c], wire[c], faults[c]>>
              /\ UNCHANGED stats
    BY <1>1, OnTheWire DEF Page, Rest, clientVars, Reply, Goto, Count, Send, Dies,
                           PerClient, ClientOK, WirePlaced, Unanswered
  <1>3. /\ PerClient' /\ UNCHANGED <<mirrorVars, strategy, stamp, down, stored>>
        /\ \A d \in Clients \ {c} : Same(d)
    BY <1>1 DEF Page, Rest, config, clientVars, Reply, Goto, Send, Dies, PerClient, Same
  <1>4. TypedAt(c)' /\ HandlerPlaced(c)' /\ ReadyStays(c)'
    BY GatewayAssumption, <1>1, <1>2, <1>3 DEF ClientOK, TypedAt, HandlerPlaced,
                                               ReadyStays, Gone, SeenReady, Serving, Over
  <1>5. WirePlaced(c)' /\ AnswerWhole(c)'
    BY <1>1, <1>2 DEF WirePlaced, AnswerWhole, Replies, Gone, Unanswered, Probing,
                      SeenReady, Missing
  <1>6. AdvertisedStays(c)' /\ Explained(c)'
    BY <1>1, <1>2, <1>3 DEF ClientOK, HandlerPlaced, AdvertisedStays, Explained, Gone
  <1>7. Balanced(c)
    BY <1>1, <1>2 DEF ClientOK, HandlerPlaced, Balanced, ObservedBalanced,
                      DecidedBalanced, UpstreamBalanced, GitLabBalanced, StatsOK, Tally,
                      Running, Lost, Undecided, Missed, Found, Probing, SeenReady,
                      Resting, Selecting, Serving
  <1> QED
    BY <1>3, <1>4, <1>5, <1>6, <1>7, HandlerStep DEF ClientOK

(* The first call of gitlab_mirror_ready() decides nothing yet.             *)
LEMMA ReadProjectInv ==
  ASSUME GatewayInv, NEW c \in Clients, ReadProject(c)
  PROVE  Kept(c)
  <1>1. PerClient /\ ClientOK(c)
    BY DEF GatewayInv
  <1>2. /\ pc[c] = "project"
        /\ pc'[c] \in {"refs", "miss"}
        /\ UNCHANGED <<phase[c], wants[c], source[c], target[c], wire[c], faults[c]>>
        /\ UNCHANGED stats
    BY <1>1 DEF ReadProject, Goto, Rest, clientVars, PerClient
  <1>3. /\ PerClient' /\ UNCHANGED <<mirrorVars, strategy, stamp, down, stored>>
        /\ \A d \in Clients \ {c} : Same(d)
    BY <1>1 DEF ReadProject, Goto, Rest, config, clientVars, PerClient, Same
  <1>4. TypedAt(c)' /\ HandlerPlaced(c)' /\ ReadyStays(c)'
    BY GatewayAssumption, <1>1, <1>2, <1>3 DEF ClientOK, TypedAt, HandlerPlaced,
                                               ReadyStays, Gone, SeenReady, Serving,
                                               Selecting
  <1>5. WirePlaced(c)' /\ AnswerWhole(c)'
    BY <1>1, <1>2 DEF ClientOK, WirePlaced, AnswerWhole, Unanswered, Probing
  <1>6. AdvertisedStays(c)' /\ Explained(c)'
    BY <1>1, <1>2, <1>3 DEF ClientOK, AdvertisedStays, Explained, TwoTargets, Objects,
                            mirrorVars, Unanswered, Probing
  <1>7. Balanced(c)
    BY <1>1, <1>2 DEF ClientOK, Balanced, ObservedBalanced, DecidedBalanced,
                      UpstreamBalanced, GitLabBalanced, StatsOK, Tally, Running, Lost,
                      Undecided, Missed, Found, Probing, Selecting, Targets
  <1> QED
    BY <1>3, <1>4, <1>5, <1>6, <1>7, HandlerStep DEF ClientOK

(* What the second call has seen has refs.                                  *)
LEMMA ReadRefsInv ==
  ASSUME GatewayInv, NEW c \in Clients, ReadRefs(c)
  PROVE  Kept(c)
  <1>1. PerClient /\ ClientOK(c)
    BY DEF GatewayInv
  <1>2. /\ pc[c] = "refs"
        /\ \/ /\ Populated
              /\ pc'[c] \in {"stamp", "hit"}
              /\ UNCHANGED <<phase[c], wants[c], source[c], target[c], wire[c], faults[c]>>
              /\ UNCHANGED stats
           \/ /\ pc'[c] = "miss"
              /\ UNCHANGED <<phase[c], wants[c], source[c], target[c], wire[c], faults[c]>>
              /\ UNCHANGED stats
    BY <1>1 DEF ReadRefs, Goto, Rest, clientVars, HasRefs, PerClient
  <1>3. /\ PerClient' /\ UNCHANGED <<mirrorVars, strategy, stamp, down, stored>>
        /\ \A d \in Clients \ {c} : Same(d)
    BY <1>1 DEF ReadRefs, Goto, Rest, config, clientVars, PerClient, Same
  <1>4. TypedAt(c)' /\ HandlerPlaced(c)' /\ ReadyStays(c)'
    BY GatewayAssumption, <1>1, <1>2, <1>3 DEF ClientOK, TypedAt, HandlerPlaced,
                                               ReadyStays, Populated, Gone, mirrorVars,
                                               SeenReady, Serving, Selecting
  <1>5. WirePlaced(c)' /\ AnswerWhole(c)'
    BY <1>1, <1>2 DEF ClientOK, WirePlaced, AnswerWhole, Unanswered, Probing
  <1>6. AdvertisedStays(c)' /\ Explained(c)'
    BY <1>1, <1>2, <1>3 DEF ClientOK, AdvertisedStays, Explained, TwoTargets, Objects,
                            mirrorVars, Unanswered, Probing
  <1>7. Balanced(c)
    BY <1>1, <1>2 DEF ClientOK, Balanced, ObservedBalanced, DecidedBalanced,
                      UpstreamBalanced, GitLabBalanced, StatsOK, Tally, Running, Lost,
                      Undecided, Missed, Found, Probing, SeenReady, Selecting, Serving
  <1> QED
    BY <1>3, <1>4, <1>5, <1>6, <1>7, HandlerStep DEF ClientOK

(* is_stale() has seen whether there is a stamp.                            *)
LEMMA StampExistsInv ==
  ASSUME GatewayInv, NEW c \in Clients, StampExists(c)
  PROVE  Kept(c)
  <1>1. PerClient /\ ClientOK(c)
    BY DEF GatewayInv
  <1>2. /\ pc[c] = "stamp"
        /\ pc'[c] \in {"refresh", "stat"}
        /\ UNCHANGED <<phase[c], wants[c], source[c], target[c], wire[c], faults[c]>>
        /\ UNCHANGED stats
    BY <1>1 DEF StampExists, Goto, Rest, clientVars, PerClient
  <1>3. /\ PerClient' /\ UNCHANGED <<mirrorVars, strategy, stamp, down, stored>>
        /\ \A d \in Clients \ {c} : Same(d)
    BY <1>1 DEF StampExists, Goto, Rest, config, clientVars, PerClient, Same
  <1>4. TypedAt(c)' /\ HandlerPlaced(c)' /\ ReadyStays(c)'
    BY GatewayAssumption, <1>1, <1>2, <1>3 DEF ClientOK, TypedAt, HandlerPlaced,
                                               ReadyStays, Populated, Gone, mirrorVars,
                                               SeenReady, Serving, Selecting
  <1>5. WirePlaced(c)' /\ AnswerWhole(c)'
    BY <1>1, <1>2 DEF ClientOK, WirePlaced, AnswerWhole, Unanswered, SeenReady
  <1>6. AdvertisedStays(c)' /\ Explained(c)'
    BY <1>1, <1>2, <1>3 DEF ClientOK, AdvertisedStays, Explained, TwoTargets, Objects,
                            mirrorVars, Unanswered, SeenReady
  <1>7. Balanced(c)
    BY <1>1, <1>2 DEF Balanced, ObservedBalanced, DecidedBalanced, UpstreamBalanced,
                      GitLabBalanced, StatsOK, Tally, Running, Lost, Undecided, Missed,
                      Found, SeenReady, Selecting
  <1> QED
    BY <1>3, <1>4, <1>5, <1>6, <1>7, HandlerStep DEF ClientOK

(* The stamp that is_stale() stats is gone, young or old.                   *)
LEMMA WhatStatFinds ==
  ASSUME GatewayInv, NEW c \in Clients, StampStat(c)
  PROVE  /\ pc[c] = "stat" /\ Rest /\ UNCHANGED <<target, wire, stats>>
         /\ \/ Goto(c, "died") /\ Blame(c, "stamp")
            \/ (Goto(c, "hit") \/ Goto(c, "refresh")) /\ UNCHANGED faults
  <1>1. pc[c] = "stat" /\ Rest /\ UNCHANGED <<target, wire, stats>>
    BY DEF StampStat
  <1>2. \/ Goto(c, "died") /\ Blame(c, "stamp")
        \/ (Goto(c, "hit") \/ Goto(c, "refresh")) /\ UNCHANGED faults
    BY DEF GatewayInv, MirrorPlaced, StampStat, Dies
  <1> QED
    BY <1>1, <1>2

(* A stamp that is gone by then ends the handler.                           *)
LEMMA StampStatInv ==
  ASSUME GatewayInv, NEW c \in Clients, StampStat(c)
  PROVE  Kept(c)
  <1>1. PerClient /\ ClientOK(c)
    BY DEF GatewayInv
  <1>2. /\ pc[c] = "stat"
        /\ \/ /\ pc'[c] \in {"hit", "refresh"}
              /\ UNCHANGED <<phase[c], wants[c], source[c], target[c], wire[c], faults[c]>>
              /\ UNCHANGED stats
           \/ /\ pc'[c] = "died"
              /\ faults'[c] = faults[c] \cup {"stamp"}
              /\ UNCHANGED <<phase[c], wants[c], source[c], target[c], wire[c]>>
              /\ UNCHANGED stats
    BY <1>1, WhatStatFinds DEF Goto, Blame, Rest, clientVars, PerClient
  <1>3. /\ PerClient' /\ UNCHANGED <<mirrorVars, strategy, stamp, down, stored>>
        /\ \A d \in Clients \ {c} : Same(d)
    BY <1>1, WhatStatFinds DEF config, Goto, Blame, Rest, clientVars, PerClient, Same
  <1>4. TypedAt(c)' /\ HandlerPlaced(c)' /\ ReadyStays(c)'
    BY GatewayAssumption, <1>1, <1>2, <1>3 DEF ClientOK, TypedAt, HandlerPlaced,
                                               ReadyStays, Populated, Gone, mirrorVars,
                                               SeenReady, Serving, Selecting, Over
  <1>5. WirePlaced(c)' /\ AnswerWhole(c)'
    BY <1>1, <1>2 DEF ClientOK, WirePlaced, AnswerWhole, Unanswered, SeenReady
  <1>6. AdvertisedStays(c)' /\ Explained(c)'
    BY <1>1, <1>2, <1>3 DEF ClientOK, AdvertisedStays, Explained, TwoTargets, Objects,
                            mirrorVars, Unanswered, SeenReady
  <1>7. Balanced(c)
    <2> SUFFICES ASSUME StatsOK PROVE Balanced(c)
      BY DEF Balanced
    <2>1. StatsOK'
      BY <1>1, <1>2 DEF StatsOK
    <2>2. ObservedBalanced(c)
      BY <1>1, <1>2 DEF StatsOK, ClientOK, HandlerPlaced, ObservedBalanced, Tally,
                        Running, Lost, Resting, Selecting, Serving
    <2>3. DecidedBalanced(c)
      BY <1>1, <1>2 DEF StatsOK, DecidedBalanced, Tally, Undecided, SeenReady
    <2>4. UpstreamBalanced(c)
      BY <1>1, <1>2 DEF StatsOK, UpstreamBalanced, Tally, Missed
    <2>5. GitLabBalanced(c)
      BY <1>1, <1>2 DEF StatsOK, GitLabBalanced, Tally, Found
    <2> QED
      BY <2>1, <2>2, <2>3, <2>4, <2>5 DEF Balanced
  <1> QED
    BY <1>3, <1>4, <1>5, <1>6, <1>7, HandlerStep DEF ClientOK

(* So does a scheduler that is shut down.                                   *)
LEMMA SubmitRefreshInv ==
  ASSUME GatewayInv, NEW c \in Clients, SubmitRefresh(c)
  PROVE  Kept(c)
  <1>1. PerClient /\ ClientOK(c)
    BY DEF GatewayInv
  <1>2. /\ pc[c] = "refresh"
        /\ \/ /\ pc'[c] = "hit"
              /\ UNCHANGED <<phase[c], wants[c], source[c], target[c], wire[c], faults[c]>>
              /\ UNCHANGED stats
           \/ /\ pc'[c] = "died"
              /\ faults'[c] = faults[c] \cup {"down"}
              /\ UNCHANGED <<phase[c], wants[c], source[c], target[c], wire[c]>>
              /\ UNCHANGED stats
    BY <1>1 DEF SubmitRefresh, Submit, Goto, Blame, Rest, clientVars, Dies, PerClient
  <1>3. /\ PerClient' /\ UNCHANGED <<mirrorVars, strategy, stamp, down, stored>>
        /\ \A d \in Clients \ {c} : Same(d)
    BY <1>1 DEF SubmitRefresh, Submit, Goto, Blame, Rest, config, clientVars, Dies,
                PerClient, Same
  <1>4. TypedAt(c)' /\ HandlerPlaced(c)' /\ ReadyStays(c)'
    BY GatewayAssumption, <1>1, <1>2, <1>3 DEF ClientOK, TypedAt, HandlerPlaced,
                                               ReadyStays, Populated, Gone, mirrorVars,
                                               SeenReady, Serving, Selecting, Over
  <1>5. WirePlaced(c)' /\ AnswerWhole(c)'
    BY <1>1, <1>2 DEF ClientOK, WirePlaced, AnswerWhole, Unanswered, SeenReady
  <1>6. AdvertisedStays(c)' /\ Explained(c)'
    BY <1>1, <1>2, <1>3 DEF ClientOK, AdvertisedStays, Explained, TwoTargets, Objects,
                            mirrorVars, Unanswered, SeenReady
  <1>7. Balanced(c)
    <2> SUFFICES ASSUME StatsOK PROVE Balanced(c)
      BY DEF Balanced
    <2>1. StatsOK'
      BY <1>1, <1>2 DEF StatsOK
    <2>2. ObservedBalanced(c)
      BY <1>1, <1>2 DEF StatsOK, ClientOK, HandlerPlaced, ObservedBalanced, Tally,
                        Running, Lost, Resting, Selecting, Serving
    <2>3. DecidedBalanced(c)
      BY <1>1, <1>2 DEF StatsOK, DecidedBalanced, Tally, Undecided, SeenReady
    <2>4. UpstreamBalanced(c)
      BY <1>1, <1>2 DEF StatsOK, UpstreamBalanced, Tally, Missed
    <2>5. GitLabBalanced(c)
      BY <1>1, <1>2 DEF StatsOK, GitLabBalanced, Tally, Found
    <2> QED
      BY <2>1, <2>2, <2>3, <2>4, <2>5 DEF Balanced
  <1> QED
    BY <1>3, <1>4, <1>5, <1>6, <1>7, HandlerStep DEF ClientOK

(* A hit goes to a mirror that was seen with refs.                          *)
LEMMA CountHitInv ==
  ASSUME GatewayInv, NEW c \in Clients, CountHit(c)
  PROVE  Kept(c)
  <1>1. PerClient /\ ClientOK(c)
    BY DEF GatewayInv
  <1>2. /\ pc[c] = "hit"
        /\ pc'[c] = "serve"
        /\ target'[c] = "gitlab"
        /\ UNCHANGED <<phase[c], wants[c], source[c], wire[c], faults[c]>>
        /\ stats' = [stats EXCEPT !.hits = @ + 1]
    BY <1>1 DEF CountHit, Goto, Count, Rest, clientVars, PerClient
  <1>3. /\ PerClient' /\ UNCHANGED <<mirrorVars, strategy, stamp, down, stored>>
        /\ \A d \in Clients \ {c} : Same(d)
    BY <1>1 DEF CountHit, Goto, Rest, config, clientVars, PerClient, Same
  <1>4. TypedAt(c)' /\ HandlerPlaced(c)' /\ ReadyStays(c)'
    BY GatewayAssumption, <1>1, <1>2, <1>3 DEF ClientOK, TypedAt, HandlerPlaced,
                                               ReadyStays, Populated, Gone, mirrorVars,
                                               SeenReady, Serving, Targets
  <1>5. WirePlaced(c)' /\ AnswerWhole(c)'
    BY <1>1, <1>2 DEF ClientOK, WirePlaced, AnswerWhole, Unanswered, SeenReady
  <1>6. AdvertisedStays(c)' /\ Explained(c)'
    BY <1>1, <1>2, <1>3 DEF ClientOK, HandlerPlaced, AdvertisedStays, Explained, Objects,
                            mirrorVars, Unanswered, SeenReady, Resting
  <1>7. Balanced(c)
    BY <1>1, <1>2 DEF ClientOK, HandlerPlaced, Balanced, ObservedBalanced,
                      DecidedBalanced, UpstreamBalanced, GitLabBalanced, StatsOK, Tally,
                      Running, Lost, Undecided, Missed, Probing, SeenReady, Selecting,
                      Serving
  <1> QED
    BY <1>3, <1>4, <1>5, <1>6, <1>7, HandlerStep DEF ClientOK

(* A miss has no target yet.                                                *)
LEMMA CountMissInv ==
  ASSUME GatewayInv, NEW c \in Clients, CountMiss(c)
  PROVE  Kept(c)
  <1>1. PerClient /\ ClientOK(c)
    BY DEF GatewayInv
  <1>2. /\ pc[c] = "miss"
        /\ pc'[c] = IF strategy = "wait_for_mirror" THEN "ensure" ELSE "submit"
        /\ UNCHANGED <<phase[c], wants[c], source[c], target[c], wire[c], faults[c]>>
        /\ stats' = [stats EXCEPT !.misses = @ + 1]
    BY <1>1 DEF CountMiss, Goto, Count, Rest, clientVars, PerClient
  <1>3. /\ PerClient' /\ UNCHANGED <<mirrorVars, strategy, stamp, down, stored>>
        /\ \A d \in Clients \ {c} : Same(d)
    BY <1>1 DEF CountMiss, Goto, Rest, config, clientVars, PerClient, Same
  <1>4. TypedAt(c)' /\ HandlerPlaced(c)' /\ ReadyStays(c)'
    BY GatewayAssumption, <1>1, <1>2, <1>3 DEF ClientOK, TypedAt, HandlerPlaced,
                                               ReadyStays, Gone, SeenReady, Serving,
                                               Selecting
  <1>5. WirePlaced(c)' /\ AnswerWhole(c)'
    BY <1>1, <1>2 DEF ClientOK, WirePlaced, AnswerWhole, Unanswered, Missing
  <1>6. AdvertisedStays(c)' /\ Explained(c)'
    BY <1>1, <1>2, <1>3 DEF ClientOK, AdvertisedStays, Explained, TwoTargets, Objects,
                            mirrorVars, Unanswered, Missing
  <1>7. Balanced(c)
    BY <1>1, <1>2 DEF ClientOK, HandlerPlaced, Balanced, ObservedBalanced,
                      DecidedBalanced, UpstreamBalanced, GitLabBalanced, StatsOK, Tally,
                      Running, Lost, Undecided, Found, Probing, SeenReady, Selecting,
                      Serving
  <1> QED
    BY <1>3, <1>4, <1>5, <1>6, <1>7, HandlerStep DEF ClientOK

(* A job that has succeeded has put a ref there.                            *)
LEMMA EnsureInv ==
  ASSUME GatewayInv, NEW c \in Clients, Ensure(c)
  PROVE  Kept(c)
  <1>1. PerClient /\ ClientOK(c)
    BY DEF GatewayInv
  <1>2. /\ pc[c] = "ensure"
        /\ Populated
        /\ pc'[c] = "serve"
        /\ target'[c] = "gitlab"
        /\ UNCHANGED <<phase[c], wants[c], source[c], wire[c], faults[c]>>
        /\ UNCHANGED stats
    BY <1>1, GatewayAssumption DEF Ensure, Goto, Rest, clientVars, Ensured, PerClient,
                                   Populated
  <1>3. /\ PerClient' /\ UNCHANGED <<mirrorVars, strategy, stamp, down, stored>>
        /\ \A d \in Clients \ {c} : Same(d)
    BY <1>1 DEF Ensure, Goto, Rest, config, clientVars, PerClient, Same
  <1>4. TypedAt(c)' /\ HandlerPlaced(c)' /\ ReadyStays(c)'
    BY GatewayAssumption, <1>1, <1>2, <1>3 DEF ClientOK, TypedAt, HandlerPlaced,
                                               ReadyStays, Populated, Gone, mirrorVars,
                                               Serving, Targets
  <1>5. WirePlaced(c)' /\ AnswerWhole(c)'
    BY <1>1, <1>2 DEF ClientOK, WirePlaced, AnswerWhole, Unanswered, Missing
  <1>6. AdvertisedStays(c)' /\ Explained(c)'
    BY <1>1, <1>2, <1>3 DEF ClientOK, HandlerPlaced, AdvertisedStays, Explained, Objects,
                            mirrorVars, Unanswered, Missing, Resting
  <1>7. Balanced(c)
    BY <1>1, <1>2 DEF Balanced, ObservedBalanced, DecidedBalanced, UpstreamBalanced,
                      GitLabBalanced, StatsOK, Tally, Running, Lost, Undecided, Missed,
                      Probing, SeenReady, Selecting, Serving
  <1> QED
    BY <1>3, <1>4, <1>5, <1>6, <1>7, HandlerStep DEF ClientOK

(* One that has failed leads upstream.                                      *)
LEMMA EnsureFailsInv ==
  ASSUME GatewayInv, NEW c \in Clients, EnsureFails(c)
  PROVE  Kept(c)
  <1>1. PerClient /\ ClientOK(c)
    BY DEF GatewayInv
  <1>2. /\ pc[c] = "ensure"
        /\ pc'[c] = "submit"
        /\ UNCHANGED <<phase[c], wants[c], source[c], target[c], wire[c], faults[c]>>
        /\ UNCHANGED stats
    BY <1>1 DEF EnsureFails, Goto, Rest, clientVars, PerClient
  <1>3. /\ PerClient' /\ UNCHANGED <<mirrorVars, strategy, stamp, down, stored>>
        /\ \A d \in Clients \ {c} : Same(d)
    BY <1>1 DEF EnsureFails, Goto, Rest, config, clientVars, PerClient, Same
  <1>4. TypedAt(c)' /\ HandlerPlaced(c)' /\ ReadyStays(c)'
    BY GatewayAssumption, <1>1, <1>2, <1>3 DEF ClientOK, TypedAt, HandlerPlaced,
                                               ReadyStays, Gone, SeenReady, Serving,
                                               Selecting
  <1>5. WirePlaced(c)' /\ AnswerWhole(c)'
    BY <1>1, <1>2 DEF ClientOK, WirePlaced, AnswerWhole, Unanswered, Missing
  <1>6. AdvertisedStays(c)' /\ Explained(c)'
    BY <1>1, <1>2, <1>3 DEF ClientOK, AdvertisedStays, Explained, TwoTargets, Objects,
                            mirrorVars, Unanswered, Missing
  <1>7. Balanced(c)
    <2> SUFFICES ASSUME StatsOK PROVE Balanced(c)
      BY DEF Balanced
    <2>1. StatsOK'
      BY <1>1, <1>2 DEF StatsOK
    <2>2. ObservedBalanced(c)
      BY <1>1, <1>2 DEF StatsOK, ObservedBalanced, Tally, Running, Lost, Selecting
    <2>3. DecidedBalanced(c)
      BY <1>1, <1>2 DEF StatsOK, DecidedBalanced, Tally, Undecided, Probing, SeenReady
    <2>4. UpstreamBalanced(c)
      BY <1>1, <1>2 DEF StatsOK, UpstreamBalanced, Tally, Missed
    <2>5. GitLabBalanced(c)
      BY <1>1, <1>2 DEF GitLabBalanced
    <2> QED
      BY <2>1, <2>2, <2>3, <2>4, <2>5 DEF Balanced
  <1> QED
    BY <1>3, <1>4, <1>5, <1>6, <1>7, HandlerStep DEF ClientOK

(* The upstream is the target if the scheduler takes the job.               *)
LEMMA SubmitMissInv ==
  ASSUME GatewayInv, NEW c \in Clients, SubmitMiss(c)
  PROVE  Kept(c)
  <1>1. PerClient /\ ClientOK(c)
    BY DEF GatewayInv
  <1>2. /\ pc[c] = "submit"
        /\ \/ /\ pc'[c] = "serve"
              /\ target'[c] = "upstream"
              /\ UNCHANGED <<phase[c], wants[c], source[c], wire[c], faults[c]>>
              /\ UNCHANGED stats
           \/ /\ pc'[c] = "died"
              /\ faults'[c] = faults[c] \cup {"down"}
              /\ UNCHANGED <<phase[c], wants[c], source[c], target[c], wire[c]>>
              /\ UNCHANGED stats
    BY <1>1 DEF SubmitMiss, Submit, Goto, Blame, Rest, clientVars, Dies, PerClient
  <1>3. /\ PerClient' /\ UNCHANGED <<mirrorVars, strategy, stamp, down, stored>>
        /\ \A d \in Clients \ {c} : Same(d)
    BY <1>1 DEF SubmitMiss, Submit, Goto, Blame, Rest, config, clientVars, Dies,
                PerClient, Same
  <1>4. TypedAt(c)' /\ HandlerPlaced(c)' /\ ReadyStays(c)'
    BY GatewayAssumption, <1>1, <1>2, <1>3 DEF ClientOK, TypedAt, HandlerPlaced,
                                               ReadyStays, Gone, SeenReady, Serving,
                                               Targets, Over
  <1>5. WirePlaced(c)' /\ AnswerWhole(c)'
    BY <1>1, <1>2 DEF ClientOK, WirePlaced, AnswerWhole, Unanswered, Missing
  <1>6. AdvertisedStays(c)' /\ Explained(c)'
    BY <1>1, <1>2, <1>3 DEF ClientOK, HandlerPlaced, AdvertisedStays, Explained, Objects,
                            mirrorVars, Unanswered, Missing, Resting
  <1>7. Balanced(c)
    BY <1>1, <1>2 DEF ClientOK, HandlerPlaced, Balanced, ObservedBalanced,
                      DecidedBalanced, UpstreamBalanced, GitLabBalanced, StatsOK, Tally,
                      Running, Lost, Undecided, Missed, Found, Probing, SeenReady,
                      Resting, Selecting, Serving
  <1> QED
    BY <1>3, <1>4, <1>5, <1>6, <1>7, HandlerStep DEF ClientOK

(* A redirect is a head only.                                               *)
LEMMA RedirectInv ==
  ASSUME GatewayInv, NEW c \in Clients, Redirect(c)
  PROVE  Kept(c)
  <1>1. PerClient /\ ClientOK(c)
    BY DEF GatewayInv
  <1>2. /\ pc[c] = "serve"
        /\ \/ /\ pc'[c] = "over"
              /\ wire'[c] = <<"307">>
              /\ UNCHANGED <<phase[c], wants[c], source[c], target[c], faults[c]>>
              /\ stats' = [stats EXCEPT !.observed = @ + 1]
           \/ /\ Gone(c)
              /\ pc'[c] = "died"
              /\ UNCHANGED <<phase[c], wants[c], source[c], target[c], wire[c], faults[c]>>
              /\ UNCHANGED stats
    BY <1>1, OnTheWire DEF Redirect, Rest, clientVars, Reply, Goto, Count, Send, Dies,
                           PerClient, ClientOK, WirePlaced, Unanswered
  <1>3. /\ PerClient' /\ UNCHANGED <<mirrorVars, strategy, stamp, down, stored>>
        /\ \A d \in Clients \ {c} : Same(d)
    BY <1>1 DEF Redirect, Rest, config, clientVars, Reply, Goto, Send, Dies, PerClient,
                Same
  <1>4. TypedAt(c)' /\ HandlerPlaced(c)' /\ ReadyStays(c)'
    BY GatewayAssumption, <1>1, <1>2, <1>3 DEF ClientOK, TypedAt, HandlerPlaced,
                                               ReadyStays, Gone, SeenReady, Serving, Over
  <1>5. WirePlaced(c)' /\ AnswerWhole(c)'
    BY <1>1, <1>2 DEF WirePlaced, AnswerWhole, Replies, Gone, Unanswered, Probing,
                      SeenReady, Missing
  <1>6. AdvertisedStays(c)' /\ Explained(c)'
    <2>1. AdvertisedStays(c)'
      BY <1>1, <1>2, <1>3 DEF ClientOK, AdvertisedStays, Objects, mirrorVars, Unanswered
    <2>2. Explained(c)'
      BY <1>1, <1>2 DEF ClientOK, HandlerPlaced, Explained, Gone, Resting
    <2> QED
      BY <2>1, <2>2
  <1>7. Balanced(c)
    BY <1>1, <1>2 DEF ClientOK, HandlerPlaced, Balanced, ObservedBalanced,
                      DecidedBalanced, UpstreamBalanced, GitLabBalanced, StatsOK, Tally,
                      Running, Lost, Undecided, Missed, Found, Probing, SeenReady,
                      Resting, Selecting, Serving
  <1> QED
    BY <1>3, <1>4, <1>5, <1>6, <1>7, HandlerStep DEF ClientOK

(* A body that is too large is refused before anything is sent.             *)
LEMMA TooLargeInv ==
  ASSUME GatewayInv, NEW c \in Clients, TooLarge(c)
  PROVE  Kept(c)
  <1>1. PerClient /\ ClientOK(c)
    BY DEF GatewayInv
  <1>2. /\ pc[c] = "serve"
        /\ \/ /\ pc'[c] = "over"
              /\ wire'[c] = <<"413", "text">>
              /\ faults'[c] = faults[c] \cup {"large"}
              /\ UNCHANGED <<phase[c], wants[c], source[c], target[c]>>
              /\ stats' = [stats EXCEPT !.observed = @ + 1]
           \/ /\ Gone(c)
              /\ pc'[c] = "died"
              /\ faults'[c] = faults[c] \cup {"large"}
              /\ UNCHANGED <<phase[c], wants[c], source[c], target[c], wire[c]>>
              /\ UNCHANGED stats
    BY <1>1, OnTheWire DEF TooLarge, Blame, Rest, clientVars, Reply, Goto, Count, Send,
                           Dies, PerClient, ClientOK, WirePlaced, Unanswered
  <1>3. /\ PerClient' /\ UNCHANGED <<mirrorVars, strategy, stamp, down, stored>>
        /\ \A d \in Clients \ {c} : Same(d)
    BY <1>1 DEF TooLarge, Blame, Rest, config, clientVars, Reply, Goto, Send, Dies,
                PerClient, Same
  <1>4. TypedAt(c)' /\ HandlerPlaced(c)' /\ ReadyStays(c)'
    BY GatewayAssumption, <1>1, <1>2, <1>3 DEF ClientOK, TypedAt, HandlerPlaced,
                                               ReadyStays, Gone, SeenReady, Serving, Over
  <1>5. WirePlaced(c)' /\ AnswerWhole(c)'
    BY <1>1, <1>2 DEF WirePlaced, AnswerWhole, Replies, Gone, Unanswered, Probing,
                      SeenReady, Missing
  <1>6. AdvertisedStays(c)' /\ Explained(c)'
    BY <1>1, <1>2, <1>3 DEF ClientOK, AdvertisedStays, Explained, Objects, mirrorVars,
                            Unanswered
  <1>7. Balanced(c)
    BY <1>1, <1>2 DEF ClientOK, HandlerPlaced, Balanced, ObservedBalanced,
                      DecidedBalanced, UpstreamBalanced, GitLabBalanced, StatsOK, Tally,
                      Running, Lost, Undecided, Missed, Found, Probing, SeenReady,
                      Resting, Selecting, Serving
  <1> QED
    BY <1>3, <1>4, <1>5, <1>6, <1>7, HandlerStep DEF ClientOK

(* The request is about to be passed on.                                    *)
LEMMA ProxyInv ==
  ASSUME GatewayInv, NEW c \in Clients, Proxy(c)
  PROVE  Kept(c)
  <1>1. PerClient /\ ClientOK(c)
    BY DEF GatewayInv
  <1>2. /\ pc[c] = "serve"
        /\ pc'[c] = "open"
        /\ UNCHANGED <<phase[c], wants[c], source[c], target[c], wire[c], faults[c]>>
        /\ stats' = [stats EXCEPT ![target[c]] = @ + 1]
    BY <1>1 DEF Proxy, Goto, Count, Rest, clientVars, PerClient
  <1>3. /\ PerClient' /\ UNCHANGED <<mirrorVars, strategy, stamp, down, stored>>
        /\ \A d \in Clients \ {c} : Same(d)
    BY <1>1 DEF Proxy, Goto, Rest, config, clientVars, PerClient, Same
  <1>4. TypedAt(c)' /\ HandlerPlaced(c)' /\ ReadyStays(c)'
    BY GatewayAssumption, <1>1, <1>2, <1>3 DEF ClientOK, TypedAt, HandlerPlaced,
                                               ReadyStays, Populated, Gone, mirrorVars,
                                               SeenReady, Serving
  <1>5. WirePlaced(c)' /\ AnswerWhole(c)'
    BY <1>1, <1>2 DEF ClientOK, WirePlaced, AnswerWhole, Unanswered
  <1>6. AdvertisedStays(c)' /\ Explained(c)'
    BY <1>1, <1>2, <1>3 DEF ClientOK, AdvertisedStays, Explained, TwoTargets, Objects,
                            mirrorVars, Unanswered
  <1>7. Balanced(c)
    BY <1>1, <1>2 DEF ClientOK, HandlerPlaced, Balanced, ObservedBalanced,
                      DecidedBalanced, UpstreamBalanced, GitLabBalanced, StatsOK, Tally,
                      Running, Lost, Undecided, Missed, Found, Probing, SeenReady,
                      Selecting, Serving, Targets
  <1> QED
    BY <1>3, <1>4, <1>5, <1>6, <1>7, HandlerStep DEF ClientOK

(* What is advertised is what the server has now; what is asked for was     *)
(* advertised, and is still there if the server is the same.                *)
LEMMA OpenedInv ==
  ASSUME GatewayInv, NEW c \in Clients, Opened(c)
  PROVE  Kept(c)
  <1>1. PerClient /\ ClientOK(c)
    BY DEF GatewayInv
  <1>2. /\ pc[c] = "open"
        /\ wire'[c] = <<"200">>
        /\ wants'[c] = IF phase[c] = "refs" THEN Advertised(target[c]) ELSE wants[c]
        /\ IF Has(c) THEN pc'[c] = "stream" ELSE pc'[c] = "refuse"
        /\ UNCHANGED <<phase[c], source[c], target[c], faults[c]>>
        /\ UNCHANGED stats
    BY <1>1, OnTheWire DEF Opened, Goto, Send, Server, PerClient, ClientOK, WirePlaced,
                           Unanswered
  <1>3. /\ PerClient' /\ UNCHANGED <<mirrorVars, strategy, stamp, down, stored>>
        /\ \A d \in Clients \ {c} : Same(d)
    BY <1>1 DEF Opened, Goto, Send, config, PerClient, Same
  <1>4. TypedAt(c)' /\ HandlerPlaced(c)' /\ ReadyStays(c)'
    <2>1. Advertised(target[c]) \subseteq Refs \X Values
      BY DEF GatewayInv, MirrorPlaced, Advertised, Tips, Values
    <2>2. wants'[c] \subseteq Refs \X Values
      BY <1>1, <1>2, <2>1 DEF ClientOK, TypedAt
    <2>3. TypedAt(c)'
      BY <1>1, <1>2, <2>2 DEF ClientOK, TypedAt, Serving
    <2>4. HandlerPlaced(c)' /\ ReadyStays(c)'
      BY <1>1, <1>2, <1>3 DEF ClientOK, HandlerPlaced, ReadyStays, Populated, Gone,
                              mirrorVars, SeenReady, Serving
    <2> QED
      BY <2>3, <2>4
  <1>5. WirePlaced(c)' /\ AnswerWhole(c)'
    BY <1>1, <1>2 DEF WirePlaced, AnswerWhole, Unanswered, Probing, SeenReady, Missing
  <1>6. AdvertisedStays(c)' /\ Explained(c)'
    <2>2. target[c] \in Targets /\ phase[c] \in {"refs", "pack", "quit"}
      BY <1>1, <1>2 DEF ClientOK, TypedAt, HandlerPlaced, Serving, Resting, Ended
    <2>3. Advertised(target[c]) \subseteq Objects(target[c])
      <3>1. Tips(gl) \subseteq stored
        BY DEF GatewayInv, MirrorPlaced
      <3>2. Tips(up) \subseteq Objects("upstream")
        BY DEF GatewayInv, MirrorPlaced, Tips, Objects
      <3> QED
        BY <2>2, <3>1, <3>2 DEF Advertised, Objects
    <2>4. AdvertisedStays(c)'
      <3>1. pc'[c] \notin Unanswered /\ Objects(target[c])' = Objects(target[c])
        BY <1>2, <1>3 DEF Objects, mirrorVars, Unanswered, Probing, SeenReady, Missing
      <3>2. phase[c] # "refs" => wants'[c] = wants[c]
        BY <1>2
      <3>3. phase[c] = "refs" => wants'[c] \subseteq Objects(target[c])
        BY <1>2, <2>3
      <3>4. Objects(source[c])' = Objects(source[c])
        BY <1>2, <1>3 DEF Objects, mirrorVars
      <3> QED
        BY <1>1, <1>2, <2>2, <3>1, <3>2, <3>3, <3>4 DEF ClientOK, AdvertisedStays
    <2>5. ~Has(c) => TwoTargets(c) /\ phase[c] = "pack"
      <3>1. stored \subseteq Objects("upstream") \cup {<<DefaultRef, Readme>>}
        BY DEF GatewayInv, MirrorPlaced, UpstreamTips
      <3>2. phase[c] = "pack" => source[c] \in Targets /\ wants[c] \subseteq Objects(source[c])
        BY <1>1 DEF ClientOK, AdvertisedStays
      <3>3. Objects("gitlab") = stored
        BY DEF Objects
      <3> QED
        BY <2>2, <3>1, <3>2, <3>3 DEF Has, Server, TwoTargets, Targets
    <2>6. Explained(c)'
      BY <1>2, <2>2, <2>5, <1>1 DEF Explained, TwoTargets
    <2> QED
      BY <2>4, <2>6
  <1>7. Balanced(c)
    BY <1>1, <1>2 DEF ClientOK, HandlerPlaced, Balanced, ObservedBalanced,
                      DecidedBalanced, UpstreamBalanced, GitLabBalanced, StatsOK, Tally,
                      Running, Lost, Undecided, Missed, Found, Probing, SeenReady,
                      Selecting, Serving, Targets
  <1> QED
    BY <1>3, <1>4, <1>5, <1>6, <1>7, HandlerStep DEF ClientOK

(* The body follows its head.                                               *)
LEMMA StreamedInv ==
  ASSUME GatewayInv, NEW c \in Clients, Streamed(c)
  PROVE  Kept(c)
  <1>1. PerClient /\ ClientOK(c)
    BY DEF GatewayInv
  <1>2. /\ pc[c] \in {"stream", "refuse"}
        /\ pc'[c] = "over"
        /\ wire'[c] = <<"200", IF pc[c] = "stream" THEN "whole" ELSE "refused">>
        /\ UNCHANGED <<phase[c], wants[c], source[c], target[c], faults[c]>>
        /\ stats' = [stats EXCEPT !.observed = @ + 1]
    <2>1. wire[c] = <<"200">>
      BY <1>1 DEF Streamed, ClientOK, WirePlaced
    <2>2. wire'[c] = <<"200", IF pc[c] = "stream" THEN "whole" ELSE "refused">>
      BY <1>1, <2>1, OnTheWire DEF Streamed, Send, PerClient
    <2> QED
      BY <1>1, <2>2 DEF Streamed, Goto, Count, Rest, clientVars, PerClient
  <1>3. /\ PerClient' /\ UNCHANGED <<mirrorVars, strategy, stamp, down, stored>>
        /\ \A d \in Clients \ {c} : Same(d)
    BY <1>1 DEF Streamed, Goto, Send, Rest, config, clientVars, PerClient, Same
  <1>4. TypedAt(c)' /\ HandlerPlaced(c)' /\ ReadyStays(c)'
    BY GatewayAssumption, <1>1, <1>2, <1>3 DEF ClientOK, TypedAt, HandlerPlaced,
                                               ReadyStays, Gone, SeenReady, Serving, Over
  <1>5. WirePlaced(c)' /\ AnswerWhole(c)'
    BY <1>1, <1>2 DEF WirePlaced, AnswerWhole, Replies, Unanswered, Probing, SeenReady,
                      Missing
  <1>6. AdvertisedStays(c)' /\ Explained(c)'
    BY <1>1, <1>2, <1>3 DEF ClientOK, AdvertisedStays, Explained, TwoTargets, Objects,
                            mirrorVars, Unanswered, Probing, SeenReady, Missing
  <1>7. Balanced(c)
    BY <1>1, <1>2 DEF Balanced, ObservedBalanced, DecidedBalanced, UpstreamBalanced,
                      GitLabBalanced, StatsOK, Tally, Running, Lost, Undecided, Missed,
                      Found, Probing, SeenReady, Selecting, Serving
  <1> QED
    BY <1>3, <1>4, <1>5, <1>6, <1>7, HandlerStep DEF ClientOK

(* An error status is a fault of the server.                                *)
LEMMA HttpErrorInv ==
  ASSUME GatewayInv, NEW c \in Clients, HttpError(c)
  PROVE  Kept(c)
  <1>1. PerClient /\ ClientOK(c)
    BY DEF GatewayInv
  <1>2. /\ pc[c] = "open"
        /\ \/ /\ pc'[c] = "errorbody"
              /\ wire'[c] = <<"4xx">>
              /\ faults'[c] = faults[c] \cup {target[c]}
              /\ UNCHANGED <<phase[c], wants[c], source[c], target[c]>>
              /\ UNCHANGED stats
           \/ /\ Gone(c)
              /\ pc'[c] = "died"
              /\ faults'[c] = faults[c] \cup {target[c]}
              /\ UNCHANGED <<phase[c], wants[c], source[c], target[c], wire[c]>>
              /\ UNCHANGED stats
    BY <1>1, OnTheWire DEF HttpError, Goto, Send, Blame, Rest, clientVars, Dies,
                           PerClient, ClientOK, WirePlaced, Unanswered
  <1>3. /\ PerClient' /\ UNCHANGED <<mirrorVars, strategy, stamp, down, stored>>
        /\ \A d \in Clients \ {c} : Same(d)
    BY <1>1 DEF HttpError, Goto, Send, Blame, Rest, config, clientVars, Dies, PerClient,
                Same
  <1>4. TypedAt(c)' /\ HandlerPlaced(c)' /\ ReadyStays(c)'
    BY GatewayAssumption, <1>1, <1>2, <1>3 DEF ClientOK, TypedAt, HandlerPlaced,
                                               ReadyStays, Populated, Gone, mirrorVars,
                                               SeenReady, Serving, Over
  <1>5. WirePlaced(c)' /\ AnswerWhole(c)'
    BY <1>1, <1>2 DEF WirePlaced, AnswerWhole, Gone, Unanswered, Probing, SeenReady,
                      Missing
  <1>6. AdvertisedStays(c)' /\ Explained(c)'
    BY <1>1, <1>2, <1>3 DEF ClientOK, AdvertisedStays, Explained, Objects, mirrorVars,
                            Unanswered
  <1>7. Balanced(c)
    <2> SUFFICES ASSUME StatsOK PROVE Balanced(c)
      BY DEF Balanced
    <2>1. StatsOK'
      BY <1>1, <1>2 DEF StatsOK
    <2>2. ObservedBalanced(c)
      BY <1>1, <1>2 DEF StatsOK, ClientOK, HandlerPlaced, ObservedBalanced, Tally,
                        Running, Lost, Resting, Selecting, Serving
    <2>3. DecidedBalanced(c)
      BY <1>1, <1>2 DEF StatsOK, DecidedBalanced, Tally, Undecided, Probing, SeenReady
    <2>4. UpstreamBalanced(c)
      BY <1>1, <1>2 DEF StatsOK, ClientOK, UpstreamBalanced, Tally, Missed
    <2>5. GitLabBalanced(c)
      BY <1>1, <1>2 DEF StatsOK, ClientOK, GitLabBalanced, Tally, Found, SeenReady, Targets
    <2> QED
      BY <2>1, <2>2, <2>3, <2>4, <2>5 DEF Balanced
  <1> QED
    BY <1>3, <1>4, <1>5, <1>6, <1>7, HandlerStep DEF ClientOK

(* Its text follows its head.                                               *)
LEMMA ErrorBodyInv ==
  ASSUME GatewayInv, NEW c \in Clients, ErrorBody(c)
  PROVE  Kept(c)
  <1>1. PerClient /\ ClientOK(c)
    BY DEF GatewayInv
  <1>2. /\ pc[c] = "errorbody"
        /\ pc'[c] = "over"
        /\ wire'[c] = <<"4xx", "text">>
        /\ UNCHANGED <<phase[c], wants[c], source[c], target[c], faults[c]>>
        /\ stats' = [stats EXCEPT !.observed = @ + 1]
    BY <1>1, OnTheWire DEF ErrorBody, Goto, Count, Send, Rest, clientVars, PerClient,
                           ClientOK, WirePlaced
  <1>3. /\ PerClient' /\ UNCHANGED <<mirrorVars, strategy, stamp, down, stored>>
        /\ \A d \in Clients \ {c} : Same(d)
    BY <1>1 DEF ErrorBody, Goto, Send, Rest, config, clientVars, PerClient, Same
  <1>4. TypedAt(c)' /\ HandlerPlaced(c)' /\ ReadyStays(c)'
    BY GatewayAssumption, <1>1, <1>2, <1>3 DEF ClientOK, TypedAt, HandlerPlaced,
                                               ReadyStays, Gone, SeenReady, Serving, Over
  <1>5. WirePlaced(c)' /\ AnswerWhole(c)'
    BY <1>1, <1>2 DEF WirePlaced, AnswerWhole, Replies, Unanswered, Probing, SeenReady,
                      Missing
  <1>6. AdvertisedStays(c)' /\ Explained(c)'
    BY <1>1, <1>2, <1>3 DEF ClientOK, AdvertisedStays, Explained, Objects, mirrorVars,
                            Unanswered, Probing, SeenReady, Missing
  <1>7. Balanced(c)
    BY <1>1, <1>2 DEF Balanced, ObservedBalanced, DecidedBalanced, UpstreamBalanced,
                      GitLabBalanced, StatsOK, Tally, Running, Lost, Undecided, Missed,
                      Found, Probing, SeenReady, Selecting, Serving
  <1> QED
    BY <1>3, <1>4, <1>5, <1>6, <1>7, HandlerStep DEF ClientOK

(* If that breaks, nothing follows.                                         *)
LEMMA ErrorBodyBreaksInv ==
  ASSUME GatewayInv, NEW c \in Clients, ErrorBodyBreaks(c)
  PROVE  Kept(c)
  <1>1. PerClient /\ ClientOK(c)
    BY DEF GatewayInv
  <1>2. /\ pc[c] = "errorbody"
        /\ \/ /\ Gone(c)
              /\ pc'[c] = "died"
              /\ UNCHANGED <<phase[c], wants[c], source[c], target[c], wire[c], faults[c]>>
              /\ UNCHANGED stats
           \/ /\ pc'[c] = "died"
              /\ faults'[c] = faults[c] \cup {target[c]}
              /\ UNCHANGED <<phase[c], wants[c], source[c], target[c], wire[c]>>
              /\ UNCHANGED stats
    BY <1>1 DEF ErrorBodyBreaks, Blame, Rest, clientVars, Dies, Goto, PerClient
  <1>3. /\ PerClient' /\ UNCHANGED <<mirrorVars, strategy, stamp, down, stored>>
        /\ \A d \in Clients \ {c} : Same(d)
    BY <1>1 DEF ErrorBodyBreaks, Blame, Rest, config, clientVars, Dies, Goto, PerClient,
                Same
  <1>4. TypedAt(c)' /\ HandlerPlaced(c)' /\ ReadyStays(c)'
    BY GatewayAssumption, <1>1, <1>2, <1>3 DEF ClientOK, TypedAt, HandlerPlaced,
                                               ReadyStays, Gone, SeenReady, Serving, Over
  <1>5. WirePlaced(c)' /\ AnswerWhole(c)'
    BY <1>1, <1>2 DEF ClientOK, WirePlaced, AnswerWhole, Unanswered, Probing, SeenReady,
                      Missing
  <1>6. AdvertisedStays(c)' /\ Explained(c)'
    BY <1>1, <1>2, <1>3 DEF ClientOK, AdvertisedStays, Explained, Objects, mirrorVars,
                            Unanswered, Probing, SeenReady, Missing
  <1>7. Balanced(c)
    <2> SUFFICES ASSUME StatsOK PROVE Balanced(c)
      BY DEF Balanced
    <2>1. StatsOK'
      BY <1>1, <1>2 DEF StatsOK
    <2>2. ObservedBalanced(c)
      BY <1>1, <1>2 DEF StatsOK, ClientOK, HandlerPlaced, ObservedBalanced, Tally,
                        Running, Lost, Resting, Selecting, Serving
    <2>3. DecidedBalanced(c)
      BY <1>1, <1>2 DEF StatsOK, DecidedBalanced, Tally, Undecided, Probing, SeenReady
    <2>4. UpstreamBalanced(c)
      BY <1>1, <1>2 DEF StatsOK, UpstreamBalanced, Tally, Missed
    <2>5. GitLabBalanced(c)
      BY <1>1, <1>2 DEF StatsOK, GitLabBalanced, Tally, Found
    <2> QED
      BY <2>1, <2>2, <2>3, <2>4, <2>5 DEF Balanced
  <1> QED
    BY <1>3, <1>4, <1>5, <1>6, <1>7, HandlerStep DEF ClientOK

(* Before the head, an error page can follow.                               *)
LEMMA OpenFailsInv ==
  ASSUME GatewayInv, NEW c \in Clients, OpenFails(c)
  PROVE  Kept(c)
  <1>1. PerClient /\ ClientOK(c)
    BY DEF GatewayInv
  <1>2. /\ pc[c] = "open"
        /\ \/ /\ Gone(c)
              /\ pc'[c] = "bad"
              /\ UNCHANGED <<phase[c], wants[c], source[c], target[c], wire[c], faults[c]>>
              /\ UNCHANGED stats
           \/ /\ pc'[c] = "bad"
              /\ faults'[c] = faults[c] \cup {target[c]}
              /\ UNCHANGED <<phase[c], wants[c], source[c], target[c], wire[c]>>
              /\ UNCHANGED stats
    BY <1>1 DEF OpenFails, Goto, Blame, Rest, clientVars, PerClient
  <1>3. /\ PerClient' /\ UNCHANGED <<mirrorVars, strategy, stamp, down, stored>>
        /\ \A d \in Clients \ {c} : Same(d)
    BY <1>1 DEF OpenFails, Goto, Blame, Rest, config, clientVars, PerClient, Same
  <1>4. TypedAt(c)' /\ HandlerPlaced(c)' /\ ReadyStays(c)'
    BY GatewayAssumption, <1>1, <1>2, <1>3 DEF ClientOK, TypedAt, HandlerPlaced,
                                               ReadyStays, Populated, Gone, mirrorVars,
                                               SeenReady, Serving
  <1>5. WirePlaced(c)' /\ AnswerWhole(c)'
    BY <1>1, <1>2 DEF ClientOK, WirePlaced, AnswerWhole, Unanswered
  <1>6. AdvertisedStays(c)' /\ Explained(c)'
    BY <1>1, <1>2, <1>3 DEF ClientOK, AdvertisedStays, Explained, Objects, Gone,
                            mirrorVars, Unanswered
  <1>7. Balanced(c)
    BY <1>1, <1>2 DEF ClientOK, HandlerPlaced, Balanced, ObservedBalanced,
                      DecidedBalanced, UpstreamBalanced, GitLabBalanced, StatsOK, Tally,
                      Running, Lost, Undecided, Missed, Found, Probing, SeenReady,
                      Resting, Serving
  <1> QED
    BY <1>3, <1>4, <1>5, <1>6, <1>7, HandlerStep DEF ClientOK

(* In the midst of a body the error page ends up inside it.                 *)
LEMMA StreamBreaksInv ==
  ASSUME GatewayInv, NEW c \in Clients, StreamBreaks(c)
  PROVE  Kept(c)
  <1>1. PerClient /\ ClientOK(c)
    BY DEF GatewayInv
  <1>2. /\ pc[c] \in {"stream", "refuse"}
        /\ \/ /\ Gone(c)
              /\ pc'[c] = "bad"
              /\ wire'[c] = <<"200", "part">>
              /\ UNCHANGED <<phase[c], wants[c], source[c], target[c], faults[c]>>
              /\ UNCHANGED stats
           \/ /\ pc'[c] = "bad"
              /\ wire'[c] = <<"200", "part">>
              /\ faults'[c] = faults[c] \cup {target[c]}
              /\ UNCHANGED <<phase[c], wants[c], source[c], target[c]>>
              /\ UNCHANGED stats
    BY <1>1, OnTheWire DEF StreamBreaks, Goto, Send, Blame, Gone, Rest, clientVars,
                           PerClient, ClientOK, WirePlaced, HandlerPlaced, Unanswered,
                           Serving, Probing, SeenReady, Missing
  <1>3. /\ PerClient' /\ UNCHANGED <<mirrorVars, strategy, stamp, down, stored>>
        /\ \A d \in Clients \ {c} : Same(d)
    BY <1>1 DEF StreamBreaks, Goto, Send, Blame, Rest, config, clientVars, PerClient, Same
  <1>4. TypedAt(c)' /\ HandlerPlaced(c)' /\ ReadyStays(c)'
    BY GatewayAssumption, <1>1, <1>2, <1>3 DEF ClientOK, TypedAt, HandlerPlaced,
                                               ReadyStays, Populated, Gone, mirrorVars,
                                               SeenReady, Serving
  <1>5. WirePlaced(c)' /\ AnswerWhole(c)'
    BY <1>1, <1>2 DEF WirePlaced, AnswerWhole, Gone, Unanswered, Probing, SeenReady,
                      Missing
  <1>6. AdvertisedStays(c)' /\ Explained(c)'
    BY <1>1, <1>2, <1>3 DEF ClientOK, AdvertisedStays, Explained, Objects, Gone,
                            mirrorVars, Unanswered, Probing, SeenReady, Missing
  <1>7. Balanced(c)
    BY <1>1, <1>2 DEF Balanced, ObservedBalanced, DecidedBalanced, UpstreamBalanced,
                      GitLabBalanced, StatsOK, Tally, Running, Lost, Undecided, Missed,
                      Found, Probing, SeenReady, Serving
  <1> QED
    BY <1>3, <1>4, <1>5, <1>6, <1>7, HandlerStep DEF ClientOK

(* The error page ends the request.                                         *)
LEMMA BadGatewayInv ==
  ASSUME GatewayInv, NEW c \in Clients, BadGateway(c)
  PROVE  Kept(c)
  <1>1. PerClient /\ ClientOK(c)
    BY DEF GatewayInv
  <1>2. /\ pc[c] = "bad"
        /\ \/ /\ pc'[c] = "over"
              /\ \/ wire[c] = <<>> /\ wire'[c] = <<"502", "text">>
                 \/ /\ faults[c] \cap {target[c], "gone"} # {}
                    /\ wire'[c] = <<"200", "part", "502", "text">>
              /\ UNCHANGED <<phase[c], wants[c], source[c], target[c], faults[c]>>
              /\ stats' = [stats EXCEPT !.observed = @ + 1]
           \/ /\ Gone(c)
              /\ pc'[c] = "died"
              /\ UNCHANGED <<phase[c], wants[c], source[c], target[c], wire[c], faults[c]>>
              /\ UNCHANGED stats
    <2>1. wire[c] = <<>> \/ (wire[c] = <<"200", "part">> /\ faults[c] \cap {target[c], "gone"} # {})
      BY <1>1 DEF BadGateway, ClientOK, WirePlaced
    <2>2. CASE Send(c, <<"502", "text">>) /\ Goto(c, "over") /\ Count("observed")
      <3>1. wire'[c] = wire[c] \o <<"502", "text">>
        BY <1>1, <2>2 DEF Send, PerClient
      <3>2. pc'[c] = "over" /\ UNCHANGED <<phase[c], wants[c], source[c], target[c], faults[c]>>
            /\ stats' = [stats EXCEPT !.observed = @ + 1]
        BY <1>1, <2>2 DEF BadGateway, Goto, Count, Rest, clientVars, PerClient
      <3>3. CASE wire[c] = <<>>
        BY <3>1, <3>2, <3>3, OnTheWire DEF BadGateway
      <3>4. CASE wire[c] = <<"200", "part">>
        BY <3>1, <3>2, <3>4, <2>1, OnTheWire DEF BadGateway
      <3> QED
        BY <2>1, <3>3, <3>4
    <2>3. CASE Gone(c) /\ Dies(c) /\ UNCHANGED <<wire, stats>>
      BY <1>1, <2>3 DEF BadGateway, Dies, Goto, Rest, clientVars, PerClient
    <2> QED
      BY <2>2, <2>3 DEF BadGateway, Reply
  <1>3. /\ PerClient' /\ UNCHANGED <<mirrorVars, strategy, stamp, down, stored>>
        /\ \A d \in Clients \ {c} : Same(d)
    BY <1>1 DEF BadGateway, Rest, config, clientVars, Reply, Goto, Send, Dies, PerClient,
                Same
  <1>4. TypedAt(c)' /\ HandlerPlaced(c)' /\ ReadyStays(c)'
    BY GatewayAssumption, <1>1, <1>2, <1>3 DEF ClientOK, TypedAt, HandlerPlaced,
                                               ReadyStays, Gone, SeenReady, Serving, Over
  <1>5. WirePlaced(c)' /\ AnswerWhole(c)'
    BY <1>1, <1>2 DEF WirePlaced, AnswerWhole, Replies, Gone, Unanswered, Probing,
                      SeenReady, Missing
  <1>6. AdvertisedStays(c)' /\ Explained(c)'
    BY <1>1, <1>2, <1>3 DEF ClientOK, AdvertisedStays, Explained, Objects, mirrorVars,
                            Unanswered, Probing, SeenReady, Missing
  <1>7. Balanced(c)
    <2> SUFFICES ASSUME StatsOK PROVE Balanced(c)
      BY DEF Balanced
    <2>1. StatsOK'
      BY <1>1, <1>2 DEF StatsOK
    <2>2. ObservedBalanced(c)
      BY <1>1, <1>2 DEF StatsOK, ClientOK, HandlerPlaced, ObservedBalanced, Tally,
                        Running, Lost, Resting, Selecting, Serving
    <2>3. DecidedBalanced(c)
      BY <1>1, <1>2 DEF StatsOK, DecidedBalanced, Tally, Undecided, Probing, SeenReady
    <2>4. UpstreamBalanced(c)
      BY <1>1, <1>2 DEF StatsOK, UpstreamBalanced, Tally, Missed
    <2>5. GitLabBalanced(c)
      BY <1>1, <1>2 DEF StatsOK, GitLabBalanced, Tally, Found
    <2> QED
      BY <2>1, <2>2, <2>3, <2>4, <2>5 DEF Balanced
  <1> QED
    BY <1>3, <1>4, <1>5, <1>6, <1>7, HandlerStep DEF ClientOK

(* Git goes on by itself after a redirect.                                  *)
LEMMA DirectInv ==
  ASSUME GatewayInv, NEW c \in Clients, Direct(c)
  PROVE  Kept(c)
  <1>1. PerClient /\ ClientOK(c)
    BY DEF GatewayInv
  <1>2. /\ phase[c] = "direct"
        /\ phase'[c] = "done"
        /\ UNCHANGED <<wants[c], source[c], pc[c], target[c], wire[c], faults[c]>>
        /\ UNCHANGED stats
    BY <1>1 DEF Direct, PerClient
  <1>3. /\ PerClient' /\ UNCHANGED <<mirrorVars, strategy, stamp, down, stored>>
        /\ \A d \in Clients \ {c} : Same(d)
    BY <1>1 DEF Direct, config, PerClient, Same
  <1>4. TypedAt(c)' /\ HandlerPlaced(c)' /\ ReadyStays(c)'
    BY GatewayAssumption, <1>1, <1>2, <1>3 DEF ClientOK, TypedAt, HandlerPlaced,
                                               ReadyStays, SeenReady, Resting, Serving,
                                               Ended
  <1>5. WirePlaced(c)' /\ AnswerWhole(c)'
    BY <1>1, <1>2 DEF ClientOK, WirePlaced, AnswerWhole, Gone
  <1>6. AdvertisedStays(c)' /\ Explained(c)'
    BY <1>1, <1>2, <1>3 DEF ClientOK, AdvertisedStays, Explained
  <1>7. Balanced(c)
    <2> SUFFICES ASSUME StatsOK PROVE Balanced(c)
      BY DEF Balanced
    <2>1. StatsOK'
      BY <1>1, <1>2 DEF StatsOK
    <2>2. ObservedBalanced(c)
      BY <1>1, <1>2 DEF StatsOK, ObservedBalanced, Tally, Running, Lost
    <2>3. DecidedBalanced(c)
      BY <1>1, <1>2 DEF StatsOK, DecidedBalanced, Tally, Undecided
    <2>4. UpstreamBalanced(c)
      BY <1>1, <1>2 DEF StatsOK, UpstreamBalanced, Tally, Missed
    <2>5. GitLabBalanced(c)
      BY <1>1, <1>2 DEF StatsOK, GitLabBalanced, Tally, Found
    <2> QED
      BY <2>1, <2>2, <2>3, <2>4, <2>5 DEF Balanced
  <1> QED
    BY <1>3, <1>4, <1>5, <1>6, <1>7, HandlerStep DEF ClientOK

(* Whatever fails there is a fault of the server.                           *)
LEMMA DirectFailsInv ==
  ASSUME GatewayInv, NEW c \in Clients, DirectFails(c)
  PROVE  Kept(c)
  <1>1. PerClient /\ ClientOK(c)
    BY DEF GatewayInv
  <1>2. /\ phase[c] = "direct"
        /\ phase'[c] = "failed"
        /\ faults'[c] = faults[c] \cup {target[c]}
        /\ UNCHANGED <<wants[c], source[c], pc[c], target[c], wire[c]>>
        /\ UNCHANGED stats
    BY <1>1 DEF DirectFails, Blame, PerClient
  <1>3. /\ PerClient' /\ UNCHANGED <<mirrorVars, strategy, stamp, down, stored>>
        /\ \A d \in Clients \ {c} : Same(d)
    BY <1>1 DEF DirectFails, Blame, config, PerClient, Same
  <1>4. TypedAt(c)' /\ HandlerPlaced(c)' /\ ReadyStays(c)'
    BY GatewayAssumption, <1>1, <1>2, <1>3 DEF ClientOK, TypedAt, HandlerPlaced,
                                               ReadyStays, SeenReady, Resting, Serving,
                                               Ended
  <1>5. WirePlaced(c)' /\ AnswerWhole(c)'
    BY <1>1, <1>2 DEF ClientOK, WirePlaced, AnswerWhole, Gone
  <1>6. AdvertisedStays(c)' /\ Explained(c)'
    BY <1>1, <1>2, <1>3 DEF AdvertisedStays, Explained
  <1>7. Balanced(c)
    <2> SUFFICES ASSUME StatsOK PROVE Balanced(c)
      BY DEF Balanced
    <2>1. StatsOK'
      BY <1>1, <1>2 DEF StatsOK
    <2>2. ObservedBalanced(c)
      BY <1>1, <1>2 DEF StatsOK, ObservedBalanced, Tally, Running, Lost
    <2>3. DecidedBalanced(c)
      BY <1>1, <1>2 DEF StatsOK, DecidedBalanced, Tally, Undecided
    <2>4. UpstreamBalanced(c)
      BY <1>1, <1>2 DEF StatsOK, UpstreamBalanced, Tally, Missed
    <2>5. GitLabBalanced(c)
      BY <1>1, <1>2 DEF StatsOK, GitLabBalanced, Tally, Found
    <2> QED
      BY <2>1, <2>2, <2>3, <2>4, <2>5 DEF Balanced
  <1> QED
    BY <1>3, <1>4, <1>5, <1>6, <1>7, HandlerStep DEF ClientOK

(* A client that hangs up is not waited for.                                *)
LEMMA HangUpInv ==
  ASSUME GatewayInv, NEW c \in Clients, HangUp(c)
  PROVE  Kept(c)
  <1>1. PerClient /\ ClientOK(c)
    BY DEF GatewayInv
  <1>2. /\ phase[c] \in {"page", "refs", "pack"}
        /\ phase'[c] = "quit"
        /\ faults'[c] = faults[c] \cup {"gone"}
        /\ UNCHANGED <<wants[c], source[c], pc[c], target[c], wire[c]>>
        /\ UNCHANGED stats
    BY <1>1 DEF HangUp, Blame, PerClient
  <1>3. /\ PerClient' /\ UNCHANGED <<mirrorVars, strategy, stamp, down, stored>>
        /\ \A d \in Clients \ {c} : Same(d)
    BY <1>1 DEF HangUp, Blame, config, PerClient, Same
  <1>4. TypedAt(c)' /\ HandlerPlaced(c)' /\ ReadyStays(c)'
    BY GatewayAssumption, <1>1, <1>2, <1>3 DEF ClientOK, TypedAt, HandlerPlaced,
                                               ReadyStays, Populated, Gone, mirrorVars,
                                               Resting, Ended
  <1>5. WirePlaced(c)' /\ AnswerWhole(c)'
    BY <1>1, <1>2 DEF ClientOK, WirePlaced, AnswerWhole, Gone
  <1>6. AdvertisedStays(c)' /\ Explained(c)'
    BY <1>1, <1>2, <1>3 DEF AdvertisedStays, Explained
  <1>7. Balanced(c)
    <2> SUFFICES ASSUME StatsOK PROVE Balanced(c)
      BY DEF Balanced
    <2>1. StatsOK'
      BY <1>1, <1>2 DEF StatsOK
    <2>2. ObservedBalanced(c)
      BY <1>1, <1>2 DEF StatsOK, ObservedBalanced, Tally, Running, Lost
    <2>3. DecidedBalanced(c)
      BY <1>1, <1>2 DEF StatsOK, DecidedBalanced, Tally, Undecided
    <2>4. UpstreamBalanced(c)
      BY <1>1, <1>2 DEF StatsOK, UpstreamBalanced, Tally, Missed
    <2>5. GitLabBalanced(c)
      BY <1>1, <1>2 DEF StatsOK, GitLabBalanced, Tally, Found
    <2> QED
      BY <2>1, <2>2, <2>3, <2>4, <2>5 DEF Balanced
  <1> QED
    BY <1>3, <1>4, <1>5, <1>6, <1>7, HandlerStep DEF ClientOK


(* What a client makes of what it has received.                             *)
LEMMA ReceiveInv ==
  ASSUME GatewayInv, NEW c \in Clients, Receive(c)
  PROVE  Kept(c)
  <1>1. PerClient /\ ClientOK(c)
    BY DEF GatewayInv
  <1>2. /\ pc[c] \in {"over", "died"} /\ ~Gone(c)
        /\ pc'[c] = "none" /\ wire'[c] = <<>>
        /\ source'[c] = IF phase[c] = "refs" THEN target[c] ELSE source[c]
        /\ UNCHANGED <<wants[c], target[c], faults[c], stats>>
    BY <1>1 DEF Receive, Goto, PerClient
  <1>3. /\ PerClient' /\ UNCHANGED <<mirrorVars, strategy, stamp, down, stored>>
        /\ \A d \in Clients \ {c} : Same(d)
    <2>1. \E to : phase' = [phase EXCEPT ![c] = to]
      BY DEF Receive
    <2>2. \E from : source' = [source EXCEPT ![c] = from]
      BY DEF Receive
    <2>3. /\ pc' = [pc EXCEPT ![c] = "none"] /\ wire' = [wire EXCEPT ![c] = <<>>]
          /\ UNCHANGED <<mirrorVars, strategy, stamp, down, stored, wants, target, faults>>
      BY DEF Receive, Goto, config
    <2>4. PerClient'
      BY <1>1, <2>1, <2>2, <2>3 DEF PerClient
    <2> QED
      BY <1>1, <2>1, <2>2, <2>3, <2>4 DEF Same
  <1>4. phase[c] \in {"page", "refs", "pack"}
    BY <1>1, <1>2 DEF ClientOK, TypedAt, HandlerPlaced, Resting, Ended
  <1>5. phase'[c] = CASE pc[c] = "died"                        -> "reset"
                      [] Whole(wire[c]) /\ phase[c] = "refs"   -> "advertised"
                      [] Whole(wire[c]) /\ phase[c] = "pack"   -> "done"
                      [] phase[c] = "page"                     -> "done"
                      [] wire[c] = <<"307">>                   -> "direct"
                      [] OTHER                                 -> "failed"
    BY <1>1 DEF Receive, PerClient
  <1>6. phase'[c] \in {"reset", "advertised", "done", "direct", "failed"}
    BY <1>5
  <1>7. phase'[c] = "advertised" => phase[c] = "refs" /\ pc[c] = "over"
    <2>1. pc[c] = "died" => ~Whole(wire[c])
      <3>1. pc[c] = "died" => wire[c] \in {<<>>, <<"4xx">>}
        BY <1>1, <1>2 DEF ClientOK, AnswerWhole
      <3> QED
        BY <3>1 DEF Whole
    <2> QED
      BY <1>2, <1>4, <1>5, <2>1
  <1>8. phase'[c] = "reset" => pc[c] = "died"
    BY <1>2, <1>4, <1>5
  <1>9. phase'[c] = "failed" =>
          /\ pc[c] = "over" /\ phase[c] \in {"refs", "pack"}
          /\ wire[c] \notin {<<"200", "whole">>, <<"307">>}
    BY <1>2, <1>4, <1>5 DEF Whole
  <1>10. TypedAt(c)' /\ HandlerPlaced(c)' /\ ReadyStays(c)'
    BY <1>1, <1>2, <1>6 DEF ClientOK, TypedAt, HandlerPlaced, ReadyStays, Serving,
                            SeenReady, Ended
  <1>11. WirePlaced(c)' /\ AnswerWhole(c)'
    BY <1>2 DEF WirePlaced, AnswerWhole
  <1>12. AdvertisedStays(c)'
    <2>1. phase'[c] = "advertised" => target[c] \in Targets /\ wants[c] \subseteq Objects(target[c])
      BY <1>1, <1>7 DEF ClientOK, HandlerPlaced, AdvertisedStays
    <2>2. Objects(target[c])' = Objects(target[c])
      BY <1>2, <1>3 DEF Objects, mirrorVars
    <2>3. phase'[c] = "advertised" => source'[c] = target'[c]
      BY <1>2, <1>7
    <2> QED
      BY <1>2, <1>6, <2>1, <2>2, <2>3 DEF AdvertisedStays
  <1>13. Explained(c)'
    <2>1. faults[c] = {} => phase'[c] # "reset"
      BY <1>1, <1>8 DEF ClientOK, Explained
    <2>2. faults[c] = {} /\ phase'[c] = "failed" => phase[c] = "pack" /\ TwoTargets(c)
      BY <1>1, <1>9 DEF ClientOK, Explained
    <2>3. phase[c] = "pack" /\ TwoTargets(c) => TwoTargets(c)'
      BY <1>2 DEF TwoTargets
    <2> QED
      BY <1>2, <2>1, <2>2, <2>3 DEF Explained
  <1>14. Balanced(c)
    <2>1. phase'[c] = "reset" <=> pc[c] = "died"
      <3>1. pc[c] = "died" => wire[c] \in {<<>>, <<"4xx">>} /\ phase[c] # "page"
        BY <1>1, <1>2 DEF ClientOK, AnswerWhole, HandlerPlaced
      <3>2. pc[c] = "died" => ~Whole(wire[c]) /\ wire[c] # <<"307">>
        BY <3>1 DEF Whole
      <3>3. pc[c] = "died" => phase'[c] = "reset"
        BY <1>5, <3>1, <3>2
      <3> QED
        BY <1>8, <3>3
    <2> SUFFICES ASSUME StatsOK PROVE Balanced(c)
      BY DEF Balanced
    <2>2. StatsOK'
      BY <1>2 DEF StatsOK
    <2>3. ObservedBalanced(c)
      BY <1>2, <1>4, <2>1 DEF StatsOK, ObservedBalanced, Tally, Running, Lost, Selecting, Serving
    <2>4. DecidedBalanced(c)
      BY <1>2 DEF StatsOK, DecidedBalanced, Tally, Undecided, Probing, SeenReady
    <2>5. UpstreamBalanced(c)
      BY <1>2 DEF StatsOK, UpstreamBalanced, Tally, Missed
    <2>6. GitLabBalanced(c)
      BY <1>2 DEF StatsOK, GitLabBalanced, Tally, Found
    <2> QED
      BY <2>2, <2>3, <2>4, <2>5, <2>6 DEF Balanced
  <1> QED
    BY <1>3, <1>10, <1>11, <1>12, <1>13, <1>14, HandlerStep DEF ClientOK

-----------------------------------------------------------------------------
(* The mirror and the files around it move. *)

(* A mirror that has refs keeps some, and both servers keep what they had.  *)
LEMMA MirrorKeeps ==
  ASSUME MirrorPlaced, MirrorNext, stored' = stored \cup Tips(gl')
  PROVE  /\ Populated => Populated'
         /\ \A r \in Refs : past[r] \subseteq past'[r]
  <1>1. Populated => Populated'
    <2>1. CASE UpstreamMoves
      BY <2>1 DEF UpstreamMoves, Populated
    <2>2. CASE ProjectAppears
      BY <2>2 DEF MirrorPlaced, ProjectAppears, Populated
    <2>3. CASE RefsMove
      BY <2>3 DEF RefsMove, Populated
    <2> QED
      BY <2>1, <2>2, <2>3 DEF MirrorNext
  <1>2. \A r \in Refs : past[r] \subseteq past'[r]
    BY DEF MirrorNext, MirrorPlaced, UpstreamMoves, ProjectAppears, RefsMove
  <1> QED
    BY <1>1, <1>2

(* What is stored is what GitLab has shown: states of the upstream, and its *)
(* own commit.                                                              *)
LEMMA StoredPlaced ==
  ASSUME MirrorPlaced, MirrorNext, stored' = stored \cup Tips(gl')
  PROVE  /\ Tips(gl)' \subseteq stored'
         /\ stored' \subseteq UpstreamTips' \cup {<<DefaultRef, Readme>>}
  <1>1. Tips(gl)' = Tips(gl')
    OBVIOUS
  <1>2. UpstreamTips \subseteq UpstreamTips'
    BY MirrorKeeps DEF UpstreamTips, Objects
  <1>3. \A r \in Refs : gl'[r] # 0 =>
          \/ gl'[r] = gl[r]
          \/ gl'[r] \in past[r] \ {0}
          \/ r = DefaultRef /\ gl'[r] = Readme
    BY DEF MirrorNext, MirrorPlaced, UpstreamMoves, ProjectAppears, RefsMove
  <1>4. \A r \in Refs : gl'[r] # 0 => <<r, gl'[r]>> \in stored \cup UpstreamTips \cup {<<DefaultRef, Readme>>}
    BY <1>3 DEF MirrorPlaced, UpstreamTips, Objects, Tips
  <1>5. Tips(gl') \subseteq stored \cup UpstreamTips \cup {<<DefaultRef, Readme>>}
    BY <1>4 DEF Tips
  <1> QED
    BY <1>1, <1>2, <1>5 DEF MirrorPlaced

(* The mirror moves as ServedMirror allows.                                 *)
LEMMA MirrorMovesInv ==
  ASSUME GatewayInv, MirrorMoves
  PROVE  GatewayInv'
  <1>1. MirrorPlaced /\ MirrorNext /\ stored' = stored \cup Tips(gl')
    BY DEF GatewayInv, MirrorMoves
  <1>2. MirrorPlaced'
    <2>1. CASE UpstreamMoves
      <3>1. /\ now' \in 1 .. MaxChange
            /\ up' \in [Refs -> 0 .. MaxChange]
            /\ past' \in [Refs -> SUBSET (0 .. MaxChange)]
        BY <1>1, <2>1, GatewayAssumption DEF MirrorPlaced, UpstreamMoves
      <3>2. \A r \in Refs : up'[r] \in past'[r]
        BY <1>1, <2>1 DEF MirrorPlaced, UpstreamMoves
      <3> QED
        BY <1>1, <2>1, <3>1, <3>2, StoredPlaced DEF MirrorPlaced, UpstreamMoves, MirrorMoves
    <2>2. CASE ProjectAppears
      BY <1>1, <2>2, GatewayAssumption, StoredPlaced
         DEF MirrorPlaced, ProjectAppears, MirrorMoves, Values
    <2>3. CASE RefsMove
      <3>1. gl' \in [Refs -> Values]
        BY <1>1, <2>3, GatewayAssumption DEF MirrorPlaced, RefsMove, Values
      <3> QED
        BY <1>1, <2>3, <3>1, StoredPlaced DEF MirrorPlaced, RefsMove, MirrorMoves
    <2> QED
      BY <1>1, <2>1, <2>2, <2>3 DEF MirrorNext
  <1>3. PerClient'
    BY DEF GatewayInv, PerClient, MirrorMoves, clientVars
  <1>4. ASSUME NEW c \in Clients
        PROVE  ClientOK(c)'
    <2>1. ClientOK(c) /\ Same(c)
      BY DEF GatewayInv, MirrorMoves, clientVars, Same
    <2>2. TypedAt(c)' /\ HandlerPlaced(c)' /\ WirePlaced(c)' /\ AnswerWhole(c)' /\ Explained(c)'
      BY <2>1 DEF ClientOK, Same, TypedAt, HandlerPlaced, WirePlaced, AnswerWhole, Explained,
                  Gone, TwoTargets
    <2>3. ReadyStays(c)'
      BY <1>1, <2>1, MirrorKeeps DEF ClientOK, Same, ReadyStays
    <2>4. AdvertisedStays(c)'
      BY <1>1, <2>1, MirrorKeeps DEF ClientOK, Same, AdvertisedStays, Objects
    <2> QED
      BY <2>2, <2>3, <2>4 DEF ClientOK
  <1> QED
    BY <1>2, <1>3, <1>4 DEF GatewayInv

(* The stamp and the scheduler move, or nothing does.                       *)
LEMMA AroundInv ==
  ASSUME GatewayInv, StampMoves \/ Shutdown \/ UNCHANGED vars
  PROVE  GatewayInv'
  <1>1. PerClient' /\ UNCHANGED <<mirrorVars, stored>> /\ \A c \in Clients : Same(c)
    BY DEF GatewayInv, PerClient, StampMoves, Shutdown, vars, clientVars, Same
  <1>2. stamp' \in {"none", "young", "old"} /\ down' \in BOOLEAN
    BY DEF GatewayInv, MirrorPlaced, StampMoves, Shutdown, vars
  <1>3. MirrorPlaced'
    BY <1>1, <1>2 DEF GatewayInv, MirrorPlaced, UpstreamTips, Objects, mirrorVars
  <1>4. ASSUME NEW c \in Clients
        PROVE  ClientOK(c)'
    <2>1. ClientOK(c) /\ Same(c)
      BY <1>1 DEF GatewayInv
    <2>2. TypedAt(c)' /\ HandlerPlaced(c)' /\ ReadyStays(c)'
      BY <1>1, <2>1 DEF ClientOK, Same, TypedAt, HandlerPlaced, ReadyStays, Gone, Populated,
                        mirrorVars
    <2>3. WirePlaced(c)' /\ AnswerWhole(c)'
      BY <2>1 DEF ClientOK, Same, WirePlaced, AnswerWhole, Gone
    <2>4. AdvertisedStays(c)' /\ Explained(c)'
      BY <1>1, <2>1 DEF ClientOK, Same, AdvertisedStays, Explained, TwoTargets, Objects,
                        mirrorVars
    <2> QED
      BY <2>2, <2>3, <2>4 DEF ClientOK
  <1> QED
    BY <1>1, <1>3, <1>4 DEF GatewayInv

-----------------------------------------------------------------------------
(* The invariant holds. *)

(* Nobody has asked for anything and nothing is mirrored.                   *)
LEMMA InitInv == Init => GatewayInv
  <1> SUFFICES ASSUME Init PROVE GatewayInv
    OBVIOUS
  <1>1. PerClient
    BY DEF Init, PerClient
  <1>2. MirrorPlaced
    <2>1. /\ now \in 1 .. MaxChange
          /\ up \in [Refs -> 0 .. MaxChange]
          /\ past \in [Refs -> SUBSET (0 .. MaxChange)]
          /\ gl \in [Refs -> Values]
      BY GatewayAssumption DEF Init, MirrorInit, Values
    <2>2. stored = {} /\ Tips(gl) = {}
      BY DEF Init, MirrorInit, Tips
    <2> QED
      BY <2>1, <2>2 DEF Init, MirrorInit, MirrorPlaced
  <1>3. ASSUME NEW c \in Clients
        PROVE  ClientOK(c)
    <2>1. TypedAt(c) /\ HandlerPlaced(c) /\ ReadyStays(c)
      BY DEF Init, TypedAt, HandlerPlaced, ReadyStays, Serving, SeenReady
    <2>2. WirePlaced(c) /\ AnswerWhole(c)
      BY DEF Init, WirePlaced, AnswerWhole
    <2>3. AdvertisedStays(c) /\ Explained(c)
      BY DEF Init, AdvertisedStays, Explained
    <2> QED
      BY <2>1, <2>2, <2>3 DEF ClientOK
  <1> QED
    BY <1>1, <1>2, <1>3 DEF GatewayInv

(* What a step of a client does is in the lemmas above.                     *)
ClientNext(c) ==
  \/ Request(c) \/ RequestPage(c) \/ Page(c) \/ ReadProject(c) \/ ReadRefs(c)
  \/ StampExists(c) \/ StampStat(c) \/ SubmitRefresh(c)
  \/ CountHit(c) \/ CountMiss(c) \/ Ensure(c) \/ EnsureFails(c) \/ SubmitMiss(c)
  \/ Redirect(c) \/ TooLarge(c) \/ Proxy(c)
  \/ Opened(c) \/ Streamed(c) \/ HttpError(c) \/ ErrorBody(c) \/ ErrorBodyBreaks(c)
  \/ OpenFails(c) \/ StreamBreaks(c) \/ BadGateway(c)
  \/ Receive(c) \/ Direct(c) \/ DirectFails(c) \/ HangUp(c)

LEMMA ClientKeeps ==
  ASSUME GatewayInv, NEW c \in Clients, ClientNext(c)
  PROVE  Kept(c)
  BY RequestInv, RequestPageInv, PageInv, ReadProjectInv, ReadRefsInv, StampExistsInv,
     StampStatInv, SubmitRefreshInv, CountHitInv, CountMissInv, EnsureInv, EnsureFailsInv,
     SubmitMissInv, RedirectInv, TooLargeInv, ProxyInv, OpenedInv, StreamedInv,
     HttpErrorInv, ErrorBodyInv, ErrorBodyBreaksInv, OpenFailsInv, StreamBreaksInv,
     BadGatewayInv, ReceiveInv, DirectInv, DirectFailsInv, HangUpInv
  DEF ClientNext

LEMMA Steps ==
  [Next]_vars <=> \/ \E c \in Clients : ClientNext(c)
                  \/ MirrorMoves
                  \/ StampMoves \/ Shutdown \/ UNCHANGED vars
  BY DEF Next, ClientNext

(* Every step keeps the invariant.                                          *)
LEMMA NextInv == GatewayInv /\ [Next]_vars => GatewayInv'
  <1> SUFFICES ASSUME GatewayInv, [Next]_vars PROVE GatewayInv'
    OBVIOUS
  <1>1. ASSUME NEW c \in Clients, ClientNext(c)
        PROVE  GatewayInv'
    BY <1>1, ClientKeeps DEF Kept
  <1>2. CASE MirrorMoves
    BY <1>2, MirrorMovesInv
  <1>3. CASE StampMoves \/ Shutdown \/ UNCHANGED vars
    BY <1>3, AroundInv
  <1> QED
    BY <1>1, <1>2, <1>3, Steps

(* The invariant holds in every state: what each handler has on the wire,   *)
(* what it has seen of the mirror and what its client was advertised fit    *)
(* together.                                                                *)
THEOREM Invariant == Spec => []GatewayInv
  <1>1. Init => GatewayInv
    BY InitInv
  <1>2. GatewayInv /\ [Next]_vars => GatewayInv'
    BY NextInv
  <1> QED
    BY <1>1, <1>2, PTL DEF Spec

(* The state of every client and of its handler has its type; a handler     *)
(* that serves has a target.                                                *)
THEOREM TypeCorrect == Spec => []TypeOK
  <1>1. GatewayInv => TypeOK
    <2> SUFFICES ASSUME GatewayInv PROVE TypeOK
      OBVIOUS
    <2>1. stored \subseteq Refs \X Values
      BY GatewayAssumption DEF GatewayInv, MirrorPlaced, UpstreamTips, Objects, Values
    <2>2. PerClient /\ \A c \in Clients : TypedAt(c) /\ HandlerPlaced(c)
      BY DEF GatewayInv, ClientOK
    <2>3. stamp \in {"none", "young", "old"} /\ down \in BOOLEAN
      BY DEF GatewayInv, MirrorPlaced
    <2> QED
      BY <2>1, <2>2, <2>3 DEF TypeOK, PerClient, TypedAt, HandlerPlaced, Values
  <1> QED
    BY <1>1, Invariant, PTL

(* Readiness that was checked before still holds when GitLab is asked,      *)
(* whatever jobs, the upstream and other requests have done since.          *)
THEOREM ReadyWhenServed == Spec => []GitLabOnlyWhenPopulated
  <1>1. GatewayInv => GitLabOnlyWhenPopulated
    BY DEF GatewayInv, ClientOK, ReadyStays, GitLabOnlyWhenPopulated
  <1> QED
    BY <1>1, Invariant, PTL

(* Whatever breaks, a request is answered by one head and its body, but for *)
(* the cases that are named.                                                *)
THEOREM AnswersWhole == Spec => []AnswersAreWhole
  <1>1. GatewayInv => AnswersAreWhole
    BY DEF GatewayInv, ClientOK, AnswerWhole, Replies, AnswersAreWhole
  <1> QED
    BY <1>1, Invariant, PTL

(* A fetch that nothing disturbed fails only between two targets that do    *)
(* not have the same.                                                       *)
THEOREM FailuresExplained == Spec => []FetchFailsOnlyWithReason
  <1>1. GatewayInv => FetchFailsOnlyWithReason
    BY DEF GatewayInv, ClientOK, Explained, TwoTargets, FetchFailsOnlyWithReason
  <1> QED
    BY <1>1, Invariant, PTL

-----------------------------------------------------------------------------
(* The counters. *)

(* A set that only c joins or leaves grows or shrinks by one.               *)
LEMMA WithoutOne ==
  ASSUME NEW c \in Clients, NEW S \in SUBSET Clients
  PROVE  /\ Cardinality(S) \in Nat /\ Cardinality(S \ {c}) \in Nat
         /\ Cardinality(S) = Cardinality(S \ {c}) + Tally(c, S)
  <1>1. IsFiniteSet(S) /\ IsFiniteSet(S \ {c})
    BY GatewayAssumption, FS_Subset
  <1>2. Cardinality(S) \in Nat /\ Cardinality(S \ {c}) \in Nat
    BY <1>1, FS_CardinalityType
  <1>3. CASE c \in S
    <2>1. Cardinality(S \ {c}) = Cardinality(S) - 1
      BY <1>1, <1>3, FS_RemoveElement
    <2> QED
      BY <1>2, <1>3, <2>1 DEF Tally
  <1>4. CASE c \notin S
    <2>1. S \ {c} = S
      BY <1>4
    <2> QED
      BY <1>2, <1>4, <2>1 DEF Tally
  <1> QED
    BY <1>2, <1>3, <1>4

LEMMA JoinOrLeave ==
  ASSUME NEW c \in Clients, NEW S \in SUBSET Clients, NEW T \in SUBSET Clients,
         \A d \in Clients \ {c} : d \in S <=> d \in T
  PROVE  /\ Cardinality(S) \in Nat /\ Cardinality(T) \in Nat
         /\ Cardinality(T) - Cardinality(S) = Tally(c, T) - Tally(c, S)
  <1>1. S \ {c} = T \ {c}
    OBVIOUS
  <1>2. Tally(c, S) \in Nat /\ Tally(c, T) \in Nat
    BY DEF Tally
  <1>3. /\ Cardinality(S) \in Nat /\ Cardinality(S \ {c}) \in Nat
        /\ Cardinality(S) = Cardinality(S \ {c}) + Tally(c, S)
    BY WithoutOne
  <1>4. Cardinality(T) \in Nat /\ Cardinality(T) = Cardinality(S \ {c}) + Tally(c, T)
    BY <1>1, WithoutOne
  <1> QED
    BY <1>2, <1>3, <1>4

(* A balanced step of one client keeps the counters in agreement.           *)
LEMMA CountersStep ==
  ASSUME CountersInv, NEW c \in Clients, Kept(c)
  PROVE  CountersInv'
  <1>1. \A d \in Clients \ {c} : Same(d)
    BY DEF Kept
  <1>2. /\ StatsOK /\ StatsOK' /\ ObservedBalanced(c) /\ DecidedBalanced(c)
        /\ UpstreamBalanced(c) /\ GitLabBalanced(c) /\ strategy' = strategy
    BY DEF CountersInv, Kept, Balanced
  <1>3. /\ \A d \in Clients \ {c} : d \in Running <=> d \in Running'
        /\ \A d \in Clients \ {c} : d \in Lost <=> d \in Lost'
        /\ \A d \in Clients \ {c} : d \in Undecided <=> d \in Undecided'
        /\ \A d \in Clients \ {c} : d \in Missed <=> d \in Missed'
        /\ \A d \in Clients \ {c} : d \in Found <=> d \in Found'
    BY <1>1 DEF Same, Running, Lost, Undecided, Missed, Found
  <1>4. /\ Running \in SUBSET Clients /\ Running' \in SUBSET Clients
        /\ Lost \in SUBSET Clients /\ Lost' \in SUBSET Clients
        /\ Undecided \in SUBSET Clients /\ Undecided' \in SUBSET Clients
        /\ Missed \in SUBSET Clients /\ Missed' \in SUBSET Clients
        /\ Found \in SUBSET Clients /\ Found' \in SUBSET Clients
    BY DEF Running, Lost, Undecided, Missed, Found
  <1>5. \A S : Tally(c, S) \in Int
    BY DEF Tally
  <1>6. stats'.requests = stats'.observed + Cardinality(Running') + Cardinality(Lost')
    <2>1. /\ Cardinality(Running) \in Nat /\ Cardinality(Running') \in Nat
          /\ Cardinality(Running') - Cardinality(Running) = Tally(c, Running') - Tally(c, Running)
      BY <1>3, <1>4, JoinOrLeave
    <2>2. /\ Cardinality(Lost) \in Nat /\ Cardinality(Lost') \in Nat
          /\ Cardinality(Lost') - Cardinality(Lost) = Tally(c, Lost') - Tally(c, Lost)
      BY <1>3, <1>4, JoinOrLeave
    <2>3. /\ stats.requests = stats.observed + Cardinality(Running) + Cardinality(Lost)
          /\ stats.requests \in Nat /\ stats.observed \in Nat
          /\ stats'.requests \in Nat /\ stats'.observed \in Nat
      BY <1>2 DEF CountersInv, StatsOK
    <2>4. stats'.requests - stats.requests =
            stats'.observed - stats.observed + Tally(c, Running') - Tally(c, Running)
                                             + Tally(c, Lost') - Tally(c, Lost)
      BY <1>2 DEF ObservedBalanced
    <2> QED
      BY <1>5, <2>1, <2>2, <2>3, <2>4
  <1>7. stats'.hits + stats'.misses + Cardinality(Undecided') <= stats'.requests
    <2>1. /\ Cardinality(Undecided) \in Nat /\ Cardinality(Undecided') \in Nat
          /\ Cardinality(Undecided') - Cardinality(Undecided)
               = Tally(c, Undecided') - Tally(c, Undecided)
      BY <1>3, <1>4, JoinOrLeave
    <2> QED
      BY <1>2, <1>5, <2>1 DEF CountersInv, DecidedBalanced, StatsOK
  <1>8. stats'.upstream + Cardinality(Missed') <= stats'.misses
    <2>1. /\ Cardinality(Missed) \in Nat /\ Cardinality(Missed') \in Nat
          /\ Cardinality(Missed') - Cardinality(Missed) = Tally(c, Missed') - Tally(c, Missed)
      BY <1>3, <1>4, JoinOrLeave
    <2> QED
      BY <1>2, <1>5, <2>1 DEF CountersInv, UpstreamBalanced, StatsOK
  <1>9. ASSUME strategy = "proxy_upstream"
        PROVE  /\ \A d \in Clients : pc'[d] # "ensure"
               /\ stats'.gitlab + Cardinality(Found') <= stats'.hits
    <2>1. /\ Cardinality(Found) \in Nat /\ Cardinality(Found') \in Nat
          /\ Cardinality(Found') - Cardinality(Found) = Tally(c, Found') - Tally(c, Found)
      BY <1>3, <1>4, JoinOrLeave
    <2>2. \A d \in Clients : pc[d] # "ensure"
      BY <1>9 DEF CountersInv
    <2>3. \A d \in Clients : pc'[d] # "ensure"
      BY <1>1, <1>2, <1>9, <2>2 DEF GitLabBalanced, Same
    <2>4. stats.gitlab + Cardinality(Found) <= stats.hits
      BY <1>9 DEF CountersInv
    <2>5. stats'.gitlab - stats.gitlab + Tally(c, Found') - Tally(c, Found)
            <= stats'.hits - stats.hits
      BY <1>2, <1>9, <2>2 DEF GitLabBalanced
    <2>6. stats'.gitlab + Cardinality(Found') <= stats'.hits
      BY <1>2, <1>5, <2>1, <2>4, <2>5 DEF StatsOK
    <2> QED
      BY <2>3, <2>6
  <1> QED
    BY <1>2, <1>6, <1>7, <1>8, <1>9 DEF CountersInv

(* Nothing else counts.                                                     *)
LEMMA CountersAround ==
  ASSUME CountersInv, MirrorMoves \/ StampMoves \/ Shutdown \/ UNCHANGED vars
  PROVE  CountersInv'
  <1>1. UNCHANGED <<stats, strategy, phase, pc, target>>
    BY DEF MirrorMoves, StampMoves, Shutdown, vars, config, clientVars
  <1>2. UNCHANGED <<Running, Lost, Undecided, Missed, Found>>
    BY <1>1 DEF Running, Lost, Undecided, Missed, Found
  <1> QED
    BY <1>1, <1>2 DEF CountersInv, StatsOK

LEMMA CountersInit == Init => CountersInv
  <1> SUFFICES ASSUME Init PROVE CountersInv
    OBVIOUS
  <1>1. /\ Running = {} /\ Lost = {} /\ Undecided = {} /\ Missed = {} /\ Found = {}
    BY DEF Init, Running, Lost, Undecided, Missed, Found, Selecting, Serving, Probing, SeenReady
  <1>2. Cardinality({}) = 0
    BY FS_EmptySet
  <1>3. StatsOK
    BY DEF Init, StatsOK
  <1>4. \A c \in Clients : pc[c] # "ensure"
    BY DEF Init
  <1>5. /\ stats.requests = 0 /\ stats.observed = 0 /\ stats.hits = 0 /\ stats.misses = 0
        /\ stats.gitlab = 0 /\ stats.upstream = 0
    BY DEF Init
  <1> QED
    BY <1>1, <1>2, <1>3, <1>4, <1>5 DEF CountersInv

(* Every request is observed, still running or lost; none is counted twice; *)
(* what was proxied was counted before: so for any number of requests that  *)
(* count at the same time.                                                  *)
THEOREM CountersTrue == Spec => []CountersAgree
  <1>1. Init => CountersInv
    BY CountersInit
  <1>2. GatewayInv /\ CountersInv /\ [Next]_vars => CountersInv'
    <2> SUFFICES ASSUME GatewayInv, CountersInv, [Next]_vars PROVE CountersInv'
      OBVIOUS
    <2>1. ASSUME NEW c \in Clients, ClientNext(c)
          PROVE  CountersInv'
      BY <2>1, ClientKeeps, CountersStep
    <2> QED
      BY <2>1, Steps, CountersAround
  <1>3. CountersInv => CountersAgree
    <2> SUFFICES ASSUME CountersInv PROVE CountersAgree
      OBVIOUS
    <2>1. /\ StatsOK
          /\ stats.requests = stats.observed + Cardinality(Running) + Cardinality(Lost)
          /\ stats.hits + stats.misses + Cardinality(Undecided) <= stats.requests
          /\ stats.upstream + Cardinality(Missed) <= stats.misses
          /\ strategy = "proxy_upstream" => stats.gitlab + Cardinality(Found) <= stats.hits
      BY DEF CountersInv
    <2>2. Undecided \in SUBSET Clients /\ Missed \in SUBSET Clients /\ Found \in SUBSET Clients
      BY DEF Undecided, Missed, Found
    <2>3. Cardinality(Undecided) \in Nat /\ Cardinality(Missed) \in Nat /\ Cardinality(Found) \in Nat
      BY <2>2, GatewayAssumption, FS_Subset, FS_CardinalityType
    <2>4. /\ stats.hits + stats.misses <= stats.requests
          /\ stats.upstream <= stats.misses
          /\ strategy = "proxy_upstream" => stats.gitlab <= stats.hits
      BY <2>1, <2>3 DEF StatsOK
    <2> QED
      BY <2>1, <2>4 DEF CountersAgree, Running, Lost
  <1> QED
    BY <1>1, <1>2, <1>3, Invariant, PTL DEF Spec
=============================================================================
