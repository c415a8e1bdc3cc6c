------------------------------- MODULE UrlMap -------------------------------
(***************************************************************************)
(* Which repository a URL means, on every way a URL takes through the      *)
(* gateway: rewritten by url.insteadOf and mapped from a request path      *)
(* (map_gateway_path(), git_cache_gateway/urlmap.py), given to a command   *)
(* or to a retry (map_remote_url()), or found by scanning the projects on  *)
(* GitLab (iter_gitlab_mirror_mappings(), mirror.py); and the names made   *)
(* from it: project, lock, directory, stamp, and the URL that is proxied.  *)
(*                                                                         *)
(* A path is a sequence of tokens: "/", ".git", "_" and words.  ".git" and *)
(* "_" are tokens wherever they occur: the name foo.github.io is           *)
(* <<"foo", ".git", "hub.io">>, the name a__b <<"a", "_", "_", "b">>.      *)
(* Case, percent-encoding and the query are left out.  Parties are clients *)
(* and commands; each asks once.                                           *)
(***************************************************************************)
EXTENDS Naturals, FiniteSets, SequencesExt

CONSTANTS
  Parties,
  Tokens,         \* what paths are made of: names, "_", and what the code looks for
  Repos,          \* repositories people ask for, as paths below the provider
  Hosts,          \* hosts in the URLs people use
  ProviderHosts,  \* [providers].hosts
  Syntaxes,       \* of URLs: "https", "http", "ssh", "scp"
  Refused,        \* the ValueError of a mapping
  Missing         \* a repository the server does not have

(* No name ends in ".git": servers take it for the name without.            *)
ASSUME UrlAssumption ==
  /\ ProviderHosts \subseteq Hosts
  /\ {"/", ".git", "info", "refs", "git-upload-pack"} \subseteq Tokens
  /\ \A r \in Repos :
       /\ r \in Seq(Tokens) /\ r # <<>> /\ r[1] # "/" /\ r[Len(r)] # "/"
       /\ \A i \in DOMAIN r : r[i] = ".git" => i < Len(r) /\ r[i + 1] # "/"
  /\ Refused \notin [host : ProviderHosts, repo : Seq(Tokens), suffix : Seq(Tokens),
                   project : [host : ProviderHosts, path : Seq(Tokens)]]
  /\ Missing \notin [host : Hosts, path : Seq(Tokens)]

VARIABLES
  step,           \* where each party is
  url,            \* the URL it uses
  path,           \* the path of its request at the gateway, below the host
  map,            \* the RepoMapping made for it
  answer,         \* the repository whose refs or pack it got
  mirrored        \* projects on GitLab with the repository pushed into each

vars == <<step, url, path, map, answer, mirrored>>

-----------------------------------------------------------------------------
(* Paths. *)

StripRight(p) ==
  LET rest == {i \in DOMAIN p : p[i] # "/"}
  IN IF rest = {} THEN <<>> ELSE SubSeq(p, 1, Max(rest))

Strip(p) ==
  LET rest == {i \in DOMAIN p : p[i] # "/"}
  IN IF rest = {} THEN <<>> ELSE SubSeq(p, Min(rest), Max(rest))

(* A path object drops empty segments (PurePosixPath, Path): of the slashes *)
(* it keeps one between two names.                                          *)
Kept(p) ==
  {i \in DOMAIN p : p[i] = "/" => /\ i > 1 /\ p[i - 1] # "/"
                                 /\ \E k \in DOMAIN p : k > i /\ p[k] # "/"}

Rank(i, s)  == Cardinality({k \in s : k <= i})
Picked(p, s) == [n \in 1 .. Cardinality(s) |-> p[CHOOSE i \in s : Rank(i, s) = n]]
Collapse(p) == Picked(p, Kept(p))

Segments(p) == Cardinality({i \in DOMAIN p : p[i] = "/"}) + 1

(* _strip_git_suffix(). *)
StripGitSuffix(p) ==
  LET q == Strip(p)
  IN IF q # <<>> /\ Last(q) = ".git" THEN Strip(Front(q)) ELSE q

(* GIT_SERVICE_SUFFIXES, in the order they are looked for.                  *)
ServiceSuffixes ==
  << <<"/", "info", "/", "refs">>, <<"/", "git-upload-pack">>,
     <<"/", "git-receive-pack">>, <<"/", "HEAD">>,
     <<"/", "objects", "/">>, <<"/", "refs", "/">> >>

(* _split_repo_and_suffix(): the first ".git" ends the repository, or else  *)
(* the first service suffix that occurs.                                    *)
KeepsMarker(p) ==
  LET at == Min({i \in DOMAIN p : p[i] = ".git"} \cup {Len(p) + 1})
  IN [repo |-> StripGitSuffix(SubSeq(p, 1, at - 1)), suffix |-> SubSeq(p, at, Len(p))]

SplitRepoAndSuffix(p) ==
  LET full     == <<"/">> \o Strip(p)
      git      == {i \in DOMAIN full : full[i] = ".git"}
      Places(k) == {i \in DOMAIN full :
                     IsPrefix(ServiceSuffixes[k], SubSeq(full, i, Len(full)))}
      services == {k \in DOMAIN ServiceSuffixes : Places(k) # {}}
      end      == IF git # {} THEN Min(git)
                  ELSE IF services # {} THEN Min(Places(Min(services)))
                  ELSE Len(full) + 1
  IN [repo   |-> StripGitSuffix(SubSeq(full, 1, end - 1)),
      suffix |-> SubSeq(full, IF git # {} THEN end + 1 ELSE end, Len(full))]

HasOwner(repo) == "/" \in ToSet(repo)

FlatProject(host, repo, suffix) ==
  [host |-> host, repo |-> repo, suffix |-> suffix,
   project |-> [host |-> host,
                path |-> SubSeq(Collapse(repo), 1, Min({3, Len(Collapse(repo))}))]]

(* RepoMapping; remote_url is the host, the repository and ".git".          *)
Mapping(host, repo, suffix) ==
  [host |-> host, repo |-> repo, suffix |-> suffix,
   project |-> [host |-> host, path |-> Collapse(repo)]]

MapGatewayPath(host, p) ==
  LET split == SplitRepoAndSuffix(p)
  IN IF host \in ProviderHosts /\ HasOwner(split.repo)
       THEN Mapping(host, split.repo, split.suffix)
       ELSE Refused

AnyHost(u) == Mapping(u.host, StripGitSuffix(u.path), <<>>)

NormalizesKey(u) ==
  IF u.host \in ProviderHosts THEN Mapping(u.host, Collapse(StripGitSuffix(u.path)), <<>>)
  ELSE Refused

(* The SCP syntax is taken without a look at the number of segments.        *)
ScpKeepsSuffix(u) ==
  IF u.host \in ProviderHosts
    THEN Mapping(u.host, IF u.syntax = "scp" THEN Strip(u.path) ELSE StripGitSuffix(u.path), <<>>)
    ELSE Refused

MapRemoteUrl(u) ==
  LET repo == StripGitSuffix(u.path)
  IN IF u.host \in ProviderHosts /\ (u.syntax = "scp" \/ HasOwner(repo))
       THEN Mapping(u.host, repo, <<>>)
       ELSE Refused

RemoteUrl(m) == [syntax |-> "https", host |-> m.host, path |-> m.repo \o <<".git">>]

(* iter_gitlab_mirror_mappings(): the mapping of a project under the root.  *)
SkipsShallow(project) ==
  IF project.host \in ProviderHosts /\ Segments(project.path) >= 3
    THEN Mapping(project.host, Collapse(project.path), <<>>)
    ELSE Refused

ScannedMapping(project) ==
  IF project.host \in ProviderHosts /\ Segments(project.path) >= 2
    THEN Mapping(project.host, Collapse(project.path), <<>>)
    ELSE Refused

-----------------------------------------------------------------------------
(* Names. *)

(* replace("/", "__"): each slash becomes two underscores, which no longer  *)
(* differ from those of the names; every other token moves behind what has  *)
(* become of the tokens before it, where it Begins.                         *)
Slashes(p)   == {i \in DOMAIN p : p[i] = "/"}
Begins(p, i) == i + Rank(i - 1, Slashes(p))

Underscored(p) ==
  LET others == DOMAIN p \ Slashes(p)
  IN [n \in 1 .. Len(p) + Cardinality(Slashes(p)) |->
        IF \E i \in others : Begins(p, i) = n
          THEN p[CHOOSE i \in others : Begins(p, i) = n]
          ELSE "_"]

LockName(m) == <<m.host, "_", "_">> \o Underscored(m.repo)
MirrorDir(m) == [host |-> m.host, path |-> Collapse(m.repo \o <<".git">>)]

LastSegmentOnly(m) == [host |-> m.host, name |-> <<Last(m.repo)>>]
StampName(m) == [host |-> m.host, name |-> Underscored(m.repo)]

(* _build_target_url() for either target.                                   *)
ProjectBase(m) == [host |-> m.host, path |-> m.project.path \o <<".git">> \o m.suffix]
RemoteBase(m)  == [host |-> m.host, path |-> m.repo \o <<".git">> \o m.suffix]

(* What a Git server serves at a path: the service at its end names what is *)
(* wanted, the rest is the repository, with or without ".git".              *)
Services == { <<"/", "info", "/", "refs">>, <<"/", "git-upload-pack">> }

Repository(at) ==
  LET ends == {s \in Services : IsSuffix(s, at.path)}
  IN IF ends = {} THEN Missing
     ELSE LET s == CHOOSE s \in ends : TRUE
          IN [host |-> at.host,
              path |-> StripGitSuffix(Collapse(SubSeq(at.path, 1, Len(at.path) - Len(s))))]

-----------------------------------------------------------------------------
Init ==
  /\ step = [p \in Parties |-> "idle"]
  /\ url = [p \in Parties |-> Refused]
  /\ path = [p \in Parties |-> <<>>]
  /\ map = [p \in Parties |-> Refused]
  /\ answer = [p \in Parties |-> Refused]
  /\ mirrored = {}

Existing == {Collapse(r) : r \in Repos}

(* The ways people write the URL of a repository.                           *)
Spellings(r) == {r, r \o <<".git">>, r \o <<"/">>}
Urls == [syntax : Syntaxes, host : Hosts, path : UNION {Spellings(r) : r \in Repos}]

(* What the client means: the repository its URL names without a gateway.   *)
Asked(p) == [host |-> url[p].host, path |-> StripGitSuffix(Collapse(url[p].path))]

(* Git replaces the prefix of the URL by the gateway's (install-client) and *)
(* appends the service; the host and the rest of the path stay.             *)
RequestPaths(u) == {StripRight(u.path) \o s : s \in Services}

SendRequest(p) ==
  /\ step[p] = "idle"
  /\ \E u \in Urls :
       /\ url' = [url EXCEPT ![p] = u]
       /\ \E at \in RequestPaths(u) : path' = [path EXCEPT ![p] = at]
  /\ step' = [step EXCEPT ![p] = "sent"]
  /\ UNCHANGED <<map, answer, mirrored>>

Mapped(p, m) ==
  /\ map' = [map EXCEPT ![p] = m]
  /\ step' = [step EXCEPT ![p] = IF m = Refused THEN "refused" ELSE "mapped"]

MapRequest(p) ==
  /\ step[p] = "sent"
  /\ Mapped(p, MapGatewayPath(url[p].host, path[p]))
  /\ UNCHANGED <<url, path, answer, mirrored>>

(* The commands map, ensure and repair-default-branches take URLs.          *)
Command(p) ==
  /\ step[p] = "idle"
  /\ \E u \in Urls :
       /\ url' = [url EXCEPT ![p] = u]
       /\ Mapped(p, MapRemoteUrl(u))
  /\ UNCHANGED <<path, answer, mirrored>>

(* A job for the mapping ends well; or a failed one is asked for again by   *)
(* its remote URL (retry_failed()), which must succeed at naming it.        *)
Mirror(p) ==
  /\ step[p] = "mapped"
  /\ Collapse(map[p].repo) \in Existing
  /\ mirrored' = mirrored \cup
       {[project |-> map[p].project,
         content |-> [host |-> map[p].host, path |-> Collapse(map[p].repo)]]}
  /\ step' = [step EXCEPT ![p] = "mirrored"]
  /\ UNCHANGED <<url, path, map, answer>>

(* The request is proxied to the project if it is there, else upstream.     *)
Projects == {m.project : m \in mirrored}

FromUpstream(r) == IF r # Missing /\ r.path \in Existing THEN r ELSE Missing
FromGitLab(r) ==
  IF r \in Projects THEN (CHOOSE m \in mirrored : m.project = r).content ELSE Missing

Answer(p) ==
  /\ step[p] \in {"mapped", "mirrored"} /\ path[p] # <<>>
  /\ answer' = [answer EXCEPT ![p] =
       IF map[p].project \in Projects
         THEN FromGitLab(Repository(ProjectBase(map[p])))
         ELSE FromUpstream(Repository(RemoteBase(map[p])))]
  /\ step' = [step EXCEPT ![p] = "answered"]
  /\ UNCHANGED <<url, path, map, mirrored>>

Next ==
  \/ \E p \in Parties : SendRequest(p)
  \/ \E p \in Parties : MapRequest(p)
  \/ \E p \in Parties : Command(p)
  \/ \E p \in Parties : Mirror(p)
  \/ \E p \in Parties : Answer(p)

Spec == Init /\ [][Next]_vars

-----------------------------------------------------------------------------
(* Properties. *)

(* The repository's name as it is written in the URL.                       *)
Written(p) == StripGitSuffix(url[p].path)

IsMapped(p)      == step[p] \in {"mapped", "mirrored", "answered"}
DotGitInside(s)  == ".git" \in ToSet(s)
DotGitFirst(s)   == \E i \in 2 .. Len(s) : s[i] = ".git" /\ s[i - 1] = "/"
ServiceInside(s) ==
  \E service \in Services, i \in 0 .. Len(s) :
    IsPrefix(service, SubSeq(<<"/">> \o s, i + 1, Len(s) + 1))
Misread(s)       == DotGitInside(s) \/ ServiceInside(s)
LooksLikeSlash(s) == \E i \in 1 .. Len(s) - 1 : s[i] = "_" /\ s[i + 1] \in {"_", "/"}
EmptySegment(s)  == \E i \in 1 .. Len(s) - 1 : s[i] = "/" /\ s[i + 1] = "/"
Supported(p)     == url[p].host \in ProviderHosts /\ HasOwner(Asked(p).path)
Mappings         == {map[p] : p \in {q \in Parties : IsMapped(q)}}

(* Every variable keeps its type.                                           *)
TypeOK ==
  /\ step \in [Parties -> {"idle", "sent", "mapped", "refused", "mirrored", "answered"}]
  /\ \A p \in Parties : url[p] \in Urls \cup {Refused}
  /\ \A p \in Parties : IsMapped(p) => map[p].host \in ProviderHosts
  /\ \A m \in mirrored : m.content.path \in Existing

(* A client never gets refs or objects of another repository than the one   *)
(* its URL names, from either target, whatever the path is cut into and     *)
(* whatever others have mirrored: the part cut off too early comes back     *)
(* with the suffix (_split_repo_and_suffix(), _build_target_url()).  But    *)
(* the slash before a name like ".github" is lost.                          *)
NeverAnotherRepository ==
  \A p \in Parties :
    step[p] = "answered" /\ ~DotGitFirst(Written(p)) => answer[p] \in {Asked(p), Missing}

(* A repository of a supported provider is refused or not found only        *)
(* because of a ".git" in its name or of a segment named like a Git service *)
(* (urlmap.py:47, 55).                                                      *)
LostOnlyByItsName ==
  \A p \in Parties :
    /\ path[p] # <<>> /\ Supported(p)
    /\ step[p] = "refused" \/ (step[p] = "answered" /\ answer[p] = Missing)
    => Misread(Written(p))

(* However the URL of a repository is spelled and whichever way it takes,   *)
(* jobs for it use one project, one local directory and one lock, so that   *)
(* the flock keeps them apart (cache_key, safe_lock_name()).  Only a        *)
(* doubled slash makes a second lock for the same directory and project.    *)
OneRepositoryOneLock ==
  \A p, q \in Parties :
    /\ IsMapped(p) /\ IsMapped(q) /\ Asked(p) = Asked(q)
    /\ ~Misread(Written(p)) /\ ~Misread(Written(q))
    => /\ map[p].project = map[q].project
       /\ MirrorDir(map[p]) = MirrorDir(map[q])
       /\ \/ LockName(map[p]) = LockName(map[q])
          \/ EmptySegment(url[p].path) \/ EmptySegment(url[q].path)

(* A failed job can be asked for again: the remote URL in its record maps   *)
(* back to the same key and project (retry_failed(), map_remote_url()).     *)
RetryNamesTheSameJob ==
  \A p \in Parties :
    IsMapped(p) /\ path[p] # <<>> =>
      LET again == MapRemoteUrl(RemoteUrl(map[p]))
      IN again = [map[p] EXCEPT !.suffix = <<>>]

(* One repository's stamp silences the refresh of another one only if in a  *)
(* name of theirs an underscore is followed by another one or ends its      *)
(* segment: a/b__c is taken for a/b/c, and a_/b for a/_b (_stamp_path()).   *)
StampsSharedOnlyByUnderscores ==
  \A m, n \in Mappings :
    StampName(m) = StampName(n) /\ m.project # n.project
    => LooksLikeSlash(m.repo) \/ LooksLikeSlash(n.repo)

(* A scan of GitLab finds each mirror and names its local directory, unless *)
(* an SCP-like URL without owner made it (iter_gitlab_mirror_mappings()).   *)
ScanFindsEveryMirror ==
  \A p \in Parties :
    step[p] = "mirrored" /\ (url[p].syntax # "scp" \/ HasOwner(map[p].repo)) =>
      LET found == ScannedMapping(map[p].project)
      IN /\ found # Refused
         /\ found.project = map[p].project
         /\ MirrorDir(found) = MirrorDir(map[p])

(* README.md: "The gateway allows normal Git commands to keep working", and *)
(* "mirrors the requested repository".  What a fetch gets is of the         *)
(* repository its URL names.                                                *)
RequestedRepositoryServed ==
  \A p \in Parties : step[p] = "answered" => answer[p] \in {Asked(p), Missing}

=============================================================================
