------------------------------ MODULE PathPolicy ------------------------------
(***************************************************************************)
(* Which paths of a device reach opencode: the dispatch on TunnelPath and  *)
(* the two path guards of the remote half (remote.go, deviceRequest), then *)
(* the same guards at home (local.go, WithLocalRequestLimits), which may   *)
(* be configured with another allowlist.                                   *)
(*                                                                         *)
(* A path is the sequence of what stands between its slashes: "/" is       *)
(* <<"">>, "/api/x" is <<"api", "x">>, "/api/" is <<"api", "">>.           *)
(***************************************************************************)
EXTENDS Naturals, SequencesExt

CONSTANTS
  Names,        \* ordinary segments
  MaxSegments,  \* bound on the length of a path
  Allowlists,   \* the allowlists to try, sets of paths
  TunnelPath

Segments == Names \cup {"", ".", ".."}
Paths == {p \in BoundedSeq(Segments, MaxSegments) : p # <<>>}

ASSUME NamesAssumption == Names \cap {"", ".", ".."} = {}
ASSUME TunnelPathAssumption == TunnelPath \in Paths   \* validate: it starts with "/"
ASSUME AllowlistsAssumption == Allowlists \subseteq SUBSET Paths

VARIABLES
  path,        \* r.URL.Path, which both proxies forward as it is
  remoteList,  \* AllowedPathPrefixes of the remote half
  homeList,    \* and of the home
  at           \* how far the request has come

vars == <<path, remoteList, homeList, at>>

-----------------------------------------------------------------------------
\* One step of path.Clean on a rooted path: ".." at the root stays there.
CleanSegment(sofar, seg) ==
  CASE seg \in {"", "."} -> sofar
    [] seg = ".."        -> IF sofar = <<>> THEN <<>> ELSE Front(sofar)
    [] OTHER             -> Append(sofar, seg)

\* The places a walk along the segments comes by.
Walk(p) ==
  LET walk[i \in 0..Len(p)] == IF i = 0 THEN <<>> ELSE CleanSegment(walk[i - 1], p[i])
  IN  walk

\* Where it ends.
Resolve(p) == Walk(p)[Len(p)]

\* path.Clean
Clean(p) == IF Resolve(p) = <<>> THEN <<"">> ELSE Resolve(p)

pathIsNormalized(p) == Clean(p) = p

\* strings.TrimSuffix(p, "/"): at most one slash.
TrimSlash(p) == IF Last(p) = "" THEN Front(p) ELSE p

\* A slip the code could have made: the prefix itself is forgotten, only what lies beneath it passes.
pathAllowedBeneathOnly(prefixes, p) ==
  prefixes = {} \/ \E q \in prefixes : IsStrictPrefix(TrimSlash(q), p)

\* A path has the trimmed prefix and a slash as its string prefix iff the prefix's
\* segments are a proper initial part of its own.
pathAllowed(prefixes, p) ==
  \/ prefixes = {}
  \/ \E q \in prefixes : p = q \/ IsStrictPrefix(TrimSlash(q), p)

-----------------------------------------------------------------------------
\* requireRemotePolicy: the remote half does not start with an empty allowlist.
Init ==
  /\ path \in Paths
  /\ remoteList \in Allowlists \ {{}}
  /\ homeList \in Allowlists \cup {{}}
  /\ at = "device"

Goto(place) == at' = place /\ UNCHANGED <<path, remoteList, homeList>>

\* A slip the code could have made: the allowlist alone is consulted.
RemoteListOnly ==
  /\ at = "device" /\ path # TunnelPath
  /\ Goto(IF pathAllowed(remoteList, path) THEN "tunnel" ELSE "forbidden")

\* The one path that is not a device request.
Upgrade ==
  /\ at = "device" /\ path = TunnelPath
  /\ Goto("upgrade")

Remote ==
  /\ at = "device" /\ path # TunnelPath
  /\ Goto(IF ~pathIsNormalized(path) THEN "bad"
          ELSE IF pathAllowed(remoteList, path) THEN "tunnel" ELSE "forbidden")

Home ==
  /\ at = "tunnel"
  /\ Goto(IF ~pathIsNormalized(path) THEN "bad"
          ELSE IF pathAllowed(homeList, path) THEN "home" ELSE "forbidden")

\* The home's reverse proxy reaches opencode, or its ErrorHandler answers 502.
Backend ==
  /\ at = "home"
  /\ Goto("opencode") \/ Goto("unreachable")

Answered ==
  /\ at \in {"upgrade", "bad", "forbidden", "opencode", "unreachable"}
  /\ UNCHANGED vars

Next == Upgrade \/ Remote \/ Home \/ Backend \/ Answered

Spec == Init /\ [][Next]_vars

-----------------------------------------------------------------------------
\* The place a path leads to lies at or below the place the prefix leads to.
Under(list, p) == \E q \in list : IsPrefix(Resolve(q), Resolve(p))

\* Whatever a device sends, what the remote puts into the tunnel resolves to a
\* place under its allowlist; what opencode gets, under the home's list as well.
OnlyAllowedPlaces ==
  /\ at \in {"tunnel", "opencode"} => Under(remoteList, path)
  /\ at = "opencode" => homeList = {} \/ Under(homeList, path)

\* Nothing is refused by mistake: a path in normal form is forbidden only if it
\* leads nowhere under a list, as long as the lists are in normal form too.
OnlyOthersForbidden ==
  at = "forbidden" /\ (\A q \in remoteList \cup homeList : pathIsNormalized(q)) =>
    ~Under(remoteList, path) \/ (homeList # {} /\ ~Under(homeList, path))
=============================================================================
