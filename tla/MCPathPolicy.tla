----------------------------- MODULE MCPathPolicy -----------------------------
EXTENDS PathPolicy

\* The root, one segment, a segment with a trailing slash, two prefixes of
\* different depth, and one that is not in normal form.
Lists == {{<<"">>}, {<<"api">>}, {<<"api", "">>}, {<<"api", "event">>, <<"event">>},
          {<<"api", "..", "event">>}}

Tunnel == <<"event", "api">>

\* The fixed points of path.Clean are what the comment on pathIsNormalized
\* (remote.go:398-400) says: the root, or ordinary segments only.
ASSUME NormalFormsArePlain ==
  \A p \in Paths : pathIsNormalized(p) <=> p = <<"">> \/ \A i \in DOMAIN p : p[i] \in Names
=============================================================================
