------------------------------- MODULE MCProcess -------------------------------
EXTENDS Process, FiniteSets, TLC

CONSTANTS r1

\* A value for every branch of the decoder and of validate, by key.
Values(k) ==
  CASE k = "TunnelPath" -> {"/t", "t"}
    [] k = "TunnelCN" -> {"", "home"}
    [] k = "AllowedPathPrefixes" -> {{}, {"/api", "api"}, {"/api", "/"}}
    [] k \in {"BackoffMin", "BackoffMax"} -> {-1, 0, 20, 40}
    [] OTHER -> {-1, 0, 1, Garbled}

\* Files with up to two keys of any kind, with and without the allowlist that
\* the remote half needs beside them.
One == UNION {{k :> v : v \in Values(k) \cup {Null}} : k \in Fields} \cup {"Typo" :> 1}
Two == {a @@ b : a, b \in One}
SomeFiles == Two \cup {a @@ ("AllowedPathPrefixes" :> {"/api"}) : a \in Two}
=============================================================================
