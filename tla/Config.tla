-------------------------------- MODULE Config --------------------------------
(***************************************************************************)
(* The configuration (config.go): a JSON file's keys layered over the      *)
(* defaults and validated, and the policy that the remote half demands of  *)
(* the result (main.go). Pure operators; Process applies them.             *)
(*                                                                         *)
(* A configuration is a record with the fields of Config, durations in     *)
(* seconds. A file is a function from the keys it has to their values; a   *)
(* key is named by the field it is read into.                              *)
(***************************************************************************)
EXTENDS Integers

CONSTANTS
  Rooted,        \* the strings, among those used as paths, that start with "/"
  Null, Garbled  \* a key's value is JSON null; does not parse as what it should be

ASSUME DefaultPathAssumption == "/_tunnel" \in Rooted

DefaultConfig ==
  [ BackoffMin |-> 1, BackoffMax |-> 30, KeepAliveInterval |-> 30,
    StreamOpenTimeout |-> 120, ReadHeaderTimeout |-> 10, IdleTimeout |-> 120,
    TunnelPath |-> "/_tunnel",
    MaxConcurrentStreams |-> 256, MaxRequestBytes |-> 32 * 2^20, MaxHeaderBytes |-> 2^20,
    TunnelCN |-> "", AllowedPathPrefixes |-> {},
    MaxStreamDuration |-> 0, MaxStreamsPerCert |-> 0 ]

Fields == DOMAIN DefaultConfig

durationFields == {"BackoffMin", "BackoffMax", "KeepAliveInterval",
                   "StreamOpenTimeout", "ReadHeaderTimeout", "IdleTimeout"}

countFields == {"MaxConcurrentStreams", "MaxRequestBytes", "MaxHeaderBytes",
                "MaxStreamDuration", "MaxStreamsPerCert"}

\* A slip the code could have made: the range is compared only when the file sets
\* both of its ends.
validateGivenOnly(c) ==
  /\ \A k \in durationFields \cup {"MaxConcurrentStreams", "MaxRequestBytes", "MaxHeaderBytes"} : c[k] > 0
  /\ c.BackoffMin = DefaultConfig.BackoffMin \/ c.BackoffMax = DefaultConfig.BackoffMax
       \/ c.BackoffMin <= c.BackoffMax
  /\ c.TunnelPath \in Rooted /\ c.AllowedPathPrefixes \subseteq Rooted
  /\ c.MaxStreamDuration >= 0 /\ c.MaxStreamsPerCert >= 0

validate(c) ==
  /\ \A k \in durationFields : c[k] > 0
  /\ c.BackoffMin <= c.BackoffMax
  /\ c.TunnelPath \in Rooted
  /\ \A k \in {"MaxConcurrentStreams", "MaxRequestBytes", "MaxHeaderBytes"} : c[k] > 0
  /\ \A k \in {"MaxStreamDuration", "MaxStreamsPerCert"} : c[k] >= 0
  /\ c.AllowedPathPrefixes \subseteq Rooted

\* UnmarshalJSON: an unknown key or a value that does not parse fails the whole
\* file; a key that is null leaves its pointer nil, as if it were absent.
Decodes(file) ==
  DOMAIN file \subseteq Fields /\ \A k \in DOMAIN file : file[k] # Garbled

UnmarshalJSON(c, file) ==
  [k \in Fields |-> IF k \in DOMAIN file THEN IF file[k] = Null THEN c[k] ELSE file[k]
                    ELSE c[k]]

\* LoadConfig with a path: what it returns, if it succeeds.
Layered(file) == UnmarshalJSON(DefaultConfig, file)

LoadSucceeds(file) == Decodes(file) /\ validate(Layered(file))

\* run: --tunnel-cn, when given, overrides the file's value.
EffectiveCN(c, flagCN) == IF flagCN # "" THEN flagCN ELSE c.TunnelCN

requireRemotePolicy(c, flagCN) ==
  EffectiveCN(c, flagCN) # "" /\ c.AllowedPathPrefixes # {}
=============================================================================
