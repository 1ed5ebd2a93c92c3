-------------------------------- MODULE Process --------------------------------
(***************************************************************************)
(* The life of one process of either half (main.go, run): flags and        *)
(* configuration, the wiring and its failures, serving, and the way from a *)
(* signal to the exit. Shutdown of the HTTP server runs in a goroutine of  *)
(* its own, and the exit of main ends every goroutine that still runs.     *)
(***************************************************************************)
EXTENDS Config

CONSTANTS
  Files,       \* the configuration files to try
  Requests     \* device requests the server may have in flight

\* UnmarshalJSON: a number or a duration is an integer once it has parsed.
ASSUME FilesAssumption ==
  \A file \in Files : \A k \in DOMAIN file \cap (durationFields \cup countFields) :
    file[k] \in Int \cup {Null, Garbled}

VARIABLES
  pc,          \* where run stands
  flags,       \* the command line
  cfg,         \* the configuration LoadConfig returned
  ctxDone,     \* NotifyContext's context is cancelled
  shutdown,    \* the goroutine around srv.Shutdown: none, waiting, polling, returned
  active,      \* device requests in flight
  tunnel,      \* a hijacked tunnel connection is open
  code         \* exit status; 2 stands for death by the signal's default action

wireVars == <<flags, cfg>>
serverVars == <<ctxDone, shutdown, active, tunnel>>
vars == <<pc, wireVars, serverVars, code>>

CommandLines ==
  [isLocal : BOOLEAN, isRemote : BOOLEAN, certs : BOOLEAN, remoteURL : BOOLEAN,
   configPath : BOOLEAN, tunnelCN : {"", "home"}]

Init ==
  /\ pc = "parseFlags"
  /\ flags \in CommandLines
  /\ cfg = DefaultConfig
  /\ ctxDone = FALSE /\ shutdown = "none"
  /\ active = {} /\ tunnel = FALSE
  /\ code = 0

Running == pc # "exited"

inShutdown == shutdown \in {"polling", "returned"}

Step(from, to) == pc = from /\ pc' = to

\* run returns nil, or an error: main exits with status 1.
Return(from, status) ==
  /\ Step(from, "returning")
  /\ code' = status
  /\ UNCHANGED <<wireVars, serverVars>>

-----------------------------------------------------------------------------
(* Variants with a slip the code could have made; no specification uses them. *)

\* run waits for every connection, without a deadline.
ServeReturnsDrained == inShutdown /\ active = {} /\ Return("serving", 0)

\* errors.Is(err, http.ErrServerClosed) is forgotten: every error counts as closed.
BindFailsQuietly == ~inShutdown /\ Return("listen", 0)

-----------------------------------------------------------------------------
(* Startup.                                                                *)

FlagsOK ==
  /\ flags.isLocal # flags.isRemote
  /\ flags.certs
  /\ flags.isLocal => flags.remoteURL

ParseFlags ==
  \/ FlagsOK /\ Step("parseFlags", "loadConfig") /\ UNCHANGED <<wireVars, serverVars, code>>
  \/ ~FlagsOK /\ Return("parseFlags", 1)

\* Without --config the defaults are returned as they are.
LoadDefaults ==
  /\ ~flags.configPath
  /\ Step("loadConfig", "notify")
  /\ UNCHANGED <<wireVars, serverVars, code>>

LoadConfig ==
  /\ flags.configPath
  /\ Step("loadConfig", "notify")
  /\ \E file \in Files : LoadSucceeds(file) /\ cfg' = Layered(file)
  /\ UNCHANGED <<flags, serverVars, code>>

\* The file is unreadable, does not decode, or does not validate.
LoadFails == flags.configPath /\ Return("loadConfig", 1)

NotifyContext ==
  /\ Step("notify", IF flags.isLocal THEN "wireLocal" ELSE "policy")
  /\ UNCHANGED <<wireVars, serverVars, code>>

\* NewLocalReverseProxy, NewBackoff, NewClientTLSConfig; client.Run starts.
WireLocal ==
  /\ Step("wireLocal", "run")
  /\ UNCHANGED <<wireVars, serverVars, code>>

RequirePolicy ==
  \/ /\ requireRemotePolicy(cfg, flags.tunnelCN)
     /\ Step("policy", "wireRemote")
     /\ UNCHANGED <<wireVars, serverVars, code>>
  \/ /\ ~requireRemotePolicy(cfg, flags.tunnelCN)
     /\ Return("policy", 1)

\* NewRevocationList, NewServerTLSConfig, and the goroutine that awaits the signal.
WireRemote ==
  /\ Step("wireRemote", "listen")
  /\ shutdown' = "waiting"
  /\ UNCHANGED <<wireVars, ctxDone, active, tunnel, code>>

\* A URL that does not parse, no readable certificates, a malformed revocation list.
WiringFails == Return("wireLocal", 1) \/ Return("wireRemote", 1)

-----------------------------------------------------------------------------
(* ListenAndServeTLS and client.Run.                                       *)

\* The port is bound, unless Shutdown has come first.
Bind ==
  /\ ~inShutdown
  /\ Step("listen", "bound")
  /\ UNCHANGED <<wireVars, serverVars, code>>

BindFails == ~inShutdown /\ Return("listen", 1)

\* Serve registers its listener, which Shutdown may have forbidden meanwhile.
Serve ==
  /\ ~inShutdown
  /\ Step("bound", "serving")
  /\ UNCHANGED <<wireVars, serverVars, code>>

\* ErrServerClosed, at once: nobody waits for srv.Shutdown to return.
ServeReturns == inShutdown /\ \E from \in {"listen", "bound", "serving"} : Return(from, 0)

AcceptFails == ~inShutdown /\ Return("serving", 1)

\* client.Run returns nil once its context is done, as LocalClient shows.
ClientReturns == ctxDone /\ Return("run", 0)

\* Also after Shutdown has begun, on a connection that was accepted before it.
AcceptRequest(r) ==
  /\ pc = "serving" /\ r \notin active
  /\ active' = active \cup {r}
  /\ UNCHANGED <<pc, wireVars, ctxDone, shutdown, tunnel, code>>

RequestEnds(r) ==
  /\ r \in active
  /\ active' = active \ {r}
  /\ UNCHANGED <<pc, wireVars, ctxDone, shutdown, tunnel, code>>

\* A tunnel upgrade hijacks its connection, which Shutdown then no longer sees.
TunnelConnects ==
  /\ pc = "serving" /\ ~tunnel
  /\ tunnel' = TRUE
  /\ UNCHANGED <<pc, wireVars, ctxDone, shutdown, active, code>>

\* The session ends by itself, or its handler has seen the cancelled context.
TunnelEnds ==
  /\ tunnel
  /\ tunnel' = FALSE
  /\ UNCHANGED <<pc, wireVars, ctxDone, shutdown, active, code>>

-----------------------------------------------------------------------------
(* The signal and the exit.                                                *)

\* Before NotifyContext the default action kills the process.
Signal ==
  /\ Running /\ ~ctxDone
  /\ ctxDone' = TRUE
  /\ IF pc \in {"parseFlags", "loadConfig", "notify"}
       THEN pc' = "exited" /\ code' = 2
       ELSE UNCHANGED <<pc, code>>
  /\ UNCHANGED <<wireVars, shutdown, active, tunnel>>

\* srv.Shutdown sets its flag and closes the listeners and the idle connections.
ShutdownBegins ==
  /\ shutdown = "waiting" /\ ctxDone /\ Running
  /\ shutdown' = "polling"
  /\ UNCHANGED <<pc, wireVars, ctxDone, active, tunnel, code>>

\* The tracked connections are idle, or the five seconds are over.
ShutdownReturns ==
  /\ shutdown = "polling" /\ Running
  /\ shutdown' = "returned"
  /\ UNCHANGED <<pc, wireVars, ctxDone, active, tunnel, code>>

\* main returns, and with it every goroutine of the process: it waits neither for
\* requests nor for the tunnel.
Exit ==
  /\ Step("returning", "exited")
  /\ active' = {} /\ tunnel' = FALSE /\ shutdown' = "none"
  /\ UNCHANGED <<wireVars, ctxDone, code>>

\* systemd starts the same command line again.
Restart ==
  /\ Step("exited", "parseFlags")
  /\ cfg' = DefaultConfig /\ ctxDone' = FALSE /\ code' = 0
  /\ UNCHANGED <<flags, shutdown, active, tunnel>>

Main ==
  \/ ParseFlags \/ LoadDefaults \/ LoadConfig \/ LoadFails
  \/ NotifyContext \/ WireLocal \/ RequirePolicy \/ WireRemote \/ WiringFails
  \/ Bind \/ BindFails \/ Serve \/ ServeReturns \/ ClientReturns \/ Exit

Next ==
  \/ Main \/ AcceptFails
  \/ \E r \in Requests : AcceptRequest(r) \/ RequestEnds(r)
  \/ TunnelConnects \/ TunnelEnds
  \/ Signal \/ ShutdownBegins \/ ShutdownReturns \/ Restart

Spec == Init /\ [][Next]_vars

\* The two goroutines run. Streams and tunnels need not end, signals need not come.
FairSpec == Spec /\ WF_vars(Main) /\ WF_vars(ShutdownBegins)

-----------------------------------------------------------------------------
\* Types; an error status is set only on the way out, and nothing of a process
\* outlives it.
TypeOK ==
  /\ pc \in {"parseFlags", "loadConfig", "notify", "wireLocal", "policy", "wireRemote",
             "run", "listen", "bound", "serving", "returning", "exited"}
  /\ flags \in CommandLines
  /\ DOMAIN cfg = Fields
  /\ ctxDone \in BOOLEAN /\ code \in 0..2
  /\ shutdown \in {"none", "waiting", "polling", "returned"}
  /\ active \subseteq Requests /\ tunnel \in BOOLEAN
  /\ code # 0 => pc \in {"returning", "exited"}
  /\ pc = "exited" => shutdown = "none" /\ active = {} /\ ~tunnel

\* What the other modules assume of the configuration is true of every process
\* that serves, whichever keys its file sets or leaves to the defaults, and also
\* without a file, where validate is never called: a budget of at least one
\* stream, a backoff range that is not empty, timeouts that are not "disabled",
\* paths that a request can have; on the public side a pinned tunnel identity
\* and an allowlist, from wherever they come.
ServesSound ==
  pc \in {"run", "listen", "bound", "serving"} =>
    /\ cfg.MaxConcurrentStreams >= 1 /\ cfg.MaxStreamsPerCert >= 0
    /\ 0 < cfg.BackoffMin /\ cfg.BackoffMin <= cfg.BackoffMax
    /\ \A k \in durationFields : cfg[k] >= 1
    /\ cfg.MaxRequestBytes >= 1 /\ cfg.MaxHeaderBytes >= 1 /\ cfg.MaxStreamDuration >= 0
    /\ {cfg.TunnelPath} \cup cfg.AllowedPathPrefixes \subseteq Rooted
    /\ pc # "run" => cfg.AllowedPathPrefixes # {} /\ (flags.tunnelCN # "" \/ cfg.TunnelCN # "")

\* The process does not end well by itself: status 0 means that it was told to
\* stop, whatever fails in the moment the signal comes.
QuietExitOnlyOnSignal == pc = "exited" /\ code = 0 => ctxDone

\* A signal ends the process from every point of startup and service, with
\* streams that never end, a tunnel that stays open, or the port never bound.
SignalEndsProcess == ctxDone ~> pc = "exited"
=============================================================================
