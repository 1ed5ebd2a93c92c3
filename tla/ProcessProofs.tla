---------------------------- MODULE ProcessProofs ----------------------------
(***************************************************************************)
(* Proofs that a process only serves with a sound configuration and only   *)
(* ends well on a signal, for any configuration file and any requests.     *)
(***************************************************************************)
EXTENDS Process, TLAPS

\* What validate has established, or DefaultConfig has by itself.
Sound(c) ==
  /\ c.MaxConcurrentStreams >= 1 /\ c.MaxStreamsPerCert >= 0
  /\ 0 < c.BackoffMin /\ c.BackoffMin <= c.BackoffMax
  /\ \A k \in durationFields : c[k] >= 1
  /\ c.MaxRequestBytes >= 1 /\ c.MaxHeaderBytes >= 1 /\ c.MaxStreamDuration >= 0
  /\ {c.TunnelPath} \cup c.AllowedPathPrefixes \subseteq Rooted

\* The configuration is sound at every point, and the policy has been checked
\* wherever the public side can be after requireRemotePolicy.
ConfigInv ==
  /\ Sound(cfg)
  /\ pc \in {"wireRemote", "listen", "bound", "serving"} => requireRemotePolicy(cfg, flags.tunnelCN)

\* Where the signal still kills the process, nothing of it runs beside run.
StartInv ==
  pc \in {"parseFlags", "loadConfig", "notify"} => shutdown = "none" /\ active = {} /\ ~tunnel

\* Shutdown begins on a signal only, and only a signal makes run return nil.
SignalInv ==
  /\ inShutdown => ctxDone
  /\ pc \in {"returning", "exited"} /\ code = 0 => ctxDone

\* The defaults are sound without validate.
LEMMA DefaultsSound == DOMAIN DefaultConfig = Fields /\ Sound(DefaultConfig)
  BY DefaultPathAssumption DEF DefaultConfig, Fields, Sound, durationFields

\* A file that loads layers to a sound configuration, whichever keys it sets.
LEMMA LayeredSound ==
  ASSUME NEW file \in Files, LoadSucceeds(file)
  PROVE  DOMAIN Layered(file) = Fields /\ Sound(Layered(file))
<1> DEFINE c == Layered(file)
<1>1. DOMAIN c = Fields
  BY DEF Layered, UnmarshalJSON
<1>2. durationFields \cup countFields \subseteq Fields
  BY DEF durationFields, countFields, Fields, DefaultConfig
<1>3. \A k \in durationFields \cup countFields : DefaultConfig[k] \in Int
  <2>1. /\ DefaultConfig.BackoffMin \in Int /\ DefaultConfig.BackoffMax \in Int
        /\ DefaultConfig.KeepAliveInterval \in Int /\ DefaultConfig.StreamOpenTimeout \in Int
        /\ DefaultConfig.ReadHeaderTimeout \in Int /\ DefaultConfig.IdleTimeout \in Int
    BY DEF DefaultConfig
  <2>2. /\ DefaultConfig.MaxConcurrentStreams \in Int /\ DefaultConfig.MaxStreamsPerCert \in Int
        /\ DefaultConfig.MaxStreamDuration \in Int
        /\ DefaultConfig.MaxRequestBytes \in Int /\ DefaultConfig.MaxHeaderBytes \in Int
    BY DEF DefaultConfig
  <2>3. QED
    BY <2>1, <2>2 DEF durationFields, countFields
<1>4. \A k \in durationFields \cup countFields : c[k] \in Int
  BY <1>2, <1>3, FilesAssumption DEF LoadSucceeds, Decodes, Layered, UnmarshalJSON
<1>5. validate(c)
  BY DEF LoadSucceeds
<1>6. QED
  BY <1>1, <1>4, <1>5 DEF validate, Sound, durationFields, countFields

IInv == TypeOK /\ StartInv /\ ConfigInv /\ SignalInv

\* A process starts with the defaults and without a signal.
LEMMA InitIInv == Init => IInv
<1> SUFFICES ASSUME Init PROVE IInv
  OBVIOUS
<1>1. DOMAIN cfg = Fields
  BY DEF Init, Fields
<1>2. TypeOK /\ StartInv /\ SignalInv
  <2>1. ~tunnel /\ tunnel \in BOOLEAN /\ ctxDone \in BOOLEAN /\ flags \in CommandLines
    BY Zenon DEF Init
  <2>2. code \in 0..2 /\ code = 0
    BY DEF Init
  <2>3. pc = "parseFlags" /\ shutdown = "none" /\ active = {}
    BY DEF Init
  <2>4. QED
    BY <1>1, <2>1, <2>2, <2>3 DEF TypeOK, StartInv, SignalInv, inShutdown
<1>3. ConfigInv
  BY DefaultsSound DEF Init, ConfigInv
<1>4. QED
  BY <1>2, <1>3 DEF IInv

\* Types, and what is left behind on the way out, are kept by every step.
LEMMA TypeStep == TypeOK /\ StartInv /\ [Next]_vars => (TypeOK /\ StartInv)'
<1> SUFFICES ASSUME TypeOK, StartInv, [Next]_vars PROVE (TypeOK /\ StartInv)'
  OBVIOUS
<1> USE DEF TypeOK, StartInv, wireVars, serverVars, Step, Return, inShutdown
<1>1. CASE ParseFlags \/ LoadDefaults \/ LoadFails \/ NotifyContext \/ WireLocal
  BY <1>1 DEF ParseFlags, LoadDefaults, LoadFails, NotifyContext, WireLocal
<1>2. CASE LoadConfig
  <2>1. DOMAIN cfg' = Fields
    BY <1>2, LayeredSound DEF LoadConfig
  <2>2. QED
    BY <1>2, <2>1 DEF LoadConfig
<1>3. CASE RequirePolicy \/ WireRemote \/ WiringFails
  BY <1>3 DEF RequirePolicy, WireRemote, WiringFails
<1>4. CASE Bind \/ BindFails \/ Serve \/ ServeReturns \/ ClientReturns \/ AcceptFails
  BY <1>4 DEF Bind, BindFails, Serve, ServeReturns, ClientReturns, AcceptFails
<1>5. CASE Signal
  <2>1. ctxDone' \in BOOLEAN
    BY <1>5, Zenon DEF Signal
  <2>2. /\ UNCHANGED <<flags, cfg, shutdown, active, tunnel>>
        /\ \/ pc \in {"parseFlags", "loadConfig", "notify"} /\ pc' = "exited" /\ code' = 2
           \/ UNCHANGED <<pc, code>>
    BY <1>5 DEF Signal
  <2>3. QED
    BY <2>1, <2>2
<1>6. CASE Restart
  <2>1. DOMAIN cfg' = Fields
    BY <1>6 DEF Restart, Fields
  <2>2. ctxDone' \in BOOLEAN /\ tunnel' = tunnel /\ active' = active /\ shutdown' = shutdown
    BY <1>6, Zenon DEF Restart
  <2>3. pc' = "parseFlags" /\ code' = 0 /\ flags' = flags /\ pc = "exited"
    BY <1>6 DEF Restart
  <2>4. QED
    BY <2>1, <2>2, <2>3
<1>7. ASSUME NEW r \in Requests, AcceptRequest(r) \/ RequestEnds(r) PROVE (TypeOK /\ StartInv)'
  BY <1>7 DEF AcceptRequest, RequestEnds
<1>8. CASE TunnelConnects \/ TunnelEnds
  BY <1>8 DEF TunnelConnects, TunnelEnds
<1>9. CASE UNCHANGED vars
  BY <1>9 DEF vars
<1>10. CASE Exit
  <2>1. ~tunnel' /\ tunnel' \in BOOLEAN /\ active' = {} /\ shutdown' = "none"
    BY <1>10, Zenon DEF Exit
  <2>2. pc' = "exited" /\ flags' = flags /\ cfg' = cfg /\ ctxDone' = ctxDone /\ code' = code
    BY <1>10 DEF Exit
  <2>3. QED
    BY <2>1, <2>2
<1>11. CASE ShutdownBegins \/ ShutdownReturns
  BY <1>11 DEF ShutdownBegins, ShutdownReturns, Running
<1>12. QED
  BY <1>1, <1>2, <1>3, <1>4, <1>5, <1>6, <1>7, <1>8, <1>9, <1>10, <1>11 DEF Next, Main

\* The configuration changes only when a sound one is loaded, or back to the
\* defaults on a restart.
LEMMA ConfigStep == TypeOK /\ ConfigInv /\ [Next]_vars => ConfigInv'
<1> SUFFICES ASSUME TypeOK, ConfigInv, [Next]_vars PROVE ConfigInv'
  OBVIOUS
<1>1. CASE LoadConfig
  <2>1. Sound(cfg') /\ pc' = "notify"
    BY <1>1, LayeredSound DEF LoadConfig, Step
  <2>2. QED
    BY <2>1 DEF ConfigInv, Sound
<1>2. CASE Restart
  <2>1. Sound(cfg') /\ pc' = "parseFlags"
    BY <1>2, DefaultsSound DEF Restart, Step
  <2>2. QED
    BY <2>1 DEF ConfigInv, Sound
<1>3. CASE RequirePolicy
  <2>1. UNCHANGED <<cfg, flags>> /\ (pc' = "wireRemote" => requireRemotePolicy(cfg, flags.tunnelCN))
        /\ pc' \in {"wireRemote", "returning"}
    BY <1>3 DEF RequirePolicy, Step, Return, wireVars
  <2>2. QED
    BY <2>1 DEF ConfigInv, Sound, requireRemotePolicy, EffectiveCN
<1>4. ASSUME UNCHANGED <<cfg, flags>>,
             pc' \in {"wireRemote", "listen", "bound", "serving"} =>
               pc \in {"wireRemote", "listen", "bound", "serving"}
      PROVE  ConfigInv'
  BY <1>4 DEF ConfigInv, Sound, requireRemotePolicy, EffectiveCN
<1>5. CASE ParseFlags \/ LoadDefaults \/ LoadFails \/ NotifyContext \/ WireLocal
  BY <1>4, <1>5 DEF ParseFlags, LoadDefaults, LoadFails, NotifyContext, WireLocal, Step, Return, wireVars
<1>6. CASE WireRemote \/ WiringFails \/ Bind \/ BindFails \/ Serve \/ ServeReturns \/ ClientReturns
  BY <1>4, <1>6 DEF WireRemote, WiringFails, Bind, BindFails, Serve, ServeReturns, ClientReturns,
                    Step, Return, wireVars
<1>7. CASE AcceptFails \/ TunnelConnects \/ TunnelEnds \/ Exit
           \/ (\E r \in Requests : AcceptRequest(r) \/ RequestEnds(r))
  BY <1>4, <1>7 DEF AcceptFails, TunnelConnects, TunnelEnds, Exit, AcceptRequest, RequestEnds,
                    Step, Return, wireVars
<1>8. CASE Signal \/ ShutdownBegins \/ ShutdownReturns \/ UNCHANGED vars
  BY <1>4, <1>8 DEF Signal, ShutdownBegins, ShutdownReturns, vars, wireVars
<1>9. QED
  BY <1>1, <1>2, <1>3, <1>5, <1>6, <1>7, <1>8 DEF Next, Main

\* Without a signal no step begins a shutdown or ends the process well.
LEMMA SignalStep == TypeOK /\ SignalInv /\ [Next]_vars => SignalInv'
<1> SUFFICES ASSUME TypeOK, SignalInv, [Next]_vars PROVE SignalInv'
  OBVIOUS
<1> USE DEF SignalInv, inShutdown, Step, Return, wireVars, serverVars
<1>1. CASE ParseFlags \/ LoadDefaults \/ LoadConfig \/ LoadFails \/ NotifyContext \/ WireLocal
  BY <1>1 DEF ParseFlags, LoadDefaults, LoadConfig, LoadFails, NotifyContext, WireLocal
<1>2. CASE RequirePolicy \/ WireRemote \/ WiringFails
  BY <1>2 DEF RequirePolicy, WireRemote, WiringFails
<1>3. CASE Bind \/ BindFails \/ Serve \/ ServeReturns \/ ClientReturns \/ AcceptFails
  BY <1>3 DEF Bind, BindFails, Serve, ServeReturns, ClientReturns, AcceptFails
<1>4. CASE TunnelConnects \/ TunnelEnds
           \/ (\E r \in Requests : AcceptRequest(r) \/ RequestEnds(r))
  BY <1>4 DEF TunnelConnects, TunnelEnds, AcceptRequest, RequestEnds
<1>5. CASE Signal
  <2>1. ctxDone'
    BY <1>5, Zenon DEF Signal
  <2>2. QED
    BY <2>1, Zenon
<1>6. CASE ShutdownBegins \/ ShutdownReturns \/ Exit
  BY <1>6 DEF ShutdownBegins, ShutdownReturns, Exit
<1>7. CASE Restart
  <2>1. pc' = "parseFlags" /\ shutdown' = "none"
    BY <1>7 DEF Restart, TypeOK
  <2>2. QED
    BY <2>1
<1>8. CASE UNCHANGED vars
  BY <1>8 DEF vars
<1>9. QED
  BY <1>1, <1>2, <1>3, <1>4, <1>5, <1>6, <1>7, <1>8 DEF Next, Main

\* The inductive invariant holds in every behaviour.
LEMMA Invariance == Spec => []IInv
<1>1. IInv /\ [Next]_vars => IInv'
  BY TypeStep, ConfigStep, SignalStep DEF IInv
<1>2. QED
  BY InitIInv, <1>1, PTL DEF Spec

\* Types; nothing of a process outlives it.
THEOREM TypeCorrect == Spec => []TypeOK
<1>1. IInv => TypeOK
  BY DEF IInv
<1>2. QED
  BY <1>1, Invariance, PTL

\* Whatever its file says or leaves out, a process that serves has limits,
\* timeouts and paths the other parts can rely on, and on the public side a
\* pinned tunnel identity and an allowlist.
THEOREM SoundService == Spec => []ServesSound
<1>1. IInv => ServesSound
  BY DEF IInv, ConfigInv, Sound, ServesSound, requireRemotePolicy, EffectiveCN
<1>2. QED
  BY <1>1, Invariance, PTL

\* Status 0 means that the process was told to stop.
THEOREM QuietOnlyOnSignal == Spec => []QuietExitOnlyOnSignal
<1>1. IInv => QuietExitOnlyOnSignal
  BY DEF IInv, SignalInv, QuietExitOnlyOnSignal
<1>2. QED
  BY <1>1, Invariance, PTL
=============================================================================
