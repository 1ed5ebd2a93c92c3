----------------------- MODULE SessionRegistryProofs -----------------------
(***************************************************************************)
(* Proofs that the properties of SessionRegistry hold for any number of    *)
(* sessions, endpoints, requests and certificates.                         *)
(***************************************************************************)
EXTENDS SessionRegistry, TLAPS

\* What the registry holds: a session whose handler is between Set and Clear,
\* with its own certificate.
RegistryInv ==
  /\ RegistryPair
  /\ regSess # NoSess => hpc[regSess] \in Installed

\* How far a handler has come tells what has become of its session. A handler
\* that woke up, or returned, leaves no open session behind.
HandlerInv ==
  \A s \in Sessions :
    /\ hpc[s] \in {"idle", "upgrade"} => sess[s] = "none"
    /\ hpc[s] \in {"accepted"} \cup Installed => sess[s] # "none"
    /\ hpc[s] \in {"woken", "clearing"} => sess[s] = "closed"
    /\ hpc[s] = "done" => sess[s] # "open"
    /\ hpc[s] = "cancelled" => ctxDone
    /\ sess[s] # "none" => sessCert[s] \in Admissible

\* The session Set displaced was registered before, by another handler.
OldInv ==
  \A s \in Sessions :
    old[s] # NoSess => /\ old[s] # s
                       /\ sess[old[s]] # "none"
                       /\ hpc[old[s]] \in Installed \cup {"done"}

\* What a request captured is a session with its own certificate, and what
\* carries it is a session that was accepted. A captured session that passed
\* the check is closed, or was not known to be revoked.
RequestInv ==
  /\ \A r \in Requests :
       /\ rsess[r] # NoSess => sess[rsess[r]] # "none" /\ rcert[r] = sessCert[rsess[r]]
       /\ fsess[r] # NoSess => sess[fsess[r]] # "none"
       /\ knownRevoked[r] \subseteq revoked
       /\ rpc[r] = "revoking" => rcert[r] \in revoked /\ RevocationOn
       /\ RevocationOn /\ rsess[r] # NoSess /\ rpc[r] \in {"passed", "opening", "streaming"} =>
            \/ sess[rsess[r]] = "closed" /\ fsess[r] # rsess[r]
            \/ rcert[r] \notin knownRevoked[r]
       /\ rpc[r] \in {"idle", "captured", "evaluating", "revoking", "passed"} => fsess[r] = NoSess
  /\ \A s \in idle : sess[s] # "none"

IInv ==
  /\ TypeOK /\ RegistryInv /\ HandlerInv /\ OldInv /\ RequestInv
  /\ NoOrphanSession /\ TakeoverReported

\* Before any tunnel or request exists the invariant holds.
LEMMA InitIInv == Init => IInv
<1> SUFFICES ASSUME Init PROVE IInv
  OBVIOUS
<1> USE SessionsAssumption, CertsAssumption DEF Init
<1>1. TypeOK
  BY DEF TypeOK, HandlerStates, RequestStates, NoPeer
<1>2. RegistryInv
  BY DEF RegistryInv, RegistryPair
<1>3. HandlerInv /\ OldInv /\ NoOrphanSession /\ TakeoverReported
  BY DEF HandlerInv, OldInv, NoOrphanSession, TakeoverReported, Installed
<1>4. RequestInv
  BY DEF RequestInv
<1>5. QED
  BY <1>1, <1>2, <1>3, <1>4 DEF IInv

\* Every step keeps the inductive invariant.
LEMMA NextIInv == IInv /\ [Next]_vars => IInv'
<1> SUFFICES ASSUME IInv, [Next]_vars PROVE IInv'
  OBVIOUS
<1> USE SessionsAssumption, CertsAssumption, RevocationAssumption DEF IInv, TypeOK, RegistryInv, RegistryPair, HandlerInv, OldInv, NoOrphanSession, TakeoverReported, RequestInv,
  HandlerStates, RequestStates, Installed, NoPeer
<1>1. ASSUME NEW s \in Sessions, NEW e \in Endpoints, NEW c \in Certs, Handshake(s, e, c) PROVE IInv'
  BY <1>1 DEF Handshake, IsRevoked, regVars, sessVars, handlerVars, requestVars, checkVars, envVars
<1>2. ASSUME NEW s \in Sessions, PeerDrops(s) PROVE IInv'
  BY <1>2 DEF PeerDrops, regVars, sessVars, handlerVars, requestVars, checkVars, envVars
<1>3. ASSUME NEW s \in Sessions, SessionDies(s) PROVE IInv'
  BY <1>3 DEF SessionDies, Close, regVars, sessVars, handlerVars, requestVars, checkVars, envVars
<1>4. ASSUME NEW s \in Sessions, Forbid(s) PROVE IInv'
  BY <1>4 DEF Forbid, HandlerReturns, regVars, sessVars, handlerVars, requestVars, checkVars, envVars
<1>5. ASSUME NEW s \in Sessions, AcceptFails(s) PROVE IInv'
  BY <1>5 DEF AcceptFails, HandlerReturns, regVars, sessVars, handlerVars, requestVars, checkVars, envVars
<1>6. ASSUME NEW s \in Sessions, AcceptTunnel(s) PROVE IInv'
  BY <1>6 DEF AcceptTunnel, regVars, sessVars, handlerVars, requestVars, checkVars, envVars
<1>7. ASSUME NEW s \in Sessions, SetSwap(s) PROVE IInv'
  BY <1>7 DEF SetSwap, regVars, sessVars, handlerVars, requestVars, checkVars, envVars
<1>8. ASSUME NEW s \in Sessions, SetInspectOld(s) PROVE IInv'
  <2> USE <1>8 DEF SetInspectOld, regVars, sessVars, handlerVars, requestVars, checkVars, envVars
  <2>1. TypeOK' /\ RegistryInv' /\ HandlerInv' /\ OldInv' /\ RequestInv' /\ NoOrphanSession'
    OBVIOUS
  <2>2. replacedLive'[s] = (sess[old[s]] # "closed")
    OBVIOUS
  <2>3. \A t \in Sessions : t # s => replacedLive'[t] = replacedLive[t] /\ hpc'[t] = hpc[t]
    OBVIOUS
  <2>4. sess' = sess /\ old' = old
    OBVIOUS
  <2>5. TakeoverReported'
    <3> SUFFICES ASSUME NEW t \in Sessions, hpc'[t] = "closing", sess'[old'[t]] = "open"
                 PROVE  replacedLive'[t]
      BY Zenon
    <3>1. CASE t # s
      <4>1. hpc[t] = "closing" /\ sess[old[t]] = "open" /\ replacedLive'[t] = replacedLive[t]
        BY <2>3, <2>4, <3>1, Zenon
      <4>2. replacedLive[t]
        BY <4>1, Zenon
      <4>3. QED
        BY <4>1, <4>2, Zenon
    <3>2. CASE t = s
      <4>1. sess[old[s]] # "closed"
        BY <2>4, <3>2
      <4>2. QED
        BY <2>2, <3>2, <4>1, Zenon
    <3>3. QED
      BY <3>1, <3>2
  <2>6. QED
    BY <2>1, <2>5
<1>9. ASSUME NEW s \in Sessions, SetCloseOld(s) PROVE IInv'
  BY <1>9 DEF SetCloseOld, Close, regVars, sessVars, handlerVars, requestVars, checkVars, envVars
<1>10. ASSUME NEW s \in Sessions, WaitCtxDone(s) PROVE IInv'
  BY <1>10 DEF WaitCtxDone, regVars, sessVars, handlerVars, requestVars, checkVars, envVars
<1>11. ASSUME NEW s \in Sessions, WaitClosed(s) PROVE IInv'
  BY <1>11 DEF WaitClosed, regVars, sessVars, handlerVars, requestVars, checkVars, envVars
<1>12. ASSUME NEW s \in Sessions, OnCancel(s) PROVE IInv'
  BY <1>12 DEF OnCancel, Close, regVars, sessVars, handlerVars, requestVars, checkVars, envVars
<1>13. ASSUME NEW s \in Sessions, CloseOnCancel(s) PROVE IInv'
  BY <1>13 DEF CloseOnCancel, Close, regVars, sessVars, handlerVars, requestVars, checkVars, envVars
<1>14. ASSUME NEW s \in Sessions, Clear(s) PROVE IInv'
  BY <1>14 DEF Clear, HandlerReturns, regVars, sessVars, handlerVars, requestVars, checkVars, envVars
<1>15. ASSUME NEW r \in Requests, CheckCapture(r) PROVE IInv'
  BY <1>15 DEF CheckCapture, regVars, sessVars, handlerVars, requestVars, checkVars, envVars
<1>16. ASSUME NEW r \in Requests, CheckLive(r) PROVE IInv'
  BY <1>16 DEF CheckLive, regVars, sessVars, handlerVars, requestVars, checkVars, envVars
<1>17. ASSUME NEW r \in Requests, CheckIsRevoked(r) PROVE IInv'
  BY <1>17 DEF CheckIsRevoked, IsRevoked, regVars, sessVars, handlerVars, requestVars, checkVars, envVars
<1>18. ASSUME NEW r \in Requests, CloseRevoked(r) PROVE IInv'
  BY <1>18 DEF CloseRevoked, Close, RequestEnds, regVars, sessVars, handlerVars, requestVars, checkVars, envVars
<1>19. ASSUME NEW r \in Requests, DialGet(r) PROVE IInv'
  BY <1>19 DEF DialGet, regVars, sessVars, handlerVars, requestVars, checkVars, envVars
<1>20. ASSUME NEW r \in Requests, DialNoTunnel(r) PROVE IInv'
  BY <1>20 DEF DialNoTunnel, RequestEnds, regVars, sessVars, handlerVars, requestVars, checkVars, envVars
<1>21. ASSUME NEW r \in Requests, OpenStream(r) PROVE IInv'
  BY <1>21 DEF OpenStream, regVars, sessVars, handlerVars, requestVars, checkVars, envVars
<1>22. ASSUME NEW r \in Requests, OpenFails(r) PROVE IInv'
  BY <1>22 DEF OpenFails, RequestEnds, regVars, sessVars, handlerVars, requestVars, checkVars, envVars
<1>23. ASSUME NEW r \in Requests, ReuseIdle(r) PROVE IInv'
  BY <1>23 DEF ReuseIdle, regVars, sessVars, handlerVars, requestVars, checkVars, envVars
<1>24. ASSUME NEW r \in Requests, StreamEnds(r) PROVE IInv'
  BY <1>24 DEF StreamEnds, RequestEnds, regVars, sessVars, handlerVars, requestVars, checkVars, envVars
<1>25. ASSUME NEW r \in Requests, StreamPooled(r) PROVE IInv'
  BY <1>25 DEF StreamPooled, RequestEnds, regVars, sessVars, handlerVars, requestVars, checkVars, envVars
<1>26. ASSUME NEW c \in Certs, Revoke(c) PROVE IInv'
  BY <1>26 DEF Revoke, regVars, sessVars, handlerVars, requestVars, checkVars, envVars
<1>27. ASSUME Shutdown PROVE IInv'
  BY <1>27 DEF Shutdown, regVars, sessVars, handlerVars, requestVars, checkVars, envVars
<1>28. ASSUME UNCHANGED vars PROVE IInv'
  BY <1>28 DEF vars, regVars, sessVars, handlerVars, requestVars, checkVars, envVars
<1>29. QED
  BY <1>1, <1>2, <1>3, <1>4, <1>5, <1>6, <1>7, <1>8, <1>9, <1>10, <1>11, <1>12, <1>13, <1>14, <1>15, <1>16, <1>17, <1>18, <1>19, <1>20, <1>21, <1>22, <1>23, <1>24, <1>25, <1>26, <1>27, <1>28 DEF Next, Handler, Check, Forward

\* The inductive invariant holds in every behaviour.
LEMMA Invariance == Spec => []IInv
  BY InitIInv, NextIInv, PTL DEF Spec

\* No handler or request ever calls a method on a nil session.
THEOREM TypeCorrect == Spec => []TypeOK
<1>1. IInv => TypeOK
  BY DEF IInv
<1>2. QED
  BY <1>1, Invariance, PTL

\* The registry's certificate always belongs to the registry's session.
THEOREM RegistryPairHolds == Spec => []RegistryPair
<1>1. IInv => RegistryPair
  BY DEF IInv, RegistryInv
<1>2. QED
  BY <1>1, Invariance, PTL

\* However many upgrades race, a displaced tunnel is closed or about to be.
THEOREM NoOrphan == Spec => []NoOrphanSession
<1>1. IInv => NoOrphanSession
  BY DEF IInv
<1>2. QED
  BY <1>1, Invariance, PTL

\* Set never closes an open session without acceptTunnel's warning about it.
THEOREM TakeoversReported == Spec => []TakeoverReported
<1>1. IInv => TakeoverReported
  BY DEF IInv
<1>2. QED
  BY <1>1, Invariance, PTL

\* Requests are carried only by sessions that passed the role and the CN check.
THEOREM OnlyAdmitted == Spec => []ForwardOnlyAdmitted
<1>1. IInv => ForwardOnlyAdmitted
  BY DEF IInv, TypeOK, HandlerInv, RequestInv, ForwardOnlyAdmitted
<1>2. QED
  BY <1>1, Invariance, PTL

\* A request never travels on the session its own check should have closed.
THEOREM CheckedNotRevoked == Spec => []CheckedTunnelNotRevoked
<1>1. IInv => CheckedTunnelNotRevoked
  BY DEF IInv, TypeOK, RequestInv, CheckedTunnelNotRevoked
<1>2. QED
  BY <1>1, Invariance, PTL

\* Clear removes only a session that is closed.
THEOREM NeverClearsLive == Spec => LiveTunnelNeverCleared
<1> DEFINE Step == regSess # NoSess /\ regSess' = NoSess => sess[regSess] = "closed"
<1>1. IInv /\ [Next]_vars => [Step]_vars
  <2> SUFFICES ASSUME IInv, Next PROVE Step
    OBVIOUS
  <2>1. CASE UNCHANGED regSess
    BY <2>1
  <2>2. ASSUME NEW s \in Sessions, SetSwap(s) PROVE Step
    BY <2>2, SessionsAssumption DEF SetSwap
  <2>3. ASSUME NEW s \in Sessions, Clear(s) PROVE Step
    BY <2>3 DEF Clear, IInv, HandlerInv, regVars
  <2>4. QED
    BY <2>1, <2>2, <2>3
    DEF Next, Handler, Check, Forward, Handshake, PeerDrops, SessionDies, Forbid, AcceptFails,
        AcceptTunnel, SetInspectOld, SetCloseOld, WaitCtxDone, WaitClosed, OnCancel,
        CloseOnCancel, CheckCapture, CheckLive, CheckIsRevoked, CloseRevoked, DialGet,
        DialNoTunnel, OpenStream, OpenFails, ReuseIdle, StreamEnds, StreamPooled, Revoke,
        Shutdown, regVars
<1>2. QED
  BY <1>1, Invariance, PTL DEF Spec, LiveTunnelNeverCleared

\* What the session variables of one step may look like: one session is opened by
\* its handler, or one session is closed for a reason, or none changes.
LEMMA SessionChange ==
  ASSUME IInv, Next
  PROVE  \/ UNCHANGED sess
         \/ \E s \in Sessions : AcceptTunnel(s)
         \/ \E s \in Sessions :
              /\ Close(s) /\ UNCHANGED regVars
              /\ \/ peer[s] = NoPeer
                 \/ hpc[s] = "cancelled"
                 \/ sess[s] = "closed"
                 \/ \E t \in Sessions : hpc[t] = "closing" /\ old[t] = s
                 \/ \E r \in Requests : rpc[r] = "revoking" /\ rsess[r] = s
<1> USE DEF IInv, TypeOK, HandlerInv
<1>1. ASSUME NEW s \in Sessions, SessionDies(s) \/ OnCancel(s) \/ CloseOnCancel(s)
      PROVE  Close(s) /\ UNCHANGED regVars
             /\ (peer[s] = NoPeer \/ hpc[s] = "cancelled" \/ sess[s] = "closed")
  BY <1>1 DEF SessionDies, OnCancel, CloseOnCancel
<1>2. ASSUME NEW t \in Sessions, SetCloseOld(t)
      PROVE  old[t] \in Sessions /\ Close(old[t]) /\ UNCHANGED regVars /\ hpc[t] = "closing"
  BY <1>2 DEF SetCloseOld
<1>3. ASSUME NEW r \in Requests, CloseRevoked(r)
      PROVE  rsess[r] \in Sessions /\ Close(rsess[r]) /\ UNCHANGED regVars /\ rpc[r] = "revoking"
  BY <1>3 DEF CloseRevoked
<1>4. \/ UNCHANGED sess
      \/ \E s \in Sessions : AcceptTunnel(s)
      \/ \E s \in Sessions : SessionDies(s) \/ OnCancel(s) \/ CloseOnCancel(s)
      \/ \E t \in Sessions : SetCloseOld(t)
      \/ \E r \in Requests : CloseRevoked(r)
  BY DEF Next, Handler, Check, Forward, Handshake, PeerDrops, Forbid, AcceptFails,
         SetSwap, SetInspectOld, WaitCtxDone, WaitClosed, Clear,
         CheckCapture, CheckLive, CheckIsRevoked, DialGet,
         DialNoTunnel, OpenStream, OpenFails, ReuseIdle, StreamEnds, StreamPooled, Revoke,
         Shutdown, sessVars
<1>5. QED
  BY <1>1, <1>2, <1>3, <1>4

\* A live tunnel is never closed but for one of the four legitimate reasons.
THEOREM OnlyForCause == Spec => ClosedForCause
<1> DEFINE Cause(s) ==
      \/ peer[s] = NoPeer
      \/ ctxDone
      \/ \E t \in Sessions : hpc[t] = "closing" /\ old[t] = s
      \/ \E r \in Requests : rsess[r] = s /\ IsRevoked(sessCert[s])
<1> DEFINE Step == \A s \in Sessions : sess[s] = "open" /\ sess'[s] = "closed" => Cause(s)
<1>1. IInv /\ [Next]_vars => [Step]_vars
  <2> SUFFICES ASSUME IInv, Next, NEW s \in Sessions, sess[s] = "open", sess'[s] = "closed"
               PROVE  Cause(s)
    OBVIOUS
  <2> USE DEF IInv, TypeOK
  <2>1. ~ UNCHANGED sess /\ ~ \E a \in Sessions : AcceptTunnel(a)
    BY DEF AcceptTunnel
  <2>2. \/ peer[s] = NoPeer
        \/ hpc[s] = "cancelled"
        \/ \E t \in Sessions : hpc[t] = "closing" /\ old[t] = s
        \/ \E r \in Requests : rpc[r] = "revoking" /\ rsess[r] = s
    BY <2>1, SessionChange DEF Close
  <2>3. ASSUME NEW r \in Requests, rpc[r] = "revoking", rsess[r] = s
        PROVE  IsRevoked(sessCert[s])
    BY <2>3, SessionsAssumption DEF RequestInv, IsRevoked
  <2>4. QED
    BY <2>2, <2>3 DEF HandlerInv
<1>2. QED
  BY <1>1, Invariance, PTL DEF Spec, ClosedForCause

\* Seen through Get, the registry with all its races is the abstract slot.
THEOREM Refinement == Spec => ImplementsSlot
<1>1. Init => Slot!SlotInit
  BY DEF Init, Slot!SlotInit, Get, Spent, Installed
<1>2. IInv /\ [Next]_vars => [Slot!SlotNext]_(Slot!slotVars)
  <2> SUFFICES ASSUME IInv, [Next]_vars
               PROVE  Slot!SlotNext \/ UNCHANGED Slot!slotVars
    OBVIOUS
  <2> USE DEF IInv, TypeOK, Slot!slotVars
  <2>1. CASE UNCHANGED <<regSess, sess, hpc>>
    BY <2>1 DEF Get, Spent
  <2>2. ASSUME NEW s \in Sessions, SetSwap(s) PROVE Slot!Install(s)
    BY <2>2, SessionsAssumption DEF SetSwap, sessVars, Slot!Install, Get, Spent, Installed
  <2>3. ASSUME NEW s \in Sessions, Forbid(s) \/ AcceptFails(s) PROVE Slot!Refuse(s)
    BY <2>3 DEF Forbid, AcceptFails, HandlerReturns, regVars, Slot!Refuse, Get, Spent, Installed
  <2>4. ASSUME NEW s \in Sessions, Clear(s) PROVE UNCHANGED Slot!slotVars
    BY <2>4, SessionsAssumption
    DEF Clear, HandlerReturns, HandlerInv, regVars, Get, Spent, Installed
  <2>5. ASSUME NEW s \in Sessions, AcceptTunnel(s) PROVE UNCHANGED Slot!slotVars
    BY <2>5 DEF AcceptTunnel, RegistryInv, regVars, Get, Spent, Installed
  <2>6. ASSUME NEW s \in Sessions, Close(s), UNCHANGED regVars, Spent' = Spent
        PROVE  Slot!Lose \/ UNCHANGED Slot!slotVars
    BY <2>6 DEF Close, regVars, Get, Slot!Lose
  <2>7. ASSUME NEW s \in Sessions, SessionDies(s) \/ OnCancel(s) \/ CloseOnCancel(s)
        PROVE  Slot!Lose \/ UNCHANGED Slot!slotVars
    <3>1. Close(s) /\ UNCHANGED regVars /\ Spent' = Spent
      BY <2>7 DEF SessionDies, OnCancel, CloseOnCancel, handlerVars, Spent, Installed
    <3>2. QED
      BY <3>1, <2>6
  <2>8. ASSUME NEW t \in Sessions, SetCloseOld(t)
        PROVE  Slot!Lose \/ UNCHANGED Slot!slotVars
    <3>1. old[t] \in Sessions /\ Close(old[t]) /\ UNCHANGED regVars /\ Spent' = Spent
      BY <2>8 DEF SetCloseOld, Spent, Installed
    <3>2. QED
      BY <3>1, <2>6
  <2>9. ASSUME NEW r \in Requests, CloseRevoked(r)
        PROVE  Slot!Lose \/ UNCHANGED Slot!slotVars
    <3>1. rsess[r] \in Sessions /\ Close(rsess[r]) /\ UNCHANGED regVars /\ Spent' = Spent
      BY <2>9 DEF CloseRevoked, handlerVars, Spent
    <3>2. QED
      BY <3>1, <2>6
  <2>10. ASSUME NEW s \in Sessions,
                SetInspectOld(s) \/ WaitCtxDone(s) \/ WaitClosed(s)
         PROVE  UNCHANGED Slot!slotVars
    BY <2>10 DEF SetInspectOld, WaitCtxDone, WaitClosed, regVars, sessVars, Get, Spent, Installed
  <2>11. ASSUME NEW s \in Sessions, NEW e \in Endpoints, NEW c \in Certs, Handshake(s, e, c)
         PROVE  UNCHANGED Slot!slotVars
    BY <2>11 DEF Handshake, regVars, Get, Spent, Installed
  <2>12. QED
    BY <2>1, <2>2, <2>3, <2>4, <2>5, <2>7, <2>8, <2>9, <2>10, <2>11
    DEF Next, vars, Handler, Check, Forward, PeerDrops, CheckCapture, CheckLive, CheckIsRevoked,
        DialGet, DialNoTunnel, OpenStream, OpenFails, ReuseIdle, StreamEnds, StreamPooled,
        Revoke, Shutdown, regVars, sessVars, handlerVars, Slot!SlotNext
<1>3. QED
  BY <1>1, <1>2, Invariance, PTL DEF Spec, ImplementsSlot, Slot!Spec

============================================================================
