--------------------------- MODULE SessionRegistry ---------------------------
(***************************************************************************)
(* The slot that holds the remote half's current tunnel (remote.go,        *)
(* SessionRegistry) together with everything that reads or writes it       *)
(* concurrently: the tunnel-upgrade handlers (tunnelUpgrade, acceptTunnel, *)
(* waitForTunnelClose) and the device requests (CloseCurrentIfRevoked and  *)
(* the DialContext closure of NewRemoteReverseProxy).                      *)
(*                                                                         *)
(* A critical section under reg.mu is one action; everything the code does *)
(* outside the lock (IsClosed, Close, IsRevoked, the waits) is an action   *)
(* of its own, because another goroutine may run in between.               *)
(***************************************************************************)
EXTENDS Naturals

CONSTANTS
  Sessions,     \* tunnel upgrade attempts; each one yields at most one yamux session
  Endpoints,    \* processes that dial the tunnel: the home, or a duplicate of it
  Requests,     \* slots for concurrent device requests
  Certs,        \* client certificates (identified with their serials)
  TunnelRole,   \* the certificates VerifyPeerRole(_, OUTunnel) accepts
  PinnedCN,     \* the ones VerifyPeerCN accepts; all of Certs when TunnelCN = ""
  RevocationOn, \* revocation # nil
  NoSess, NoCert

ASSUME SessionsAssumption == NoSess \notin Sessions
ASSUME CertsAssumption == /\ NoCert \notin Certs
                          /\ TunnelRole \subseteq Certs
                          /\ PinnedCN \subseteq Certs
ASSUME RevocationAssumption == RevocationOn \in BOOLEAN

VARIABLES
  regSess, regCert,   \* SessionRegistry.sess, SessionRegistry.cert
  sess,               \* yamux session of each upgrade: none, open, or closed (IsClosed)
  sessCert,           \* leaf certificate of the connection: leafCertOf(r.TLS)
  peer,               \* the endpoint still holding the other end, or none
  hpc,                \* where each tunnel-upgrade handler stands
  old,                \* Set's local variable old
  replacedLive,       \* Set's result
  rpc,                \* where each device request stands
  rsess, rcert,       \* CloseCurrentIfRevoked's local variables sess, cert
  fsess,              \* the session whose stream carries the request
  idle,               \* sessions with a stream in http.Transport's idle pool
  revoked,            \* serials on the denylist, as IsRevoked answers
  knownRevoked,       \* history: what was revoked when the request began its check
  ctxDone             \* ctx is cancelled: the process is shutting down

regVars  == <<regSess, regCert>>
sessVars == <<sess, sessCert, peer>>
handlerVars == <<hpc, old, replacedLive>>
checkVars == <<rsess, rcert, knownRevoked>>
requestVars == <<rpc, checkVars, fsess, idle>>
envVars == <<revoked, ctxDone>>
vars == <<regVars, sessVars, handlerVars, requestVars, envVars>>

NoPeer == "nopeer"

HandlerStates == {"idle", "upgrade", "accepted", "replacing", "closing",
                  "waiting", "cancelled", "woken", "clearing", "done"}

RequestStates == {"idle", "captured", "evaluating", "revoking", "passed",
                  "opening", "streaming"}

\* The handler has run Set's critical section and not yet Clear's.
Installed == {"replacing", "closing", "waiting", "cancelled", "woken", "clearing"}

Init ==
  /\ regSess = NoSess /\ regCert = NoCert
  /\ sess = [s \in Sessions |-> "none"]
  /\ sessCert = [s \in Sessions |-> NoCert]
  /\ peer = [s \in Sessions |-> NoPeer]
  /\ hpc = [s \in Sessions |-> "idle"]
  /\ old = [s \in Sessions |-> NoSess]
  /\ replacedLive = [s \in Sessions |-> FALSE]
  /\ rpc = [r \in Requests |-> "idle"]
  /\ rsess = [r \in Requests |-> NoSess]
  /\ rcert = [r \in Requests |-> NoCert]
  /\ fsess = [r \in Requests |-> NoSess]
  /\ idle = {}
  /\ knownRevoked = [r \in Requests |-> {}]
  /\ revoked = {}
  /\ ctxDone = FALSE

\* The certificates that pass both VerifyPeerRole and VerifyPeerCN.
Admissible == TunnelRole \cap PinnedCN

IsRevoked(c) == RevocationOn /\ c \in revoked

\* yamux: Close is idempotent, and a closed session never opens again.
Close(s) == sess' = [sess EXCEPT ![s] = "closed"]

\* deviceRequest returns: its locals are gone and the slot serves another request.
RequestEnds(r) ==
  /\ rpc' = [rpc EXCEPT ![r] = "idle"]
  /\ rsess' = [rsess EXCEPT ![r] = NoSess]
  /\ rcert' = [rcert EXCEPT ![r] = NoCert]
  /\ fsess' = [fsess EXCEPT ![r] = NoSess]
  /\ knownRevoked' = [knownRevoked EXCEPT ![r] = {}]

-----------------------------------------------------------------------------
(* Variants of the actions below, each with a slip the code could have made. *)
(* No specification uses them: they show what the properties would catch.   *)

SetSwapKeepsOldOpen(s) ==
  /\ hpc[s] = "accepted"
  /\ regSess' = s /\ regCert' = sessCert[s]
  /\ hpc' = [hpc EXCEPT ![s] = "waiting"]
  /\ UNCHANGED <<sessVars, old, replacedLive, requestVars, envVars>>

\* Clear forgets r.cert.
ClearKeepsCert(s) ==
  /\ hpc[s] = "clearing"
  /\ regSess' = IF regSess = s THEN NoSess ELSE regSess
  /\ hpc' = [hpc EXCEPT ![s] = "done"]
  /\ peer' = [peer EXCEPT ![s] = NoPeer]
  /\ UNCHANGED <<regCert, sess, sessCert, old, replacedLive, requestVars, envVars>>

\* Clear without "if r.sess == sess".
ClearClobbers(s) ==
  /\ hpc[s] = "clearing"
  /\ regSess' = NoSess /\ regCert' = NoCert
  /\ hpc' = [hpc EXCEPT ![s] = "done"]
  /\ peer' = [peer EXCEPT ![s] = NoPeer]
  /\ UNCHANGED <<sess, sessCert, old, replacedLive, requestVars, envVars>>

\* IsClosed is asked of whatever is registered now.
SetInspectCurrent(s) ==
  /\ hpc[s] = "replacing"
  /\ replacedLive' = [replacedLive EXCEPT ![s] = regSess # NoSess /\ regSess # s]
  /\ hpc' = [hpc EXCEPT ![s] = "closing"]
  /\ UNCHANGED <<regVars, sessVars, old, requestVars, envVars>>

\* A handler that is displaced registers its session again.
WaitClosedReclaims(s) ==
  /\ hpc[s] = "waiting" /\ regSess # s
  /\ hpc' = [hpc EXCEPT ![s] = "accepted"]
  /\ UNCHANGED <<regVars, sessVars, old, replacedLive, requestVars, envVars>>

\* Only the role is checked, not the CN.
AcceptTunnelRoleOnly(s) ==
  /\ hpc[s] = "upgrade"
  /\ sessCert[s] \in TunnelRole
  /\ sess' = [sess EXCEPT ![s] = "open"]
  /\ hpc' = [hpc EXCEPT ![s] = "accepted"]
  /\ UNCHANGED <<regVars, sessCert, peer, old, replacedLive, requestVars, envVars>>

\* The registry is read again: a session that was replaced meanwhile is let through.
CheckIsRevokedIfCurrent(r) ==
  /\ rpc[r] = "evaluating"
  /\ rpc' = [rpc EXCEPT ![r] =
       IF regSess = rsess[r] /\ IsRevoked(regCert) THEN "revoking" ELSE "passed"]
  /\ UNCHANGED <<regVars, sessVars, handlerVars, checkVars, fsess, idle, envVars>>

\* Whatever is registered now is closed, instead of the session that was judged.
CloseRevokedCurrent(r) ==
  /\ rpc[r] = "revoking"
  /\ Close(regSess)
  /\ RequestEnds(r)
  /\ UNCHANGED <<regVars, sessCert, peer, handlerVars, idle, envVars>>

\* The request is refused but the tunnel stays.
CloseRevokedRefuseOnly(r) ==
  /\ rpc[r] = "revoking"
  /\ RequestEnds(r)
  /\ UNCHANGED <<regVars, sessVars, handlerVars, idle, envVars>>

\* On cancellation the session is not closed, so <-done waits for the peer.
OnCancelNoClose(s) ==
  /\ hpc[s] = "cancelled" /\ sess[s] = "closed"
  /\ hpc' = [hpc EXCEPT ![s] = "woken"]
  /\ UNCHANGED <<regVars, sessVars, old, replacedLive, requestVars, envVars>>

\* Clear with the comparison inverted.
ClearOthers(s) ==
  /\ hpc[s] = "clearing"
  /\ IF regSess # s THEN regSess' = NoSess /\ regCert' = NoCert
                     ELSE UNCHANGED regVars
  /\ hpc' = [hpc EXCEPT ![s] = "done"]
  /\ peer' = [peer EXCEPT ![s] = NoPeer]
  /\ UNCHANGED <<sess, sessCert, old, replacedLive, requestVars, envVars>>

-----------------------------------------------------------------------------
(* The other end and the environment.                                      *)

\* VerifyConnection refuses a certificate that is revoked now; it never runs
\* again on this connection. An endpoint runs one tunnel at a time: LocalClient.Run
\* dials again only after its previous session has ended on its side.
Handshake(s, e, c) ==
  /\ hpc[s] = "idle" /\ ~ctxDone
  /\ \A t \in Sessions : peer[t] # e
  /\ ~IsRevoked(c)
  /\ hpc' = [hpc EXCEPT ![s] = "upgrade"]
  /\ sessCert' = [sessCert EXCEPT ![s] = c]
  /\ peer' = [peer EXCEPT ![s] = e]
  /\ UNCHANGED <<regVars, sess, old, replacedLive, requestVars, envVars>>

\* The endpoint sleeps, crashes, or loses its network: nothing tells the remote.
PeerDrops(s) ==
  /\ peer[s] # NoPeer
  /\ peer' = [peer EXCEPT ![s] = NoPeer]
  /\ UNCHANGED <<regVars, sess, sessCert, handlerVars, requestVars, envVars>>

\* yamux notices by a read error or a missed keepalive.
SessionDies(s) ==
  /\ sess[s] = "open" /\ peer[s] = NoPeer
  /\ Close(s)
  /\ UNCHANGED <<regVars, sessCert, peer, handlerVars, requestVars, envVars>>

\* The operator lists one more serial.
Revoke(c) ==
  /\ c \notin revoked
  /\ revoked' = revoked \cup {c}
  /\ UNCHANGED <<regVars, sessVars, handlerVars, requestVars, ctxDone>>

Shutdown ==
  /\ ~ctxDone
  /\ ctxDone' = TRUE
  /\ UNCHANGED <<regVars, sessVars, handlerVars, requestVars, revoked>>

-----------------------------------------------------------------------------
(* tunnelUpgrade and acceptTunnel.                                         *)

\* The handler is back in net/http and its connection is gone.
HandlerReturns(s) ==
  /\ hpc' = [hpc EXCEPT ![s] = "done"]
  /\ peer' = [peer EXCEPT ![s] = NoPeer]

\* 403: not the tunnel role, or not the pinned CN.
Forbid(s) ==
  /\ hpc[s] = "upgrade"
  /\ sessCert[s] \notin Admissible
  /\ HandlerReturns(s)
  /\ UNCHANGED <<regVars, sess, sessCert, old, replacedLive, requestVars, envVars>>

\* AcceptTunnel returns an error: no websocket upgrade, or yamux refuses.
AcceptFails(s) ==
  /\ hpc[s] = "upgrade"
  /\ sessCert[s] \in Admissible
  /\ HandlerReturns(s)
  /\ UNCHANGED <<regVars, sess, sessCert, old, replacedLive, requestVars, envVars>>

AcceptTunnel(s) ==
  /\ hpc[s] = "upgrade"
  /\ sessCert[s] \in Admissible
  /\ sess' = [sess EXCEPT ![s] = "open"]
  /\ hpc' = [hpc EXCEPT ![s] = "accepted"]
  /\ UNCHANGED <<regVars, sessCert, peer, old, replacedLive, requestVars, envVars>>

\* Set, under the lock.
SetSwap(s) ==
  /\ hpc[s] = "accepted"
  /\ regSess' = s /\ regCert' = sessCert[s]
  /\ old' = [old EXCEPT ![s] = regSess]
  /\ hpc' = [hpc EXCEPT ![s] = IF regSess = NoSess THEN "waiting" ELSE "replacing"]
  /\ UNCHANGED <<sessVars, replacedLive, requestVars, envVars>>

\* Set, after the unlock: replacedLive = !old.IsClosed().
SetInspectOld(s) ==
  /\ hpc[s] = "replacing"
  /\ replacedLive' = [replacedLive EXCEPT ![s] = sess[old[s]] # "closed"]
  /\ hpc' = [hpc EXCEPT ![s] = "closing"]
  /\ UNCHANGED <<regVars, sessVars, old, requestVars, envVars>>

\* Set, last: old.Close(); acceptTunnel then logs replacedLive and waits.
SetCloseOld(s) ==
  /\ hpc[s] = "closing"
  /\ Close(old[s])
  /\ hpc' = [hpc EXCEPT ![s] = "waiting"]
  /\ old' = [old EXCEPT ![s] = NoSess]
  /\ replacedLive' = [replacedLive EXCEPT ![s] = FALSE]
  /\ UNCHANGED <<regVars, sessCert, peer, requestVars, envVars>>

\* waitOrCancel's select. Both branches may be ready; Go picks either.
WaitCtxDone(s) ==
  /\ hpc[s] = "waiting" /\ ctxDone
  /\ hpc' = [hpc EXCEPT ![s] = "cancelled"]
  /\ UNCHANGED <<regVars, sessVars, old, replacedLive, requestVars, envVars>>

WaitClosed(s) ==
  /\ hpc[s] = "waiting" /\ sess[s] = "closed"
  /\ hpc' = [hpc EXCEPT ![s] = "woken"]
  /\ UNCHANGED <<regVars, sessVars, old, replacedLive, requestVars, envVars>>

\* onCancel closes the session, which fires CloseChan: <-done returns.
OnCancel(s) ==
  /\ hpc[s] = "cancelled"
  /\ Close(s)
  /\ hpc' = [hpc EXCEPT ![s] = "woken"]
  /\ UNCHANGED <<regVars, sessCert, peer, old, replacedLive, requestVars, envVars>>

\* closeOnCancel's own sess.Close(), whichever branch woke it.
CloseOnCancel(s) ==
  /\ hpc[s] = "woken"
  /\ Close(s)
  /\ hpc' = [hpc EXCEPT ![s] = "clearing"]
  /\ UNCHANGED <<regVars, sessCert, peer, old, replacedLive, requestVars, envVars>>

\* The deferred reg.Clear(sess); a newer session is left alone.
Clear(s) ==
  /\ hpc[s] = "clearing"
  /\ IF regSess = s THEN regSess' = NoSess /\ regCert' = NoCert
                    ELSE UNCHANGED regVars
  /\ HandlerReturns(s)
  /\ UNCHANGED <<sess, sessCert, old, replacedLive, requestVars, envVars>>

-----------------------------------------------------------------------------
(* deviceRequest: CloseCurrentIfRevoked, then the dial of the proxy.        *)

\* The two reads under the lock. With revocation nil the function returns first.
CheckCapture(r) ==
  /\ rpc[r] = "idle"
  /\ IF RevocationOn
       THEN /\ rsess' = [rsess EXCEPT ![r] = regSess]
            /\ rcert' = [rcert EXCEPT ![r] = regCert]
            /\ rpc' = [rpc EXCEPT ![r] = "captured"]
       ELSE /\ rpc' = [rpc EXCEPT ![r] = "passed"]
            /\ UNCHANGED <<rsess, rcert>>
  /\ knownRevoked' = [knownRevoked EXCEPT ![r] = revoked]
  /\ UNCHANGED <<regVars, sessVars, handlerVars, fsess, idle, envVars>>

\* No session, no certificate, or already closed: nothing to revoke.
CheckLive(r) ==
  /\ rpc[r] = "captured"
  /\ rpc' = [rpc EXCEPT ![r] =
       IF rsess[r] = NoSess \/ rcert[r] = NoCert THEN "passed"
       ELSE IF sess[rsess[r]] = "closed" THEN "passed" ELSE "evaluating"]
  /\ UNCHANGED <<regVars, sessVars, handlerVars, checkVars, fsess, idle, envVars>>

CheckIsRevoked(r) ==
  /\ rpc[r] = "evaluating"
  /\ rpc' = [rpc EXCEPT ![r] = IF IsRevoked(rcert[r]) THEN "revoking" ELSE "passed"]
  /\ UNCHANGED <<regVars, sessVars, handlerVars, checkVars, fsess, idle, envVars>>

\* sess.Close() on the captured session, and the 503.
CloseRevoked(r) ==
  /\ rpc[r] = "revoking"
  /\ Close(rsess[r])
  /\ RequestEnds(r)
  /\ UNCHANGED <<regVars, sessCert, peer, handlerVars, idle, envVars>>

\* reg.Get, under the lock.
DialGet(r) ==
  /\ rpc[r] = "passed" /\ regSess # NoSess
  /\ sess[regSess] # "closed"
  /\ fsess' = [fsess EXCEPT ![r] = regSess]
  /\ rpc' = [rpc EXCEPT ![r] = "opening"]
  /\ UNCHANGED <<regVars, sessVars, handlerVars, checkVars, idle, envVars>>

\* Get returns nil: the proxy's ErrorHandler answers 503.
DialNoTunnel(r) ==
  /\ rpc[r] = "passed"
  /\ regSess = NoSess \/ (regSess \in Sessions /\ sess[regSess] = "closed")
  /\ RequestEnds(r)
  /\ UNCHANGED <<regVars, sessVars, handlerVars, idle, envVars>>

\* sess.Open() succeeds only on a session that is still open.
OpenStream(r) ==
  /\ rpc[r] = "opening" /\ sess[fsess[r]] = "open"
  /\ rpc' = [rpc EXCEPT ![r] = "streaming"]
  /\ UNCHANGED <<regVars, sessVars, handlerVars, checkVars, fsess, idle, envVars>>

\* Open fails, or the request is cancelled meanwhile: ErrorHandler again.
OpenFails(r) ==
  /\ rpc[r] = "opening"
  /\ RequestEnds(r)
  /\ UNCHANGED <<regVars, sessVars, handlerVars, idle, envVars>>

\* The transport prefers an idle stream to a dial, so the request may travel on
\* whatever session that stream belongs to. A stream of a closed session fails
\* and the transport dials instead. Several streams of a session may be pooled.
ReuseIdle(r) ==
  /\ rpc[r] = "passed"
  /\ \E s \in idle :
       /\ sess[s] = "open"
       /\ fsess' = [fsess EXCEPT ![r] = s]
       /\ idle' \in {idle, idle \ {s}}
  /\ rpc' = [rpc EXCEPT ![r] = "streaming"]
  /\ UNCHANGED <<regVars, sessVars, handlerVars, checkVars, envVars>>

\* The response is cut by its session, or the request is cancelled.
StreamEnds(r) ==
  /\ rpc[r] = "streaming"
  /\ RequestEnds(r)
  /\ UNCHANGED <<regVars, sessVars, handlerVars, idle, envVars>>

\* The response completes and the transport keeps its stream for the next one.
StreamPooled(r) ==
  /\ rpc[r] = "streaming" /\ sess[fsess[r]] = "open"
  /\ idle' = idle \cup {fsess[r]}
  /\ RequestEnds(r)
  /\ UNCHANGED <<regVars, sessVars, handlerVars, envVars>>

-----------------------------------------------------------------------------
Handler(s) ==
  \/ Forbid(s) \/ AcceptFails(s) \/ AcceptTunnel(s)
  \/ SetSwap(s) \/ SetInspectOld(s) \/ SetCloseOld(s)
  \/ WaitCtxDone(s) \/ WaitClosed(s) \/ OnCancel(s) \/ CloseOnCancel(s) \/ Clear(s)

Check(r) == CheckLive(r) \/ CheckIsRevoked(r) \/ CloseRevoked(r)

Forward(r) ==
  \/ DialGet(r) \/ DialNoTunnel(r) \/ OpenStream(r) \/ OpenFails(r)
  \/ ReuseIdle(r) \/ StreamEnds(r) \/ StreamPooled(r)

Next ==
  \/ \E s \in Sessions, e \in Endpoints, c \in Certs : Handshake(s, e, c)
  \/ \E s \in Sessions : PeerDrops(s) \/ SessionDies(s) \/ Handler(s)
  \/ \E r \in Requests : CheckCapture(r) \/ Check(r) \/ Forward(r)
  \/ \E c \in Certs : Revoke(c)
  \/ Shutdown

Spec == Init /\ [][Next]_vars

\* Goroutines that can run do run, and yamux's keepalive eventually gives up on
\* a dead peer. Nothing is assumed of the peers, of the operator, of the devices.
FairSpec ==
  /\ Spec
  /\ \A s \in Sessions : WF_vars(Handler(s)) /\ WF_vars(SessionDies(s))
  /\ \A r \in Requests : WF_vars(Check(r))

-----------------------------------------------------------------------------
(* Safety.                                                                 *)

\* Types, and with them nil safety: Set, CloseCurrentIfRevoked and the dial call
\* methods only on sessions they have checked against nil.
TypeOK ==
  /\ regSess \in Sessions \cup {NoSess}
  /\ regCert \in Certs \cup {NoCert}
  /\ sess \in [Sessions -> {"none", "open", "closed"}]
  /\ sessCert \in [Sessions -> Certs \cup {NoCert}]
  /\ peer \in [Sessions -> Endpoints \cup {NoPeer}]
  /\ hpc \in [Sessions -> HandlerStates]
  /\ old \in [Sessions -> Sessions \cup {NoSess}]
  /\ replacedLive \in [Sessions -> BOOLEAN]
  /\ rpc \in [Requests -> RequestStates]
  /\ rsess \in [Requests -> Sessions \cup {NoSess}]
  /\ rcert \in [Requests -> Certs \cup {NoCert}]
  /\ fsess \in [Requests -> Sessions \cup {NoSess}]
  /\ idle \in SUBSET Sessions
  /\ revoked \in SUBSET Certs
  /\ knownRevoked \in [Requests -> SUBSET Certs]
  /\ ctxDone \in BOOLEAN
  /\ \A s \in Sessions : hpc[s] \in {"replacing", "closing"} => old[s] # NoSess
  /\ \A r \in Requests :
       /\ rpc[r] \in {"evaluating", "revoking"} => rsess[r] # NoSess /\ rcert[r] # NoCert
       /\ rpc[r] \in {"opening", "streaming"} => fsess[r] # NoSess

\* The certificate in the registry is the one the registered session was
\* authenticated with: Set and Clear replace both fields under one lock, so
\* CloseCurrentIfRevoked never judges a session by its predecessor's certificate.
RegistryPair ==
  /\ regSess = NoSess => regCert = NoCert
  /\ regSess # NoSess => regCert = sessCert[regSess]

\* A tunnel that was registered and is no longer the current one cannot stay
\* open unnoticed: while it is open, the handler whose Set displaced it still
\* has old.Close() ahead of it, although Set closes after releasing the lock.
NoOrphanSession ==
  \A s \in Sessions :
    sess[s] = "open" /\ hpc[s] \in Installed \cup {"done"} /\ regSess # s =>
      \E t \in Sessions : hpc[t] \in {"replacing", "closing"} /\ old[t] = s

\* No takeover goes unreported: when Set comes to close an open session, the
\* warning of acceptTunnel (remote.go:426-433) is certain, although IsClosed is
\* read after the unlock and other handlers and checks close sessions meanwhile.
TakeoverReported ==
  \A s \in Sessions : hpc[s] = "closing" /\ sess[old[s]] = "open" => replacedLive[s]

\* A request is only ever carried by a session whose connection passed both
\* the tunnel role and the pinned CN, even when the stream comes from the idle
\* pool and Get was never asked.
ForwardOnlyAdmitted ==
  \A r \in Requests :
    fsess[r] # NoSess => sessCert[fsess[r]] \in Admissible

\* If a request travels on the very session CloseCurrentIfRevoked looked at, the
\* certificate of that session was not revoked when the check began: the early
\* return for a session that is already closed cannot let a revoked one through.
CheckedTunnelNotRevoked ==
  \A r \in Requests :
    rpc[r] = "streaming" /\ RevocationOn /\ fsess[r] = rsess[r] =>
      sessCert[fsess[r]] \notin knownRevoked[r]

\* What the comment on CloseCurrentIfRevoked promises (remote.go:70-72): no
\* request that began after a revocation is forwarded through the revoked tunnel.
RevokedNeverForwarded ==
  \A r \in Requests :
    rpc[r] = "streaming" /\ RevocationOn =>
      sessCert[fsess[r]] \notin knownRevoked[r]

\* Clear never removes a live tunnel: the entry disappears only when the
\* session in it is closed, whatever handlers of older sessions still run.
LiveTunnelNeverCleared ==
  [][regSess # NoSess /\ regSess' = NoSess => sess[regSess] = "closed"]_vars

\* An open tunnel is closed for one of four reasons: its peer is gone, the
\* process shuts down, a newer tunnel replaced it, or a request found its own
\* certificate revoked. A check that lost the race against a reconnect never
\* closes the innocent successor.
ClosedForCause ==
  [][\A s \in Sessions : sess[s] = "open" /\ sess'[s] = "closed" =>
       \/ peer[s] = NoPeer
       \/ ctxDone
       \/ \E t \in Sessions : hpc[t] = "closing" /\ old[t] = s
       \/ \E r \in Requests : rsess[r] = s /\ IsRevoked(sessCert[s])]_vars

-----------------------------------------------------------------------------
(* Get as its callers see it implements the abstract slot.                 *)

Get == IF regSess = NoSess THEN NoSess
       ELSE IF sess[regSess] = "closed" THEN NoSess ELSE regSess

Spent == {s \in Sessions : hpc[s] \in Installed \cup {"done"}}

Slot == INSTANCE TunnelSlot WITH slot <- Get, spent <- Spent

\* Get changes only as the abstract slot does: a session enters at most once, the
\* last one to enter wins, and one that was displaced or lost never comes back.
ImplementsSlot == Slot!Spec

-----------------------------------------------------------------------------
(* Liveness, under FairSpec.                                               *)

\* A dead tunnel leaves the registry: the handler that registered it wakes up,
\* closes it and clears it, unless a newer tunnel has taken the slot.
DeadTunnelLeaves ==
  \A s \in Sessions : (regSess = s /\ peer[s] = NoPeer) ~> (regSess # s)

\* Once the shutdown context is cancelled every tunnel ends up closed and every
\* handler returns, also one that was still upgrading when the signal came.
ShutdownDrains ==
  ctxDone ~> [](\A s \in Sessions : sess[s] # "open" /\ hpc[s] \in {"idle", "done"})

\* A request that captures a tunnel whose certificate is already revoked gets
\* that tunnel closed.
RevokedTunnelClosed ==
  \A s \in Sessions, r \in Requests :
    (rpc[r] = "captured" /\ rsess[r] = s /\ IsRevoked(rcert[r])) ~> (sess[s] = "closed")

=============================================================================
