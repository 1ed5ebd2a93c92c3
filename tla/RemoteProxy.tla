----------------------------- MODULE RemoteProxy -----------------------------
(***************************************************************************)
(* A device request through the whole of deviceRequest (remote.go): the    *)
(* identity and revocation guards, the path guards, and then the budgets   *)
(* of StreamBudget, whose actions this module conjoins with its own state. *)
(* The tunnel is what CloseCurrentIfRevoked and Get see of it; its         *)
(* handlers are in SessionRegistry, the paths in PathPolicy.               *)
(***************************************************************************)
EXTENDS StreamBudget

CONSTANTS
  DeviceRole,      \* the serials VerifyPeerRole(_, OUDevice) accepts
  RevocationOn,    \* revocation # nil
  DurationBounded  \* MaxStreamDuration > 0

ASSUME RoleAssumption == DeviceRole \subseteq Serials /\ RevocationOn \in BOOLEAN
ASSUME DurationAssumption == DurationBounded \in BOOLEAN

VARIABLES
  guard,     \* the guard an arrived request is about to meet
  revoked,   \* serials of device certificates that IsRevoked refuses
  late,      \* history: the certificate was revoked before the request arrived
  expired,   \* the context of a forwarded request has reached its deadline
  blocked,   \* its ServeHTTP hangs in w.Write, to a device that does not read
  tunnel     \* none, up, or revoked: up, with a certificate that is now listed

serveVars == <<expired, blocked>>
pipeVars == <<guard, late, serveVars>>
envVars == <<revoked, tunnel>>
allVars == <<vars, pipeVars, envVars>>

Guards == {"device", "tunnel", "path"}

IsRevoked(k) == RevocationOn /\ k \in revoked

PInit ==
  /\ Init
  /\ guard = [r \in Requests |-> "none"]
  /\ late = [r \in Requests |-> FALSE]
  /\ expired = [r \in Requests |-> FALSE]
  /\ blocked = [r \in Requests |-> FALSE]
  /\ revoked = {}
  /\ tunnel = "none"

NextGuard(r, g) == guard' = [guard EXCEPT ![r] = g]

\* reject answers and deviceRequest returns.
Refuse(r) ==
  /\ Reject(r)
  /\ NextGuard(r, "none")
  /\ late' = [late EXCEPT ![r] = FALSE]
  /\ UNCHANGED serveVars

-----------------------------------------------------------------------------
(* Variants with a slip the code could have made; no specification uses them. *)

\* The handshake's VerifyConnection is trusted to have refused revoked devices.
PassDeviceTrustsHandshake(r) ==
  /\ pc[r] = "arrived" /\ guard[r] = "device"
  /\ serial[r] \in DeviceRole
  /\ NextGuard(r, "tunnel")
  /\ UNCHANGED <<vars, late, serveVars, envVars>>

\* A saturated server turns requests away before it looks at the tunnel.
PassDeviceIfFree(r) ==
  /\ pc[r] = "arrived" /\ guard[r] = "device"
  /\ serial[r] \in DeviceRole /\ ~IsRevoked(serial[r])
  /\ IF sem < MaxConcurrentStreams
       THEN NextGuard(r, "tunnel") /\ UNCHANGED <<vars, late, serveVars>>
       ELSE Refuse(r)
  /\ UNCHANGED envVars

\* The context with the deadline is made but not handed to the proxy.
ExpireIgnored(r) ==
  /\ pc[r] = "forwarding" /\ DurationBounded
  /\ UNCHANGED allVars

\* The deadline is that of a write and starts anew with the next one.
UnblockRearms(r) ==
  /\ blocked[r]
  /\ blocked' = [blocked EXCEPT ![r] = FALSE]
  /\ expired' = [expired EXCEPT ![r] = FALSE]
  /\ UNCHANGED <<vars, guard, late, envVars>>

-----------------------------------------------------------------------------
(* The devices, the operator and the tunnel.                               *)

\* A request on a connection whose handshake may have come before a revocation.
NewRequest(r, k) ==
  /\ Arrive(r, k)
  /\ NextGuard(r, "device")
  /\ late' = [late EXCEPT ![r] = IsRevoked(k)]
  /\ UNCHANGED <<serveVars, envVars>>

\* The operator lists a device's serial; the home's is RevokeTunnel.
Revoke(k) ==
  /\ k \in DeviceRole \ revoked
  /\ revoked' = revoked \cup {k}
  /\ UNCHANGED <<vars, pipeVars, tunnel>>

\* A home connects, or reconnects under another certificate, which may have been
\* revoked between its handshake and this moment.
TunnelUp ==
  /\ tunnel # "up"
  /\ tunnel' = "up" \/ (RevocationOn /\ tunnel' = "revoked")
  /\ UNCHANGED <<vars, pipeVars, revoked>>

TunnelLost ==
  /\ tunnel # "none"
  /\ tunnel' = "none"
  /\ UNCHANGED <<vars, pipeVars, revoked>>

RevokeTunnel ==
  /\ RevocationOn /\ tunnel = "up"
  /\ tunnel' = "revoked"
  /\ UNCHANGED <<vars, pipeVars, revoked>>

-----------------------------------------------------------------------------
(* The guards, in their order. Role and revocation of the device read       *)
(* nothing that changes in between; neither do the two path guards.         *)

\* 403: not a device certificate, or revoked since the handshake.
RefuseDevice(r) ==
  /\ guard[r] = "device"
  /\ serial[r] \notin DeviceRole \/ IsRevoked(serial[r])
  /\ Refuse(r)
  /\ UNCHANGED envVars

PassDevice(r) ==
  /\ pc[r] = "arrived" /\ guard[r] = "device"
  /\ serial[r] \in DeviceRole /\ ~IsRevoked(serial[r])
  /\ NextGuard(r, "tunnel")
  /\ UNCHANGED <<vars, late, serveVars, envVars>>

\* CloseCurrentIfRevoked closes the tunnel and the request gets its 503.
RefuseTunnel(r) ==
  /\ guard[r] = "tunnel" /\ tunnel = "revoked"
  /\ tunnel' = "none"
  /\ Refuse(r)
  /\ UNCHANGED revoked

PassTunnel(r) ==
  /\ pc[r] = "arrived" /\ guard[r] = "tunnel" /\ tunnel # "revoked"
  /\ NextGuard(r, "path")
  /\ UNCHANGED <<vars, late, serveVars, envVars>>

\* 400 or 403, as PathPolicy says.
RefusePath(r) ==
  /\ guard[r] = "path"
  /\ Refuse(r)
  /\ UNCHANGED envVars

\* An allowed path, and perCert.acquire succeeds or fails.
PassPath(r) ==
  /\ guard[r] = "path"
  /\ Acquire(r) \/ RefuseCert(r)
  /\ NextGuard(r, "none")
  /\ UNCHANGED <<late, serveVars, envVars>>

\* The semaphore and the defers, as in StreamBudget.
Proceed(r) ==
  /\ TakeSlot(r) \/ RefuseSaturated(r) \/ Defers(r)
  /\ UNCHANGED <<pipeVars, envVars>>

-----------------------------------------------------------------------------
(* The proxied exchange. The deadline cancels the request's context, which *)
(* ends the reads from the tunnel but no write to the device: newProxyServer *)
(* (main.go) sets no WriteTimeout.                                         *)

Expire(r) ==
  /\ pc[r] = "forwarding" /\ DurationBounded /\ ~expired[r]
  /\ expired' = [expired EXCEPT ![r] = TRUE]
  /\ UNCHANGED <<vars, guard, late, blocked, envVars>>

\* The proxy is done, or gives up, or its dial finds no tunnel and ErrorHandler answers.
ServeHTTP(r) ==
  /\ ~blocked[r]
  /\ Finish(r)
  /\ expired' = [expired EXCEPT ![r] = FALSE]
  /\ UNCHANGED <<guard, late, blocked, envVars>>

\* The device stops reading and the buffers are full: w.Write blocks.
Stall(r) ==
  /\ pc[r] = "forwarding" /\ ~blocked[r]
  /\ blocked' = [blocked EXCEPT ![r] = TRUE]
  /\ UNCHANGED <<vars, guard, late, expired, envVars>>

\* The write returns. With an error the proxy is done; if the device reads again, the
\* next read from the tunnel fails after the deadline, and goes on before it.
Unblock(r) ==
  /\ blocked[r]
  /\ blocked' = [blocked EXCEPT ![r] = FALSE]
  /\ \/ Finish(r) /\ expired' = [expired EXCEPT ![r] = FALSE]
     \/ ~expired[r] /\ UNCHANGED <<vars, expired>>
  /\ UNCHANGED <<guard, late, envVars>>

-----------------------------------------------------------------------------
Guarded(r) == RefuseDevice(r) \/ PassDevice(r) \/ RefuseTunnel(r) \/ PassTunnel(r) \/ PassPath(r)

PNext ==
  \/ \E r \in Requests :
       \/ \E k \in Serials : NewRequest(r, k)
       \/ Guarded(r) \/ RefusePath(r) \/ Proceed(r)
       \/ Expire(r) \/ ServeHTTP(r) \/ Stall(r) \/ Unblock(r)
  \/ \E k \in Serials : Revoke(k)
  \/ TunnelUp \/ TunnelLost \/ RevokeTunnel

PSpec == PInit /\ [][PNext]_allVars

\* The handler's own steps, the deadline's timer, and the proxy's return once its
\* context is cancelled and no write holds it. Nothing is assumed of the device: a
\* stream need not end and a blocked write need not return.
PFairSpec ==
  /\ PSpec
  /\ \A r \in Requests :
       WF_allVars(Guarded(r) \/ Proceed(r) \/ Expire(r) \/ (expired[r] /\ ServeHTTP(r)))

-----------------------------------------------------------------------------
\* Types; a request is at a guard exactly while it has arrived and holds nothing, and
\* only a forwarded one has a deadline behind it or a write that blocks.
PTypeOK ==
  /\ guard \in [Requests -> Guards \cup {"none"}]
  /\ late \in [Requests -> BOOLEAN]
  /\ revoked \in SUBSET Serials
  /\ tunnel \in {"none", "up", "revoked"}
  /\ expired \in [Requests -> BOOLEAN] /\ blocked \in [Requests -> BOOLEAN]
  /\ \A r \in Requests : guard[r] = "none" <=> pc[r] # "arrived"
  /\ \A r \in Requests : expired[r] \/ blocked[r] => pc[r] = "forwarding"

\* Whoever holds a share of the budgets has the device role and was not revoked
\* when its request arrived, on however old a connection; certificates without
\* the role cannot even make the limiter track them.
OnlyLiveDevices ==
  \A r \in Requests :
    pc[r] \notin {"idle", "arrived"} => serial[r] \in DeviceRole /\ ~late[r]

\* The device of the request does not stop reading for good.
KeepsReading(r) == []<>~blocked[r]

\* With MaxStreamDuration set, a stream that never ends by itself still gives
\* back its slot and its certificate's share, however often and however long its
\* device pauses, before the deadline or after it, unless it never reads again.
BudgetComesBack ==
  DurationBounded => \A r \in Requests :
    KeepsReading(r) => (pc[r] = "forwarding" ~> pc[r] = "idle")

\* MaxStreamDuration's promise (remote.go:369-371), as far as the code keeps it: a
\* revoked device that does not stop reading is cut off for good. Its last stream,
\* also one that passed the check just before the revocation, comes to its end, and
\* no later request of it holds anything.
RevokedDeviceDrains ==
  DurationBounded /\ (\A r \in Requests : KeepsReading(r)) =>
    \A k \in DeviceRole :
      IsRevoked(k) ~> [](\A r \in Requests : serial[r] = k => pc[r] \in {"idle", "arrived"})

\* A revoked tunnel goes with the first good device's request, also when that
\* request is refused for its path or because every slot is taken.
RevokedTunnelDropped ==
  \A r \in Requests :
    (guard[r] = "device" /\ serial[r] \in DeviceRole /\ tunnel = "revoked") ~>
      (tunnel # "revoked" \/ IsRevoked(serial[r]))

-----------------------------------------------------------------------------
Quota == INSTANCE StreamQuota WITH admitted <- {<<r, serial[r]>> : r \in SlotHolders}

\* The two counters, taken and given back in separate steps, implement the quota:
\* a request enters only below both limits, judged at the moment it enters.
ImplementsQuota == Quota!Spec
=============================================================================
