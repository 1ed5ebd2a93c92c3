# TLA+ verification of opencode-proxy

opencode-proxy lets phones and laptops reach an opencode server that runs on a
machine at home, behind a router, without opening a port there. It has two halves
in one binary. The **remote** half (`--remote`, on a public host) accepts mutual-TLS
connections. The **local** half (`--local`, at home) dials out to the remote, upgrades
that connection to a yamux *tunnel*, and serves HTTP on the streams which the remote
opens through it. A device talks HTTPS to the remote, which forwards each request
through the one current tunnel.

This directory holds TLA+ models of the parts of that program with non-trivial state,
TLC configurations that check them on small instances, and TLAPS proofs of the most
important properties for every value of the constants. `PROJECT.json` says which lines
of the code every definition stands for (`map`), what each run checks (`runs`), which
mutation of the code each property detects (`mutants`), what is hard to test here
(`hazards`), where a comment or document and the code disagree (`findings`), and
what is proved (`theorems`).

    tlc -workers 2 -config MCSessionRegistry.cfg MCSessionRegistry
    tlapm SessionRegistryProofs.tla

Paths such as `remote.go:244` are relative to the repository's root.

## 1. Inventory of the system

| Component | Code | State | Operations |
|---|---|---|---|
| Session registry | `remote.go` 25-112 | `sess`, `cert` under `mu` | `Set`, `Get`, `Clear`, `CloseCurrentIfRevoked` |
| Tunnel upgrade handler | `remote.go` 280-302, 420-441, `tunnel.go` 97-109, 143-176 | one goroutine per upgrade, the hijacked connection, its yamux session | role and CN check, accept, `Set`, wait for close or cancel, `Clear`, close |
| Device request pipeline | `remote.go` 304-395 | one goroutine per request | revocation check of the tunnel, path policy, per-certificate share, shared slot, deadline, reverse proxy, deferred releases |
| Stream budgets | `remote.go` 151-196, 223-227, 340-385 | `sem` (buffered channel), `perCertLimiter.inUse` | `acquire`, `release`, send to and receive from `sem` |
| Stream opening | `tunnel.go` 172-208, `remote.go` 230-256 | result channel, two goroutines, the transport's idle streams | `raceCtx`; the dial of `http.Transport` with its idle pool |
| Revocation list | `tlsconf.go` 52-194 | serials, mtime and size of the file | `NewRevocationList`, `IsRevoked`, `LoadRevokedSerials` |
| Peer identity, TLS | `tlsconf.go` 197-353 | none | `VerifyPeerRole`, `VerifyPeerCN`, `verifyNotRevoked` |
| Home client | `local.go` 77-137, `tunnel.go` 85-141 | `attempt`, current session, `errCh`, `done` | `Run`, `DialTunnel`, `runTunnelSession`, `waitToRetry` |
| Backoff | `local.go` 140-198 | `min`, `max`, `attempt` | `Next`, `Reset`, `ResetIfStable` |
| Path policy | `remote.go` 398-417, `local.go` 60-75 | none | `pathIsNormalized`, `pathAllowed`, the tunnel path's dispatch |
| Configuration | `config.go` | none after startup | file over defaults, `validate`, `requireRemotePolicy` (`main.go` 210-218) |
| Process lifecycle | `main.go` | signal context, the HTTP server and its shutdown goroutine | `parseFlags`, `run`, `ListenAndServeTLS`, `Shutdown`, exit |
| Image updater | `scripts/update-image.sh`, units, `scripts/release.sh` | two image tags, `current.sha256`, the running service | download, verify, tag, import, restart, health check, roll back |
| Reverse proxy at home | `local.go` 28-58 | none | a configuration of `httputil.ReverseProxy` |
| PKI, release, deployment scripts | `pki/`, `scripts/`, `cloudformation/`, `vm/` | files | one-off provisioning |

How they interact. Upgrade handlers write the registry; device requests read it twice,
once in `CloseCurrentIfRevoked` (to judge the tunnel) and once in the transport's
`DialContext` (to use it). Both are called from goroutines that run concurrently with
any number of reconnects. The revocation list is asked in every TLS handshake and in
every device request, while an operator edits its file. The budgets are shared by all
device requests. At home one goroutine runs the loop and a second one serves each
tunnel; they meet in two channels. A signal cancels one context that all of them
watch. The updater is a shell script that a timer starts, and shares containerd's tags
and a file with systemd's restarts of the service.

What is hard here, and therefore modelled: reconnects that overlap (a laptop that slept
dials again before the remote has noticed that the old connection is dead); decisions
taken on a value read before an unlock; results that arrive after their caller has
left; every exit path of a request that holds two counted resources; file edits that
fall between a stat and a load; integer overflow in the backoff; crashes between two
commands of the updater. The `hazards` list has all of them at their lines.

What makes each component correct:

- *registry*: never loses a live tunnel, never keeps or leaks a dead or displaced one,
  never judges one session by another's certificate, looks to its readers like a single
  slot owned by the last writer;
- *budgets*: both counters are exact whatever way a request ends; no certificate holds
  everything; a slot comes back;
- *stream opening*: every stream is in exactly one party's hands, and a cancellation waits for nobody;
- *revocation*: a check answers what the file says, and a file that cannot be read lets no
  listed serial through;
- *home client*: one tunnel at a time, no goroutine left over, delays in range and not
  shrinking, a signal always ends it, a lost tunnel is always dialled again;
- *device pipeline*: only live device certificates get as far as the budgets, a slot
  comes back and a revoked device's streams end once the deadline has passed and the device reads, and a revoked tunnel goes with the next good request;
- *configuration and lifecycle*: no half serves with limits that read as "disabled" or
  without its policy; a signal ends the process from anywhere, a failure never looks like
  a clean stop;
- *path policy*: exactly what resolves below an allowed prefix goes through;
- *updater*: only signed images, a failed update leaves a running service, the recorded
  checksum is the deployed image's, a good release arrives.

## 2. Modules

| Module | Models | Proofs |
|---|---|---|
| `SessionRegistry` | registry, upgrade handlers, the two reads of a device request | `SessionRegistryProofs` |
| `TunnelSlot` | abstract specification: one slot, last writer wins | refined by `SessionRegistry` |
| `StreamBudget` | `deviceRequest`'s budgets and defers | in `RemoteProxyProofs` |
| `RemoteProxy` | the whole of `deviceRequest`; extends `StreamBudget` | `RemoteProxyProofs` |
| `StreamQuota` | abstract specification: a set of admitted requests within both limits | refined by `RemoteProxy` |
| `Config` | `DefaultConfig`, `UnmarshalJSON`, `validate`, `requireRemotePolicy` as operators | with `Process` |
| `Process` | `run` and `main` of both halves; extends `Config` | `ProcessProofs` |
| `RaceCtx` | `raceCtx`, its goroutines, the transport that calls it | `RaceCtxProofs` |
| `RevocationList` | the denylist, its file and the operator | `RevocationListProofs` |
| `Backoff`, `LocalClient` | the reconnect loop at home and its delays | `LocalClientProofs` |
| `PathPolicy` | the path guards of both halves | `PathPolicyProofs` |
| `UpdateImage` | `update-image.sh`, the timer, the publisher, faults | `UpdateImageProofs` |

`MC*` modules declare the model values and the constants a `.cfg` cannot write.
`LocalClient` needs none of them and is checked directly. Each module has, in a section of its own, variants
of its operators with a slip the code could have made; no specification uses them, and `PROJECT.json`
says which property detects which.

### SessionRegistry

`regSess` and `regCert` are the two fields of the struct. Each tunnel upgrade `s` has a
handler whose program counter `hpc[s]` goes through `tunnelUpgrade`: after the handshake
the role and CN checks (`Forbid`), `acceptTunnel` (`AcceptTunnel`, `AcceptFails`), `Set`
in three steps (`SetSwap` under the lock, then `IsClosed`, then `Close` of the old session
outside it), the wait in `waitForTunnelClose` for the session or for the context, and the
deferred `Clear` and `Close`. `sess[s]` is what `IsClosed` answers; `peer[s]` says whether
anybody still holds the other end. The two differ while a peer has vanished and yamux's
keepalive has not noticed it: this gap is where the interesting schedules are.

A device request has the program counter `rpc[r]`: `CheckCapture` is the critical section
of `CloseCurrentIfRevoked`, its evaluation and its `Close` are separate steps, and `Forward`
is the dial, or the reuse of an idle stream of `http.Transport`, which asks nobody.
`knownRevoked` is a history variable: what was revoked when the request began its check.

Everything inside `mu` is one action; every call outside it is one of its own.

`TunnelSlot` is what the callers of `Get` rely on: one slot which a session enters at most
once (`Install`; it may already be dead when its turn comes), the last one to enter wins, the
slot may become empty (`Lose`), and a session that was displaced or lost never comes back.
`ImplementsSlot` is the refinement: the abstract slot is what `Get` returns (the registered
session while it is open, otherwise none), and `spent` are the sessions whose handlers are past `Set`
or ended before it.

### StreamBudget

`Arrive`, `Reject` (every guard before the budgets, as one nondeterministic refusal),
`Acquire` or `RefuseCert`, `TakeSlot` or `RefuseSaturated`, `Finish`, and the
deferred releases in reverse order (`Defers`). `inUse` is a partial function, because the
code deletes a key whose count reaches zero. With `MaxStreamsPerCert = 0` the limiter is
off, as in the code.

### RemoteProxy and StreamQuota

`RemoteProxy` puts the guards in front of the budgets: `guard[r]` says which one an arrived request
meets next. `RefuseDevice`/`PassDevice` are the role check and the device's own revocation check,
`RefuseTunnel`/`PassTunnel` is `CloseCurrentIfRevoked`, `RefusePath` either path guard, `PassPath`
the call of `acquire` behind them. The actions of `StreamBudget` are conjoined with the new state, so
that each step of the pipeline is one of its steps or leaves it alone. Between any two guards devices
are revoked (`Revoke`), and the tunnel comes (`TunnelUp`), goes (`TunnelLost`) or is revoked
(`RevokeTunnel`). The tunnel is abstracted to what the pipeline sees of it; `SessionRegistry` has the
steps inside `CloseCurrentIfRevoked`. `late` is a history variable: the certificate was revoked
before the request arrived, so the connection it came on is older than the revocation.

The exchange itself has two bits per request. `expired`: the deadline has cancelled the request's
context (`Expire`). `blocked`: the proxy hangs in a write to a device that does not read (`Stall`,
`Unblock`), which the context does not end, since `newProxyServer` sets no `WriteTimeout` on purpose.
`ServeHTTP` returns when no write holds it. A write that returns after the deadline is the last one; one
that returns before it lets the exchange go on.

`StreamQuota` is the promise: a set of admitted requests, entered only below the shared limit and below
the certificate's. `ImplementsQuota` maps it to the requests that hold a slot.

### Config and Process

A configuration is a record with `Config`'s fields, a file a function from some of the keys to
values, `Null` and `Garbled` among them. `Decodes` is what `DisallowUnknownFields` and the parsers
let through, `UnmarshalJSON` the layering, `LoadSucceeds` the success of `LoadConfig`.

`Process` follows `run`: `pc` goes from `parseFlags` over `loadConfig`, `notify` (until
`NotifyContext` a signal kills the process), the wiring of either half and the policy check to `run`
(the home's loop, whose inside is `LocalClient`), or to `listen`, `bound`, `serving` (the steps of
`ListenAndServeTLS`), then `returning` and `exited`; systemd starts it again. `shutdown` is the
goroutine that calls `srv.Shutdown`, `active` the requests in flight, `tunnel` the hijacked
connection, which `Shutdown` does not see. `Exit` ends everything that still runs.

### RaceCtx

For each request that holds a slot `caller` and `conn`: waiting for a dial or using a stream. For each
dial the call of `raceCtx` (`dial`), the goroutine that runs `sess.Open` (`worker`), the buffered
channel (`ch`) and the goroutine that takes the result after the call has given up (`reaper`). The
`select` chooses freely when both of its channels are ready.

Between the two stands `http.Transport`, modelled from what `remote.go:238` asks of it: a request takes an idle stream
(`StartIdle`) or starts a dial (`StartDial`) and waits for whichever stream comes first, its own dial's,
another's that nobody waits for any more (`DeliverStream`), or one that another request is done with
(`FinishStream`). A stream nobody waits for goes to the pool while there is room (`PutIdle`). A request
that is cancelled stops waiting (`Abandon`) and its dial goes on: since Go 1.23 the transport detaches a dial's
context from the request's. What ends that context (`CancelDial`) is left open, so that `raceCtx` is checked for whatever
its caller does.

### RevocationList

The file has contents, an mtime and a size. An operator saves it by renaming a complete one over it
(`Save`) or in any other way (`BeginSave`, `FinishSave`), and then it is `Halfway` for a while: missing,
unparsable, empty, or some lines of the new list, the last of which may be cut short. A cut line is
mostly still a hexadecimal number, and so another serial. `NewLoad` and `NewStat` are `NewRevocationList`; `StatFile`,
`Reload`, `Lookup`, `Return` are `IsRevoked`, which holds its mutex throughout: only the
operator interleaves with it. `CoarseClock` lets a save keep the mtime, `StartupEdits` lets one
fall into startup. History: `untouched` (the file lay still during this check), `listed` (serials loaded at
startup and on every list the file could be loaded as since) and `kept` (serials which were in
force when the check began and which no save means to remove).

### LocalClient and Backoff

`Backoff` computes with integers of `Width` bits that wrap, as Go's `int64` does: `ShiftLeft` is
`min << attempt`, and `Delays` is the set of what `Next` may return, jitter being any value of its
interval. `LocalClient` chooses any
configuration `validate` accepts and runs the loop: dial, serve in a goroutine, wait for its end
or for the signal, sleep, again. `MaxSessions` bounds how often it dials.

### PathPolicy

A path is a sequence of segments, among them the empty one, `.` and `..`; prefixes are paths
as well. `pathIsNormalized` is `path.Clean(p) == p`, `Clean` being a walk over the segments;
`pathAllowed` compares at a segment boundary. A request passes the dispatch on the tunnel path,
the remote's guards and the home's, and reaches opencode or finds it unreachable (`Backend`). `Resolve` is the place a path leads to, the reference which
the properties use.

### UpdateImage

One action per command of the script that changes anything. A command may fail (`FetchFails`,
`TagFails`, `ImportFails`, `RestartFails`), which `set -e` turns into the end of the script or
`|| true` into nothing; the host may go down at any step (`Crash`). The publisher may exchange
the release between any two of the three downloads. `MaxFaults` bounds the faults of each kind,
and `faults` counts them. Images are signed or not and healthy or not.

## 3. Runs

A run uses `FairSpec` if it checks a liveness property and `Spec` otherwise. Deadlock checking is
on in all of them.

| Run | Distinct states | Shows |
|---|---|---|
| `registry` | 252 k | `RegistryPair`, `NoOrphanSession`, `TakeoverReported`, `ForwardOnlyAdmitted`, `CheckedTunnelNotRevoked`, `LiveTunnelNeverCleared`, `ClosedForCause`, `ImplementsSlot`; `DeadTunnelLeaves`, `ShutdownDrains`, `RevokedTunnelClosed` |
| `device` | 129 k | `BudgetsExact` (both counts exact, the cap kept, idle certificates forgotten), `OnlyLiveDevices`, `ImplementsQuota`; `BudgetComesBack`, `RevokedDeviceDrains`, `RevokedTunnelDropped` |
| `revocation` | 331 k | `AnswerIsFresh`, `RefusedWhileListed` |
| `client` | 307 k | `DelayWithinBounds`, `DelaysGrow`, `OneTunnelAtATime`, `NoGoroutineLeak`, `SignalStopsRun`, `Reconnects` |
| `race` | 24 k | `EveryStreamOwned`, `NotClosedUnderUser`, `CancelReturns`, `LateStreamSettles` |
| `update` | 113 k | `OnlySignedRuns`, `RecordedIsHealthy` under every fault; `FailedStillServes`, `UpToDateMeansRunning`, `Converges` while only downloads and imports have failed |
| `process` | 27 k | `ServesSound`, `QuietExitOnlyOnSignal`, `SignalEndsProcess` |
| `path` | 48 k | `OnlyAllowedPlaces`, `OnlyOthersForbidden`; as an `ASSUME` of `MCPathPolicy`, evaluated over all its paths, that the normal forms are the plain paths (`NormalFormsArePlain`) |
| `registry_toctou`, `revocation_startup`, `revocation_truncate`, `update_crash` | violations | section 4 |

The type invariants of `SessionRegistry`, `StreamBudget`, `RemoteProxy`, `RevocationList`, `UpdateImage`, `RaceCtx`
and `Process` are proved (section 5) and so have no place in the runs.

Why the bounds are enough:

- *two tunnels, a pinned and an unpinned certificate*: one session displaces another at any step of the
  other's handler and is revoked or dropped anywhere; the unpinned one is turned away. That a third session, a
  duplicate of the home or a spare certificate with the pinned CN changes nothing is proved: every safety
  property of this run is a theorem for any number of them. One
  request is enough, since requests affect each other only by closing sessions, which peers also do.
- *three requests, two devices and a certificate without the role, budget 2, cap 2*: both refusals occur,
  with the shared budget full and the share free and the other way round, and counts go above one. A cap below
  the budget, and the limiter switched off (cap 0), are covered by the theorems: every safety property of this
  run is one, and `NoMonopoly`, which only says something for a cap below the budget, is proved as well.
- *every command line, files of up to two keys, with and without an allowlist*: each branch of the decoder
  and of `validate` is taken by some value, and each relation it checks is between at most two keys. One request:
  `Shutdown` and the exit only ask whether there is any.
- *three saves of two serials*: the save a check misses, the one before it and one after it. The theorems hold
  for any number of either. The violations need two saves and one.
- *`Width = 6`*: all pairs `min <= max` that `validate` allows and all attempts up to and past the
  overflow, including values that wrap to small positive ones; the code's 64 bits differ only in size.
  Two sessions: one stable, one not, in either order. The theorems hold for any width and any number of sessions.
- *two requests, two dials, room for one idle stream*: a request gets the stream of another's dial or of another's
  exchange, and the pool is empty, or full when a stream comes back. The theorems hold for any number of each.
- *paths of up to four segments over two names*: a prefix of two segments, one step beyond it, and a
  dot segment or an empty one in any position. The theorems hold for paths of any length.
- *four images*: two good, one signed but broken, one healthy but unsigned. One fault of each of the five
  kinds, in any order and at any step.

Fairness, and why the code justifies it. *Goroutines that can run do run* (the Go scheduler): weak
fairness of the handlers' and the checks' steps, of `Run`'s steps, of the guards and the defers of
`deviceRequest`, of `run` and the goroutine that awaits the signal. *Timers fire*: the
keepalive (`SessionDies` for a session whose peer is gone), `MaxStreamDuration` (`Expire`), the
retry delay, `OnUnitActiveSec` (`TimerFires`). *A proxy whose context is cancelled and which no write holds returns.* *`Serve`
returns when its listener is closed, and a dial ends when its context is cancelled.* Nothing is
assumed of peers, devices, operator or publisher: a stream need not end, a write to
a device need not return, `sess.Open` need not return, a dial to a silent remote
need not return (`DialTunnel` has no timeout), a revocation need not come. `Reconnects` therefore
promises the next dial and not the next tunnel; `BudgetComesBack` and `RevokedDeviceDrains` speak of devices
that do not stop reading for ever (`KeepsReading`), and `LateStreamSettles` of dials whose `sess.Open` returns; `RevokedTunnelClosed` speaks of tunnels a request
meets, because the code re-evaluates a tunnel only then.

## 4. Findings

Each is a run that TLC must find violated; `PROJECT.json` quotes the sentence that disagrees. All windows
are narrow.

1. `registry_toctou`: the tunnel a request checks and the one it is forwarded through are read at
   two different times. A tunnel admitted before its revocation and installed in between carries one
   request.
2. `revocation_startup`: `NewRevocationList` loads before it stats; a save in between is never read.
3. `revocation_truncate`: a list that is written in place parses while it is empty or half written, so that a
   check in that moment installs what it finds; the comment on `IsRevoked` names a truncated file as its example of
   what keeps the last good set. `RefusedWhileListed` says what does hold.
4. `update_crash`: after a crash between import and verdict the next run takes the unjudged image as
   its rollback image; a failed unit then does not mean that the host still serves.

Limits of the same kind that are stated as conditions of a property instead of as a run:

- `AnswerIsFresh` holds if two saves never share both mtime and size. With `CoarseClock = TRUE` (a save
  within the clock's granularity, or `cp -p`) it fails: such a save is never read (`tlsconf.go:160`).
- `BudgetComesBack` and `RevokedDeviceDrains` hold under `KeepsReading`. A device that stops reading for ever, on a
  connection that stays up, keeps the proxy in a write: it keeps its slot beyond `MaxStreamDuration` and beyond its
  revocation, although the comment at `remote.go:369-371` says that a stream cannot outlive either for ever. There is no
  `WriteTimeout` (`main.go:190-193`), which would also cut the streams that are meant to be long.
- `UpToDateMeansRunning` holds as long as `Undisturbed`. After a crash between import and record, and if the
  release is then withdrawn, the script reports the host as up to date for good although another image runs.
- `sem` counts requests, not streams. A cancelled request returns its slot while its dial still opens a stream, and
  idle streams stay open in the transport (two at most, with no `IdleConnTimeout`), so that more than
  `MaxConcurrentStreams` may be open, although the comment at `remote.go:223-226` says that no more ever are in
  flight. `EveryStreamOwned` and `LateStreamSettles` are what holds: none of them is lost.
- The comment at `remote.go:239-242` gives to `raceCtx` that a cancelled request returns at once. With Go 1.24 the
  transport does so by itself and `raceCtx`'s `ctx.Done()` hardly ever wins; `CancelReturns` holds of both.
- `SignalEndsProcess` holds because `run` waits neither for `srv.Shutdown` nor for the tunnel's handler:
  `ListenAndServeTLS` returns as soon as `Shutdown` begins, and `main` with it. The five seconds at
  `main.go:178` are therefore an upper bound nobody waits for, streams in flight are cut at once, and an
  accepted tunnel usually ends with the process, although the comment at `remote.go:219-221` gives the context
  to it so that it should not. `ShutdownDrains` shows that it would drain.
- `replacedLive` is true for a home that slept and reconnects before the keepalive has fired, so the warning
  at `remote.go:431` does not imply a duplicate endpoint, as the comment above it says. `TakeoverReported` is the
  other direction: a session that `Set` closes while it is open is always reported.

## 5. Proofs

Proofs hold for every value of the constants, so for any number of sessions, requests, certificates,
saves and images, and without the bounds of section 3. They assume what the modules' `ASSUME`s say: null
values are no members of the sets, the sets that are counted are finite, limits are positive where
`validate` demands it, the image the host was deployed with is healthy. TLC evaluates each on every run.

**SessionRegistryProofs.** `TypeCorrect`, `RegistryPairHolds`, `NoOrphan`, `TakeoversReported`, `OnlyAdmitted`,
`CheckedNotRevoked`, the action properties `NeverClearsLive` and `OnlyForCause`, and `Refinement`
(`Spec => ImplementsSlot`). None of the invariants is inductive alone. `IInv` adds how a handler's
position determines the state of its session (`HandlerInv`: a handler that woke up or returned leaves
no open session behind), that what `Set` displaced had been registered by another handler (`OldInv`),
that the registered session's handler has installed it and not yet cleared it (`RegistryInv`), and
what a request's captured session can be at each of its steps (`RequestInv`). `NoOrphanSession` needs
`HandlerInv` for the handler that is about to close the displaced session; `NeverClearsLive` needs that
a handler reaches its `Clear` only after its session is closed; the refinement needs both: a
handler's `Clear` must not change what `Get` returns, and a session whose handler is past `Set` must
not enter the slot again.

**RemoteProxyProofs.** First the budgets alone, of `StreamBudget`: `TypeCorrect`, `SemExact`, `InUseExact`,
`WithinCapHolds`, `BudgetsExactHolds` (the three and `LimiterForgets` together), `NoMonopolyHolds`. `IInv` has the two
exact counts and `CapInv`, that no count exceeds the cap. Each action adds one request to a set of holders
or removes one, and the cardinality theorems turn this into plus or minus one. `LimiterForgets` follows from
the exact counts and from `TypeOK`, by which a count in the map is positive. `NoMonopoly` follows: holders
of a slot hold a share, and one certificate's shares are fewer than a full budget.
Then the pipeline: `PipelineKeepsBudgets` (`PSpec => Spec`: each step of the pipeline is one of
`StreamBudget` or a stutter) carries these theorems over to it. `GuardsTyped` and
`LiveDevicesOnly` rest on `LiveInv`: whoever is past the device guard has the role and came before its
revocation, which needs that `late` implies a revocation and that revocations are not taken back.
`QuotaRefinement` (`PSpec => ImplementsQuota`) uses the exact counts: a request that takes a slot has
already been counted by the limiter, so that the others of its certificate are fewer than the cap.

**ProcessProofs.** `TypeCorrect`, `SoundService` (`ServesSound` for any set of files whose numbers are
integers once parsed) and `QuietOnlyOnSignal`. `ConfigInv` says that the configuration is sound at every point,
by `validate` or because the defaults are, and that the policy was checked wherever the remote half can be behind
it; `SignalInv` that a shutdown has begun, or `run` has returned nil, only after a signal; `StartInv` that
nothing runs beside `run` where a signal still kills the process.

**RevocationListProofs.** `TypeCorrect`; `FreshAnswers`, assuming `~StartupEdits` and `~CoarseClock`;
`ListedStaysRefused`, without any assumption. Section 4 shows that the two of
`FreshAnswers` are needed. `FreshInv` says that equal stamps mean equal contents, which needs the stamp never to be newer than
the file (`TypeInv`), and that stat-then-load loses no save: a save after the stat leaves the stamp older
than the file, so the next check loads again. `ListedInv` says that a serial that
stood on every list is in the cached set whichever of them that was loaded from: a reload changes it only to a list
that was in the file, and a file that is missing or does not parse changes nothing.

**UpdateImageProofs.** `TypeCorrect`, `OnlySigned` and `RecordsHealthy` hold under every fault.
`FailedServes` and `UpToDateRuns` speak of states before any fault other than a failing download or import
(`Undisturbed`); finding 4 shows that a crash breaks them. `VerifiedInv` ties the tar to the checksum and to its signature from the step that checked
it; `JudgedInv` ties the image that was judged to the one that is recorded; `DeployedInv` says which of the two
tags names the deployed image at each step.

**RaceCtxProofs.** `TypeCorrect`, `StreamsOwned`, `NeverClosedUnderUser`, for any
number of requests and dials and any size of the pool. `DialInv` lists the six ways in which the call of `raceCtx`, the goroutine that opens, the channel
and the reaper can stand to each other: as long as a result is underway exactly one party will receive it, and the stream
is open exactly if that result is one. Neither property is inductive, because neither speaks of the result
between the return of `sess.Open` and its receipt. `UserInv`, `PoolInv` and `OpenInv` tie a stream that its dial has
done with to the one request that uses it or to the pool.

**LocalClientProofs.** `NextBaseExact` (on the attempts that `Next` counts, the wrapping shift with its overflow test
computes the smaller of the maximum and the unbounded product), `DelaysWithinBounds`, the action property `DelaysNeverShrink`, `OneTunnel`, `GoroutinesEnd`, and
`ErrChNeverBlocks` (the buffered channel: neither side waits for the other).
The integers have any width. That the shifts `Next` tries are exact, or are seen to overflow, needs that `2^n` is
positive, grows and doubles; these lemmas follow from the number of subsets of `1..n` by the cardinality theorems.
`BackoffInv` says that an attempt is counted only if the shift by one less was within the maximum: a later shift
could wrap to a small positive number, which the test `d <= 0 || d > b.max` would not notice. It also says that the last
delay does not exceed the base of the next, so that the delays grow although the jitter is chosen anew each time. `SessInv` and `GoroutineInv` say where in the loop a
session may be open, and where its goroutine may be: `Run` passes its receive from `done` only after the goroutine's
last step, so `NoGoroutineLeak` needs to know that `done` is closed by that step and by no other.

**PathPolicyProofs.** `NormalForms` (`pathIsNormalized` holds of the root and of the paths of ordinary segments, and of
nothing else), `OnlyAllowedReached`, `OnlyOthersRefused`, for paths of any length and any two allowlists. What `Walk` computes is
shown by induction over the length. The library states induction for an arbitrary predicate, which the
provers cannot instantiate; the lemma `Induction` states it for an arbitrary set and is proved from the theorem that a
nonempty set of naturals has a minimal element. By it the recursion has a solution (`WalkRecursion`), dot segments and empty ones do not
survive a walk (`WalkPlain`), ordinary segments all do (`PlainResolves`), and a trailing slash leads nowhere else
(`SlashResolves`). Hence a path a prefix allows leads under it, whatever form the prefix has
(`AllowedLeadsUnder`), and conversely for prefixes in normal form (`UnderIsAllowed`). The inductive invariant
`GuardsInv` says at each place which guards lie behind the request; the properties alone do not, as they are silent
about a request at home and about the normal form of what is in the tunnel.

TLC checked each inductive invariant on the bounds of section 3 before it was proved.

Only model-checked: the liveness properties (`DeadTunnelLeaves`, `ShutdownDrains`, `RevokedTunnelClosed`,
`BudgetComesBack`, `RevokedDeviceDrains`, `RevokedTunnelDropped`, `SignalStopsRun`, `Reconnects`, `CancelReturns`,
`LateStreamSettles`,
`Converges`, `SignalEndsProcess`), since fairness and `ENABLED` are beyond the prover. Every invariant, every action
property and both refinements that the passing runs check are theorems.

## 6. Abstractions, and what is not modelled

- `IsRevoked` in `SessionRegistry` answers from the set `revoked` at once; `RevocationList` shows when that is
  justified.
- `http.Transport`'s idle pool is a set of sessions with a reusable stream in `SessionRegistry`, its limits left out,
  and a set of streams with its limit in `RaceCtx`.
- A process that is told to stop goes on until its handlers have drained in `ShutdownDrains`; `Process` has the
  exit that may come earlier.
- In `Process` a signal that arrives after `run` has returned counts as handled; the default action that `stop`
  restores would end the process an instant earlier. The home's loop is one state there: that it ends after a
  signal is `SignalStopsRun` of `LocalClient`.
- In `RemoteProxy` a check of the tunnel is one step; the steps within it, and the second read of the registry,
  are in `SessionRegistry`. A revocation is not taken back.
- `ctr images tag` is taken to move an existing tag, as the script relies on. The missing-public-key branch is a
  failing verification. A broken image is one that is not active at the health check; one that flaps across the
  15 seconds is not modelled.
- TLS itself (chain verification, cipher suites, key loading), yamux, `net/http`, `httputil.ReverseProxy`
  and the body limits are libraries: they appear by their effects and are marked external in the map.
- PKI, release and deployment scripts have no concurrent state. The version headers only add to responses.
- `PathPolicy` works on the decoded `r.URL.Path`, which the code compares, and leaves out the base path
  of the opencode URL. A prefix written `/api/` allows what lies below it and refuses
  `/api` itself; `OnlyOthersForbidden` is therefore stated for prefixes in normal form.

## 7. Plan

Done: the modules above, in the order registry, budgets, revocation list, home client, stream opening, updater,
path policy, device pipeline with its quota, configuration, process lifecycle.

Proved: every safety property of the runs, and both refinements.

Next: the safety half of what the liveness properties rest on, in the manner of `ErrChNeverBlocks`: that a handler,
a request or a reaper that has to move on is never at a step whose guard is false.
