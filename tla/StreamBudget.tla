----------------------------- MODULE StreamBudget -----------------------------
(***************************************************************************)
(* The two budgets a device request passes before it is forwarded          *)
(* (remote.go, deviceRequest): the per-certificate counters of             *)
(* perCertLimiter, and the counting semaphore sem shared by all requests.  *)
(* Both are given back by deferred calls, in the reverse order, whichever  *)
(* way the request ends; requests run concurrently and every defer is a    *)
(* step of its own.                                                        *)
(***************************************************************************)
EXTENDS Naturals, FiniteSets

CONSTANTS
  Requests,              \* slots for concurrent device requests
  Serials,               \* serials of the device certificates
  NoSerial,              \* no request, no certificate
  MaxConcurrentStreams,  \* capacity of sem; config.go refuses 0
  MaxStreamsPerCert      \* perCertLimiter.cap; 0 turns the limiter off

ASSUME RequestsFinite == IsFiniteSet(Requests)
ASSUME SerialsAssumption == NoSerial \notin Serials
ASSUME BudgetAssumption == /\ MaxConcurrentStreams \in Nat \ {0}
                           /\ MaxStreamsPerCert \in Nat

VARIABLES
  pc,       \* where each request stands in deviceRequest
  serial,   \* serialOf(leaf) of each request
  inUse,    \* perCertLimiter.inUse, a map that holds active serials only
  sem       \* how many elements the buffered channel sem holds

vars == <<pc, serial, inUse, sem>>

\* idle:       no request; arrived: before the guards; admitted: holds its
\*             certificate's share; forwarding: holds a slot of sem as well;
\* returning:  both defers are still to run; refunding: only release(serial) is.
States == {"idle", "arrived", "admitted", "forwarding", "returning", "refunding"}

\* p.inUse[serial]: a missing key reads as zero.
Count(k) == IF k \in DOMAIN inUse THEN inUse[k] ELSE 0

Goto(r, state) == pc' = [pc EXCEPT ![r] = state]

\* deviceRequest returns, and with it its local variables are gone.
Ends(r) == Goto(r, "idle") /\ serial' = [serial EXCEPT ![r] = NoSerial]

Init ==
  /\ pc = [r \in Requests |-> "idle"]
  /\ serial = [r \in Requests |-> NoSerial]
  /\ inUse = [k \in {} |-> 0]
  /\ sem = 0

-----------------------------------------------------------------------------
(* Variants with a slip the code could have made; no specification uses them. *)

\* The saturated branch returns before "defer release" has been reached.
RefuseSaturatedLeaks(r) ==
  /\ pc[r] = "admitted"
  /\ sem = MaxConcurrentStreams
  /\ Ends(r)
  /\ UNCHANGED <<inUse, sem>>

\* The deferred <-p.sem runs for a refused request as well.
RefuseSaturatedReturnsSlot(r) ==
  /\ pc[r] = "admitted"
  /\ sem = MaxConcurrentStreams
  /\ Goto(r, "returning")
  /\ UNCHANGED <<serial, inUse, sem>>

-----------------------------------------------------------------------------
Arrive(r, k) ==
  /\ pc[r] = "idle"
  /\ serial' = [serial EXCEPT ![r] = k]
  /\ Goto(r, "arrived")
  /\ UNCHANGED <<inUse, sem>>

\* The guards before the budgets: role, revoked certificate, revoked tunnel,
\* path. A refusal here has touched neither budget.
Reject(r) ==
  /\ pc[r] = "arrived"
  /\ Ends(r)
  /\ UNCHANGED <<inUse, sem>>

\* perCert.acquire succeeds.
Acquire(r) ==
  /\ pc[r] = "arrived"
  /\ MaxStreamsPerCert = 0 \/ Count(serial[r]) < MaxStreamsPerCert
  /\ inUse' = IF MaxStreamsPerCert = 0 THEN inUse
              ELSE [k \in DOMAIN inUse \cup {serial[r]} |->
                      IF k = serial[r] THEN Count(k) + 1 ELSE inUse[k]]
  /\ Goto(r, "admitted")
  /\ UNCHANGED <<serial, sem>>

\* perCert.acquire fails: 503.
RefuseCert(r) ==
  /\ pc[r] = "arrived"
  /\ MaxStreamsPerCert # 0 /\ Count(serial[r]) >= MaxStreamsPerCert
  /\ Ends(r)
  /\ UNCHANGED <<inUse, sem>>

\* select: the channel has room.
TakeSlot(r) ==
  /\ pc[r] = "admitted"
  /\ sem < MaxConcurrentStreams
  /\ sem' = sem + 1
  /\ Goto(r, "forwarding")
  /\ UNCHANGED <<serial, inUse>>

\* select, default: 503, with release(serial) deferred.
RefuseSaturated(r) ==
  /\ pc[r] = "admitted"
  /\ sem = MaxConcurrentStreams
  /\ Goto(r, "refunding")
  /\ UNCHANGED <<serial, inUse, sem>>

\* proxy.ServeHTTP returns or panics: response done, client gone, tunnel lost,
\* deadline passed, body over its cap. The defers run all the same.
Finish(r) ==
  /\ pc[r] = "forwarding"
  /\ Goto(r, "returning")
  /\ UNCHANGED <<serial, inUse, sem>>

\* Deferred <-p.sem: it would block on an empty channel.
ReturnSlot(r) ==
  /\ pc[r] = "returning" /\ sem > 0
  /\ sem' = sem - 1
  /\ Goto(r, "refunding")
  /\ UNCHANGED <<serial, inUse>>

\* Deferred perCert.release(serial).
Release(r) ==
  /\ pc[r] = "refunding"
  /\ LET k == serial[r] IN
       inUse' = IF MaxStreamsPerCert = 0 THEN inUse
                ELSE IF Count(k) <= 1 THEN [j \in DOMAIN inUse \ {k} |-> inUse[j]]
                ELSE [inUse EXCEPT ![k] = @ - 1]
  /\ Ends(r)
  /\ UNCHANGED sem

Defers(r) == ReturnSlot(r) \/ Release(r)

Next ==
  \E r \in Requests :
    \/ \E k \in Serials : Arrive(r, k)
    \/ Reject(r) \/ Acquire(r) \/ RefuseCert(r) \/ TakeSlot(r) \/ RefuseSaturated(r)
    \/ Finish(r) \/ Defers(r)

Spec == Init /\ [][Next]_vars

-----------------------------------------------------------------------------
SlotHolders == {r \in Requests : pc[r] \in {"forwarding", "returning"}}

CertHolders(k) ==
  {r \in Requests : serial[r] = k /\ pc[r] \in {"admitted", "forwarding", "returning", "refunding"}}

\* Types; inUse is a map from serials to positive counts.
TypeOK ==
  /\ pc \in [Requests -> States]
  /\ serial \in [Requests -> Serials \cup {NoSerial}]
  /\ \A r \in Requests : pc[r] # "idle" => serial[r] \in Serials
  /\ sem \in 0..MaxConcurrentStreams
  /\ DOMAIN inUse \subseteq Serials
  /\ \A k \in DOMAIN inUse : inUse[k] \in Nat \ {0}

\* The channel holds exactly one element per request between its send and its
\* deferred receive: no exit path leaks a slot or returns one it never took, so
\* <-p.sem never blocks and never takes another request's slot.
SemCountsHolders == sem = Cardinality(SlotHolders)

\* The limiter's map says of every certificate how many of its requests are in
\* flight, refused-but-not-yet-unwound ones included, and has no other keys.
InUseCountsHolders ==
  IF MaxStreamsPerCert = 0
    THEN DOMAIN inUse = {}
    ELSE \A k \in Serials : Count(k) = Cardinality(CertHolders(k))

\* No certificate has more requests in flight than its cap, those that wait for
\* their deferred release included.
WithinCap ==
  MaxStreamsPerCert # 0 => \A k \in Serials : Cardinality(CertHolders(k)) <= MaxStreamsPerCert

\* The limiter forgets: its map has a key for exactly the certificates with a
\* request in flight, so it cannot grow over the life of the process.
LimiterForgets ==
  MaxStreamsPerCert # 0 => DOMAIN inUse = {k \in Serials : CertHolders(k) # {}}

\* Both budgets of deviceRequest are exact at every step of every request,
\* whichever early return or defer it is at: nothing is leaked, nothing is given
\* back twice, the cap holds for the requests themselves, and what is no longer
\* in flight is forgotten.
BudgetsExact ==
  SemCountsHolders /\ InUseCountsHolders /\ WithinCap /\ LimiterForgets

\* With a cap below the size of the shared budget no single certificate can
\* use the whole budget up: a saturated semaphore is held by at least two.
NoMonopoly ==
  MaxStreamsPerCert \in 1..(MaxConcurrentStreams - 1) /\ sem = MaxConcurrentStreams =>
    \E r1, r2 \in SlotHolders : serial[r1] # serial[r2]
=============================================================================
