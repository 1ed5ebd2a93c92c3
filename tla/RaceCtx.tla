-------------------------------- MODULE RaceCtx --------------------------------
(***************************************************************************)
(* How a device request gets its yamux stream (tunnel.go, raceCtx, called  *)
(* by the DialContext of remote.go). The http.Transport between the two,   *)
(* modelled from how remote.go configures it, hands a request an idle      *)
(* stream or starts a dial in a goroutine of its own; the request waits    *)
(* for whichever stream comes first. A dial races its context against a    *)
(* goroutine that runs sess.Open, and a second goroutine takes care of a   *)
(* stream that arrives after the dial has given up.                        *)
(***************************************************************************)
EXTENDS Naturals, FiniteSets

CONSTANTS Requests,  \* requests that hold a slot of sem, one stream each
          Dials,     \* calls of DialContext, each named as the stream it may open
          NoDial,
          MaxIdle    \* http.DefaultMaxIdleConnsPerHost: remote.go sets no other

ASSUME DialAssumption == NoDial \notin Dials
ASSUME IdleAssumption == MaxIdle \in Nat

VARIABLES
  caller,     \* the request: idle, waiting for a stream, using one, leaving
  cancelled,  \* its context is done
  conn,       \* the dial a waiting request started, the stream a using one has
  dial,       \* DialContext: none, racing, or about to hand over a stream or an error
  ended,      \* the context it was given is done
  worker,     \* the goroutine that runs work(): none, opening, sending its result
  ch,         \* the buffered channel: empty, or holding a stream or an error
  reaper,     \* the goroutine for the late result: none, waiting, closing
  open,       \* streams that are open
  pool        \* those of them that lie idle in the transport

callVars == <<caller, cancelled, conn>>
dialVars == <<dial, ended, worker, ch, reaper>>
vars == <<callVars, dialVars, open, pool>>

Init ==
  /\ caller = [r \in Requests |-> "idle"]
  /\ cancelled = [r \in Requests |-> FALSE]
  /\ conn = [r \in Requests |-> NoDial]
  /\ dial = [d \in Dials |-> "none"]
  /\ ended = [d \in Dials |-> FALSE]
  /\ worker = [d \in Dials |-> "none"]
  /\ ch = [d \in Dials |-> "empty"]
  /\ reaper = [d \in Dials |-> "none"]
  /\ open = {} /\ pool = {}

\* Every goroutine of the dial has ended and its channel is empty.
Settled(d) == dial[d] = "none" /\ worker[d] = "none" /\ ch[d] = "empty" /\ reaper[d] = "none"

Waits(r) == caller[r] = "waiting"
Uses(r, d) == caller[r] = "using" /\ conn[r] = d

\* The request goes on with stream d, or ends its business with the transport.
Use(r, d) == caller' = [caller EXCEPT ![r] = "using"] /\ conn' = [conn EXCEPT ![r] = d]
Done(r) == caller' = [caller EXCEPT ![r] = "leaving"] /\ conn' = [conn EXCEPT ![r] = NoDial]

-----------------------------------------------------------------------------
(* Variants with a slip the code could have made; no specification uses them. *)

\* The late result is abandoned: no second goroutine.
GiveUpAbandons(d) ==
  /\ dial[d] = "racing" /\ ended[d]
  /\ dial' = [dial EXCEPT ![d] = "error"]
  /\ UNCHANGED <<callVars, ended, worker, ch, reaper, open, pool>>

\* raceCtx itself waits for the late result before it returns.
GiveUpWaits(d) ==
  /\ dial[d] = "racing" /\ ended[d] /\ ch[d] # "empty"
  /\ dial' = [dial EXCEPT ![d] = "error"]
  /\ reaper' = [reaper EXCEPT ![d] = "waiting"]
  /\ UNCHANGED <<callVars, ended, worker, ch, open, pool>>

\* The worker closes a late stream itself, and sends it all the same.
OpenSucceedsClosesLate(d) ==
  /\ worker[d] = "opening"
  /\ open' = IF ended[d] THEN open ELSE open \cup {d}
  /\ worker' = [worker EXCEPT ![d] = "sendingStream"]
  /\ UNCHANGED <<callVars, dial, ended, ch, reaper, pool>>

\* The second goroutine looks once instead of waiting for the result.
ReapPolls(d) ==
  /\ reaper[d] = "waiting"
  /\ ch' = [ch EXCEPT ![d] = "empty"]
  /\ reaper' = [reaper EXCEPT ![d] = IF ch[d] = "stream" THEN "closing" ELSE "none"]
  /\ UNCHANGED <<callVars, dial, ended, worker, open, pool>>

-----------------------------------------------------------------------------
(* The request.                                                            *)

\* The transport has an idle stream, opened for some earlier request.
StartIdle(r, d) ==
  /\ caller[r] = "idle" /\ d \in pool
  /\ Use(r, d)
  /\ pool' = pool \ {d}
  /\ UNCHANGED <<cancelled, dialVars, open>>

\* It has none, and dials: there is no tunnel, or raceCtx starts the worker.
StartDial(r, d) ==
  /\ caller[r] = "idle" /\ pool = {}
  /\ Settled(d) /\ d \notin open
  /\ caller' = [caller EXCEPT ![r] = "waiting"]
  /\ conn' = [conn EXCEPT ![r] = d]
  /\ \/ dial' = [dial EXCEPT ![d] = "error"] /\ UNCHANGED worker
     \/ /\ dial' = [dial EXCEPT ![d] = "racing"]
        /\ worker' = [worker EXCEPT ![d] = "opening"]
  /\ UNCHANGED <<cancelled, ended, ch, reaper, open, pool>>

\* The client hangs up, or MaxStreamDuration is over.
Cancel(r) ==
  /\ caller[r] \in {"waiting", "using"} /\ ~cancelled[r]
  /\ cancelled' = [cancelled EXCEPT ![r] = TRUE]
  /\ UNCHANGED <<caller, conn, dialVars, open, pool>>

\* RoundTrip returns the context's error. The dial goes on without the request.
Abandon(r) ==
  /\ Waits(r) /\ cancelled[r]
  /\ Done(r)
  /\ UNCHANGED <<cancelled, dialVars, open, pool>>

\* deviceRequest returns.
Leave(r) ==
  /\ caller[r] = "leaving"
  /\ caller' = [caller EXCEPT ![r] = "idle"]
  /\ cancelled' = [cancelled EXCEPT ![r] = FALSE]
  /\ UNCHANGED <<conn, dialVars, open, pool>>

-----------------------------------------------------------------------------
(* raceCtx.                                                                *)

\* The dial's context ends. The transport of go 1.24 has detached it from the
\* request's; that of older releases has not. raceCtx serves either.
CancelDial(d) ==
  /\ dial[d] = "racing" /\ ~ended[d]
  /\ ended' = [ended EXCEPT ![d] = TRUE]
  /\ UNCHANGED <<callVars, dial, worker, ch, reaper, open, pool>>

\* select: case <-ctx.Done(). It may win although the result is there.
GiveUp(d) ==
  /\ dial[d] = "racing" /\ ended[d]
  /\ dial' = [dial EXCEPT ![d] = "error"]
  /\ reaper' = [reaper EXCEPT ![d] = "waiting"]
  /\ UNCHANGED <<callVars, ended, worker, ch, open, pool>>

\* select: case r := <-ch.
TakeResult(d) ==
  /\ dial[d] = "racing" /\ ch[d] # "empty"
  /\ dial' = [dial EXCEPT ![d] = ch[d]]
  /\ ch' = [ch EXCEPT ![d] = "empty"]
  /\ UNCHANGED <<callVars, ended, worker, reaper, open, pool>>

\* work() returns a stream; it cannot be aborted.
OpenSucceeds(d) ==
  /\ worker[d] = "opening"
  /\ open' = open \cup {d}
  /\ worker' = [worker EXCEPT ![d] = "sendingStream"]
  /\ UNCHANGED <<callVars, dial, ended, ch, reaper, pool>>

\* work() returns an error: session closed, or StreamOpenTimeout.
OpenFails(d) ==
  /\ worker[d] = "opening"
  /\ worker' = [worker EXCEPT ![d] = "sendingError"]
  /\ UNCHANGED <<callVars, dial, ended, ch, reaper, open, pool>>

\* ch <- result, and the goroutine ends.
Send(d) ==
  /\ worker[d] \in {"sendingStream", "sendingError"} /\ ch[d] = "empty"
  /\ ch' = [ch EXCEPT ![d] = IF worker[d] = "sendingStream" THEN "stream" ELSE "error"]
  /\ worker' = [worker EXCEPT ![d] = "none"]
  /\ UNCHANGED <<callVars, dial, ended, reaper, open, pool>>

\* r := <-ch
Reap(d) ==
  /\ reaper[d] = "waiting" /\ ch[d] # "empty"
  /\ ch' = [ch EXCEPT ![d] = "empty"]
  /\ reaper' = [reaper EXCEPT ![d] = IF ch[d] = "stream" THEN "closing" ELSE "none"]
  /\ UNCHANGED <<callVars, dial, ended, worker, open, pool>>

\* c.Close()
CloseLate(d) ==
  /\ reaper[d] = "closing"
  /\ open' = open \ {d}
  /\ reaper' = [reaper EXCEPT ![d] = "none"]
  /\ UNCHANGED <<callVars, dial, ended, worker, ch, pool>>

-----------------------------------------------------------------------------
(* The transport and its idle streams.                                     *)

DialOver(d) ==
  /\ dial' = [dial EXCEPT ![d] = "none"]
  /\ ended' = [ended EXCEPT ![d] = FALSE]
  /\ UNCHANGED <<worker, ch, reaper>>

\* DialContext has returned an error: so does the request that waits for this dial.
DeliverError(d) ==
  /\ dial[d] = "error"
  /\ DialOver(d)
  /\ IF \E r \in Requests : Waits(r) /\ conn[r] = d
       THEN \E r \in Requests : Waits(r) /\ conn[r] = d /\ Done(r)
       ELSE UNCHANGED <<caller, conn>>
  /\ UNCHANGED <<cancelled, open, pool>>

\* Nobody waits for stream d: it is kept as long as there is room, and closed else.
PutIdle(d) ==
  IF Cardinality(pool) < MaxIdle
    THEN pool' = pool \cup {d} /\ UNCHANGED open
    ELSE open' = open \ {d} /\ UNCHANGED pool

\* DialContext has returned a stream: it is for the request that began the dial, if
\* that still waits, or for another that waits, or for later.
DeliverStream(d) ==
  /\ dial[d] = "stream"
  /\ DialOver(d)
  /\ \/ \E r \in Requests :
          /\ Waits(r)
          /\ conn[r] = d \/ ~ \E q \in Requests : Waits(q) /\ conn[q] = d
          /\ Use(r, d)
          /\ UNCHANGED <<open, pool>>
     \/ /\ \A r \in Requests : ~Waits(r)
        /\ PutIdle(d)
        /\ UNCHANGED <<caller, conn>>
  /\ UNCHANGED cancelled

\* The exchange is over. A stream whose response was read to its end is used again,
\* at once by a request that waits; any other is closed.
FinishStream(r) ==
  /\ caller[r] = "using"
  /\ \/ Done(r) /\ open' = open \ {conn[r]} /\ UNCHANGED pool
     \/ \E q \in Requests :
          /\ Waits(q)
          /\ caller' = [caller EXCEPT ![q] = "using", ![r] = "leaving"]
          /\ conn' = [conn EXCEPT ![q] = conn[r], ![r] = NoDial]
          /\ UNCHANGED <<open, pool>>
     \/ (\A q \in Requests : ~Waits(q)) /\ Done(r) /\ PutIdle(conn[r])
  /\ UNCHANGED <<cancelled, dialVars>>

\* The other end, or the whole session, is gone: the transport drops the stream.
DropIdle(d) ==
  /\ d \in pool
  /\ pool' = pool \ {d} /\ open' = open \ {d}
  /\ UNCHANGED <<callVars, dialVars>>

-----------------------------------------------------------------------------
Request(r) == Abandon(r) \/ Leave(r)
Dial(d) == GiveUp(d) \/ TakeResult(d) \/ DeliverError(d) \/ DeliverStream(d)
Open(d) == OpenSucceeds(d) \/ OpenFails(d)
Late(d) == Reap(d) \/ CloseLate(d)

Next ==
  \/ \E r \in Requests :
       \/ \E d \in Dials : StartIdle(r, d) \/ StartDial(r, d)
       \/ Cancel(r) \/ FinishStream(r) \/ Request(r)
  \/ \E d \in Dials : CancelDial(d) \/ Dial(d) \/ Open(d) \/ Send(d) \/ Late(d) \/ DropIdle(d)

Spec == Init /\ [][Next]_vars

\* Every goroutine makes progress. Nothing is assumed of sess.Open or of the exchange.
FairSpec ==
  /\ Spec
  /\ \A r \in Requests : WF_vars(Request(r))
  /\ \A d \in Dials : WF_vars(Dial(d)) /\ WF_vars(Send(d)) /\ WF_vars(Late(d))

-----------------------------------------------------------------------------
\* Types, and the channel's promise that the worker is never stuck on its send.
TypeOK ==
  /\ caller \in [Requests -> {"idle", "waiting", "using", "leaving"}]
  /\ cancelled \in [Requests -> BOOLEAN]
  /\ conn \in [Requests -> Dials \cup {NoDial}]
  /\ dial \in [Dials -> {"none", "racing", "stream", "error"}]
  /\ ended \in [Dials -> BOOLEAN]
  /\ worker \in [Dials -> {"none", "opening", "sendingStream", "sendingError"}]
  /\ ch \in [Dials -> {"empty", "stream", "error"}]
  /\ reaper \in [Dials -> {"none", "waiting", "closing"}]
  /\ open \in SUBSET Dials /\ pool \in SUBSET Dials
  /\ \A d \in Dials : worker[d] \in {"sendingStream", "sendingError"} => ch[d] = "empty"

\* Stream d is on its way from sess.Open to the transport or to its end: DialContext
\* or the reaper has it, or it is where one of them will receive it.
Underway(d) ==
  \/ dial[d] = "stream" \/ reaper[d] = "closing"
  \/ /\ worker[d] = "sendingStream" \/ ch[d] = "stream"
     /\ dial[d] = "racing" \/ reaper[d] = "waiting"

\* Every open stream is in somebody's hands: used by a request, idle in the transport,
\* or underway. None is orphaned by a cancellation, of the request or of the dial, that
\* arrives at the wrong moment (tunnel.go:176-182).
EveryStreamOwned ==
  \A d \in open : Underway(d) \/ d \in pool \/ \E r \in Requests : Uses(r, d)

\* The stream of a request is open and its alone: no other request has it, it does not
\* lie in the pool as well, and no goroutine of its dial is left to close it.
NotClosedUnderUser ==
  \A r \in Requests : caller[r] = "using" =>
    /\ conn[r] \in open \ pool /\ ~Underway(conn[r])
    /\ \A q \in Requests \ {r} : ~Uses(q, conn[r])

\* A cancellation is not held up by sess.Open, though that may never return: neither
\* the request (remote.go:239-242) nor the call of raceCtx (tunnel.go:172-175) waits on.
CancelReturns ==
  /\ \A r \in Requests : (Waits(r) /\ cancelled[r]) ~> ~Waits(r)
  /\ \A d \in Dials : (dial[d] = "racing" /\ ended[d]) ~> dial[d] # "racing"

\* If sess.Open returns, every goroutine of the dial ends and leaves nothing in the
\* channel, whichever side gave up when; with EveryStreamOwned, the stream has then been
\* closed, or is idle, or serves a request.
LateStreamSettles ==
  \A d \in Dials : []<>(worker[d] # "opening") => (worker[d] = "opening" ~> Settled(d))
=============================================================================
