----------------------------- MODULE LocalClient -----------------------------
(***************************************************************************)
(* The home half's reconnect loop (local.go, LocalClient.Run) with the     *)
(* session driver it calls (tunnel.go: runTunnelSession, closeOnCancel,    *)
(* waitOrCancel), the goroutine that driver starts, and its two channels:  *)
(* errCh, buffered, and done.                                              *)
(***************************************************************************)
EXTENDS Backoff

CONSTANT MaxSessions   \* bound on the number of tunnels dialled

ASSUME MaxSessionsAssumption == MaxSessions \in Nat

ErrChCapacity == 1

VARIABLES
  min, max,     \* Backoff.min, Backoff.max: validated configuration
  attempt,      \* Backoff.attempt
  delay,        \* the last delay Next returned, 0 before the first
  uptime,       \* how long the last session was up
  cpc,          \* where Run stands
  dialled,      \* number of sessions dialled so far
  sess,         \* the current session: open or closed
  live,         \* sessions this process has open, the current one and any other
  gpc,          \* the goroutine of the current runTunnelSession
  stale,        \* goroutines of earlier calls that still run
  errCh,        \* number of results in errCh
  done,         \* done is closed
  ctxDone       \* SIGTERM or SIGINT

backoffVars == <<min, max, attempt, delay, uptime>>
sessVars == <<dialled, sess, live>>
chanVars == <<gpc, errCh, done>>
vars == <<backoffVars, cpc, sessVars, chanVars, stale, ctxDone>>

\* loop: the for condition; dialling: DialTunnel; selecting, cancelling,
\* draining: waitOrCancel's select, onCancel, <-done; closing: closeOnCancel's
\* own Close; receiving: <-errCh; sleeping: sleepCtx; returned: Run is done.
RunStates == {"loop", "dialling", "selecting", "cancelling", "draining",
              "closing", "closingCancelled", "receiving", "sleeping", "returned"}

Init ==
  /\ min \in 1..MaxDuration /\ max \in min..MaxDuration
  /\ attempt = 0 /\ delay = 0 /\ uptime = 0
  /\ cpc = "loop"
  /\ dialled = 0 /\ sess = "closed" /\ live = 0
  /\ gpc = "none" /\ stale = 0
  /\ errCh = 0 /\ done = FALSE
  /\ ctxDone = FALSE

\* yamux Close, idempotent.
CloseSess ==
  /\ sess' = "closed"
  /\ live' = IF sess = "open" THEN live - 1 ELSE live

\* Backoff.attempt after a session that was up for d.
ResetIfStable(d) == IF d >= min THEN 0 ELSE attempt

\* waitToRetry: backoff.Next, then sleepCtx.
GoToSleep ==
  /\ delay' \in Delays(min, max, attempt)
  /\ attempt' = NextAttempt(min, max, attempt)
  /\ cpc' = "sleeping"

-----------------------------------------------------------------------------
(* Variants with a slip the code could have made; no specification uses them. *)

\* waitOrCancel returns without waiting for done.
OnCancelNoWait ==
  /\ cpc = "cancelling"
  /\ CloseSess
  /\ cpc' = "closingCancelled"
  /\ UNCHANGED <<backoffVars, dialled, chanVars, stale, ctxDone>>

\* waitOrCancel waits for done without closing the session first.
OnCancelNoClose ==
  /\ cpc = "cancelling"
  /\ cpc' = "draining"
  /\ UNCHANGED <<backoffVars, sessVars, chanVars, stale, ctxDone>>

\* closeOnCancel leaves a session alone whose run has ended.
CloseAfterDoneSkipped ==
  /\ cpc = "closing"
  /\ cpc' = "receiving"
  /\ UNCHANGED <<backoffVars, sessVars, chanVars, stale, ctxDone>>

\* errCh without its buffer: the send waits for the receiver.
SendErrUnbuffered ==
  /\ gpc = "sending" /\ cpc = "receiving"
  /\ errCh' = errCh + 1
  /\ gpc' = "signalling"
  /\ UNCHANGED <<backoffVars, cpc, sessVars, done, stale, ctxDone>>

\* Every session resets the backoff, however short it was.
ReceiveErrAlwaysResets(d) ==
  /\ cpc = "receiving" /\ errCh > 0
  /\ errCh' = errCh - 1
  /\ uptime' = d
  /\ delay' \in Delays(min, max, 0)
  /\ attempt' = NextAttempt(min, max, 0)
  /\ cpc' = "sleeping"
  /\ UNCHANGED <<min, max, sessVars, gpc, done, stale, ctxDone>>

-----------------------------------------------------------------------------
(* Run.                                                                    *)

\* for ctx.Err() == nil
Loop ==
  /\ cpc = "loop"
  /\ cpc' = IF ctxDone THEN "returned" ELSE "dialling"
  /\ UNCHANGED <<backoffVars, sessVars, chanVars, stale, ctxDone>>

\* The dial fails: unreachable, refused, or its context is cancelled.
DialFails ==
  /\ cpc = "dialling"
  /\ GoToSleep
  /\ UNCHANGED <<min, max, uptime, sessVars, chanVars, stale, ctxDone>>

\* runTunnelSession makes its channels and starts its goroutine.
DialSucceeds ==
  /\ cpc = "dialling" /\ dialled < MaxSessions
  /\ dialled' = dialled + 1
  /\ sess' = "open" /\ live' = live + 1
  /\ stale' = IF gpc \in {"none", "finished"} THEN stale ELSE stale + 1
  /\ gpc' = "running" /\ errCh' = 0 /\ done' = FALSE
  /\ cpc' = "selecting"
  /\ UNCHANGED <<backoffVars, ctxDone>>

\* waitOrCancel's select; both branches may be ready.
SelectCtxDone ==
  /\ cpc = "selecting" /\ ctxDone
  /\ cpc' = "cancelling"
  /\ UNCHANGED <<backoffVars, sessVars, chanVars, stale, ctxDone>>

SelectDone ==
  /\ cpc = "selecting" /\ done
  /\ cpc' = "closing"
  /\ UNCHANGED <<backoffVars, sessVars, chanVars, stale, ctxDone>>

OnCancel ==
  /\ cpc = "cancelling"
  /\ CloseSess
  /\ cpc' = "draining"
  /\ UNCHANGED <<backoffVars, dialled, chanVars, stale, ctxDone>>

Drain ==
  /\ cpc = "draining" /\ done
  /\ cpc' = "closingCancelled"
  /\ UNCHANGED <<backoffVars, sessVars, chanVars, stale, ctxDone>>

\* closeOnCancel closes, and Run breaks out of its loop.
CloseAfterCancel ==
  /\ cpc = "closingCancelled"
  /\ CloseSess
  /\ cpc' = "returned"
  /\ UNCHANGED <<backoffVars, dialled, chanVars, stale, ctxDone>>

CloseAfterDone ==
  /\ cpc = "closing"
  /\ CloseSess
  /\ cpc' = "receiving"
  /\ UNCHANGED <<backoffVars, dialled, chanVars, stale, ctxDone>>

\* serveErr = <-errCh, then ResetIfStable, then waitToRetry. How long the session
\* was up is up to the environment.
ReceiveErr(d) ==
  /\ cpc = "receiving" /\ errCh > 0
  /\ errCh' = errCh - 1
  /\ uptime' = d
  /\ delay' \in Delays(min, max, ResetIfStable(d))
  /\ attempt' = NextAttempt(min, max, ResetIfStable(d))
  /\ cpc' = "sleeping"
  /\ UNCHANGED <<min, max, sessVars, gpc, done, stale, ctxDone>>

\* sleepCtx: the timer, or the cancellation. Both may be ready.
TimerFires ==
  /\ cpc = "sleeping"
  /\ cpc' = "loop"
  /\ UNCHANGED <<backoffVars, sessVars, chanVars, stale, ctxDone>>

SleepCancelled ==
  /\ cpc = "sleeping" /\ ctxDone
  /\ cpc' = "returned"
  /\ UNCHANGED <<backoffVars, sessVars, chanVars, stale, ctxDone>>

-----------------------------------------------------------------------------
(* The goroutine: errCh <- run(); close(done).                             *)

\* run, i.e. server.Serve(sess), returns: because the session is closed, or on
\* an error of its own.
RunReturns ==
  /\ gpc = "running"
  /\ gpc' = "sending"
  /\ UNCHANGED <<backoffVars, cpc, sessVars, errCh, done, stale, ctxDone>>

SendErr ==
  /\ gpc = "sending"
  /\ errCh < ErrChCapacity
  /\ errCh' = errCh + 1
  /\ gpc' = "signalling"
  /\ UNCHANGED <<backoffVars, cpc, sessVars, done, stale, ctxDone>>

CloseDone ==
  /\ gpc = "signalling"
  /\ done' = TRUE
  /\ gpc' = "finished"
  /\ UNCHANGED <<backoffVars, cpc, sessVars, errCh, stale, ctxDone>>

-----------------------------------------------------------------------------
\* The remote closes the session, or the connection breaks.
SessionDies ==
  /\ sess = "open"
  /\ CloseSess
  /\ UNCHANGED <<backoffVars, cpc, dialled, chanVars, stale, ctxDone>>

Signal ==
  /\ ~ctxDone
  /\ ctxDone' = TRUE
  /\ UNCHANGED <<backoffVars, cpc, sessVars, chanVars, stale>>

\* Once Run has returned the process exits.
Terminated == cpc = "returned" /\ UNCHANGED vars

RunStep ==
  \/ Loop \/ SelectCtxDone \/ SelectDone \/ OnCancel \/ Drain
  \/ CloseAfterCancel \/ CloseAfterDone
  \/ \E d \in {min - 1, min} : ReceiveErr(d)
  \/ TimerFires \/ SleepCancelled

Next ==
  \/ RunStep \/ DialFails \/ DialSucceeds
  \/ RunReturns \/ SendErr \/ CloseDone
  \/ SessionDies \/ Signal \/ Terminated

Spec == Init /\ [][Next]_vars

\* Goroutines that can run do run and timers fire. Serve returns once its
\* listener, the session, is closed; a dial ends once its context is cancelled.
\* A dial to a silent remote may otherwise hang, and a session may live for ever.
FairSpec ==
  /\ Spec
  /\ WF_vars(RunStep)
  /\ WF_vars(SendErr) /\ WF_vars(CloseDone)
  /\ WF_vars(sess = "closed" /\ RunReturns)
  /\ WF_vars(ctxDone /\ DialFails)

-----------------------------------------------------------------------------
\* Next stays within [min, max] for every validated configuration, however many
\* attempts fail in a row and although min << attempt overflows on the way; the
\* counter of the attempts stops at the cap, so that it cannot overflow itself.
DelayWithinBounds == attempt \in 0..Width /\ (cpc = "sleeping" => delay \in min..max)

\* Delays never shrink unless a session was up for at least min: a remote that
\* accepts and drops at once is not hammered at the floor (ResetIfStable), and
\* neither overflow nor jitter makes a later delay shorter than an earlier one.
DelaysGrow ==
  [][cpc # "sleeping" /\ cpc' = "sleeping" =>
       delay' >= delay \/ (cpc = "receiving" /\ uptime' >= min)]_vars

\* The home never has two tunnels open: the previous session is closed, on
\* every path, before the next dial. SessionRegistry relies on it.
OneTunnelAtATime == live <= 1 /\ (cpc \in {"loop", "dialling", "sleeping", "returned"} => live = 0)

\* runTunnelSession never leaves its goroutine behind, whichever of the
\* cancellation and the session's own end comes first.
NoGoroutineLeak ==
  stale = 0 /\ (cpc \in {"loop", "dialling", "sleeping", "returned"} => gpc \in {"none", "finished"})

\* After a signal Run returns, from wherever it is.
SignalStopsRun == ctxDone ~> cpc = "returned"

\* A tunnel that ends is followed by another dial, or by the end of the process.
Reconnects == (cpc = "selecting" /\ sess = "closed") ~> cpc \in {"dialling", "returned"}
=============================================================================
