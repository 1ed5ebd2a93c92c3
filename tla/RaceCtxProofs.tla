----------------------------- MODULE RaceCtxProofs -----------------------------
(***************************************************************************)
(* Proofs about raceCtx under the transport: for any number of requests    *)
(* and dials and any size of the idle pool, no stream is orphaned, shared  *)
(* or closed under its user, and no goroutine is stuck on its send.        *)
(***************************************************************************)
EXTENDS RaceCtx, TLAPS

\* The result of a dial is on its way: work() runs, or has returned and is being
\* sent, or lies in the channel. The stream is open exactly if the result is one.
ResultUnderway(d) ==
  \/ worker[d] = "opening" /\ ch[d] = "empty" /\ d \notin open
  \/ worker[d] = "sendingStream" /\ ch[d] = "empty" /\ d \in open
  \/ worker[d] = "sendingError" /\ ch[d] = "empty" /\ d \notin open
  \/ worker[d] = "none" /\ ch[d] = "stream" /\ d \in open
  \/ worker[d] = "none" /\ ch[d] = "error" /\ d \notin open

\* The result has been received, by DialContext or by the reaper.
ResultTaken(d) == worker[d] = "none" /\ ch[d] = "empty"

\* How the three goroutines of one dial stand to each other: whoever is to receive
\* the result is there as long as it is underway, and nobody is there twice.
DialInv(d) ==
  \/ Settled(d)
  \/ dial[d] = "racing" /\ reaper[d] = "none" /\ ResultUnderway(d)
  \/ dial[d] = "stream" /\ reaper[d] = "none" /\ ResultTaken(d) /\ d \in open
  \/ dial[d] = "error" /\ reaper[d] = "none" /\ ResultTaken(d) /\ d \notin open
  \/ dial[d] \in {"error", "none"} /\ reaper[d] = "waiting" /\ ResultUnderway(d)
  \/ dial[d] \in {"error", "none"} /\ reaper[d] = "closing" /\ ResultTaken(d) /\ d \in open

\* A stream is used by one request, or idle, only when its dial has nothing more to
\* do with it; and an open one that its dial has done with is used or idle.
UserInv == \A r \in Requests : caller[r] = "using" =>
             /\ conn[r] \in open \ pool /\ Settled(conn[r])
             /\ \A q \in Requests \ {r} : ~Uses(q, conn[r])
PoolInv == \A d \in pool : d \in open /\ Settled(d)
OpenInv == \A d \in open : Settled(d) => d \in pool \/ \E r \in Requests : Uses(r, d)

IInv == TypeOK /\ (\A d \in Dials : DialInv(d)) /\ UserInv /\ PoolInv /\ OpenInv

-----------------------------------------------------------------------------
(* The invariant.                                                          *)

\* No request, no dial, no stream.
LEMMA InitIInv == Init => IInv
  BY DEF Init, IInv, TypeOK, DialInv, Settled, UserInv, PoolInv, OpenInv

\* The goroutines of every dial stay in one of the six constellations.
LEMMA DialStep == IInv /\ [Next]_vars => \A e \in Dials : DialInv(e)'
<1> SUFFICES ASSUME IInv, [Next]_vars PROVE \A e \in Dials : DialInv(e)'
  OBVIOUS
<1> USE DEF IInv, TypeOK, DialInv, Settled, ResultUnderway, ResultTaken, UserInv, PoolInv,
            callVars, dialVars, Use, Done, DialOver, PutIdle, Uses, Waits
<1>1. ASSUME NEW r \in Requests, NEW d \in Dials, StartIdle(r, d) PROVE \A e \in Dials : DialInv(e)'
  BY <1>1 DEF StartIdle
<1>2. ASSUME NEW r \in Requests, NEW d \in Dials, StartDial(r, d) PROVE \A e \in Dials : DialInv(e)'
  BY <1>2 DEF StartDial
<1>3. ASSUME NEW r \in Requests, Cancel(r) \/ Abandon(r) \/ Leave(r) PROVE \A e \in Dials : DialInv(e)'
  BY <1>3 DEF Cancel, Abandon, Leave
<1>4. ASSUME NEW d \in Dials, CancelDial(d) PROVE \A e \in Dials : DialInv(e)'
  BY <1>4 DEF CancelDial
<1>5. ASSUME NEW d \in Dials, GiveUp(d) PROVE \A e \in Dials : DialInv(e)'
  BY <1>5 DEF GiveUp
<1>6. ASSUME NEW d \in Dials, TakeResult(d) PROVE \A e \in Dials : DialInv(e)'
  BY <1>6 DEF TakeResult
<1>7. ASSUME NEW d \in Dials, OpenSucceeds(d) PROVE \A e \in Dials : DialInv(e)'
  BY <1>7 DEF OpenSucceeds
<1>8. ASSUME NEW d \in Dials, OpenFails(d) PROVE \A e \in Dials : DialInv(e)'
  BY <1>8 DEF OpenFails
<1>9. ASSUME NEW d \in Dials, Send(d) PROVE \A e \in Dials : DialInv(e)'
  BY <1>9 DEF Send
<1>10. ASSUME NEW d \in Dials, Reap(d) PROVE \A e \in Dials : DialInv(e)'
  BY <1>10 DEF Reap
<1>11. ASSUME NEW d \in Dials, CloseLate(d) PROVE \A e \in Dials : DialInv(e)'
  BY <1>11 DEF CloseLate
<1>12. ASSUME NEW d \in Dials, DeliverError(d) PROVE \A e \in Dials : DialInv(e)'
  BY <1>12 DEF DeliverError
<1>13. ASSUME NEW d \in Dials, DeliverStream(d) PROVE \A e \in Dials : DialInv(e)'
  BY <1>13 DEF DeliverStream
<1>14. ASSUME NEW r \in Requests, FinishStream(r) PROVE \A e \in Dials : DialInv(e)'
  BY <1>14 DEF FinishStream
<1>15. ASSUME NEW d \in Dials, DropIdle(d) PROVE \A e \in Dials : DialInv(e)'
  BY <1>15 DEF DropIdle
<1>16. CASE UNCHANGED vars
  BY <1>16 DEF vars
<1>17. QED
  BY <1>1, <1>2, <1>3, <1>4, <1>5, <1>6, <1>7, <1>8, <1>9, <1>10, <1>11, <1>12, <1>13, <1>14, <1>15, <1>16
  DEF Next, Request, Dial, Open, Late

\* Streams change hands one at a time.
LEMMA OwnerStep == IInv /\ [Next]_vars => UserInv' /\ PoolInv' /\ OpenInv'
<1> SUFFICES ASSUME IInv, [Next]_vars PROVE UserInv' /\ PoolInv' /\ OpenInv'
  OBVIOUS
<1> USE DialAssumption
    DEF IInv, TypeOK, DialInv, Settled, ResultUnderway, ResultTaken, UserInv, PoolInv, OpenInv,
        callVars, dialVars, Use, Done, DialOver, PutIdle, Uses, Waits
<1>1. ASSUME NEW r \in Requests, NEW d \in Dials, StartIdle(r, d) PROVE UserInv' /\ PoolInv' /\ OpenInv'
  BY <1>1 DEF StartIdle
<1>2. ASSUME NEW r \in Requests, NEW d \in Dials, StartDial(r, d) PROVE UserInv' /\ PoolInv' /\ OpenInv'
  BY <1>2 DEF StartDial
<1>3. ASSUME NEW r \in Requests, Cancel(r) \/ Abandon(r) \/ Leave(r) PROVE UserInv' /\ PoolInv' /\ OpenInv'
  BY <1>3 DEF Cancel, Abandon, Leave
<1>4. ASSUME NEW d \in Dials, CancelDial(d) PROVE UserInv' /\ PoolInv' /\ OpenInv'
  BY <1>4 DEF CancelDial
<1>5. ASSUME NEW d \in Dials, GiveUp(d) PROVE UserInv' /\ PoolInv' /\ OpenInv'
  BY <1>5 DEF GiveUp
<1>6. ASSUME NEW d \in Dials, TakeResult(d) PROVE UserInv' /\ PoolInv' /\ OpenInv'
  BY <1>6 DEF TakeResult
<1>7. ASSUME NEW d \in Dials, OpenSucceeds(d) PROVE UserInv' /\ PoolInv' /\ OpenInv'
  BY <1>7 DEF OpenSucceeds
<1>8. ASSUME NEW d \in Dials, OpenFails(d) PROVE UserInv' /\ PoolInv' /\ OpenInv'
  BY <1>8 DEF OpenFails
<1>9. ASSUME NEW d \in Dials, Send(d) PROVE UserInv' /\ PoolInv' /\ OpenInv'
  BY <1>9 DEF Send
<1>10. ASSUME NEW d \in Dials, Reap(d) PROVE UserInv' /\ PoolInv' /\ OpenInv'
  BY <1>10 DEF Reap
<1>11. ASSUME NEW d \in Dials, CloseLate(d) PROVE UserInv' /\ PoolInv' /\ OpenInv'
  BY <1>11 DEF CloseLate
<1>12. ASSUME NEW d \in Dials, DeliverError(d) PROVE UserInv' /\ PoolInv' /\ OpenInv'
  BY <1>12 DEF DeliverError
<1>13. ASSUME NEW d \in Dials, DeliverStream(d) PROVE UserInv' /\ PoolInv' /\ OpenInv'
  BY <1>13 DEF DeliverStream
<1>14. ASSUME NEW r \in Requests, FinishStream(r) PROVE UserInv' /\ PoolInv' /\ OpenInv'
  BY <1>14 DEF FinishStream
<1>15. ASSUME NEW d \in Dials, DropIdle(d) PROVE UserInv' /\ PoolInv' /\ OpenInv'
  BY <1>15 DEF DropIdle
<1>16. CASE UNCHANGED vars
  BY <1>16 DEF vars
<1>17. QED
  BY <1>1, <1>2, <1>3, <1>4, <1>5, <1>6, <1>7, <1>8, <1>9, <1>10, <1>11, <1>12, <1>13, <1>14, <1>15, <1>16
  DEF Next, Request, Dial, Open, Late

\* Types; that a worker with a result finds room in its channel is part of DialInv.
LEMMA TypeStep == IInv /\ [Next]_vars => TypeOK'
<1> SUFFICES ASSUME IInv, [Next]_vars PROVE TypeOK'
  OBVIOUS
<1> DEFINE Typed == /\ caller \in [Requests -> {"idle", "waiting", "using", "leaving"}]
                    /\ cancelled \in [Requests -> BOOLEAN]
                    /\ conn \in [Requests -> Dials \cup {NoDial}]
                    /\ dial \in [Dials -> {"none", "racing", "stream", "error"}]
                    /\ ended \in [Dials -> BOOLEAN]
                    /\ worker \in [Dials -> {"none", "opening", "sendingStream", "sendingError"}]
                    /\ ch \in [Dials -> {"empty", "stream", "error"}]
                    /\ reaper \in [Dials -> {"none", "waiting", "closing"}]
                    /\ open \in SUBSET Dials /\ pool \in SUBSET Dials
<1> USE DEF callVars, dialVars, Use, Done, DialOver, PutIdle
<1>1. ASSUME NEW r \in Requests, NEW d \in Dials, StartIdle(r, d) \/ StartDial(r, d) PROVE Typed'
  BY <1>1 DEF IInv, TypeOK, StartIdle, StartDial
<1>2. ASSUME NEW r \in Requests, Cancel(r) \/ Abandon(r) \/ Leave(r) PROVE Typed'
  BY <1>2 DEF IInv, TypeOK, Cancel, Abandon, Leave
<1>3. ASSUME NEW r \in Requests, FinishStream(r) PROVE Typed'
  BY <1>3 DEF IInv, TypeOK, FinishStream, UserInv
<1>4. ASSUME NEW d \in Dials, CancelDial(d) \/ GiveUp(d) \/ TakeResult(d) PROVE Typed'
  <2>1. CASE CancelDial(d)
    BY <2>1 DEF IInv, TypeOK, CancelDial
  <2>2. CASE GiveUp(d)
    BY <2>2 DEF IInv, TypeOK, GiveUp
  <2>3. CASE TakeResult(d)
    BY <2>3 DEF IInv, TypeOK, TakeResult
  <2>4. QED
    BY <1>4, <2>1, <2>2, <2>3
<1>5. ASSUME NEW d \in Dials, OpenSucceeds(d) \/ OpenFails(d) \/ Send(d) PROVE Typed'
  BY <1>5 DEF IInv, TypeOK, OpenSucceeds, OpenFails, Send
<1>6. ASSUME NEW d \in Dials, Reap(d) \/ CloseLate(d) \/ DropIdle(d) PROVE Typed'
  BY <1>6 DEF IInv, TypeOK, Reap, CloseLate, DropIdle
<1>7. ASSUME NEW d \in Dials, DeliverError(d) PROVE Typed'
  BY <1>7 DEF IInv, TypeOK, DeliverError
<1>8. ASSUME NEW d \in Dials, DeliverStream(d) PROVE Typed'
  BY <1>8 DEF IInv, TypeOK, DeliverStream
<1>9. CASE UNCHANGED vars
  BY <1>9 DEF IInv, TypeOK, vars
<1>10. ASSUME Typed' PROVE TypeOK'
  <2>1. \A d \in Dials : worker'[d] \in {"sendingStream", "sendingError"} => ch'[d] = "empty"
    BY DialStep DEF DialInv, Settled, ResultUnderway, ResultTaken
  <2>2. QED
    BY <1>10, <2>1 DEF TypeOK
<1>11. QED
  BY <1>1, <1>2, <1>3, <1>4, <1>5, <1>6, <1>7, <1>8, <1>9, <1>10
  DEF Next, Request, Dial, Open, Late

\* The inductive invariant holds in every behaviour.
LEMMA Invariance == Spec => []IInv
<1>1. IInv /\ [Next]_vars => IInv'
  BY DialStep, OwnerStep, TypeStep DEF IInv
<1>2. QED
  BY InitIInv, <1>1, PTL DEF Spec

-----------------------------------------------------------------------------
(* What it shows.                                                          *)

\* The worker is never stuck on its send, for the channel has room for its result.
THEOREM TypeCorrect == Spec => []TypeOK
<1>1. IInv => TypeOK
  BY DEF IInv
<1>2. QED
  BY <1>1, Invariance, PTL

\* No stream is orphaned, whenever the context of a request or of a dial ends.
THEOREM StreamsOwned == Spec => []EveryStreamOwned
<1>1. IInv => EveryStreamOwned
  BY DEF IInv, TypeOK, DialInv, Settled, ResultUnderway, ResultTaken, OpenInv, Underway, EveryStreamOwned
<1>2. QED
  BY <1>1, Invariance, PTL

\* No stream in use is closed by the goroutine for late results, lies idle as well, or
\* serves a second request.
THEOREM NeverClosedUnderUser == Spec => []NotClosedUnderUser
<1>1. IInv => NotClosedUnderUser
  BY DEF IInv, UserInv, Settled, Underway, NotClosedUnderUser
<1>2. QED
  BY <1>1, Invariance, PTL
=============================================================================
