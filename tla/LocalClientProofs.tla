--------------------------- MODULE LocalClientProofs ---------------------------
(***************************************************************************)
(* Proofs about the home's reconnect loop and its backoff: for every width *)
(* of a duration, every validated configuration and any number of          *)
(* sessions, the delays stay in range and grow although the shift          *)
(* overflows, and neither a session nor its goroutine outlives its turn.   *)
(***************************************************************************)
EXTENDS LocalClient, FiniteSetTheorems, TLAPS

-----------------------------------------------------------------------------
(* Powers of two. The provers know nothing of exponentiation; the library  *)
(* says that 2^n is the number of subsets of a set with n elements.        *)

\* 2^n counts the subsets of 1..n.
LEMMA PowerIsCardinality ==
  ASSUME NEW n \in Nat
  PROVE  IsFiniteSet(SUBSET (1..n)) /\ 2^n = Cardinality(SUBSET (1..n))
<1>1. IsFiniteSet(1..n) /\ Cardinality(1..n) = n
  BY FS_Interval
<1>2. QED
  BY <1>1, FS_SUBSET

\* A power of two is positive.
LEMMA PowerPositive ==
  ASSUME NEW n \in Nat
  PROVE  2^n \in Nat \ {0}
<1>1. 2^n \in Nat
  BY PowerIsCardinality, FS_CardinalityType
<1>2. SUBSET (1..n) # {}
  OBVIOUS
<1>3. QED
  BY <1>1, <1>2, PowerIsCardinality, FS_EmptySet

\* Powers of two do not fall.
LEMMA PowerMonotone ==
  ASSUME NEW m \in Nat, NEW n \in Nat, m <= n
  PROVE  2^m <= 2^n
<1>1. SUBSET (1..m) \subseteq SUBSET (1..n)
  OBVIOUS
<1>2. QED
  BY <1>1, PowerIsCardinality, FS_Subset

\* One more in the exponent doubles the power: half of the subsets of 1..(n+1)
\* contain n+1, the other half are the subsets of 1..n.
LEMMA PowerDoubles ==
  ASSUME NEW n \in Nat
  PROVE  2^(n + 1) = 2 * 2^n
<1> DEFINE Old == SUBSET (1..n)
           All == SUBSET (1..(n + 1))
           f == [s \in Old |-> s \cup {n + 1}]
<1>1. Old \subseteq All /\ n + 1 \in Nat
  OBVIOUS
<1>2. f \in Bijection(Old, All \ Old)
  <2>1. f \in [Old -> All \ Old]
    OBVIOUS
  <2>2. \A s, t \in Old : f[s] = f[t] => s = t
    <3> SUFFICES ASSUME NEW s \in Old, NEW t \in Old, f[s] = f[t] PROVE s = t
      OBVIOUS
    <3>1. n + 1 \notin s /\ n + 1 \notin t
      OBVIOUS
    <3>2. s \cup {n + 1} = t \cup {n + 1}
      OBVIOUS
    <3>3. QED
      BY <3>1, <3>2
  <2>3. \A u \in All \ Old : \E s \in Old : f[s] = u
    <3> SUFFICES ASSUME NEW u \in All \ Old PROVE \E s \in Old : f[s] = u
      OBVIOUS
    <3>1. n + 1 \in u /\ u \ {n + 1} \in Old
      OBVIOUS
    <3>2. (u \ {n + 1}) \cup {n + 1} = u
      BY <3>1
    <3>3. QED
      BY <3>1, <3>2
  <2> HIDE DEF Old, All, f
  <2>4. QED
    BY <2>1, <2>2, <2>3 DEF Bijection, Injection, Surjection, IsInjective
<1>3. 2^n = Cardinality(Old) /\ 2^(n + 1) = Cardinality(All)
  BY <1>1, PowerIsCardinality
<1>4. IsFiniteSet(Old) /\ IsFiniteSet(All)
  BY <1>1, PowerIsCardinality
<1>5. All \cap Old = Old
  BY <1>1
<1>6. 2^n \in Nat /\ 2^(n + 1) \in Nat
  BY <1>1, PowerPositive
<1> HIDE DEF Old, All, f
<1>7. Cardinality(All \ Old) = Cardinality(Old)
  BY <1>2, <1>4, FS_Bijection DEF ExistsBijection
<1>8. Cardinality(All \ Old) = Cardinality(All) - Cardinality(Old)
  BY <1>4, <1>5, FS_Difference
<1>9. QED
  BY <1>3, <1>6, <1>7, <1>8

-----------------------------------------------------------------------------
(* Backoff.                                                                *)

\* What validate accepts.
Configured(lo, hi) == lo \in 1..MaxDuration /\ hi \in lo..MaxDuration

\* The attempts that Next can have counted up to: the shift by one less was
\* within max. Not every attempt is: min << attempt may wrap to a small positive
\* number, which nextBase would take for a short delay.
Counted(lo, hi, a) == a \in Nat /\ (a = 0 \/ lo * 2^(a - 1) <= hi)

\* MaxDuration is one below half of the range of a Width-bit integer.
LEMMA Halves ==
  /\ MaxDuration \in Nat \ {0}
  /\ 2^Width \in Nat
  /\ 2^Width = 2 * (MaxDuration + 1)
<1>1. Width - 1 \in Nat /\ (Width - 1) + 1 = Width
  BY WidthAssumption
<1>2. 2^Width = 2 * 2^(Width - 1)
  BY <1>1, PowerDoubles
<1>3. 2^(Width - 1) \in Nat /\ 2^Width \in Nat
  BY <1>1, WidthAssumption, PowerPositive
<1>4. Width - 2 \in Nat /\ (Width - 2) + 1 = Width - 1
  BY WidthAssumption
<1>5. 2^(Width - 1) = 2 * 2^(Width - 2) /\ 2^(Width - 2) \in Nat \ {0}
  BY <1>4, PowerDoubles, PowerPositive
<1>6. QED
  BY <1>2, <1>3, <1>5 DEF MaxDuration

\* An attempt that was counted is shifted exactly or into the sign bit, never
\* past it: min << attempt is below twice max.
LEMMA ShiftInRange ==
  ASSUME NEW lo, NEW hi, NEW a, Configured(lo, hi), Counted(lo, hi, a)
  PROVE  /\ a \in 0..(Width - 1)
         /\ lo * 2^a \in lo..(2 * hi)
<1>1. lo \in Nat \ {0} /\ hi \in Nat /\ lo <= hi /\ hi <= MaxDuration /\ MaxDuration \in Nat /\ a \in Nat
  BY Halves DEF Configured, Counted
<1>2. Width - 1 \in Nat /\ Width \in Nat
  BY WidthAssumption
<1>3. CASE a = 0
  <2>1. 0 \in Nat /\ 0 + 1 = 1
    OBVIOUS
  <2>2. 2^0 = 1
    <3>1. IsFiniteSet({{}}) /\ Cardinality({{}}) = 1
      BY FS_Singleton
    <3>2. SUBSET (1..0) = {{}}
      OBVIOUS
    <3>3. QED
      BY <3>1, <3>2, PowerIsCardinality
  <2>3. QED
    BY <1>1, <1>2, <1>3, <2>2
<1>4. CASE a # 0
  <2> DEFINE p == 2^(a - 1)
  <2>1. a - 1 \in Nat /\ (a - 1) + 1 = a
    BY <1>1, <1>4
  <2>2. p \in Nat \ {0} /\ 2^a = 2 * p
    BY <2>1, PowerDoubles, PowerPositive
  <2>3. lo * p <= hi
    BY <1>4 DEF Counted
  <2> HIDE DEF p
  <2>4. lo * p >= lo /\ lo * p >= p
    BY <1>1, <2>2
  <2>5. lo * 2^a = 2 * (lo * p)
    BY <1>1, <2>2
  <2>6. lo * p \in Nat
    BY <1>1, <2>2
  <2>7. lo * 2^a \in lo..(2 * hi)
    BY <1>1, <2>3, <2>4, <2>5, <2>6
  <2>8. p <= MaxDuration
    BY <1>1, <2>2, <2>3, <2>4, <2>6
  <2>9. 2^(Width - 1) = MaxDuration + 1
    BY <1>2, PowerPositive DEF MaxDuration
  <2>10. ~(Width - 1 <= a - 1)
    BY <1>1, <1>2, <2>1, <2>2, <2>8, <2>9, PowerMonotone DEF p
  <2>11. QED
    BY <1>1, <1>2, <2>7, <2>10
<1>5. QED
  BY <1>3, <1>4

\* The overflow test of nextBase is exact on the attempts that Next counts: it
\* says "past max" if and only if the unbounded product is.
THEOREM NextBaseExact ==
  ASSUME NEW lo, NEW hi, NEW a, Configured(lo, hi), Counted(lo, hi, a)
  PROVE  /\ Capped(lo, hi, a) <=> lo * 2^a > hi
         /\ NextBase(lo, hi, a) = IF lo * 2^a > hi THEN hi ELSE lo * 2^a
<1> DEFINE n == lo * 2^a
<1>1. a \in 0..(Width - 1) /\ n \in lo..(2 * hi)
  BY ShiftInRange
<1>2. lo \in Nat \ {0} /\ hi \in Nat /\ hi <= MaxDuration /\ MaxDuration \in Nat
  BY Halves DEF Configured
<1>3. n \in Nat /\ n < 2^Width /\ 2^Width \in Nat
  BY <1>1, <1>2, Halves
<1>4. n % 2^Width = n
  BY <1>3
<1>5. Wrap(n) = IF n > MaxDuration THEN n - 2^Width ELSE n
  BY <1>4 DEF Wrap
<1>6. ShiftLeft(lo, a) = Wrap(n)
  BY <1>1, WidthAssumption DEF ShiftLeft
<1> HIDE DEF n
<1>7. Capped(lo, hi, a) <=> n > hi
  BY <1>1, <1>2, <1>3, <1>5, <1>6 DEF Capped
<1>8. ~(n > hi) => ShiftLeft(lo, a) = n
  BY <1>1, <1>2, <1>3, <1>5, <1>6
<1>9. QED
  BY <1>7, <1>8 DEF n, NextBase

\* The base of a delay is within the configured range.
LEMMA BaseInRange ==
  ASSUME NEW lo, NEW hi, NEW a, Configured(lo, hi), Counted(lo, hi, a)
  PROVE  NextBase(lo, hi, a) \in lo..hi
<1>1. lo * 2^a \in lo..(2 * hi) /\ lo \in Int /\ hi \in Int /\ lo <= hi
  BY ShiftInRange, Halves DEF Configured
<1>2. QED
  BY <1>1, NextBaseExact

\* The jitter only adds to the base, less than doubles it, and stops at max.
LEMMA DelaysInRange ==
  ASSUME NEW lo, NEW hi, NEW a, Configured(lo, hi), Counted(lo, hi, a),
         NEW d \in Delays(lo, hi, a)
  PROVE  d \in NextBase(lo, hi, a)..hi /\ d <= 2 * NextBase(lo, hi, a)
<1> DEFINE base == NextBase(lo, hi, a)
<1>1. lo \in Nat \ {0} /\ hi \in Nat /\ base \in lo..hi
  BY BaseInRange, Halves DEF Configured
<1>2. base \div 5 \in Int /\ base \div 5 <= base
  BY <1>1
<1>3. \/ d = base
      \/ \E jitter \in 0..(base \div 5 - 1) : d = IF jitter > hi - base THEN hi ELSE base + jitter
  BY DEF Delays
<1> HIDE DEF base
<1>4. d \in base..hi /\ d <= 2 * base
  BY <1>1, <1>2, <1>3
<1>5. QED
  BY <1>4 DEF base

\* Next only counts attempts that Counted describes.
LEMMA CountedStep ==
  ASSUME NEW lo, NEW hi, NEW a, Configured(lo, hi), Counted(lo, hi, a)
  PROVE  Counted(lo, hi, NextAttempt(lo, hi, a))
<1>1. CASE Capped(lo, hi, a)
  BY <1>1 DEF NextAttempt
<1>2. CASE ~Capped(lo, hi, a)
  <2>1. NextAttempt(lo, hi, a) = a + 1 /\ a \in Nat /\ (a + 1) - 1 = a
    BY <1>2 DEF NextAttempt, Counted
  <2>2. lo * 2^a \in Int /\ hi \in Int /\ ~(lo * 2^a > hi)
    BY <1>2, NextBaseExact, ShiftInRange, Halves DEF Configured
  <2>3. lo * 2^a <= hi
    BY <2>2
  <2>4. QED
    BY <2>1, <2>3 DEF Counted
<1>3. QED
  BY <1>1, <1>2

\* A delay is at most the base of the one after it.
LEMMA NextBaseGrows ==
  ASSUME NEW lo, NEW hi, NEW a, Configured(lo, hi), Counted(lo, hi, a),
         NEW d \in Delays(lo, hi, a)
  PROVE  d <= NextBase(lo, hi, NextAttempt(lo, hi, a))
<1>1. lo \in Nat \ {0} /\ hi \in Nat /\ lo * 2^a \in Nat
  BY ShiftInRange, Halves DEF Configured
<1>2. d \in NextBase(lo, hi, a)..hi /\ d <= 2 * NextBase(lo, hi, a)
  BY DelaysInRange
<1>3. CASE Capped(lo, hi, a)
  BY <1>1, <1>2, <1>3 DEF NextAttempt, NextBase
<1>4. CASE ~Capped(lo, hi, a)
  <2>1. NextAttempt(lo, hi, a) = a + 1 /\ a \in Nat
    BY <1>4 DEF NextAttempt, Counted
  <2>2. NextBase(lo, hi, a) = lo * 2^a
    BY <1>1, <1>4, NextBaseExact
  <2>3. lo * 2^(a + 1) = 2 * (lo * 2^a)
    <3>1. 2^(a + 1) = 2 * 2^a /\ 2^a \in Nat
      BY <2>1, PowerDoubles, PowerPositive
    <3>2. QED
      BY <1>1, <3>1
  <2>4. NextBase(lo, hi, a + 1) = IF lo * 2^(a + 1) > hi THEN hi ELSE lo * 2^(a + 1)
    BY <2>1, CountedStep, NextBaseExact
  <2>5. QED
    BY <1>1, <1>2, <2>1, <2>2, <2>3, <2>4
<1>5. QED
  BY <1>3, <1>4

-----------------------------------------------------------------------------
(* The loop.                                                               *)

\* The states of Run between two tunnels.
Between == {"loop", "dialling", "sleeping", "returned"}

\* The last delay does not exceed what the next one starts from.
BackoffInv ==
  /\ Configured(min, max)
  /\ Counted(min, max, attempt)
  /\ delay \in Nat /\ delay <= NextBase(min, max, attempt)
  /\ cpc = "sleeping" => delay \in min..max

\* One session at most, closed wherever Run has passed one of its Closes.
SessInv ==
  /\ cpc \in RunStates
  /\ sess \in {"open", "closed"} /\ live = IF sess = "open" THEN 1 ELSE 0
  /\ cpc \in Between \cup {"draining", "closingCancelled", "receiving"} => sess = "closed"

\* The goroutine closes done as its last step and Run goes on only after it. Its
\* result stays in errCh from the send to the receive.
GoroutineInv ==
  /\ stale = 0
  /\ gpc \in {"none", "running", "sending", "signalling", "finished"}
  /\ done \in BOOLEAN /\ (done <=> gpc = "finished")
  /\ cpc \in Between => gpc \in {"none", "finished"}
  /\ cpc \notin Between => gpc # "none"
  /\ cpc \in {"closing", "closingCancelled", "receiving"} => gpc = "finished"
  /\ gpc \in {"running", "sending"} => errCh = 0
  /\ gpc \in {"signalling", "finished"} /\ cpc \notin Between => errCh = 1

IInv == BackoffInv /\ SessInv /\ GoroutineInv

\* Neither side of errCh waits for the other: the send finds room and, once Run
\* has closed the session, the receive finds the result. (With an unbuffered
\* channel both would wait after a cancellation.)
NeitherSideWaits ==
  /\ gpc = "sending" => errCh < ErrChCapacity
  /\ cpc = "receiving" => errCh > 0

\* Nothing has been dialled.
LEMMA InitIInv == Init => IInv
<1> SUFFICES ASSUME Init PROVE IInv
  OBVIOUS
<1>1. Configured(min, max) /\ Counted(min, max, attempt)
  BY DEF Init, Configured, Counted
<1>2. NextBase(min, max, attempt) \in Nat
  BY <1>1, BaseInRange, Halves DEF Configured
<1>3. BackoffInv
  BY <1>1, <1>2 DEF Init, BackoffInv
<1>4. SessInv /\ GoroutineInv
  BY DEF Init, SessInv, GoroutineInv, RunStates, Between
<1>5. QED
  BY <1>3, <1>4 DEF IInv

\* backoff.Next, after a failed dial or after a session, with or without a reset.
LEMMA SleepStep ==
  ASSUME Configured(min, max), NEW a, Counted(min, max, a), UNCHANGED <<min, max>>,
         delay' \in Delays(min, max, a), attempt' = NextAttempt(min, max, a)
  PROVE  BackoffInv' /\ delay' >= NextBase(min, max, a)
<1>1. min \in Nat \ {0} /\ max \in Nat
  BY Halves DEF Configured
<1>2. NextBase(min, max, a) \in min..max
  BY BaseInRange
<1>3. delay' \in NextBase(min, max, a)..max
  BY DelaysInRange
<1>4. delay' <= NextBase(min, max, attempt')
  BY NextBaseGrows
<1>5. Counted(min, max, attempt')
  BY CountedStep
<1>6. Configured(min, max)' /\ Counted(min, max, attempt)'
  BY <1>5 DEF Configured, Counted
<1>7. NextBase(min, max, attempt)' = NextBase(min, max, attempt')
  BY DEF NextBase, Capped
<1>8. delay' \in Nat /\ delay' \in min..max /\ delay' >= NextBase(min, max, a)
  BY <1>1, <1>2, <1>3
<1>9. QED
  BY <1>4, <1>6, <1>7, <1>8 DEF BackoffInv

\* The attempt after ResetIfStable is one that Next can have counted up to.
LEMMA ResetCounted ==
  ASSUME Counted(min, max, attempt), NEW d
  PROVE  Counted(min, max, ResetIfStable(d))
  BY DEF Counted, ResetIfStable

\* Only going to sleep touches the backoff.
LEMMA BackoffStep == IInv /\ [Next]_vars => BackoffInv'
<1> SUFFICES ASSUME IInv, [Next]_vars PROVE BackoffInv'
  OBVIOUS
<1>1. CASE DialFails
  BY <1>1, SleepStep DEF IInv, BackoffInv, DialFails, GoToSleep
<1>2. ASSUME NEW d, ReceiveErr(d) PROVE BackoffInv'
  BY <1>2, SleepStep, ResetCounted DEF IInv, BackoffInv, ReceiveErr
<1>3. ASSUME UNCHANGED backoffVars, cpc' = "sleeping" => cpc = "sleeping"
      PROVE  BackoffInv'
  <2>1. UNCHANGED <<min, max, attempt, delay>>
    BY <1>3 DEF backoffVars
  <2>2. NextBase(min, max, attempt)' = NextBase(min, max, attempt)
    BY <2>1 DEF NextBase, Capped
  <2>3. (Configured(min, max) /\ Counted(min, max, attempt))'
    BY <2>1 DEF IInv, BackoffInv, Configured, Counted
  <2>4. QED
    BY <1>3, <2>1, <2>2, <2>3 DEF IInv, BackoffInv
<1>4. CASE \/ Loop \/ SelectCtxDone \/ SelectDone \/ OnCancel \/ Drain \/ CloseAfterCancel
           \/ CloseAfterDone \/ TimerFires \/ SleepCancelled \/ DialSucceeds
  BY <1>3, <1>4 DEF Loop, SelectCtxDone, SelectDone, OnCancel, Drain, CloseAfterCancel,
     CloseAfterDone, TimerFires, SleepCancelled, DialSucceeds
<1>5. CASE RunReturns \/ SendErr \/ CloseDone \/ SessionDies \/ Signal \/ Terminated \/ UNCHANGED vars
  BY <1>3, <1>5 DEF RunReturns, SendErr, CloseDone, SessionDies, Signal, Terminated, vars
<1>6. QED
  BY <1>1, <1>2, <1>4, <1>5 DEF Next, RunStep

\* The session is opened by the dial only and closed on every way out of it.
LEMMA SessStep == IInv /\ [Next]_vars => SessInv'
<1> SUFFICES ASSUME IInv, [Next]_vars PROVE SessInv'
  OBVIOUS
<1> USE DEF IInv, SessInv, RunStates, Between
<1>1. CASE Loop \/ SelectCtxDone \/ SelectDone \/ Drain \/ TimerFires \/ SleepCancelled
  BY <1>1 DEF Loop, SelectCtxDone, SelectDone, Drain, TimerFires, SleepCancelled, sessVars
<1>2. CASE OnCancel \/ CloseAfterCancel \/ CloseAfterDone \/ SessionDies
  BY <1>2 DEF OnCancel, CloseAfterCancel, CloseAfterDone, SessionDies, CloseSess
<1>3. CASE DialFails \/ \E d \in {min - 1, min} : ReceiveErr(d)
  BY <1>3 DEF DialFails, GoToSleep, ReceiveErr, sessVars
<1>4. CASE DialSucceeds
  BY <1>4 DEF DialSucceeds
<1>5. CASE RunReturns \/ SendErr \/ CloseDone \/ Signal \/ Terminated \/ UNCHANGED vars
  BY <1>5 DEF RunReturns, SendErr, CloseDone, Signal, Terminated, vars, sessVars
<1>6. QED
  BY <1>1, <1>2, <1>3, <1>4, <1>5 DEF Next, RunStep

\* Run leaves waitOrCancel only once done is closed.
LEMMA GoroutineStep == IInv /\ [Next]_vars => GoroutineInv'
<1> SUFFICES ASSUME IInv, [Next]_vars PROVE GoroutineInv'
  OBVIOUS
<1> USE DEF IInv, GoroutineInv, SessInv, RunStates, Between
<1>1. CASE Loop \/ SelectCtxDone \/ SelectDone \/ Drain \/ TimerFires \/ SleepCancelled
  BY <1>1 DEF Loop, SelectCtxDone, SelectDone, Drain, TimerFires, SleepCancelled, chanVars
<1>2. CASE OnCancel \/ CloseAfterCancel \/ CloseAfterDone \/ SessionDies
  BY <1>2 DEF OnCancel, CloseAfterCancel, CloseAfterDone, SessionDies, chanVars
<1>3. CASE DialFails \/ \E d \in {min - 1, min} : ReceiveErr(d)
  BY <1>3 DEF DialFails, GoToSleep, ReceiveErr, chanVars
<1>4. CASE DialSucceeds
  BY <1>4 DEF DialSucceeds
<1>5. CASE RunReturns
  BY <1>5 DEF RunReturns
<1>6. CASE SendErr
  BY <1>6 DEF SendErr
<1>7. CASE CloseDone
  BY <1>7 DEF CloseDone
<1>8. CASE Signal \/ Terminated \/ UNCHANGED vars
  BY <1>8 DEF Signal, Terminated, vars, chanVars
<1>9. QED
  BY <1>1, <1>2, <1>3, <1>4, <1>5, <1>6, <1>7, <1>8 DEF Next, RunStep

\* The inductive invariant holds in every behaviour.
LEMMA Invariance == Spec => []IInv
<1>1. IInv /\ [Next]_vars => IInv'
  BY BackoffStep, SessStep, GoroutineStep DEF IInv
<1>2. QED
  BY InitIInv, <1>1, PTL DEF Spec

-----------------------------------------------------------------------------
(* What it shows.                                                          *)

\* Delays stay within the configured range, and the attempts within the width,
\* for every width: the overflow test catches every overflow that can happen.
THEOREM DelaysWithinBounds == Spec => []DelayWithinBounds
<1>1. IInv => DelayWithinBounds
  BY ShiftInRange, WidthAssumption DEF IInv, BackoffInv, DelayWithinBounds
<1>2. QED
  BY <1>1, Invariance, PTL

\* Only a session that was up for at least min lets a delay shrink.
THEOREM DelaysNeverShrink == Spec => DelaysGrow
<1> DEFINE Grows == cpc # "sleeping" /\ cpc' = "sleeping" =>
                      delay' >= delay \/ (cpc = "receiving" /\ uptime' >= min)
<1>1. IInv /\ [Next]_vars => [Grows]_vars
  <2> SUFFICES ASSUME IInv, Next, cpc # "sleeping", cpc' = "sleeping"
               PROVE  delay' >= delay \/ (cpc = "receiving" /\ uptime' >= min)
    OBVIOUS
  <2>1. delay \in Nat /\ delay <= NextBase(min, max, attempt) /\ NextBase(min, max, attempt) \in Int
    BY BaseInRange, Halves DEF IInv, BackoffInv
  <2>2. ASSUME delay' \in Nat, delay' >= NextBase(min, max, attempt) PROVE delay' >= delay
    BY <2>1, <2>2
  <2>3. CASE DialFails
    BY <2>2, <2>3, SleepStep DEF IInv, BackoffInv, DialFails, GoToSleep
  <2>4. ASSUME NEW d \in {min - 1, min}, ReceiveErr(d)
        PROVE  delay' >= delay \/ (cpc = "receiving" /\ uptime' >= min)
    <3>1. CASE d >= min
      BY <2>4, <3>1 DEF ReceiveErr
    <3>2. CASE ~(d >= min)
      <4>1. ResetIfStable(d) = attempt
        BY <3>2 DEF ResetIfStable
      <4>2. QED
        BY <2>2, <2>4, <4>1, SleepStep DEF IInv, BackoffInv, ReceiveErr
    <3>3. QED
      BY <3>1, <3>2
  <2>5. CASE \/ Loop \/ SelectCtxDone \/ SelectDone \/ OnCancel \/ Drain \/ CloseAfterCancel
             \/ CloseAfterDone \/ TimerFires \/ SleepCancelled \/ DialSucceeds
    BY <2>5 DEF Loop, SelectCtxDone, SelectDone, OnCancel, Drain, CloseAfterCancel,
       CloseAfterDone, TimerFires, SleepCancelled, DialSucceeds
  <2>6. CASE RunReturns \/ SendErr \/ CloseDone \/ SessionDies \/ Signal \/ Terminated
    BY <2>6 DEF RunReturns, SendErr, CloseDone, SessionDies, Signal, Terminated, vars
  <2>7. QED
    BY <2>3, <2>4, <2>5, <2>6 DEF Next, RunStep
<1>2. QED
  BY <1>1, Invariance, PTL DEF Spec, DelaysGrow

\* The home has one tunnel at most and none between two sessions, which is what
\* SessionRegistry assumes of an endpoint.
THEOREM OneTunnel == Spec => []OneTunnelAtATime
<1>1. IInv => OneTunnelAtATime
  BY DEF IInv, SessInv, Between, OneTunnelAtATime
<1>2. QED
  BY <1>1, Invariance, PTL

\* No call of runTunnelSession returns before its goroutine has ended.
THEOREM GoroutinesEnd == Spec => []NoGoroutineLeak
<1>1. IInv => NoGoroutineLeak
  BY DEF IInv, GoroutineInv, Between, NoGoroutineLeak
<1>2. QED
  BY <1>1, Invariance, PTL

\* errCh never makes Run and the goroutine wait for each other.
THEOREM ErrChNeverBlocks == Spec => []NeitherSideWaits
<1>1. IInv => NeitherSideWaits
  BY DEF IInv, SessInv, GoroutineInv, Between, NeitherSideWaits, ErrChCapacity
<1>2. QED
  BY <1>1, Invariance, PTL

=============================================================================
