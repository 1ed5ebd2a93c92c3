-------------------------- MODULE RemoteProxyProofs --------------------------
(***************************************************************************)
(* Proofs that both budgets of deviceRequest are exact, and that its whole *)
(* pipeline keeps them so, spends them on live devices only and implements *)
(* the abstract quota, for any number of requests and certificates and any *)
(* limits.                                                                 *)
(***************************************************************************)
EXTENDS RemoteProxy, FiniteSetTheorems, TLAPS

-----------------------------------------------------------------------------
(* The budgets alone (StreamBudget).                                       *)

\* The limiter never lets a certificate above its cap.
CapInv == MaxStreamsPerCert # 0 => \A k \in Serials : Count(k) <= MaxStreamsPerCert

IInv == TypeOK /\ SemCountsHolders /\ InUseCountsHolders /\ CapInv

\* The sets that the budgets count are finite.
LEMMA HoldersFinite ==
  /\ IsFiniteSet(SlotHolders)
  /\ \A k \in Serials : IsFiniteSet(CertHolders(k))
<1>1. SlotHolders \subseteq Requests /\ \A k \in Serials : CertHolders(k) \subseteq Requests
  BY DEF SlotHolders, CertHolders
<1>2. QED
  BY <1>1, RequestsFinite, FS_Subset

\* No request, empty map, empty channel.
LEMMA InitIInv == Init => IInv
<1> SUFFICES ASSUME Init PROVE IInv
  OBVIOUS
<1>1. SlotHolders = {} /\ \A k \in Serials : CertHolders(k) = {}
  BY DEF Init, SlotHolders, CertHolders
<1>2. \A k \in Serials : Count(k) = 0
  BY DEF Init, Count
<1>3. Cardinality({}) = 0
  BY FS_EmptySet
<1>4. DOMAIN inUse = {}
  BY DEF Init
<1>5. TypeOK
  BY <1>4, BudgetAssumption DEF Init, TypeOK, States
<1>6. SemCountsHolders /\ CapInv
  BY <1>1, <1>2, <1>3, BudgetAssumption DEF Init, SemCountsHolders, CapInv
<1>7. InUseCountsHolders
  <2>1. \A k \in Serials : Count(k) = Cardinality(CertHolders(k))
    BY <1>1, <1>2, <1>3
  <2>2. QED
    BY <1>4, <2>1 DEF InUseCountsHolders
<1>8. QED
  BY <1>5, <1>6, <1>7 DEF IInv

\* A request that moves between two states outside the forwarding ones leaves
\* the slot holders alone; one that enters or leaves them is one more or one less.
LEMMA SlotHoldersChange ==
  ASSUME TypeOK, NEW r \in Requests, NEW state \in States, Goto(r, state)
  PROVE  /\ state \in {"forwarding", "returning"} => SlotHolders' = SlotHolders \cup {r}
         /\ state \notin {"forwarding", "returning"} => SlotHolders' = SlotHolders \ {r}
  BY DEF TypeOK, Goto, SlotHolders

\* The same for the holders of a certificate's share; a request that ends holds none.
LEMMA CertHoldersChange ==
  ASSUME TypeOK, NEW r \in Requests, NEW state \in States, Goto(r, state), UNCHANGED serial,
         NEW k \in Serials
  PROVE  /\ state \in {"admitted", "forwarding", "returning", "refunding"} /\ serial[r] = k =>
              CertHolders(k)' = CertHolders(k) \cup {r}
         /\ state \notin {"admitted", "forwarding", "returning", "refunding"} \/ serial[r] # k =>
              CertHolders(k)' = CertHolders(k) \ {r}
  BY DEF TypeOK, Goto, CertHolders

LEMMA CertHoldersEnd ==
  ASSUME TypeOK, NEW r \in Requests, Ends(r), NEW k \in Serials
  PROVE  CertHolders(k)' = CertHolders(k) \ {r}
  BY SerialsAssumption DEF TypeOK, Ends, Goto, CertHolders

\* Taking or giving back a slot keeps the channel's length exact.
LEMMA SemStep == IInv /\ [Next]_vars => (TypeOK /\ SemCountsHolders)'
<1> SUFFICES ASSUME IInv, [Next]_vars PROVE (TypeOK /\ SemCountsHolders)'
  OBVIOUS
<1> USE BudgetAssumption DEF IInv, TypeOK, States, SemCountsHolders
<1>1. ASSUME NEW r \in Requests, NEW k \in Serials, Arrive(r, k)
      PROVE  (TypeOK /\ SemCountsHolders)'
  <2>1. SlotHolders' = SlotHolders
    BY <1>1, SlotHoldersChange DEF Arrive, SlotHolders
  <2>2. QED
    BY <1>1, <2>1 DEF Arrive, Goto
<1>2. ASSUME NEW r \in Requests,
             Reject(r) \/ RefuseCert(r) \/ RefuseSaturated(r) \/ Finish(r)
      PROVE  (TypeOK /\ SemCountsHolders)'
  <2>1. SlotHolders' = SlotHolders
    BY <1>2 DEF Reject, RefuseCert, RefuseSaturated, Finish, Ends, Goto, SlotHolders
  <2>2. QED
    BY <1>2, <2>1 DEF Reject, RefuseCert, RefuseSaturated, Finish, Ends, Goto
<1>3. ASSUME NEW r \in Requests, Acquire(r)
      PROVE  (TypeOK /\ SemCountsHolders)'
  <2>1. SlotHolders' = SlotHolders
    BY <1>3 DEF Acquire, Goto, SlotHolders
  <2>2. QED
    BY <1>3, <2>1 DEF Acquire, Goto, Count
<1>4. ASSUME NEW r \in Requests, Release(r)
      PROVE  (TypeOK /\ SemCountsHolders)'
  <2>1. SlotHolders' = SlotHolders
    BY <1>4 DEF Release, Ends, Goto, SlotHolders
  <2>2. QED
    BY <1>4, <2>1 DEF Release, Ends, Goto, Count
<1>5. ASSUME NEW r \in Requests, TakeSlot(r)
      PROVE  (TypeOK /\ SemCountsHolders)'
  <2>1. SlotHolders' = SlotHolders \cup {r} /\ r \notin SlotHolders
    BY <1>5, SlotHoldersChange DEF TakeSlot, SlotHolders
  <2>2. Cardinality(SlotHolders \cup {r}) = Cardinality(SlotHolders) + 1
    BY <2>1, HoldersFinite, FS_AddElement
  <2>3. QED
    BY <1>5, <2>1, <2>2 DEF TakeSlot, Goto
<1>6. ASSUME NEW r \in Requests, ReturnSlot(r)
      PROVE  (TypeOK /\ SemCountsHolders)'
  <2>1. SlotHolders' = SlotHolders \ {r} /\ r \in SlotHolders
    BY <1>6, SlotHoldersChange DEF ReturnSlot, SlotHolders
  <2>2. Cardinality(SlotHolders \ {r}) = Cardinality(SlotHolders) - 1
    BY <2>1, HoldersFinite, FS_RemoveElement
  <2>3. QED
    BY <1>6, <2>1, <2>2 DEF ReturnSlot, Goto
<1>7. ASSUME UNCHANGED vars PROVE (TypeOK /\ SemCountsHolders)'
  BY <1>7 DEF vars, SlotHolders
<1>8. QED
  BY <1>1, <1>2, <1>3, <1>4, <1>5, <1>6, <1>7 DEF Next, Defers

\* Acquire and release keep the limiter's map exact and within the cap.
LEMMA InUseStep == IInv /\ [Next]_vars => (InUseCountsHolders /\ CapInv)'
<1> SUFFICES ASSUME IInv, [Next]_vars PROVE (InUseCountsHolders /\ CapInv)'
  OBVIOUS
<1> USE BudgetAssumption DEF IInv, TypeOK, States
<1>1. ASSUME UNCHANGED inUse, \A k \in Serials : CertHolders(k)' = CertHolders(k)
      PROVE  (InUseCountsHolders /\ CapInv)'
  BY <1>1 DEF InUseCountsHolders, CapInv, Count
<1>2. ASSUME NEW r \in Requests, NEW c \in Serials, Arrive(r, c)
      PROVE  (InUseCountsHolders /\ CapInv)'
  <2>1. \A k \in Serials : CertHolders(k)' = CertHolders(k)
    BY <1>2 DEF Arrive, Goto, CertHolders
  <2>2. QED
    BY <1>1, <1>2, <2>1 DEF Arrive
<1>3. ASSUME NEW r \in Requests,
             \/ Reject(r) \/ RefuseCert(r) \/ RefuseSaturated(r) \/ Finish(r)
             \/ TakeSlot(r) \/ ReturnSlot(r)
      PROVE  (InUseCountsHolders /\ CapInv)'
  <2>1. \A k \in Serials : CertHolders(k)' = CertHolders(k)
    BY <1>3, SerialsAssumption
    DEF Reject, RefuseCert, RefuseSaturated, Finish, TakeSlot, ReturnSlot, Ends, Goto, CertHolders
  <2>2. QED
    BY <1>1, <1>3, <2>1
    DEF Reject, RefuseCert, RefuseSaturated, Finish, TakeSlot, ReturnSlot
<1>4. ASSUME NEW r \in Requests, Acquire(r) \/ Release(r), MaxStreamsPerCert = 0
      PROVE  (InUseCountsHolders /\ CapInv)'
  BY <1>4 DEF Acquire, Release, InUseCountsHolders, CapInv
<1>5. ASSUME NEW r \in Requests, Acquire(r), MaxStreamsPerCert # 0
      PROVE  (InUseCountsHolders /\ CapInv)'
  <2>0. PICK c \in Serials : c = serial[r]
    BY <1>5 DEF Acquire
  <2>1. CertHolders(c)' = CertHolders(c) \cup {r} /\ r \notin CertHolders(c) /\ c \in Serials
    BY <1>5, <2>0, CertHoldersChange DEF Acquire, CertHolders
  <2>2. \A k \in Serials \ {c} : CertHolders(k)' = CertHolders(k)
    BY <1>5, <2>0 DEF Acquire, Goto, CertHolders
  <2>3. Cardinality(CertHolders(c) \cup {r}) = Cardinality(CertHolders(c)) + 1
    BY <2>1, HoldersFinite, FS_AddElement
  <2>4. Count(c)' = Count(c) + 1 /\ \A k \in Serials \ {c} : Count(k)' = Count(k)
    BY <1>5, <2>0, <2>1 DEF Acquire, Count
  <2>5. Count(c) < MaxStreamsPerCert /\ \A k \in Serials : Count(k) \in Nat
    BY <1>5, <2>0 DEF Acquire, Count
  <2>6. ASSUME NEW k \in Serials
        PROVE  Count(k)' = Cardinality(CertHolders(k)') /\ Count(k)' <= MaxStreamsPerCert
    <3>1. CASE k = c
      BY <1>5, <2>0, <3>1, <2>1, <2>3, <2>4, <2>5 DEF InUseCountsHolders
    <3>2. CASE k # c
      BY <1>5, <2>0, <3>2, <2>2, <2>4, <2>5 DEF InUseCountsHolders, CapInv
    <3>3. QED
      BY <3>1, <3>2
  <2>7. QED
    BY <1>5, <2>0, <2>6 DEF InUseCountsHolders, CapInv
<1>6. ASSUME NEW r \in Requests, Release(r), MaxStreamsPerCert # 0
      PROVE  (InUseCountsHolders /\ CapInv)'
  <2>0. PICK c \in Serials : c = serial[r]
    BY <1>6 DEF Release
  <2>1. CertHolders(c)' = CertHolders(c) \ {r} /\ r \in CertHolders(c) /\ c \in Serials
    BY <1>6, <2>0, CertHoldersEnd DEF Release, CertHolders
  <2>2. \A k \in Serials \ {c} : CertHolders(k)' = CertHolders(k)
    BY <1>6, <2>0, CertHoldersEnd DEF Release, CertHolders
  <2>3. Cardinality(CertHolders(c) \ {r}) = Cardinality(CertHolders(c)) - 1
    BY <2>1, HoldersFinite, FS_RemoveElement
  <2>4. Count(c) = Cardinality(CertHolders(c)) /\ Cardinality(CertHolders(c)) # 0
    BY <1>6, <2>0, <2>1, HoldersFinite, FS_EmptySet DEF InUseCountsHolders
  <2>5. Count(c)' = Count(c) - 1 /\ \A k \in Serials \ {c} : Count(k)' = Count(k)
    BY <1>6, <2>0, <2>1, <2>4 DEF Release, Count
  <2>6. \A k \in Serials : Count(k) \in Nat
    BY DEF Count
  <2>7. ASSUME NEW k \in Serials
        PROVE  Count(k)' = Cardinality(CertHolders(k)') /\ Count(k)' <= MaxStreamsPerCert
    <3>1. CASE k = c
      BY <1>6, <2>0, <3>1, <2>1, <2>3, <2>4, <2>5, <2>6 DEF InUseCountsHolders, CapInv
    <3>2. CASE k # c
      BY <1>6, <2>0, <3>2, <2>2, <2>5, <2>6 DEF InUseCountsHolders, CapInv
    <3>3. QED
      BY <3>1, <3>2
  <2>8. QED
    BY <1>6, <2>0, <2>7 DEF InUseCountsHolders, CapInv
<1>7. ASSUME UNCHANGED vars PROVE (InUseCountsHolders /\ CapInv)'
  BY <1>7, <1>1 DEF vars, CertHolders
<1>8. QED
  BY <1>2, <1>3, <1>4, <1>5, <1>6, <1>7 DEF Next, Defers

\* The inductive invariant holds in every behaviour.
LEMMA Invariance == Spec => []IInv
<1>1. IInv /\ [Next]_vars => IInv'
  BY SemStep, InUseStep DEF IInv
<1>2. QED
  BY InitIInv, <1>1, PTL DEF Spec

\* The limiter's map only ever holds certificates in use, with positive counts.
THEOREM TypeCorrect == Spec => []TypeOK
<1>1. IInv => TypeOK
  BY DEF IInv
<1>2. QED
  BY <1>1, Invariance, PTL

\* The semaphore is exact: no path through deviceRequest leaks or forges a slot.
THEOREM SemExact == Spec => []SemCountsHolders
<1>1. IInv => SemCountsHolders
  BY DEF IInv
<1>2. QED
  BY <1>1, Invariance, PTL

\* The per-certificate counters are exact.
THEOREM InUseExact == Spec => []InUseCountsHolders
<1>1. IInv => InUseCountsHolders
  BY DEF IInv
<1>2. QED
  BY <1>1, Invariance, PTL

\* The cap bounds what is in flight, not only what the limiter counts.
THEOREM WithinCapHolds == Spec => []WithinCap
<1>1. IInv => WithinCap
  BY DEF IInv, InUseCountsHolders, CapInv, WithinCap
<1>2. QED
  BY <1>1, Invariance, PTL

\* Both budgets are exact, the limiter's map holds no idle certificate, and the
\* cap holds: a key that is missing counts as zero, and a count is positive.
THEOREM BudgetsExactHolds == Spec => []BudgetsExact
<1>1. ASSUME IInv, MaxStreamsPerCert # 0, NEW k \in Serials
      PROVE  k \in DOMAIN inUse <=> CertHolders(k) # {}
  <2>1. Count(k) = Cardinality(CertHolders(k))
    BY <1>1 DEF IInv, InUseCountsHolders
  <2>2. Cardinality(CertHolders(k)) = 0 <=> CertHolders(k) = {}
    BY HoldersFinite, FS_EmptySet
  <2>3. k \in DOMAIN inUse <=> Count(k) # 0
    BY <1>1 DEF IInv, TypeOK, Count
  <2>4. QED
    BY <2>1, <2>2, <2>3
<1>2. IInv => LimiterForgets
  BY <1>1 DEF IInv, TypeOK, LimiterForgets
<1>3. IInv => BudgetsExact
  BY <1>2 DEF IInv, InUseCountsHolders, CapInv, WithinCap, BudgetsExact
<1>4. QED
  BY <1>3, Invariance, PTL

\* Whatever the limits, a cap below the shared budget keeps one certificate
\* from saturating it alone.
THEOREM NoMonopolyHolds == Spec => []NoMonopoly
<1>1. IInv => NoMonopoly
  <2> SUFFICES ASSUME IInv, MaxStreamsPerCert \in 1..(MaxConcurrentStreams - 1),
                      sem = MaxConcurrentStreams,
                      \A r1, r2 \in SlotHolders : serial[r1] = serial[r2]
               PROVE  FALSE
    BY DEF NoMonopoly
  <2> USE BudgetAssumption DEF IInv, TypeOK
  <2>1. Cardinality(SlotHolders) = MaxConcurrentStreams
    BY DEF SemCountsHolders
  <2>2. SlotHolders # {}
    BY <2>1, FS_EmptySet
  <2>3. PICK r \in SlotHolders : TRUE
    BY <2>2
  <2>4. serial[r] \in Serials /\ SlotHolders \subseteq CertHolders(serial[r])
    BY <2>3 DEF SlotHolders, CertHolders
  <2>5. Cardinality(SlotHolders) <= Cardinality(CertHolders(serial[r]))
    BY <2>4, HoldersFinite, FS_Subset
  <2>6. Cardinality(CertHolders(serial[r])) <= MaxStreamsPerCert
    BY <2>4 DEF InUseCountsHolders, CapInv
  <2>7. Cardinality(CertHolders(serial[r])) \in Nat
    BY <2>4, HoldersFinite, FS_CardinalityType
  <2>8. QED
    BY <2>1, <2>5, <2>6, <2>7
<1>2. QED
  BY <1>1, Invariance, PTL

-----------------------------------------------------------------------------
(* The pipeline takes StreamBudget's steps.                                *)

\* A step of the pipeline is a step of the budgets or leaves them alone.
LEMMA BudgetStep == [PNext]_allVars => [Next]_vars
<1> SUFFICES ASSUME [PNext]_allVars PROVE [Next]_vars
  OBVIOUS
<1>1. ASSUME NEW r \in Requests, NEW k \in Serials, NewRequest(r, k) PROVE Next
  BY <1>1 DEF NewRequest, Next
<1>2. ASSUME NEW r \in Requests, RefuseDevice(r) \/ RefuseTunnel(r) \/ RefusePath(r) PROVE Next
  BY <1>2 DEF RefuseDevice, RefuseTunnel, RefusePath, Refuse, Next
<1>3. ASSUME NEW r \in Requests, PassDevice(r) \/ PassTunnel(r) \/ Expire(r) \/ Stall(r)
      PROVE  UNCHANGED vars
  BY <1>3 DEF PassDevice, PassTunnel, Expire, Stall
<1>4. ASSUME NEW r \in Requests, PassPath(r) \/ Proceed(r) \/ ServeHTTP(r) \/ Unblock(r)
      PROVE  Next \/ UNCHANGED vars
  BY <1>4 DEF PassPath, Proceed, ServeHTTP, Unblock, Next
<1>5. CASE (\E k \in Serials : Revoke(k)) \/ TunnelUp \/ TunnelLost \/ RevokeTunnel
  BY <1>5 DEF Revoke, TunnelUp, TunnelLost, RevokeTunnel
<1>6. CASE UNCHANGED allVars
  BY <1>6 DEF allVars
<1>7. QED
  BY <1>1, <1>2, <1>3, <1>4, <1>5, <1>6 DEF PNext, Guarded

\* The pipeline, seen through its counters, is StreamBudget: what is proved of
\* the budgets alone holds behind the guards as well.
THEOREM PipelineKeepsBudgets == PSpec => Spec
<1>1. PInit => Init
  BY DEF PInit
<1>2. QED
  BY <1>1, BudgetStep, PTL DEF PSpec, Spec

\* The budgets' inductive invariant, in the pipeline.
LEMMA BudgetInvariance == PSpec => []IInv
  BY PipelineKeepsBudgets, Invariance, PTL

-----------------------------------------------------------------------------
(* The guards.                                                             *)

\* What each guard has established of the requests that are past it. late is
\* never set without a revocation, which is never taken back.
LiveInv ==
  \A r \in Requests :
    /\ late[r] => IsRevoked(serial[r])
    /\ pc[r] # "idle" /\ guard[r] # "device" => serial[r] \in DeviceRole /\ ~late[r]

PInv == PTypeOK /\ LiveInv

\* No request and no revocation.
LEMMA InitPInv == PInit => PInv
  BY DEF PInit, Init, PInv, PTypeOK, LiveInv, Guards

\* Every step of the pipeline keeps the guards' invariant.
LEMMA PInvStep == TypeOK /\ PInv /\ [PNext]_allVars => PInv'
<1> SUFFICES ASSUME TypeOK, PInv, [PNext]_allVars PROVE PInv'
  OBVIOUS
<1> USE RoleAssumption DEF TypeOK, PInv, PTypeOK, LiveInv, IsRevoked, Guards, States,
            vars, pipeVars, serveVars, envVars
<1>1. ASSUME NEW r \in Requests, NEW k \in Serials, NewRequest(r, k) PROVE PInv'
  BY <1>1 DEF NewRequest, Arrive, NextGuard, Goto
<1>2. ASSUME NEW r \in Requests, RefuseDevice(r) \/ RefuseTunnel(r) \/ RefusePath(r) PROVE PInv'
  <2>1. Refuse(r) /\ UNCHANGED revoked /\ tunnel' \in {"none", "up", "revoked"}
    BY <1>2 DEF RefuseDevice, RefuseTunnel, RefusePath
  <2>2. pc[r] = "arrived" /\ Ends(r) /\ NextGuard(r, "none") /\ late' = [late EXCEPT ![r] = FALSE]
    BY <2>1 DEF Refuse, Reject
  <2>3. UNCHANGED serveVars
    BY <2>1 DEF Refuse
  <2>4. PTypeOK'
    BY <2>1, <2>2, <2>3 DEF NextGuard, Ends, Goto
  <2>5. LiveInv'
    BY <2>1, <2>2 DEF NextGuard, Ends, Goto
  <2>6. QED
    BY <2>4, <2>5
<1>3. ASSUME NEW r \in Requests, PassDevice(r) PROVE PInv'
  BY <1>3 DEF PassDevice, NextGuard
<1>4. ASSUME NEW r \in Requests, PassTunnel(r) PROVE PInv'
  BY <1>4 DEF PassTunnel, NextGuard
<1>5. ASSUME NEW r \in Requests, PassPath(r) PROVE PInv'
  BY <1>5 DEF PassPath, Acquire, RefuseCert, NextGuard, Ends, Goto
<1>6. ASSUME NEW r \in Requests, Proceed(r) PROVE PInv'
  <2>1. CASE TakeSlot(r) \/ RefuseSaturated(r) \/ ReturnSlot(r)
    BY <1>6, <2>1 DEF Proceed, TakeSlot, RefuseSaturated, ReturnSlot, Goto
  <2>2. CASE Release(r)
    BY <1>6, <2>2 DEF Proceed, Release, Ends, Goto
  <2>3. QED
    BY <1>6, <2>1, <2>2 DEF Proceed, Defers
<1>7. ASSUME NEW r \in Requests, ServeHTTP(r) \/ Expire(r) \/ Stall(r) \/ Unblock(r) PROVE PInv'
  <2>1. CASE Expire(r) \/ Stall(r)
    BY <2>1 DEF Expire, Stall
  <2>2. CASE ServeHTTP(r)
    BY <2>2 DEF ServeHTTP, Finish, Goto
  <2>3. CASE Unblock(r) /\ Finish(r)
    BY <2>3 DEF Unblock, Finish, Goto
  <2>4. CASE Unblock(r) /\ UNCHANGED <<vars, expired>>
    BY <2>4 DEF Unblock
  <2>5. QED
    BY <1>7, <2>1, <2>2, <2>3, <2>4 DEF Unblock
<1>8. ASSUME NEW k \in Serials, Revoke(k) PROVE PInv'
  BY <1>8 DEF Revoke
<1>9. CASE TunnelUp \/ TunnelLost \/ RevokeTunnel
  BY <1>9 DEF TunnelUp, TunnelLost, RevokeTunnel
<1>10. CASE UNCHANGED allVars
  BY <1>10 DEF allVars
<1>11. QED
  BY <1>1, <1>2, <1>3, <1>4, <1>5, <1>6, <1>7, <1>8, <1>9, <1>10 DEF PNext, Guarded

\* The guards' invariant holds in every behaviour of the pipeline.
LEMMA PInvariance == PSpec => []PInv
<1>1. IInv => TypeOK
  BY DEF IInv
<1>2. QED
  BY <1>1, InitPInv, PInvStep, BudgetInvariance, PTL DEF PSpec

\* A request is at a guard exactly while it has arrived and holds nothing.
THEOREM GuardsTyped == PSpec => []PTypeOK
<1>1. PInv => PTypeOK
  BY DEF PInv
<1>2. QED
  BY <1>1, PInvariance, PTL

\* Only certificates with the device role that were not revoked when their
\* request came hold anything of either budget.
THEOREM LiveDevicesOnly == PSpec => []OnlyLiveDevices
<1>1. PInv => OnlyLiveDevices
  BY DEF PInv, PTypeOK, LiveInv, OnlyLiveDevices
<1>2. QED
  BY <1>1, PInvariance, PTL

-----------------------------------------------------------------------------
(* The quota.                                                              *)

\* The requests in a set, each with its certificate.
Pairs(S) == {<<r, serial[r]>> : r \in S}

\* There are no more pairs than requests.
LEMMA PairsBounded ==
  ASSUME NEW S, IsFiniteSet(S)
  PROVE  /\ IsFiniteSet(Pairs(S))
         /\ Cardinality(Pairs(S)) <= Cardinality(S)
<1> DEFINE f == [r \in S |-> <<r, serial[r]>>]
<1>1. f \in Surjection(S, Pairs(S))
  BY DEF Surjection, Pairs
<1>2. QED
  BY <1>1, FS_Surjection

\* The quota counts as the budgets do.
LEMMA QuotaCounts == \A S : Quota!Cardinality(S) = Cardinality(S)
  BY Zenon DEF Quota!Cardinality, Cardinality

\* A request that takes its slot finds room in the quota: the semaphore counts
\* everybody who is admitted, and the limiter has counted the request itself.
LEMMA SlotAdmits ==
  ASSUME IInv, NEW r \in Requests, NEW k \in Serials, serial[r] = k, TakeSlot(r)
  PROVE  Quota!Admit(r, k)
<1> USE BudgetAssumption DEF IInv, TypeOK
<1>1. r \notin SlotHolders /\ r \in CertHolders(k)
  BY DEF TakeSlot, SlotHolders, CertHolders
<1>2. SlotHolders' = SlotHolders \cup {r} /\ serial' = serial
  BY DEF TakeSlot, Goto, SlotHolders
<1>3. \A j \in Serials : <<r, j>> \notin Pairs(SlotHolders)
  BY <1>1 DEF Pairs
<1>4. Cardinality(Pairs(SlotHolders)) < MaxConcurrentStreams
  <2>1. /\ Cardinality(SlotHolders) \in Nat /\ IsFiniteSet(SlotHolders)
        /\ Cardinality(SlotHolders) < MaxConcurrentStreams
    BY HoldersFinite, FS_CardinalityType DEF TakeSlot, SemCountsHolders
  <2>2. /\ Cardinality(Pairs(SlotHolders)) \in Nat
        /\ Cardinality(Pairs(SlotHolders)) <= Cardinality(SlotHolders)
    BY <2>1, PairsBounded, FS_CardinalityType
  <2>3. QED
    BY <2>1, <2>2
<1>5. ASSUME MaxStreamsPerCert # 0
      PROVE  Cardinality({q \in Pairs(SlotHolders) : q[2] = k}) < MaxStreamsPerCert
  <2> DEFINE Others == CertHolders(k) \ {r}
             Same == {q \in Pairs(SlotHolders) : q[2] = k}
  <2>1. Cardinality(CertHolders(k)) <= MaxStreamsPerCert
    BY <1>1, <1>5 DEF InUseCountsHolders, CapInv
  <2>2. IsFiniteSet(CertHolders(k)) /\ Cardinality(CertHolders(k)) \in Nat
    BY <1>1, HoldersFinite, FS_CardinalityType
  <2>3. IsFiniteSet(Others) /\ Cardinality(Others) = Cardinality(CertHolders(k)) - 1
    BY <1>1, <2>2, FS_RemoveElement
  <2>4. Same \subseteq Pairs(Others)
    BY <1>1 DEF Pairs, SlotHolders, CertHolders
  <2>5. IsFiniteSet(Pairs(Others)) /\ Cardinality(Pairs(Others)) <= Cardinality(Others)
    BY <2>3, PairsBounded
  <2>6. IsFiniteSet(Same) /\ Cardinality(Same) <= Cardinality(Pairs(Others))
    BY <2>4, <2>5, FS_Subset
  <2>7. Cardinality(Same) \in Nat /\ Cardinality(Pairs(Others)) \in Nat
    BY <2>5, <2>6, FS_CardinalityType
  <2>8. QED
    BY <2>1, <2>2, <2>3, <2>5, <2>6, <2>7
<1>6. Pairs(SlotHolders)' = Pairs(SlotHolders) \cup {<<r, k>>}
  BY <1>2 DEF Pairs
<1>7. MaxStreamsPerCert = 0 \/ Cardinality({q \in Pairs(SlotHolders) : q[2] = k}) < MaxStreamsPerCert
  BY <1>5
<1>8. QED
  BY <1>3, <1>4, <1>6, <1>7, QuotaCounts DEF Quota!Admit, Quota!Of, Pairs

\* Nobody else's pair changes when a request gives its slot back.
LEMMA SlotLeaves ==
  ASSUME TypeOK, NEW r \in Requests, NEW k \in Serials, serial[r] = k, ReturnSlot(r)
  PROVE  Quota!Leave(r, k)
<1>1. SlotHolders' = SlotHolders \ {r} /\ serial' = serial /\ r \in SlotHolders
  BY DEF TypeOK, ReturnSlot, Goto, SlotHolders
<1>2. QED
  BY <1>1 DEF Quota!Leave

\* The counters of deviceRequest implement the quota.
THEOREM QuotaRefinement == PSpec => ImplementsQuota
<1> DEFINE abs == {<<r, serial[r]>> : r \in SlotHolders}
<1>1. PInit => Quota!Init
  BY DEF PInit, Init, SlotHolders, Quota!Init
<1>2. IInv /\ [Next]_vars => [Quota!Next]_abs
  <2> SUFFICES ASSUME IInv, [Next]_vars PROVE Quota!Next \/ UNCHANGED abs
    OBVIOUS
  <2> USE DEF IInv, TypeOK
  <2>1. ASSUME NEW r \in Requests, TakeSlot(r) PROVE Quota!Next
    <3>1. PICK k \in Serials : serial[r] = k
      BY <2>1 DEF TakeSlot
    <3>2. Quota!Admit(r, k)
      BY <2>1, <3>1, SlotAdmits
    <3>3. QED
      BY <3>2 DEF Quota!Next
  <2>2. ASSUME NEW r \in Requests, ReturnSlot(r) PROVE Quota!Next
    <3>1. PICK k \in Serials : serial[r] = k
      BY <2>2 DEF ReturnSlot
    <3>2. Quota!Leave(r, k)
      BY <2>2, <3>1, SlotLeaves
    <3>3. QED
      BY <3>2 DEF Quota!Next
  <2>3. ASSUME NEW r \in Requests, NEW k \in Serials, Arrive(r, k) PROVE UNCHANGED abs
    <3>1. SlotHolders' = SlotHolders /\ r \notin SlotHolders
      BY <2>3 DEF Arrive, Goto, SlotHolders
    <3>2. \A q \in SlotHolders : serial'[q] = serial[q]
      BY <2>3, <3>1 DEF Arrive, SlotHolders
    <3>3. QED
      BY <3>1, <3>2
  <2>4. ASSUME NEW r \in Requests,
               \/ Reject(r) \/ Acquire(r) \/ RefuseCert(r) \/ RefuseSaturated(r)
               \/ Finish(r) \/ Release(r)
        PROVE  UNCHANGED abs
    <3>1. SlotHolders' = SlotHolders
      BY <2>4 DEF Reject, Acquire, RefuseCert, RefuseSaturated, Finish, Release,
                  Ends, Goto, SlotHolders
    <3>2. \A q \in SlotHolders : serial'[q] = serial[q]
      BY <2>4 DEF Reject, Acquire, RefuseCert, RefuseSaturated, Finish, Release, Ends, SlotHolders
    <3>3. QED
      BY <3>1, <3>2
  <2>5. CASE UNCHANGED vars
    BY <2>5 DEF vars, SlotHolders
  <2>6. QED
    BY <2>1, <2>2, <2>3, <2>4, <2>5 DEF Next, Defers
<1>3. QED
  BY <1>1, <1>2, BudgetStep, BudgetInvariance, PTL DEF PSpec, ImplementsQuota, Quota!Spec
=============================================================================
