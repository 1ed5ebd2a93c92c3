--------------------------- MODULE UpdateImageProofs ---------------------------
(***************************************************************************)
(* What holds of the updater under every sequence of publications and      *)
(* faults, and what holds when only downloads and imports fail.            *)
(***************************************************************************)
EXTENDS UpdateImage, TLAPS

\* The tar that goes on past the signature check is the release whose checksum
\* was fetched, and it is signed.
VerifiedInv ==
  /\ upc \in {"sig", "tag", "import", "restart", "check", "record"} => tar = newSha /\ tar \in Images
  /\ upc \in {"tag", "import", "restart", "check", "record"} => tar \in Signed

\* From the import to the verdict IMAGE_REF is the new image, and the one that
\* is judged healthy is the one whose checksum is about to be recorded.
JudgedInv ==
  /\ upc \in {"restart", "check", "record"} => imageRef = newSha
  /\ upc \in {"check", "record"} => running = imageRef
  /\ upc = "record" => newSha \in Healthy

IInv == TypeOK /\ OnlySignedRuns /\ VerifiedInv /\ JudgedInv

\* A host fresh from its deployment satisfies the invariant.
LEMMA InitIInv == Init => IInv
  BY ImagesAssumption, FaultsAssumption
  DEF Init, IInv, TypeOK, OnlySignedRuns, VerifiedInv, JudgedInv, Steps, Kinds

\* Every command of update-image.sh, every fault and every publication keeps it.
LEMMA NextIInv == IInv /\ [Next]_vars => IInv'
<1> SUFFICES ASSUME IInv, [Next]_vars PROVE IInv'
  OBVIOUS
<1> USE ImagesAssumption, FaultsAssumption
    DEF IInv, TypeOK, OnlySignedRuns, VerifiedInv, JudgedInv, Steps, Kinds, ctrVars, localVars, Exit, Fault
<1>1. ASSUME NEW i \in Images, Publish(i) PROVE IInv'
  BY <1>1 DEF Publish
<1>2. CASE ServiceRestarts
  BY <1>2 DEF ServiceRestarts
<1>3. CASE TimerFires
  BY <1>3 DEF TimerFires
<1>4. CASE FetchSum
  BY <1>4 DEF FetchSum
<1>5. CASE FetchTar
  BY <1>5 DEF FetchTar
<1>6. CASE VerifySignature
  BY <1>6 DEF VerifySignature
<1>7. CASE TagRollback
  BY <1>7 DEF TagRollback
<1>8. CASE Import
  BY <1>8 DEF Import
<1>9. CASE Restart
  BY <1>9 DEF Restart
<1>10. CASE HealthCheck
  BY <1>10 DEF HealthCheck
<1>11. CASE RecordSha
  BY <1>11 DEF RecordSha
<1>12. CASE Rollback
  BY <1>12 DEF Rollback
<1>13. CASE RestartOld
  BY <1>13 DEF RestartOld
<1>14. CASE Recheck
  BY <1>14 DEF Recheck
<1>15. CASE FetchFails
  BY <1>15 DEF FetchFails
<1>16. CASE TagFails
  BY <1>16 DEF TagFails
<1>17. CASE ImportFails
  BY <1>17 DEF ImportFails
<1>18. CASE RestartFails
  BY <1>18 DEF RestartFails
<1>19. CASE Crash
  BY <1>19 DEF Crash
<1>20. CASE UNCHANGED vars
  BY <1>20 DEF vars
<1>21. QED
  BY <1>1, <1>2, <1>3, <1>4, <1>5, <1>6, <1>7, <1>8, <1>9, <1>10, <1>11, <1>12, <1>13,
     <1>14, <1>15, <1>16, <1>17, <1>18, <1>19, <1>20
  DEF Next, Script, Failure

\* Hence it holds in every reachable state.
LEMMA Invariance == Spec => []IInv
  BY InitIInv, NextIInv, PTL DEF Spec

\* Types: whatever fails, a restart always has an image to start.
THEOREM TypeCorrect == Spec => []TypeOK
<1>1. IInv => TypeOK
  BY DEF IInv
<1>2. QED
  BY <1>1, Invariance, PTL

\* No unsigned image is tagged or started, whatever is published and whenever,
\* and whatever fails.
THEOREM OnlySigned == Spec => []OnlySignedRuns
<1>1. IInv => OnlySignedRuns
  BY DEF IInv
<1>2. QED
  BY <1>1, Invariance, PTL

\* Only the checksum of an image that passed its health check is recorded.
THEOREM RecordsHealthy == Spec => RecordedIsHealthy
<1> DEFINE Step == currentSha' # currentSha /\ currentSha' # NoImage => currentSha' \in Healthy
<1>1. IInv /\ [Next]_vars => [Step]_vars
  <2> SUFFICES ASSUME IInv, Next PROVE Step
    BY DEF vars
  <2>1. CASE RecordSha
    BY <2>1 DEF RecordSha, IInv, JudgedInv
  <2>2. CASE Crash
    BY <2>2 DEF Crash
  <2>3. CASE ~RecordSha /\ ~Crash
    BY <2>3 DEF Next, Script, Failure, Publish, ServiceRestarts, TimerFires, FetchSum, FetchTar,
       VerifySignature, TagRollback, Import, Restart, HealthCheck, Rollback, RestartOld, Recheck,
       FetchFails, TagFails, ImportFails, RestartFails
  <2>4. QED
    BY <2>1, <2>2, <2>3
<1>2. QED
  BY <1>1, Invariance, PTL DEF Spec, RecordedIsHealthy

-----------------------------------------------------------------------------
(* While tags, restarts and the host itself have not failed.               *)

Unchanged == {"idle", "sum", "tar", "sig", "tag", "import"}
Replaced == {"restart", "check", "record", "rollback"}

\* The recorded image is the healthy one that IMAGE_REF names while no new image
\* is in place, and the one to roll back to while there is.
DeployedInv ==
  /\ currentSha \in Images \cap Healthy
  /\ upc \in Unchanged \cup {"restartOld", "recheck"} => imageRef = currentSha
  /\ upc \in Unchanged \cup {"recheck"} => running = imageRef
  /\ upc \in Replaced \cup {"import"} => rollbackRef = currentSha

\* update-image.sh keeps it while only its downloads and imports can fail.
LEMMA DeployedStep ==
  IInv /\ (Undisturbed => DeployedInv) /\ [Next]_vars => (Undisturbed => DeployedInv)'
<1> SUFFICES ASSUME IInv, Undisturbed => DeployedInv, [Next]_vars, Undisturbed' PROVE DeployedInv'
  OBVIOUS
<1>a. Undisturbed /\ ~TagFails /\ ~RestartFails /\ ~Crash
  <2>1. ASSUME TagFails \/ RestartFails \/ Crash PROVE FALSE
    BY <2>1 DEF TagFails, RestartFails, Crash, Fault, Undisturbed, Kinds, IInv, TypeOK
  <2>2. \A kind \in Kinds : faults'[kind] = 0 => faults[kind] = 0
    <3>1. CASE FetchFails \/ ImportFails
      BY <3>1 DEF FetchFails, ImportFails, Fault, Kinds, IInv, TypeOK
    <3>2. CASE UNCHANGED faults
      BY <3>2
    <3>3. QED
      BY <2>1, <3>1, <3>2 DEF Next, Script, Failure, Publish, ServiceRestarts, TimerFires, FetchSum,
         FetchTar, VerifySignature, TagRollback, Import, Restart, HealthCheck, RecordSha, Rollback,
         RestartOld, Recheck, vars
  <2>3. QED
    BY <2>1, <2>2 DEF Undisturbed, Kinds
<1>b. DeployedInv
  BY <1>a
<1> USE ImagesAssumption
    DEF IInv, TypeOK, VerifiedInv, JudgedInv, DeployedInv, Unchanged, Replaced, ctrVars, localVars, Exit, Fault
<1>1. CASE FetchSum \/ FetchTar \/ VerifySignature \/ TimerFires
  BY <1>b, <1>1 DEF FetchSum, FetchTar, VerifySignature, TimerFires
<1>2. CASE TagRollback \/ Import
  BY <1>b, <1>2 DEF TagRollback, Import
<1>3. CASE Restart \/ HealthCheck
  BY <1>b, <1>3 DEF Restart, HealthCheck
<1>4. CASE RecordSha
  BY <1>b, <1>4 DEF RecordSha
<1>5. CASE Rollback
  BY <1>b, <1>5 DEF Rollback
<1>6. CASE RestartOld \/ Recheck
  BY <1>b, <1>6 DEF RestartOld, Recheck
<1>7. CASE FetchFails \/ ImportFails
  BY <1>b, <1>7 DEF FetchFails, ImportFails
<1>8. CASE ServiceRestarts \/ UNCHANGED vars \/ \E i \in Images : Publish(i)
  BY <1>b, <1>8 DEF ServiceRestarts, vars, Publish
<1>9. QED
  BY <1>a, <1>1, <1>2, <1>3, <1>4, <1>5, <1>6, <1>7, <1>8 DEF Next, Script, Failure

\* Hence the deployed image stays in place as long as nothing else fails.
LEMMA DeployedStays == Spec => [](Undisturbed => DeployedInv)
<1>1. Init => DeployedInv
  BY ImagesAssumption, BootAssumption DEF Init, DeployedInv, Unchanged, Replaced
<1>2. QED
  BY <1>1, DeployedStep, Invariance, PTL DEF Spec

\* As long as only downloads and imports fail, a failed update leaves a working
\* service behind, however often broken images are published.
THEOREM FailedServes == Spec => []FailedStillServes
<1>1. (Undisturbed => DeployedInv) => FailedStillServes
  BY DEF DeployedInv, Unchanged, FailedStillServes
<1>2. QED
  BY <1>1, DeployedStays, PTL

\* Under the same condition, the recorded checksum is that of the running image
\* whenever the last update ended well.
THEOREM UpToDateRuns == Spec => []UpToDateMeansRunning
<1>1. (Undisturbed => DeployedInv) => UpToDateMeansRunning
  BY DEF DeployedInv, Unchanged, UpToDateMeansRunning
<1>2. QED
  BY <1>1, DeployedStays, PTL
=============================================================================
