------------------------------ MODULE UpdateImage ------------------------------
(***************************************************************************)
(* The updater each host runs every six hours (scripts/update-image.sh):   *)
(* checksum, download, signature, rollback tag, import, restart, health    *)
(* check, and rollback. A published release may be replaced between any    *)
(* two downloads, a command may fail (set -e then ends the script), and    *)
(* the host may crash between any two steps.                               *)
(*                                                                         *)
(* An image stands for its tar and for its checksum. ctr images tag is     *)
(* taken to move an existing tag, as the script relies on.                 *)
(***************************************************************************)
EXTENDS Naturals

CONSTANTS
  Images,      \* image tars that may be published or installed
  Boot,        \* the one imported when the host was deployed
  Signed,      \* those that carry the maintainer's signature
  Healthy,     \* those under which the service stays up
  NoImage,     \* no tag, no checksum, or nothing that could be verified
  MaxFaults    \* bound on the number of faults of each kind

Kinds == {"fetch", "tag", "import", "restart", "crash"}

ASSUME ImagesAssumption == NoImage \notin Images /\ Boot \in Images /\ Signed \subseteq Images
ASSUME BootAssumption == Boot \in Healthy
ASSUME FaultsAssumption == MaxFaults \in [Kinds -> Nat]

VARIABLES
  latest,       \* the published release
  imageRef,     \* what IMAGE_REF names in containerd
  rollbackRef,  \* what ROLLBACK_REF names
  currentSha,   \* CURRENT_SHA_FILE
  running,      \* the image of the service's container
  upc,          \* where the script stands
  newSha, tar,  \* new_sha and the downloaded image.tar
  status,       \* how the last run of the update unit ended
  faults        \* how many faults of each kind there have been

ctrVars == <<imageRef, rollbackRef>>
localVars == <<newSha, tar>>
vars == <<latest, ctrVars, currentSha, running, upc, localVars, status, faults>>

Steps == {"idle", "sum", "tar", "sig", "tag", "import", "restart", "check", "record",
          "rollback", "restartOld", "recheck"}

\* The deploy scripts import the boot image, record its checksum and start the
\* service before they install the timer.
Init ==
  /\ latest = Boot
  /\ imageRef = Boot /\ rollbackRef = NoImage
  /\ currentSha = Boot /\ running = Boot
  /\ upc = "idle" /\ newSha = NoImage /\ tar = NoImage
  /\ status = "ok"
  /\ faults = [kind \in Kinds |-> 0]

\* The script exits and its work_dir is removed.
Exit(result) ==
  /\ upc' = "idle" /\ status' = result
  /\ newSha' = NoImage /\ tar' = NoImage

Fault(kind) ==
  /\ faults[kind] < MaxFaults[kind]
  /\ faults' = [faults EXCEPT ![kind] = @ + 1]

-----------------------------------------------------------------------------
(* Variants with a slip the script could have made; no specification uses them. *)

\* The signature is checked against what is published now, not against image.tar.
VerifySignatureOfLatest ==
  /\ upc = "sig"
  /\ IF latest \in Signed THEN upc' = "tag" /\ UNCHANGED <<localVars, status>> ELSE Exit("failed")
  /\ UNCHANGED <<latest, ctrVars, currentSha, running, faults>>

\* The checksum is recorded before the health check.
RestartRecords ==
  /\ upc = "restart"
  /\ running' = imageRef
  /\ currentSha' = newSha
  /\ upc' = "check"
  /\ UNCHANGED <<latest, ctrVars, localVars, status, faults>>

\* The checksum is never recorded.
RecordShaForgotten ==
  /\ upc = "record"
  /\ Exit("ok")
  /\ UNCHANGED <<latest, ctrVars, currentSha, running, faults>>

\* The old image gets its tag back, but the service is not restarted.
RestartOldSkipped ==
  /\ upc = "restartOld"
  /\ upc' = "recheck"
  /\ UNCHANGED <<latest, ctrVars, currentSha, running, localVars, status, faults>>

-----------------------------------------------------------------------------
(* The environment.                                                        *)

Publish(i) ==
  /\ latest' = i
  /\ UNCHANGED <<ctrVars, currentSha, running, upc, localVars, status, faults>>

\* The service's process ends; Restart=always starts what IMAGE_REF names now.
ServiceRestarts ==
  /\ running' = imageRef
  /\ UNCHANGED <<latest, ctrVars, currentSha, upc, localVars, status, faults>>

\* The host goes down and comes up again. A checksum that was being written may
\* be lost: the redirection truncates the file first. The unit has not run yet.
Crash ==
  /\ Fault("crash")
  /\ running' = imageRef
  /\ currentSha' \in IF upc = "record" THEN {currentSha, NoImage} ELSE {currentSha}
  /\ Exit("unknown")
  /\ UNCHANGED <<latest, ctrVars>>

-----------------------------------------------------------------------------
(* The script.                                                             *)

TimerFires ==
  /\ upc = "idle"
  /\ upc' = "sum"
  /\ UNCHANGED <<latest, ctrVars, currentSha, running, localVars, status, faults>>

\* curl -f fails: set -e ends the script, nothing has changed.
FetchFails ==
  /\ upc \in {"sum", "tar", "sig"}
  /\ Fault("fetch")
  /\ Exit("failed")
  /\ UNCHANGED <<latest, ctrVars, currentSha, running>>

\* The published checksum, compared with the recorded one.
FetchSum ==
  /\ upc = "sum"
  /\ IF currentSha = latest
       THEN Exit("ok")
       ELSE upc' = "tar" /\ newSha' = latest /\ UNCHANGED <<tar, status>>
  /\ UNCHANGED <<latest, ctrVars, currentSha, running, faults>>

\* The tar, compared with the checksum; it may belong to another release by now.
FetchTar ==
  /\ upc = "tar"
  /\ IF latest = newSha
       THEN upc' = "sig" /\ tar' = latest /\ UNCHANGED <<newSha, status>>
       ELSE Exit("failed")
  /\ UNCHANGED <<latest, ctrVars, currentSha, running, faults>>

\* The signature of the release that is published now, verified over the tar.
VerifySignature ==
  /\ upc = "sig"
  /\ IF tar \in Signed /\ latest = tar
       THEN upc' = "tag" /\ UNCHANGED <<localVars, status>>
       ELSE Exit("failed")
  /\ UNCHANGED <<latest, ctrVars, currentSha, running, faults>>

TagRollback ==
  /\ upc = "tag"
  /\ rollbackRef' = imageRef
  /\ upc' = "import"
  /\ UNCHANGED <<latest, imageRef, currentSha, running, localVars, status, faults>>

\* || true: the script goes on without a (new) rollback image.
TagFails ==
  /\ upc = "tag"
  /\ Fault("tag")
  /\ upc' = "import"
  /\ UNCHANGED <<latest, ctrVars, currentSha, running, localVars, status>>

Import ==
  /\ upc = "import"
  /\ imageRef' = tar
  /\ upc' = "restart"
  /\ UNCHANGED <<latest, rollbackRef, currentSha, running, localVars, status, faults>>

ImportFails ==
  /\ upc = "import"
  /\ Fault("import")
  /\ Exit("failed")
  /\ UNCHANGED <<latest, ctrVars, currentSha, running>>

Restart ==
  /\ upc = "restart"
  /\ running' = imageRef
  /\ upc' = "check"
  /\ UNCHANGED <<latest, ctrVars, currentSha, localVars, status, faults>>

\* systemctl restart fails: set -e ends the script before its rollback.
RestartFails ==
  /\ upc \in {"restart", "restartOld"}
  /\ Fault("restart")
  /\ running' = NoImage
  /\ Exit("failed")
  /\ UNCHANGED <<latest, ctrVars, currentSha>>

\* systemctl is-active, after HEALTH_WAIT_SECS.
HealthCheck ==
  /\ upc = "check"
  /\ upc' = IF running \in Healthy THEN "record" ELSE "rollback"
  /\ UNCHANGED <<latest, ctrVars, currentSha, running, localVars, status, faults>>

RecordSha ==
  /\ upc = "record"
  /\ currentSha' = newSha
  /\ Exit("ok")
  /\ UNCHANGED <<latest, ctrVars, running, faults>>

\* ctr images tag ROLLBACK_REF IMAGE_REF succeeds only if there is one.
Rollback ==
  /\ upc = "rollback"
  /\ IF rollbackRef # NoImage
       THEN imageRef' = rollbackRef /\ upc' = "restartOld" /\ UNCHANGED <<localVars, status>>
       ELSE Exit("failed") /\ UNCHANGED imageRef
  /\ UNCHANGED <<latest, rollbackRef, currentSha, running, faults>>

RestartOld ==
  /\ upc = "restartOld"
  /\ running' = imageRef
  /\ upc' = "recheck"
  /\ UNCHANGED <<latest, ctrVars, currentSha, localVars, status, faults>>

\* Only the log line depends on the second health check; the script exits with 1.
Recheck ==
  /\ upc = "recheck"
  /\ Exit("failed")
  /\ UNCHANGED <<latest, ctrVars, currentSha, running, faults>>

Script ==
  \/ FetchSum \/ FetchTar \/ VerifySignature \/ TagRollback \/ Import \/ Restart
  \/ HealthCheck \/ RecordSha \/ Rollback \/ RestartOld \/ Recheck

Failure == FetchFails \/ TagFails \/ ImportFails \/ RestartFails \/ Crash

Next ==
  \/ \E i \in Images : Publish(i)
  \/ ServiceRestarts \/ TimerFires \/ Script \/ Failure

Spec == Init /\ [][Next]_vars

\* The timer fires again and again (OnUnitActiveSec), and a script that can go on
\* does. Nothing is assumed of the publisher.
FairSpec == Spec /\ WF_vars(TimerFires) /\ WF_vars(Script)

-----------------------------------------------------------------------------
\* Types; a restart always has an image to start.
TypeOK ==
  /\ latest \in Images /\ imageRef \in Images
  /\ rollbackRef \in Images \cup {NoImage}
  /\ currentSha \in Images \cup {NoImage}
  /\ running \in Images \cup {NoImage}
  /\ upc \in Steps
  /\ newSha \in Images \cup {NoImage} /\ tar \in Images \cup {NoImage}
  /\ status \in {"ok", "failed", "unknown"}
  /\ faults \in [Kinds -> Nat]

\* Whatever is published, and whenever it is exchanged between the three downloads,
\* no image gets a tag or is started that the maintainer has not signed, the one
\* the host was deployed with excepted.
OnlySignedRuns == {imageRef, rollbackRef, running} \subseteq Signed \cup {Boot, NoImage}

\* A checksum is recorded only for an image that passed its health check, so that
\* a broken release is tried again after it has been fixed, and never taken
\* for deployed.
RecordedIsHealthy ==
  [][currentSha' # currentSha /\ currentSha' # NoImage => currentSha' \in Healthy]_vars

\* So far no fault but failing downloads and imports, which the script survives.
Undisturbed == \A kind \in {"tag", "restart", "crash"} : faults[kind] = 0

\* Without other faults, a failed update leaves a healthy service running: the
\* rollback brings back an image that works, and no step before it takes one away.
FailedStillServes ==
  Undisturbed /\ upc = "idle" /\ status = "failed" => running \in Healthy

\* README.md:259-263: "failed" means that an update was rolled back and that the
\* host still serves on the previous image, whatever made it fail.
FailedMeansServing == upc = "idle" /\ status = "failed" => running \in Healthy

\* README.md:243-244 and the log line "already up to date": after a run that ended
\* well the recorded checksum is that of the image the service runs.
UpToDateMeansRunning ==
  Undisturbed /\ upc = "idle" /\ status = "ok" => running = currentSha

\* A good release that stays published is installed and recorded in the end, even
\* after broken, unsigned or half-replaced ones.
Converges ==
  \A i \in Images \cap Signed \cap Healthy :
    []Undisturbed /\ <>[](latest = i) => <>[](running = i /\ currentSha = i)
=============================================================================
