------------------------------ MODULE BootHealth ------------------------------
(***************************************************************************)
(* The health gate of a firmware update: HealthGate (ota_boot_health.cpp), *)
(* the monitor task and the calls of setup, loop and the web server around *)
(* it (ota_boot_runtime.cpp, main.cpp, netserver.cpp), over two            *)
(* application slots and an external bootloader.  Time is counted in ticks *)
(* from the start of a boot; the monitor task samples every tick, the main *)
(* loop at its own pace or never.  A power cut may fall between any two    *)
(* steps, and reading or writing otadata and NVS may fail.                 *)
(***************************************************************************)
EXTENDS Naturals

CONSTANTS
    HealthStable,    \* kHealthStableMs, in ticks
    HealthTimeout,   \* kHealthTimeoutMs
    Heartbeat,       \* the 1000 ms the main loop may be silent
    MaxTime,         \* bound on the clock of one boot
    MaxUploads, MaxCuts, MaxFaults    \* bounds on uploads, power cuts, failing calls

ASSUME TicksNat == HealthStable \in Nat /\ HealthTimeout \in Nat /\ Heartbeat \in Nat
ASSUME BoundsNat ==
    MaxTime \in Nat /\ MaxUploads \in Nat /\ MaxCuts \in Nat /\ MaxFaults \in Nat

Slots == {"app0", "app1"}
Other(s) == IF s = "app0" THEN "app1" ELSE "app0"
ImageStates ==
    {"None", "New", "PendingVerify", "Valid", "Invalid", "Aborted", "Undefined"}
Phases == {"NotPending", "Waiting", "Stabilizing", "Validated", "RollbackRequested",
           "RollbackUnavailable", "ValidationFailed"}
ValidationModes == {"None", "PendingVerify", "InitialUndefined"}
Failures == {"none", "mark_valid", "other"}

VARIABLES
    otadata,      \* Slots -> ImageStates
    intact,       \* the slots that hold a complete application
    bootSlot,     \* the slot otadata selects
    lastFailure,  \* the NVS key last_fail
    stage,        \* how far the boot has come
    running,      \* the slot that runs
    uploading,    \* a firmware upload is being written to the other slot
    phase, mode, canRollback, stabilityStarted, stableAt,         \* HealthGate
    published, validationRequired, pendingImage, stateReadOk,     \* the atomics
    setupComplete, controlPlane, fatal, lastService,              \* the evidence
    monitor,      \* where the monitor task is
    nowMs,        \* the time it read
    now,          \* the clock
    stalledAt,    \* history: the last tick the main loop had been silent too long
    uploads, cuts, faults

flash == <<otadata, intact, bootSlot>>
gate == <<phase, mode, canRollback, stabilityStarted, stableAt>>
flags == <<validationRequired, pendingImage, stateReadOk>>
evidence == <<setupComplete, controlPlane, fatal, lastService>>
clock == <<now, stalledAt>>
counters == <<uploads, cuts, faults>>
vars == <<flash, lastFailure, stage, running, uploading, gate, published, flags,
          evidence, monitor, nowMs, clock, counters>>

Alive == {"wait", "evaluate", "mark", "confirm", "unconfirmed", "save", "save_mark",
          "rollback", "invalidate"}
Stages == {"off", "begin", "start", "reject", "setup", "stamp", "loop", "halted"}

FlagsOK ==
    /\ uploading \in BOOLEAN
    /\ canRollback \in BOOLEAN /\ stabilityStarted \in BOOLEAN
    /\ validationRequired \in BOOLEAN /\ pendingImage \in BOOLEAN /\ stateReadOk \in BOOLEAN
    /\ setupComplete \in BOOLEAN /\ controlPlane \in BOOLEAN

ValuesOK ==
    /\ otadata \in [Slots -> ImageStates]
    /\ intact \in SUBSET Slots
    /\ bootSlot \in Slots /\ running \in Slots
    /\ lastFailure \in Failures /\ fatal \in Failures
    /\ stage \in Stages
    /\ phase \in Phases /\ published \in Phases
    /\ mode \in ValidationModes
    /\ monitor \in Alive \cup {"none"}
    /\ stableAt \in Nat /\ lastService \in Nat /\ nowMs \in Nat
    /\ now \in Nat /\ stalledAt \in Nat
    /\ uploads \in 0 .. MaxUploads /\ cuts \in 0 .. MaxCuts /\ faults \in 0 .. MaxFaults

TypeOK == ValuesOK /\ FlagsOK

\* What the static initialisers give every boot.
RamReset ==
    /\ uploading' = FALSE
    /\ phase' = "NotPending" /\ mode' = "None" /\ canRollback' = FALSE
    /\ stabilityStarted' = FALSE /\ stableAt' = 0
    /\ published' = "NotPending"
    /\ validationRequired' = FALSE /\ pendingImage' = FALSE /\ stateReadOk' = FALSE
    /\ setupComplete' = FALSE /\ controlPlane' = FALSE
    /\ fatal' = "none" /\ lastService' = 0
    /\ monitor' = "none" /\ nowMs' = 0
    /\ now' = 0 /\ stalledAt' = 0
    /\ running' = "app0"

\* The device as flashed over USB, with whatever NVS was left, or one whose
\* image was validated before.
Init ==
    /\ otadata \in {[s \in Slots |-> IF s = "app0" THEN st ELSE "None"] :
                        st \in {"Undefined", "Valid"}}
    /\ intact = {"app0"} /\ bootSlot = "app0" /\ running = "app0"
    /\ lastFailure \in {"none", "mark_valid"}
    /\ stage = "off" /\ uploading = FALSE
    /\ phase = "NotPending" /\ mode = "None" /\ canRollback = FALSE
    /\ stabilityStarted = FALSE /\ stableAt = 0
    /\ published = "NotPending"
    /\ validationRequired = FALSE /\ pendingImage = FALSE /\ stateReadOk = FALSE
    /\ setupComplete = FALSE /\ controlPlane = FALSE
    /\ fatal = "none" /\ lastService = 0
    /\ monitor = "none" /\ nowMs = 0 /\ now = 0 /\ stalledAt = 0
    /\ uploads = 0 /\ cuts = 0 /\ faults = 0

NoFault == faults' = faults
Fault == faults < MaxFaults /\ faults' = faults + 1

-----------------------------------------------------------------------------
(* ESP-IDF and its bootloader (external).                                  *)

Good(s) == otadata[s] = "Valid" /\ s \in intact

\* The bootloader gives a new image one boot, and aborts one it finds
\* pending a second time.
Bootloader ==
    LET checked == IF otadata[bootSlot] = "PendingVerify"
                   THEN [otadata EXCEPT ![bootSlot] = "Aborted"] ELSE otadata
        slot == IF checked[bootSlot] = "Aborted" THEN Other(bootSlot) ELSE bootSlot
    IN
    /\ stage = "off" /\ stage' = "begin"
    /\ slot \in intact
    /\ bootSlot' = slot /\ running' = slot
    /\ otadata' = IF checked[slot] = "New"
                  THEN [checked EXCEPT ![slot] = "PendingVerify"] ELSE checked
    /\ UNCHANGED <<intact, lastFailure, uploading, gate, published, flags, evidence,
                   monitor, nowMs, clock, counters>>

\* esp_ota_check_rollback_is_possible; a failed read says no.
RollbackPossible ==
    Other(running) \in intact /\ otadata[Other(running)] \notin {"None", "Invalid", "Aborted"}
CheckRollback(answer) ==
    \/ answer = RollbackPossible /\ NoFault
    \/ RollbackPossible /\ answer = FALSE /\ Fault

\* esp_ota_mark_app_invalid_rollback_and_reboot.
InvalidateAndReboot ==
    /\ RollbackPossible
    /\ otadata' = [otadata EXCEPT ![running] = "Invalid"]
    /\ bootSlot' = Other(running)
    /\ stage' = "off" /\ RamReset
    /\ NoFault /\ UNCHANGED <<intact, lastFailure, uploads, cuts>>

-----------------------------------------------------------------------------
(* HealthGate                                                              *)

GateBegin(m, can) ==
    /\ mode' = m /\ canRollback' = can
    /\ stabilityStarted' = FALSE /\ stableAt' = 0
    /\ phase' = IF m = "None" THEN "NotPending"
                ELSE IF m = "PendingVerify" /\ ~can THEN "RollbackUnavailable"
                ELSE "Waiting"

Rejected ==
    IF mode = "InitialUndefined" THEN "ValidationFailed"
    ELSE IF canRollback THEN "RollbackRequested" ELSE "RollbackUnavailable"

\* Seeded defect of Fresh: signed time, a heartbeat later than the sample is
\* taken as a fresh one.
Fresh_Signed == lastService > nowMs \/ nowMs - lastService <= Heartbeat

\* uint32_t(nowMs - lastServiceMs) <= 1000: a heartbeat newer than the time
\* the monitor read makes the difference wrap round and count as stale.
Fresh == lastService <= nowMs /\ nowMs - lastService <= Heartbeat

EvidenceReady == setupComplete /\ Fresh /\ controlPlane

\* Seeded defect of Verdict: the timeout is looked at only while the image
\* is stable.
Verdict_StableTimeout ==
    IF fatal # "none" THEN "reject"
    ELSE IF ~EvidenceReady THEN "wait"
    ELSE IF ~stabilityStarted THEN "start"
    ELSE IF nowMs - stableAt >= HealthStable THEN "validate"
    ELSE IF nowMs >= HealthTimeout THEN "reject" ELSE "continue"

\* evaluate, in its order: fatal, stable for long enough, timed out.
Verdict ==
    IF fatal # "none" THEN "reject"
    ELSE IF EvidenceReady /\ stabilityStarted /\ nowMs - stableAt >= HealthStable
    THEN "validate"
    ELSE IF nowMs >= HealthTimeout THEN "reject"
    ELSE IF ~EvidenceReady THEN "wait"
    ELSE IF stabilityStarted THEN "continue" ELSE "start"

-----------------------------------------------------------------------------
(* beginBootHealthMonitor, the first call of setup.                        *)

Publish == published' = phase'

BeginUnreadable ==
    /\ stage = "begin" /\ stage' = "setup"
    /\ Fault
    /\ stateReadOk' = FALSE /\ validationRequired' = TRUE
    /\ published' = "ValidationFailed"
    /\ UNCHANGED <<flash, lastFailure, running, uploading, gate, pendingImage, evidence,
                   monitor, nowMs, clock, uploads, cuts>>

\* The mismatch of boot and running slot has no step: the bootloader leaves none.
Begin ==
    LET state == otadata[running]
        validation == CASE state = "PendingVerify" -> "PendingVerify"
                        [] state = "Undefined" -> "InitialUndefined"
                        [] OTHER -> "None"
        retried == validation = "InitialUndefined" /\ lastFailure = "mark_valid"
    IN
    /\ stage = "begin"
    /\ stateReadOk' = TRUE
    /\ pendingImage' = (validation = "PendingVerify")
    /\ validationRequired' = (validation # "None")
    /\ \E can \in BOOLEAN :
        /\ CheckRollback(can)
        /\ IF retried
           THEN /\ mode' = validation /\ canRollback' = FALSE /\ phase' = "ValidationFailed"
                /\ stabilityStarted' = FALSE /\ stableAt' = 0
           ELSE GateBegin(validation, can)
        /\ stage' = IF phase' = "Waiting" THEN "start" ELSE "setup"
    /\ Publish
    /\ UNCHANGED <<flash, lastFailure, running, uploading, evidence, monitor, nowMs,
                   clock, uploads, cuts>>

StartMonitor ==
    /\ stage = "start" /\ stage' = "setup"
    /\ monitor' = "wait"
    /\ UNCHANGED <<flash, lastFailure, running, uploading, gate, published, flags,
                   evidence, nowMs, clock, counters>>

\* xTaskCreate failed: the image is rejected on the spot.
StartFails ==
    /\ stage = "start" /\ Fault
    /\ fatal' = "other" /\ lastFailure' = "other"
    /\ phase' = Rejected /\ stabilityStarted' = FALSE /\ Publish
    /\ stage' = IF phase' = "RollbackRequested" THEN "reject" ELSE "setup"
    /\ UNCHANGED <<flash, running, uploading, mode, canRollback, stableAt, flags,
                   setupComplete, controlPlane, lastService, monitor, nowMs, clock,
                   uploads, cuts>>

RejectAtStart ==
    /\ stage = "reject"
    /\ \/ InvalidateAndReboot
       \/ /\ RollbackPossible => Fault
          /\ ~RollbackPossible => NoFault
          /\ stage' = "setup"
          /\ UNCHANGED <<flash, lastFailure, running, uploading, gate, published, flags,
                         evidence, monitor, nowMs, clock, uploads, cuts>>

-----------------------------------------------------------------------------
(* setup and loop: what they report.                                       *)

\* recoverAtBoot failed: the failure is reported and setup never goes on.
HaltReported ==
    /\ stage = "setup" /\ stage' = "halted"
    /\ fatal' = "other"
    /\ UNCHANGED <<flash, lastFailure, running, uploading, gate, published, flags,
                   setupComplete, controlPlane, lastService, monitor, nowMs, clock, counters>>

\* The first boot transaction could not be recovered, or the security
\* recovery access point owns the runtime: nothing is ever reported.
HaltSilently ==
    /\ stage = "setup" /\ stage' = "halted"
    /\ UNCHANGED <<flash, lastFailure, running, uploading, gate, published, flags,
                   evidence, monitor, nowMs, clock, counters>>

\* completeBootHealth: what is missing is fatal, and reported first; the
\* evidence, then the heartbeat.
CompleteSetup ==
    /\ stage = "setup" /\ stage' = "stamp"
    /\ setupComplete' \in BOOLEAN /\ controlPlane' \in BOOLEAN
    /\ fatal' = IF setupComplete' THEN fatal ELSE "other"
    /\ UNCHANGED <<flash, lastFailure, running, uploading, gate, published, flags,
                   lastService, monitor, nowMs, clock, counters>>

StampSetup ==
    /\ stage = "stamp" /\ stage' = "loop"
    /\ lastService' = now
    /\ UNCHANGED <<flash, lastFailure, running, uploading, gate, published, flags,
                   setupComplete, controlPlane, fatal, monitor, nowMs, clock, counters>>

\* serviceBootHealth, once per turn of the main loop.
Service ==
    /\ stage = "loop"
    /\ lastService' = now /\ controlPlane' \in BOOLEAN
    /\ UNCHANGED <<flash, lastFailure, stage, running, uploading, gate, published, flags,
                   setupComplete, fatal, monitor, nowMs, clock, counters>>

-----------------------------------------------------------------------------
(* The monitor task.                                                       *)

mvars == <<intact, stage, running, uploading, evidence, clock, uploads, cuts>>

Sample ==
    /\ monitor = "wait" /\ monitor' = "evaluate"
    /\ nowMs' = now
    /\ UNCHANGED <<mvars, otadata, bootSlot, lastFailure, gate, published, flags, faults>>

\* evaluate and publish, by verdict.
Judge(verdict, newPhase, next) ==
    /\ monitor = "evaluate" /\ Verdict = verdict
    /\ phase' = newPhase /\ Publish
    /\ monitor' = next
    /\ UNCHANGED <<mvars, otadata, bootSlot, lastFailure, mode, canRollback, flags, nowMs,
                   faults>>

StartOver ==
    Judge("wait", "Waiting", "wait") /\ stabilityStarted' = FALSE /\ UNCHANGED stableAt
StartWindow ==
    Judge("start", "Stabilizing", "wait") /\ stabilityStarted' = TRUE /\ stableAt' = nowMs
ContinueWindow ==
    Judge("continue", phase, "wait") /\ UNCHANGED <<stabilityStarted, stableAt>>
Approve ==
    Judge("validate", "Validated", "mark") /\ UNCHANGED <<stabilityStarted, stableAt>>
Reject ==
    Judge("reject", Rejected, "save") /\ stabilityStarted' = FALSE /\ UNCHANGED stableAt

\* saveLastFailure, which may fail without stopping anything.
SaveReason(reason) ==
    \/ lastFailure' = reason /\ NoFault
    \/ lastFailure' = lastFailure /\ Fault

SaveRejection ==
    /\ monitor = "save"
    /\ SaveReason("other")
    /\ monitor' = IF phase = "RollbackRequested" THEN "rollback" ELSE "none"
    /\ UNCHANGED <<mvars, otadata, bootSlot, gate, published, flags, nowMs>>

\* The rollback candidate is looked at again before it is used.
CheckCandidate ==
    /\ monitor = "rollback"
    /\ \E can \in BOOLEAN :
        /\ CheckRollback(can)
        /\ monitor' = IF can THEN "invalidate" ELSE "none"
        /\ phase' = IF can THEN phase ELSE "RollbackUnavailable"
        /\ canRollback' = can
    /\ Publish
    /\ UNCHANGED <<mvars, otadata, bootSlot, lastFailure, mode, stabilityStarted, stableAt,
                   flags, nowMs>>

\* The call does not return unless it fails, and then the task ends.
Invalidate ==
    /\ monitor = "invalidate"
    /\ \/ InvalidateAndReboot
       \/ /\ RollbackPossible => Fault
          /\ ~RollbackPossible => NoFault
          /\ monitor' = "none"
          /\ phase' = "RollbackUnavailable" /\ Publish
          /\ lastFailure' \in {"other", lastFailure}
          /\ UNCHANGED <<mvars, otadata, bootSlot, mode, canRollback, stabilityStarted,
                         stableAt, flags, nowMs>>

\* esp_ota_mark_app_valid_cancel_rollback; a call that reports an error may
\* have written the state all the same.
MarkValid ==
    /\ monitor = "mark"
    /\ \/ /\ otadata' = [otadata EXCEPT ![running] = "Valid"]
          /\ monitor' = "confirm" /\ NoFault
       \/ /\ otadata' \in {otadata, [otadata EXCEPT ![running] = "Valid"]}
          /\ monitor' = "unconfirmed" /\ Fault
    /\ UNCHANGED <<mvars, bootSlot, lastFailure, gate, published, flags, nowMs>>

\* Only a state that is read back is believed.
Confirm ==
    /\ monitor = "confirm"
    /\ \/ /\ otadata[running] = "Valid" /\ NoFault
          /\ pendingImage' = FALSE /\ validationRequired' = FALSE
          /\ monitor' = "none"
       \/ /\ Fault
          /\ monitor' = "unconfirmed"
          /\ UNCHANGED <<pendingImage, validationRequired>>
    /\ UNCHANGED <<mvars, otadata, bootSlot, lastFailure, gate, published, stateReadOk, nowMs>>

\* validationFailed with the candidate as it is now.
Unconfirmed ==
    /\ monitor = "unconfirmed" /\ monitor' = "save_mark"
    /\ \E can \in BOOLEAN :
        /\ CheckRollback(can)
        /\ canRollback' = can
        /\ phase' = IF mode = "PendingVerify" /\ can THEN "RollbackRequested"
                    ELSE "ValidationFailed"
    /\ stabilityStarted' = FALSE
    /\ Publish
    /\ UNCHANGED <<mvars, otadata, bootSlot, lastFailure, mode, stableAt, flags, nowMs>>

SaveMarkFailure ==
    /\ monitor = "save_mark"
    /\ SaveReason("mark_valid")
    /\ monitor' = IF phase = "RollbackRequested" THEN "invalidate" ELSE "none"
    /\ UNCHANGED <<mvars, otadata, bootSlot, gate, published, flags, nowMs>>

MonitorStep ==
    \/ Sample
    \/ StartOver \/ StartWindow \/ ContinueWindow \/ Approve \/ Reject
    \/ SaveRejection \/ CheckCandidate \/ Invalidate
    \/ MarkValid \/ Confirm \/ Unconfirmed \/ SaveMarkFailure

-----------------------------------------------------------------------------
(* The firmware upload of the web server, and the restart after it.        *)

\* Seeded defect of BootHealthReady: the phase alone decides.
BootHealthReady_PhaseOnly ==
    stateReadOk /\ published \in {"NotPending", "Validated"}

\* bootHealthReady.
BootHealthReady ==
    /\ stateReadOk /\ ~validationRequired /\ ~pendingImage
    /\ published \in {"NotPending", "Validated"}

\* Seeded defect of UploadAllowed: the slots are not compared.
UploadAllowed_AnySlot == BootHealthReady /\ otadata[running] = "Valid"

\* The check at the head of the upload, and firmwareUpdatePreflight.
UploadAllowed ==
    /\ BootHealthReady
    /\ otadata[running] = "Valid" /\ bootSlot = running

StartUpload ==
    /\ stage = "loop" /\ ~uploading
    /\ UploadAllowed
    /\ uploads < MaxUploads /\ uploads' = uploads + 1
    /\ uploading' = TRUE
    /\ intact' = intact \ {Other(running)}
    /\ UNCHANGED <<otadata, bootSlot, lastFailure, stage, running, gate, published, flags,
                   evidence, monitor, nowMs, clock, cuts, faults>>

\* Update.end: the written image is verified, then selected.
FinishUpload ==
    /\ stage = "loop" /\ uploading /\ uploading' = FALSE
    /\ intact' = Slots
    /\ otadata' = [otadata EXCEPT ![Other(running)] = "New"]
    /\ bootSlot' = Other(running)
    /\ UNCHANGED <<lastFailure, stage, running, gate, published, flags, evidence, monitor,
                   nowMs, clock, counters>>

AbortUpload ==
    /\ stage = "loop" /\ uploading /\ uploading' = FALSE
    /\ UNCHANGED <<flash, lastFailure, stage, running, gate, published, flags, evidence,
                   monitor, nowMs, clock, counters>>

Restart ==
    /\ stage = "loop" /\ bootSlot # running
    /\ stage' = "off" /\ RamReset
    /\ UNCHANGED <<flash, lastFailure, counters>>

-----------------------------------------------------------------------------
(* The environment.                                                        *)

PowerCut ==
    /\ stage # "off" /\ stage' = "off"
    /\ cuts < MaxCuts /\ cuts' = cuts + 1
    /\ RamReset
    /\ UNCHANGED <<flash, lastFailure, uploads, faults>>

\* Time only matters while the image is judged.  The task runs every 200 ms:
\* it reads the clock in every tick, and may be held up into the next one
\* between reading the clock and reading the evidence.
Tick ==
    /\ monitor \in {"wait", "evaluate"} /\ nowMs = now
    /\ now < MaxTime /\ now' = now + 1
    /\ stalledAt' = IF now' - lastService > Heartbeat + 1 THEN now' ELSE stalledAt
    /\ UNCHANGED <<flash, lastFailure, stage, running, uploading, gate, published, flags,
                   evidence, monitor, nowMs, counters>>

MainStep ==
    \/ BeginUnreadable \/ Begin \/ StartMonitor \/ StartFails \/ RejectAtStart
    \/ HaltReported \/ HaltSilently \/ CompleteSetup \/ StampSetup \/ Service
    \/ StartUpload \/ FinishUpload \/ AbortUpload \/ Restart

Next == Bootloader \/ MainStep \/ MonitorStep \/ PowerCut \/ Tick

\* The device boots when it has power, setup reaches the monitor, the
\* monitor is scheduled and time passes.  Nothing is assumed of the loop.
Fairness ==
    /\ WF_vars(Bootloader) /\ WF_vars(BeginUnreadable \/ Begin)
    /\ WF_vars(StartMonitor \/ StartFails) /\ WF_vars(RejectAtStart)
    /\ WF_vars(MonitorStep) /\ WF_vars(Tick)

Spec == Init /\ [][Next]_vars
FairSpec == Spec /\ Fairness

-----------------------------------------------------------------------------
(* Properties                                                              *)

\* There is always a known good image to fall back to: the selected slot
\* holds a complete application that was not given up, and as long as it
\* has not been validated itself the other slot holds a validated one.
\* No sequence of uploads, failed checks, rollbacks and power cuts strands
\* the device.
KnownGoodKept ==
    /\ bootSlot \in intact
    /\ otadata[bootSlot] \notin {"None", "Invalid", "Aborted"}
    /\ otadata[bootSlot] \in {"New", "PendingVerify"} => Good(Other(bootSlot))

\* The device calls itself ready for an update only when the state of the
\* running image is durably VALID: never between the decision to validate
\* it and the confirmed write.
ReadyMeansDurable == BootHealthReady => otadata[running] = "Valid"

\* An image is approved only after a full stability window in which setup
\* had completed and the main loop was alive all the time: a stalled loop
\* cannot silently approve an image.
ApprovedAlive ==
    phase = "Validated" =>
        setupComplete /\ stalledAt <= stableAt /\ nowMs - stableAt >= HealthStable

\* A pending image never stays pending: it is validated, rolled back to
\* the other slot, aborted by a restart, or held for diagnostics, even if
\* the main loop never runs.
Decided ==
    \/ otadata[running] # "PendingVerify"
    \/ published \in {"RollbackRequested", "RollbackUnavailable", "ValidationFailed"}
       /\ monitor = "none"
PendingIsDecided == stage # "off" ~> (stage = "off" \/ Decided)

-----------------------------------------------------------------------------
(* The inductive invariant behind the first three.                         *)

\* The slots: a running image is the selected one, or a validated one that
\* has just installed its successor.
SlotsInv ==
    stage # "off" =>
        \/ running = bootSlot /\ otadata[running] # "New"
        \/ Good(running) /\ monitor = "none" /\ stage = "loop" /\ ~uploading

\* An upload only overwrites the slot beside a validated image.
UploadInv ==
    /\ uploading => Good(running) /\ running = bootSlot /\ monitor = "none" /\ stage = "loop"
    /\ stage = "off" => ~stateReadOk /\ ~uploading /\ monitor = "none" /\ phase = "NotPending"

\* A judged image runs from the selected slot and is not known to be valid,
\* and one that may be rolled back has a validated one beside it.
JudgedInv ==
    stage # "off" /\ (monitor # "none" \/ stage \in {"start", "reject"}) =>
        /\ running = bootSlot
        /\ stateReadOk /\ validationRequired
        /\ mode \in {"PendingVerify", "InitialUndefined"}
        /\ mode = "PendingVerify" => Good(Other(running))
        /\ stage \in {"setup", "stamp", "loop", "halted", "start", "reject"}
        /\ monitor # "none" => stage \notin {"start", "reject"}

RollbackInv ==
    /\ phase = "RollbackRequested" => mode = "PendingVerify"
    /\ monitor \in {"rollback", "invalidate"} \/ stage = "reject" => phase = "RollbackRequested"
    /\ stage = "begin" => ~stateReadOk /\ ~uploading /\ monitor = "none"

\* Once read, only a VALID state needs no validation.
ReadyInv ==
    stage \notin {"off", "begin"} /\ stateReadOk /\ ~validationRequired =>
        otadata[running] = "Valid" /\ monitor = "none"

\* The stability window against the heartbeat of the main loop.
WindowInv ==
    /\ lastService <= now /\ stalledAt <= now /\ nowMs <= now
    /\ setupComplete => stage \in {"stamp", "loop"}
    /\ stage = "start" => phase = "Waiting" /\ ~stabilityStarted
    /\ stabilityStarted => stableAt <= nowMs
    /\ phase = "Validated" => monitor \notin {"wait", "evaluate"}
    /\ monitor = "evaluate" /\ stalledAt > nowMs => ~Fresh /\ now = nowMs + 1
    /\ monitor = "evaluate" /\ stabilityStarted => stalledAt <= stableAt \/ stalledAt > nowMs
    /\ monitor = "wait" /\ stabilityStarted =>
           stalledAt <= stableAt /\ nowMs <= lastService + Heartbeat

IInv ==
    /\ TypeOK
    /\ KnownGoodKept /\ SlotsInv /\ UploadInv
    /\ JudgedInv /\ RollbackInv /\ ReadyInv
    /\ WindowInv /\ ApprovedAlive
=============================================================================
