------------------------ MODULE FirstBootTransaction ------------------------
(***************************************************************************)
(* The FIRST BOOT setup of src/src/core/first_boot_transaction.cpp and its *)
(* device runtime: one transaction over three stores, the hardware record  *)
(* (NVS), the Wi-Fi file (SPIFFS, module WifiFiles) and the security       *)
(* record (NVS), made recoverable by a journal (NVS).  The portal starts   *)
(* it, any failure or power cut undoes it, and the boot that follows runs  *)
(* recovery before anything reads the stores.                              *)
(***************************************************************************)
EXTENDS WifiFiles

CONSTANTS
    HwConfigs,    \* hardware configurations
    DefaultHw,    \* the one the build uses when no record is stored
    NoRecord,     \* an NVS key that is absent
    MaxCrashes    \* bound on the number of power cuts and restarts

ASSUME HwAssumption ==
    DefaultHw \in HwConfigs /\ NoRecord \notin HwConfigs /\ NoRecord # "open"
ASSUME MaxCrashesNat == MaxCrashes \in Nat

Phases == {"prepared", "hardware_written", "wifi_written", "security_written"}

Journals == [phase : Phases,
             priorHw : HwConfigs \cup {NoRecord},
             candHw : HwConfigs \cup {NoRecord},
             priorWifi : {Missing, Empty},
             wifi : Payloads]

Settings == [hw : HwConfigs \cup {NoRecord}, wifi : Contents, sec : {NoRecord, "open"}]

ASSUME NoRecordIsNone == NoRecord \notin Journals /\ NoRecord \notin Settings

VARIABLES
    hw,          \* NVS: the runtime hardware record
    sec,         \* NVS: the security record, NoRecord or "open"
    journal,     \* NVS: the transaction journal
    plan,        \* RAM: the journal record commit builds
    writeHw,     \* RAM: candidate.writeHardware
    asked,       \* RAM: the hardware configuration the portal asked for
    hwRam,       \* RAM: the runtime hardware configuration in use
    pc,          \* what the device does next
    result,      \* RAM: the cause or the result of the last transaction
    secRam,      \* RAM: SecurityService's state
    wifiReady,   \* RAM: config.wifiConfigReady
    blocked,     \* RAM: transactionBlocked
    bootFaults,  \* history: faults when this boot began
    crashes      \* power cuts and restarts so far

nvs == <<hw, sec, journal>>
choice == <<plan, writeHw, asked>>
ram == <<choice, hwRam, result, secRam, wifiReady, blocked>>
history == <<bootFaults, crashes>>
vars == <<wvars, nvs, ram, pc, history>>

PCs == {"boot", "boot_hardware", "boot_config", "boot_wifi", "boot_network", "running", "halted",
        "prepared", "hardware", "hardware_written", "wifi", "wifi_running",
        "wifi_written", "security", "security_written", "finalize",
        "undo", "undo_security", "undo_wifi", "undo_wifi_running", "undo_hardware",
        "undo_journal", "sync"}

Results == {"none", "applied", "refused", "journal_write", "hardware_write", "wifi_write",
            "security_completion", "finalize", "rollback_failed", "at_boot"}

SecStates == {"unconfigured", "legacy_unclaimed", "open", "locked"}

TypeOK ==
    /\ WifiTypeOK
    /\ hw \in HwConfigs \cup {NoRecord}
    /\ sec \in {NoRecord, "open"}
    /\ journal \in Journals \cup {NoRecord}
    /\ plan \in Journals
    /\ writeHw \in BOOLEAN
    /\ asked \in HwConfigs /\ hwRam \in HwConfigs
    /\ pc \in PCs
    /\ result \in Results
    /\ secRam \in SecStates
    /\ wifiReady \in BOOLEAN /\ blocked \in BOOLEAN
    /\ bootFaults \in 0 .. MaxFaults
    /\ crashes \in 0 .. MaxCrashes

Init ==
    /\ WifiInit
    /\ hw \in HwConfigs \cup {NoRecord}
    /\ sec = NoRecord /\ journal = NoRecord
    /\ plan = [phase |-> "prepared", priorHw |-> NoRecord, candHw |-> NoRecord,
               priorWifi |-> Missing, wifi |-> wdata]
    /\ writeHw = FALSE /\ asked = DefaultHw /\ hwRam = DefaultHw
    /\ pc = "boot" /\ result = "none"
    /\ secRam = "unconfigured" /\ wifiReady = FALSE /\ blocked = FALSE
    /\ bootFaults = 0 /\ crashes = 0

-----------------------------------------------------------------------------

Configured == files["active"] \in Payloads
HwInUse == IF hw = NoRecord THEN DefaultHw ELSE hw

\* SecurityService::begin on the stored record.
SecurityBegin(configured) ==
    IF sec # NoRecord THEN "open"
    ELSE IF configured THEN "legacy_unclaimed" ELSE "unconfigured"

WifiIdle == UNCHANGED <<files, wpc, locals, wret>>

Journaled(phase) == [plan EXCEPT !.phase = phase]

-----------------------------------------------------------------------------
(* Transaction::commit                                                     *)

\* candidate.writeHardware, decided on the configuration in use.
WritesHardware(request) == request # hwRam

\* The portal request: validation, the candidate, and the baseline checks.
\* A failing read is reported as a conflict, before anything is written.
StartCommit(request, data) ==
    /\ pc = "running" /\ wifiReady /\ ~blocked
    /\ secRam = "unconfigured"
    /\ asked' = request
    /\ writeHw' = WritesHardware(request)
    /\ plan' = [phase |-> "prepared",
                priorHw |-> hw,
                candHw |-> IF WritesHardware(request) THEN request ELSE hw,
                priorWifi |-> IF files["active"] = Empty THEN Empty ELSE Missing,
                wifi |-> data]
    /\ \/ /\ NoFault
          /\ IF journal = NoRecord /\ ~Configured /\ sec = NoRecord
             THEN pc' = "prepared" /\ result' = "none"
             ELSE pc' = "sync" /\ result' = "refused"
       \/ Fault /\ pc' = "sync" /\ result' = "refused"
    /\ WifiIdle
    /\ UNCHANGED <<nvs, hwRam, secRam, wifiReady, blocked, history>>

Fail(cause) == pc' = "undo" /\ result' = cause

\* writeJournal: the write and the read that verifies it.
WriteJournal(phase, next) ==
    /\ pc = phase
    /\ \/ journal' = Journaled(phase) /\ NoFault /\ pc' = next /\ result' = result
       \/ journal' \in {journal, Journaled(phase)} /\ Fault /\ Fail("journal_write")
    /\ WifiIdle
    /\ UNCHANGED <<hw, sec, choice, hwRam, secRam, wifiReady, blocked, history>>

WriteHardware ==
    /\ pc = "hardware"
    /\ \/ /\ hw' = IF writeHw THEN plan.candHw ELSE hw
          /\ NoFault
          /\ IF hw' = plan.candHw THEN pc' = "hardware_written" /\ result' = result
                                  ELSE Fail("hardware_write")
       \/ /\ hw' \in IF writeHw THEN {hw, plan.candHw} ELSE {hw}
          /\ Fault
          /\ Fail("hardware_write")
    /\ WifiIdle
    /\ UNCHANGED <<sec, journal, choice, hwRam, secRam, wifiReady, blocked, history>>

WriteWifi ==
    /\ pc = "wifi" /\ pc' = "wifi_running"
    /\ CallReplace(plan.wifi)
    /\ UNCHANGED <<nvs, ram, history>>

\* backend.writeWifi has returned; commit reads the active file back.
WifiWritten ==
    /\ pc = "wifi_running"
    /\ Returned
    /\ \/ NoFault /\ (IF wret /\ files["active"] = plan.wifi
                      THEN pc' = "wifi_written" /\ result' = result
                      ELSE Fail("wifi_write"))
       \/ wret /\ Fault /\ Fail("wifi_write")
    /\ UNCHANGED <<nvs, choice, hwRam, secRam, wifiReady, blocked, history>>

\* SecurityService::completeWifiProvisioningOpen changes its RAM state only
\* after the storage write has succeeded.
CompleteSecurity ==
    /\ pc = "security"
    /\ \/ /\ sec' = "open" /\ secRam' = "open"
          /\ NoFault /\ pc' = "security_written" /\ result' = result
       \/ /\ \/ sec' \in {sec, "open"} /\ secRam' = secRam
             \/ sec' = "open" /\ secRam' = "open"
          /\ Fault /\ Fail("security_completion")
    /\ WifiIdle
    /\ UNCHANGED <<hw, journal, choice, hwRam, wifiReady, blocked, history>>

\* eraseJournalAndConfirm at the end of commit: an erase that reports a
\* failure still counts when the record then reads as missing.
Finalize ==
    /\ pc = "finalize"
    /\ \/ /\ journal' = NoRecord /\ (NoFault \/ Fault)
          /\ pc' = "sync" /\ result' = "applied"
       \/ journal' \in {journal, NoRecord} /\ Fault /\ Fail("finalize")
    /\ WifiIdle
    /\ UNCHANGED <<hw, sec, choice, hwRam, secRam, wifiReady, blocked, history>>

-----------------------------------------------------------------------------
(* Transaction::recover, at the end of a failed commit (result holds the   *)
(* cause) or at boot (result = "at_boot").  It works from the journal.     *)

Undone == IF result = "at_boot" THEN pc' = "boot_hardware" ELSE pc' = "sync"

UndoContinues(next) == pc' = next /\ UNCHANGED <<result, blocked>>
UndoEnds == Undone /\ UNCHANGED <<result, blocked>>

UndoFails ==
    /\ blocked' = TRUE
    /\ IF result = "at_boot" THEN pc' = "halted" /\ result' = result
                             ELSE pc' = "running" /\ result' = "rollback_failed"

UndoFrame == UNCHANGED <<choice, hwRam, secRam, wifiReady, history>>

HardwareAllowed == hw \in {journal.priorHw, journal.candHw}
WifiAllowed == files["active"] \in {journal.priorWifi, journal.wifi}
SecurityAllowed == sec \in {NoRecord, "open"}

UndoBegin ==
    /\ pc = "undo"
    /\ \/ /\ NoFault
          /\ IF journal = NoRecord THEN UndoEnds
             ELSE IF SecurityAllowed /\ HardwareAllowed THEN UndoContinues("undo_security")
             ELSE UndoFails
       \/ Fault /\ UndoFails
    /\ WifiIdle /\ UndoFrame /\ UNCHANGED nvs

\* Seeded defect: the administrator record is left for later and forgotten.
UndoSecurity_Skipped ==
    /\ pc = "undo_security"
    /\ sec' = sec /\ NoFault /\ UndoContinues("undo_wifi")
    /\ WifiIdle /\ UndoFrame /\ UNCHANGED <<hw, journal>>

\* restoreSecurity comes first.
UndoSecurity ==
    /\ pc = "undo_security"
    /\ \/ sec' = NoRecord /\ NoFault /\ UndoContinues("undo_wifi")
       \/ sec' \in {sec, NoRecord} /\ Fault /\ UndoFails
    /\ WifiIdle /\ UndoFrame /\ UNCHANGED <<hw, journal>>

UndoWifi ==
    /\ pc = "undo_wifi" /\ pc' = "undo_wifi_running"
    /\ CallRollback(journal.priorWifi = Empty, journal.wifi)
    /\ UNCHANGED <<nvs, ram, history>>

WifiUndone ==
    /\ pc = "undo_wifi_running"
    /\ Returned
    /\ \/ NoFault /\ (IF wret /\ WifiAllowed THEN UndoContinues("undo_hardware") ELSE UndoFails)
       \/ wret /\ Fault /\ UndoFails
    /\ UndoFrame /\ UNCHANGED nvs

\* Seeded defect: the hardware is not restored.
UndoHardware_Skipped ==
    /\ pc = "undo_hardware"
    /\ hw' = hw /\ NoFault /\ UndoContinues("undo_journal")
    /\ WifiIdle /\ UndoFrame /\ UNCHANGED <<sec, journal>>

UndoHardware ==
    /\ pc = "undo_hardware"
    /\ \/ hw' = journal.priorHw /\ NoFault /\ UndoContinues("undo_journal")
       \/ hw' \in {hw, journal.priorHw} /\ Fault /\ UndoFails
    /\ WifiIdle /\ UndoFrame /\ UNCHANGED <<sec, journal>>

UndoJournal ==
    /\ pc = "undo_journal"
    /\ \/ journal' = NoRecord /\ (NoFault \/ Fault) /\ UndoEnds
       \/ journal' \in {journal, NoRecord} /\ Fault /\ UndoFails
    /\ WifiIdle /\ UndoFrame /\ UNCHANGED <<hw, sec>>

-----------------------------------------------------------------------------
(* commitDeviceFirstBootTransaction after commit, and the boot.            *)

Completed == result = "applied"

\* Seeded defect: the stores are reloaded but not compared with the result.
Synchronize_Trusting ==
    /\ pc = "sync" /\ pc' = "running"
    /\ NoFault
    /\ secRam' = SecurityBegin(Configured)
    /\ UNCHANGED <<result, blocked, wifiReady, hwRam>>
    /\ WifiIdle
    /\ UNCHANGED <<nvs, choice, history>>

\* synchronizeRuntime: the RAM state is rebuilt from the stores, and a
\* disagreement with the result blocks the device.
Synchronize ==
    /\ pc = "sync" /\ pc' = "running"
    /\ \/ /\ NoFault
          /\ LET begun == wifiReady /\ Completed = Configured
                 loaded == SecurityBegin(Completed)
                 agrees == loaded = IF Completed THEN "open" ELSE "unconfigured"
             IN  /\ secRam' = IF begun THEN loaded ELSE secRam
                 /\ IF begun /\ agrees THEN UNCHANGED <<result, blocked>>
                    ELSE blocked' = TRUE /\ result' = "rollback_failed"
          /\ wifiReady' = wifiReady
          /\ hwRam' = HwInUse
       \/ /\ Fault
          /\ \/ hwRam' = DefaultHw /\ UNCHANGED <<secRam, wifiReady>>
             \/ hwRam' = HwInUse /\ secRam' = secRam /\ wifiReady' = FALSE
             \/ hwRam' = HwInUse /\ secRam' = "locked" /\ wifiReady' = wifiReady
          /\ blocked' = TRUE /\ result' = "rollback_failed"
    /\ WifiIdle
    /\ UNCHANGED <<nvs, choice, history>>

\* recoverDeviceFirstBootTransactionAtBoot: a journal that cannot be read,
\* or a file system that cannot be mounted for it, halts the boot.
BootJournal ==
    /\ pc = "boot"
    /\ \/ /\ NoFault
          /\ IF journal = NoRecord THEN pc' = "boot_hardware" /\ result' = result
                                   ELSE pc' = "undo" /\ result' = "at_boot"
          /\ blocked' = blocked
       \/ Fault /\ pc' = "halted" /\ blocked' = TRUE /\ result' = result
    /\ WifiIdle
    /\ UNCHANGED <<nvs, choice, hwRam, secRam, wifiReady, history>>

\* The hardware record that displays, inputs and audio are started from.
BootHardware ==
    /\ pc = "boot_hardware" /\ pc' = "boot_config"
    /\ \/ hwRam' = HwInUse /\ NoFault
       \/ hwRam' = DefaultHw /\ Fault
    /\ WifiIdle
    /\ UNCHANGED <<nvs, choice, result, secRam, wifiReady, blocked, history>>

\* Config::init: mount SPIFFS and recover the Wi-Fi file.
BootConfig ==
    /\ pc = "boot_config"
    /\ \/ CallRecover /\ pc' = "boot_wifi"
       \/ Fault /\ WifiIdle /\ pc' = "boot_network"
    /\ UNCHANGED <<nvs, ram, history>>

BootWifi ==
    /\ pc = "boot_wifi" /\ pc' = "boot_network"
    /\ Returned
    /\ wifiReady' = wret
    /\ UNCHANGED <<faults, nvs, choice, hwRam, result, secRam, blocked, history>>

\* MyNetwork::begin: read the profiles, then begin SecurityService.
BootNetwork ==
    /\ pc = "boot_network" /\ pc' = "running"
    /\ \/ /\ NoFault
          /\ secRam' = SecurityBegin(wifiReady /\ Configured)
          /\ wifiReady' = wifiReady
       \/ /\ Fault
          /\ \/ secRam' = SecurityBegin(FALSE) /\ wifiReady' = FALSE
             \/ secRam' = "locked" /\ wifiReady' = wifiReady
    /\ WifiIdle
    /\ UNCHANGED <<nvs, choice, hwRam, result, blocked, history>>

WifiRuns ==
    /\ WifiStep
    /\ UNCHANGED <<nvs, ram, pc, history>>

\* A power cut, or the restart that follows a finished setup; plan and asked
\* go on as history, nothing reads them before the next setup.
PowerCut ==
    /\ crashes < MaxCrashes /\ crashes' = crashes + 1
    /\ pc # "boot" /\ pc' = "boot"
    /\ LoseRam
    /\ result' = "none" /\ secRam' = "unconfigured"
    /\ wifiReady' = FALSE /\ blocked' = FALSE
    /\ bootFaults' = faults
    /\ hwRam' = DefaultHw
    /\ UNCHANGED <<nvs, choice>>

CommitStep ==
    \/ WriteJournal("prepared", "hardware")
    \/ WriteHardware
    \/ WriteJournal("hardware_written", "wifi")
    \/ WriteWifi \/ WifiWritten
    \/ WriteJournal("wifi_written", "security")
    \/ CompleteSecurity
    \/ WriteJournal("security_written", "finalize")
    \/ Finalize

UndoStep ==
    \/ UndoBegin \/ UndoSecurity \/ UndoWifi \/ WifiUndone \/ UndoHardware \/ UndoJournal

BootStep == BootJournal \/ BootHardware \/ BootConfig \/ BootWifi \/ BootNetwork

DeviceStep == CommitStep \/ UndoStep \/ Synchronize \/ BootStep \/ WifiRuns

Request == \E request \in HwConfigs, data \in Payloads : StartCommit(request, data)

Next == DeviceStep \/ Request \/ PowerCut

Spec == Init /\ [][Next]_vars

-----------------------------------------------------------------------------
(* Properties                                                              *)

Candidate(j) == [hw |-> j.candHw, wifi |-> j.wifi, sec |-> "open"]
Baseline(j) == [hw |-> j.priorHw, wifi |-> j.priorWifi, sec |-> NoRecord]
Stored == [hw |-> hw, wifi |-> files["active"], sec |-> sec]

\* The transaction implements an atomic update: while a journal is stored
\* the device counts as unconfigured, with the baseline the journal names,
\* and erasing the journal is the one step that installs the candidate.
Update == INSTANCE AtomicUpdate WITH
    Values <- Settings,
    NoTarget <- NoRecord,
    value <- IF journal = NoRecord THEN Stored ELSE Baseline(journal),
    target <- IF journal = NoRecord THEN NoRecord ELSE Candidate(journal)

AtomicSetup == Update!Spec

\* An OPEN administrator state is never stored while the hardware or the
\* Wi-Fi part is still partial (the comment in recover), nor left with others
\* than its setup's: wherever the power is cut, while a journal is stored and
\* ever after it was erased, a stored security record comes with the hardware
\* and the credentials of the candidate.
OpenOnlyWhenComplete ==
    sec = "open" =>
        /\ Configured /\ ~Exists("old")
        /\ hw = plan.candHw /\ files["active"] = plan.wifi

\* A boot on which no storage operation failed is never halted: there is no
\* point in commit or in recover at which a power cut leaves the stores in
\* a combination the recovery refuses.
HaltsOnlyOnFault == pc = "halted" => faults > bootFaults

\* What the portal is told is what is stored: "applied" comes with the
\* complete candidate, any other cause with an untouched baseline, and
\* "rollback failed" with a blocked device.
PortalToldTheTruth ==
    pc = "running" =>
        /\ result = "applied" => Configured /\ sec = "open" /\ journal = NoRecord
        /\ result \in Results \ {"none", "at_boot", "applied", "rollback_failed"} =>
              ~Configured /\ sec = NoRecord /\ journal = NoRecord
        /\ result = "rollback_failed" => blocked

\* A setup reported as applied has stored the hardware the wizard asked for,
\* with the credentials of its request: skipping the hardware write is only
\* right when the configuration in use is the stored one, which a failed read
\* at boot can spoil.
AppliedAsAsked ==
    pc = "running" /\ result = "applied" =>
        /\ files["active"] = plan.wifi
        /\ HwInUse = asked \/ faults > bootFaults

\* A device that is set up through the portal never takes the legacy path
\* that lets anyone who joins claim it: SecurityService never finds
\* credentials without a security record, in a boot or after a setup.
NeverLegacy == secRam # "legacy_unclaimed"

\* While the portal is open to a new setup, no journal and no security
\* record are stored: a retry starts from a clean baseline.
RetryFromBaseline ==
    pc = "running" /\ wifiReady /\ ~blocked /\ secRam = "unconfigured" =>
        journal = NoRecord /\ sec = NoRecord /\ ~Configured
=============================================================================
