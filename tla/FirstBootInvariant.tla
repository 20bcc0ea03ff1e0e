-------------------------- MODULE FirstBootInvariant --------------------------
(***************************************************************************)
(* Why FirstBootTransaction is correct: what holds of the stores at every  *)
(* point of commit, recover and boot.  The conjuncts of IInv together are  *)
(* inductive; FirstBootTransaction_proofs proves the properties from them. *)
(***************************************************************************)
EXTENDS FirstBootTransaction

FilesAre(active, tmp, old) ==
    files["active"] = active /\ files["tmp"] = tmp /\ files["old"] = old

BaselineFiles == FilesAre(plan.priorWifi, Missing, Missing)
CandidateFiles == FilesAre(plan.wifi, Missing, Missing)

\* A stored journal is the record of the last commit, up to its phase.
JournalNamesPlan == journal # NoRecord => journal = Journaled(journal.phase)

\* Without a journal the stores are complete: no scratch files, and a
\* security record exactly when there are credentials.
Settled ==
    journal = NoRecord =>
        /\ FilesAre(files["active"], Missing, Missing)
        /\ files["active"] # Partial
        /\ sec = "open" <=> Configured

\* With a journal the stores can be taken back to its baseline, and a
\* security record comes with the complete candidate.
Recoverable ==
    journal # NoRecord =>
        /\ hw \in {plan.priorHw, plan.candHw}
        /\ files["active"] \in {Missing, plan.priorWifi, plan.wifi}
        /\ files["old"] \in {Missing, plan.priorWifi}
        /\ sec = "open" => hw = plan.candHw /\ CandidateFiles

\* The files while commit installs the candidate over the baseline.
Replacing ==
    /\ wop = "replace" /\ wdata = plan.wifi
    /\ wpc \in ReplacePcs \cup {"recover", "recover_tmp", "returned"}
    /\ wpc \in {"recover", "recover_tmp", "write_open"} => BaselineFiles
    /\ wpc = "write" => FilesAre(plan.priorWifi, Empty, Missing)
    /\ wpc = "displace" => FilesAre(plan.priorWifi, wdata, Missing)
    /\ wpc = "install" => FilesAre(Missing, wdata, plan.priorWifi)
    /\ wpc \in {"confirm", "drop_old"} => FilesAre(wdata, Missing, plan.priorWifi)
    /\ wpc = "restore_rename" => files["active"] = Missing
    /\ wpc = "returned" /\ wret => CandidateFiles

\* The files rollback still has to remove, and the one it keeps.
Elements(s) == {s[i] : i \in DOMAIN s}
ToRemove == Elements(wtodo)
Kept ==
    IF wsource \in {"tmp", "old"} THEN wsource
    ELSE IF wsource = "none" /\ wop = "rollback_empty" THEN "active" ELSE "none"

\* The files while recover takes them back to the baseline: rollback only
\* fails when an operation has failed since the boot.
RollingBack ==
    /\ wop = IF plan.priorWifi = Empty THEN "rollback_empty" ELSE "rollback_missing"
    /\ wdata = plan.wifi
    /\ wpc \in RollbackPcs \cup {"returned"}
    /\ wpc = "rb_remove" =>
          /\ wop = "rollback_missing" => wsource = "none"
          /\ Kept \in Paths => files[Kept] = Empty /\ Kept \notin ToRemove
          /\ \A p \in Paths \ {Kept} : p \in ToRemove \/ files[p] = Missing
    /\ wpc = "rb_recreate" => wop = "rollback_empty" /\ FilesAre(Missing, Missing, Missing)
    /\ wpc = "rb_promote" =>
          /\ wop = "rollback_empty"
          /\ \A p \in Paths : files[p] = IF p = wsource THEN Empty ELSE Missing
    /\ wpc = "rb_confirm" => BaselineFiles
    /\ wpc = "returned" => IF wret THEN BaselineFiles ELSE faults > bootFaults

CommitPcs == {"hardware", "hardware_written", "wifi", "wifi_running",
              "wifi_written", "security", "security_written", "finalize"}
UndoPcs == {"undo_security", "undo_wifi", "undo_wifi_running", "undo_hardware", "undo_journal"}

CommitStage ==
    /\ pc = "prepared" => journal = NoRecord /\ hw = plan.priorHw /\ BaselineFiles
    /\ pc \in CommitPcs => journal # NoRecord
    /\ pc \in {"prepared", "hardware", "hardware_written", "wifi", "wifi_running",
               "wifi_written", "security"} => sec = NoRecord
    /\ pc = "hardware" => hw = plan.priorHw
    /\ pc \in CommitPcs \ {"hardware"} => hw = plan.candHw
    /\ pc \in {"hardware", "hardware_written", "wifi"} => BaselineFiles
    /\ pc = "wifi_running" => Replacing
    /\ pc \in {"wifi_written", "security", "security_written", "finalize"} => CandidateFiles
    /\ pc \in {"security_written", "finalize"} => sec = "open"

UndoStage ==
    /\ pc \in UndoPcs \cup {"undo"} => result \notin {"applied", "rollback_failed"}
    /\ pc \in UndoPcs => journal # NoRecord
    /\ pc \in UndoPcs \ {"undo_security"} => sec = NoRecord
    /\ pc = "undo_wifi_running" => RollingBack
    /\ pc \in {"undo_hardware", "undo_journal"} => BaselineFiles
    /\ pc = "undo_journal" => hw = plan.priorHw

BootStage ==
    /\ pc \in {"boot", "boot_hardware", "boot_config", "boot_wifi", "boot_network"} =>
          result \in {"none", "at_boot"}
    /\ pc \in {"sync", "boot_hardware", "boot_config", "boot_wifi", "boot_network"} =>
          journal = NoRecord
    /\ pc = "sync" => result # "rollback_failed"
    /\ pc = "boot_wifi" => wop = "recover" /\ wpc \in {"recover", "recover_tmp", "returned"}
    /\ pc = "running" => journal = NoRecord \/ blocked
    /\ wpc # "idle" <=> pc \in {"wifi_running", "undo_wifi_running", "boot_wifi"}

\* What the hardware write is decided on: unless an operation has failed
\* since the boot, the configuration in use is the stored one.
CandidateHw == IF plan.candHw = NoRecord THEN DefaultHw ELSE plan.candHw
HardwareStage ==
    /\ bootFaults <= faults
    /\ faults = bootFaults =>
          /\ pc \in {"boot_config", "boot_wifi", "boot_network"} => hwRam = HwInUse
          /\ pc = "running" /\ ~blocked => hwRam = HwInUse
          /\ pc \in CommitPcs \cup {"prepared"} => CandidateHw = asked
          /\ pc \in {"sync", "running"} /\ result = "applied" => HwInUse = asked
    /\ pc \in CommitPcs \cup {"prepared"} =>
          plan.candHw = IF writeHw THEN asked ELSE plan.priorHw

\* The inductive invariant.
IInv ==
    /\ TypeOK
    /\ JournalNamesPlan /\ Settled /\ Recoverable
    /\ CommitStage /\ UndoStage /\ BootStage /\ HardwareStage
=============================================================================
