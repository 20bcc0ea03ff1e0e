-------------------------- MODULE WifiConfigAtomic --------------------------
(***************************************************************************)
(* The Wi-Fi credential file in normal operation: every boot runs recover  *)
(* (Config::init), and the web panel, the serial console or the recovery   *)
(* portal save new credentials through Config::saveWifiCredentials, one at *)
(* a time under the configuration-mutation lease.  Power may be cut        *)
(* anywhere.                                                               *)
(***************************************************************************)
EXTENDS WifiFiles

CONSTANTS MaxCrashes    \* bound on the number of power cuts
ASSUME MaxCrashesNat == MaxCrashes \in Nat

VARIABLES
    stage,        \* "off", "boot" (recover runs), "ready", "saving"
    wifiReady,    \* config.wifiConfigReady
    before,       \* history: the files when the last save began
    callFaults,   \* history: faults when the running or last call began
    crashes

vars == <<wvars, stage, wifiReady, before, callFaults, crashes>>

TypeOK ==
    /\ WifiTypeOK
    /\ stage \in {"off", "boot", "ready", "saving"}
    /\ wifiReady \in BOOLEAN
    /\ before \in [Paths -> Contents]
    /\ callFaults \in 0 .. MaxFaults
    /\ crashes \in 0 .. MaxCrashes

Init ==
    /\ WifiInit
    /\ stage = "off"
    /\ wifiReady = FALSE
    /\ before = files
    /\ callFaults = 0
    /\ crashes = 0

\* Config::init mounts SPIFFS and runs recover.
Boot ==
    /\ stage = "off" /\ stage' = "boot"
    /\ CallRecover
    /\ callFaults' = faults
    /\ UNCHANGED <<wifiReady, before, crashes>>

BootDone ==
    /\ stage = "boot" /\ stage' = "ready"
    /\ Returned
    /\ wifiReady' = wret
    /\ UNCHANGED <<faults, before, callFaults, crashes>>

\* Config::saveWifiCredentials; nothing checks wifiConfigReady on the way.
Save(data) ==
    /\ stage = "ready" /\ stage' = "saving"
    /\ CallReplace(data)
    /\ before' = files /\ callFaults' = faults
    /\ UNCHANGED <<wifiReady, crashes>>

SaveDone ==
    /\ stage = "saving" /\ stage' = "ready"
    /\ Returned
    /\ UNCHANGED <<faults, wifiReady, before, callFaults, crashes>>

StorageStep ==
    /\ RecoverStep \/ ReplaceStep
    /\ UNCHANGED <<stage, wifiReady, before, callFaults, crashes>>

PowerCut ==
    /\ crashes < MaxCrashes /\ crashes' = crashes + 1
    /\ stage # "off" /\ stage' = "off"
    /\ LoseRam
    /\ wifiReady' = FALSE
    /\ UNCHANGED <<before, callFaults>>

Next ==
    \/ Boot \/ BootDone \/ StorageStep \/ PowerCut
    \/ \E data \in Payloads : Save(data)
    \/ SaveDone

Spec == Init /\ [][Next]_vars

-----------------------------------------------------------------------------
(* Properties                                                              *)

\* Whatever fails and whenever the power is cut, a device that had readable
\* credentials when a save began keeps some, and those a reboot would use are
\* complete ones: what the last save was installing, or a file that was there
\* when it began.
OldOrNew ==
    /\ Effective(before) # Missing => Valid(Effective(files))
    /\ Effective(files) \in {wdata, Effective(before), before["active"], before["old"]}

\* replace tells the truth: TRUE means the new file is the one a reboot
\* uses and no stray copy is left; FALSE, when one operation failed, means
\* the previous file is still the one in use.
SaveReport ==
    stage = "ready" /\ wop = "replace" =>
        /\ wret => files = [p \in Paths |-> IF p = "active" THEN wdata ELSE Missing]
        /\ ~wret /\ faults <= callFaults + 1 => Effective(files) = Effective(before)

\* No rename is ever attempted onto an existing file or from a missing one,
\* which SPIFFS refuses.
RenamesAllowed ==
    /\ wpc = "displace" => ~Exists("old")
    /\ wpc = "install" => RenameAllowed("tmp", "active")
    /\ wpc \in {"recover_promote", "restore_rename"} => RenameAllowed("old", "active")

-----------------------------------------------------------------------------
(* Why they hold: SavesInv is inductive (WifiConfigAtomic_proofs).         *)

\* Operations that have failed since the running or last call began.
CountInv == callFaults <= faults
Unfailed == faults <= callFaults
FailedOnce == faults <= callFaults + 1

\* recover runs at boot and at the head of replace, rollbackFirstBoot never.
CallInv ==
    /\ stage = "off" => wpc = "idle" /\ wop = "none"
    /\ stage = "boot" => wpc \in RecoverPcs \cup {"returned"} /\ wop = "recover"
    /\ stage = "saving" => wpc \in RecoverPcs \cup ReplacePcs \cup {"returned"} /\ wop = "replace"
    /\ stage = "ready" => wpc = "idle" /\ wop \in {"recover", "replace"}

\* What is cut short stays in the temporary file, and the other two only
\* ever hold what was there when the last save began or what it installs.
CopiesInv ==
    \A p \in {"active", "old"} :
        /\ before[p] # Partial
        /\ files[p] \in {Missing, wdata, before["active"], before["old"]}

\* Some credentials are left wherever there were some.
Readable(f) == f["active"] # Missing \/ f["old"] # Missing
LeftInv == Readable(before) => Readable(files)

\* The files at each operation, as recover and replace make them.
FilesInv ==
    /\ wpc = "recover_drop" => Exists("active")
    /\ wpc = "recover_clear" => Exists("old")
    /\ wpc \in {"recover_promote", "restore_rename"} => Exists("old") /\ ~Exists("active")
    /\ wpc \in {"recover_drop", "recover_clear", "recover_promote"} => wok
    /\ wpc = "recover_tmp" /\ wok => ~Exists("old")
    /\ wpc \in {"write_open", "write", "displace"} => ~Exists("old")
    /\ wpc \in {"displace", "install"} => files["tmp"] = wdata
    /\ wpc = "install" => ~Exists("active")
    /\ wpc \in {"confirm", "drop_old"} => files["active"] = wdata /\ ~Exists("tmp")
    /\ wpc \in {"install", "confirm", "drop_old", "restore_clear"} =>
         (whad <=> Exists("old")) /\ (Readable(before) => whad)

\* The previous credentials are in use, or can be put back.
Unchanged == Effective(files) = Effective(before)
Undoable == IF whad THEN files["old"] = Effective(before) ELSE Effective(before) = Missing

\* During a save: up to the first failure the previous credentials can
\* still be put back, and the first failure does so unless replace goes on.
SaveInv ==
    stage = "saving" =>
        /\ wpc = "recover" => Unchanged
        /\ wpc = "recover_clear" /\ Unfailed => ~Exists("active")
        /\ wpc \in RecoverPcs \cup {"write_open", "write", "displace", "install"} /\ Unfailed
             => Unchanged
        /\ wpc = "recover_tmp" /\ ~wok /\ FailedOnce => Unchanged
        /\ wpc \in {"confirm", "drop_old"} /\ Unfailed => Undoable
        /\ wpc \in {"restore_clear", "restore_rename", "discard"} => ~Unfailed
        /\ wpc = "restore_clear" /\ FailedOnce => Undoable
        /\ wpc \in {"restore_rename", "discard"} /\ FailedOnce => Unchanged

\* What a save has returned, until the next call.
Installed == files = [p \in Paths |-> IF p = "active" THEN wdata ELSE Missing]
ReportInv ==
    wop = "replace" /\ wpc \in {"returned", "idle"} =>
        /\ wret => Installed
        /\ ~wret /\ FailedOnce => Unchanged

SavesInv == CountInv /\ CallInv /\ CopiesInv /\ LeftInv /\ FilesInv /\ SaveInv /\ ReportInv

-----------------------------------------------------------------------------
(* A save is one step                                                      *)

\* What was stored can be read, and a rollback file that is no longer
\* needed can be removed; any other operation may fail.
Trusted == wpc \in {"recover", "confirm", "drop_old"} => NoFault

\* The update of a save is under way until the new file is in its place.
Updating == stage = "saving" /\ wpc \in RecoverPcs \cup {"write_open", "write", "displace", "install"}
Update == INSTANCE AtomicUpdate WITH
    Values <- Payloads \cup {Empty, Missing}, NoTarget <- Partial,
    value <- Effective(files), target <- IF Updating THEN wdata ELSE Partial

\* A save implements AtomicUpdate: whatever write or rename fails and
\* wherever the power is cut, the credentials a reboot would use change in
\* one step, from the old ones to those of the save (replace, recover).
SaveAtomic == Update!Spec

\* Then the active file is only cleared when it is not there.
ClearInv == wpc \in {"recover_clear", "restore_clear"} => ~Exists("active")
=============================================================================
