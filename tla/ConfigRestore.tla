---------------------------- MODULE ConfigRestore ----------------------------
(***************************************************************************)
(* Restoring a configuration backup: config_restore_transaction.cpp over   *)
(* the stores of config_restore_adapter.cpp, config_backup.cpp above it    *)
(* and the boot below it.  One request of the web task replaces seven      *)
(* components one after the other, guarded by a durable marker that says   *)
(* how far it came and a snapshot of what was stored before.  An operation *)
(* may fail, and the power may be cut, after any prefix of what it does to *)
(* the stores.  Meanwhile the main loop saves the configuration record     *)
(* from RAM: it neither takes the lease of the restore nor looks at its    *)
(* marker.                                                                 *)
(***************************************************************************)
EXTENDS Naturals, Sequences

CONSTANTS
    Values,         \* what a component may hold
    Missing,        \* no file, or no record
    Torn,           \* a configuration record of which the checksum fails
    Partial,        \* a staged file of which a part has been received
    NoSnapshot,     \* no complete snapshot is stored
    Keep,           \* the scroll section of a backup that has none
    DefaultConfig,  \* what a boot stores in place of an unreadable record
    Generations,    \* what a device may have stored
    Backups,        \* what an accepted backup holds
    EditValues,     \* what the user changes a component to
    MaxFaults, MaxCuts, MaxEdits

Order == <<"Config", "Hardware", "Mqtt", "Ui", "Scroll", "Wifi", "Stations">>
Components == {Order[n] : n \in 1..7}
Files == {"Wifi", "Stations"}

ASSUME ConstantsAssumption ==
    /\ {Missing, Torn, Partial, NoSnapshot, Keep} \cap Values = {}
    /\ Torn # Missing /\ Keep # Torn /\ Keep # Missing /\ Partial # Missing
    /\ DefaultConfig \in Values /\ EditValues \subseteq Values
    /\ NoSnapshot \notin [Components -> Values \cup {Missing}]
    /\ Generations \subseteq {g \in [Components -> Values \cup {Missing}] : g["Config"] # Missing}
    /\ Backups \subseteq {b \in [Components -> Values \cup {Missing, Keep}] :
                             \A c \in Components \ {"Scroll"} : b[c] \in Values}
    /\ MaxFaults \in Nat /\ MaxCuts \in Nat /\ MaxEdits \in Nat

VARIABLES
    active,     \* the components in use: EEPROM image, NVS records, files
    staged,     \* /data/.vxrestore.*.new
    rollback,   \* /data/.vxrestore.*.old
    index,      \* the playlist the station index was built from
    marker,     \* the stored phase: 0 none, n the next operation of commit
    snapshot,   \* what the voxrestore namespace keeps of the old components
    ram,        \* Config::store
    save,       \* the main loop's saving of it
    upload,     \* the upload in progress
    candidate,  \* the backup it holds
    pc,         \* where the web task, or the boot, is
    at,         \* the next operation of restoreRollbackSnapshot
    caller,     \* who has called recover
    answer,     \* the last the client has been told
    before,     \* the components at the upload, or at the snapshot
    edited,     \* the components written by others since
    tuned,      \* the user has changed the configuration since the answer
    orphaned,   \* a file was edited under a stored marker
    failed,     \* an operation has failed since the last boot began
    faults, cuts, edits

disk == <<active, staged, rollback, index, marker, snapshot>>
device == <<ram, save>>
task == <<upload, candidate, pc, at, caller, answer>>
history == <<before, edited, tuned, orphaned, failed>>
counters == <<faults, cuts, edits>>
vars == <<disk, device, task, history, counters>>

Stored == Values \cup {Missing, Torn}
None == [f \in Files |-> Missing]

\* Phases in the order commitStep goes through them; 1..7 apply a component.
Rebuild == 8
Verify == 9
Clear == 10

TypeOK ==
    /\ active \in [Components -> Stored]
    /\ staged \in [Files -> Values \cup {Missing, Partial}]
    /\ rollback \in [Files -> Values \cup {Missing}]
    /\ index \in Values \cup {Missing}
    /\ marker \in 0..10
    /\ snapshot \in [Components -> Values \cup {Missing}] \cup {NoSnapshot}
    /\ ram \in Values
    /\ save \in {"idle", "due", "writing", "raced"}
    /\ upload \in {"none", "open", "received"}
    /\ candidate \in Backups
    /\ pc \in {"running", "begin", "snapshot", "prepare", "apply", "advance", "sweep",
               "recover", "restore", "unmark", "tidy", "boot", "mounted", "halted"}
    /\ at \in 1..9
    /\ caller \in {"none", "stage", "commit", "boot"}
    /\ answer \in {"none", "ok", "begin_failed", "write_failed", "commit_failed", "recovery_pending"}
    /\ before \in [Components -> Stored]
    /\ edited \subseteq Components
    /\ {tuned, orphaned, failed} \subseteq BOOLEAN
    /\ faults \in 0..MaxFaults /\ cuts \in 0..MaxCuts /\ edits \in 0..MaxEdits

Init ==
    /\ active \in Generations
    /\ staged = None /\ rollback = None /\ snapshot = NoSnapshot /\ marker = 0
    /\ index = active["Stations"]
    /\ ram = active["Config"] /\ save = "idle"
    /\ upload = "none" /\ candidate \in Backups
    /\ pc = "running" /\ at = 1 /\ caller = "none" /\ answer = "none"
    /\ before = active /\ edited = {} /\ tuned = FALSE /\ orphaned = FALSE /\ failed = FALSE
    /\ faults = 0 /\ cuts = 0 /\ edits = 0

-----------------------------------------------------------------------------
(* What the operations of the backend do to the stores.  Each has the      *)
(* effect of its success and, in Partway, the effects of its prefixes.     *)

\* Components of the candidate are in use; PreserveExisting asks nothing.
Restored(c) == candidate[c] = Keep \/ active[c] = candidate[c]

\* The record goes through the one EEPROM buffer, which the main loop may be
\* filling: then either record, or a mixture, is committed.
WriteConfig(v) ==
    IF save \in {"writing", "raced"}
    THEN /\ \E w \in {v, ram, Torn} :
               /\ active' = [active EXCEPT !["Config"] = w]
               /\ edited' = IF w = v THEN edited ELSE edited \cup {"Config"}
         /\ save' = "raced"
    ELSE /\ active' = [active EXCEPT !["Config"] = v]
         /\ UNCHANGED <<save, edited>>

Write(c, v) ==
    IF c = "Config" THEN WriteConfig(v)
    ELSE /\ active' = [active EXCEPT ![c] = IF v = Keep THEN @ ELSE v]
         /\ UNCHANGED <<save, edited>>

\* installTransactionalFile: the active file becomes the rollback file.
Displaced(f) == [rollback EXCEPT ![f] = active[f]]
\* Seeded defect: the active file is overwritten.
InstallFile_Over(f) ==
    /\ active' = [active EXCEPT ![f] = staged[f]]
    /\ staged' = [staged EXCEPT ![f] = Missing]
    /\ UNCHANGED rollback

InstallFile(f) ==
    /\ rollback' = Displaced(f)
    /\ active' = [active EXCEPT ![f] = staged[f]]
    /\ staged' = [staged EXCEPT ![f] = Missing]
InstallFilePart(f) ==
    \/ UNCHANGED <<active, staged, rollback>>
    \/ /\ rollback' = Displaced(f) /\ active' = [active EXCEPT ![f] = Missing]
       /\ UNCHANGED staged
    \/ InstallFile(f)

\* restoreTransactionalFile: a rollback file replaces what is in use.
\* Seeded defect: the active file is taken for the old one.
RestoreFile_Active(f) ==
    /\ active' = [active EXCEPT ![f] = IF snapshot[f] = Missing THEN Missing ELSE @]
    /\ UNCHANGED rollback

RestoreFile(f) ==
    LET old == IF snapshot[f] = Missing \/ rollback[f] # Missing THEN rollback[f] ELSE active[f]
    IN  /\ active' = [active EXCEPT ![f] = IF snapshot[f] = Missing THEN Missing ELSE old]
        /\ rollback' = [rollback EXCEPT ![f] = IF snapshot[f] = Missing THEN @ ELSE Missing]
RestoreFilePart(f) ==
    \/ UNCHANGED <<active, rollback>>
    \/ /\ snapshot[f] = Missing \/ rollback[f] # Missing
       /\ active' = [active EXCEPT ![f] = Missing] /\ UNCHANGED rollback
    \/ RestoreFile(f)

\* cleanupStale: an upload whose candidate is not staged yet keeps its files.
Cleanup(new) ==
    /\ rollback' = None /\ snapshot' = NoSnapshot
    /\ staged' = IF new THEN None ELSE staged
    /\ UNCHANGED <<active, index, marker>>
Removed(files, gone) == [f \in Files |-> IF f \in gone THEN Missing ELSE files[f]]
RemovedPart(files) == {Removed(files, gone) : gone \in {{}, {"Wifi"}, Files}}
CleanupPart(new) ==
    /\ rollback' \in RemovedPart(rollback) /\ snapshot' \in {snapshot, NoSnapshot}
    /\ staged' \in IF new /\ rollback' = None THEN RemovedPart(staged) ELSE {staged}
    /\ UNCHANGED <<active, index, marker>>

\* commitStep, the operation of the stored phase, and its prefixes.
Apply(n) ==
    /\ IF Order[n] \in Files THEN InstallFile(Order[n]) /\ UNCHANGED <<save, edited>>
       ELSE Write(Order[n], candidate[Order[n]]) /\ UNCHANGED <<staged, rollback>>
    /\ UNCHANGED <<index, marker, snapshot>>
ApplyPart(n) ==
    /\ IF Order[n] \in Files THEN InstallFilePart(Order[n]) /\ UNCHANGED <<save, edited>>
       ELSE /\ UNCHANGED <<active, save, edited>> \/ Write(Order[n], candidate[Order[n]])
            /\ UNCHANGED <<staged, rollback>>
    /\ UNCHANGED <<index, marker, snapshot>>

\* One component of restoreRollbackSnapshot.
RestoreComponent(n) ==
    /\ IF Order[n] \in Files THEN RestoreFile(Order[n]) /\ UNCHANGED <<save, edited>>
       ELSE Write(Order[n], snapshot[Order[n]]) /\ UNCHANGED rollback
    /\ UNCHANGED <<staged, index, marker, snapshot>>
RestoreComponentPart(n) ==
    /\ IF Order[n] \in Files THEN RestoreFilePart(Order[n]) /\ UNCHANGED <<save, edited>>
       ELSE /\ UNCHANGED <<active, save, edited>> \/ Write(Order[n], snapshot[Order[n]])
            /\ UNCHANGED rollback
    /\ UNCHANGED <<staged, index, marker, snapshot>>

RebuildIndex(possible) ==
    /\ index' \in possible
    /\ UNCHANGED <<active, staged, rollback, marker, snapshot>>
WriteMarker(possible) ==
    /\ marker' \in possible
    /\ UNCHANGED <<active, staged, rollback, index, snapshot>>
TakeSnapshot(possible) ==
    /\ snapshot' \in possible
    /\ UNCHANGED <<active, staged, rollback, index, marker>>

\* Where the operation under way may have left the stores when it fails or
\* the power is cut.
Partway ==
    \/ pc = "apply" /\ marker <= 7 /\ ApplyPart(marker)
    \/ pc = "restore" /\ at <= 7 /\ RestoreComponentPart(at)
    \/ /\ UNCHANGED <<save, edited>>
       /\ CASE pc = "begin" -> CleanupPart(FALSE)
            [] pc = "snapshot" -> TakeSnapshot({snapshot, NoSnapshot})
            [] pc = "prepare" -> WriteMarker({0, 1})
            [] pc = "advance" -> WriteMarker({marker, marker + 1})
            [] (pc = "apply" /\ marker = Clear) \/ pc = "unmark" -> WriteMarker({marker, 0})
            [] (pc = "apply" /\ marker = Rebuild) \/ (pc = "restore" /\ at = Rebuild) ->
                  RebuildIndex({index, Missing, active["Stations"]})
            [] pc \in {"sweep", "tidy", "mounted"} -> CleanupPart(TRUE)
            [] OTHER -> UNCHANGED disk

-----------------------------------------------------------------------------
(* The upload and the request that ends it.                                *)

\* ProductionRestoreUpload::begin, and append up to the first stored bytes;
\* under a stored marker an upload is refused.
OpenUpload ==
    /\ pc = "running" /\ upload = "none" /\ marker = 0
    /\ candidate' \in Backups
    /\ staged' = [f \in Files |-> Partial]
    /\ upload' = "open" /\ answer' = "none"
    /\ before' = active /\ edited' = {} /\ tuned' = FALSE
    /\ UNCHANGED <<active, rollback, index, marker, snapshot, device, pc, at, caller,
                   orphaned, failed, counters>>

\* The rest of append, and finish up to restoreValidated.
Receive ==
    /\ pc = "running" /\ upload = "open"
    /\ staged' = [f \in Files |-> candidate[f]]
    /\ upload' = "received"
    /\ UNCHANGED <<active, rollback, index, marker, snapshot, device, candidate, pc, at, caller,
                   answer, history, counters>>

\* A client that goes away, a file that is refused, or a busy configuration;
\* the staged files are removed as far as that succeeds.
Abort ==
    /\ pc = "running" /\ upload # "none"
    /\ \E gone \in SUBSET Files : staged' = Removed(staged, gone)
    /\ upload' = "none"
    /\ UNCHANGED <<active, rollback, index, marker, snapshot, device, candidate, pc, at, caller,
                   answer, history, counters>>

\* handleConfigRestore with the lease and the scroll mutex held.
Accept ==
    /\ pc = "running" /\ upload = "received"
    /\ pc' = "begin"
    /\ UNCHANGED <<disk, device, upload, candidate, at, caller, answer, history, counters>>

-----------------------------------------------------------------------------
(* restoreValidated: begin, stage, commit, and rollback of the last two.   *)

\* The end of finish: the upload is gone, the client has its answer.
Reply(a) ==
    /\ answer' = a /\ upload' = "none" /\ pc' = "running" /\ caller' = "none"
    /\ tuned' = FALSE
    /\ UNCHANGED <<candidate, at>>

GoOn(next) ==
    /\ pc' = next
    /\ UNCHANGED <<upload, candidate, at, caller, answer, tuned>>

Rollback(who) ==
    /\ pc' = "recover" /\ caller' = who
    /\ UNCHANGED <<upload, candidate, at, answer, tuned>>

\* rollback or recoverAtBoot returns.
RecoverDone(ok) ==
    IF caller = "boot"
    THEN GoOn(IF ok THEN "mounted" ELSE "halted")
    ELSE Reply(IF ~ok THEN "recovery_pending"
               ELSE IF caller = "stage" THEN "write_failed" ELSE "commit_failed")

\* What a failing operation returns to.
FailTo ==
    CASE pc = "begin" -> Reply("begin_failed")
      [] pc \in {"snapshot", "prepare"} -> Rollback("stage")
      [] pc \in {"apply", "advance"} -> Rollback("commit")
      [] pc = "sweep" -> IF caller = "none" THEN Reply("ok") ELSE RecoverDone(TRUE)
      [] OTHER -> RecoverDone(FALSE)

Settled == orphaned' = (orphaned /\ marker' # 0)
Fault ==
    /\ faults < MaxFaults
    /\ pc \notin {"running", "mounted", "halted"}
    /\ Partway /\ FailTo /\ Settled
    /\ faults' = faults + 1 /\ failed' = TRUE
    /\ UNCHANGED <<ram, before, cuts, edits>>

Began ==
    /\ pc = "begin"
    /\ Cleanup(FALSE) /\ GoOn("snapshot")
    /\ UNCHANGED <<device, before, edited, orphaned, failed, counters>>

\* createRollbackSnapshot: an unreadable configuration record has no snapshot.
Snapshot ==
    /\ pc = "snapshot" /\ active["Config"] # Torn
    /\ TakeSnapshot({active}) /\ GoOn("prepare")
    /\ before' = active /\ edited' = {}
    /\ UNCHANGED <<device, orphaned, failed, counters>>
SnapshotRefused ==
    /\ pc = "snapshot" /\ active["Config"] = Torn
    /\ Rollback("stage")
    /\ UNCHANGED <<disk, device, before, edited, orphaned, failed, counters>>

Prepare ==
    /\ pc = "prepare"
    /\ WriteMarker({1}) /\ GoOn("apply")
    /\ UNCHANGED <<device, before, edited, orphaned, failed, counters>>

\* commitStep up to the marker of the next phase: apply reads a record back.
ApplyStep ==
    /\ pc = "apply" /\ marker \in 1..7
    /\ Apply(marker)
    /\ LET c == Order[marker] IN
       IF candidate[c] = Keep \/ active'[c] = candidate[c] THEN GoOn("advance") ELSE Rollback("commit")
    /\ UNCHANGED <<ram, before, orphaned, failed, counters>>
RebuildStep ==
    /\ pc = "apply" /\ marker = Rebuild
    /\ RebuildIndex({active["Stations"]}) /\ GoOn("advance")
    /\ UNCHANGED <<device, before, edited, orphaned, failed, counters>>
\* Seeded defect: the candidate is not verified.
VerifyStep_Skipped ==
    /\ pc = "apply" /\ marker = Verify
    /\ GoOn("advance") /\ edited' = {}
    /\ UNCHANGED <<disk, device, before, orphaned, failed, counters>>

VerifyStep ==
    /\ pc = "apply" /\ marker = Verify
    /\ IF \A c \in Components : Restored(c)
       THEN GoOn("advance") /\ edited' = {}
       ELSE Rollback("commit") /\ UNCHANGED edited
    /\ UNCHANGED <<disk, device, before, orphaned, failed, counters>>
Advance ==
    /\ pc = "advance"
    /\ WriteMarker({marker + 1}) /\ GoOn("apply")
    /\ UNCHANGED <<device, before, edited, orphaned, failed, counters>>
ClearStep ==
    /\ pc = "apply" /\ marker = Clear
    /\ WriteMarker({0}) /\ GoOn("sweep")
    /\ UNCHANGED <<device, before, edited, orphaned, failed, counters>>

\* cleanupStale once the marker is gone; what it returns is not looked at.
Sweep ==
    /\ pc = "sweep"
    /\ Cleanup(TRUE)
    /\ IF caller = "none" THEN Reply("ok") ELSE RecoverDone(TRUE)
    /\ UNCHANGED <<device, before, edited, orphaned, failed, counters>>

-----------------------------------------------------------------------------
(* recover, called by rollback and by recoverAtBoot.                       *)

\* Seeded defect: the marker is dropped, the components are left.
Recover_Forgets ==
    /\ pc = "recover"
    /\ pc' = IF marker = 0 THEN "tidy" ELSE "unmark"
    /\ UNCHANGED <<disk, device, upload, candidate, at, caller, answer, history, counters>>

Recover ==
    /\ pc = "recover"
    /\ \/ /\ marker = 0 \/ snapshot # NoSnapshot
          /\ pc' = IF marker = 0 THEN "tidy" ELSE "restore"
          /\ at' = 1
          /\ UNCHANGED <<upload, candidate, caller, answer, tuned>>
       \/ marker # 0 /\ snapshot = NoSnapshot /\ RecoverDone(FALSE)
    /\ UNCHANGED <<disk, device, before, edited, orphaned, failed, counters>>

Tidy ==
    /\ pc = "tidy"
    /\ Cleanup(TRUE) /\ RecoverDone(TRUE)
    /\ UNCHANGED <<device, before, edited, orphaned, failed, counters>>

RestoreNext ==
    /\ at' = at + 1
    /\ UNCHANGED <<upload, candidate, pc, caller, answer, tuned>>
RestoreStep ==
    /\ pc = "restore" /\ at <= 7
    /\ RestoreComponent(at)
    /\ LET c == Order[at] IN
       IF c \in Files /\ active'[c] # snapshot[c] THEN RecoverDone(FALSE) ELSE RestoreNext
    /\ UNCHANGED <<ram, before, orphaned, failed, counters>>

RestoreIndex ==
    /\ pc = "restore" /\ at = Rebuild
    /\ RebuildIndex({active["Stations"]}) /\ RestoreNext
    /\ UNCHANGED <<device, before, edited, orphaned, failed, counters>>
VerifyRestored ==
    /\ pc = "restore" /\ at = Verify
    /\ IF active = snapshot THEN GoOn("unmark") /\ edited' = {}
       ELSE RecoverDone(FALSE) /\ UNCHANGED edited
    /\ UNCHANGED <<disk, device, before, orphaned, failed, counters>>
Unmark ==
    /\ pc = "unmark"
    /\ WriteMarker({0}) /\ GoOn("sweep") /\ Settled
    /\ UNCHANGED <<device, before, edited, failed, counters>>

-----------------------------------------------------------------------------
(* Boots, and the power.                                                   *)

Restart ==
    /\ pc' = "boot" /\ caller' = "boot" /\ upload' = "none"
    /\ tuned' = FALSE /\ failed' = FALSE
    /\ UNCHANGED <<ram, candidate, at, answer, before>>

\* A restart the user asks for, or a halted device turned off and on.
Reboot ==
    /\ pc \in {"running", "halted"}
    /\ Restart
    /\ UNCHANGED <<disk, save, edited, orphaned, faults, cuts, edits>>

\* Also a restart the main loop makes while the web task works.
PowerCut ==
    /\ cuts < MaxCuts /\ pc \notin {"running", "halted"}
    /\ Partway /\ Restart /\ Settled
    /\ cuts' = cuts + 1
    /\ UNCHANGED <<faults, edits>>

\* recoverAtBoot
BootStep ==
    /\ pc = "boot"
    /\ GoOn(IF marker = 0 THEN "mounted" ELSE "recover")
    /\ save' = "idle"
    /\ UNCHANGED <<disk, ram, before, edited, orphaned, failed, counters>>

\* Config::init: the record is loaded, or replaced by defaults, and
\* cleanupStaleAfterStorageInit is called, whether it succeeds or not.
Mounted ==
    /\ pc = "mounted"
    /\ ram' = IF active["Config"] \in Values THEN active["Config"] ELSE DefaultConfig
    /\ active' = [active EXCEPT !["Config"] = ram']
    /\ edited' = IF active' = active THEN edited ELSE edited \cup {"Config"}
    /\ \/ /\ rollback' = None /\ staged' = None /\ snapshot' = NoSnapshot
          /\ UNCHANGED <<failed, faults>>
       \/ /\ faults < MaxFaults /\ faults' = faults + 1 /\ failed' = TRUE
          /\ rollback' \in RemovedPart(rollback) /\ snapshot' \in {snapshot, NoSnapshot}
          /\ staged' \in IF rollback' = None THEN RemovedPart(staged) ELSE {staged}
    /\ pc' = "running" /\ caller' = "none"
    /\ UNCHANGED <<index, marker, save, upload, candidate, at, answer, before, tuned, orphaned,
                   cuts, edits>>

-----------------------------------------------------------------------------
(* Everyone else who changes the configuration.                            *)

Up == caller # "boot"

\* The user changes the volume, or another setting of the record, which is
\* saved at once or when the volume timer of the player ends.
Tune ==
    /\ Up /\ save \in {"idle", "due"} /\ edits < MaxEdits
    /\ ram' \in EditValues \ {ram}
    /\ save' = "due" /\ tuned' = TRUE /\ edits' = edits + 1
    /\ UNCHANGED <<disk, task, before, edited, orphaned, failed, faults, cuts>>

\* persistV7 fills the EEPROM buffer, and commits it.
SaveBegin ==
    /\ Up /\ save = "due"
    /\ save' = "writing"
    /\ UNCHANGED <<disk, ram, task, history, counters>>
SaveEnd ==
    /\ Up /\ save \in {"writing", "raced"}
    /\ \E v \in IF save = "raced" THEN {ram, active["Config"], Torn} ELSE {ram} :
          /\ active' = [active EXCEPT !["Config"] = v]
          /\ edited' = IF active' = active THEN edited ELSE edited \cup {"Config"}
    /\ save' = "idle"
    /\ UNCHANGED <<staged, rollback, index, marker, snapshot, ram, task, before, tuned, orphaned,
                   failed, counters>>

\* The other components are edited by requests of the web task or under the
\* lease or the mutex of the restore, but whatever the marker says.
Edit ==
    /\ pc = "running" /\ edits < MaxEdits
    /\ \E c \in Components \ {"Config"}, v \in EditValues :
          /\ active[c] # v
          /\ active' = [active EXCEPT ![c] = v]
          /\ index' = IF c = "Stations" THEN v ELSE index
          /\ edited' = edited \cup {c}
          /\ orphaned' = (orphaned \/ (c \in Files /\ marker # 0))
          /\ IF c = "Wifi" THEN Restart
             ELSE UNCHANGED <<ram, task, before, tuned, failed>>
    /\ edits' = edits + 1
    /\ UNCHANGED <<staged, rollback, marker, snapshot, save, faults, cuts>>

-----------------------------------------------------------------------------
Proceed ==
    \/ Began \/ Snapshot \/ SnapshotRefused \/ Prepare
    \/ ApplyStep \/ RebuildStep \/ VerifyStep \/ Advance \/ ClearStep \/ Sweep
    \/ Recover \/ Tidy \/ RestoreStep \/ RestoreIndex \/ VerifyRestored \/ Unmark
    \/ BootStep \/ Mounted \/ Fault
Others ==
    \/ OpenUpload \/ Receive \/ Abort \/ Accept
    \/ Reboot \/ PowerCut \/ Tune \/ SaveBegin \/ SaveEnd \/ Edit
Next == Proceed \/ Others

Spec == Init /\ [][Next]_vars

-----------------------------------------------------------------------------
(* Properties.                                                             *)

\* When no restore is pending the components are one generation: all as they
\* were, or all as in the backup, except those changed by someone else since,
\* and the station index is the one of the playlist in use
\* (config_restore_transaction.cpp:26-63 and :78-89, under failures and cuts).
AllOrNothing ==
    marker = 0 =>
        /\ \/ \A c \in Components \ edited : active[c] = before[c]
           \/ \A c \in Components \ edited : Restored(c)
        /\ index = active["Stations"]

\* The client is told the truth.  After "ok" it has every component of its
\* backup, through every later boot, except those somebody has written since;
\* after a failed staging everything is kept, and after a failed commit there
\* is no mixture (config_restore_transaction.cpp:55-63, config_backup.cpp:581-592).
AnswerTrue ==
    /\ answer = "ok" => marker = 0 /\ \A c \in Components \ edited : Restored(c)
    /\ answer \in {"begin_failed", "write_failed", "commit_failed"} => marker = 0
    /\ answer \in {"begin_failed", "write_failed"} =>
          \A c \in Components \ edited : active[c] = before[c]

\* While the marker is stored nothing of the old generation is lost, unless a
\* file was edited meanwhile (config_restore_adapter.cpp:197-202 and :638-650).
PreviousKept ==
    marker # 0 =>
        /\ snapshot = before
        /\ ~orphaned =>
              \A f \in Files : snapshot[f] \in {Missing, active[f], rollback[f]}

\* A device halts only when an operation failed during that very boot, or a
\* file was edited under the marker (main.cpp:215-219).
HaltsOnlyWithReason == pc = "halted" => failed \/ orphaned

\* Once the marker is gone the restored configuration is authoritative: a
\* client told of success finds its record until the user changes it
\* (config_restore_transaction.cpp:63-64).
RestoredConfigStands == answer = "ok" /\ ~tuned => Restored("Config")

-----------------------------------------------------------------------------
(* Why they hold: RestoreInv is inductive (ConfigRestore_proofs).          *)

AllOld == \A c \in Components \ edited : active[c] = before[c]
AllNew == \A c \in Components \ edited : Restored(c)
Indexed == index = active["Stations"]

\* The web task in a restore, from its acceptance to its commit, and in the
\* recovery of one.
Restoring == {"begin", "snapshot", "prepare", "apply", "advance"}
Recovering == {"recover", "restore", "unmark", "tidy"}
Answers == {"ok", "begin_failed", "write_failed", "commit_failed"}

\* Where the marker is stored, who has called, and who waits for an answer.
PlaceInv ==
    /\ pc \in {"begin", "snapshot", "prepare", "sweep", "tidy", "mounted"} => marker = 0
    /\ pc \in {"apply", "advance", "restore", "unmark"} => marker # 0
    /\ pc = "advance" => marker < Clear
    /\ pc \in {"running"} \cup Restoring => caller = "none"
    /\ pc \in Recovering => caller # "none"
    /\ pc \in {"boot", "mounted", "halted"} => caller = "boot"
    /\ caller = "boot" => upload = "none"
    /\ pc = "running" /\ upload # "none" => marker = 0
    /\ upload # "none" \/ pc \in Restoring \cup Recovering \cup {"sweep"} => answer \notin Answers

\* A file that is installed has been received, and only the configuration
\* record is ever found torn.
WholeInv ==
    /\ (pc = "running" /\ upload = "received") \/ pc \in Restoring =>
          \A f \in Files : staged[f] \in {candidate[f], Missing}
    /\ \A c \in Components \ {"Config"} : active[c] # Torn

\* Without a marker the components are of one generation: the old one until
\* commit begins, the new one once it has ended.
GenerationInv ==
    /\ marker = 0 => AllOld \/ AllNew
    /\ pc = "unmark" \/ (marker = 0 /\ caller = "stage")
         \/ (pc = "running" /\ upload # "none") \/ pc \in {"begin", "snapshot", "prepare"} => AllOld
    /\ (pc = "advance" /\ marker = Verify) \/ (pc = "apply" /\ marker = Clear)
         \/ (pc = "sweep" /\ caller = "none") => AllNew

IndexInv ==
    marker = 0 \/ pc = "unmark" \/ (pc = "restore" /\ at = Verify)
      \/ (pc = "apply" /\ marker > Rebuild) \/ (pc = "advance" /\ marker >= Rebuild) => Indexed

\* The old file is in use until commit installs the new one, and a rollback
\* file is never another one.
Phase(f) == IF f = "Wifi" THEN 6 ELSE 7
KeptInv ==
    /\ marker # 0 \/ pc = "prepare" => snapshot = before /\ snapshot # NoSnapshot
    /\ pc \in {"snapshot", "prepare"} => rollback = None
    /\ marker # 0 =>
          \A f \in Files :
             /\ rollback[f] \in {Missing, snapshot[f]}
             /\ ~orphaned => snapshot[f] \in {Missing, active[f], rollback[f]}
    /\ \A f \in Files :
          pc = "prepare" \/ (pc = "apply" /\ marker <= Phase(f)) \/ (pc = "advance" /\ marker < Phase(f))
            => active[f] = snapshot[f]

\* During a boot nobody saves, so what the recovery has put back stays.
BootInv ==
    /\ caller = "boot" /\ pc \notin {"boot", "halted"} => save = "idle"
    /\ caller = "boot" /\ pc = "restore" =>
          \A n \in 1..7 : n < at => active[Order[n]] = snapshot[Order[n]]

RestoreInv ==
    /\ PlaceInv /\ WholeInv /\ GenerationInv /\ IndexInv /\ KeptInv /\ BootInv
    /\ AnswerTrue /\ HaltsOnlyWithReason

-----------------------------------------------------------------------------
(* A restore is one step                                                   *)

\* Nobody else changes the configuration.
Alone == edits' = edits

\* The configuration the device comes to is the stored one, or, under the
\* marker, the one in the snapshot; the update of a restore is under way as
\* long as the marker is stored.
Restorable == IF marker = 0 THEN active ELSE snapshot
Asked == [c \in Components |-> IF candidate[c] = Keep THEN snapshot[c] ELSE candidate[c]]
Update == INSTANCE AtomicUpdate WITH
    Values <- [Components -> Values \cup {Missing}], NoTarget <- NoSnapshot,
    value <- Restorable, target <- IF marker = 0 THEN NoSnapshot ELSE Asked

\* A restore implements AtomicUpdate: seven components, two of them files,
\* are replaced in one step, the removal of the marker, or all stay
\* (config_restore_transaction.cpp).
RestoreAtomic == Update!Spec

\* Then no record is torn, nothing counts as edited by others, and what the
\* backup does not have stays as it was.
AloneInv ==
    /\ save = "idle" /\ edited = {}
    /\ {active["Config"], before["Config"]} \subseteq Values
    /\ marker # 0 \/ pc = "prepare" =>
          \A c \in Components : candidate[c] = Keep => active[c] = snapshot[c]
=============================================================================
