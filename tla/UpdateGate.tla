------------------------------ MODULE UpdateGate ------------------------------
(***************************************************************************)
(* Who may update what, and what stops for it: SystemOperationState        *)
(* (system_operation_state.h), the global update lock and its guard        *)
(* (update_progress.h, update_runtime_guard.h), the restart coordinator    *)
(* (update_restart_coordinator.h), and the web server and player code that *)
(* drives them (netserver.cpp, player.cpp, source_manager.cpp).            *)
(*                                                                         *)
(*   web     AsyncTCP: the handlers of the uploads, one at a time          *)
(*   main    loop(): the player, the BT sender, the restart coordinator    *)
(*   dsp     NetServer::loop: the release of the audio, the restart        *)
(*   other   a task that sends player commands, changes the source or asks *)
(*           for a restart (MQTT, Wi-Fi events, display)                   *)
(*                                                                         *)
(* A step is one atomic operation or one critical section of one task.     *)
(* Times are left out: a wait may end in time or not, a hold may be over.  *)
(***************************************************************************)
EXTENDS Naturals, Sequences, FiniteSets

CONSTANTS
    MaxUploads,             \* bound: how many uploads to /update are made
    Bluetooth,              \* the profile has a source manager and a BT module
    UserFiles,              \* kWebUpdateFiles, as far as the user has them
    Networks,               \* what boot may end in: "sta" CONNECTED, "ap" SOFT_AP
    QueueSize,              \* places in the player queue
    MaxCommands, MaxBtUploads, MaxCuts, MaxFaults    \* bounds

ASSUME ProfileAssumption == Bluetooth \in BOOLEAN /\ Networks \subseteq {"sta", "ap"}
ASSUME BoundAssumption == MaxUploads \in Nat /\ QueueSize \in Nat

Requests == 1..MaxUploads    \* in the order in which they are made
NoRequest == 0

VARIABLES
    phase, audioBlocked, radioStopped,    \* SystemOperationState
    lock, target, quiesced,    \* UpdateProgressState; the guard handled this acquisition
    active,       \* activeUpdateRequest
    session,      \* per request, its WebUpdateSession
    web,          \* the handler AsyncTCP is in
    bt,           \* the BT image: its upload, its staging, its transmission
    main,         \* where loop() is
    other,        \* what the other task is doing
    releasing,    \* dsp is inside releaseFailedUpdateAudio
    stage,        \* UpdateRestartCoordinator
    queue, radio, \* playerQueue, and whether the decoder plays
    boot, net,    \* how far the boot has come, and the network it ended in
    mounted, mountable, files,    \* SPIFFS, and the user's files that are intact in it
    pending, saved,    \* their snapshot in NVS: the mark that commits it, and what it holds
    forgotten,    \* history: a snapshot was used without a file, or a pending one was taken for none
    spent

op == <<phase, audioBlocked, radioStopped>>
progress == <<lock, target, quiesced>>
uploads == <<active, session, web>>
player == <<queue, radio>>
tasks == <<main, other, releasing>>
storage == <<mounted, mountable, files, pending, saved, forgotten>>
vars == <<op, progress, uploads, bt, tasks, stage, player, boot, net, storage, spent>>

Images == {"firmware", "spiffs"}
SessionStates == {"new", "open", "writing", "failed", "done", "closed"}
WebPlaces == {"idle", "acquire", "check", "claim", "block", "unstop", "refuse", "quiesce",
              "stop", "wait", "backup", "unmount", "begin", "recover", "mount", "restore",
              "clear", "finish", "ready", "unlock"}
Commands == {"PLAY", "STOP", "UPDATE_STOP"}

NewSession == [at |-> "new", image |-> "firmware", needsRecovery |-> FALSE,
               audioBlocked |-> FALSE, started |-> FALSE]
Closed == [NewSession EXCEPT !.at = "closed"]
Idle == [at |-> "idle", req |-> NoRequest, storageReady |-> TRUE]

Sessions == [at : SessionStates, image : Images, needsRecovery : BOOLEAN,
             audioBlocked : BOOLEAN, started : BOOLEAN]
Handlers == [at : WebPlaces, req : Requests \cup {NoRequest}, storageReady : BOOLEAN]

\* The types, in three parts.
StateOK ==
    /\ phase \in {"Ready", "Updating", "FilesystemUnavailable", "RestartPending"}
    /\ lock \in {"free", "active", "success", "restarting"}
    /\ target \in {"none", "bt"} \cup Images
    /\ bt \in {"none", "uploading", "staged", "sending"}
    /\ main \in {"free", "btStart", "btQuiesce", "btStop"} \cup Commands
    /\ other \in {"idle", "play", "source", "replay", "restart"}
    /\ stage \in {"Idle", "Completed", "Preparing"}
    /\ queue \in Seq(Commands) /\ Len(queue) <= QueueSize
    /\ radio \in {"silent", "playing"}
    /\ boot \in {"mount", "restore", "clear", "on"} /\ net \in {"sta", "ap"}
UploadsOK ==
    /\ active \in Requests \cup {NoRequest}
    /\ session \in [Requests -> Sessions]
    /\ web \in Handlers
FlagsOK ==
    /\ audioBlocked \in BOOLEAN /\ radioStopped \in BOOLEAN /\ quiesced \in BOOLEAN
    /\ releasing \in BOOLEAN /\ mounted \in BOOLEAN /\ mountable \in BOOLEAN
    /\ pending \in BOOLEAN /\ forgotten \in BOOLEAN /\ {files, saved} \subseteq SUBSET UserFiles

TypeOK == StateOK /\ UploadsOK /\ FlagsOK

Bounds == [commands |-> MaxCommands, btUploads |-> MaxBtUploads, cuts |-> MaxCuts,
           faults |-> MaxFaults]
Spend(kind) == spent[kind] < Bounds[kind] /\ spent' = [spent EXCEPT ![kind] = @ + 1]

Init ==
    /\ phase = "Ready" /\ audioBlocked = FALSE /\ radioStopped = FALSE
    /\ lock = "free" /\ target = "none" /\ quiesced = FALSE
    /\ active = NoRequest /\ session = [r \in Requests |-> NewSession] /\ web = Idle
    /\ bt = "none" /\ main = "free" /\ other = "idle" /\ releasing = FALSE
    /\ stage = "Idle" /\ queue = <<>> /\ radio = "silent"
    /\ boot = "on" /\ net \in Networks
    /\ mounted = TRUE /\ mountable = TRUE /\ files = UserFiles
    /\ pending = FALSE /\ saved = {} /\ forgotten = FALSE
    /\ spent = [kind \in DOMAIN Bounds |-> 0]

-----------------------------------------------------------------------------
(* The shared state as the tasks read it.                                  *)

updateLockActive == lock # "free"
systemUpdateAudioBlocked == audioBlocked \/ updateLockActive
blocksRequests == phase # "Ready"
updateNetworkQuiescing == stage = "Preparing"

\* A write-back that breaks off has written some files and torn one; an erasure
\* has removed some files of the snapshot, or all that its mark stood for.
PartlyRestored == files' \in {(files \ saved) \cup done : done \in SUBSET saved}
PartlyErased ==
    \/ pending' = FALSE /\ saved' = {}
    \/ pending' = pending /\ saved' \in SUBSET saved
Interrupts(place) == pending /\ place \in {boot, web.at}

\* ESP.restart or a loss of power; the requests of the old run are gone.
Reboot ==
    /\ boot' = "mount"
    /\ phase' = "Ready" /\ audioBlocked' = FALSE /\ radioStopped' = FALSE
    /\ lock' = "free" /\ target' = "none" /\ quiesced' = FALSE
    /\ active' = NoRequest /\ web' = Idle
    /\ session' = [r \in Requests |-> IF session[r].at = "new" THEN session[r] ELSE Closed]
    /\ bt' = "none" /\ main' = "free" /\ other' = "idle" /\ releasing' = FALSE
    /\ stage' = "Idle" /\ queue' = <<>> /\ radio' = "silent"
    /\ mounted' = FALSE
    /\ IF Interrupts("restore") THEN PartlyRestored ELSE files' = files
    /\ IF Interrupts("clear") THEN PartlyErased ELSE UNCHANGED <<pending, saved>>
    /\ UNCHANGED <<net, mountable, forgotten>>

\* finishUpdate: a success stays locked until the reboot; what a free lock
\* remembers is never looked at.
FinishUpdate(of, outcome) ==
    IF lock = "active" /\ target = of
    THEN lock' = outcome /\ target' = (IF outcome = "free" THEN "none" ELSE target)
                        /\ quiesced' = (outcome # "free" /\ quiesced)
    ELSE UNCHANGED progress

-----------------------------------------------------------------------------
(* handleWebUpdateUpload.                                                  *)

Running == boot = "on"
WebIdle == Running /\ web.at = "idle"
At(place, r) == Running /\ web.at = place /\ web.req = r
Goes(place, r) == web' = [at |-> place, req |-> r, storageReady |-> TRUE]
Fail(r) == session' = [session EXCEPT ![r].at = "failed"] /\ web' = Idle

IsNext(r) == session[r].at = "new" /\ \A q \in 1..(r - 1) : session[q].at # "new"

\* Seeded defect: a second upload does not look for the active one.
RefusesUpload_NotForActive ==
    (blocksRequests /\ phase # "FilesystemUnavailable") \/ bt # "none"
\* Something else is under way, unless it is an update that left SPIFFS unmounted.
RefusesUpload ==
    (blocksRequests /\ phase # "FilesystemUnavailable") \/ bt # "none" \/ active # NoRequest

\* The first chunk, up to the validation of the image.  A refused request
\* does not become the active one; one that fails its preflight does.
UploadStarts(r, image, valid) ==
    /\ WebIdle /\ IsNext(r) /\ ~updateNetworkQuiescing
    /\ session' = [session EXCEPT ![r] =
           [NewSession EXCEPT !.at = IF RefusesUpload \/ ~valid THEN "failed" ELSE "open",
                              !.image = image,
                              !.needsRecovery = (phase = "FilesystemUnavailable")]]
    /\ IF RefusesUpload THEN UNCHANGED active ELSE active' = r
    /\ IF RefusesUpload \/ ~valid THEN UNCHANGED web ELSE Goes("acquire", r)
    /\ UNCHANGED <<op, progress, bt, tasks, stage, player, boot, net, storage, spent>>

BeginUpdate(r) ==
    /\ At("acquire", r)
    /\ IF updateLockActive THEN Fail(r) /\ UNCHANGED progress
       ELSE /\ lock' = "active" /\ target' = session[r].image /\ quiesced' = FALSE
            /\ Goes("check", r) /\ UNCHANGED session
    /\ UNCHANGED <<op, active, bt, tasks, stage, player, boot, net, storage, spent>>

\* SystemOperationState::updateStarted, one atomic access at a time.
CheckBlocked(r) ==
    /\ At("check", r)
    /\ Goes(IF audioBlocked /\ phase # "FilesystemUnavailable" THEN "refuse" ELSE "claim", r)
    /\ UNCHANGED <<op, progress, active, session, bt, tasks, stage, player, boot, net,
                   storage, spent>>

ClaimPhase(r) ==
    /\ At("claim", r)
    /\ IF phase \in {"Ready", "FilesystemUnavailable"}
       THEN phase' = "Updating" /\ Goes("block", r)
       ELSE phase' = phase /\ Goes("refuse", r)
    /\ UNCHANGED <<audioBlocked, radioStopped, progress, active, session, bt, tasks, stage,
                   player, boot, net, storage, spent>>

BlockAudio(r) ==
    /\ At("block", r) /\ Goes("unstop", r)
    /\ audioBlocked' = TRUE
    /\ UNCHANGED <<phase, radioStopped, progress, active, session, bt, tasks, stage, player,
                   boot, net, storage, spent>>

\* Seeded defect: the stop of an earlier update still counts.
AwaitRadioStop_KeepsStop(r) ==
    /\ At("unstop", r) /\ Goes("quiesce", r)
    /\ session' = [session EXCEPT ![r].audioBlocked = TRUE]
    /\ UNCHANGED <<op, progress, active, bt, tasks, stage, player, boot, net, storage, spent>>
\* The stop the handler waits for is the one of this update.
AwaitRadioStop(r) ==
    /\ At("unstop", r) /\ Goes("quiesce", r)
    /\ radioStopped' = FALSE
    /\ session' = [session EXCEPT ![r].audioBlocked = TRUE]
    /\ UNCHANGED <<phase, audioBlocked, progress, active, bt, tasks, stage, player, boot, net,
                   storage, spent>>

\* Seeded defect: a refused start keeps the lock it took.
Refuse_KeepsLock(r) ==
    /\ At("refuse", r) /\ Fail(r)
    /\ UNCHANGED <<op, progress, active, bt, tasks, stage, player, boot, net, storage, spent>>
\* updateStarted said no: the acquisition is given back at once.
Refuse(r) ==
    /\ At("refuse", r) /\ Fail(r)
    /\ FinishUpdate(session[r].image, "free")
    /\ UNCHANGED <<op, active, bt, tasks, stage, player, boot, net, storage, spent>>

\* quiesceForUpdate, the first time the guard sees this acquisition.
Quiesce(r) ==
    /\ At("quiesce", r)
    /\ IF quiesced THEN Goes("wait", r) /\ UNCHANGED <<quiesced, queue>>
       ELSE quiesced' = TRUE /\ queue' = <<>> /\ Goes("stop", r)
    /\ UNCHANGED <<op, lock, target, active, session, bt, tasks, stage, radio, boot, net,
                   storage, spent>>

Enqueue(command) ==
    queue' = IF Len(queue) < QueueSize THEN Append(queue, command) ELSE queue

\* The BT audio output may refuse to let go (blockForUpdate).
SendStop(r) ==
    /\ At("stop", r) /\ Enqueue("UPDATE_STOP")
    /\ \/ Goes("wait", r) /\ UNCHANGED <<session, spent>>
       \/ Bluetooth /\ Spend("faults") /\ Fail(r)
    /\ UNCHANGED <<op, progress, active, bt, tasks, stage, radio, boot, net, storage>>

\* The handler waits up to two seconds for the player.
RadioIsStopped(r) ==
    /\ At("wait", r) /\ radioStopped
    /\ Goes(IF session[r].image = "spiffs" THEN "backup" ELSE "begin", r)
    /\ UNCHANGED <<op, progress, active, session, bt, tasks, stage, player, boot, net, storage,
                   spent>>

RadioDidNotStop(r) ==
    /\ At("wait", r) /\ ~radioStopped /\ Fail(r)
    /\ UNCHANGED <<op, progress, active, bt, tasks, stage, player, boot, net, storage, spent>>

\* backupWebUpdateData.  A pending snapshot is kept for the retry; a new one is
\* committed by its mark, after the files.
KeepSnapshot(r) == pending /\ Goes("unmount", r) /\ UNCHANGED <<pending, saved, session, spent>>

Readable == IF mounted THEN files ELSE {}
MakeSnapshot(r) ==
    /\ ~pending /\ pending' = TRUE /\ saved' = Readable
    /\ Goes("unmount", r) /\ UNCHANGED <<session, spent>>

\* A file that does not open is left out, and the update goes on; so it does
\* when the mark of a pending snapshot is not read, and a new one replaces it.
ShortSnapshot(r) ==
    /\ Spend("faults") /\ pending' = TRUE /\ saved' \in SUBSET Readable
    /\ Goes("unmount", r) /\ session' = session

\* The old snapshot is not erased; a file is not stored; the new mark is not
\* written, or written and not read back.
SnapshotFails(r) ==
    /\ Spend("faults") /\ Fail(r)
    /\ \/ pending' = pending /\ saved' \in SUBSET saved
       \/ pending' = FALSE /\ saved' = {}
       \/ pending' = TRUE /\ saved' \in SUBSET Readable

Backup(r) ==
    /\ At("backup", r)
    /\ KeepSnapshot(r) \/ MakeSnapshot(r) \/ ShortSnapshot(r) \/ SnapshotFails(r)
    /\ forgotten' = (\/ forgotten
                     \/ web'.at = "unmount" /\ saved' # UserFiles
                     \/ pending /\ <<pending, saved>> # <<pending', saved'>>)
    /\ UNCHANGED <<op, progress, active, bt, tasks, stage, player, boot, net, mounted,
                   mountable, files>>

Unmount(r) ==
    /\ At("unmount", r) /\ Goes("begin", r)
    /\ session' = [session EXCEPT ![r].needsRecovery = TRUE]
    /\ phase' = "FilesystemUnavailable" /\ mounted' = FALSE
    /\ UNCHANGED <<audioBlocked, radioStopped, progress, active, bt, tasks, stage, player,
                   boot, net, mountable, files, pending, saved, forgotten, spent>>

UpdateBegin(r) ==
    /\ At("begin", r)
    /\ \/ session' = [session EXCEPT ![r].at = "writing", ![r].started = TRUE]
          /\ web' = Idle /\ UNCHANGED spent
       \/ Spend("faults") /\ Fail(r)
    /\ UNCHANGED <<op, progress, active, bt, tasks, stage, player, boot, net, storage>>

\* A chunk: an image written over SPIFFS takes the files with it.
WriteChunk(r) ==
    /\ WebIdle /\ session[r].at = "writing" /\ active = r
    /\ \/ /\ session[r].image = "spiffs"
          /\ mountable' = FALSE /\ files' = {} /\ UNCHANGED <<session, spent>>
       \/ /\ Spend("faults")
          /\ session' = [session EXCEPT ![r].at = "failed"] /\ UNCHANGED <<mountable, files>>
    /\ UNCHANGED <<op, progress, active, web, bt, tasks, stage, player, boot, net, mounted,
                   pending, saved, forgotten>>

\* The last chunk: Update.end, then Success.
Finalize(r) ==
    /\ WebIdle /\ session[r].at = "writing" /\ active = r
    /\ session' = [session EXCEPT ![r].at = "done"] /\ active' = NoRequest
    /\ FinishUpdate(session[r].image, "success")
    /\ IF session[r].image = "spiffs" THEN mountable' = TRUE /\ files' = {}
       ELSE UNCHANGED <<mountable, files>>
    /\ UNCHANGED <<op, web, bt, tasks, stage, player, boot, net, mounted, pending, saved,
                   forgotten, spent>>

-----------------------------------------------------------------------------
(* cleanupFailedWebUpdate, from the response or from the disconnection.    *)

RequestEnds(r) ==
    /\ WebIdle /\ session[r].at \in {"writing", "failed", "done"}
    /\ IF active = r
       THEN /\ active' = NoRequest /\ session' = [session EXCEPT ![r].at = "failed"]
            /\ Goes(IF session[r].needsRecovery THEN "recover" ELSE "finish", r)
       ELSE /\ session' = [session EXCEPT ![r] = Closed]
            /\ UNCHANGED <<active, web>>
    /\ UNCHANGED <<op, progress, bt, tasks, stage, player, boot, net, storage, spent>>

\* recoverFilesystemAfterFailedUpdate.
Recover(r) ==
    /\ At("recover", r) /\ Goes("mount", r)
    /\ phase' = "FilesystemUnavailable"
    /\ UNCHANGED <<audioBlocked, radioStopped, progress, active, session, bt, tasks, stage,
                   player, boot, net, storage, spent>>

MountSpiffs(ok) ==
    /\ mountable => ok
    /\ mounted' = ok /\ mountable' = ok
    /\ UNCHANGED <<files, pending, saved, forgotten>>

\* Seeded defect: the snapshot is dropped although the files were not written.
RestoreFiles_DropsAlways(outcome) ==
    /\ \/ ~pending /\ outcome = "ready" /\ UNCHANGED <<files, pending, spent>>
       \/ /\ pending /\ outcome = "clear"
          /\ files' = files \cup saved /\ UNCHANGED <<pending, spent>>
       \/ /\ pending /\ outcome = "failed" /\ Spend("faults")
          /\ PartlyRestored /\ pending' = FALSE
    /\ UNCHANGED <<mounted, mountable, saved, forgotten>>
\* restoreWebUpdateData: the files first, then the snapshot is dropped.  A mark
\* that is not read counts as none; a store that does not open is a failure.
RestoreFiles(outcome) ==
    /\ \/ outcome = "ready" /\ files' = files
          /\ IF pending THEN Spend("faults") ELSE spent' = spent
       \/ outcome = "clear" /\ pending /\ files' = files \cup saved /\ spent' = spent
       \/ /\ outcome = "failed" /\ Spend("faults")
          /\ IF pending THEN PartlyRestored ELSE files' = files
    /\ UNCHANGED <<mounted, mountable, pending, saved, forgotten>>
ClearSnapshot(outcome) ==
    /\ \/ outcome = "ready" /\ pending' = FALSE /\ saved' = {} /\ spent' = spent
       \/ outcome = "failed" /\ PartlyErased /\ Spend("faults")
    /\ UNCHANGED <<mounted, mountable, files, forgotten>>

Recovered(r, outcome) ==
    web' = [at |-> IF outcome = "clear" THEN "clear" ELSE "finish", req |-> r,
            storageReady |-> outcome # "failed"]

Remount(r) ==
    /\ At("mount", r)
    /\ \E ok \in BOOLEAN :
          /\ MountSpiffs(ok)
          /\ IF ok THEN Goes("restore", r) ELSE Recovered(r, "failed")
    /\ UNCHANGED <<op, progress, active, session, bt, tasks, stage, player, boot, net, spent>>

RestoreData(r) ==
    /\ At("restore", r)
    /\ \E outcome \in {"ready", "clear", "failed"} :
          RestoreFiles(outcome) /\ Recovered(r, outcome)
    /\ UNCHANGED <<op, progress, active, session, bt, tasks, stage, player, boot, net>>

DropSnapshot(r) ==
    /\ At("clear", r)
    /\ \E outcome \in {"ready", "failed"} :
          ClearSnapshot(outcome) /\ Recovered(r, outcome)
    /\ UNCHANGED <<op, progress, active, session, bt, tasks, stage, player, boot, net>>

\* finishFailedUpdateAudio, only for a request that blocked the audio.
FinishFailed(r) ==
    /\ At("finish", r)
    /\ IF session[r].audioBlocked /\ audioBlocked /\ phase \notin {"Ready", "RestartPending"}
       THEN /\ Goes(IF web.storageReady THEN "ready" ELSE "unlock", r)
            /\ UNCHANGED session
       ELSE /\ session' = [session EXCEPT ![r] = Closed] /\ web' = Idle
    /\ UNCHANGED <<op, progress, active, bt, tasks, stage, player, boot, net, storage, spent>>

UpdateFailed(r) ==
    /\ At("ready", r) /\ Goes("unlock", r)
    /\ phase' = "Ready"
    /\ UNCHANGED <<audioBlocked, radioStopped, progress, active, session, bt, tasks, stage,
                   player, boot, net, storage, spent>>

Unlock(r) ==
    /\ At("unlock", r)
    /\ IF target \in Images THEN FinishUpdate(target, "free") ELSE UNCHANGED progress
    /\ session' = [session EXCEPT ![r] = Closed] /\ web' = Idle
    /\ UNCHANGED <<op, active, bt, tasks, stage, player, boot, net, storage, spent>>

-----------------------------------------------------------------------------
(* The BT image: handleBtUpload and the POST handler in AsyncTCP, then     *)
(* serviceBtFirmwareUpdate in the main loop.                               *)

BtUploadStarts ==
    /\ WebIdle /\ Bluetooth /\ ~updateNetworkQuiescing
    /\ ~blocksRequests /\ active = NoRequest /\ bt = "none"
    /\ Spend("btUploads")
    /\ bt' = "uploading"
    /\ UNCHANGED <<op, progress, uploads, tasks, stage, player, boot, net, storage>>

BtUploadEnds ==
    /\ WebIdle /\ bt = "uploading"
    /\ \/ ~blocksRequests /\ active = NoRequest /\ bt' = "staged"
       \/ bt' = "none"
    /\ UNCHANGED <<op, progress, uploads, tasks, stage, player, boot, net, storage, spent>>

MainFree == Running /\ main = "free"

BtTake ==
    /\ MainFree /\ bt = "staged"
    /\ IF updateLockActive THEN bt' = "none" /\ UNCHANGED <<progress, main>>
       ELSE /\ lock' = "active" /\ target' = "bt" /\ quiesced' = FALSE
            /\ main' = "btStart" /\ bt' = bt
    /\ UNCHANGED <<op, uploads, other, releasing, stage, player, boot, net, storage, spent>>

\* startFirmwareUpdate may say no: the module is offline or is the source.
BtStart ==
    /\ Running /\ main = "btStart"
    /\ \/ /\ ~blocksRequests /\ active = NoRequest
          /\ bt' = "sending" /\ main' = "btQuiesce" /\ UNCHANGED progress
       \/ bt' = "none" /\ main' = "free" /\ FinishUpdate("bt", "free")
    /\ UNCHANGED <<op, uploads, other, releasing, stage, player, boot, net, storage, spent>>

BtQuiesce ==
    /\ Running /\ main = "btQuiesce"
    /\ IF quiesced THEN main' = "free" /\ UNCHANGED <<quiesced, queue>>
       ELSE quiesced' = TRUE /\ queue' = <<>> /\ main' = "btStop"
    /\ UNCHANGED <<op, lock, target, uploads, bt, other, releasing, stage, radio, boot, net,
                   storage, spent>>

BtSendStop ==
    /\ Running /\ main = "btStop" /\ main' = "free"
    /\ Enqueue("UPDATE_STOP")
    /\ UNCHANGED <<op, progress, uploads, bt, other, releasing, stage, radio, boot, net,
                   storage, spent>>

\* The sender is done, has failed or was aborted.
BtTerminal ==
    /\ MainFree /\ bt = "sending" /\ bt' = "none"
    /\ FinishUpdate("bt", "success") \/ FinishUpdate("bt", "free")
    /\ UNCHANGED <<op, uploads, tasks, stage, player, boot, net, storage, spent>>

-----------------------------------------------------------------------------
(* serviceUpdateRestart and UpdateRestartCoordinator::tick.                *)

HoldCompleted ==
    /\ MainFree
    /\ \/ stage = "Idle" /\ lock = "success" /\ stage' = "Completed" /\ lock' = lock
       \/ stage = "Completed" /\ stage' = "Preparing" /\ lock' = "restarting"
    /\ UNCHANGED <<op, target, quiesced, uploads, bt, tasks, player, boot, net, storage, spent>>

\* The network is quiet, or has been given its five seconds.
RestartAfterUpdate == MainFree /\ stage = "Preparing" /\ Reboot /\ UNCHANGED spent

-----------------------------------------------------------------------------
(* Player::loop, which the main loop runs while the network status is      *)
(* CONNECTED or DISCONNECTED.                                              *)

PlayerRuns == MainFree /\ net = "sta"

Dequeue ==
    /\ PlayerRuns /\ queue # <<>>
    /\ queue' = Tail(queue)
    /\ main' = IF systemUpdateAudioBlocked /\ Head(queue) # "UPDATE_STOP" THEN "free"
               ELSE Head(queue)
    /\ UNCHANGED <<op, progress, uploads, bt, other, releasing, stage, radio, boot, net,
                   storage, spent>>

\* A reconnection that is due; _radioReconnect and the temporary URLs.
RetryDue ==
    /\ PlayerRuns /\ ~systemUpdateAudioBlocked /\ radio = "silent" /\ Spend("commands")
    /\ main' = "PLAY"
    /\ UNCHANGED <<op, progress, uploads, bt, other, releasing, stage, player, boot, net,
                   storage>>

\* Seeded defect: only the lock makes the player report its stop.
Halt_LockOnly ==
    /\ radio' = "silent"
    /\ radioStopped' = (radioStopped \/ updateLockActive)
    /\ UNCHANGED <<phase, audioBlocked>>

\* Player::_stop.
Halt ==
    /\ radio' = "silent"
    /\ radioStopped' = (radioStopped \/ systemUpdateAudioBlocked)
    /\ UNCHANGED <<phase, audioBlocked>>

ExecuteStop ==
    /\ Running /\ main \in {"STOP", "UPDATE_STOP"} /\ main' = "free"
    /\ Halt
    /\ UNCHANGED <<progress, uploads, bt, other, releasing, stage, queue, boot, net, storage,
                   spent>>

\* _play connects; a connection that fails ends in _stop.
ExecutePlay ==
    /\ Running /\ main = "PLAY" /\ main' = "free"
    /\ \/ radio' = "playing" /\ UNCHANGED op
       \/ Halt
    /\ UNCHANGED <<progress, uploads, bt, other, releasing, stage, queue, boot, net, storage,
                   spent>>

\* The station closes the connection, and the player stops by itself.
StreamEnds ==
    /\ PlayerRuns /\ radio = "playing" /\ Halt
    /\ UNCHANGED <<progress, uploads, bt, tasks, stage, queue, boot, net, storage, spent>>

-----------------------------------------------------------------------------
(* The other task: sendCommand, a change of source, a restart request.     *)

OtherIdle == Running /\ other = "idle"

OtherBegins(what) ==
    /\ OtherIdle /\ Spend("commands")
    /\ \/ what = "play" /\ ~systemUpdateAudioBlocked
       \/ what = "source" /\ ~systemUpdateAudioBlocked /\ Bluetooth
       \/ what = "restart" /\ phase # "RestartPending"
    /\ other' = what
    /\ UNCHANGED <<op, progress, uploads, bt, main, releasing, stage, player, boot, net, storage>>

SendPlay ==
    /\ Running /\ other = "play" /\ other' = "idle"
    /\ \E command \in {"PLAY", "STOP"} : Enqueue(command)
    /\ UNCHANGED <<op, progress, uploads, bt, main, releasing, stage, radio, boot, net, storage,
                   spent>>

\* stopOnSourceChange throws the queue away and sends what the source needs.
ReplaceQueue ==
    /\ Running /\ other = "source" /\ other' = "replay"
    /\ queue' = <<>>
    /\ UNCHANGED <<op, progress, uploads, bt, main, releasing, stage, radio, boot, net, storage,
                   spent>>

SendAgain ==
    /\ Running /\ other = "replay"
    /\ other' = IF systemUpdateAudioBlocked THEN "idle" ELSE "play"
    /\ UNCHANGED <<op, progress, uploads, bt, main, releasing, stage, player, boot, net, storage,
                   spent>>

RestartRequested ==
    /\ Running /\ other = "restart" /\ other' = "idle"
    /\ phase' = "RestartPending"
    /\ UNCHANGED <<audioBlocked, radioStopped, progress, uploads, bt, main, releasing, stage,
                   player, boot, net, storage, spent>>

-----------------------------------------------------------------------------
(* NetServer::loop.                                                        *)

ReleaseCheck ==
    /\ Running /\ ~releasing
    /\ audioBlocked /\ ~blocksRequests /\ radioStopped
    /\ releasing' = TRUE
    /\ UNCHANGED <<op, progress, uploads, bt, main, other, stage, player, boot, net, storage,
                   spent>>

ReleaseAudio ==
    /\ Running /\ releasing /\ releasing' = FALSE
    /\ audioBlocked' = FALSE
    /\ UNCHANGED <<phase, radioStopped, progress, uploads, bt, main, other, stage, player,
                   boot, net, storage, spent>>

RestartDue == Running /\ ~releasing /\ phase = "RestartPending" /\ Reboot /\ UNCHANGED spent

-----------------------------------------------------------------------------
(* Config::init: mount, restore the user's files, drop the snapshot.       *)

PowerCut == Spend("cuts") /\ Reboot

BootStep(next) ==
    /\ boot' = next
    /\ UNCHANGED <<op, progress, uploads, bt, tasks, stage, player>>

BootMount ==
    /\ boot = "mount"
    /\ \E ok \in BOOLEAN : MountSpiffs(ok) /\ BootStep(IF ok THEN "restore" ELSE "on")
    /\ net' \in Networks /\ UNCHANGED spent
BootRestore ==
    /\ boot = "restore"
    /\ \E outcome \in {"ready", "clear", "failed"} :
          RestoreFiles(outcome) /\ BootStep(IF outcome = "clear" THEN "clear" ELSE "on")
    /\ net' = net
BootClear ==
    /\ boot = "clear"
    /\ \E outcome \in {"ready", "failed"} : ClearSnapshot(outcome)
    /\ BootStep("on") /\ net' = net

-----------------------------------------------------------------------------

\* What the handler the web server is in goes on with.
Handle(r) ==
    \/ BeginUpdate(r) \/ CheckBlocked(r) \/ ClaimPhase(r) \/ BlockAudio(r)
    \/ AwaitRadioStop(r) \/ Refuse(r) \/ Quiesce(r) \/ SendStop(r)
    \/ RadioIsStopped(r) \/ RadioDidNotStop(r) \/ Backup(r) \/ Unmount(r) \/ UpdateBegin(r)
    \/ Recover(r) \/ Remount(r) \/ RestoreData(r) \/ DropSnapshot(r)
    \/ FinishFailed(r) \/ UpdateFailed(r) \/ Unlock(r)

WebSteps == (\E r \in Requests : Handle(r) \/ RequestEnds(r)) \/ BtUploadEnds

MainSteps ==
    \/ BtTake \/ BtStart \/ BtQuiesce \/ BtSendStop
    \/ HoldCompleted \/ RestartAfterUpdate
    \/ ExecuteStop \/ ExecutePlay

DspSteps == ReleaseCheck \/ ReleaseAudio \/ RestartDue
BootSteps == BootMount \/ BootRestore \/ BootClear
OtherSteps == SendPlay \/ ReplaceQueue \/ SendAgain \/ RestartRequested

Next ==
    \/ \E r \in Requests :
          \/ \E image \in Images, valid \in BOOLEAN : UploadStarts(r, image, valid)
          \/ Handle(r) \/ WriteChunk(r) \/ Finalize(r) \/ RequestEnds(r)
    \/ BtUploadStarts \/ BtUploadEnds \/ BtTerminal
    \/ MainSteps \/ Dequeue \/ RetryDue \/ StreamEnds
    \/ \E what \in {"play", "source", "restart"} : OtherBegins(what)
    \/ OtherSteps \/ DspSteps \/ BootSteps \/ PowerCut

Spec == Init /\ [][Next]_vars

\* Every task is scheduled; a connection that stalls is closed by the server
\* and a BT transmission has its deadlines; boot runs to its end.
FairSpec ==
    /\ Spec
    /\ WF_vars(WebSteps) /\ WF_vars(OtherSteps)
    /\ WF_vars(BtTerminal) /\ WF_vars(MainSteps) /\ SF_vars(Dequeue)
    /\ WF_vars(DspSteps) /\ WF_vars(BootSteps)

-----------------------------------------------------------------------------
(* Why the lock has one owner, and why the user's files survive.            *)

Opening == {"acquire", "check", "claim", "block", "unstop", "refuse", "quiesce", "stop",
            "wait", "backup", "unmount", "begin"}
Blocked == {"quiesce", "stop", "wait", "backup", "unmount", "begin"}
Cleaning == {"recover", "mount", "restore", "clear", "finish", "ready", "unlock"}
HoldsLock(r) == lock = "active" /\ target = session[r].image

\* A handler works for the active request, a cleanup for the one it retired.
HandlerInv ==
    /\ web.at # "idle" => boot = "on" /\ web.req \in Requests
    /\ web.at \in Opening => active = web.req /\ session[web.req].at = "open"
    /\ web.at \in Cleaning => active = NoRequest /\ session[web.req].at = "failed"
    /\ web.at \in Opening => (session[web.req].audioBlocked <=> web.at \in Blocked)
    /\ \A r \in Requests :
          /\ session[r].at = "open" => web.at \in Opening /\ web.req = r
          /\ active = r => session[r].at \in {"open", "writing", "failed"}

\* Whoever is past its acquisition still holds the lock for its own target.
LockInv ==
    /\ web.at \in Opening \ {"acquire"} => HoldsLock(web.req)
    /\ web.at \in {"ready", "unlock"} => session[web.req].audioBlocked
    /\ \A r \in Requests :
          /\ session[r].at = "writing" =>
                session[r].audioBlocked /\ active = r /\ web.at = "idle"
          /\ session[r].at \in {"writing", "failed"} /\ session[r].audioBlocked =>
                HoldsLock(r) /\ (active = r \/ (web.at \in Cleaning /\ web.req = r))
    /\ bt = "sending" \/ main \in {"btStart", "btQuiesce", "btStop"} =>
          lock = "active" /\ target = "bt" /\ bt \in {"staged", "sending"}
    /\ stage = "Completed" => lock = "success"
    /\ stage = "Preparing" => lock = "restarting"

\* Every file is intact in the file system or in the pending snapshot.
Kept == \A f \in UserFiles : (f \in files /\ mountable) \/ (pending /\ f \in saved)
Complete == pending /\ (forgotten \/ saved = UserFiles)

\* The files are only overwritten while the snapshot is complete, and it is only
\* dropped while the file system has what it holds.
StorageInv ==
    /\ web.at = "unmount" => Complete
    /\ web.at = "begin" /\ session[web.req].image = "spiffs" => Complete
    /\ \A r \in Requests : session[r].at = "writing" =>
          boot = "on" /\ (session[r].image = "spiffs" => Complete)
    /\ web.at = "restore" \/ boot = "restore" => mountable
    /\ web.at = "clear" \/ boot = "clear" => saved \subseteq files /\ mountable
    /\ forgotten \/ Kept

\* The inductive invariant.
IInv == TypeOK /\ HandlerInv /\ LockInv /\ StorageInv

(* Why the radio is silent while an image is written.                       *)

Claimed == {"block", "unstop"} \cup Blocked
Stopped == {"backup", "unmount", "begin"}

\* The update has the operation phase from its claim until its cleanup: the
\* phase is not Ready under a handler that has claimed it, a request that
\* writes, or one whose end will have to bring the file system back.
ClaimInv ==
    /\ web.at \in Claimed \cup {"recover"} => phase # "Ready"
    /\ web.at = "claim" => ~audioBlocked \/ phase # "Ready"
    /\ \A r \in Requests :
          session[r].at = "writing" \/ (active = r /\ session[r].needsRecovery) => phase # "Ready"

\* The release of an earlier update's gate, once decided, meets no update that
\* relies on the gate: it is still closed, so each is refused.
ReleaseInv ==
    releasing =>
        /\ audioBlocked /\ phase \in {"Ready", "RestartPending"}
        /\ web.at \notin Claimed \cup {"claim", "recover"}
        /\ \A r \in Requests :
              session[r].at # "writing" /\ (active = r => ~session[r].needsRecovery)

\* The gate is closed, and the stop that was waited for is no older one.
GateInv ==
    /\ web.at \in {"unstop"} \cup Blocked => audioBlocked
    /\ web.at \in Stopped => radioStopped
    /\ \A r \in Requests : session[r].at = "writing" => audioBlocked /\ radioStopped
    /\ audioBlocked /\ radioStopped /\ web.at # "unstop" => radio = "silent" /\ main # "PLAY"

QuietInv == ClaimInv /\ ReleaseInv /\ GateInv

-----------------------------------------------------------------------------
(* What is promised.                                                       *)

Writing(r) == session[r].at = "writing"

\* One image at a time: whoever writes holds the global lock for its own
\* target, and is the active request or the BT sender; another request, the
\* BT path or a late cleanup never takes it away (STABLE_CONTRACT.md "one
\* global lock").
OneWriter ==
    /\ \A r \in Requests : Writing(r) =>
          lock = "active" /\ target = session[r].image /\ active = r /\ bt # "sending"
    /\ bt = "sending" => lock = "active" /\ target = "bt"

\* While the web server writes an image the radio is silent and stays so: a
\* stop left over from before the update, a PLAY that was past the gate, a
\* retry or a late release never lets it sound.
SilentWhileWriting ==
    \A r \in Requests : Writing(r) /\ active = r => radio = "silent" /\ audioBlocked

\* Each of the user's files is intact in the file system or in the committed
\* snapshot, wherever a write, a mount, a write-back or an erasure fails or is
\* cut off (backupWebUpdateData, restoreWebUpdateData).  Left aside: an update
\* that goes on with a snapshot without one of the files, and a backup that takes
\* a pending snapshot for none because it could not read the mark.
UserDataKept == forgotten \/ Kept

\* No update keeps the lock: a failed one gives it back and a stored one ends
\* in a restart, whatever else is asked meanwhile.
UpdateEnds == (lock # "free") ~> (lock = "free" \/ boot # "on")

\* The audio comes back after a failed update, once the radio has stopped or
\* while the stop is still on its way to a player that runs.
StopOnItsWay ==
    \/ radioStopped \/ main = "UPDATE_STOP"
    \/ other # "source" /\ \E i \in DOMAIN queue : queue[i] = "UPDATE_STOP"
AudioReleased ==
    (phase = "Ready" /\ audioBlocked /\ net = "sta" /\ StopOnItsWay)
    ~> (~audioBlocked \/ boot # "on")

\* A failed update permits a subsequent attempt, as the test says
\* (web_update_hardening_native.cpp:119-120): the audio gate, which refuses the
\* next update, is not left closed.
FailureLeavesRetryable == (phase = "Ready" /\ audioBlocked) ~> (~audioBlocked \/ boot # "on")

=============================================================================
