---------------------------- MODULE PlaylistStore ----------------------------
(***************************************************************************)
(* The station list: the three copies of stations.tsv and the three of its *)
(* index that PlaylistStore keeps on SPIFFS, the selected position that is *)
(* kept in the configuration record, and those who touch them: the boot,   *)
(* one station request at a time (PlaylistGuard admits no second one), and *)
(* the player, which writes the selected position without the guard.       *)
(* Every storage operation is a step and may fail; power may be cut        *)
(* between any two.                                                        *)
(*                                                                         *)
(* A list is a sequence of stations.  All rows are taken to be of one      *)
(* length, so an index, a list of offsets, is told by its length.          *)
(***************************************************************************)
EXTENDS Integers, Sequences

CONSTANTS
    Stations,    \* the station ids
    MaxRows,     \* bound on the length of a list
    Partial,     \* a file cut short: no header, or no whole number of offsets
    Missing,     \* there is no such file
    MaxFaults,   \* bound on the operations that fail
    MaxEdits,    \* bound on the requests
    MaxPlays,    \* bound on the play commands
    MaxCuts      \* bound on the power cuts

ASSUME PlaylistAssumption ==
    /\ MaxRows \in Nat /\ MaxFaults \in Nat
    /\ MaxEdits \in Nat /\ MaxPlays \in Nat /\ MaxCuts \in Nat
    /\ Missing # Partial

Elements(list) == {list[k] : k \in DOMAIN list}
Lists == {list \in UNION {[1 .. n -> Stations] : n \in 0 .. MaxRows} :
             \A j, k \in DOMAIN list : list[j] = list[k] => j = k}
Positions == 0 .. MaxRows
ASSUME ContentsDistinct ==
    /\ Partial \notin Lists /\ Missing \notin Lists
    /\ Partial \notin Positions /\ Missing \notin Positions

Copies == {"active", "tmp", "bak"}

VARIABLES
    csv,       \* stations.tsv, .tmp and .bak
    index,     \* stations.idx, .tmp and .bak
    legacy,    \* the playlist of an older firmware
    ram,       \* config.store.lastStation
    flash,     \* the position in the saved configuration record
    pc,        \* the next operation of whoever holds the guard
    caller,    \* "boot" or "request"
    purpose,   \* what commit is for: "init", "migrate" or "edit"
    rebuilds,  \* who called rebuildIndex: "no", "recover" or "rollback"
    undoing,   \* commit's failure that rollbackPlaylist undoes: "install" or "cleanup"
    restored,  \* rollbackPlaylist's local
    rows, current,       \* the arguments of commit
    hadCsv, hadIndex,    \* locals of commit and installIndex
    previousCurrent,     \* local of commit
    answer,    \* what the request or the boot was told
    command,   \* the position of the PR_PLAY in the player's queue, or 0
    loading,   \* the position whose station the player is about to load, or 0
    before, beforeSel,   \* history: list and position when the request began
    spare,     \* history: the rollback copy an earlier failure had left then
    touched,   \* history: the player wrote the position since then
    callFaults,          \* history: faults when the call began
    faults, edits, plays, cuts

files == <<csv, index, legacy>>
selection == <<ram, flash>>
locals == <<purpose, rebuilds, undoing, restored, rows, current, hadCsv, hadIndex,
            previousCurrent>>
player == <<command, loading, plays>>
history == <<before, beforeSel, spare, callFaults>>
vars == <<files, selection, pc, caller, locals, answer, player, history, touched,
          faults, edits, cuts>>

Failures == {"IO_ERROR", "NO_SPACE"}
Answers == {"none", "OK", "READ_FAILED", "CONFLICT", "INVALID_STATE", "INVALID"} \cup Failures

-----------------------------------------------------------------------------
(* Storage.                                                                *)

IsList(c) == c \in Lists
Exists(file, copy) == file[copy] # Missing

\* validIndex: the offsets of the rows of a readable list.
ValidIndex(c, i) == IsList(c) /\ i = Len(c)

NoFault == faults' = faults
Fault == faults < MaxFaults /\ faults' = faults + 1

Keep == UNCHANGED files
PutCsv(copy, c) == csv' = [csv EXCEPT ![copy] = c] /\ UNCHANGED <<index, legacy>>
PutIndex(copy, i) == index' = [index EXCEPT ![copy] = i] /\ UNCHANGED <<csv, legacy>>
MoveCsv(a, b) ==
    csv' = [csv EXCEPT ![b] = csv[a], ![a] = Missing] /\ UNCHANGED <<index, legacy>>
MoveIndex(a, b) ==
    index' = [index EXCEPT ![b] = index[a], ![a] = Missing] /\ UNCHANGED <<csv, legacy>>

\* One operation: where the procedure goes when it works and when it fails.
\* removeIfPresent does not touch a file that is not there.
RemoveCsv(copy, next, failed) ==
    \/ PutCsv(copy, Missing) /\ NoFault /\ pc' = next
    \/ Exists(csv, copy) /\ Keep /\ Fault /\ pc' = failed
RemoveIndex(copy, next, failed) ==
    \/ PutIndex(copy, Missing) /\ NoFault /\ pc' = next
    \/ Exists(index, copy) /\ Keep /\ Fault /\ pc' = failed
RenameCsv(a, b, next, failed) ==
    \/ MoveCsv(a, b) /\ NoFault /\ pc' = next
    \/ Keep /\ Fault /\ pc' = failed
RenameIndex(a, b, next, failed) ==
    \/ MoveIndex(a, b) /\ NoFault /\ pc' = next
    \/ Keep /\ Fault /\ pc' = failed

\* A procedure at label l that changes files and the label only.
At(l) ==
    /\ pc = l
    /\ UNCHANGED <<selection, caller, player, history, touched, edits, cuts>>
Step(l) == At(l) /\ UNCHANGED <<locals, answer>>

\* A call that is over has no locals: all but the arguments of commit, which
\* the properties are about.
DropLocals ==
    /\ purpose' = "init" /\ rebuilds' = "no" /\ undoing' = "install"
    /\ restored' = FALSE /\ hadCsv' = FALSE /\ hadIndex' = FALSE /\ previousCurrent' = 0

\* The guard is free: the boot is over and no request runs.
Free == pc = "ready"

-----------------------------------------------------------------------------
(* recover: every boot, and the head of every request that changes the     *)
(* list.                                                                   *)

RecoverySource(active, bak) ==
    IF IsList(active) THEN "Active"
    ELSE IF IsList(bak) THEN "Backup"
    ELSE IF active # Missing \/ bak # Missing THEN "Fail"
    ELSE IF legacy # Missing THEN "Legacy"
    ELSE "InitializeEmpty"

\* The list a recovery without faults ends with.
Effective ==
    CASE RecoverySource(csv["active"], csv["bak"]) = "Active" -> csv["active"]
      [] RecoverySource(csv["active"], csv["bak"]) = "Backup" -> csv["bak"]
      [] RecoverySource(csv["active"], csv["bak"]) = "Fail" -> Partial
      [] RecoverySource(csv["active"], csv["bak"]) = "Legacy" -> legacy
      [] OTHER -> <<>>

CallCommit(why, list, position) ==
    /\ purpose' = why /\ rows' = list /\ current' = position
    /\ rebuilds' = "no" /\ undoing' = "install"
    /\ pc' = "commit"
    /\ UNCHANGED <<restored, hadCsv, hadIndex, previousCurrent>>

MigratedPosition == IF legacy = <<>> THEN 0 ELSE IF ram > Len(legacy) THEN 1 ELSE ram

\* One of the two lists may come back unreadable.
RecoverInspect ==
    /\ At("recover") /\ Keep /\ UNCHANGED answer
    /\ \E unread \in {{}} \cup {{c} : c \in {"active", "bak"}} :
         LET Seen(c) == IF c \in unread THEN Partial ELSE csv[c]
             source == RecoverySource(Seen("active"), Seen("bak"))
         IN /\ \A c \in unread : Exists(csv, c)
            /\ IF unread = {} THEN NoFault ELSE Fault
            /\ \/ source = "Legacy" /\ CallCommit("migrate", legacy, MigratedPosition)
               \/ source = "InitializeEmpty" /\ CallCommit("init", <<>>, 0)
               \/ /\ source \in {"Active", "Backup", "Fail"} /\ UNCHANGED locals
                  /\ pc' = [Active |-> "rec_index", Backup |-> "rec_drop",
                            Fail |-> "unrecovered"][source]

LegacyUnreadable ==
    /\ Step("recover") /\ Keep /\ Fault
    /\ RecoverySource(csv["active"], csv["bak"]) = "Legacy"
    /\ pc' = "unrecovered"

CallRebuild(who) ==
    /\ rebuilds' = who /\ pc' = "prep_drop"
    /\ UNCHANGED <<purpose, undoing, restored, rows, current, hadCsv, hadIndex,
                   previousCurrent>>

\* validIndex of the installed index: an unreadable one is not valid.
Checked(valid, invalid) ==
    /\ Keep
    /\ \/ ValidIndex(csv["active"], index["active"]) /\ NoFault /\ valid
       \/ ~ValidIndex(csv["active"], index["active"]) /\ NoFault /\ invalid
       \/ ValidIndex(csv["active"], index["active"]) /\ Fault /\ invalid

RecoverIndex ==
    /\ At("rec_index") /\ UNCHANGED answer
    /\ Checked(pc' = "rec_csv_tmp" /\ UNCHANGED locals, CallRebuild("recover"))

RecoverStep ==
    \/ RecoverInspect \/ LegacyUnreadable \/ RecoverIndex
    \/ Step("rec_drop") /\ RemoveCsv("active", "rec_promote", "unrecovered")
    \/ Step("rec_promote") /\ RenameCsv("bak", "active", "rec_index", "unrecovered")
    \/ Step("rec_csv_tmp") /\ RemoveCsv("tmp", "rec_csv_bak", "unrecovered")
    \/ Step("rec_csv_bak") /\ RemoveCsv("bak", "rec_idx_tmp", "unrecovered")
    \/ Step("rec_idx_tmp") /\ RemoveIndex("tmp", "rec_idx_bak", "unrecovered")
    \/ Step("rec_idx_bak") /\ RemoveIndex("bak", "recovered", "unrecovered")

-----------------------------------------------------------------------------
(* prepareIndex and installIndex, called by commit and by rebuildIndex.    *)

PrepareDone == IF rebuilds = "no" THEN "bak_drop" ELSE "inst_drop"
RebuildFailed == IF rebuilds = "recover" THEN "unrecovered" ELSE "rolled_back"
PrepareFailed == IF rebuilds = "no" THEN "no_space" ELSE RebuildFailed
InstallDone == IF rebuilds = "no" THEN "select" ELSE "reb_drop"
InstallFailed == IF rebuilds = "no" THEN "undo_csv" ELSE RebuildFailed
RebuildDone == IF rebuilds = "recover" THEN "rec_csv_tmp" ELSE "rolled_back"

Indexed == csv[IF rebuilds = "no" THEN "tmp" ELSE "active"]

IndexOpen ==
    /\ Step("prep_open")
    /\ \/ PutIndex("tmp", 0) /\ NoFault /\ pc' = "prep_write"
       \/ Keep /\ Fault /\ pc' = PrepareFailed

IndexWrite ==
    /\ Step("prep_write")
    /\ \/ IsList(Indexed) /\ PutIndex("tmp", Len(Indexed)) /\ NoFault /\ pc' = PrepareDone
       \/ /\ \E i \in Positions \cup {Partial} : PutIndex("tmp", i)
          /\ IF IsList(Indexed) THEN Fault ELSE NoFault
          /\ pc' = PrepareFailed

IndexKeep ==
    /\ At("inst_keep") /\ UNCHANGED answer
    /\ hadIndex' = Exists(index, "active")
    /\ UNCHANGED <<purpose, rebuilds, undoing, restored, rows, current, hadCsv,
                   previousCurrent>>
    /\ \/ ~Exists(index, "active") /\ Keep /\ NoFault /\ pc' = "inst_rename"
       \/ Exists(index, "active") /\ RenameIndex("active", "bak", "inst_rename", InstallFailed)

IndexCheck ==
    /\ Step("inst_check")
    /\ Checked(pc' = InstallDone, pc' = InstallFailed)

IndexStep ==
    \/ Step("prep_drop") /\ RemoveIndex("tmp", "prep_open", PrepareFailed)
    \/ IndexOpen \/ IndexWrite
    \/ Step("inst_drop") /\ RemoveIndex("bak", "inst_keep", InstallFailed)
    \/ IndexKeep
    \/ /\ Step("inst_rename")
       /\ RenameIndex("tmp", "active", "inst_check", IF hadIndex THEN "inst_back" ELSE InstallFailed)
    \/ Step("inst_back") /\ RenameIndex("bak", "active", InstallFailed, InstallFailed)
    \/ IndexCheck
    \/ Step("reb_drop") /\ RemoveIndex("bak", RebuildDone, RebuildFailed)

-----------------------------------------------------------------------------
(* commit.                                                                 *)

\* The row and id checks hold for every list in Lists; a file system without
\* the space counts as an operation that fails.
CommitBegin ==
    /\ Step("commit") /\ Keep
    /\ \/ NoFault /\ pc' = IF current > Len(rows) THEN "invalid" ELSE "tmp_drop"
       \/ current <= Len(rows) /\ Fault /\ pc' = "no_space"

\* SPIFFS.open(path, "w") creates or truncates the file before any data.
CommitOpen ==
    /\ Step("tmp_open")
    /\ \/ PutCsv("tmp", Partial) /\ NoFault /\ pc' = "tmp_write"
       \/ Keep /\ Fault /\ pc' = "no_space"

Prefixes(list) == {SubSeq(list, 1, n) : n \in 0 .. Len(list)}

\* The rows, then scanRows and the size: what was not written as asked is
\* never installed.
CommitWrite ==
    /\ Step("tmp_write")
    /\ \/ PutCsv("tmp", rows) /\ NoFault /\ pc' = "prep_drop"
       \/ /\ \E c \in {Partial} \cup Prefixes(rows) : PutCsv("tmp", c)
          /\ Fault /\ pc' \in {"no_space", "io_error"}

\* Seeded defect: the previous list is removed to make room for the new one.
Displace_NoCopy ==
    /\ At("displace") /\ UNCHANGED answer
    /\ hadCsv' = Exists(csv, "active")
    /\ UNCHANGED <<purpose, rebuilds, undoing, restored, rows, current, hadIndex,
                   previousCurrent>>
    /\ RemoveCsv("active", "install", "io_error")

\* The previous list becomes the rollback copy.
Displace ==
    /\ At("displace") /\ UNCHANGED answer
    /\ hadCsv' = Exists(csv, "active")
    /\ UNCHANGED <<purpose, rebuilds, undoing, restored, rows, current, hadIndex,
                   previousCurrent>>
    /\ \/ ~Exists(csv, "active") /\ Keep /\ NoFault /\ pc' = "install"
       \/ Exists(csv, "active") /\ RenameCsv("active", "bak", "install", "io_error")

\* setLastStationChecked(position): the boot changes RAM only; a failed write
\* may still have reached the flash, and RAM keeps the old position.
SelectionSet(position, next) ==
    /\ ram' = position /\ NoFault /\ pc' = next
    /\ flash' = IF caller = "boot" THEN flash ELSE position
SelectionFails(position, next) ==
    /\ caller = "request" /\ (ram # position \/ flash # position)
    /\ ram' = ram /\ flash' \in {flash, position} /\ Fault /\ pc' = next

Select ==
    /\ pc = "select" /\ Keep
    /\ previousCurrent' = ram
    /\ \/ SelectionSet(current, "idx_bak_drop")
       \/ SelectionFails(current, "undo_csv")
    /\ UNCHANGED <<purpose, rebuilds, undoing, restored, rows, current, hadCsv, hadIndex,
                   caller, answer, player, history, touched, edits, cuts>>

\* A copy that cannot be removed undoes the commit.
CleanUp(Removal) ==
    /\ UNCHANGED answer /\ Removal
    /\ undoing' = IF pc' = "undo_csv" THEN "cleanup" ELSE undoing
    /\ UNCHANGED <<purpose, rebuilds, restored, rows, current, hadCsv, hadIndex,
                   previousCurrent>>

CommitStep ==
    \/ CommitBegin
    \/ Step("tmp_drop") /\ RemoveCsv("tmp", "idx_tmp_drop", "io_error")
    \/ Step("idx_tmp_drop") /\ RemoveIndex("tmp", "tmp_open", "io_error")
    \/ CommitOpen \/ CommitWrite
    \/ Step("bak_drop") /\ RemoveCsv("bak", "displace", "io_error")
    \/ Displace
    \/ /\ Step("install")
       /\ RenameCsv("tmp", "active", "inst_drop", IF hadCsv THEN "undo_csv" ELSE "io_error")
    \/ Select
    \/ At("idx_bak_drop") /\ CleanUp(RemoveIndex("bak", "csv_bak_drop", "undo_csv"))
    \/ At("csv_bak_drop") /\ CleanUp(RemoveCsv("bak", "committed", "undo_csv"))

-----------------------------------------------------------------------------
(* rollbackPlaylist.                                                       *)

Undo(l) ==
    /\ At(l)
    /\ UNCHANGED <<purpose, rebuilds, undoing, rows, current, hadCsv, hadIndex,
                   previousCurrent, answer>>

\* Without a rollback copy there was no list before: the new one goes.
UndoCsv ==
    /\ Undo("undo_csv")
    /\ \/ /\ PutCsv("active", Missing) /\ NoFault /\ restored' = TRUE
          /\ pc' = IF Exists(csv, "bak") THEN "undo_csv_rename" ELSE "undo_index"
       \/ /\ Exists(csv, "active") /\ Keep /\ Fault /\ restored' = FALSE
          /\ pc' = "undo_index"

UndoCsvRename ==
    /\ Undo("undo_csv_rename")
    /\ RenameCsv("bak", "active", "undo_index", "undo_index")
    /\ restored' = (csv' # csv)

UndoIndex ==
    /\ Undo("undo_index")
    /\ \/ ~Exists(index, "bak") /\ Keep /\ NoFault /\ restored' = restored /\ pc' = "undo_check"
       \/ /\ Exists(index, "bak")
          /\ RemoveIndex("active", "undo_index_rename", "undo_check")
          /\ restored' = (restored /\ pc' = "undo_index_rename")

UndoIndexRename ==
    /\ Undo("undo_index_rename")
    /\ RenameIndex("bak", "active", "undo_check", "undo_check")
    /\ restored' = (restored /\ index' # index)

\* Seeded defect: a restored list is taken to have its index.
UndoCheck_Trusts ==
    Step("undo_check") /\ Keep /\ NoFault /\ pc' = "rolled_back"

UndoCheck ==
    /\ At("undo_check") /\ UNCHANGED answer
    /\ \/ /\ restored /\ Exists(csv, "active")
          /\ Checked(pc' = "rolled_back" /\ UNCHANGED locals, CallRebuild("rollback"))
       \/ /\ ~(restored /\ Exists(csv, "active")) /\ Keep /\ NoFault /\ UNCHANGED locals
          /\ pc' = "rolled_back"

\* Seeded defect: a failed clean-up undoes the list but not the selection.
RolledBack_KeepsSelection ==
    /\ pc = "rolled_back" /\ Keep
    /\ UNCHANGED selection /\ NoFault /\ pc' = "io_error"
    /\ UNCHANGED <<locals, caller, answer, player, history, touched, edits, cuts>>

\* After a failed clean-up the selection had been written: it goes back too.
RolledBack ==
    /\ pc = "rolled_back" /\ Keep
    /\ \/ undoing = "install" /\ UNCHANGED selection /\ NoFault /\ pc' = "io_error"
       \/ undoing = "cleanup" /\ SelectionSet(previousCurrent, "io_error")
       \/ undoing = "cleanup" /\ SelectionFails(previousCurrent, "io_error")
    /\ UNCHANGED <<locals, caller, answer, player, history, touched, edits, cuts>>

UndoStep ==
    \/ UndoCsv \/ UndoCsvRename \/ UndoIndex \/ UndoIndexRename \/ UndoCheck \/ RolledBack

-----------------------------------------------------------------------------
(* The callers.                                                            *)

\* What a procedure returned reaches the boot or the request.
Answered(a) ==
    /\ answer' = a
    /\ pc' = IF caller = "boot" THEN "start" ELSE "ready"
    /\ DropLocals /\ UNCHANGED <<rows, current>>

Failed == pc \in {"io_error", "no_space", "invalid"}
CommitFails ==
    /\ Failed /\ At(pc) /\ Keep /\ NoFault
    /\ \/ /\ purpose = "edit"
          /\ Answered([io_error |-> "IO_ERROR", no_space |-> "NO_SPACE", invalid |-> "INVALID"][pc])
       \/ purpose # "edit" /\ pc' = "unrecovered" /\ UNCHANGED <<locals, answer>>

\* A migration then drops the old playlist; if that fails, nobody minds.
CommitReturns ==
    /\ At("committed")
    /\ \/ purpose = "edit" /\ Keep /\ NoFault /\ Answered("OK")
       \/ /\ purpose # "edit" /\ pc' = "recovered" /\ UNCHANGED <<locals, answer, csv, index>>
          /\ \/ legacy' = Missing /\ NoFault
             \/ legacy # Missing /\ legacy' = legacy /\ Fault

RecoverReturns ==
    /\ Keep /\ NoFault
    /\ \/ At("unrecovered") /\ Answered("READ_FAILED")
       \/ At("recovered") /\ caller = "boot" /\ Answered("OK")
       \/ Step("recovered") /\ caller = "request" /\ pc' = "snapshot"

\* Seeded defect: a station moved onto the selected place pushes nothing.
AfterMove_Short(position, from, to) ==
    IF position = from THEN to
    ELSE IF from < position /\ position < to THEN position - 1
    ELSE IF to < position /\ position < from THEN position + 1
    ELSE position

AfterMove(position, from, to) ==
    IF position = from THEN to
    ELSE IF from < position /\ position <= to THEN position - 1
    ELSE IF to <= position /\ position < from THEN position + 1
    ELSE position

AfterDelete(position, removed, remaining) ==
    IF removed < position THEN position - 1
    ELSE IF removed > position THEN position
    ELSE IF removed <= remaining THEN removed ELSE remaining

Without(list, k) == [j \in 1 .. Len(list) - 1 |-> list[IF j < k THEN j ELSE j + 1]]
Moved(list, from, to) ==
    [j \in 1 .. Len(list) |->
        IF j = to THEN list[from]
        ELSE Without(list, from)[IF j < to THEN j ELSE j - 1]]

\* An import keeps the active station if the new list has it.
ImportCurrent(list, position, active) ==
    IF active \in Elements(list) THEN CHOOSE k \in DOMAIN list : list[k] = active
    ELSE IF position > Len(list) THEN Len(list) ELSE position

Add(list) ==
    /\ Len(list) < MaxRows
    /\ \E s \in Stations \ Elements(list) : CallCommit("edit", Append(list, s), ram)
Delete(list) ==
    \E k \in DOMAIN list :
        CallCommit("edit", Without(list, k),
                   IF ram = 0 THEN 0 ELSE AfterDelete(ram, k, Len(list) - 1))
\* An edit of a row, or of its metadata mode, moves it onto its own place.
Move(list) ==
    \E from, to \in DOMAIN list :
        CallCommit("edit", Moved(list, from, to), AfterMove(ram, from, to))
Import(list) ==
    \E new \in Lists :
        CallCommit("edit", new,
                   ImportCurrent(new, ram, IF ram = 0 THEN Missing ELSE list[ram]))

\* snapshot, the revision the client sent, the selected position, and the
\* change itself.
Snapshot ==
    /\ At("snapshot") /\ Keep
    /\ \/ Fault /\ Answered("READ_FAILED")
       \/ NoFault /\ Answered("CONFLICT")
       \/ NoFault /\ ram > Len(csv["active"]) /\ Answered("INVALID_STATE")
       \/ /\ NoFault /\ ram <= Len(csv["active"]) /\ UNCHANGED answer
          /\ LET list == csv["active"] IN Add(list) \/ Delete(list) \/ Move(list) \/ Import(list)

Request ==
    /\ Free /\ edits < MaxEdits /\ edits' = edits + 1
    /\ caller' = "request" /\ pc' = "recover" /\ answer' = "none"
    /\ before' = Effective /\ spare' = csv["bak"]
    /\ beforeSel' = ram /\ touched' = FALSE /\ callFaults' = faults
    /\ UNCHANGED <<files, selection, locals, player, faults, cuts>>

\* Config::init; the record, which gives the position in RAM, is read first.
Boot ==
    /\ pc = "off" /\ pc' = "recover"
    /\ caller' = "boot"
    /\ UNCHANGED <<files, selection, locals, answer, player, history, touched, faults, edits, cuts>>

Count == IF Exists(index, "active") THEN index["active"] ELSE 0

\* lastStation(position): RAM first; the record may fail to be written.
Choose(position) ==
    /\ ram' = position
    /\ \/ flash' = position /\ NoFault
       \/ position # flash /\ flash' = flash /\ Fault

\* Config::initRadioPlaylist: a position past the end becomes the first
\* station, and so does 0 unless the record says that none was wanted.
StartPositions ==
    IF Count = 0 THEN {0}
    ELSE IF ram = 0 THEN {0, 1}
    ELSE IF ram > Count THEN {1} ELSE {ram}
Start ==
    /\ pc = "start" /\ pc' = "ready" /\ Keep
    /\ \E position \in StartPositions : Choose(position)
    /\ UNCHANGED <<caller, locals, answer, player, history, touched, edits, cuts>>

PowerCut ==
    /\ pc # "off" /\ cuts < MaxCuts /\ cuts' = cuts + 1
    /\ pc' = "off" /\ answer' = "none" /\ command' = 0 /\ loading' = 0
    /\ DropLocals /\ current' = 0
    /\ ram' = flash /\ beforeSel' = 0 /\ touched' = FALSE /\ callFaults' = faults
    /\ UNCHANGED <<files, flash, caller, rows, plays, before, spare, faults, edits>>

-----------------------------------------------------------------------------
(* The player.                                                             *)

Running == pc \notin {"off", "start"} /\ (pc = "ready" \/ caller = "request")

\* A command names a position of the list the user looks at.
Play(position) ==
    /\ Free /\ plays < MaxPlays /\ plays' = plays + 1
    /\ command = 0 /\ position \in 1 .. Count /\ command' = position
    /\ UNCHANGED <<files, selection, pc, caller, locals, answer, loading, history, touched,
                   faults, edits, cuts>>

\* PR_PLAY: the position is selected at once, whoever holds the guard.
PlayTakes ==
    /\ Running /\ command > 0 /\ loading = 0
    /\ Choose(command) /\ loading' = command /\ command' = 0 /\ touched' = TRUE
    /\ UNCHANGED <<files, pc, caller, locals, answer, plays, history, edits, cuts>>

\* loadStation, under the guard: no list, no change; past the end, the first.
Load(position) ==
    \/ Count = 0 /\ UNCHANGED selection /\ NoFault
    \/ Count > 0 /\ Choose(IF position > Count THEN 1 ELSE position)
    \/ UNCHANGED selection /\ Fault
PlayLoads ==
    /\ Free /\ loading > 0 /\ Load(loading) /\ loading' = 0 /\ touched' = TRUE
    /\ UNCHANGED <<files, pc, caller, locals, answer, command, plays, history, edits, cuts>>

\* The guard was not to be had for three seconds.
PlayGivesUp ==
    /\ Running /\ ~Free /\ loading > 0 /\ loading' = 0
    /\ UNCHANGED <<files, selection, pc, caller, locals, answer, command, plays, history,
                   touched, faults, edits, cuts>>

\* _servicePendingStationRefresh reloads the selected station.
Refresh ==
    /\ Free /\ command = 0 /\ loading = 0 /\ ram > 0 /\ Load(ram)
    /\ touched' = (touched \/ ram' # ram)
    /\ UNCHANGED <<files, pc, caller, locals, answer, player, history, edits, cuts>>

-----------------------------------------------------------------------------
NoFiles == [c \in Copies |-> Missing]
Init ==
    /\ \/ /\ csv = NoFiles /\ index = NoFiles
          /\ legacy \in Lists \cup {Missing}
       \/ \E list \in Lists :
            /\ csv = [NoFiles EXCEPT !["active"] = list]
            /\ index = [NoFiles EXCEPT !["active"] = Len(list)]
            /\ legacy = Missing
    /\ flash \in 0 .. Len(Effective) /\ ram = flash
    /\ pc = "off" /\ caller = "boot" /\ answer = "none"
    /\ purpose = "init" /\ rebuilds = "no" /\ undoing = "install"
    /\ restored = FALSE /\ hadCsv = FALSE /\ hadIndex = FALSE
    /\ rows = Effective /\ current = 0 /\ previousCurrent = 0
    /\ command = 0 /\ loading = 0
    /\ before = Effective /\ spare = Missing /\ beforeSel = 0 /\ touched = FALSE /\ callFaults = 0
    /\ faults = 0 /\ edits = 0 /\ plays = 0 /\ cuts = 0

StoreStep ==
    \/ RecoverStep \/ IndexStep \/ CommitStep \/ UndoStep
    \/ CommitFails \/ CommitReturns \/ RecoverReturns \/ Snapshot
    \/ Boot \/ Start
PlayerStep == PlayTakes \/ PlayLoads

Next ==
    \/ StoreStep \/ PlayerStep
    \/ Request \/ PowerCut \/ PlayGivesUp \/ Refresh
    \/ \E position \in 1 .. MaxRows : Play(position)

Spec == Init /\ [][Next]_vars

-----------------------------------------------------------------------------
(* Properties                                                              *)

Csvs == Lists \cup {Partial, Missing}
Indexes == Positions \cup {Partial, Missing}
RecoverPcs == {"recover", "rec_index", "rec_drop", "rec_promote", "rec_csv_tmp", "rec_csv_bak",
               "rec_idx_tmp", "rec_idx_bak", "recovered", "unrecovered"}
IndexPcs == {"prep_drop", "prep_open", "prep_write", "inst_drop", "inst_keep", "inst_rename",
             "inst_back", "inst_check", "reb_drop"}
CommitPcs == {"commit", "tmp_drop", "idx_tmp_drop", "tmp_open", "tmp_write", "bak_drop",
              "displace", "install", "select", "idx_bak_drop", "csv_bak_drop", "committed",
              "no_space", "io_error", "invalid"}
UndoPcs == {"undo_csv", "undo_csv_rename", "undo_index", "undo_index_rename", "undo_check",
            "rolled_back"}
Pcs == RecoverPcs \cup IndexPcs \cup CommitPcs \cup UndoPcs
       \cup {"off", "start", "ready", "snapshot"}

FilesOK ==
    /\ csv \in [Copies -> Csvs] /\ index \in [Copies -> Indexes]
    /\ legacy \in Lists \cup {Missing}
    /\ rows \in Lists /\ before \in Lists /\ spare \in Lists \cup {Missing}
ControlOK ==
    /\ pc \in Pcs /\ caller \in {"boot", "request"}
    /\ purpose \in {"init", "migrate", "edit"}
    /\ rebuilds \in {"no", "recover", "rollback"} /\ undoing \in {"install", "cleanup"}
    /\ answer \in Answers
FlagsOK ==
    /\ restored \in BOOLEAN /\ hadCsv \in BOOLEAN /\ hadIndex \in BOOLEAN
    /\ touched \in BOOLEAN
NumbersOK ==
    /\ ram \in Positions /\ flash \in Positions
    /\ current \in Positions /\ previousCurrent \in Positions /\ beforeSel \in Positions
    /\ command \in Positions /\ loading \in Positions
    /\ faults \in 0 .. MaxFaults /\ callFaults \in 0 .. MaxFaults
    /\ edits \in 0 .. MaxEdits /\ plays \in 0 .. MaxPlays /\ cuts \in 0 .. MaxCuts

\* The type invariant of the station list, in four parts.
TypeOK == FilesOK /\ ControlOK /\ FlagsOK /\ NumbersOK

Active == csv["active"]
Backup == csv["bak"]
NoList == Active = Missing /\ Backup = Missing
LegacyList == IF legacy = Missing THEN <<>> ELSE legacy

\* Where the procedures stand.
InIndex(who) == pc \in IndexPcs /\ rebuilds = who
Preparing == {"prep_drop", "prep_open", "prep_write"}
Staging ==
    \/ pc \in {"commit", "tmp_drop", "idx_tmp_drop", "tmp_open", "tmp_write", "bak_drop", "displace"}
    \/ pc \in Preparing /\ rebuilds = "no"
Installed ==
    \/ pc \in {"select", "idx_bak_drop", "csv_bak_drop"}
    \/ InIndex("no") /\ pc \notin Preparing
Serving ==
    \/ pc \in {"rec_index", "rec_csv_tmp", "rec_csv_bak", "rec_idx_tmp", "rec_idx_bak",
               "recovered", "snapshot", "committed"}
    \/ InIndex("recover")
Committing == Staging \/ Installed \/ pc \in {"install", "committed", "undo_csv"}
Recovering == pc \in {"recover", "rec_drop", "rec_promote"} \/ (Serving /\ pc # "committed")

\* Only lists that were stored, or asked to be, are installed or kept for a
\* rollback; and when there is none, none is what is to be found.
KeptInv ==
    /\ {Active, Backup} \subseteq {before, rows, spare, Missing}
    /\ NoList => LegacyList \in {before, rows, spare}

\* What each stage of recover and commit has made sure of: a copy goes only
\* while the other one is good.
StageInv ==
    /\ Serving => IsList(Active)
    /\ pc \in {"rec_idx_tmp", "rec_idx_bak", "recovered", "snapshot", "committed"} => Backup = Missing
    /\ pc \in {"rec_drop", "rec_promote", "undo_csv_rename"} => IsList(Backup)
    /\ pc \in {"rec_promote", "undo_csv_rename"} => Active = Missing
    /\ Staging => Backup = Missing /\ (Active = Missing <=> purpose # "edit")
    /\ (InIndex("no") /\ pc \in Preparing) \/ pc \in {"bak_drop", "displace", "install"} =>
         csv["tmp"] = rows
    /\ pc = "install" => Active = Missing /\ (hadCsv <=> purpose = "edit")
    /\ Installed => Active = rows
    /\ Installed \/ pc \in {"install", "undo_csv"} => (Backup = Missing <=> purpose # "edit")
    /\ pc \in {"commit", "tmp_drop", "idx_tmp_drop", "tmp_open", "tmp_write", "bak_drop", "displace",
               "install", "select"} => rebuilds = "no"

\* A commit made by recover stores what there was; only a request edits.
RecoverInv ==
    /\ Committing /\ purpose # "edit" /\ pc # "committed" => LegacyList = rows
    /\ caller = "request" /\ (Recovering \/ (Committing /\ purpose # "edit")) =>
         {Active, Backup} \subseteq {before, spare, Missing}
    /\ caller = "request" /\ Committing /\ purpose # "edit" => rows = before
    /\ caller = "request" /\ pc = "recover" /\ NoList => LegacyList = before
    /\ pc = "snapshot" => caller = "request"

\* An index that was cut short is never installed.
IndexInv ==
    /\ index["active"] # Partial /\ index["bak"] # Partial
    /\ pc \in {"bak_drop", "displace", "install", "inst_drop", "inst_keep", "inst_rename"} =>
         index["tmp"] \in Positions

\* The inductive invariant.
IInv == TypeOK /\ KeptInv /\ StageInv /\ IndexInv /\ RecoverInv

\* No fault in this call so far; at most one.
Unfailed == faults = callFaults
FailedOnce == faults <= callFaults + 1
CountInv == callFaults <= faults

\* An index on its way in is the one of its list, and what commit leaves
\* behind is known: a success has no other copies.
BuildInv ==
    /\ pc \in {"bak_drop", "displace", "install", "inst_drop", "inst_keep", "inst_rename"} =>
         index["tmp"] = Len(IF rebuilds = "no" THEN rows ELSE Active)
    /\ pc \in {"rec_csv_tmp", "rec_csv_bak", "rec_idx_tmp", "rec_idx_bak", "recovered", "snapshot",
               "inst_check", "reb_drop", "select", "idx_bak_drop", "csv_bak_drop", "committed"} =>
         ValidIndex(Active, index["active"])
    /\ InIndex("rollback") => IsList(Active)
    /\ Installed \/ pc = "committed" => csv["tmp"] = Missing /\ Active = rows
    /\ pc = "reb_drop" => rebuilds # "no"
    /\ pc = "undo_index_rename" => index["bak"] # Missing
    /\ pc \in {"select", "idx_bak_drop", "csv_bak_drop", "committed"}
         \/ (pc = "inst_check" /\ rebuilds = "no") => index["tmp"] = Missing
    /\ pc \in {"csv_bak_drop", "committed"} => index["bak"] = Missing

\* The arguments of commit, and who may change the list.
CallInv ==
    /\ pc = "commit" => current <= Len(rows)
    /\ pc # "invalid" /\ answer # "INVALID"
    /\ purpose = "edit" => caller = "request" /\ pc # "off"
    /\ pc = "start" => caller = "boot"
    /\ undoing = "cleanup" =>
         pc \in UndoPcs \cup {"io_error", "unrecovered"} \/ InIndex("rollback")

\* Until the first change of a list that was never there, everything that
\* names a position or a length is about the old firmware's playlist.
UneditedInv ==
    /\ NoList \/ (Committing /\ purpose # "edit") =>
         /\ {index["active"], index["bak"]} \subseteq {Len(LegacyList), Missing}
         /\ {ram, flash, previousCurrent, command, loading} \subseteq 0 .. Len(LegacyList)
    /\ Committing /\ purpose # "edit" => current \in 0 .. Len(LegacyList)

\* The old list and its index are in place, or have a copy, as long as no
\* operation of the request has failed.
OldListInv ==
    caller = "request" /\ Unfailed =>
        /\ pc = "recover" => Effective = before
        /\ pc \in {"rec_drop", "rec_promote"} => Backup = before
        /\ (Serving /\ pc # "committed") \/ (purpose = "edit" /\ Staging) => Active = before
        /\ purpose = "edit" /\ Staging => ValidIndex(Active, index["active"])
        /\ purpose = "edit" /\ (Installed \/ pc = "install") => Backup = before

\* After the first failure they come back, unless the undoing fails too.
UndoInv ==
    purpose = "edit" /\ FailedOnce =>
        /\ pc \in {"undo_csv", "undo_csv_rename"} \/ (pc = "inst_back" /\ rebuilds = "no") =>
             Backup = before
        /\ pc \in {"undo_index", "undo_index_rename", "undo_check"} => restored /\ Active = before
        /\ InIndex("rollback") => Active = before
        /\ pc \in {"rolled_back", "io_error", "no_space"} =>
             Active = before /\ ValidIndex(Active, index["active"])

\* Only a failure is undone, and who is answered finds a whole index.
FailureInv ==
    /\ pc \in UndoPcs \cup {"io_error", "no_space"} \/ InIndex("rollback") => ~Unfailed
    /\ pc \in {"start", "ready"} /\ answer # "READ_FAILED" /\ FailedOnce =>
         ValidIndex(Active, index["active"])
    /\ pc = "inst_back" => ~Unfailed /\ (rebuilds = "rollback" => ~FailedOnce)

\* Where the old selection is: in RAM, or with commit, which puts it back.
Selected == pc \in {"idx_bak_drop", "csv_bak_drop", "committed"}
ChoiceInv ==
    caller = "request" /\ ~touched =>
        /\ Selected => ram = current /\ flash = current
        /\ pc \in {"idx_bak_drop", "csv_bak_drop"} \/ undoing = "cleanup" => previousCurrent = beforeSel
        /\ Committing /\ purpose # "edit" => current = beforeSel
        /\ undoing = "install" /\ ~Selected /\ pc \notin {"off", "start", "ready"} => ram = beforeSel
        /\ undoing = "cleanup" /\ pc = "io_error" /\ FailedOnce => ram = beforeSel

\* The position a change asks for is the one of the station it was.
Follows(list, position) ==
    beforeSel \in DOMAIN before /\ before[beforeSel] \in Elements(list) =>
        list[position] = before[beforeSel]
FollowInv ==
    caller = "request" /\ purpose = "edit" /\ Committing /\ ~touched /\ spare = Missing =>
        Follows(rows, current)

\* Whatever fails and whenever the power is cut, the list a recovery ends
\* with is the one from before the last request or the one it was asked to
\* store (or the rollback copy an earlier failure had left beside the list),
\* and never a part of one, a mixture or nothing.
ListKept == Effective \in {before, rows, spare}

\* A request is told the truth: OK means the new list, its index and the
\* new position are in place and no other copy is left; a failure, when one
\* operation failed, means the old list and the old position are.  INVALID is
\* never heard: the handlers ask for positions of the list they store.
AnswersTrue ==
    Free /\ caller = "request" =>
        /\ answer # "INVALID"
        /\ answer = "OK" =>
             /\ csv = [NoFiles EXCEPT !["active"] = rows]
             /\ index = [NoFiles EXCEPT !["active"] = Len(rows)]
             /\ touched \/ (ram = current /\ flash = current)
        /\ answer \in Failures /\ FailedOnce =>
             csv["active"] = before /\ (touched \/ ram = beforeSel)

\* No reader, who opens list and index without a recovery, finds an index
\* of another list: unless a second operation fails in the same call.
IndexFollows ==
    Free /\ answer # "READ_FAILED" /\ FailedOnce =>
        ValidIndex(csv["active"], index["active"])

\* The selected station stays selected while the list changes around it, if
\* the recovery at the head of the request had no other list to go back to.
SelectionFollows ==
    /\ Free /\ answer = "OK" /\ caller = "request" /\ ~touched
    /\ spare = Missing /\ beforeSel \in DOMAIN before
    => \/ before[beforeSel] \notin Elements(rows)
       \/ rows[ram] = before[beforeSel]

\* What a request may rely on; with IInv, inductive.
RequestInv ==
    /\ CountInv /\ BuildInv /\ CallInv /\ UneditedInv /\ OldListInv /\ UndoInv /\ FailureInv
    /\ ChoiceInv /\ FollowInv /\ AnswersTrue /\ SelectionFollows

-----------------------------------------------------------------------------
(* A change of the list is one step                                        *)

\* No list is unreadable when a recovery begins, and no operation fails once
\* the new list is installed; until then any may.
Trusted == pc = "recover" \/ Installed => NoFault \/ pc' = pc

\* The update of a request is under way until its list is in its place.
Updating == purpose = "edit" /\ (Staging \/ pc = "install")
Update == INSTANCE AtomicUpdate WITH
    Values <- Lists, NoTarget <- Partial,
    value <- Effective, target <- IF Updating THEN rows ELSE Partial

\* A request implements AtomicUpdate: whatever fails until the new list is
\* installed and wherever the power is cut, the list a recovery ends with
\* changes in one step, from the old one to the one asked for, and stays
\* through migrations, rollbacks and rebuilds (recover and commit).
ListAtomic == Update!Spec

\* Then a list only goes that is not there, and no installed index is undone.
GoneInv ==
    /\ pc \in {"rec_drop", "undo_csv"} => Active = Missing
    /\ pc = "inst_back" => rebuilds # "no"
=============================================================================
