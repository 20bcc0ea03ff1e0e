------------------------------ MODULE WifiFiles ------------------------------
(***************************************************************************)
(* The three SPIFFS files that hold the Wi-Fi credentials and the three    *)
(* procedures of wifi_config_atomic.h that work on them: replace, recover  *)
(* and rollbackFirstBoot.  Every storage operation is one step, so that a  *)
(* power cut may fall between any two, and every operation may fail.  A    *)
(* module that EXTENDS this one decides who calls a procedure and when.    *)
(***************************************************************************)
EXTENDS Naturals, Sequences

CONSTANTS
    Payloads,    \* the valid, non-empty credential files
    Empty,       \* a file of length 0
    Partial,     \* a file cut short by a failed write, or an unreadable one
    Missing,     \* there is no such file
    MaxFaults    \* bound on the number of storage operations that fail

ASSUME ContentsDistinct ==
    /\ Empty \notin Payloads /\ Partial \notin Payloads /\ Missing \notin Payloads
    /\ Empty # Partial /\ Empty # Missing /\ Partial # Missing
ASSUME MaxFaultsNat == MaxFaults \in Nat

Paths == {"active", "tmp", "old"}
Contents == Payloads \cup {Empty, Partial, Missing}

VARIABLES
    files,    \* what SPIFFS holds: Paths -> Contents
    wpc,      \* the next operation of the running procedure
    wop,      \* which procedure runs
    wdata,    \* replace: the new file; rollback: the file the journal names
    wok,      \* recover's local "recovered"
    whad,     \* replace's local "hadActive"
    wtodo,    \* rollback: the files still to be removed, in order
    wsource,  \* rollback: the file that becomes the active one, or "none"
    wret,     \* the value the last procedure returned
    faults    \* storage operations that have failed so far

locals == <<wop, wdata, wok, whad, wtodo, wsource>>
wvars == <<files, wpc, locals, wret, faults>>

RecoverPcs == {"recover", "recover_drop", "recover_clear", "recover_promote", "recover_tmp"}
ReplacePcs == {"write_open", "write", "displace", "install", "confirm",
               "drop_old", "restore_clear", "restore_rename", "discard"}
RollbackPcs == {"rb_inspect", "rb_remove", "rb_recreate", "rb_promote", "rb_confirm"}
Rollbacks == {"rollback_missing", "rollback_empty"}

WifiTypeOK ==
    /\ files \in [Paths -> Contents]
    /\ wpc \in RecoverPcs \cup ReplacePcs \cup RollbackPcs \cup {"idle", "returned"}
    /\ wop \in {"none", "replace", "recover"} \cup Rollbacks
    /\ wpc \in RecoverPcs => wop \in {"replace", "recover"}
    /\ wpc \in ReplacePcs => wop = "replace"
    /\ wpc \in RollbackPcs => wop \in Rollbacks
    /\ wdata \in Payloads
    /\ wok \in BOOLEAN /\ whad \in BOOLEAN /\ wret \in BOOLEAN
    /\ wtodo \in Seq(Paths)
    /\ wsource \in {"tmp", "old", "new", "none"}
    /\ wpc = "rb_promote" => wsource \in {"tmp", "old"}
    /\ faults \in 0 .. MaxFaults

WifiInit ==
    /\ files \in {[p \in Paths |-> IF p = "active" THEN c ELSE Missing] : c \in {Missing, Empty}}
    /\ wpc = "idle" /\ wop = "none"
    /\ wdata \in Payloads
    /\ wok = TRUE /\ whad = FALSE /\ wret = FALSE
    /\ wtodo = <<>> /\ wsource = "none"
    /\ faults = 0

-----------------------------------------------------------------------------
(* The storage layer: SPIFFS through WifiSpiffsStorage.                    *)

Valid(c) == c \in Payloads \/ c = Empty
Exists(p) == files[p] # Missing

Fault == faults < MaxFaults /\ faults' = faults + 1
NoFault == faults' = faults

Keep == files' = files
Put(p, c) == files' = [files EXCEPT ![p] = c]
Remove(p) == Put(p, Missing)
Rename(p, q) == files' = [files EXCEPT ![q] = files[p], ![p] = Missing]

\* An existing file may come back unreadable: at most one per step.
Misreads(read) == {p \in read : Exists(p)} \cup {"none"}
Reading(bad) == IF bad = "none" THEN NoFault ELSE Fault
Seen(p, bad) == IF p = bad THEN Partial ELSE files[p]

At(pc) == wpc = pc /\ UNCHANGED locals
Return(b) == wpc' = "returned" /\ wret' = b
Goto(pc) == IF pc = "fail" THEN Return(FALSE) ELSE wpc' = pc /\ wret' = wret

\* One operation, where to go when it works and where when it fails.
RemoveThen(p, next, failed) ==
    \/ Remove(p) /\ NoFault /\ Goto(next)
    \/ Exists(p) /\ Keep /\ Fault /\ Goto(failed)
RenameThen(p, q, next, failed) ==
    \/ Rename(p, q) /\ NoFault /\ Goto(next)
    \/ Keep /\ Fault /\ Goto(failed)

-----------------------------------------------------------------------------
(* recover(storage), run at every boot and at the head of replace.         *)

\* Seeded defect: the active file is not cleared before the rename.
RecoverChoice_RenameOver(active, old) ==
    IF old = Missing THEN "recover_tmp"
    ELSE IF Valid(active) THEN "recover_drop"
    ELSE IF Valid(old) THEN "recover_promote"
    ELSE "recover_tmp"

\* What recover does about the rollback file, given what it read.
RecoverChoice(active, old) ==
    IF old = Missing THEN "recover_tmp"
    ELSE IF Valid(active) THEN "recover_drop"
    ELSE IF Valid(old) THEN "recover_clear"
    ELSE "recover_tmp"

\* Its result: FALSE when the credentials that are left cannot be used.
RecoverVerdict(active, old) ==
    Valid(active) \/ Valid(old) \/ (active = Missing /\ old = Missing)

RecoverInspect ==
    /\ wpc = "recover" /\ Keep
    /\ UNCHANGED <<wop, wdata, whad, wtodo, wsource>>
    /\ \E bad \in Misreads({"active", "old"}) :
         /\ Reading(bad)
         /\ Goto(RecoverChoice(Seen("active", bad), Seen("old", bad)))
         /\ wok' = RecoverVerdict(Seen("active", bad), Seen("old", bad))

RecoverDrop == At("recover_drop") /\ RemoveThen("old", "recover_tmp", "fail")

RecoverClear == At("recover_clear") /\ RemoveThen("active", "recover_promote", "fail")

\* The promoted file is read back: that read may fail after the rename.
RecoverPromote ==
    /\ At("recover_promote")
    /\ \/ RenameThen("old", "active", "recover_tmp", "fail")
       \/ Rename("old", "active") /\ Fault /\ Return(FALSE)

RecoverTmp ==
    /\ At("recover_tmp")
    /\ \/ /\ Remove("tmp") /\ NoFault
          /\ IF wop = "replace" /\ wok THEN Goto("write_open") ELSE Return(wok)
       \/ Exists("tmp") /\ Keep /\ Fault /\ Return(FALSE)

RecoverStep == RecoverInspect \/ RecoverDrop \/ RecoverClear \/ RecoverPromote \/ RecoverTmp

-----------------------------------------------------------------------------
(* replace(storage, bytes, size), from the write of the temporary file on. *)

\* SPIFFS.open(path, "w") truncates or creates the file before any data.
WriteOpen ==
    /\ At("write_open")
    /\ \/ Put("tmp", Empty) /\ NoFault /\ Goto("write")
       \/ Keep /\ Fault /\ Goto("discard")

\* Seeded defect: what was written is installed without being verified.
WriteData_Unverified ==
    /\ At("write")
    /\ \/ Put("tmp", wdata) /\ NoFault /\ Goto("displace")
       \/ (\E c \in {Empty, Partial, wdata} : Put("tmp", c)) /\ Fault /\ Goto("displace")

\* The data, then matches and valid: any failure discards the file.
WriteData ==
    /\ At("write")
    /\ \/ Put("tmp", wdata) /\ NoFault /\ Goto("displace")
       \/ (\E c \in {Empty, Partial, wdata} : Put("tmp", c)) /\ Fault /\ Goto("discard")

Displace ==
    /\ wpc = "displace"
    /\ UNCHANGED <<wop, wdata, wok, wtodo, wsource>>
    /\ whad' = Exists("active")
    /\ \/ ~Exists("active") /\ Keep /\ NoFault /\ Goto("install")
       \/ Exists("active") /\ RenameThen("active", "old", "install", "discard")

Install == At("install") /\ RenameThen("tmp", "active", "confirm", "restore_clear")

Confirm ==
    /\ At("confirm") /\ Keep
    /\ \E bad \in Misreads({"active"}) :
         /\ Reading(bad)
         /\ Goto(IF Seen("active", bad) = wdata THEN "drop_old" ELSE "restore_clear")

\* Seeded defect: the rollback file may stay and the save still succeeds.
DropOld_Tolerant ==
    /\ At("drop_old")
    /\ \/ Remove("old") /\ NoFault /\ Return(~Exists("tmp"))
       \/ Exists("old") /\ Keep /\ Fault /\ Return(TRUE)

DropOld ==
    /\ At("drop_old")
    /\ \/ Remove("old") /\ NoFault /\ Return(~Exists("tmp"))
       \/ Exists("old") /\ Keep /\ Fault /\ Goto("restore_clear")

\* restoreOld: its result is ignored, and every failure ends it.
RestoreClear ==
    /\ At("restore_clear")
    /\ IF whad /\ ~Exists("old") THEN Keep /\ NoFault /\ Goto("discard")
       ELSE RemoveThen("active", IF whad THEN "restore_rename" ELSE "discard", "discard")

RestoreRename == At("restore_rename") /\ RenameThen("old", "active", "discard", "discard")

Discard == At("discard") /\ RemoveThen("tmp", "fail", "fail")

ReplaceStep ==
    \/ WriteOpen \/ WriteData \/ Displace \/ Install \/ Confirm \/ DropOld
    \/ RestoreClear \/ RestoreRename \/ Discard

-----------------------------------------------------------------------------
(* rollbackFirstBoot(storage, priorEmpty, size, crc).                      *)

\* inspectFirstBootFile on what a read of the file returned.
Inspect(c, scratch) ==
    IF c = Missing THEN "missing"
    ELSE IF c = Empty THEN "baseline"
    ELSE IF c = wdata THEN "candidate"
    ELSE IF scratch THEN "scratch" ELSE "unexpected"

\* Which files to remove, in order, and which to make the active one; "new"
\* stands for an empty file to be written first.  None when it gives up.
Plan(todo, source) == [todo |-> todo, source |-> source]
Plans(active, tmp, old) ==
    IF "unexpected" \in {active, old} THEN {}
    ELSE IF wop = "rollback_missing"
    THEN IF "baseline" \in {active, old} THEN {}
         ELSE {Plan(<<"tmp", "old", "active">>, "none")}
    ELSE IF active = "baseline" THEN {Plan(<<"tmp", "old">>, "none")}
    ELSE IF old = "baseline" THEN {Plan(<<"active", "tmp">>, "old")}
    ELSE IF tmp = "baseline" THEN {Plan(<<"active", "old">>, "tmp")}
    ELSE {Plan(<<"tmp", "old", "active">>, "new")}

RollbackInspect ==
    /\ wpc = "rb_inspect" /\ Keep
    /\ UNCHANGED <<wop, wdata, wok, whad>>
    /\ \E bad \in Misreads(Paths) :
         LET plans == Plans(Inspect(Seen("active", bad), FALSE),
                            Inspect(Seen("tmp", bad), TRUE),
                            Inspect(Seen("old", bad), FALSE))
         IN  /\ Reading(bad)
             /\ \/ plans = {} /\ Return(FALSE) /\ UNCHANGED <<wtodo, wsource>>
                \/ \E plan \in plans :
                     Goto("rb_remove") /\ wtodo' = plan.todo /\ wsource' = plan.source

RollbackRemove ==
    /\ wpc = "rb_remove" /\ wtodo # <<>>
    /\ UNCHANGED <<wop, wdata, wok, whad, wsource>>
    /\ wtodo' = Tail(wtodo)
    /\ RemoveThen(Head(wtodo), "rb_remove", "fail")

RollbackRemoved ==
    /\ At("rb_remove") /\ wtodo = <<>>
    /\ Keep /\ NoFault
    /\ Goto(CASE wsource = "none" -> "rb_confirm"
              [] wsource = "new" -> "rb_recreate"
              [] OTHER -> "rb_promote")

\* The empty baseline is written anew when no copy of it is left.
RollbackRecreate ==
    /\ wpc = "rb_recreate"
    /\ UNCHANGED <<wop, wdata, wok, whad, wtodo>>
    /\ wsource' = "tmp"
    /\ \/ Put("tmp", Empty) /\ NoFault /\ Goto("rb_promote")
       \/ (Keep \/ Put("tmp", Empty)) /\ Fault /\ Return(FALSE)

RollbackPromote == At("rb_promote") /\ RenameThen(wsource, "active", "rb_confirm", "fail")

RollbackConfirm ==
    /\ At("rb_confirm") /\ Keep
    /\ \E bad \in Misreads({"active"}) :
         /\ Reading(bad)
         /\ Return(/\ ~Exists("tmp") /\ ~Exists("old")
                   /\ IF wop = "rollback_missing" THEN ~Exists("active")
                      ELSE Seen("active", bad) = Empty)

RollbackStep ==
    \/ RollbackInspect \/ RollbackRemove \/ RollbackRemoved
    \/ RollbackRecreate \/ RollbackPromote \/ RollbackConfirm

-----------------------------------------------------------------------------

WifiStep == RecoverStep \/ ReplaceStep \/ RollbackStep

\* A caller enters a procedure, which runs until wpc is "returned".
Call(op, entry, data) ==
    /\ wpc = "idle"
    /\ wop' = op /\ wpc' = entry /\ wdata' = data
    /\ UNCHANGED <<files, wok, whad, wtodo, wsource, wret, faults>>

CallReplace(data) == Call("replace", "recover", data)
CallRecover == Call("recover", "recover", wdata)
CallRollback(priorEmpty, data) ==
    Call(IF priorEmpty THEN "rollback_empty" ELSE "rollback_missing", "rb_inspect", data)

\* The caller takes the result and goes on.
Returned == wpc = "returned" /\ wpc' = "idle" /\ UNCHANGED <<files, locals, wret>>

\* Power is cut: only the files survive.
LoseRam ==
    /\ wpc' = "idle" /\ wop' = "none"
    /\ UNCHANGED <<files, wdata, wok, whad, wtodo, wsource, wret, faults>>

-----------------------------------------------------------------------------
(* What recover would make of the files f if it ran now without a fault.   *)
Effective(f) ==
    IF f["old"] = Missing \/ Valid(f["active"]) \/ ~Valid(f["old"])
    THEN f["active"] ELSE f["old"]

\* SPIFFS refuses to rename onto an existing file, and to rename a missing one.
RenameAllowed(p, q) == Exists(p) /\ ~Exists(q)
=============================================================================
