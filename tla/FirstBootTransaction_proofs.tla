--------------------- MODULE FirstBootTransaction_proofs ---------------------
(***************************************************************************)
(* The safety properties of the FIRST BOOT transaction, for every set of   *)
(* credentials and hardware configurations, any number of failing storage  *)
(* operations and any number of power cuts.                                *)
(***************************************************************************)
EXTENDS FirstBootInvariant, SequenceTheorems, TLAPS

-----------------------------------------------------------------------------
(* The Wi-Fi storage procedures                                            *)

\* A storage operation that names a file keeps the files well typed.
LEMMA FilesTyped ==
    ASSUME WifiTypeOK, NEW p \in Paths, NEW q \in Paths, NEW c \in Contents
    PROVE  /\ Put(p, c) => files' \in [Paths -> Contents]
           /\ Remove(p) => files' \in [Paths -> Contents]
           /\ Rename(p, q) => files' \in [Paths -> Contents]
           /\ Keep => files' \in [Paths -> Contents]
BY DEF WifiTypeOK, Put, Remove, Rename, Keep, Contents

\* The bound on failing operations is kept by every operation.
LEMMA FaultsTyped ==
    ASSUME WifiTypeOK, Fault \/ NoFault
    PROVE  faults' \in 0 .. MaxFaults
BY MaxFaultsNat DEF WifiTypeOK, Fault, NoFault

\* recover keeps the type invariant.
LEMMA RecoverTyped ==
    ASSUME WifiTypeOK, RecoverStep
    PROVE  WifiTypeOK'
<1> USE DEF RecoverPcs, ReplacePcs, RollbackPcs, Rollbacks, locals, Goto, Return
<1>1. CASE RecoverInspect
  <2>1. PICK bad \in Misreads({"active", "old"}) :
          /\ Reading(bad)
          /\ Goto(RecoverChoice(Seen("active", bad), Seen("old", bad)))
          /\ wok' = RecoverVerdict(Seen("active", bad), Seen("old", bad))
    BY <1>1 DEF RecoverInspect
  <2>2. faults' \in 0 .. MaxFaults
    BY <2>1, FaultsTyped DEF Reading
  <2>3. RecoverChoice(Seen("active", bad), Seen("old", bad)) \in
          {"recover_tmp", "recover_drop", "recover_clear"}
    BY DEF RecoverChoice
  <2>4. wok' \in BOOLEAN
    BY <2>1 DEF RecoverVerdict, Valid
  <2> QED
    BY <1>1, <2>1, <2>2, <2>3, <2>4 DEF RecoverInspect, Keep, WifiTypeOK
<1>2. CASE RecoverDrop
  BY <1>2, FilesTyped, FaultsTyped DEF RecoverDrop, RemoveThen, At, Paths, Contents, WifiTypeOK
<1>3. CASE RecoverClear
  BY <1>3, FilesTyped, FaultsTyped DEF RecoverClear, RemoveThen, At, Paths, Contents, WifiTypeOK
<1>4. CASE RecoverPromote
  BY <1>4, FilesTyped, FaultsTyped DEF RecoverPromote, RenameThen, At, Paths, Contents, WifiTypeOK
<1>5. CASE RecoverTmp
  BY <1>5, FilesTyped, FaultsTyped DEF RecoverTmp, At, Paths, Contents, WifiTypeOK
<1> QED
  BY <1>1, <1>2, <1>3, <1>4, <1>5 DEF RecoverStep

\* replace keeps the type invariant.
LEMMA ReplaceTyped ==
    ASSUME WifiTypeOK, ReplaceStep
    PROVE  WifiTypeOK'
<1> USE DEF RecoverPcs, ReplacePcs, RollbackPcs, Rollbacks, locals, Goto, Return
<1>1. CASE WriteOpen
  BY <1>1, FilesTyped, FaultsTyped DEF WriteOpen, At, Paths, Contents, WifiTypeOK
<1>2. CASE WriteData
  <2>1. files' \in [Paths -> Contents]
    BY <1>2, FilesTyped DEF WriteData, WifiTypeOK, Paths, Contents
  <2> QED
    BY <1>2, <2>1, FaultsTyped DEF WriteData, At, WifiTypeOK
<1>3. CASE Displace
  BY <1>3, FilesTyped, FaultsTyped DEF Displace, RenameThen, Exists, Paths, Contents, WifiTypeOK
<1>4. CASE Install
  BY <1>4, FilesTyped, FaultsTyped DEF Install, RenameThen, At, Paths, Contents, WifiTypeOK
<1>5. CASE Confirm
  <2>1. faults' \in 0 .. MaxFaults
    BY <1>5, FaultsTyped DEF Confirm, Reading
  <2> QED
    BY <1>5, <2>1 DEF Confirm, Keep, At, WifiTypeOK
<1>6. CASE DropOld
  BY <1>6, FilesTyped, FaultsTyped DEF DropOld, Exists, At, Paths, Contents, WifiTypeOK
<1>7. CASE RestoreClear
  BY <1>7, FilesTyped, FaultsTyped DEF RestoreClear, RemoveThen, At, Paths, Contents, WifiTypeOK
<1>8. CASE RestoreRename
  BY <1>8, FilesTyped, FaultsTyped DEF RestoreRename, RenameThen, At, Paths, Contents, WifiTypeOK
<1>9. CASE Discard
  BY <1>9, FilesTyped, FaultsTyped DEF Discard, RemoveThen, At, Paths, Contents, WifiTypeOK
<1> QED
  BY <1>1, <1>2, <1>3, <1>4, <1>5, <1>6, <1>7, <1>8, <1>9 DEF ReplaceStep

\* Whatever rollbackFirstBoot decides, it removes and renames known files.
LEMMA PlansTyped ==
    ASSUME NEW active, NEW tmp, NEW old, NEW way \in Plans(active, tmp, old)
    PROVE  way.todo \in Seq(Paths) /\ way.source \in {"tmp", "old", "new", "none"}
<1>1. /\ <<"tmp", "old", "active">> \in Seq(Paths)
      /\ <<"tmp", "old">> \in Seq(Paths)
      /\ <<"active", "tmp">> \in Seq(Paths)
      /\ <<"active", "old">> \in Seq(Paths)
  BY DEF Paths
<1>2. way \in {Plan(<<"tmp", "old", "active">>, "none"), Plan(<<"tmp", "old">>, "none"),
                Plan(<<"active", "tmp">>, "old"), Plan(<<"active", "old">>, "tmp"),
                Plan(<<"tmp", "old", "active">>, "new")}
  BY Zenon DEF Plans
<1>3. ASSUME NEW todo \in Seq(Paths), NEW source \in {"tmp", "old", "new", "none"},
             way = Plan(todo, source)
      PROVE  way.todo \in Seq(Paths) /\ way.source \in {"tmp", "old", "new", "none"}
  <2>1. way.todo = todo /\ way.source = source
    BY <1>3 DEF Plan
  <2> QED
    BY <2>1
<1>4. CASE way = Plan(<<"tmp", "old", "active">>, "none")
  BY <1>1, <1>3, <1>4
<1>5. CASE way = Plan(<<"tmp", "old">>, "none")
  BY <1>1, <1>3, <1>5
<1>6. CASE way = Plan(<<"active", "tmp">>, "old")
  BY <1>1, <1>3, <1>6
<1>7. CASE way = Plan(<<"active", "old">>, "tmp")
  BY <1>1, <1>3, <1>7
<1>8. CASE way = Plan(<<"tmp", "old", "active">>, "new")
  BY <1>1, <1>3, <1>8
<1> QED
  BY <1>2, <1>4, <1>5, <1>6, <1>7, <1>8

\* rollbackFirstBoot keeps the type invariant.
LEMMA RollbackTyped ==
    ASSUME WifiTypeOK, RollbackStep
    PROVE  WifiTypeOK'
<1> USE DEF RecoverPcs, ReplacePcs, RollbackPcs, Rollbacks, locals, Goto, Return
<1>1. CASE RollbackInspect
  <2>1. PICK bad \in Misreads(Paths) :
          LET ways == Plans(Inspect(Seen("active", bad), FALSE),
                            Inspect(Seen("tmp", bad), TRUE),
                            Inspect(Seen("old", bad), FALSE))
          IN  /\ Reading(bad)
              /\ \/ ways = {} /\ Return(FALSE) /\ UNCHANGED <<wtodo, wsource>>
                 \/ \E way \in ways :
                      Goto("rb_remove") /\ wtodo' = way.todo /\ wsource' = way.source
    BY <1>1 DEF RollbackInspect
  <2> DEFINE ways == Plans(Inspect(Seen("active", bad), FALSE),
                           Inspect(Seen("tmp", bad), TRUE),
                           Inspect(Seen("old", bad), FALSE))
  <2>2. \A way \in ways :
          way.todo \in Seq(Paths) /\ way.source \in {"tmp", "old", "new", "none"}
    BY PlansTyped
  <2>3. wtodo' \in Seq(Paths) /\ wsource' \in {"tmp", "old", "new", "none"}
    BY <2>1, <2>2 DEF WifiTypeOK
  <2>4. faults' \in 0 .. MaxFaults
    BY <2>1, FaultsTyped DEF Reading
  <2>5. wpc' \in {"returned", "rb_remove"} /\ wret' \in BOOLEAN
    BY <2>1 DEF WifiTypeOK
  <2> HIDE DEF ways
  <2> QED
    BY <1>1, <2>3, <2>4, <2>5 DEF RollbackInspect, Keep, WifiTypeOK
<1>2. CASE RollbackRemove
  <2>1. Head(wtodo) \in Paths /\ wtodo' \in Seq(Paths)
    BY <1>2, HeadTailProperties DEF RollbackRemove, WifiTypeOK
  <2> QED
    BY <1>2, <2>1, FilesTyped, FaultsTyped
    DEF RollbackRemove, RemoveThen, Contents, WifiTypeOK
<1>3. CASE RollbackRemoved
  BY <1>3, FaultsTyped DEF RollbackRemoved, At, Keep, WifiTypeOK
<1>4. CASE RollbackRecreate
  BY <1>4, FilesTyped, FaultsTyped DEF RollbackRecreate, Paths, Contents, WifiTypeOK
<1>5. CASE RollbackPromote
  BY <1>5, FilesTyped, FaultsTyped DEF RollbackPromote, RenameThen, At, Paths, Contents, WifiTypeOK
<1>6. CASE RollbackConfirm
  <2>1. faults' \in 0 .. MaxFaults
    BY <1>6, FaultsTyped DEF RollbackConfirm, Reading
  <2> QED
    BY <1>6, <2>1 DEF RollbackConfirm, Keep, At, WifiTypeOK
<1> QED
  BY <1>1, <1>2, <1>3, <1>4, <1>5, <1>6 DEF RollbackStep

\* A storage operation of any procedure keeps the type invariant.
LEMMA WifiStepTyped ==
    ASSUME WifiTypeOK, WifiStep
    PROVE  WifiTypeOK'
BY RecoverTyped, ReplaceTyped, RollbackTyped DEF WifiStep

\* So do the calls, the return, a power cut, and steps of other components.
LEMMA WifiCallsTyped ==
    ASSUME WifiTypeOK, NEW data \in Payloads, NEW empty \in BOOLEAN
    PROVE  /\ CallReplace(data) => WifiTypeOK'
           /\ CallRecover => WifiTypeOK'
           /\ CallRollback(empty, data) => WifiTypeOK'
           /\ LoseRam => WifiTypeOK'
           /\ Returned /\ faults' \in 0 .. MaxFaults => WifiTypeOK'
           /\ UNCHANGED <<files, wpc, locals, wret>> /\ faults' \in 0 .. MaxFaults => WifiTypeOK'
           /\ UNCHANGED wvars => WifiTypeOK'
BY DEF CallReplace, CallRecover, CallRollback, Call, LoseRam, Returned, locals, wvars,
       RecoverPcs, ReplacePcs, RollbackPcs, Rollbacks, WifiTypeOK

\* A procedure only takes steps while it has been called and not returned.
LEMMA StepsRun ==
    ASSUME WifiStep
    PROVE  wpc \notin {"idle", "returned"}
BY DEF WifiStep, RecoverStep, RecoverInspect, RecoverDrop, RecoverClear, RecoverPromote, RecoverTmp,
       ReplaceStep, WriteOpen, WriteData, Displace, Install, Confirm, DropOld, RestoreClear,
       RestoreRename, Discard, RollbackStep, RollbackInspect, RollbackRemove, RollbackRemoved,
       RollbackRecreate, RollbackPromote, RollbackConfirm, At

-----------------------------------------------------------------------------
(* Type correctness                                                        *)

\* Operations that leave the Wi-Fi files alone keep their types.
LEMMA WifiIdleTyped ==
    ASSUME WifiTypeOK, WifiIdle, Fault \/ NoFault \/ faults' = faults
    PROVE  WifiTypeOK'
BY FaultsTyped DEF WifiIdle, locals, NoFault, WifiTypeOK, RecoverPcs, ReplacePcs, RollbackPcs

\* So does the caller's return from a Wi-Fi procedure.
LEMMA WifiReturnedTyped ==
    ASSUME WifiTypeOK, Returned, Fault \/ NoFault \/ faults' = faults
    PROVE  WifiTypeOK'
BY FaultsTyped DEF Returned, locals, NoFault, WifiTypeOK, RecoverPcs, ReplacePcs, RollbackPcs

\* Every step of commit keeps the types.
LEMMA CommitTyped ==
    ASSUME TypeOK, CommitStep
    PROVE  TypeOK'
<1> USE DEF nvs, ram, choice, history, Fail
<1>0. WifiTypeOK
  BY DEF TypeOK
<1>1. ASSUME NEW phase \in Phases, NEW next \in PCs, WriteJournal(phase, next)
      PROVE  TypeOK'
  <2>1. WifiTypeOK'
    BY <1>0, <1>1, WifiIdleTyped DEF WriteJournal
  <2>2. Journaled(phase) \in Journals
    BY DEF Journaled, Journals, TypeOK
  <2>3. journal' \in Journals \cup {NoRecord} /\ pc' \in PCs /\ result' \in Results
    BY <1>1, <2>2 DEF WriteJournal, TypeOK, PCs, Results
  <2> QED
    BY <1>1, <2>1, <2>3 DEF WriteJournal, TypeOK
<1>2. CASE WriteHardware
  <2>1. WifiTypeOK'
    BY <1>0, <1>2, WifiIdleTyped DEF WriteHardware
  <2>2. plan.candHw \in HwConfigs \cup {NoRecord}
    BY DEF TypeOK, Journals
  <2> QED
    BY <1>2, <2>1, <2>2 DEF WriteHardware, TypeOK, PCs, Results
<1>3. CASE WriteWifi
  <2>1. plan.wifi \in Payloads
    BY DEF TypeOK, Journals
  <2>2. WifiTypeOK'
    BY <1>0, <1>3, <2>1, WifiCallsTyped DEF WriteWifi
  <2> QED
    BY <1>3, <2>2 DEF WriteWifi, TypeOK, PCs
<1>4. CASE WifiWritten
  <2>1. WifiTypeOK'
    BY <1>0, <1>4, WifiReturnedTyped DEF WifiWritten
  <2> QED
    BY <1>4, <2>1 DEF WifiWritten, TypeOK, PCs, Results
<1>5. CASE CompleteSecurity
  <2>1. WifiTypeOK'
    BY <1>0, <1>5, WifiIdleTyped DEF CompleteSecurity
  <2> QED
    BY <1>5, <2>1 DEF CompleteSecurity, TypeOK, PCs, Results, SecStates
<1>6. CASE Finalize
  <2>1. WifiTypeOK'
    BY <1>0, <1>6, WifiIdleTyped DEF Finalize
  <2> QED
    BY <1>6, <2>1 DEF Finalize, TypeOK, PCs, Results
<1> QED
  BY <1>1, <1>2, <1>3, <1>4, <1>5, <1>6 DEF CommitStep, Phases, PCs

\* Every step of recover keeps the types: what it reads from the journal
\* exists, because recover ends at once when there is none.
LEMMA UndoTyped ==
    ASSUME TypeOK, UndoStage, UndoStep
    PROVE  TypeOK'
<1> USE DEF nvs, ram, choice, history, UndoFrame, UndoContinues, UndoEnds, UndoFails, Undone
<1>0. WifiTypeOK
  BY DEF TypeOK
<1>1. CASE UndoBegin
  <2>1. WifiTypeOK'
    BY <1>0, <1>1, WifiIdleTyped DEF UndoBegin
  <2> QED
    BY <1>1, <2>1 DEF UndoBegin, TypeOK, PCs, Results
<1>2. CASE UndoSecurity
  <2>1. WifiTypeOK'
    BY <1>0, <1>2, WifiIdleTyped DEF UndoSecurity
  <2> QED
    BY <1>2, <2>1 DEF UndoSecurity, TypeOK, PCs, Results
<1>3. CASE UndoWifi
  <2>1. journal \in Journals
    BY <1>3 DEF UndoWifi, TypeOK, UndoStage, UndoPcs
  <2>2. journal.wifi \in Payloads /\ (journal.priorWifi = Empty) \in BOOLEAN
    BY <2>1 DEF Journals
  <2>3. WifiTypeOK'
    BY <1>0, <1>3, <2>2, WifiCallsTyped DEF UndoWifi
  <2> QED
    BY <1>3, <2>3 DEF UndoWifi, TypeOK, PCs
<1>4. CASE WifiUndone
  <2>1. WifiTypeOK'
    BY <1>0, <1>4, WifiReturnedTyped DEF WifiUndone
  <2> QED
    BY <1>4, <2>1 DEF WifiUndone, TypeOK, PCs, Results
<1>5. CASE UndoHardware
  <2>1. WifiTypeOK'
    BY <1>0, <1>5, WifiIdleTyped DEF UndoHardware
  <2>2. journal.priorHw \in HwConfigs \cup {NoRecord}
    BY <1>5 DEF UndoHardware, TypeOK, UndoStage, UndoPcs, Journals
  <2> QED
    BY <1>5, <2>1, <2>2 DEF UndoHardware, TypeOK, PCs, Results
<1>6. CASE UndoJournal
  <2>1. WifiTypeOK'
    BY <1>0, <1>6, WifiIdleTyped DEF UndoJournal
  <2> QED
    BY <1>6, <2>1 DEF UndoJournal, TypeOK, PCs, Results
<1> QED
  BY <1>1, <1>2, <1>3, <1>4, <1>5, <1>6 DEF UndoStep

\* The boot, the synchronisation and the storage operations keep the types.
LEMMA BootTyped ==
    ASSUME TypeOK, Synchronize \/ BootStep \/ WifiRuns \/ PowerCut
    PROVE  TypeOK'
<1> USE DEF nvs, ram, choice, history
<1>0. WifiTypeOK /\ HwInUse \in HwConfigs
  BY HwAssumption DEF TypeOK, HwInUse
<1>00. \A configured : SecurityBegin(configured) \in SecStates
  BY DEF SecurityBegin, SecStates
<1>1. CASE Synchronize
  <2>1. WifiTypeOK'
    BY <1>0, <1>1, WifiIdleTyped DEF Synchronize
  <2>2. /\ secRam' \in SecStates /\ result' \in Results
        /\ wifiReady' \in BOOLEAN /\ blocked' \in BOOLEAN /\ hwRam' \in HwConfigs
    BY <1>0, <1>00, <1>1, HwAssumption DEF Synchronize, TypeOK, Results, SecStates
  <2> QED
    BY <1>1, <2>1, <2>2 DEF Synchronize, TypeOK, PCs
<1>2. CASE BootJournal
  <2>1. WifiTypeOK'
    BY <1>0, <1>2, WifiIdleTyped DEF BootJournal
  <2> QED
    BY <1>2, <2>1 DEF BootJournal, TypeOK, PCs, Results
<1>3. CASE BootHardware
  <2>1. WifiTypeOK'
    BY <1>0, <1>3, WifiIdleTyped DEF BootHardware
  <2> QED
    BY <1>0, <1>3, <2>1, HwAssumption DEF BootHardware, TypeOK, PCs
<1>4. CASE BootConfig
  <2>1. WifiTypeOK'
    BY <1>0, <1>4, WifiIdleTyped, WifiCallsTyped DEF BootConfig, WifiTypeOK
  <2> QED
    BY <1>4, <2>1 DEF BootConfig, TypeOK, PCs
<1>5. CASE BootWifi
  <2>1. WifiTypeOK'
    BY <1>0, <1>5, WifiReturnedTyped DEF BootWifi
  <2> QED
    BY <1>0, <1>5, <2>1 DEF BootWifi, TypeOK, PCs, WifiTypeOK
<1>6. CASE BootNetwork
  <2>1. WifiTypeOK'
    BY <1>0, <1>6, WifiIdleTyped DEF BootNetwork
  <2> QED
    BY <1>00, <1>6, <2>1 DEF BootNetwork, TypeOK, PCs, SecStates
<1>7. CASE WifiRuns
  <2>1. WifiTypeOK'
    BY <1>0, <1>7, WifiStepTyped DEF WifiRuns
  <2> QED
    BY <1>7, <2>1 DEF WifiRuns, TypeOK
<1>8. CASE PowerCut
  <2>1. WifiTypeOK'
    BY <1>0, <1>8, WifiCallsTyped DEF PowerCut, WifiTypeOK
  <2>2. faults' \in 0 .. MaxFaults /\ crashes' \in 0 .. MaxCrashes
    BY <1>0, <1>8, MaxCrashesNat DEF PowerCut, LoseRam, WifiTypeOK, TypeOK
  <2> QED
    BY <1>0, <1>8, <2>1, <2>2, HwAssumption
    DEF PowerCut, TypeOK, PCs, Results, SecStates, WifiTypeOK
<1> QED
  BY <1>1, <1>2, <1>3, <1>4, <1>5, <1>6, <1>7, <1>8 DEF BootStep

\* So does a request from the portal.
LEMMA RequestTyped ==
    ASSUME TypeOK, Request
    PROVE  TypeOK'
<1>1. PICK request \in HwConfigs, data \in Payloads : StartCommit(request, data)
  BY DEF Request
<1>2. WifiTypeOK'
  BY <1>1, WifiIdleTyped DEF StartCommit, TypeOK
<1>3. plan' \in Journals
  BY <1>1 DEF StartCommit, Journals, Phases, TypeOK
<1>4. writeHw' \in BOOLEAN /\ asked' \in HwConfigs
  BY <1>1 DEF StartCommit, WritesHardware
<1> QED
  BY <1>1, <1>2, <1>3, <1>4 DEF StartCommit, TypeOK, nvs, history, PCs, Results

-----------------------------------------------------------------------------
(* The inductive invariant                                                 *)

\* The stage of the transaction that each step of commit reaches.
LEMMA CommitInductive ==
    ASSUME IInv, CommitStep
    PROVE  IInv'
<1> USE DEF nvs, ram, choice, history, Fail, CommitPcs, UndoPcs
<1>0. TypeOK' /\ WifiTypeOK /\ TypeOK
  BY CommitTyped DEF IInv, TypeOK
<1>1. ASSUME NEW phase \in Phases, NEW next \in {"hardware", "wifi", "security", "finalize"},
             <<phase, next>> \in {<<"prepared", "hardware">>, <<"hardware_written", "wifi">>,
                                <<"wifi_written", "security">>, <<"security_written", "finalize">>},
             WriteJournal(phase, next)
      PROVE  IInv'
  <2> USE DEF WriteJournal, WifiIdle, locals
  <2>1. Journaled(phase) \in Journals /\ Journaled(phase) # NoRecord
        /\ Journaled(phase) = Journaled(Journaled(phase).phase)
    BY <1>0, NoRecordIsNone DEF Journaled, Journals, TypeOK
  <2>2. UNCHANGED <<files, wpc, wop, wdata, wtodo, wsource, wret, hw, sec, plan, writeHw, asked, hwRam, blocked, bootFaults>>
    BY <1>1
  <2>3. JournalNamesPlan'
    BY <1>1, <2>1, <2>2 DEF IInv, JournalNamesPlan, Journaled
  <2>4. Settled' /\ Recoverable'
    BY <1>1, <2>1, <2>2, HwAssumption DEF IInv, Settled, Recoverable, CommitStage, BaselineFiles,
       CandidateFiles, FilesAre, Configured
  <2>5. CommitStage' /\ UndoStage' /\ BootStage'
    BY <1>1, <2>1, <2>2 DEF IInv, CommitStage, UndoStage, BootStage, BaselineFiles, CandidateFiles,
       FilesAre
  <2>6. HardwareStage'
    BY <1>0, <1>1, <2>1, <2>2 DEF IInv, HardwareStage, CandidateHw, HwInUse, Fault, NoFault, TypeOK, WifiTypeOK
  <2> QED
    BY <1>0, <2>3, <2>4, <2>5, <2>6 DEF IInv
<1>2. CASE WriteHardware
  <2>1. UNCHANGED <<files, wpc, wop, wdata, wtodo, wsource, wret, sec, journal, plan, writeHw, asked, hwRam, blocked, bootFaults>>
    BY <1>2 DEF WriteHardware, WifiIdle, locals
  <2>2. /\ JournalNamesPlan' /\ Settled' /\ Recoverable'
        /\ CommitStage' /\ UndoStage' /\ BootStage'
    BY <1>2, <2>1 DEF WriteHardware, IInv, JournalNamesPlan, Journaled, Settled, Recoverable, CommitStage,
       UndoStage, BootStage, BaselineFiles, CandidateFiles, FilesAre, Configured
  <2>3. HardwareStage'
    BY <1>0, <1>2, <2>1 DEF WriteHardware, IInv, HardwareStage, CandidateHw, HwInUse, Fault, NoFault,
       TypeOK, WifiTypeOK
  <2> QED
    BY <1>0, <2>2, <2>3 DEF IInv
<1>3. CASE WriteWifi
  <2>1. UNCHANGED <<files, wtodo, wsource, wret, faults, hw, sec, journal, plan, writeHw, asked, hwRam, result, blocked, bootFaults>>
        /\ wpc' = "recover" /\ wop' = "replace" /\ wdata' = plan.wifi /\ pc' = "wifi_running" /\ pc = "wifi"
    BY <1>3 DEF WriteWifi, CallReplace, Call
  <2>2. /\ JournalNamesPlan' /\ Settled' /\ Recoverable'
        /\ UndoStage' /\ BootStage' /\ HardwareStage'
    BY <2>1 DEF IInv, JournalNamesPlan, Journaled, Settled, Recoverable, HardwareStage, CandidateHw, HwInUse,
       UndoStage, BootStage, BaselineFiles, CandidateFiles, FilesAre, Configured
  <2>3. CommitStage'
    BY <2>1 DEF IInv, CommitStage, Replacing, BaselineFiles, FilesAre
  <2> QED
    BY <1>0, <2>2, <2>3 DEF IInv
<1>4. CASE WifiWritten
  <2>1. UNCHANGED <<files, wop, wdata, wtodo, wsource, wret, hw, sec, journal, plan, writeHw, asked, hwRam, blocked, bootFaults>>
    BY <1>4 DEF WifiWritten, Returned, locals
  <2>2. /\ JournalNamesPlan' /\ Settled' /\ Recoverable'
        /\ CommitStage' /\ UndoStage' /\ BootStage'
    BY <1>4, <2>1 DEF WifiWritten, Returned, IInv, JournalNamesPlan, Journaled, Settled, Recoverable, CommitStage,
       UndoStage, BootStage, Replacing, BaselineFiles, CandidateFiles, FilesAre, Configured
  <2>3. HardwareStage'
    BY <1>0, <1>4, <2>1 DEF WifiWritten, IInv, HardwareStage, CandidateHw, HwInUse, Fault, NoFault,
       TypeOK, WifiTypeOK
  <2> QED
    BY <1>0, <2>2, <2>3 DEF IInv
<1>5. CASE CompleteSecurity
  <2>1. UNCHANGED <<files, wpc, wop, wdata, wtodo, wsource, wret, hw, journal, plan, writeHw, asked, hwRam, blocked, bootFaults>>
    BY <1>5 DEF CompleteSecurity, WifiIdle, locals
  <2>2. /\ JournalNamesPlan' /\ Settled' /\ Recoverable'
        /\ CommitStage' /\ UndoStage' /\ BootStage'
    BY <1>5, <2>1 DEF CompleteSecurity, IInv, JournalNamesPlan, Journaled, Settled, Recoverable, CommitStage,
       UndoStage, BootStage, BaselineFiles, CandidateFiles, FilesAre, Configured
  <2>3. HardwareStage'
    BY <1>0, <1>5, <2>1 DEF CompleteSecurity, IInv, HardwareStage, CandidateHw, HwInUse, Fault, NoFault,
       TypeOK, WifiTypeOK
  <2> QED
    BY <1>0, <2>2, <2>3 DEF IInv
<1>6. CASE Finalize
  <2>1. UNCHANGED <<files, wpc, wop, wdata, wtodo, wsource, wret, hw, sec, plan, writeHw, asked, hwRam, blocked, bootFaults>>
    BY <1>6 DEF Finalize, WifiIdle, locals
  <2>2. /\ JournalNamesPlan' /\ Recoverable'
        /\ CommitStage' /\ UndoStage' /\ BootStage'
    BY <1>6, <2>1 DEF Finalize, IInv, JournalNamesPlan, Journaled, Recoverable, CommitStage,
       UndoStage, BootStage, BaselineFiles, CandidateFiles, FilesAre
  <2>3. plan.wifi \in Payloads /\ plan.wifi # Partial
    BY <1>0, ContentsDistinct DEF TypeOK, Journals
  <2>4. Settled'
    BY <1>6, <2>1, <2>3 DEF Finalize, IInv, Settled, CommitStage, CandidateFiles, FilesAre, Configured
  <2>5. HardwareStage'
    BY <1>0, <1>6, <2>1 DEF Finalize, IInv, HardwareStage, CommitStage, CandidateHw, HwInUse, Fault, NoFault,
       TypeOK, WifiTypeOK
  <2> QED
    BY <1>0, <2>2, <2>4, <2>5 DEF IInv
<1> QED
  BY <1>1, <1>2, <1>3, <1>4, <1>5, <1>6 DEF CommitStep, Phases

\* What recover reads from a stored journal is what commit planned.
LEMMA JournalFields ==
    ASSUME TypeOK, JournalNamesPlan, journal # NoRecord
    PROVE  /\ journal.priorHw = plan.priorHw /\ journal.candHw = plan.candHw
           /\ journal.priorWifi = plan.priorWifi /\ journal.wifi = plan.wifi
BY DEF JournalNamesPlan, Journaled, TypeOK, Journals

\* The stage that each step of recover reaches.
LEMMA UndoInductive ==
    ASSUME IInv, UndoStep
    PROVE  IInv'
<1> USE DEF nvs, ram, choice, history, UndoFrame, UndoContinues, UndoEnds, UndoFails, Undone,
            CommitPcs, UndoPcs
<1>0. TypeOK' /\ WifiTypeOK /\ TypeOK
  BY UndoTyped DEF IInv, TypeOK
<1>1. CASE UndoBegin
  <2>1. UNCHANGED <<files, wpc, wop, wdata, wtodo, wsource, wret, hw, sec, journal, plan, writeHw, asked, hwRam, bootFaults>>
    BY <1>1 DEF UndoBegin, WifiIdle, locals
  <2>2. /\ JournalNamesPlan' /\ Settled' /\ Recoverable'
        /\ CommitStage' /\ UndoStage' /\ BootStage'
    BY <1>1, <2>1 DEF UndoBegin, IInv, JournalNamesPlan, Journaled, Settled, Recoverable, CommitStage,
       UndoStage, BootStage, BaselineFiles, CandidateFiles, FilesAre, Configured
  <2>3. HardwareStage'
    BY <1>0, <1>1, <2>1 DEF UndoBegin, IInv, UndoStage, HardwareStage, CandidateHw, HwInUse, Fault, NoFault,
       TypeOK, WifiTypeOK
  <2> QED
    BY <1>0, <2>2, <2>3 DEF IInv
<1>2. CASE UndoSecurity
  <2>1. UNCHANGED <<files, wpc, wop, wdata, wtodo, wsource, wret, hw, journal, plan, writeHw, asked, hwRam, bootFaults>>
    BY <1>2 DEF UndoSecurity, WifiIdle, locals
  <2>2. /\ JournalNamesPlan' /\ Settled' /\ Recoverable'
        /\ CommitStage' /\ UndoStage' /\ BootStage'
    BY <1>2, <2>1, HwAssumption DEF UndoSecurity, IInv, JournalNamesPlan, Journaled, Settled, Recoverable, CommitStage,
       UndoStage, BootStage, BaselineFiles, CandidateFiles, FilesAre, Configured
  <2>3. HardwareStage'
    BY <1>0, <1>2, <2>1 DEF UndoSecurity, IInv, UndoStage, HardwareStage, CandidateHw, HwInUse, Fault, NoFault,
       TypeOK, WifiTypeOK
  <2> QED
    BY <1>0, <2>2, <2>3 DEF IInv
<1>3. CASE UndoWifi
  <2>1. /\ UNCHANGED <<files, wtodo, wsource, wret, faults, hw, sec, journal, plan, writeHw, asked, hwRam, result, blocked, bootFaults>>
        /\ wpc' = "rb_inspect" /\ wdata' = journal.wifi
        /\ wop' = IF journal.priorWifi = Empty THEN "rollback_empty" ELSE "rollback_missing"
        /\ pc' = "undo_wifi_running" /\ pc = "undo_wifi"
    BY <1>3 DEF UndoWifi, CallRollback, Call
  <2>2. /\ JournalNamesPlan' /\ Settled' /\ Recoverable'
        /\ CommitStage' /\ BootStage' /\ HardwareStage'
    BY <2>1 DEF IInv, JournalNamesPlan, Journaled, Settled, Recoverable, HardwareStage, CandidateHw, HwInUse,
       CommitStage, BootStage, BaselineFiles, CandidateFiles, FilesAre, Configured
  <2>3. journal # NoRecord
    BY <2>1 DEF IInv, UndoStage
  <2>4. RollingBack'
    BY <1>0, <2>1, <2>3, JournalFields DEF IInv, RollingBack, RollbackPcs
  <2>5. UndoStage'
    BY <2>1, <2>3, <2>4 DEF IInv, UndoStage
  <2> QED
    BY <1>0, <2>2, <2>5 DEF IInv
<1>4. CASE WifiUndone
  <2>1. UNCHANGED <<files, wop, wdata, wtodo, wsource, wret, hw, sec, journal, plan, writeHw, asked, hwRam, bootFaults>>
    BY <1>4 DEF WifiUndone, Returned, locals
  <2>2. /\ JournalNamesPlan' /\ Settled' /\ Recoverable'
        /\ CommitStage' /\ UndoStage' /\ BootStage'
    BY <1>4, <2>1 DEF WifiUndone, Returned, IInv, JournalNamesPlan, Journaled, Settled, Recoverable, CommitStage,
       UndoStage, BootStage, RollingBack, BaselineFiles, CandidateFiles, FilesAre, Configured
  <2>3. HardwareStage'
    BY <1>0, <1>4, <2>1 DEF WifiUndone, IInv, UndoStage, HardwareStage, CandidateHw, HwInUse, Fault, NoFault,
       TypeOK, WifiTypeOK
  <2> QED
    BY <1>0, <2>2, <2>3 DEF IInv
<1>5. CASE UndoHardware
  <2>1. UNCHANGED <<files, wpc, wop, wdata, wtodo, wsource, wret, sec, journal, plan, writeHw, asked, hwRam, bootFaults>>
    BY <1>5 DEF UndoHardware, WifiIdle, locals
  <2>2. journal # NoRecord /\ journal.priorHw = plan.priorHw
    BY <1>0, <1>5, JournalFields DEF UndoHardware, IInv, UndoStage
  <2>3. /\ JournalNamesPlan' /\ Settled' /\ Recoverable'
        /\ CommitStage' /\ UndoStage' /\ BootStage'
    BY <1>5, <2>1, <2>2, HwAssumption DEF UndoHardware, IInv, JournalNamesPlan, Journaled, Settled, Recoverable, CommitStage,
       UndoStage, BootStage, BaselineFiles, CandidateFiles, FilesAre, Configured
  <2>4. HardwareStage'
    BY <1>0, <1>5, <2>1 DEF UndoHardware, IInv, UndoStage, HardwareStage, CandidateHw, HwInUse, Fault, NoFault,
       TypeOK, WifiTypeOK
  <2> QED
    BY <1>0, <2>3, <2>4 DEF IInv
<1>6. CASE UndoJournal
  <2>1. UNCHANGED <<files, wpc, wop, wdata, wtodo, wsource, wret, hw, sec, plan, writeHw, asked, hwRam, bootFaults>>
    BY <1>6 DEF UndoJournal, WifiIdle, locals
  <2>2. /\ JournalNamesPlan' /\ Recoverable'
        /\ CommitStage' /\ UndoStage' /\ BootStage'
    BY <1>6, <2>1 DEF UndoJournal, IInv, JournalNamesPlan, Journaled, Recoverable, CommitStage,
       UndoStage, BootStage, BaselineFiles, CandidateFiles, FilesAre
  <2>3. plan.priorWifi \notin Payloads /\ plan.priorWifi # Partial
    BY <1>0, ContentsDistinct DEF TypeOK, Journals
  <2>4. Settled'
    BY <1>6, <2>1, <2>3, HwAssumption DEF UndoJournal, IInv, Settled, UndoStage, BaselineFiles, FilesAre, Configured
  <2>5. HardwareStage'
    BY <1>0, <1>6, <2>1 DEF UndoJournal, IInv, UndoStage, HardwareStage, CandidateHw, HwInUse, Fault, NoFault,
       TypeOK, WifiTypeOK
  <2> QED
    BY <1>0, <2>2, <2>4, <2>5 DEF IInv
<1> QED
  BY <1>1, <1>2, <1>3, <1>4, <1>5, <1>6 DEF UndoStep

-----------------------------------------------------------------------------
(* The Wi-Fi procedures, as the transaction uses them                      *)

\* The files stay within what rollback accepts.
RecoverableFiles ==
    /\ files["active"] \in {Missing, plan.priorWifi, plan.wifi}
    /\ files["old"] \in {Missing, plan.priorWifi}

\* What a storage operation does to each file.
LEMMA FileEffects ==
    ASSUME WifiTypeOK, NEW p \in Paths, NEW q \in Paths, NEW c
    PROVE  /\ Put(p, c) => \A r \in Paths : files'[r] = IF r = p THEN c ELSE files[r]
           /\ Remove(p) => \A r \in Paths : files'[r] = IF r = p THEN Missing ELSE files[r]
           /\ Rename(p, q) /\ p # q =>
                 \A r \in Paths : files'[r] = IF r = p THEN Missing
                                            ELSE IF r = q THEN files[p] ELSE files[r]
           /\ Keep => \A r \in Paths : files'[r] = files[r]
BY DEF WifiTypeOK, Put, Remove, Rename, Keep

\* Installing the candidate over the baseline: replace moves through the
\* stages of Replacing, and never leaves what rollback accepts.
LEMMA ReplaceRuns ==
    ASSUME WifiTypeOK, Replacing, RecoverableFiles, WifiStep,
           plan \in Journals, plan' = plan
    PROVE  Replacing' /\ RecoverableFiles' /\ wpc' # "idle"
<1> USE DEF Replacing, RecoverableFiles, BaselineFiles, CandidateFiles, FilesAre, ReplacePcs,
            Goto, Return, locals
<1>0. /\ "active" \in Paths /\ "tmp" \in Paths /\ "old" \in Paths
      /\ plan.priorWifi \in {Missing, Empty} /\ plan.wifi # Missing
  BY ContentsDistinct DEF Paths, Journals
<1>1. CASE RecoverInspect
  <2>1. PICK bad \in Misreads({"active", "old"}) :
          Goto(RecoverChoice(Seen("active", bad), Seen("old", bad)))
    BY <1>1 DEF RecoverInspect
  <2>2. Seen("old", bad) = Missing
    BY <1>1, <2>1 DEF RecoverInspect, Misreads, Exists, Seen
  <2>3. wpc' = "recover_tmp"
    BY <2>1, <2>2 DEF RecoverChoice
  <2> QED
    BY <1>1, <2>3 DEF RecoverInspect, Keep
<1>2. CASE RecoverTmp
  BY <1>0, <1>2, FileEffects DEF RecoverTmp, At, Exists
<1>3. CASE WriteOpen
  BY <1>0, <1>3, FileEffects DEF WriteOpen, At
<1>4. CASE WriteData
  <2>1. files'["active"] = files["active"] /\ files'["old"] = files["old"]
    BY <1>0, <1>4, FileEffects DEF WriteData
  <2>2. wpc' = "displace" => files'["tmp"] = wdata
    BY <1>0, <1>4, FileEffects DEF WriteData
  <2> QED
    BY <1>4, <2>1, <2>2 DEF WriteData, At
<1>5. CASE Displace
  BY <1>0, <1>5, FileEffects DEF Displace, RenameThen, Exists
<1>6. CASE Install
  BY <1>0, <1>6, FileEffects DEF Install, RenameThen, At
<1>7. CASE Confirm
  BY <1>0, <1>7, FileEffects DEF Confirm, At
<1>8. CASE DropOld
  BY <1>0, <1>8, FileEffects DEF DropOld, Exists, At
<1>9. CASE RestoreClear
  BY <1>0, <1>9, FileEffects DEF RestoreClear, RemoveThen, Exists, At
<1>10. CASE RestoreRename
  BY <1>0, <1>10, FileEffects DEF RestoreRename, RenameThen, At
<1>11. CASE Discard
  BY <1>0, <1>11, FileEffects DEF Discard, RemoveThen, At
<1>12. ~(RecoverDrop \/ RecoverClear \/ RecoverPromote \/ RollbackStep)
  BY DEF RecoverDrop, RecoverClear, RecoverPromote, RollbackStep, RollbackInspect, RollbackRemove,
         RollbackRemoved, RollbackRecreate, RollbackPromote, RollbackConfirm, At
<1> QED
  BY <1>1, <1>2, <1>3, <1>4, <1>5, <1>6, <1>7, <1>8, <1>9, <1>10, <1>11, <1>12
  DEF WifiStep, RecoverStep, ReplaceStep

\* The elements of the sequences rollback works through.
LEMMA ElementsOfPlans ==
    /\ Elements(<<"tmp", "old", "active">>) = {"tmp", "old", "active"}
    /\ Elements(<<"tmp", "old">>) = {"tmp", "old"}
    /\ Elements(<<"active", "tmp">>) = {"active", "tmp"}
    /\ Elements(<<"active", "old">>) = {"active", "old"}
BY DEF Elements

LEMMA ElementsOfTail ==
    ASSUME NEW S, NEW s \in Seq(S), s # <<>>
    PROVE  Elements(s) = {Head(s)} \cup Elements(Tail(s))
<1>1. /\ Len(s) \in Nat /\ Len(s) >= 1 /\ DOMAIN s = 1 .. Len(s)
      /\ Head(s) = s[1] /\ Len(Tail(s)) = Len(s) - 1 /\ DOMAIN Tail(s) = 1 .. Len(s) - 1
      /\ \A i \in 1 .. Len(s) - 1 : Tail(s)[i] = s[i + 1]
  BY HeadTailProperties, EmptySeq, LenProperties
<1>2. ASSUME NEW i \in 1 .. Len(s), i # 1
      PROVE  s[i] = Tail(s)[i - 1] /\ i - 1 \in 1 .. Len(s) - 1
  BY <1>1, <1>2
<1>3. ASSUME NEW x \in Elements(s)
      PROVE  x = Head(s) \/ x \in Elements(Tail(s))
  <2>1. PICK i \in 1 .. Len(s) : x = s[i]
    BY <1>1 DEF Elements
  <2> QED
    BY <1>1, <1>2, <2>1 DEF Elements
<1>4. Head(s) \in Elements(s)
  BY <1>1 DEF Elements
<1>5. ASSUME NEW x \in Elements(Tail(s))
      PROVE  x \in Elements(s)
  <2>1. PICK i \in 1 .. Len(s) - 1 : x = Tail(s)[i]
    BY <1>1 DEF Elements
  <2>2. x = s[i + 1] /\ i + 1 \in 1 .. Len(s)
    BY <1>1, <2>1
  <2> QED
    BY <1>1, <2>2 DEF Elements
<1> QED
  BY <1>3, <1>4, <1>5

\* Reading a file tells its state, unless the read fails.
LEMMA InspectReads ==
    ASSUME WifiTypeOK, NEW p \in Paths, NEW bad, NEW scratch \in BOOLEAN
    PROVE  /\ Inspect(Seen(p, bad), scratch) = "baseline" => files[p] = Empty
           /\ bad = "none" => Seen(p, bad) = files[p]
BY ContentsDistinct DEF Inspect, Seen, WifiTypeOK, Paths

\* The decisions of rollback, and what each is made on.
LEMMA PlanChoices ==
    ASSUME NEW active, NEW tmp, NEW old, NEW chosen \in Plans(active, tmp, old), wop \in Rollbacks
    PROVE  \/ wop = "rollback_missing" /\ chosen = Plan(<<"tmp", "old", "active">>, "none")
           \/ /\ wop = "rollback_empty" /\ active = "baseline"
              /\ chosen = Plan(<<"tmp", "old">>, "none")
           \/ /\ wop = "rollback_empty" /\ old = "baseline"
              /\ chosen = Plan(<<"active", "tmp">>, "old")
           \/ /\ wop = "rollback_empty" /\ tmp = "baseline"
              /\ chosen = Plan(<<"active", "old">>, "tmp")
           \/ wop = "rollback_empty" /\ chosen = Plan(<<"tmp", "old", "active">>, "new")
BY Zenon DEF Plans, Rollbacks

\* A decision of rollback keeps an empty file if there is one, and removes
\* the others; without a failing read it always reaches a decision.
LEMMA RollbackDecides ==
    ASSUME WifiTypeOK, RollingBack, RecoverableFiles, RollbackInspect,
           plan \in Journals, plan' = plan, bootFaults \in Nat, bootFaults <= faults,
           bootFaults' = bootFaults
    PROVE  RollingBack'
<1> USE DEF RollingBack, RecoverableFiles, locals
<1>0. /\ "active" \in Paths /\ "tmp" \in Paths /\ "old" \in Paths
      /\ plan.priorWifi \in {Missing, Empty} /\ plan.wifi \in Payloads
      /\ faults \in Nat
  BY ContentsDistinct DEF Paths, Journals, WifiTypeOK
<1> DEFINE active(bad) == Inspect(Seen("active", bad), FALSE)
           tmp(bad) == Inspect(Seen("tmp", bad), TRUE)
           old(bad) == Inspect(Seen("old", bad), FALSE)
<1>1. PICK bad \in Misreads(Paths) :
        /\ Reading(bad)
        /\ \/ Plans(active(bad), tmp(bad), old(bad)) = {} /\ Return(FALSE)
           \/ \E chosen \in Plans(active(bad), tmp(bad), old(bad)) :
                Goto("rb_remove") /\ wtodo' = chosen.todo /\ wsource' = chosen.source
  BY DEF RollbackInspect
<1>2. /\ wop' = wop /\ wdata' = wdata /\ files' = files
  BY DEF RollbackInspect, Keep
<1>3. CASE Plans(active(bad), tmp(bad), old(bad)) = {} /\ Return(FALSE)
  <2>1. CASE bad = "none"
    <3>1. active(bad) \in {"missing", "baseline", "candidate"}
          /\ old(bad) \in {"missing", "baseline", "candidate"}
          /\ (wop = "rollback_missing" => active(bad) # "baseline" /\ old(bad) # "baseline")
      BY <1>0, <2>1, ContentsDistinct DEF Inspect, Seen
    <3>2. Plans(active(bad), tmp(bad), old(bad)) # {}
      BY <3>1 DEF Plans
    <3> QED
      BY <1>3, <3>2
  <2>2. CASE bad # "none"
    BY <1>0, <1>1, <1>2, <1>3, <2>2 DEF Reading, Fault, Return
  <2> QED
    BY <2>1, <2>2
<1>4. CASE \E chosen \in Plans(active(bad), tmp(bad), old(bad)) :
             Goto("rb_remove") /\ wtodo' = chosen.todo /\ wsource' = chosen.source
  <2>1. wpc' = "rb_remove"
    BY <1>4 DEF Goto
  <2>2. \/ /\ wop = "rollback_missing"
           /\ wtodo' = <<"tmp", "old", "active">> /\ wsource' = "none"
        \/ /\ wop = "rollback_empty" /\ active(bad) = "baseline"
           /\ wtodo' = <<"tmp", "old">> /\ wsource' = "none"
        \/ /\ wop = "rollback_empty" /\ old(bad) = "baseline"
           /\ wtodo' = <<"active", "tmp">> /\ wsource' = "old"
        \/ /\ wop = "rollback_empty" /\ tmp(bad) = "baseline"
           /\ wtodo' = <<"active", "old">> /\ wsource' = "tmp"
        \/ /\ wop = "rollback_empty"
           /\ wtodo' = <<"tmp", "old", "active">> /\ wsource' = "new"
    <3>1. PICK chosen \in Plans(active(bad), tmp(bad), old(bad)) :
            wtodo' = chosen.todo /\ wsource' = chosen.source
      BY <1>4
    <3>2. wop \in Rollbacks
      BY DEF Rollbacks
    <3>3. \/ wop = "rollback_missing" /\ chosen = Plan(<<"tmp", "old", "active">>, "none")
          \/ /\ wop = "rollback_empty" /\ active(bad) = "baseline"
             /\ chosen = Plan(<<"tmp", "old">>, "none")
          \/ /\ wop = "rollback_empty" /\ old(bad) = "baseline"
             /\ chosen = Plan(<<"active", "tmp">>, "old")
          \/ /\ wop = "rollback_empty" /\ tmp(bad) = "baseline"
             /\ chosen = Plan(<<"active", "old">>, "tmp")
          \/ wop = "rollback_empty" /\ chosen = Plan(<<"tmp", "old", "active">>, "new")
      <4> HIDE DEF active, tmp, old
      <4> QED
        BY <3>2, PlanChoices
    <3>4. \A todo, source : /\ Plan(todo, source).todo = todo
                            /\ Plan(todo, source).source = source
      BY DEF Plan
    <3> HIDE DEF active, tmp, old
    <3> QED
      BY <3>1, <3>3, <3>4
  <2>3. /\ active(bad) = "baseline" => files["active"] = Empty
        /\ old(bad) = "baseline" => files["old"] = Empty
        /\ tmp(bad) = "baseline" => files["tmp"] = Empty
    BY <1>0, InspectReads
  <2> HIDE DEF active, tmp, old
  <2>4. /\ wop' = "rollback_missing" => wsource' = "none"
        /\ Kept' \in Paths => files[Kept'] = Empty /\ Kept' \notin ToRemove'
        /\ \A p \in Paths \ {Kept'} : p \in ToRemove'
    BY <1>2, <2>2, <2>3, ElementsOfPlans DEF Kept, ToRemove, Paths
  <2> QED
    BY <1>2, <2>1, <2>4 DEF RollbackPcs
<1> QED
  BY <1>1, <1>3, <1>4

\* Taking the files back to the baseline: every step of rollback leaves
\* fewer files to remove, and only a failing operation makes it give up.
LEMMA RollbackRuns ==
    ASSUME WifiTypeOK, RollingBack, RecoverableFiles, WifiStep,
           plan \in Journals, plan' = plan, bootFaults \in Nat, bootFaults <= faults,
           bootFaults' = bootFaults
    PROVE  RollingBack' /\ RecoverableFiles' /\ wpc' # "idle"
<1> USE DEF BaselineFiles, FilesAre, RollbackPcs, Goto, Return, locals
<1>0. /\ "active" \in Paths /\ "tmp" \in Paths /\ "old" \in Paths
      /\ plan.priorWifi \in {Missing, Empty} /\ plan.wifi \in Payloads
      /\ faults \in Nat /\ Empty # Missing
      /\ (Fault => faults' > bootFaults)
  BY ContentsDistinct DEF Paths, Journals, WifiTypeOK, Fault
<1>1. CASE RollbackInspect
  <2>1. RollingBack'
    BY <1>1, RollbackDecides
  <2>2. files' = files
    BY <1>1 DEF RollbackInspect, Keep
  <2> QED
    BY <2>1, <2>2 DEF RollingBack, RecoverableFiles
<1>2. CASE RollbackRemove
  <2> DEFINE p == Head(wtodo)
  <2>1. p \in Paths /\ ToRemove = {p} \cup ToRemove' /\ Kept' = Kept
    BY <1>2, ElementsOfTail, HeadTailProperties
    DEF RollbackRemove, WifiTypeOK, ToRemove, Kept
  <2>2. p # Kept
    BY <1>2, <2>1 DEF RollbackRemove, RollingBack
  <2>3. CASE Remove(p) /\ NoFault /\ wpc' = "rb_remove" /\ wret' = wret
    <3>1. \A r \in Paths : files'[r] = IF r = p THEN Missing ELSE files[r]
      BY <2>1, <2>3, FileEffects
    <3> QED
      BY <1>0, <1>2, <2>1, <2>2, <2>3, <3>1 DEF RollbackRemove, RollingBack, RecoverableFiles
  <2>4. CASE Keep /\ Fault /\ wpc' = "returned" /\ wret' = FALSE
    BY <1>0, <1>2, <2>4 DEF RollbackRemove, RollingBack, RecoverableFiles, Keep
  <2> QED
    BY <1>2, <2>3, <2>4 DEF RollbackRemove, RemoveThen
<1>3. CASE RollbackRemoved
  <2>1. ToRemove = {}
    BY <1>3 DEF RollbackRemoved, ToRemove, Elements
  <2>2. /\ UNCHANGED <<files, wop, wdata, wtodo, wsource>>
        /\ wpc = "rb_remove"
    BY <1>3 DEF RollbackRemoved, At, Keep
  <2>3. \A p \in Paths : files[p] = IF p = Kept THEN Empty ELSE Missing
    BY <2>1, <2>2 DEF RollingBack
  <2>4. CASE wsource = "none"
    <3>1. wpc' = "rb_confirm"
      BY <1>3, <2>4 DEF RollbackRemoved
    <3> QED
      BY <1>0, <2>2, <2>3, <2>4, <3>1 DEF RollingBack, RecoverableFiles, Kept
  <2>5. CASE wsource = "new"
    <3>1. wpc' = "rb_recreate"
      BY <1>3, <2>5 DEF RollbackRemoved
    <3> QED
      BY <1>0, <2>2, <2>3, <2>5, <3>1 DEF RollingBack, RecoverableFiles, Kept
  <2>6. CASE wsource \in {"tmp", "old"}
    <3>1. wpc' = "rb_promote"
      BY <1>3, <2>6 DEF RollbackRemoved
    <3> QED
      BY <1>0, <2>2, <2>3, <2>6, <3>1 DEF RollingBack, RecoverableFiles, Kept
  <2> QED
    BY <2>4, <2>5, <2>6 DEF WifiTypeOK
<1>4. CASE RollbackRecreate
  BY <1>0, <1>4, FileEffects DEF RollbackRecreate, RollingBack, RecoverableFiles, Paths
<1>5. CASE RollbackPromote
  <2>1. wsource \in {"tmp", "old"} /\ wsource \in Paths /\ wsource # "active"
    BY <1>5 DEF RollbackPromote, At, WifiTypeOK, Paths
  <2>2. CASE Rename(wsource, "active") /\ NoFault /\ wpc' = "rb_confirm" /\ wret' = wret
    <3>1. \A r \in Paths : files'[r] = IF r = wsource THEN Missing
                                      ELSE IF r = "active" THEN files[wsource] ELSE files[r]
      BY <1>0, <2>1, <2>2, FileEffects
    <3>2. FilesAre(Empty, Missing, Missing)'
      BY <1>0, <1>5, <2>1, <3>1 DEF RollbackPromote, At, RollingBack
    <3> QED
      BY <1>0, <1>5, <2>2, <3>2 DEF RollbackPromote, At, RollingBack, RecoverableFiles
  <2>3. CASE Keep /\ Fault /\ wpc' = "returned" /\ wret' = FALSE
    BY <1>0, <1>5, <2>3 DEF RollbackPromote, At, RollingBack, RecoverableFiles, Keep
  <2> QED
    BY <1>5, <2>2, <2>3 DEF RollbackPromote, RenameThen
<1>6. CASE RollbackConfirm
  <2>1. PICK bad \in Misreads({"active"}) :
          /\ Reading(bad)
          /\ Return(/\ ~Exists("tmp") /\ ~Exists("old")
                    /\ IF wop = "rollback_missing" THEN ~Exists("active")
                       ELSE Seen("active", bad) = Empty)
    BY <1>6 DEF RollbackConfirm
  <2>2. UNCHANGED <<files, wop, wdata, wtodo, wsource>> /\ BaselineFiles
    BY <1>6 DEF RollbackConfirm, At, Keep, RollingBack
  <2>3. CASE bad = "none"
    <3>1. wret'
      BY <1>0, <2>1, <2>2, <2>3 DEF Exists, Seen, RollingBack
    <3> QED
      BY <2>1, <2>2, <3>1 DEF RollingBack, RecoverableFiles
  <2>4. CASE bad # "none"
    BY <1>0, <2>1, <2>2, <2>4 DEF Reading, RollingBack, RecoverableFiles
  <2> QED
    BY <2>3, <2>4
<1>7. ~RecoverStep /\ ~ReplaceStep
  BY DEF RollingBack, RecoverStep, RecoverInspect, RecoverDrop, RecoverClear, RecoverPromote,
         RecoverTmp, ReplaceStep, WriteOpen, WriteData, Displace, Install, Confirm, DropOld,
         RestoreClear, RestoreRename, Discard, At
<1> QED
  BY <1>1, <1>2, <1>3, <1>4, <1>5, <1>6, <1>7 DEF WifiStep, RollbackStep

\* At boot, with no journal stored, recover finds nothing to repair.
LEMMA RecoverRuns ==
    ASSUME WifiTypeOK, wop = "recover", wpc \in {"recover", "recover_tmp", "returned"},
           FilesAre(files["active"], Missing, Missing), WifiStep
    PROVE  /\ wop' = "recover" /\ wpc' \in {"recover", "recover_tmp", "returned"}
           /\ FilesAre(files["active"], Missing, Missing)'
           /\ files'["active"] = files["active"]
<1> USE DEF FilesAre, Goto, Return, locals
<1>0. "active" \in Paths /\ "tmp" \in Paths /\ "old" \in Paths
  BY DEF Paths
<1>1. CASE RecoverInspect
  <2>1. PICK bad \in Misreads({"active", "old"}) :
          Goto(RecoverChoice(Seen("active", bad), Seen("old", bad)))
    BY <1>1 DEF RecoverInspect
  <2>2. Seen("old", bad) = Missing
    BY <1>1, <2>1 DEF RecoverInspect, Misreads, Exists, Seen
  <2>3. wpc' = "recover_tmp"
    BY <2>1, <2>2 DEF RecoverChoice
  <2> QED
    BY <1>1, <2>3 DEF RecoverInspect, Keep
<1>2. CASE RecoverTmp
  BY <1>0, <1>2, FileEffects DEF RecoverTmp, At, Exists
<1>3. ~RollbackStep /\ ~ReplaceStep /\ ~RecoverDrop /\ ~RecoverClear /\ ~RecoverPromote
  BY DEF RollbackStep, RollbackInspect, RollbackRemove, RollbackRemoved, RollbackRecreate,
         RollbackPromote, RollbackConfirm, ReplaceStep, WriteOpen, WriteData, Displace, Install,
         Confirm, DropOld, RestoreClear, RestoreRename, Discard, At, RecoverDrop, RecoverClear,
         RecoverPromote
<1> QED
  BY <1>1, <1>2, <1>3 DEF WifiStep, RecoverStep

\* A storage operation fails at most once, and never takes a failure back.
LEMMA FaultsGrow ==
    ASSUME WifiTypeOK, WifiStep
    PROVE  faults <= faults'
<1>1. faults \in Nat /\ (Fault => faults' = faults + 1) /\ (NoFault => faults' = faults)
  BY DEF WifiTypeOK, Fault, NoFault
<1>2. Fault \/ NoFault
  BY DEF WifiStep, RecoverStep, RecoverInspect, RecoverDrop, RecoverClear, RecoverPromote, RecoverTmp,
         ReplaceStep, WriteOpen, WriteData, Displace, Install, Confirm, DropOld, RestoreClear,
         RestoreRename, Discard, RollbackStep, RollbackInspect, RollbackRemove, RollbackRemoved,
         RollbackRecreate, RollbackPromote, RollbackConfirm, RemoveThen, RenameThen, Reading
<1> QED
  BY <1>1, <1>2

\* The running Wi-Fi procedure preserves the invariant of its caller.
LEMMA WifiInductive ==
    ASSUME IInv, WifiRuns
    PROVE  IInv'
<1> USE DEF nvs, ram, choice, history, CommitPcs, UndoPcs
<1>0. TypeOK' /\ WifiTypeOK /\ TypeOK /\ WifiStep
  BY BootTyped DEF IInv, TypeOK, WifiRuns
<1>1. UNCHANGED <<hw, sec, journal, plan, writeHw, asked, hwRam, result, blocked, bootFaults, pc>>
  BY DEF WifiRuns
<1>2. wpc \notin {"idle", "returned"}
  BY <1>0, StepsRun
<1>3. JournalNamesPlan'
  BY <1>1 DEF IInv, JournalNamesPlan, Journaled
<1>4. HardwareStage'
  <2>1. faults <= faults' /\ faults \in Nat /\ faults' \in Nat /\ bootFaults \in Nat
    BY <1>0, FaultsGrow DEF TypeOK, WifiTypeOK
  <2> QED
    BY <1>1, <2>1 DEF IInv, HardwareStage, CandidateHw, HwInUse
<1>5. CASE pc = "wifi_running"
  <2>1. RecoverableFiles /\ Replacing /\ sec = NoRecord /\ journal # NoRecord
    BY <1>5 DEF IInv, CommitStage, Recoverable, RecoverableFiles
  <2>2. RecoverableFiles' /\ Replacing' /\ wpc' # "idle"
    BY <1>0, <1>1, <2>1, ReplaceRuns DEF TypeOK
  <2>3. Settled' /\ Recoverable'
    BY <1>1, <2>1, <2>2, HwAssumption DEF IInv, Settled, Recoverable, RecoverableFiles
  <2>4. CommitStage' /\ UndoStage' /\ BootStage'
    BY <1>1, <1>5, <2>1, <2>2 DEF IInv, CommitStage, UndoStage, BootStage
  <2> QED
    BY <1>0, <1>3, <1>4, <2>3, <2>4 DEF IInv
<1>6. CASE pc = "undo_wifi_running"
  <2>1. RecoverableFiles /\ RollingBack /\ sec = NoRecord /\ journal # NoRecord
    BY <1>6 DEF IInv, UndoStage, Recoverable, RecoverableFiles
  <2>2. bootFaults \in Nat /\ bootFaults <= faults
    BY <1>0 DEF IInv, HardwareStage, TypeOK
  <2>3. RecoverableFiles' /\ RollingBack' /\ wpc' # "idle"
    BY <1>0, <1>1, <2>1, <2>2, RollbackRuns DEF TypeOK
  <2>4. Settled' /\ Recoverable'
    BY <1>1, <2>1, <2>3, HwAssumption DEF IInv, Settled, Recoverable, RecoverableFiles
  <2>5. CommitStage' /\ UndoStage' /\ BootStage'
    BY <1>1, <1>6, <2>1, <2>3 DEF IInv, CommitStage, UndoStage, BootStage
  <2> QED
    BY <1>0, <1>3, <1>4, <2>4, <2>5 DEF IInv
<1>7. CASE pc = "boot_wifi"
  <2>1. /\ wop = "recover" /\ wpc \in {"recover", "recover_tmp", "returned"}
        /\ journal = NoRecord /\ FilesAre(files["active"], Missing, Missing)
    BY <1>7 DEF IInv, BootStage, Settled
  <2>2. /\ wop' = "recover" /\ wpc' \in {"recover", "recover_tmp", "returned"}
        /\ FilesAre(files["active"], Missing, Missing)'
        /\ files'["active"] = files["active"]
    BY <1>0, <2>1, RecoverRuns
  <2>3. Settled' /\ Recoverable'
    BY <1>1, <2>1, <2>2 DEF IInv, Settled, Recoverable, Configured
  <2>4. CommitStage' /\ UndoStage' /\ BootStage'
    BY <1>1, <1>7, <2>1, <2>2 DEF IInv, CommitStage, UndoStage, BootStage
  <2> QED
    BY <1>0, <1>3, <1>4, <2>3, <2>4 DEF IInv
<1> QED
  BY <1>2, <1>5, <1>6, <1>7 DEF IInv, BootStage

\* The steps of the boot, the synchronisation and a power cut: none of them
\* writes a store, so only the stage and the RAM state move.
LEMMA BootInductive ==
    ASSUME IInv, Synchronize \/ BootStep \/ PowerCut
    PROVE  IInv'
<1> USE DEF nvs, ram, choice, history, CommitPcs, UndoPcs
<1>0. TypeOK' /\ WifiTypeOK /\ TypeOK /\ faults \in Nat /\ bootFaults \in Nat
  BY BootTyped DEF IInv, TypeOK, WifiTypeOK
<1>1. UNCHANGED <<files, wdata, wtodo, wsource, wret, hw, sec, journal, plan, writeHw, asked>>
  BY DEF Synchronize, BootStep, BootJournal, BootHardware, BootConfig, BootWifi, BootNetwork, PowerCut,
         WifiIdle, locals, CallRecover, Call, Returned, LoseRam
<1>2. JournalNamesPlan' /\ Settled' /\ Recoverable'
  BY <1>1 DEF IInv, JournalNamesPlan, Journaled, Settled, Recoverable, CandidateFiles, FilesAre,
     Configured
<1>3. Fault => faults' = faults + 1
  BY DEF Fault
<1>4. CASE Synchronize
  <2>1. CommitStage' /\ UndoStage' /\ BootStage'
    BY <1>1, <1>4 DEF Synchronize, WifiIdle, locals, IInv, CommitStage, UndoStage, BootStage
  <2>2. HardwareStage'
    BY <1>0, <1>1, <1>3, <1>4 DEF Synchronize, IInv, HardwareStage, CandidateHw, HwInUse, NoFault
  <2> QED
    BY <1>0, <1>2, <2>1, <2>2 DEF IInv
<1>5. CASE BootJournal
  <2>1. CommitStage' /\ UndoStage' /\ BootStage'
    BY <1>1, <1>5 DEF BootJournal, WifiIdle, locals, IInv, CommitStage, UndoStage, BootStage
  <2>2. HardwareStage'
    BY <1>0, <1>1, <1>3, <1>5 DEF BootJournal, IInv, HardwareStage, CandidateHw, HwInUse, NoFault
  <2> QED
    BY <1>0, <1>2, <2>1, <2>2 DEF IInv
<1>6. CASE BootHardware
  <2>1. CommitStage' /\ UndoStage' /\ BootStage'
    BY <1>1, <1>6 DEF BootHardware, WifiIdle, locals, IInv, CommitStage, UndoStage, BootStage
  <2>2. HardwareStage'
    BY <1>0, <1>1, <1>3, <1>6 DEF BootHardware, IInv, HardwareStage, CandidateHw, HwInUse, NoFault
  <2> QED
    BY <1>0, <1>2, <2>1, <2>2 DEF IInv
<1>7. CASE BootConfig
  <2>1. /\ pc = "boot_config" /\ UNCHANGED <<hwRam, result, blocked, bootFaults>>
        /\ \/ /\ pc' = "boot_wifi" /\ wop' = "recover" /\ wpc' = "recover" /\ faults' = faults
           \/ /\ pc' = "boot_network" /\ wpc' = wpc /\ Fault
    BY <1>7 DEF BootConfig, CallRecover, Call, WifiIdle
  <2>2. CommitStage' /\ UndoStage' /\ BootStage'
    BY <1>1, <2>1 DEF IInv, CommitStage, UndoStage, BootStage
  <2>3. HardwareStage'
    BY <1>0, <1>1, <1>3, <2>1 DEF IInv, HardwareStage, CandidateHw, HwInUse
  <2> QED
    BY <1>0, <1>2, <2>2, <2>3 DEF IInv
<1>8. CASE BootWifi
  <2>1. /\ pc = "boot_wifi" /\ pc' = "boot_network" /\ wpc' = "idle"
        /\ UNCHANGED <<faults, hwRam, result, blocked, bootFaults>>
    BY <1>8 DEF BootWifi, Returned
  <2>2. CommitStage' /\ UndoStage' /\ BootStage'
    BY <1>1, <2>1 DEF IInv, CommitStage, UndoStage, BootStage
  <2>3. HardwareStage'
    BY <1>0, <1>1, <1>3, <2>1 DEF IInv, HardwareStage, CandidateHw, HwInUse
  <2> QED
    BY <1>0, <1>2, <2>2, <2>3 DEF IInv
<1>9. CASE BootNetwork
  <2>1. CommitStage' /\ UndoStage' /\ BootStage'
    BY <1>1, <1>9 DEF BootNetwork, WifiIdle, locals, IInv, CommitStage, UndoStage, BootStage
  <2>2. /\ pc = "boot_network" /\ pc' = "running"
        /\ UNCHANGED <<hwRam, result, blocked, bootFaults>>
        /\ faults' = faults \/ faults' = faults + 1
    BY <1>3, <1>9 DEF BootNetwork, NoFault
  <2>3. result \in {"none", "at_boot"}
    BY <2>2 DEF IInv, BootStage
  <2>4. HardwareStage'
    BY <1>0, <1>1, <2>2, <2>3 DEF IInv, HardwareStage, CandidateHw, HwInUse
  <2> QED
    BY <1>0, <1>2, <2>1, <2>4 DEF IInv
<1>10. CASE PowerCut
  <2>1. /\ pc' = "boot" /\ wpc' = "idle" /\ faults' = faults /\ bootFaults' = faults
        /\ result' = "none"
    BY <1>10 DEF PowerCut, LoseRam
  <2>2. CommitStage' /\ UndoStage' /\ BootStage' /\ HardwareStage'
    BY <1>0, <1>1, <2>1 DEF CommitStage, UndoStage, BootStage, HardwareStage
  <2> QED
    BY <1>0, <1>2, <2>2 DEF IInv
<1> QED
  BY <1>4, <1>5, <1>6, <1>7, <1>8, <1>9, <1>10 DEF BootStep

\* A request starts from the baseline it records in its plan.
LEMMA RequestInductive ==
    ASSUME IInv, Request
    PROVE  IInv'
<1> USE DEF nvs, history, CommitPcs, UndoPcs
<1>0. TypeOK' /\ TypeOK /\ WifiTypeOK
  BY RequestTyped DEF IInv, TypeOK
<1>1. PICK request \in HwConfigs, data \in Payloads : StartCommit(request, data)
  BY DEF Request
<1>2. /\ UNCHANGED <<files, wpc, wop, wdata, wtodo, wsource, wret, hw, sec, journal, hwRam, blocked, bootFaults>>
      /\ pc = "running" /\ ~blocked /\ journal = NoRecord
  BY <1>1 DEF StartCommit, WifiIdle, locals, IInv, BootStage
<1>3. JournalNamesPlan' /\ Settled' /\ Recoverable'
  BY <1>2 DEF IInv, JournalNamesPlan, Settled, Recoverable, FilesAre, Configured
<1>4. UndoStage' /\ BootStage'
  BY <1>1, <1>2 DEF StartCommit, IInv, UndoStage, BootStage
<1>5. /\ plan'.priorHw = hw
      /\ plan'.candHw = IF WritesHardware(request) THEN request ELSE hw
      /\ plan'.priorWifi = IF files["active"] = Empty THEN Empty ELSE Missing
      /\ asked' = request /\ writeHw' = WritesHardware(request)
  BY <1>1 DEF StartCommit
<1>6. files["active"] \in Contents
  BY <1>0 DEF WifiTypeOK, Paths
<1>7. CommitStage'
  BY <1>1, <1>2, <1>5, <1>6 DEF StartCommit, IInv, CommitStage, Settled, BaselineFiles, FilesAre,
     Configured, Contents
<1>8. HardwareStage'
  <2>1. bootFaults <= faults' /\ (faults' = bootFaults => faults = bootFaults)
    BY <1>0, <1>1 DEF IInv, HardwareStage, StartCommit, Fault, NoFault, TypeOK, WifiTypeOK
  <2>2. request # NoRecord
    BY HwAssumption
  <2>3. faults = bootFaults => hwRam = HwInUse
    BY <1>2 DEF IInv, HardwareStage
  <2>4. faults = bootFaults => (CandidateHw = asked)'
    BY <1>5, <2>2, <2>3 DEF CandidateHw, HwInUse, WritesHardware
  <2>5. pc' \in {"prepared", "sync"} /\ (pc' = "sync" => result' = "refused")
    BY <1>1 DEF StartCommit
  <2> QED
    BY <1>2, <1>5, <2>1, <2>4, <2>5 DEF HardwareStage
<1> QED
  BY <1>0, <1>3, <1>4, <1>7, <1>8 DEF IInv

\* The initial states.
LEMMA InitInductive ==
    ASSUME Init
    PROVE  IInv
<1>1. /\ files["active"] \in {Missing, Empty} /\ files["tmp"] = Missing /\ files["old"] = Missing
      /\ files \in [Paths -> Contents]
  BY DEF Init, WifiInit, Paths, Contents
<1>2. WifiTypeOK
  <2>1. /\ wpc = "idle" /\ wop = "none" /\ wdata \in Payloads
        /\ wok \in BOOLEAN /\ whad \in BOOLEAN /\ wret \in BOOLEAN
        /\ wtodo = << >> /\ wsource = "none" /\ faults = 0
    BY DEF Init, WifiInit
  <2>2. wtodo \in Seq(Paths)
    BY <2>1, EmptySeq
  <2>3. faults \in 0 .. MaxFaults
    BY <2>1, MaxFaultsNat
  <2> QED
    BY <1>1, <2>1, <2>2, <2>3 DEF WifiTypeOK, RecoverPcs, ReplacePcs, RollbackPcs
<1>3. TypeOK
  <2>1. plan \in Journals
    BY <1>2 DEF Init, Journals, Phases, WifiTypeOK
  <2>2. bootFaults \in 0 .. MaxFaults /\ crashes \in 0 .. MaxCrashes
    BY MaxFaultsNat, MaxCrashesNat DEF Init
  <2> QED
    BY <1>2, <2>1, <2>2, HwAssumption DEF Init, TypeOK, PCs, Results, SecStates
<1>4. Settled
  BY <1>1, ContentsDistinct, HwAssumption DEF Init, Settled, FilesAre, Configured
<1>5. JournalNamesPlan /\ Recoverable /\ CommitStage /\ UndoStage /\ BootStage /\ HardwareStage
  BY DEF Init, WifiInit, JournalNamesPlan, Recoverable, CommitStage, UndoStage, BootStage, HardwareStage,
         CommitPcs, UndoPcs
<1> QED
  BY <1>3, <1>4, <1>5 DEF IInv

\* IInv holds in every reachable state of the transaction.
THEOREM Invariant == Spec => []IInv
<1>1. ASSUME IInv, [Next]_vars
      PROVE  IInv'
  <2>1. CASE Next
    BY <1>1, <2>1, CommitInductive, UndoInductive, BootInductive, WifiInductive, RequestInductive
    DEF Next, DeviceStep
  <2>2. CASE UNCHANGED vars
    BY <1>1, <2>2
    DEF vars, wvars, locals, nvs, ram, choice, history, IInv, TypeOK, WifiTypeOK, JournalNamesPlan,
        Journaled, Settled, Recoverable, CommitStage, UndoStage, BootStage, HardwareStage, Replacing,
        RollingBack, Kept, ToRemove, CandidateHw, HwInUse, BaselineFiles, CandidateFiles, FilesAre,
        Configured
  <2> QED
    BY <1>1, <2>1, <2>2
<1> QED
  BY <1>1, InitInductive, PTL DEF Spec

-----------------------------------------------------------------------------
(* The theorems: each safety property of FirstBootTransaction, and that   *)
(* it implements AtomicUpdate, derived from the inductive invariant.       *)

\* The types of all variables, among them the records in the three stores.
THEOREM TypeCorrect == Spec => []TypeOK
<1>1. IInv => TypeOK
  BY DEF IInv
<1> QED
  BY <1>1, Invariant, PTL

-----------------------------------------------------------------------------
(* Properties of a device in service.                                      *)

\* The only steps that put the device into service: the end of a boot, the
\* end of a setup, and a rollback that fails and blocks the device.
LEMMA EntersService ==
    ASSUME IInv, Next, pc' = "running"
    PROVE  \/ BootNetwork \/ Synchronize
           \/ blocked' /\ result' = "rollback_failed" /\ secRam' = secRam
<1> USE DEF CommitPcs, UndoPcs
<1>1. CASE CommitStep
  BY <1>1 DEF CommitStep, WriteJournal, WriteHardware, WriteWifi, WifiWritten, CompleteSecurity,
     Finalize, Fail
<1>2. CASE UndoStep
  BY <1>2 DEF UndoStep, UndoBegin, UndoSecurity, UndoWifi, WifiUndone, UndoHardware, UndoJournal,
     UndoContinues, UndoEnds, Undone, UndoFails, UndoFrame
<1>3. CASE BootStep
  BY <1>3 DEF BootStep, BootJournal, BootHardware, BootConfig, BootWifi
<1>4. CASE WifiRuns
  <2>1. wpc \notin {"idle", "returned"}
    BY <1>4, StepsRun DEF WifiRuns
  <2> QED
    BY <1>4, <2>1 DEF WifiRuns, IInv, BootStage
<1>5. CASE Request
  BY <1>5 DEF Request, StartCommit
<1>6. CASE PowerCut
  BY <1>6 DEF PowerCut
<1> QED
  BY <1>1, <1>2, <1>3, <1>4, <1>5, <1>6 DEF Next, DeviceStep

\* What the end of a setup leaves in service is either blocked, or agrees
\* with the result that is reported.
LEMMA Synchronized ==
    ASSUME IInv, Synchronize
    PROVE  /\ journal' = NoRecord
           /\ secRam' # "legacy_unclaimed" \/ secRam = "legacy_unclaimed"
           /\ result' = "rollback_failed" => blocked'
           /\ result' # "rollback_failed" =>
                 /\ result' = result
                 /\ secRam' = "unconfigured" => ~Configured' /\ sec' = NoRecord
                 /\ IF result = "applied" THEN Configured' /\ sec' = "open"
                                          ELSE ~Configured' /\ sec' = NoRecord
<1> USE DEF nvs, choice, history
<1>0. journal = NoRecord /\ (sec = "open" <=> Configured) /\ sec \in {NoRecord, "open"}
  BY DEF Synchronize, IInv, BootStage, Settled, TypeOK
<1>1. UNCHANGED <<files, sec, journal>> /\ (Configured' <=> Configured)
  BY DEF Synchronize, WifiIdle, Configured
<1>2. faults' = faults + 1 => ~NoFault
  BY DEF IInv, TypeOK, WifiTypeOK, NoFault
<1>3. CASE Fault
  <2>1. blocked' = TRUE /\ result' = "rollback_failed" /\ secRam' \in {secRam, "locked"}
    BY <1>2, <1>3 DEF Synchronize, Fault
  <2> QED
    BY <1>0, <1>1, <2>1
<1>4. CASE NoFault /\ wifiReady /\ Completed = Configured
  <2>1. secRam' = SecurityBegin(Completed)
    BY <1>2, <1>4 DEF Synchronize, Fault
  <2>2. SecurityBegin(Completed) = IF Completed THEN "open" ELSE "unconfigured"
    BY <1>0, <1>4, HwAssumption DEF SecurityBegin
  <2>3. UNCHANGED <<result, blocked>>
    BY <1>2, <1>4, <2>2 DEF Synchronize, Fault
  <2>4. result # "rollback_failed"
    BY <1>4 DEF Synchronize, IInv, BootStage
  <2> QED
    BY <1>0, <1>1, <1>4, <2>1, <2>2, <2>3, <2>4 DEF Completed
<1>5. CASE NoFault /\ ~(wifiReady /\ Completed = Configured)
  <2>1. blocked' = TRUE /\ result' = "rollback_failed" /\ secRam' = secRam
    BY <1>2, <1>5 DEF Synchronize, Fault
  <2> QED
    BY <1>0, <1>1, <2>1
<1> QED
  BY <1>3, <1>4, <1>5 DEF Synchronize

\* A device set up through the portal is never put on the legacy path that
\* SecurityService::begin keeps for credentials without a security record.
THEOREM NotLegacy == Spec => []NeverLegacy
<1> USE DEF NeverLegacy
<1>1. Init => NeverLegacy
  BY DEF Init
<1>2. ASSUME IInv, NeverLegacy, [Next]_vars
      PROVE  NeverLegacy'
  <2> USE <1>2
  <2>1. CASE Synchronize
    BY <2>1, Synchronized
  <2>2. CASE BootNetwork
    <3>1. sec = NoRecord => ~Configured
      BY <2>2, HwAssumption DEF BootNetwork, IInv, BootStage, Settled
    <3> QED
      BY <2>2, <3>1 DEF BootNetwork, SecurityBegin
  <2>3. CASE secRam' = secRam \/ secRam' \in {"open", "unconfigured"}
    BY <2>3
  <2>4. Synchronize \/ BootNetwork \/ secRam' = secRam \/ secRam' \in {"open", "unconfigured"}
    BY DEF Next, DeviceStep, CommitStep, WriteJournal, WriteHardware, WriteWifi, WifiWritten,
       CompleteSecurity, Finalize, UndoStep, UndoBegin, UndoSecurity, UndoWifi, WifiUndone,
       UndoHardware, UndoJournal, UndoFrame, BootStep, BootJournal, BootHardware, BootConfig,
       BootWifi, WifiRuns, Request, StartCommit, PowerCut, vars, ram
  <2> QED
    BY <2>1, <2>2, <2>3, <2>4
<1> QED
  BY <1>1, <1>2, Invariant, PTL DEF Spec

\* The cause the portal reports after commitDeviceFirstBootTransaction is
\* true of the three stores.
THEOREM ToldTheTruth == Spec => []PortalToldTheTruth
<1>1. Init => PortalToldTheTruth
  BY DEF Init, PortalToldTheTruth
<1>2. ASSUME IInv, PortalToldTheTruth, [Next]_vars
      PROVE  PortalToldTheTruth'
  <2> USE <1>2
  <2>1. CASE pc' # "running"
    BY <2>1 DEF PortalToldTheTruth
  <2>2. CASE Synchronize
    BY <2>2, Synchronized DEF PortalToldTheTruth, Results
  <2>3. CASE BootNetwork
    BY <2>3 DEF BootNetwork, IInv, BootStage, PortalToldTheTruth
  <2>4. CASE blocked' /\ result' = "rollback_failed"
    BY <2>4 DEF PortalToldTheTruth
  <2>5. CASE UNCHANGED vars
    BY <2>5 DEF vars, wvars, nvs, ram, PortalToldTheTruth, Configured
  <2> QED
    BY <2>1, <2>2, <2>3, <2>4, <2>5, EntersService
<1> QED
  BY <1>1, <1>2, Invariant, PTL DEF Spec

\* The portal that is open to a new setup starts it from a clean baseline.
THEOREM CleanRetry == Spec => []RetryFromBaseline
<1>1. Init => RetryFromBaseline
  BY DEF Init, RetryFromBaseline
<1>2. ASSUME IInv, RetryFromBaseline, [Next]_vars
      PROVE  RetryFromBaseline'
  <2> USE <1>2
  <2>1. CASE pc' # "running" \/ blocked'
    BY <2>1 DEF RetryFromBaseline
  <2>2. CASE Synchronize
    BY <2>2, Synchronized DEF RetryFromBaseline
  <2>3. CASE BootNetwork
    <3>1. journal' = NoRecord /\ sec' = sec /\ (Configured' <=> Configured)
      BY <2>3 DEF BootNetwork, IInv, BootStage, nvs, WifiIdle, Configured
    <3>2. sec = NoRecord => ~Configured
      BY <2>3, HwAssumption DEF BootNetwork, IInv, BootStage, Settled
    <3>3. secRam' = "unconfigured" /\ wifiReady' => sec = NoRecord
      BY <2>3 DEF BootNetwork, SecurityBegin
    <3> QED
      BY <3>1, <3>2, <3>3 DEF RetryFromBaseline
  <2>4. CASE UNCHANGED vars
    BY <2>4 DEF vars, wvars, nvs, ram, RetryFromBaseline, Configured
  <2> QED
    BY <2>1, <2>2, <2>3, <2>4, EntersService
<1> QED
  BY <1>1, <1>2, Invariant, PTL DEF Spec

-----------------------------------------------------------------------------
(* No boot halts unless a storage operation has failed.                    *)

\* A rollback gives up only when an operation fails in this very step, or
\* when one has failed since the boot.
LEMMA FailedUndo ==
    ASSUME IInv, UndoStep, pc' = "halted"
    PROVE  faults' > bootFaults'
<1> USE DEF UndoFrame, UndoContinues, UndoEnds, Undone, history
<1>0. faults \in Nat /\ bootFaults \in Nat /\ bootFaults <= faults
  BY DEF IInv, TypeOK, WifiTypeOK, HardwareStage
<1>1. bootFaults' = bootFaults
  BY DEF UndoStep, UndoBegin, UndoSecurity, UndoWifi, WifiUndone, UndoHardware, UndoJournal
<1>2. CASE Fault
  BY <1>0, <1>1, <1>2 DEF Fault
<1>3. CASE UndoBegin /\ ~Fault
  <2>1. journal # NoRecord =>
          hw \in {journal.priorHw, journal.candHw} /\ sec \in {NoRecord, "open"}
    BY JournalFields DEF IInv, TypeOK, Recoverable
  <2> QED
    BY <1>3, <2>1 DEF UndoBegin, SecurityAllowed, HardwareAllowed
<1>4. CASE WifiUndone /\ ~Fault
  <2>1. IF wret THEN files["active"] = plan.priorWifi ELSE faults > bootFaults
    BY <1>4 DEF WifiUndone, Returned, IInv, UndoStage, RollingBack, BaselineFiles, FilesAre
  <2>2. journal.priorWifi = plan.priorWifi
    BY <1>4, JournalFields DEF WifiUndone, IInv, UndoStage, UndoPcs
  <2>3. CASE wret
    BY <1>4, <2>1, <2>2, <2>3 DEF WifiUndone, WifiAllowed
  <2>4. CASE ~wret
    BY <1>1, <1>4, <2>1, <2>4 DEF WifiUndone, NoFault
  <2> QED
    BY <2>3, <2>4
<1>5. ~(UndoWifi \/ ((UndoSecurity \/ UndoHardware \/ UndoJournal) /\ ~Fault))
  BY DEF UndoWifi, UndoSecurity, UndoHardware, UndoJournal
<1> QED
  BY <1>2, <1>3, <1>4, <1>5 DEF UndoStep

\* There is no point in commit or recover at which a power cut leaves the
\* stores in a combination that the recovery at boot refuses.
THEOREM HaltsOnFaults == Spec => []HaltsOnlyOnFault
<1>1. Init => HaltsOnlyOnFault
  BY DEF Init, HaltsOnlyOnFault
<1>2. ASSUME IInv, HaltsOnlyOnFault, [Next]_vars
      PROVE  HaltsOnlyOnFault'
  <2> USE <1>2 DEF HaltsOnlyOnFault, history, CommitPcs, UndoPcs
  <2>1. CASE pc' # "halted"
    BY <2>1
  <2>2. CASE UndoStep /\ pc' = "halted"
    BY <2>2, FailedUndo
  <2>3. CASE BootJournal
    <3>1. faults \in Nat /\ bootFaults \in Nat /\ bootFaults <= faults
      BY DEF IInv, TypeOK, WifiTypeOK, HardwareStage
    <3> QED
      BY <2>3, <3>1 DEF BootJournal, Fault
  <2>4. CASE UNCHANGED vars
    BY <2>4 DEF vars, wvars
  <2>5. CASE CommitStep
    BY <2>5 DEF CommitStep, WriteJournal, WriteHardware, WriteWifi, WifiWritten,
       CompleteSecurity, Finalize, Fail
  <2>6. CASE WifiRuns /\ pc = "halted"
    <3>1. wpc \notin {"idle", "returned"}
      BY <2>6, StepsRun DEF WifiRuns
    <3> QED
      BY <2>6, <3>1 DEF IInv, BootStage
  <2>7. CASE WifiRuns /\ pc # "halted"
    BY <2>7 DEF WifiRuns
  <2>8. CASE Synchronize \/ BootHardware \/ BootConfig \/ BootWifi \/ BootNetwork \/ Request \/ PowerCut
    BY <2>8 DEF Synchronize, BootHardware, BootConfig, BootWifi, BootNetwork, Request, StartCommit,
       PowerCut
  <2> QED
    BY <2>1, <2>2, <2>3, <2>4, <2>5, <2>6, <2>7, <2>8 DEF Next, DeviceStep, BootStep
<1> QED
  BY <1>1, <1>2, Invariant, PTL DEF Spec

-----------------------------------------------------------------------------
(* What is stored under an OPEN administrator state.                       *)

\* Without a journal no step changes the stores, but the end of a commit or of
\* a rollback, which leaves them as they were under the journal.
LEMMA StoresRest ==
    ASSUME IInv, [Next]_vars, journal' = NoRecord
    PROVE  UNCHANGED <<hw, sec, files["active"]>>
<1> USE DEF CommitPcs, UndoPcs
<1>1. ASSUME NEW phase \in Phases, NEW next \in PCs, WriteJournal(phase, next)
      PROVE  UNCHANGED <<hw, sec, files>>
  BY <1>1 DEF WriteJournal, WifiIdle
<1>2. CASE Finalize \/ UndoJournal
  BY <1>2 DEF Finalize, UndoJournal, WifiIdle
<1>3. ~(WriteHardware \/ WriteWifi \/ WifiWritten \/ CompleteSecurity)
  BY DEF WriteHardware, WriteWifi, WifiWritten, CompleteSecurity, IInv, CommitStage, nvs
<1>4. CASE UndoBegin \/ UndoSecurity \/ UndoWifi \/ WifiUndone \/ UndoHardware
  BY <1>4 DEF UndoBegin, UndoSecurity, UndoWifi, WifiUndone, UndoHardware, IInv, UndoStage,
     WifiIdle, nvs
<1>5. CASE Synchronize \/ BootStep \/ Request \/ PowerCut
  BY <1>5 DEF Synchronize, BootStep, BootJournal, BootHardware, BootConfig, BootWifi, BootNetwork,
     Request, StartCommit, PowerCut, WifiIdle, CallRecover, Call, Returned, LoseRam, nvs
<1>6. CASE WifiRuns
  <2>1. UNCHANGED nvs /\ pc \in {"wifi_running", "undo_wifi_running", "boot_wifi"}
    BY <1>6, StepsRun DEF WifiRuns, IInv, BootStage
  <2>2. pc = "boot_wifi"
    BY <2>1 DEF nvs, IInv, CommitStage, UndoStage
  <2>3. files'["active"] = files["active"]
    BY <1>6, <2>2, RecoverRuns DEF WifiRuns, IInv, TypeOK, BootStage, Settled
  <2> QED
    BY <2>1, <2>3 DEF nvs
<1>7. CASE UNCHANGED vars
  BY <1>7 DEF vars, wvars, nvs
<1> QED
  BY <1>1, <1>2, <1>3, <1>4, <1>5, <1>6, <1>7
  DEF Next, DeviceStep, CommitStep, UndoStep, Phases, PCs

\* A stored OPEN administrator state comes with the hardware and the credentials
\* of its setup, while the journal is stored and ever after (the order of commit
\* and of recover in first_boot_transaction.cpp).
THEOREM OpenComplete == Spec => []OpenOnlyWhenComplete
<1>1. Init => OpenOnlyWhenComplete
  BY HwAssumption DEF Init, OpenOnlyWhenComplete
<1>2. ASSUME IInv, IInv', RetryFromBaseline, OpenOnlyWhenComplete, [Next]_vars
      PROVE  OpenOnlyWhenComplete'
  <2> USE <1>2
  <2> SUFFICES ASSUME sec' = "open" PROVE OpenOnlyWhenComplete'
    BY DEF OpenOnlyWhenComplete
  <2>1. CASE journal' # NoRecord
    BY <2>1, ContentsDistinct DEF IInv, TypeOK, Journals, Recoverable, CandidateFiles, FilesAre,
       OpenOnlyWhenComplete, Exists, Configured
  <2>2. CASE journal' = NoRecord
    <3>1. UNCHANGED <<hw, sec, files["active"]>>
      BY <2>2, StoresRest
    <3>2. Configured' /\ ~Exists("old")'
      BY <2>2 DEF IInv, Settled, FilesAre, Exists
    <3>3. hw = plan.candHw /\ files["active"] = plan.wifi
      BY <3>1 DEF OpenOnlyWhenComplete
    <3>4. ~Request
      BY <3>1, HwAssumption DEF Request, StartCommit, RetryFromBaseline
    <3>5. plan' = plan
      BY <3>4 DEF Next, DeviceStep, CommitStep, WriteJournal, WriteHardware, WriteWifi, WifiWritten,
         CompleteSecurity, Finalize, UndoStep, UndoFrame, UndoBegin, UndoSecurity, UndoWifi,
         WifiUndone, UndoHardware, UndoJournal, Synchronize, BootStep, BootJournal, BootHardware,
         BootConfig, BootWifi, BootNetwork, WifiRuns, PowerCut, choice, ram, vars
    <3> QED
      BY <3>1, <3>2, <3>3, <3>5 DEF OpenOnlyWhenComplete
  <2> QED
    BY <2>1, <2>2
<1> QED
  BY <1>1, <1>2, Invariant, CleanRetry, PTL DEF Spec

\* When a setup is reported as applied, the stored credentials are those of its
\* request, and the stored hardware is the one the wizard asked for unless a
\* storage operation failed since the boot.
THEOREM AsAsked == Spec => []AppliedAsAsked
<1>1. ASSUME IInv, PortalToldTheTruth, OpenOnlyWhenComplete PROVE AppliedAsAsked
  <2>1. bootFaults <= faults /\ faults \in Nat /\ bootFaults \in Nat
    BY <1>1 DEF IInv, HardwareStage, TypeOK, WifiTypeOK
  <2>2. faults = bootFaults \/ faults > bootFaults
    BY <2>1
  <2>3. pc = "running" /\ result = "applied" => files["active"] = plan.wifi
    BY <1>1 DEF PortalToldTheTruth, OpenOnlyWhenComplete
  <2> QED
    BY <1>1, <2>2, <2>3 DEF IInv, HardwareStage, AppliedAsAsked
<1> QED
  BY <1>1, Invariant, ToldTheTruth, OpenComplete, PTL

-----------------------------------------------------------------------------
(* The transaction implements an atomic update.                            *)

\* A step that leaves the journal alone is invisible while a journal is
\* stored, and otherwise when it leaves the stores alone.
LEMMA Stutters ==
    ASSUME journal' = journal,
           journal # NoRecord \/ UNCHANGED Stored
    PROVE  UNCHANGED Update!vars
<1>1. CASE journal # NoRecord
  BY <1>1 DEF Update!vars, Baseline, Candidate
<1>2. CASE journal = NoRecord
  BY <1>2 DEF Update!vars
<1> QED
  BY <1>1, <1>2

\* Writing the first journal begins the update.
LEMMA Begins ==
    ASSUME IInv, NEW next \in PCs, WriteJournal("prepared", next)
    PROVE  [Update!Next]_(Update!vars)
<1>1. /\ journal = NoRecord /\ sec = NoRecord /\ hw = plan.priorHw
      /\ files["active"] = plan.priorWifi /\ plan \in Journals
  BY DEF WriteJournal, IInv, TypeOK, CommitStage, BaselineFiles, FilesAre
<1>2. UNCHANGED <<files, hw, sec>> /\ journal' \in {journal, Journaled("prepared")}
  BY DEF WriteJournal, WifiIdle
<1>3. CASE journal' = journal
  BY <1>2, <1>3, Stutters DEF Stored
<1>4. CASE journal' = Journaled("prepared")
  <2>1. journal' \in Journals /\ journal' # NoRecord
    BY <1>1, <1>4, NoRecordIsNone DEF Journaled, Journals, Phases
  <2>2. /\ journal'.priorHw = plan.priorHw /\ journal'.priorWifi = plan.priorWifi
        /\ journal'.candHw \in HwConfigs \cup {NoRecord} /\ journal'.wifi \in Payloads
    BY <1>1, <1>4, <2>1 DEF Journaled, Journals
  <2>3. Baseline(journal') = Stored
    BY <1>1, <2>2 DEF Baseline, Stored
  <2>4. Candidate(journal') \in Settings
    BY <2>2 DEF Candidate, Settings, Contents
  <2>5. Update!Begin(Candidate(journal'))
    BY <1>1, <2>1, <2>3 DEF Update!Begin
  <2> QED
    BY <2>4, <2>5 DEF Update!Next
<1> QED
  BY <1>2, <1>3, <1>4

\* Erasing the journal at the end of commit installs the candidate, and at
\* the end of recover leaves the baseline.
LEMMA Ends ==
    ASSUME IInv, Finalize \/ UndoJournal
    PROVE  [Update!Next]_(Update!vars)
<1>0. journal # NoRecord /\ journal' \in {journal, NoRecord} /\ UNCHANGED <<files, hw, sec>>
  BY DEF Finalize, UndoJournal, WifiIdle, IInv, CommitStage, CommitPcs, UndoStage, UndoPcs
<1>1. /\ journal.priorHw = plan.priorHw /\ journal.candHw = plan.candHw
      /\ journal.priorWifi = plan.priorWifi /\ journal.wifi = plan.wifi
  BY <1>0, JournalFields DEF IInv
<1>2. Candidate(journal) # NoRecord
  <2>1. journal.candHw \in HwConfigs \cup {NoRecord} /\ journal.wifi \in Contents
    BY <1>0 DEF IInv, TypeOK, Journals, Contents
  <2>2. Candidate(journal) \in Settings
    BY <2>1 DEF Candidate, Settings
  <2> QED
    BY <2>2, NoRecordIsNone
<1>3. CASE journal' = journal
  BY <1>0, <1>3, Stutters
<1>4. CASE Finalize /\ journal' = NoRecord
  <2>1. hw = plan.candHw /\ sec = "open" /\ files["active"] = plan.wifi
    BY <1>4 DEF Finalize, IInv, CommitStage, CommitPcs, CandidateFiles, FilesAre
  <2>2. Stored' = Candidate(journal)
    BY <1>0, <1>1, <2>1 DEF Stored, Candidate
  <2>3. Update!Commit
    BY <1>0, <1>2, <1>4, <2>2 DEF Update!Commit
  <2> QED
    BY <2>3 DEF Update!Next
<1>5. CASE UndoJournal /\ journal' = NoRecord
  <2>1. hw = plan.priorHw /\ sec = NoRecord /\ files["active"] = plan.priorWifi
    BY <1>5 DEF UndoJournal, IInv, UndoStage, UndoPcs, BaselineFiles, FilesAre
  <2>2. Stored' = Baseline(journal)
    BY <1>0, <1>1, <2>1 DEF Stored, Baseline
  <2>3. Update!Abort
    BY <1>0, <1>2, <1>5, <2>2 DEF Update!Abort
  <2> QED
    BY <2>3 DEF Update!Next
<1> QED
  BY <1>0, <1>3, <1>4, <1>5

\* The FIRST BOOT transaction implements AtomicUpdate: wherever power is cut
\* and whatever fails, what the device would use changes in one step, from
\* the baseline to the complete candidate, or not at all.
THEOREM Atomic == Spec => AtomicSetup
<1>1. ASSUME Init PROVE Update!Init
  <2>1. /\ hw \in HwConfigs \cup {NoRecord} /\ sec = NoRecord /\ journal = NoRecord
        /\ files["active"] \in Contents
    BY <1>1 DEF Init, WifiInit, Paths, Contents
  <2> QED
    BY <2>1 DEF Update!Init, Stored, Settings
<1>2. ASSUME IInv, [Next]_vars
      PROVE  [Update!Next]_(Update!vars)
  <2> USE <1>2 DEF CommitPcs, UndoPcs
  <2>1. CASE Finalize \/ UndoJournal
    BY <2>1, Ends
  <2>2. CASE journal' = journal
    <3>1. CASE journal # NoRecord
      BY <2>2, <3>1, Stutters
    <3>2. CASE journal = NoRecord
      BY <2>2, <3>2, StoresRest, Stutters DEF Stored
    <3> QED
      BY <3>1, <3>2
  <2>3. ASSUME NEW phase \in Phases \ {"prepared"}, NEW next \in PCs, WriteJournal(phase, next)
        PROVE  UNCHANGED Update!vars
    <3>1. journal # NoRecord /\ phase \in CommitPcs
      BY <2>3 DEF WriteJournal, IInv, CommitStage, Phases
    <3>2. /\ journal.priorHw = plan.priorHw /\ journal.candHw = plan.candHw
          /\ journal.priorWifi = plan.priorWifi /\ journal.wifi = plan.wifi
      BY <3>1, JournalFields DEF IInv
    <3>3. UNCHANGED plan /\ journal' \in {journal, Journaled(phase)}
      BY <2>3 DEF WriteJournal, choice
    <3>4. CASE journal' = journal
      BY <3>1, <3>4, Stutters
    <3>5. CASE journal' = Journaled(phase)
      <4>1. journal' # NoRecord
        BY <3>5, NoRecordIsNone DEF Journaled, Journals, Phases, IInv, TypeOK
      <4>2. /\ journal'.priorHw = plan.priorHw /\ journal'.candHw = plan.candHw
            /\ journal'.priorWifi = plan.priorWifi /\ journal'.wifi = plan.wifi
        BY <3>5 DEF Journaled, Journals, IInv, TypeOK
      <4> QED
        BY <3>1, <3>2, <4>1, <4>2 DEF Update!vars, Baseline, Candidate
    <3> QED
      BY <3>3, <3>4, <3>5
  <2>4. journal' = journal \/ Finalize \/ UndoJournal
        \/ \E phase \in Phases, next \in PCs : WriteJournal(phase, next)
    BY DEF Next, DeviceStep, CommitStep, UndoStep, WriteHardware, WriteWifi, WifiWritten,
       CompleteSecurity, UndoBegin, UndoSecurity, UndoWifi, WifiUndone, UndoHardware, Synchronize,
       BootStep, BootJournal, BootHardware, BootConfig, BootWifi, BootNetwork, Request,
       StartCommit, PowerCut, WifiRuns, nvs, vars, Phases, PCs
  <2>5. ASSUME NEW next \in PCs, WriteJournal("prepared", next)
        PROVE  [Update!Next]_(Update!vars)
    BY <2>5, Begins
  <2> QED
    BY <2>1, <2>2, <2>3, <2>4, <2>5 DEF Phases
<1> QED
  BY <1>1, <1>2, Invariant, PTL DEF Spec, AtomicSetup, Update!Spec
=============================================================================
