------------------------ MODULE WifiConfigAtomic_proofs ------------------------
(***************************************************************************)
(* Why the Wi-Fi credentials survive: the safety properties of             *)
(* WifiConfigAtomic for every set of credentials, any number of failing    *)
(* storage operations and any number of power cuts, and that a save        *)
(* implements AtomicUpdate while stored files can be read back.            *)
(***************************************************************************)
EXTENDS WifiConfigAtomic, TLAPS

-----------------------------------------------------------------------------
(* Type correctness                                                        *)

\* A storage operation that names a file keeps the files well typed.
LEMMA FilesTyped ==
    ASSUME WifiTypeOK, NEW p \in Paths, NEW q \in Paths, NEW c \in Contents
    PROVE  /\ Put(p, c) => files' \in [Paths -> Contents]
           /\ Remove(p) => files' \in [Paths -> Contents]
           /\ Rename(p, q) => files' \in [Paths -> Contents]
           /\ Keep => files' \in [Paths -> Contents]
BY DEF WifiTypeOK, Put, Remove, Rename, Keep, Contents

\* The bound on failing operations is kept by every operation.
LEMMA FaultsTyped ==
    ASSUME WifiTypeOK, Fault \/ NoFault
    PROVE  faults' \in 0 .. MaxFaults
BY MaxFaultsNat DEF WifiTypeOK, Fault, NoFault

\* recover keeps the type invariant.
LEMMA RecoverTyped ==
    ASSUME WifiTypeOK, RecoverStep
    PROVE  WifiTypeOK'
<1> USE DEF RecoverPcs, ReplacePcs, RollbackPcs, Rollbacks, locals, Goto, Return
<1>1. CASE RecoverInspect
  <2>1. PICK bad \in Misreads({"active", "old"}) :
          /\ Reading(bad)
          /\ Goto(RecoverChoice(Seen("active", bad), Seen("old", bad)))
          /\ wok' = RecoverVerdict(Seen("active", bad), Seen("old", bad))
    BY <1>1 DEF RecoverInspect
  <2>2. faults' \in 0 .. MaxFaults
    BY <2>1, FaultsTyped DEF Reading
  <2>3. RecoverChoice(Seen("active", bad), Seen("old", bad)) \in
          {"recover_tmp", "recover_drop", "recover_clear"}
    BY DEF RecoverChoice
  <2>4. wok' \in BOOLEAN
    BY <2>1 DEF RecoverVerdict, Valid
  <2> QED
    BY <1>1, <2>1, <2>2, <2>3, <2>4 DEF RecoverInspect, Keep, WifiTypeOK
<1>2. CASE RecoverDrop
  BY <1>2, FilesTyped, FaultsTyped DEF RecoverDrop, RemoveThen, At, Paths, Contents, WifiTypeOK
<1>3. CASE RecoverClear
  BY <1>3, FilesTyped, FaultsTyped DEF RecoverClear, RemoveThen, At, Paths, Contents, WifiTypeOK
<1>4. CASE RecoverPromote
  BY <1>4, FilesTyped, FaultsTyped DEF RecoverPromote, RenameThen, At, Paths, Contents, WifiTypeOK
<1>5. CASE RecoverTmp
  BY <1>5, FilesTyped, FaultsTyped DEF RecoverTmp, At, Paths, Contents, WifiTypeOK
<1> QED
  BY <1>1, <1>2, <1>3, <1>4, <1>5 DEF RecoverStep

\* replace keeps the type invariant.
LEMMA ReplaceTyped ==
    ASSUME WifiTypeOK, ReplaceStep
    PROVE  WifiTypeOK'
<1> USE DEF RecoverPcs, ReplacePcs, RollbackPcs, Rollbacks, locals, Goto, Return
<1>1. CASE WriteOpen
  BY <1>1, FilesTyped, FaultsTyped DEF WriteOpen, At, Paths, Contents, WifiTypeOK
<1>2. CASE WriteData
  <2>1. files' \in [Paths -> Contents]
    BY <1>2, FilesTyped DEF WriteData, WifiTypeOK, Paths, Contents
  <2> QED
    BY <1>2, <2>1, FaultsTyped DEF WriteData, At, WifiTypeOK
<1>3. CASE Displace
  BY <1>3, FilesTyped, FaultsTyped DEF Displace, RenameThen, Exists, Paths, Contents, WifiTypeOK
<1>4. CASE Install
  BY <1>4, FilesTyped, FaultsTyped DEF Install, RenameThen, At, Paths, Contents, WifiTypeOK
<1>5. CASE Confirm
  <2>1. faults' \in 0 .. MaxFaults
    BY <1>5, FaultsTyped DEF Confirm, Reading
  <2> QED
    BY <1>5, <2>1 DEF Confirm, Keep, At, WifiTypeOK
<1>6. CASE DropOld
  BY <1>6, FilesTyped, FaultsTyped DEF DropOld, Exists, At, Paths, Contents, WifiTypeOK
<1>7. CASE RestoreClear
  BY <1>7, FilesTyped, FaultsTyped DEF RestoreClear, RemoveThen, At, Paths, Contents, WifiTypeOK
<1>8. CASE RestoreRename
  BY <1>8, FilesTyped, FaultsTyped DEF RestoreRename, RenameThen, At, Paths, Contents, WifiTypeOK
<1>9. CASE Discard
  BY <1>9, FilesTyped, FaultsTyped DEF Discard, RemoveThen, At, Paths, Contents, WifiTypeOK
<1> QED
  BY <1>1, <1>2, <1>3, <1>4, <1>5, <1>6, <1>7, <1>8, <1>9 DEF ReplaceStep

\* So do the calls, the return and a power cut.
LEMMA CallsTyped ==
    ASSUME WifiTypeOK, NEW data \in Payloads
    PROVE  /\ CallReplace(data) => WifiTypeOK'
           /\ CallRecover => WifiTypeOK'
           /\ LoseRam => WifiTypeOK'
           /\ Returned /\ faults' = faults => WifiTypeOK'
           /\ UNCHANGED wvars => WifiTypeOK'
BY DEF CallReplace, CallRecover, Call, LoseRam, Returned, locals, wvars,
       RecoverPcs, ReplacePcs, RollbackPcs, Rollbacks, WifiTypeOK

\* The initial states are well typed.
LEMMA InitTyped == Init => TypeOK
<1> SUFFICES ASSUME Init PROVE TypeOK
  OBVIOUS
<1>1. files \in [Paths -> Contents]
  BY DEF Init, WifiInit, Paths, Contents
<1>2. 0 \in 0 .. MaxFaults /\ 0 \in 0 .. MaxCrashes
  BY MaxFaultsNat, MaxCrashesNat
<1>3. wtodo \in Seq(Paths)
  BY DEF Init, WifiInit
<1>4. WifiTypeOK
  BY <1>1, <1>2, <1>3, Zenon
  DEF Init, WifiInit, WifiTypeOK, RecoverPcs, ReplacePcs, RollbackPcs, Rollbacks
<1> QED
  BY <1>1, <1>2, <1>4 DEF Init, TypeOK

\* Every step keeps the types.
LEMMA NextTyped ==
    ASSUME TypeOK, [Next]_vars
    PROVE  TypeOK'
<1> USE DEF TypeOK
<1>0. /\ faults \in 0 .. MaxFaults /\ files \in [Paths -> Contents]
      /\ wret \in BOOLEAN /\ wdata \in Payloads
  BY DEF WifiTypeOK
<1>1. CASE Boot
  BY <1>0, <1>1, CallsTyped DEF Boot
<1>2. CASE BootDone
  BY <1>0, <1>2, CallsTyped DEF BootDone
<1>3. CASE StorageStep
  BY <1>3, RecoverTyped, ReplaceTyped DEF StorageStep
<1>4. CASE PowerCut
  <2>1. crashes' \in 0 .. MaxCrashes
    BY <1>4, MaxCrashesNat DEF PowerCut
  <2> QED
    BY <1>0, <1>4, <2>1, CallsTyped DEF PowerCut
<1>5. CASE \E data \in Payloads : Save(data)
  BY <1>0, <1>5, CallsTyped DEF Save
<1>6. CASE SaveDone
  BY <1>0, <1>6, CallsTyped DEF SaveDone
<1>7. CASE UNCHANGED vars
  <2>1. WifiTypeOK'
    BY <1>0, <1>7, CallsTyped DEF vars
  <2> QED
    BY <1>7, <2>1 DEF vars
<1> QED
  BY  <1>1, <1>2, <1>3, <1>4, <1>5, <1>6, <1>7 DEF Next

\* TypeOK holds in every reachable state.
THEOREM TypeCorrect == Spec => []TypeOK
BY InitTyped, NextTyped, PTL DEF Spec

-----------------------------------------------------------------------------
(* The files and the failures                                              *)

\* What recover would use is the active file, or else the rollback file.
LEMMA EffectiveIs ==
    ASSUME NEW f \in [Paths -> Contents], f["active"] # Partial, f["old"] # Partial
    PROVE  Effective(f) = IF f["active"] # Missing THEN f["active"] ELSE f["old"]
BY ContentsDistinct DEF Effective, Valid, Paths, Contents

\* A failing operation is the first failure or a later one.
LEMMA FaultsAreCounted ==
    ASSUME TypeOK, CountInv, Fault \/ NoFault, callFaults' = callFaults
    PROVE  /\ CountInv'
           /\ Unfailed => FailedOnce
           /\ NoFault => (Unfailed' <=> Unfailed) /\ (FailedOnce' <=> FailedOnce)
           /\ Fault => ~Unfailed' /\ (FailedOnce' => Unfailed)
BY MaxFaultsNat DEF TypeOK, WifiTypeOK, CountInv, Fault, NoFault, Unfailed, FailedOnce

-----------------------------------------------------------------------------
(* The operations of recover and replace                                   *)

\* Recover's reading of both files preserves the invariant.
LEMMA RecoverInspectInductive ==
    ASSUME TypeOK, TypeOK', SavesInv, RecoverInspect,
           UNCHANGED <<stage, wifiReady, before, callFaults, crashes>>
    PROVE  SavesInv'
<1> USE DEF Paths, Exists, At, Goto, Return, Keep, Put, Remove, Rename, RemoveThen,
            RenameThen, locals
<1>1. Fault \/ NoFault
  BY DEF RecoverInspect, Reading
<1>2. /\ CountInv'
      /\ Unfailed => FailedOnce
      /\ NoFault => (Unfailed' <=> Unfailed) /\ (FailedOnce' <=> FailedOnce)
      /\ Fault => ~Unfailed' /\ (FailedOnce' => Unfailed)
  BY <1>1, FaultsAreCounted DEF SavesInv
<1>read. PICK bad \in Misreads({"active", "old"}) :
        /\ Reading(bad)
        /\ Goto(RecoverChoice(Seen("active", bad), Seen("old", bad)))
        /\ wok' = RecoverVerdict(Seen("active", bad), Seen("old", bad))
  BY DEF RecoverInspect
<1>valid.
      /\ Valid(Seen("active", bad)) <=> Exists("active") /\ bad # "active"
      /\ Valid(Seen("old", bad)) <=> Exists("old") /\ bad # "old"
      /\ Seen("old", bad) = Missing <=> ~Exists("old")
      /\ Seen("active", bad) = Missing <=> ~Exists("active")
  BY ContentsDistinct DEF Misreads, Seen, Valid, SavesInv, CopiesInv, TypeOK, WifiTypeOK, Contents
<1>choice. wpc' = RecoverChoice(Seen("active", bad), Seen("old", bad)) /\ wret' = wret
  BY <1>read DEF RecoverChoice
<1>bad. bad # "none" => Fault
  BY <1>read DEF Reading
<1>3. /\ files \in [Paths -> Contents] /\ files' \in [Paths -> Contents]
      /\ before \in [Paths -> Contents] /\ wdata \in Payloads /\ wdata' = wdata /\ wop' = wop
      /\ stage \in {"off", "boot", "ready", "saving"} /\ wok \in BOOLEAN /\ whad \in BOOLEAN
  BY DEF TypeOK, WifiTypeOK, RecoverInspect
<1>4. CallInv'
  BY DEF SavesInv, CallInv, RecoverInspect, RecoverPcs, ReplacePcs, RecoverChoice
<1>5. CopiesInv'
  BY <1>3, ContentsDistinct DEF SavesInv, CopiesInv, FilesInv, RecoverInspect
<1>6. LeftInv'
  BY <1>3, ContentsDistinct DEF SavesInv, LeftInv, FilesInv, Readable, RecoverInspect
<1>7. FilesInv'
  BY <1>read, <1>valid, <1>choice
  DEF SavesInv, FilesInv, RecoverInspect, RecoverChoice, RecoverVerdict
<1>8. /\ Effective(before) = IF before["active"] # Missing THEN before["active"] ELSE before["old"]
      /\ Effective(files) = IF files["active"] # Missing THEN files["active"] ELSE files["old"]
      /\ Effective(files') = IF files'["active"] # Missing THEN files'["active"] ELSE files'["old"]
  BY <1>3, <1>5, EffectiveIs, ContentsDistinct DEF SavesInv, CopiesInv
<1>9. SaveInv'
  BY <1>1, <1>2, <1>3, <1>8, <1>read, <1>valid, <1>choice, <1>bad
  DEF SavesInv, SaveInv, Unchanged, RecoverPcs, RecoverInspect, RecoverChoice, RecoverVerdict
<1>10. ReportInv'
  BY <1>choice DEF ReportInv, RecoverChoice
<1> QED
  BY <1>2, <1>4, <1>5, <1>6, <1>7, <1>9, <1>10 DEF SavesInv

\* Recover's removal of the rollback file preserves the invariant.
LEMMA RecoverDropInductive ==
    ASSUME TypeOK, TypeOK', SavesInv, RecoverDrop,
           UNCHANGED <<stage, wifiReady, before, callFaults, crashes>>
    PROVE  SavesInv'
<1> USE DEF Paths, Exists, At, Goto, Return, Keep, Put, Remove, Rename, RemoveThen,
            RenameThen, locals
<1>1. Fault \/ NoFault
  BY DEF RecoverDrop
<1>2. /\ CountInv'
      /\ Unfailed => FailedOnce
      /\ NoFault => (Unfailed' <=> Unfailed) /\ (FailedOnce' <=> FailedOnce)
      /\ Fault => ~Unfailed' /\ (FailedOnce' => Unfailed)
  BY <1>1, FaultsAreCounted DEF SavesInv
<1>3. /\ files \in [Paths -> Contents] /\ files' \in [Paths -> Contents]
      /\ before \in [Paths -> Contents] /\ wdata \in Payloads /\ wdata' = wdata /\ wop' = wop
      /\ stage \in {"off", "boot", "ready", "saving"} /\ wok \in BOOLEAN /\ whad \in BOOLEAN
  BY DEF TypeOK, WifiTypeOK, RecoverDrop
<1>4. CallInv'
  BY DEF SavesInv, CallInv, RecoverDrop, RecoverPcs, ReplacePcs
<1>5. CopiesInv'
  BY <1>3, ContentsDistinct DEF SavesInv, CopiesInv, FilesInv, RecoverDrop
<1>6. LeftInv'
  BY <1>3, ContentsDistinct DEF SavesInv, LeftInv, FilesInv, Readable, RecoverDrop
<1>7. FilesInv'
  BY <1>3, <1>6, ContentsDistinct DEF SavesInv, LeftInv, FilesInv, CopiesInv, Readable, RecoverDrop
<1>8. /\ Effective(before) = IF before["active"] # Missing THEN before["active"] ELSE before["old"]
      /\ Effective(files) = IF files["active"] # Missing THEN files["active"] ELSE files["old"]
      /\ Effective(files') = IF files'["active"] # Missing THEN files'["active"] ELSE files'["old"]
  BY <1>3, <1>5, EffectiveIs, ContentsDistinct DEF SavesInv, CopiesInv
<1>9. SaveInv'
  BY <1>1, <1>2, <1>3, <1>8, ContentsDistinct
  DEF SavesInv, FilesInv, SaveInv, CallInv, Unchanged, Undoable, Readable, RecoverPcs,
      ReplacePcs, RecoverDrop
<1>10. ReportInv'
  BY <1>1, <1>2, <1>3, <1>8, ContentsDistinct
  DEF SavesInv, FilesInv, SaveInv, CallInv, ReportInv, Installed, Unchanged, Undoable,
      Readable, RecoverPcs, ReplacePcs, RecoverDrop
<1> QED
  BY <1>2, <1>4, <1>5, <1>6, <1>7, <1>9, <1>10 DEF SavesInv

\* Recover's removal of an unusable active file preserves the invariant.
LEMMA RecoverClearInductive ==
    ASSUME TypeOK, TypeOK', SavesInv, RecoverClear,
           UNCHANGED <<stage, wifiReady, before, callFaults, crashes>>
    PROVE  SavesInv'
<1> USE DEF Paths, Exists, At, Goto, Return, Keep, Put, Remove, Rename, RemoveThen,
            RenameThen, locals
<1>1. Fault \/ NoFault
  BY DEF RecoverClear
<1>2. /\ CountInv'
      /\ Unfailed => FailedOnce
      /\ NoFault => (Unfailed' <=> Unfailed) /\ (FailedOnce' <=> FailedOnce)
      /\ Fault => ~Unfailed' /\ (FailedOnce' => Unfailed)
  BY <1>1, FaultsAreCounted DEF SavesInv
<1>3. /\ files \in [Paths -> Contents] /\ files' \in [Paths -> Contents]
      /\ before \in [Paths -> Contents] /\ wdata \in Payloads /\ wdata' = wdata /\ wop' = wop
      /\ stage \in {"off", "boot", "ready", "saving"} /\ wok \in BOOLEAN /\ whad \in BOOLEAN
  BY DEF TypeOK, WifiTypeOK, RecoverClear
<1>4. CallInv'
  BY DEF SavesInv, CallInv, RecoverClear, RecoverPcs, ReplacePcs
<1>5. CopiesInv'
  BY <1>3, ContentsDistinct DEF SavesInv, CopiesInv, FilesInv, RecoverClear
<1>6. LeftInv'
  BY <1>3, ContentsDistinct DEF SavesInv, LeftInv, FilesInv, Readable, RecoverClear
<1>7. FilesInv'
  BY <1>3, <1>6, ContentsDistinct DEF SavesInv, LeftInv, FilesInv, CopiesInv, Readable, RecoverClear
<1>8. /\ Effective(before) = IF before["active"] # Missing THEN before["active"] ELSE before["old"]
      /\ Effective(files) = IF files["active"] # Missing THEN files["active"] ELSE files["old"]
      /\ Effective(files') = IF files'["active"] # Missing THEN files'["active"] ELSE files'["old"]
  BY <1>3, <1>5, EffectiveIs, ContentsDistinct DEF SavesInv, CopiesInv
<1>9. SaveInv'
  BY <1>1, <1>2, <1>3, <1>8, ContentsDistinct
  DEF SavesInv, FilesInv, SaveInv, CallInv, Unchanged, Undoable, Readable, RecoverPcs,
      ReplacePcs, RecoverClear
<1>10. ReportInv'
  BY <1>1, <1>2, <1>3, <1>8, ContentsDistinct
  DEF SavesInv, FilesInv, SaveInv, CallInv, ReportInv, Installed, Unchanged, Undoable,
      Readable, RecoverPcs, ReplacePcs, RecoverClear
<1> QED
  BY <1>2, <1>4, <1>5, <1>6, <1>7, <1>9, <1>10 DEF SavesInv

\* Recover's return to the rollback file preserves the invariant.
LEMMA RecoverPromoteInductive ==
    ASSUME TypeOK, TypeOK', SavesInv, RecoverPromote,
           UNCHANGED <<stage, wifiReady, before, callFaults, crashes>>
    PROVE  SavesInv'
<1> USE DEF Paths, Exists, At, Goto, Return, Keep, Put, Remove, Rename, RemoveThen,
            RenameThen, locals
<1>1. Fault \/ NoFault
  BY DEF RecoverPromote
<1>2. /\ CountInv'
      /\ Unfailed => FailedOnce
      /\ NoFault => (Unfailed' <=> Unfailed) /\ (FailedOnce' <=> FailedOnce)
      /\ Fault => ~Unfailed' /\ (FailedOnce' => Unfailed)
  BY <1>1, FaultsAreCounted DEF SavesInv
<1>3. /\ files \in [Paths -> Contents] /\ files' \in [Paths -> Contents]
      /\ before \in [Paths -> Contents] /\ wdata \in Payloads /\ wdata' = wdata /\ wop' = wop
      /\ stage \in {"off", "boot", "ready", "saving"} /\ wok \in BOOLEAN /\ whad \in BOOLEAN
  BY DEF TypeOK, WifiTypeOK, RecoverPromote
<1>4. CallInv'
  BY DEF SavesInv, CallInv, RecoverPromote, RecoverPcs, ReplacePcs
<1>5. CopiesInv'
  BY <1>3, ContentsDistinct DEF SavesInv, CopiesInv, FilesInv, RecoverPromote
<1>6. LeftInv'
  BY <1>3, ContentsDistinct DEF SavesInv, LeftInv, FilesInv, Readable, RecoverPromote
<1>7. FilesInv'
  BY <1>3, <1>6, ContentsDistinct
  DEF SavesInv, LeftInv, FilesInv, CopiesInv, Readable, RecoverPromote
<1>8. /\ Effective(before) = IF before["active"] # Missing THEN before["active"] ELSE before["old"]
      /\ Effective(files) = IF files["active"] # Missing THEN files["active"] ELSE files["old"]
      /\ Effective(files') = IF files'["active"] # Missing THEN files'["active"] ELSE files'["old"]
  BY <1>3, <1>5, EffectiveIs, ContentsDistinct DEF SavesInv, CopiesInv
<1>9. SaveInv'
  BY <1>1, <1>2, <1>3, <1>8, ContentsDistinct
  DEF SavesInv, FilesInv, SaveInv, CallInv, Unchanged, Undoable, Readable, RecoverPcs,
      ReplacePcs, RecoverPromote
<1>10. ReportInv'
  BY <1>1, <1>2, <1>3, <1>8, ContentsDistinct
  DEF SavesInv, FilesInv, SaveInv, CallInv, ReportInv, Installed, Unchanged, Undoable,
      Readable, RecoverPcs, ReplacePcs, RecoverPromote
<1> QED
  BY <1>2, <1>4, <1>5, <1>6, <1>7, <1>9, <1>10 DEF SavesInv

\* Recover's removal of the temporary file preserves the invariant.
LEMMA RecoverTmpInductive ==
    ASSUME TypeOK, TypeOK', SavesInv, RecoverTmp,
           UNCHANGED <<stage, wifiReady, before, callFaults, crashes>>
    PROVE  SavesInv'
<1> USE DEF Paths, Exists, At, Goto, Return, Keep, Put, Remove, Rename, RemoveThen,
            RenameThen, locals
<1>1. Fault \/ NoFault
  BY DEF RecoverTmp
<1>2. /\ CountInv'
      /\ Unfailed => FailedOnce
      /\ NoFault => (Unfailed' <=> Unfailed) /\ (FailedOnce' <=> FailedOnce)
      /\ Fault => ~Unfailed' /\ (FailedOnce' => Unfailed)
  BY <1>1, FaultsAreCounted DEF SavesInv
<1>3. /\ files \in [Paths -> Contents] /\ files' \in [Paths -> Contents]
      /\ before \in [Paths -> Contents] /\ wdata \in Payloads /\ wdata' = wdata /\ wop' = wop
      /\ stage \in {"off", "boot", "ready", "saving"} /\ wok \in BOOLEAN /\ whad \in BOOLEAN
  BY DEF TypeOK, WifiTypeOK, RecoverTmp
<1>4. CallInv'
  BY DEF SavesInv, CallInv, RecoverTmp, RecoverPcs, ReplacePcs
<1>5. CopiesInv'
  BY <1>3, ContentsDistinct DEF SavesInv, CopiesInv, FilesInv, RecoverTmp
<1>6. LeftInv'
  BY <1>3, ContentsDistinct DEF SavesInv, LeftInv, FilesInv, Readable, RecoverTmp
<1>7. FilesInv'
  BY <1>3, <1>6, ContentsDistinct DEF SavesInv, LeftInv, FilesInv, CopiesInv, Readable, RecoverTmp
<1>8. /\ Effective(before) = IF before["active"] # Missing THEN before["active"] ELSE before["old"]
      /\ Effective(files) = IF files["active"] # Missing THEN files["active"] ELSE files["old"]
      /\ Effective(files') = IF files'["active"] # Missing THEN files'["active"] ELSE files'["old"]
  BY <1>3, <1>5, EffectiveIs, ContentsDistinct DEF SavesInv, CopiesInv
<1>9. SaveInv'
  BY <1>1, <1>2, <1>3, <1>8, ContentsDistinct
  DEF SavesInv, FilesInv, SaveInv, CallInv, Unchanged, Undoable, Readable, RecoverPcs,
      ReplacePcs, RecoverTmp
<1>10. ReportInv'
  BY <1>1, <1>2, <1>3, <1>8, ContentsDistinct
  DEF SavesInv, FilesInv, SaveInv, CallInv, ReportInv, Installed, Unchanged, Undoable,
      Readable, RecoverPcs, ReplacePcs, RecoverTmp
<1> QED
  BY <1>2, <1>4, <1>5, <1>6, <1>7, <1>9, <1>10 DEF SavesInv

\* Replace's opening of the temporary file preserves the invariant.
LEMMA WriteOpenInductive ==
    ASSUME TypeOK, TypeOK', SavesInv, WriteOpen,
           UNCHANGED <<stage, wifiReady, before, callFaults, crashes>>
    PROVE  SavesInv'
<1> USE DEF Paths, Exists, At, Goto, Return, Keep, Put, Remove, Rename, RemoveThen,
            RenameThen, locals
<1>1. Fault \/ NoFault
  BY DEF WriteOpen
<1>2. /\ CountInv'
      /\ Unfailed => FailedOnce
      /\ NoFault => (Unfailed' <=> Unfailed) /\ (FailedOnce' <=> FailedOnce)
      /\ Fault => ~Unfailed' /\ (FailedOnce' => Unfailed)
  BY <1>1, FaultsAreCounted DEF SavesInv
<1>3. /\ files \in [Paths -> Contents] /\ files' \in [Paths -> Contents]
      /\ before \in [Paths -> Contents] /\ wdata \in Payloads /\ wdata' = wdata /\ wop' = wop
      /\ stage \in {"off", "boot", "ready", "saving"} /\ wok \in BOOLEAN /\ whad \in BOOLEAN
  BY DEF TypeOK, WifiTypeOK, WriteOpen
<1>4. CallInv'
  BY DEF SavesInv, CallInv, WriteOpen, RecoverPcs, ReplacePcs
<1>5. CopiesInv'
  BY <1>3, ContentsDistinct DEF SavesInv, CopiesInv, FilesInv, WriteOpen
<1>6. LeftInv'
  BY <1>3, ContentsDistinct DEF SavesInv, LeftInv, FilesInv, Readable, WriteOpen
<1>7. FilesInv'
  BY <1>3, <1>6, ContentsDistinct DEF SavesInv, LeftInv, FilesInv, CopiesInv, Readable, WriteOpen
<1>8. /\ Effective(before) = IF before["active"] # Missing THEN before["active"] ELSE before["old"]
      /\ Effective(files) = IF files["active"] # Missing THEN files["active"] ELSE files["old"]
      /\ Effective(files') = IF files'["active"] # Missing THEN files'["active"] ELSE files'["old"]
  BY <1>3, <1>5, EffectiveIs, ContentsDistinct DEF SavesInv, CopiesInv
<1>9. SaveInv'
  BY <1>1, <1>2, <1>3, <1>8, ContentsDistinct
  DEF SavesInv, FilesInv, SaveInv, CallInv, Unchanged, Undoable, Readable, RecoverPcs,
      ReplacePcs, WriteOpen
<1>10. ReportInv'
  BY <1>1, <1>2, <1>3, <1>8, ContentsDistinct
  DEF SavesInv, FilesInv, SaveInv, CallInv, ReportInv, Installed, Unchanged, Undoable,
      Readable, RecoverPcs, ReplacePcs, WriteOpen
<1> QED
  BY <1>2, <1>4, <1>5, <1>6, <1>7, <1>9, <1>10 DEF SavesInv

\* Replace's write and verification of the temporary file preserves the invariant.
LEMMA WriteDataInductive ==
    ASSUME TypeOK, TypeOK', SavesInv, WriteData,
           UNCHANGED <<stage, wifiReady, before, callFaults, crashes>>
    PROVE  SavesInv'
<1> USE DEF Paths, Exists, At, Goto, Return, Keep, Put, Remove, Rename, RemoveThen,
            RenameThen, locals
<1>1. Fault \/ NoFault
  BY DEF WriteData
<1>2. /\ CountInv'
      /\ Unfailed => FailedOnce
      /\ NoFault => (Unfailed' <=> Unfailed) /\ (FailedOnce' <=> FailedOnce)
      /\ Fault => ~Unfailed' /\ (FailedOnce' => Unfailed)
  BY <1>1, FaultsAreCounted DEF SavesInv
<1>3. /\ files \in [Paths -> Contents] /\ files' \in [Paths -> Contents]
      /\ before \in [Paths -> Contents] /\ wdata \in Payloads /\ wdata' = wdata /\ wop' = wop
      /\ stage \in {"off", "boot", "ready", "saving"} /\ wok \in BOOLEAN /\ whad \in BOOLEAN
  BY DEF TypeOK, WifiTypeOK, WriteData
<1>4. CallInv'
  BY DEF SavesInv, CallInv, WriteData, RecoverPcs, ReplacePcs
<1>5. CopiesInv'
  BY <1>3, ContentsDistinct DEF SavesInv, CopiesInv, FilesInv, WriteData
<1>6. LeftInv'
  BY <1>3, ContentsDistinct DEF SavesInv, LeftInv, FilesInv, Readable, WriteData
<1>7. FilesInv'
  BY <1>3, <1>6, ContentsDistinct DEF SavesInv, LeftInv, FilesInv, CopiesInv, Readable, WriteData
<1>8. /\ Effective(before) = IF before["active"] # Missing THEN before["active"] ELSE before["old"]
      /\ Effective(files) = IF files["active"] # Missing THEN files["active"] ELSE files["old"]
      /\ Effective(files') = IF files'["active"] # Missing THEN files'["active"] ELSE files'["old"]
  BY <1>3, <1>5, EffectiveIs, ContentsDistinct DEF SavesInv, CopiesInv
<1>9. SaveInv'
  BY <1>1, <1>2, <1>3, <1>8, ContentsDistinct
  DEF SavesInv, FilesInv, SaveInv, CallInv, Unchanged, Undoable, Readable, RecoverPcs,
      ReplacePcs, WriteData
<1>10. ReportInv'
  BY <1>1, <1>2, <1>3, <1>8, ContentsDistinct
  DEF SavesInv, FilesInv, SaveInv, CallInv, ReportInv, Installed, Unchanged, Undoable,
      Readable, RecoverPcs, ReplacePcs, WriteData
<1> QED
  BY <1>2, <1>4, <1>5, <1>6, <1>7, <1>9, <1>10 DEF SavesInv

\* Replace's move of the active file aside preserves the invariant.
LEMMA DisplaceInductive ==
    ASSUME TypeOK, TypeOK', SavesInv, Displace,
           UNCHANGED <<stage, wifiReady, before, callFaults, crashes>>
    PROVE  SavesInv'
<1> USE DEF Paths, Exists, At, Goto, Return, Keep, Put, Remove, Rename, RemoveThen,
            RenameThen, locals
<1>1. Fault \/ NoFault
  BY DEF Displace
<1>2. /\ CountInv'
      /\ Unfailed => FailedOnce
      /\ NoFault => (Unfailed' <=> Unfailed) /\ (FailedOnce' <=> FailedOnce)
      /\ Fault => ~Unfailed' /\ (FailedOnce' => Unfailed)
  BY <1>1, FaultsAreCounted DEF SavesInv
<1>3. /\ files \in [Paths -> Contents] /\ files' \in [Paths -> Contents]
      /\ before \in [Paths -> Contents] /\ wdata \in Payloads /\ wdata' = wdata /\ wop' = wop
      /\ stage \in {"off", "boot", "ready", "saving"} /\ wok \in BOOLEAN /\ whad \in BOOLEAN
  BY DEF TypeOK, WifiTypeOK, Displace
<1>4. CallInv'
  BY DEF SavesInv, CallInv, Displace, RecoverPcs, ReplacePcs
<1>5. CopiesInv'
  BY <1>3, ContentsDistinct DEF SavesInv, CopiesInv, FilesInv, Displace
<1>6. LeftInv'
  BY <1>3, ContentsDistinct DEF SavesInv, LeftInv, FilesInv, Readable, Displace
<1>7. FilesInv'
  BY <1>3, <1>6, ContentsDistinct DEF SavesInv, LeftInv, FilesInv, CopiesInv, Readable, Displace
<1>8. /\ Effective(before) = IF before["active"] # Missing THEN before["active"] ELSE before["old"]
      /\ Effective(files) = IF files["active"] # Missing THEN files["active"] ELSE files["old"]
      /\ Effective(files') = IF files'["active"] # Missing THEN files'["active"] ELSE files'["old"]
  BY <1>3, <1>5, EffectiveIs, ContentsDistinct DEF SavesInv, CopiesInv
<1>9. SaveInv'
  BY <1>1, <1>2, <1>3, <1>8, ContentsDistinct
  DEF SavesInv, FilesInv, SaveInv, CallInv, Unchanged, Undoable, Readable, RecoverPcs,
      ReplacePcs, Displace
<1>10. ReportInv'
  BY <1>1, <1>2, <1>3, <1>8, ContentsDistinct
  DEF SavesInv, FilesInv, SaveInv, CallInv, ReportInv, Installed, Unchanged, Undoable,
      Readable, RecoverPcs, ReplacePcs, Displace
<1> QED
  BY <1>2, <1>4, <1>5, <1>6, <1>7, <1>9, <1>10 DEF SavesInv

\* Replace's renaming of the temporary file preserves the invariant.
LEMMA InstallInductive ==
    ASSUME TypeOK, TypeOK', SavesInv, Install,
           UNCHANGED <<stage, wifiReady, before, callFaults, crashes>>
    PROVE  SavesInv'
<1> USE DEF Paths, Exists, At, Goto, Return, Keep, Put, Remove, Rename, RemoveThen,
            RenameThen, locals
<1>1. Fault \/ NoFault
  BY DEF Install
<1>2. /\ CountInv'
      /\ Unfailed => FailedOnce
      /\ NoFault => (Unfailed' <=> Unfailed) /\ (FailedOnce' <=> FailedOnce)
      /\ Fault => ~Unfailed' /\ (FailedOnce' => Unfailed)
  BY <1>1, FaultsAreCounted DEF SavesInv
<1>3. /\ files \in [Paths -> Contents] /\ files' \in [Paths -> Contents]
      /\ before \in [Paths -> Contents] /\ wdata \in Payloads /\ wdata' = wdata /\ wop' = wop
      /\ stage \in {"off", "boot", "ready", "saving"} /\ wok \in BOOLEAN /\ whad \in BOOLEAN
  BY DEF TypeOK, WifiTypeOK, Install
<1>4. CallInv'
  BY DEF SavesInv, CallInv, Install, RecoverPcs, ReplacePcs
<1>5. CopiesInv'
  BY <1>3, ContentsDistinct DEF SavesInv, CopiesInv, FilesInv, Install
<1>6. LeftInv'
  BY <1>3, ContentsDistinct DEF SavesInv, LeftInv, FilesInv, Readable, Install
<1>7. FilesInv'
  BY <1>3, <1>6, ContentsDistinct DEF SavesInv, LeftInv, FilesInv, CopiesInv, Readable, Install
<1>8. /\ Effective(before) = IF before["active"] # Missing THEN before["active"] ELSE before["old"]
      /\ Effective(files) = IF files["active"] # Missing THEN files["active"] ELSE files["old"]
      /\ Effective(files') = IF files'["active"] # Missing THEN files'["active"] ELSE files'["old"]
  BY <1>3, <1>5, EffectiveIs, ContentsDistinct DEF SavesInv, CopiesInv
<1>9. SaveInv'
  BY <1>1, <1>2, <1>3, <1>8, ContentsDistinct
  DEF SavesInv, FilesInv, SaveInv, CallInv, Unchanged, Undoable, Readable, RecoverPcs,
      ReplacePcs, Install
<1>10. ReportInv'
  BY <1>1, <1>2, <1>3, <1>8, ContentsDistinct
  DEF SavesInv, FilesInv, SaveInv, CallInv, ReportInv, Installed, Unchanged, Undoable,
      Readable, RecoverPcs, ReplacePcs, Install
<1> QED
  BY <1>2, <1>4, <1>5, <1>6, <1>7, <1>9, <1>10 DEF SavesInv

\* Replace's check of the installed file preserves the invariant.
LEMMA ConfirmInductive ==
    ASSUME TypeOK, TypeOK', SavesInv, Confirm,
           UNCHANGED <<stage, wifiReady, before, callFaults, crashes>>
    PROVE  SavesInv'
<1> USE DEF Paths, Exists, At, Goto, Return, Keep, Put, Remove, Rename, RemoveThen,
            RenameThen, locals
<1>1. Fault \/ NoFault
  BY DEF Confirm, Reading
<1>2. /\ CountInv'
      /\ Unfailed => FailedOnce
      /\ NoFault => (Unfailed' <=> Unfailed) /\ (FailedOnce' <=> FailedOnce)
      /\ Fault => ~Unfailed' /\ (FailedOnce' => Unfailed)
  BY <1>1, FaultsAreCounted DEF SavesInv
<1>3. /\ files \in [Paths -> Contents] /\ files' \in [Paths -> Contents]
      /\ before \in [Paths -> Contents] /\ wdata \in Payloads /\ wdata' = wdata /\ wop' = wop
      /\ stage \in {"off", "boot", "ready", "saving"} /\ wok \in BOOLEAN /\ whad \in BOOLEAN
  BY DEF TypeOK, WifiTypeOK, Confirm
<1>4. CallInv'
  BY DEF SavesInv, CallInv, Confirm, RecoverPcs, ReplacePcs
<1>5. CopiesInv'
  BY <1>3, ContentsDistinct DEF SavesInv, CopiesInv, FilesInv, Confirm
<1>6. LeftInv'
  BY <1>3, ContentsDistinct DEF SavesInv, LeftInv, FilesInv, Readable, Confirm
<1>7. FilesInv'
  BY <1>3, <1>6, ContentsDistinct DEF SavesInv, LeftInv, FilesInv, CopiesInv, Readable, Confirm
<1>8. /\ Effective(before) = IF before["active"] # Missing THEN before["active"] ELSE before["old"]
      /\ Effective(files) = IF files["active"] # Missing THEN files["active"] ELSE files["old"]
      /\ Effective(files') = IF files'["active"] # Missing THEN files'["active"] ELSE files'["old"]
  BY <1>3, <1>5, EffectiveIs, ContentsDistinct DEF SavesInv, CopiesInv
<1>read. Goto("drop_old") \/ (Goto("restore_clear") /\ Fault)
  BY DEF Confirm, Seen, Reading, SavesInv, FilesInv
<1>9. SaveInv'
  BY <1>read, <1>1, <1>2, <1>3, <1>8, ContentsDistinct
  DEF SavesInv, SaveInv, FilesInv, CallInv, Unchanged, Undoable, Readable, RecoverPcs,
      ReplacePcs, Confirm
<1>10. ReportInv'
  BY <1>1, <1>2, <1>3, <1>8, ContentsDistinct
  DEF SavesInv, FilesInv, SaveInv, CallInv, ReportInv, Installed, Unchanged, Undoable,
      Readable, RecoverPcs, ReplacePcs, Confirm
<1> QED
  BY <1>2, <1>4, <1>5, <1>6, <1>7, <1>9, <1>10 DEF SavesInv

\* Replace's removal of the rollback file preserves the invariant.
LEMMA DropOldInductive ==
    ASSUME TypeOK, TypeOK', SavesInv, DropOld,
           UNCHANGED <<stage, wifiReady, before, callFaults, crashes>>
    PROVE  SavesInv'
<1> USE DEF Paths, Exists, At, Goto, Return, Keep, Put, Remove, Rename, RemoveThen,
            RenameThen, locals
<1>1. Fault \/ NoFault
  BY DEF DropOld
<1>2. /\ CountInv'
      /\ Unfailed => FailedOnce
      /\ NoFault => (Unfailed' <=> Unfailed) /\ (FailedOnce' <=> FailedOnce)
      /\ Fault => ~Unfailed' /\ (FailedOnce' => Unfailed)
  BY <1>1, FaultsAreCounted DEF SavesInv
<1>3. /\ files \in [Paths -> Contents] /\ files' \in [Paths -> Contents]
      /\ before \in [Paths -> Contents] /\ wdata \in Payloads /\ wdata' = wdata /\ wop' = wop
      /\ stage \in {"off", "boot", "ready", "saving"} /\ wok \in BOOLEAN /\ whad \in BOOLEAN
  BY DEF TypeOK, WifiTypeOK, DropOld
<1>4. CallInv'
  BY DEF SavesInv, CallInv, DropOld, RecoverPcs, ReplacePcs
<1>5. CopiesInv'
  BY <1>3, ContentsDistinct DEF SavesInv, CopiesInv, FilesInv, DropOld
<1>6. LeftInv'
  BY <1>3, ContentsDistinct DEF SavesInv, LeftInv, FilesInv, Readable, DropOld
<1>7. FilesInv'
  BY <1>3, <1>6, ContentsDistinct DEF SavesInv, LeftInv, FilesInv, CopiesInv, Readable, DropOld
<1>8. /\ Effective(before) = IF before["active"] # Missing THEN before["active"] ELSE before["old"]
      /\ Effective(files) = IF files["active"] # Missing THEN files["active"] ELSE files["old"]
      /\ Effective(files') = IF files'["active"] # Missing THEN files'["active"] ELSE files'["old"]
  BY <1>3, <1>5, EffectiveIs, ContentsDistinct DEF SavesInv, CopiesInv
<1>9. SaveInv'
  BY <1>1, <1>2, <1>3, <1>8, ContentsDistinct
  DEF SavesInv, FilesInv, SaveInv, CallInv, Unchanged, Undoable, Readable, RecoverPcs,
      ReplacePcs, DropOld
<1>10. ReportInv'
  BY <1>1, <1>2, <1>3, <1>8, ContentsDistinct
  DEF SavesInv, FilesInv, SaveInv, CallInv, ReportInv, Installed, Unchanged, Undoable,
      Readable, RecoverPcs, ReplacePcs, DropOld
<1> QED
  BY <1>2, <1>4, <1>5, <1>6, <1>7, <1>9, <1>10 DEF SavesInv

\* RestoreOld's removal of the new file preserves the invariant.
LEMMA RestoreClearInductive ==
    ASSUME TypeOK, TypeOK', SavesInv, RestoreClear,
           UNCHANGED <<stage, wifiReady, before, callFaults, crashes>>
    PROVE  SavesInv'
<1> USE DEF Paths, Exists, At, Goto, Return, Keep, Put, Remove, Rename, RemoveThen,
            RenameThen, locals
<1>1. Fault \/ NoFault
  BY DEF RestoreClear
<1>2. /\ CountInv'
      /\ Unfailed => FailedOnce
      /\ NoFault => (Unfailed' <=> Unfailed) /\ (FailedOnce' <=> FailedOnce)
      /\ Fault => ~Unfailed' /\ (FailedOnce' => Unfailed)
  BY <1>1, FaultsAreCounted DEF SavesInv
<1>3. /\ files \in [Paths -> Contents] /\ files' \in [Paths -> Contents]
      /\ before \in [Paths -> Contents] /\ wdata \in Payloads /\ wdata' = wdata /\ wop' = wop
      /\ stage \in {"off", "boot", "ready", "saving"} /\ wok \in BOOLEAN /\ whad \in BOOLEAN
  BY DEF TypeOK, WifiTypeOK, RestoreClear
<1>4. CallInv'
  BY DEF SavesInv, CallInv, RestoreClear, RecoverPcs, ReplacePcs
<1>5. CopiesInv'
  BY <1>3, ContentsDistinct DEF SavesInv, CopiesInv, FilesInv, RestoreClear
<1>6. LeftInv'
  BY <1>3, ContentsDistinct DEF SavesInv, LeftInv, FilesInv, Readable, RestoreClear
<1>7. FilesInv'
  BY <1>3, <1>6, ContentsDistinct DEF SavesInv, LeftInv, FilesInv, CopiesInv, Readable, RestoreClear
<1>8. /\ Effective(before) = IF before["active"] # Missing THEN before["active"] ELSE before["old"]
      /\ Effective(files) = IF files["active"] # Missing THEN files["active"] ELSE files["old"]
      /\ Effective(files') = IF files'["active"] # Missing THEN files'["active"] ELSE files'["old"]
  BY <1>3, <1>5, EffectiveIs, ContentsDistinct DEF SavesInv, CopiesInv
<1>9. SaveInv'
  BY <1>1, <1>2, <1>3, <1>8, ContentsDistinct
  DEF SavesInv, FilesInv, SaveInv, CallInv, Unchanged, Undoable, Readable, RecoverPcs,
      ReplacePcs, RestoreClear
<1>10. ReportInv'
  BY <1>1, <1>2, <1>3, <1>8, ContentsDistinct
  DEF SavesInv, FilesInv, SaveInv, CallInv, ReportInv, Installed, Unchanged, Undoable,
      Readable, RecoverPcs, ReplacePcs, RestoreClear
<1> QED
  BY <1>2, <1>4, <1>5, <1>6, <1>7, <1>9, <1>10 DEF SavesInv

\* RestoreOld's return of the previous file preserves the invariant.
LEMMA RestoreRenameInductive ==
    ASSUME TypeOK, TypeOK', SavesInv, RestoreRename,
           UNCHANGED <<stage, wifiReady, before, callFaults, crashes>>
    PROVE  SavesInv'
<1> USE DEF Paths, Exists, At, Goto, Return, Keep, Put, Remove, Rename, RemoveThen,
            RenameThen, locals
<1>1. Fault \/ NoFault
  BY DEF RestoreRename
<1>2. /\ CountInv'
      /\ Unfailed => FailedOnce
      /\ NoFault => (Unfailed' <=> Unfailed) /\ (FailedOnce' <=> FailedOnce)
      /\ Fault => ~Unfailed' /\ (FailedOnce' => Unfailed)
  BY <1>1, FaultsAreCounted DEF SavesInv
<1>3. /\ files \in [Paths -> Contents] /\ files' \in [Paths -> Contents]
      /\ before \in [Paths -> Contents] /\ wdata \in Payloads /\ wdata' = wdata /\ wop' = wop
      /\ stage \in {"off", "boot", "ready", "saving"} /\ wok \in BOOLEAN /\ whad \in BOOLEAN
  BY DEF TypeOK, WifiTypeOK, RestoreRename
<1>4. CallInv'
  BY DEF SavesInv, CallInv, RestoreRename, RecoverPcs, ReplacePcs
<1>5. CopiesInv'
  BY <1>3, ContentsDistinct DEF SavesInv, CopiesInv, FilesInv, RestoreRename
<1>6. LeftInv'
  BY <1>3, ContentsDistinct DEF SavesInv, LeftInv, FilesInv, Readable, RestoreRename
<1>7. FilesInv'
  BY <1>3, <1>6, ContentsDistinct
  DEF SavesInv, LeftInv, FilesInv, CopiesInv, Readable, RestoreRename
<1>8. /\ Effective(before) = IF before["active"] # Missing THEN before["active"] ELSE before["old"]
      /\ Effective(files) = IF files["active"] # Missing THEN files["active"] ELSE files["old"]
      /\ Effective(files') = IF files'["active"] # Missing THEN files'["active"] ELSE files'["old"]
  BY <1>3, <1>5, EffectiveIs, ContentsDistinct DEF SavesInv, CopiesInv
<1>9. SaveInv'
  BY <1>1, <1>2, <1>3, <1>8, ContentsDistinct
  DEF SavesInv, FilesInv, SaveInv, CallInv, Unchanged, Undoable, Readable, RecoverPcs,
      ReplacePcs, RestoreRename
<1>10. ReportInv'
  BY <1>1, <1>2, <1>3, <1>8, ContentsDistinct
  DEF SavesInv, FilesInv, SaveInv, CallInv, ReportInv, Installed, Unchanged, Undoable,
      Readable, RecoverPcs, ReplacePcs, RestoreRename
<1> QED
  BY <1>2, <1>4, <1>5, <1>6, <1>7, <1>9, <1>10 DEF SavesInv

\* Replace's removal of the temporary file after a failure preserves the invariant.
LEMMA DiscardInductive ==
    ASSUME TypeOK, TypeOK', SavesInv, Discard,
           UNCHANGED <<stage, wifiReady, before, callFaults, crashes>>
    PROVE  SavesInv'
<1> USE DEF Paths, Exists, At, Goto, Return, Keep, Put, Remove, Rename, RemoveThen,
            RenameThen, locals
<1>1. Fault \/ NoFault
  BY DEF Discard
<1>2. /\ CountInv'
      /\ Unfailed => FailedOnce
      /\ NoFault => (Unfailed' <=> Unfailed) /\ (FailedOnce' <=> FailedOnce)
      /\ Fault => ~Unfailed' /\ (FailedOnce' => Unfailed)
  BY <1>1, FaultsAreCounted DEF SavesInv
<1>3. /\ files \in [Paths -> Contents] /\ files' \in [Paths -> Contents]
      /\ before \in [Paths -> Contents] /\ wdata \in Payloads /\ wdata' = wdata /\ wop' = wop
      /\ stage \in {"off", "boot", "ready", "saving"} /\ wok \in BOOLEAN /\ whad \in BOOLEAN
  BY DEF TypeOK, WifiTypeOK, Discard
<1>4. CallInv'
  BY DEF SavesInv, CallInv, Discard, RecoverPcs, ReplacePcs
<1>5. CopiesInv'
  BY <1>3, ContentsDistinct DEF SavesInv, CopiesInv, FilesInv, Discard
<1>6. LeftInv'
  BY <1>3, ContentsDistinct DEF SavesInv, LeftInv, FilesInv, Readable, Discard
<1>7. FilesInv'
  BY <1>3, <1>6, ContentsDistinct DEF SavesInv, LeftInv, FilesInv, CopiesInv, Readable, Discard
<1>8. /\ Effective(before) = IF before["active"] # Missing THEN before["active"] ELSE before["old"]
      /\ Effective(files) = IF files["active"] # Missing THEN files["active"] ELSE files["old"]
      /\ Effective(files') = IF files'["active"] # Missing THEN files'["active"] ELSE files'["old"]
  BY <1>3, <1>5, EffectiveIs, ContentsDistinct DEF SavesInv, CopiesInv
<1>9. SaveInv'
  BY <1>1, <1>2, <1>3, <1>8, ContentsDistinct
  DEF SavesInv, FilesInv, SaveInv, CallInv, Unchanged, Undoable, Readable, RecoverPcs,
      ReplacePcs, Discard
<1>10. ReportInv'
  BY <1>1, <1>2, <1>3, <1>8, ContentsDistinct
  DEF SavesInv, FilesInv, SaveInv, CallInv, ReportInv, Installed, Unchanged, Undoable,
      Readable, RecoverPcs, ReplacePcs, Discard
<1> QED
  BY <1>2, <1>4, <1>5, <1>6, <1>7, <1>9, <1>10 DEF SavesInv

-----------------------------------------------------------------------------
(* The calls, the returns and the power cuts                               *)

\* Any storage operation of a boot or of a save preserves the invariant.
LEMMA StorageInductive ==
    ASSUME TypeOK, TypeOK', SavesInv, StorageStep
    PROVE  SavesInv'
BY RecoverInspectInductive, RecoverDropInductive, RecoverClearInductive, RecoverPromoteInductive,
   RecoverTmpInductive, WriteOpenInductive, WriteDataInductive, DisplaceInductive, InstallInductive,
   ConfirmInductive, DropOldInductive, RestoreClearInductive, RestoreRenameInductive, DiscardInductive
DEF StorageStep, RecoverStep, ReplaceStep

\* A boot, a save and the end of either preserve the invariant.
LEMMA CallsInductive ==
    ASSUME TypeOK, TypeOK', SavesInv,
           Boot \/ BootDone \/ (\E data \in Payloads : Save(data)) \/ SaveDone \/ PowerCut
    PROVE  SavesInv'
<1> USE DEF locals, RecoverPcs, ReplacePcs
<1>0. /\ files \in [Paths -> Contents] /\ before \in [Paths -> Contents] /\ wdata \in Payloads
      /\ faults \in Nat /\ callFaults \in Nat
      /\ stage \in {"off", "boot", "ready", "saving"}
  BY MaxFaultsNat DEF TypeOK, WifiTypeOK
<1>1. CASE Boot
  <2>1. UNCHANGED <<files, before, wdata>> /\ callFaults' = faults /\ faults' = faults
        /\ stage' = "boot" /\ wpc' = "recover" /\ wop' = "recover"
    BY <1>1 DEF Boot, CallRecover, Call
  <2> QED
    BY <2>1, <1>0 DEF SavesInv, CountInv, CallInv, CopiesInv, LeftInv, FilesInv, SaveInv, ReportInv,
        Readable
<1>2. CASE BootDone
  <2>1. UNCHANGED <<files, before, wdata, wop, faults, callFaults>> /\ stage = "boot"
        /\ stage' = "ready" /\ wpc' = "idle"
    BY <1>2 DEF BootDone, Returned
  <2> QED
    BY <2>1, <1>0 DEF SavesInv, CountInv, CallInv, CopiesInv, LeftInv, FilesInv, SaveInv, ReportInv,
        Readable
<1>3. CASE \E data \in Payloads : Save(data)
  <2>1. /\ UNCHANGED <<files, faults>> /\ before' = files /\ callFaults' = faults
        /\ stage' = "saving" /\ wpc' = "recover" /\ wop' = "replace"
    BY <1>3 DEF Save, CallReplace, Call
  <2>2. CopiesInv'
    BY <1>0, <2>1, ContentsDistinct DEF SavesInv, CopiesInv
  <2>3. Unchanged'
    BY <2>1 DEF Unchanged
  <2> QED
    BY <2>1, <2>2, <2>3, <1>0
    DEF SavesInv, CountInv, CallInv, LeftInv, FilesInv, SaveInv, ReportInv, Readable
<1>4. CASE SaveDone
  <2>1. UNCHANGED <<files, before, wdata, wop, wret, faults, callFaults>> /\ stage = "saving"
        /\ wpc = "returned" /\ stage' = "ready" /\ wpc' = "idle"
    BY <1>4 DEF SaveDone, Returned
  <2>2. ReportInv'
    BY <2>1 DEF SavesInv, CallInv, ReportInv, Installed, FailedOnce, Unchanged
  <2> QED
    BY <2>1, <2>2, <1>0
    DEF SavesInv, CountInv, CallInv, CopiesInv, LeftInv, FilesInv, SaveInv, Readable
<1>5. CASE PowerCut
  <2>1. UNCHANGED <<files, before, wdata, faults, callFaults>>
        /\ stage' = "off" /\ wpc' = "idle" /\ wop' = "none"
    BY <1>5 DEF PowerCut, LoseRam
  <2> QED
    BY <2>1, <1>0 DEF SavesInv, CountInv, CallInv, CopiesInv, LeftInv, FilesInv, SaveInv, ReportInv,
        Readable
<1> QED
  BY <1>1, <1>2, <1>3, <1>4, <1>5

\* SavesInv holds in every reachable state.
THEOREM SavesInvariant == Spec => [](TypeOK /\ SavesInv)
<1>1. Init => SavesInv
  <2> SUFFICES ASSUME Init PROVE SavesInv
    OBVIOUS
  <2>1. files \in [Paths -> {Missing, Empty}] /\ files["old"] = Missing
        /\ before = files /\ wpc = "idle" /\ wop = "none" /\ stage = "off" /\ faults = 0 /\ callFaults = 0
    BY DEF Init, WifiInit, Paths
  <2> QED
    BY <2>1, ContentsDistinct
    DEF SavesInv, CountInv, CallInv, CopiesInv, LeftInv, FilesInv, SaveInv, ReportInv,
        Readable, Paths
<1>2. ASSUME TypeOK, SavesInv, [Next]_vars
      PROVE  SavesInv'
  <2>1. TypeOK'
    BY <1>2, NextTyped
  <2>2. CASE UNCHANGED vars
    BY <1>2, <2>2
    DEF vars, wvars, locals, SavesInv, CountInv, CallInv, CopiesInv, LeftInv, FilesInv, SaveInv,
        ReportInv, Readable, Exists, Unchanged, Undoable, Unfailed, FailedOnce, Installed
  <2> QED
    BY <1>2, <2>1, <2>2, StorageInductive, CallsInductive DEF Next
<1> QED
  BY <1>1, <1>2, InitTyped, NextTyped, PTL DEF Spec

-----------------------------------------------------------------------------
(* The theorems                                                            *)

\* A device that had usable credentials keeps usable ones, old or new,
\* through any failures and power cuts (wifi_config_atomic.h).
THEOREM AlwaysOldOrNew == Spec => []OldOrNew
<1>1. ASSUME TypeOK, SavesInv
      PROVE  OldOrNew
  <2>1. files \in [Paths -> Contents] /\ before \in [Paths -> Contents] /\ wdata \in Payloads
    BY <1>1 DEF TypeOK, WifiTypeOK
  <2>2. \A p \in {"active", "old"} :
          /\ files[p] # Partial /\ before[p] # Partial
          /\ files[p] \in {Missing, wdata, before["active"], before["old"]}
    BY <1>1, <2>1, ContentsDistinct DEF SavesInv, CopiesInv
  <2>3. /\ Effective(before) = IF before["active"] # Missing THEN before["active"] ELSE before["old"]
        /\ Effective(files) = IF files["active"] # Missing THEN files["active"] ELSE files["old"]
    BY <2>1, <2>2, EffectiveIs
  <2>4. Effective(files) = Missing => Effective(before) = Missing
    BY <1>1, <2>3 DEF SavesInv, LeftInv, Readable
  <2>5. Effective(files) # Missing => Valid(Effective(files))
    BY <2>1, <2>2, <2>3 DEF Valid, Contents, Paths
  <2>6. Effective(files) \in {wdata, Effective(before), before["active"], before["old"]}
    BY <2>2, <2>3, <2>4
  <2> QED
    BY <2>4, <2>5, <2>6 DEF OldOrNew
<1> QED
  BY <1>1, SavesInvariant, PTL

\* replace tells its caller the truth about which credentials are in use.
THEOREM AlwaysSaveReport == Spec => []SaveReport
<1>1. ASSUME TypeOK, SavesInv
      PROVE  SaveReport
  BY <1>1 DEF TypeOK, SavesInv, CallInv, ReportInv, Installed, FailedOnce, Unchanged, SaveReport
<1> QED
  BY <1>1, SavesInvariant, PTL

\* No procedure asks SPIFFS for a rename it would refuse.
THEOREM AlwaysRenamesAllowed == Spec => []RenamesAllowed
<1>1. ASSUME TypeOK, SavesInv
      PROVE  RenamesAllowed
  BY <1>1, ContentsDistinct
  DEF TypeOK, WifiTypeOK, SavesInv, FilesInv, RenamesAllowed, RenameAllowed, Exists
<1> QED
  BY <1>1, SavesInvariant, PTL

-----------------------------------------------------------------------------
(* A save is one step                                                      *)

LEMMA EffectiveNow ==
    ASSUME TypeOK, SavesInv
    PROVE  /\ files["active"] # Partial /\ files["old"] # Partial
           /\ Effective(files) = IF Exists("active") THEN files["active"] ELSE files["old"]
<1>1. files \in [Paths -> Contents] /\ before \in [Paths -> Contents] /\ wdata \in Payloads
  BY DEF TypeOK, WifiTypeOK
<1>2. files["active"] # Partial /\ files["old"] # Partial
  BY <1>1, ContentsDistinct DEF SavesInv, CopiesInv
<1> QED
  BY <1>1, <1>2, EffectiveIs DEF Exists

\* What a reading returns when it does not fail.
LEMMA ReadRight ==
    ASSUME TypeOK, NEW read, NEW bad \in Misreads(read), Reading(bad), NoFault
    PROVE  \A p \in Paths : Seen(p, bad) = files[p]
BY MaxFaultsNat DEF TypeOK, WifiTypeOK, Reading, Fault, NoFault, Misreads, Seen, Paths

\* The active file is cleared only when it is not there.
LEMMA ClearKept ==
    ASSUME TypeOK, SavesInv, ClearInv, [Next]_vars, [Trusted]_vars
    PROVE  ClearInv'
<1>0. files \in [Paths -> Contents] /\ \A p \in {"active", "old"} : files[p] # Partial
  BY EffectiveNow DEF TypeOK, WifiTypeOK
<1> USE DEF Paths, Exists, At, Goto, Return, Keep, Put, Remove, Rename, RemoveThen,
            RenameThen, locals, ClearInv
<1>1. CASE UNCHANGED vars
  BY <1>1 DEF vars, wvars
<1>2. CASE Boot \/ BootDone \/ PowerCut \/ (\E data \in Payloads : Save(data)) \/ SaveDone
  BY <1>2 DEF Boot, BootDone, PowerCut, Save, SaveDone, CallRecover, CallReplace, Call, Returned, LoseRam
<1>3. CASE RecoverInspect
  <2>1. NoFault
    BY <1>3 DEF Trusted, RecoverInspect, vars, wvars, NoFault
  <2>2. PICK bad \in Misreads({"active", "old"}) :
          Reading(bad) /\ Goto(RecoverChoice(Seen("active", bad), Seen("old", bad)))
    BY <1>3 DEF RecoverInspect
  <2>3. Seen("active", bad) = files["active"] /\ Seen("old", bad) = files["old"]
    BY <2>1, <2>2, ReadRight
  <2>4. files["active"] # Missing => Valid(files["active"])
    BY <1>0, ContentsDistinct DEF Valid, Contents
  <2> QED
    BY <1>3, <2>2, <2>3, <2>4 DEF RecoverInspect, RecoverChoice
<1>4. CASE RecoverDrop \/ RecoverClear \/ RecoverPromote \/ RecoverTmp
  BY <1>4 DEF RecoverDrop, RecoverClear, RecoverPromote, RecoverTmp
<1>5. CASE WriteOpen \/ WriteData \/ Displace
  BY <1>5 DEF WriteOpen, WriteData, Displace
<1>6. CASE Install
  BY <1>6 DEF Install, SavesInv, FilesInv
<1>7. CASE Confirm
  <2>1. NoFault
    BY <1>7 DEF Trusted, Confirm, vars, wvars, NoFault
  <2>2. PICK bad \in Misreads({"active"}) :
          Reading(bad) /\ Goto(IF Seen("active", bad) = wdata THEN "drop_old" ELSE "restore_clear")
    BY <1>7 DEF Confirm
  <2>3. Seen("active", bad) = wdata
    BY <1>7, <2>1, <2>2, ReadRight DEF Confirm, SavesInv, FilesInv
  <2> QED
    BY <2>2, <2>3
<1>8. CASE DropOld
  <2>1. NoFault
    BY <1>8 DEF Trusted, DropOld, vars, wvars, NoFault
  <2>2. ~Fault
    BY <2>1, MaxFaultsNat DEF Fault, NoFault, TypeOK, WifiTypeOK
  <2> QED
    BY <1>8, <2>2 DEF DropOld
<1>9. CASE RestoreClear \/ RestoreRename \/ Discard
  BY <1>9 DEF RestoreClear, RestoreRename, Discard
<1> QED
  BY <1>1, <1>2, <1>3, <1>4, <1>5, <1>6, <1>7, <1>8, <1>9 DEF Next, StorageStep, RecoverStep, ReplaceStep

\* A storage operation that installs nothing leaves what a reboot would use.
LEMMA OperationKeeps ==
    ASSUME TypeOK, TypeOK', SavesInv, SavesInv', ClearInv, Trusted, StorageStep
    PROVE  \/ Effective(files') = Effective(files) /\ (Updating' => Updating)
           \/ Install /\ Effective(files') = wdata /\ Updating /\ ~Updating'
<1>0. /\ files \in [Paths -> Contents] /\ files' \in [Paths -> Contents] /\ wdata' = wdata /\ stage' = stage
      /\ Effective(files) = IF Exists("active") THEN files["active"] ELSE files["old"]
      /\ Effective(files') = IF files'["active"] # Missing THEN files'["active"] ELSE files'["old"]
  <2>1. files' \in [Paths -> Contents] /\ files'["active"] # Partial /\ files'["old"] # Partial
    BY ContentsDistinct DEF TypeOK, WifiTypeOK, SavesInv, CopiesInv
  <2>2. wdata' = wdata /\ stage' = stage
    BY DEF StorageStep, RecoverStep, ReplaceStep, RecoverInspect, RecoverDrop, RecoverClear, RecoverPromote,
           RecoverTmp, WriteOpen, WriteData, Displace, Install, Confirm, DropOld, RestoreClear, RestoreRename,
           Discard, At, locals
  <2> QED
    BY <2>1, <2>2, EffectiveNow, EffectiveIs DEF TypeOK, WifiTypeOK
<1> USE DEF Paths, Exists, At, Goto, Return, Keep, Put, Remove, Rename, RemoveThen,
            RenameThen, locals, ClearInv, Updating, RecoverPcs
<1>1. CASE RecoverInspect \/ Confirm
  BY <1>0, <1>1 DEF RecoverInspect, Confirm, RecoverChoice, SavesInv, CallInv
<1>2. CASE RecoverDrop \/ RecoverClear \/ RecoverPromote \/ RecoverTmp
  BY <1>0, <1>2 DEF RecoverDrop, RecoverClear, RecoverPromote, RecoverTmp, SavesInv, FilesInv
<1>3. CASE WriteOpen \/ WriteData \/ Discard
  BY <1>0, <1>3 DEF WriteOpen, WriteData, Discard
<1>4. CASE Displace
  BY <1>0, <1>4, ContentsDistinct DEF Displace, SavesInv, FilesInv
<1>5. CASE Install
  BY <1>0, <1>5, ContentsDistinct DEF Install, SavesInv, FilesInv, CallInv, TypeOK, WifiTypeOK
<1>6. CASE DropOld
  <2>1. NoFault
    BY <1>6 DEF Trusted, DropOld
  <2>2. ~Fault
    BY <2>1, MaxFaultsNat DEF Fault, NoFault, TypeOK, WifiTypeOK
  <2> QED
    BY <1>0, <1>6, <2>2, ContentsDistinct DEF DropOld, SavesInv, FilesInv, TypeOK, WifiTypeOK
<1>7. CASE RestoreClear \/ RestoreRename
  BY <1>0, <1>7 DEF RestoreClear, RestoreRename, SavesInv, FilesInv
<1> QED
  BY <1>1, <1>2, <1>3, <1>4, <1>5, <1>6, <1>7 DEF StorageStep, RecoverStep, ReplaceStep

LEMMA UpdateStarts == Init => Update!Init
<1> SUFFICES ASSUME Init PROVE Update!Init
  OBVIOUS
<1>1. files["active"] \in {Missing, Empty} /\ files["old"] = Missing /\ ~Updating
  BY DEF Init, WifiInit, Paths, Updating
<1> QED
  BY <1>1 DEF Update!Init, Effective

\* Every step begins an update, installs it, gives it up or changes nothing.
LEMMA UpdateSteps ==
    ASSUME TypeOK, TypeOK', SavesInv, SavesInv', ClearInv, [Next]_vars, [Trusted]_vars
    PROVE  [Update!Next]_(Update!vars)
<1>0. wdata # Partial /\ wdata' # Partial
  BY ContentsDistinct DEF TypeOK, WifiTypeOK
<1>1. ASSUME Effective(files') = Effective(files), wdata' = wdata, Updating' => Updating
      PROVE  [Update!Next]_(Update!vars)
  BY <1>0, <1>1 DEF Update!Next, Update!Abort, Update!vars
<1>2. CASE UNCHANGED vars
  BY <1>1, <1>2 DEF vars, wvars, locals, Updating
<1>3. CASE Boot \/ BootDone \/ SaveDone \/ PowerCut
  BY <1>1, <1>3 DEF Boot, BootDone, SaveDone, PowerCut, CallRecover, Call, Returned, LoseRam, locals, Updating
<1>4. CASE \E data \in Payloads : Save(data)
  <2>1. /\ files' = files /\ ~Updating /\ Updating' /\ wdata' \in Payloads
    BY <1>4 DEF Save, CallReplace, Call, Updating, RecoverPcs
  <2>2. Update!Begin(wdata')
    BY <2>1 DEF Update!Begin
  <2> QED
    BY <2>1, <2>2 DEF Update!Next
<1>5. CASE StorageStep
  <2>1. wdata' = wdata
    BY <1>5 DEF StorageStep, RecoverStep, ReplaceStep, RecoverInspect, RecoverDrop, RecoverClear, RecoverPromote,
           RecoverTmp, WriteOpen, WriteData, Displace, Install, Confirm, DropOld, RestoreClear, RestoreRename,
           Discard, At, locals
  <2>2. Trusted
    BY <1>5 DEF vars, wvars, Trusted, NoFault
  <2>3. CASE Effective(files') = Effective(files) /\ (Updating' => Updating)
    BY <1>1, <2>1, <2>3
  <2>4. CASE Install /\ Effective(files') = wdata /\ Updating /\ ~Updating'
    <3>1. Update!Commit
      BY <1>0, <2>4 DEF Update!Commit
    <3> QED
      BY <3>1 DEF Update!Next
  <2> QED
    BY <1>5, <2>2, <2>3, <2>4, OperationKeeps
<1> QED
  BY <1>2, <1>3, <1>4, <1>5 DEF Next

\* A save implements AtomicUpdate, whatever write or rename fails and
\* wherever the power is cut: a reboot uses the old credentials or the new
\* ones, and never goes back (replace and recover of wifi_config_atomic.h).
THEOREM SavesAtomically == Spec /\ [][Trusted]_vars => SaveAtomic
<1>1. Init => ClearInv
  BY DEF Init, WifiInit, ClearInv
<1>2. TypeOK /\ SavesInv /\ ClearInv /\ [Next]_vars /\ [Trusted]_vars => ClearInv'
  BY ClearKept
<1>3. Init => Update!Init
  BY UpdateStarts
<1>4. TypeOK /\ TypeOK' /\ SavesInv /\ SavesInv' /\ ClearInv /\ [Next]_vars /\ [Trusted]_vars
        => [Update!Next]_(Update!vars)
  BY UpdateSteps
<1> QED
  BY <1>1, <1>2, <1>3, <1>4, SavesInvariant, PTL DEF Spec, SaveAtomic, Update!Spec
=============================================================================
