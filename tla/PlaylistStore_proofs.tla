------------------------- MODULE PlaylistStore_proofs -------------------------
(***************************************************************************)
(* The station list for any stations, any bound on its length and any      *)
(* number of failing operations, requests, play commands and power cuts:   *)
(* IInv is inductive, and so a recovery always ends with the list from     *)
(* before the last request, the new one or a rollback copy left earlier;   *)
(* and RequestInv is inductive beside it, so the answers are true, a whole *)
(* index is beside its list, and the selected station stays selected.      *)
(* While the rest of a commit does not fail, a change of the list          *)
(* implements AtomicUpdate.                                                *)
(* The proof takes the procedures one by one, in each its steps, and under *)
(* a step the files, the control state, the flags and numbers, and what    *)
(* the stages know.                                                        *)
(***************************************************************************)
EXTENDS PlaylistStore, SequenceTheorems, TLAPS

USE PlaylistAssumption, ContentsDistinct

\* The frame of a step, its storage operation, and abbreviations.
USE DEF At, Step, files, selection, locals, player, history, Keep, NoFault, Fault,
        PutCsv, PutIndex, MoveCsv, MoveIndex, IsList, Active, Backup, NoList, LegacyList

\* A list is a sequence, and a bounded one.
LEMMA ListElements ==
  ASSUME NEW list \in Lists
  PROVE  /\ list \in Seq(Stations) /\ Len(list) \in 0 .. MaxRows
         /\ DOMAIN list = 1 .. Len(list) /\ list \in [1 .. Len(list) -> Stations]
  <1>1. PICK n \in 0 .. MaxRows : list \in [1 .. n -> Stations]
    BY DEF Lists
  <1>2. list \in Seq(Stations) /\ Len(list) = n
    BY <1>1
  <1>. QED BY <1>1, <1>2

\* The empty list and the part of a list that was written are lists.
LEMMA ListsAreLists ==
  /\ <<>> \in Lists
  /\ \A list \in Lists : Len(list) \in Positions
  /\ \A list \in Lists : \A n \in 0 .. Len(list) : SubSeq(list, 1, n) \in Lists
  <1>1. <<>> \in Lists
    <2>1. <<>> \in [1 .. 0 -> Stations]
      OBVIOUS
    <2>. QED BY <2>1, 0 \in 0 .. MaxRows DEF Lists
  <1>2. ASSUME NEW list \in Lists, NEW n \in 0 .. Len(list)
        PROVE  SubSeq(list, 1, n) \in Lists
    <2> DEFINE part == SubSeq(list, 1, n)
    <2>1. \A j \in 1 .. n : list[j] \in Stations
      BY ListElements
    <2>2. n \in Int /\ 1 \in Int /\ n - 1 + 1 = n /\ n \in 0 .. MaxRows
      BY ListElements
    <2>3. part \in Seq(Stations) /\ \A j \in 1 .. n - 1 + 1 : part[j] = list[1 + j - 1]
      BY <2>1, <2>2, SubSeqProperties
    <2>4. Len(part) = IF 1 <= n THEN n - 1 + 1 ELSE 0
      BY <2>1, <2>2, SubSeqProperties
    <2>5. Len(part) = n
      BY <2>2, <2>4
    <2> HIDE DEF part
    <2>6. part \in [1 .. n -> Stations]
      BY <2>3, <2>5
    <2>7. \A j \in 1 .. n : part[j] = list[j]
      BY <2>2, <2>3
    <2>8. \A j, k \in DOMAIN part : part[j] = part[k] => j = k
      BY <2>2, <2>6, <2>7, ListElements DEF Lists
    <2>9. part \in Lists
      BY <2>2, <2>6, <2>8 DEF Lists
    <2>. QED BY <2>9 DEF part
  <1>. QED BY <1>1, <1>2, ListElements DEF Positions

\* An installed index is a whole one.
LEMMA CountIsPosition == IInv => Count \in Positions
  BY DEF IInv, TypeOK, FilesOK, IndexInv, Count, Exists, Positions, Copies, Indexes

\* recover: a copy goes only while the other one is a list.
LEMMA RecoverStepKeeps == ASSUME IInv, RecoverStep PROVE IInv'
<1> USE ListsAreLists
<1>a. NoFault \/ Fault
  BY DEF RecoverStep, RecoverInspect, CallCommit, RecoverySource, MigratedPosition,
         LegacyUnreadable, RecoverIndex, Checked, CallRebuild, RemoveCsv, RemoveIndex,
         RenameCsv, RenameIndex
<1>1. CASE RecoverInspect
  <2>1. FilesOK'
    BY <1>1 DEF IInv, TypeOK, FilesOK, Csvs, Indexes, Copies, IndexInv, ControlOK, Positions,
           RemoveCsv, RemoveIndex, RenameCsv, RenameIndex, Exists, RecoverInspect, CallCommit,
           RecoverySource, MigratedPosition
  <2>2. ControlOK'
    BY <1>1 DEF IInv, TypeOK, ControlOK, Pcs, RecoverPcs, IndexPcs, CommitPcs, UndoPcs, Answers,
           Failures, RemoveCsv, RemoveIndex, RenameCsv, RenameIndex, Exists, RecoverInspect,
           CallCommit, RecoverySource, MigratedPosition
  <2>3. FlagsOK' /\ NumbersOK'
    BY <1>a, <1>1 DEF IInv, TypeOK, FlagsOK, NumbersOK, Positions, RecoverInspect, CallCommit,
           RecoverySource, MigratedPosition
  <2>4. (KeptInv /\ StageInv /\ IndexInv /\ RecoverInv)'
    BY <1>1 DEF IInv, TypeOK, KeptInv, StageInv, IndexInv, RecoverInv, FilesOK, ControlOK,
           FlagsOK, Serving, Staging, Preparing, Installed, InIndex, IndexPcs, Committing,
           Recovering, Copies, Csvs, Indexes, RemoveCsv, RemoveIndex, RenameCsv, RenameIndex,
           Exists, RecoverInspect, CallCommit, RecoverySource, MigratedPosition
  <2>. QED BY <2>1, <2>2, <2>3, <2>4 DEF IInv, TypeOK
<1>2. CASE LegacyUnreadable
  <2>1. FilesOK'
    BY <1>2 DEF IInv, TypeOK, FilesOK, Csvs, Indexes, Copies, IndexInv, ControlOK, Positions,
           RemoveCsv, RemoveIndex, RenameCsv, RenameIndex, Exists, LegacyUnreadable,
           RecoverySource
  <2>2. ControlOK'
    BY <1>2 DEF IInv, TypeOK, ControlOK, Pcs, RecoverPcs, IndexPcs, CommitPcs, UndoPcs, Answers,
           Failures, RemoveCsv, RemoveIndex, RenameCsv, RenameIndex, Exists, LegacyUnreadable,
           RecoverySource
  <2>3. FlagsOK' /\ NumbersOK'
    BY <1>a, <1>2 DEF IInv, TypeOK, FlagsOK, NumbersOK, Positions, LegacyUnreadable,
           RecoverySource
  <2>4. (KeptInv /\ StageInv /\ IndexInv /\ RecoverInv)'
    BY <1>2 DEF IInv, TypeOK, KeptInv, StageInv, IndexInv, RecoverInv, FilesOK, ControlOK,
           FlagsOK, Serving, Staging, Preparing, Installed, InIndex, IndexPcs, Committing,
           Recovering, Copies, Csvs, Indexes, RemoveCsv, RemoveIndex, RenameCsv, RenameIndex,
           Exists, LegacyUnreadable, RecoverySource
  <2>. QED BY <2>1, <2>2, <2>3, <2>4 DEF IInv, TypeOK
<1>3. CASE RecoverIndex
  <2>1. FilesOK'
    BY <1>3 DEF IInv, TypeOK, FilesOK, Csvs, Indexes, Copies, IndexInv, ControlOK, Positions,
           RemoveCsv, RemoveIndex, RenameCsv, RenameIndex, Exists, RecoverIndex, Checked,
           CallRebuild
  <2>2. ControlOK'
    BY <1>3 DEF IInv, TypeOK, ControlOK, Pcs, RecoverPcs, IndexPcs, CommitPcs, UndoPcs, Answers,
           Failures, RemoveCsv, RemoveIndex, RenameCsv, RenameIndex, Exists, RecoverIndex,
           Checked, CallRebuild
  <2>3. FlagsOK' /\ NumbersOK'
    BY <1>a, <1>3 DEF IInv, TypeOK, FlagsOK, NumbersOK, Positions, RecoverIndex, Checked,
           CallRebuild
  <2>4. (KeptInv /\ StageInv /\ IndexInv /\ RecoverInv)'
    BY <1>3 DEF IInv, TypeOK, KeptInv, StageInv, IndexInv, RecoverInv, FilesOK, ControlOK,
           FlagsOK, Serving, Staging, Preparing, Installed, InIndex, IndexPcs, Committing,
           Recovering, Copies, Csvs, Indexes, RemoveCsv, RemoveIndex, RenameCsv, RenameIndex,
           Exists, RecoverIndex, Checked, CallRebuild
  <2>. QED BY <2>1, <2>2, <2>3, <2>4 DEF IInv, TypeOK
<1>4. CASE Step("rec_drop") /\ RemoveCsv("active", "rec_promote", "unrecovered")
  <2>1. FilesOK'
    BY <1>4 DEF IInv, TypeOK, FilesOK, Csvs, Indexes, Copies, IndexInv, ControlOK, Positions,
           RemoveCsv, RemoveIndex, RenameCsv, RenameIndex, Exists
  <2>2. ControlOK'
    BY <1>4 DEF IInv, TypeOK, ControlOK, Pcs, RecoverPcs, IndexPcs, CommitPcs, UndoPcs, Answers,
           Failures, RemoveCsv, RemoveIndex, RenameCsv, RenameIndex, Exists
  <2>3. FlagsOK' /\ NumbersOK'
    BY <1>a, <1>4 DEF IInv, TypeOK, FlagsOK, NumbersOK, Positions
  <2>4. (KeptInv /\ StageInv /\ IndexInv /\ RecoverInv)'
    BY <1>4 DEF IInv, TypeOK, KeptInv, StageInv, IndexInv, RecoverInv, FilesOK, ControlOK,
           FlagsOK, Serving, Staging, Preparing, Installed, InIndex, IndexPcs, Committing,
           Recovering, Copies, Csvs, Indexes, RemoveCsv, RemoveIndex, RenameCsv, RenameIndex,
           Exists
  <2>. QED BY <2>1, <2>2, <2>3, <2>4 DEF IInv, TypeOK
<1>5. CASE Step("rec_promote") /\ RenameCsv("bak", "active", "rec_index", "unrecovered")
  <2>1. FilesOK'
    BY <1>5 DEF IInv, TypeOK, FilesOK, Csvs, Indexes, Copies, IndexInv, ControlOK, Positions,
           RemoveCsv, RemoveIndex, RenameCsv, RenameIndex, Exists
  <2>2. ControlOK'
    BY <1>5 DEF IInv, TypeOK, ControlOK, Pcs, RecoverPcs, IndexPcs, CommitPcs, UndoPcs, Answers,
           Failures, RemoveCsv, RemoveIndex, RenameCsv, RenameIndex, Exists
  <2>3. FlagsOK' /\ NumbersOK'
    BY <1>a, <1>5 DEF IInv, TypeOK, FlagsOK, NumbersOK, Positions
  <2>4. (KeptInv /\ StageInv /\ IndexInv /\ RecoverInv)'
    BY <1>5 DEF IInv, TypeOK, KeptInv, StageInv, IndexInv, RecoverInv, FilesOK, ControlOK,
           FlagsOK, Serving, Staging, Preparing, Installed, InIndex, IndexPcs, Committing,
           Recovering, Copies, Csvs, Indexes, RemoveCsv, RemoveIndex, RenameCsv, RenameIndex,
           Exists
  <2>. QED BY <2>1, <2>2, <2>3, <2>4 DEF IInv, TypeOK
<1>6. CASE Step("rec_csv_tmp") /\ RemoveCsv("tmp", "rec_csv_bak", "unrecovered")
  <2>1. FilesOK'
    BY <1>6 DEF IInv, TypeOK, FilesOK, Csvs, Indexes, Copies, IndexInv, ControlOK, Positions,
           RemoveCsv, RemoveIndex, RenameCsv, RenameIndex, Exists
  <2>2. ControlOK'
    BY <1>6 DEF IInv, TypeOK, ControlOK, Pcs, RecoverPcs, IndexPcs, CommitPcs, UndoPcs, Answers,
           Failures, RemoveCsv, RemoveIndex, RenameCsv, RenameIndex, Exists
  <2>3. FlagsOK' /\ NumbersOK'
    BY <1>a, <1>6 DEF IInv, TypeOK, FlagsOK, NumbersOK, Positions
  <2>4. (KeptInv /\ StageInv /\ IndexInv /\ RecoverInv)'
    BY <1>6 DEF IInv, TypeOK, KeptInv, StageInv, IndexInv, RecoverInv, FilesOK, ControlOK,
           FlagsOK, Serving, Staging, Preparing, Installed, InIndex, IndexPcs, Committing,
           Recovering, Copies, Csvs, Indexes, RemoveCsv, RemoveIndex, RenameCsv, RenameIndex,
           Exists
  <2>. QED BY <2>1, <2>2, <2>3, <2>4 DEF IInv, TypeOK
<1>7. CASE Step("rec_csv_bak") /\ RemoveCsv("bak", "rec_idx_tmp", "unrecovered")
  <2>1. FilesOK'
    BY <1>7 DEF IInv, TypeOK, FilesOK, Csvs, Indexes, Copies, IndexInv, ControlOK, Positions,
           RemoveCsv, RemoveIndex, RenameCsv, RenameIndex, Exists
  <2>2. ControlOK'
    BY <1>7 DEF IInv, TypeOK, ControlOK, Pcs, RecoverPcs, IndexPcs, CommitPcs, UndoPcs, Answers,
           Failures, RemoveCsv, RemoveIndex, RenameCsv, RenameIndex, Exists
  <2>3. FlagsOK' /\ NumbersOK'
    BY <1>a, <1>7 DEF IInv, TypeOK, FlagsOK, NumbersOK, Positions
  <2>4. (KeptInv /\ StageInv /\ IndexInv /\ RecoverInv)'
    BY <1>7 DEF IInv, TypeOK, KeptInv, StageInv, IndexInv, RecoverInv, FilesOK, ControlOK,
           FlagsOK, Serving, Staging, Preparing, Installed, InIndex, IndexPcs, Committing,
           Recovering, Copies, Csvs, Indexes, RemoveCsv, RemoveIndex, RenameCsv, RenameIndex,
           Exists
  <2>. QED BY <2>1, <2>2, <2>3, <2>4 DEF IInv, TypeOK
<1>8. CASE Step("rec_idx_tmp") /\ RemoveIndex("tmp", "rec_idx_bak", "unrecovered")
  <2>1. FilesOK'
    BY <1>8 DEF IInv, TypeOK, FilesOK, Csvs, Indexes, Copies, IndexInv, ControlOK, Positions,
           RemoveCsv, RemoveIndex, RenameCsv, RenameIndex, Exists
  <2>2. ControlOK'
    BY <1>8 DEF IInv, TypeOK, ControlOK, Pcs, RecoverPcs, IndexPcs, CommitPcs, UndoPcs, Answers,
           Failures, RemoveCsv, RemoveIndex, RenameCsv, RenameIndex, Exists
  <2>3. FlagsOK' /\ NumbersOK'
    BY <1>a, <1>8 DEF IInv, TypeOK, FlagsOK, NumbersOK, Positions
  <2>4. (KeptInv /\ StageInv /\ IndexInv /\ RecoverInv)'
    BY <1>8 DEF IInv, TypeOK, KeptInv, StageInv, IndexInv, RecoverInv, FilesOK, ControlOK,
           FlagsOK, Serving, Staging, Preparing, Installed, InIndex, IndexPcs, Committing,
           Recovering, Copies, Csvs, Indexes, RemoveCsv, RemoveIndex, RenameCsv, RenameIndex,
           Exists
  <2>. QED BY <2>1, <2>2, <2>3, <2>4 DEF IInv, TypeOK
<1>9. CASE Step("rec_idx_bak") /\ RemoveIndex("bak", "recovered", "unrecovered")
  <2>1. FilesOK'
    BY <1>9 DEF IInv, TypeOK, FilesOK, Csvs, Indexes, Copies, IndexInv, ControlOK, Positions,
           RemoveCsv, RemoveIndex, RenameCsv, RenameIndex, Exists
  <2>2. ControlOK'
    BY <1>9 DEF IInv, TypeOK, ControlOK, Pcs, RecoverPcs, IndexPcs, CommitPcs, UndoPcs, Answers,
           Failures, RemoveCsv, RemoveIndex, RenameCsv, RenameIndex, Exists
  <2>3. FlagsOK' /\ NumbersOK'
    BY <1>a, <1>9 DEF IInv, TypeOK, FlagsOK, NumbersOK, Positions
  <2>4. (KeptInv /\ StageInv /\ IndexInv /\ RecoverInv)'
    BY <1>9 DEF IInv, TypeOK, KeptInv, StageInv, IndexInv, RecoverInv, FilesOK, ControlOK,
           FlagsOK, Serving, Staging, Preparing, Installed, InIndex, IndexPcs, Committing,
           Recovering, Copies, Csvs, Indexes, RemoveCsv, RemoveIndex, RenameCsv, RenameIndex,
           Exists
  <2>. QED BY <2>1, <2>2, <2>3, <2>4 DEF IInv, TypeOK
<1>. QED BY <1>1, <1>2, <1>3, <1>4, <1>5, <1>6, <1>7, <1>8, <1>9 DEF RecoverStep

\* prepareIndex and installIndex touch no list.
LEMMA IndexStepKeeps == ASSUME IInv, IndexStep PROVE IInv'
<1> USE ListsAreLists
<1>a. NoFault \/ Fault
  BY DEF IndexStep, PrepareFailed, RebuildFailed, IndexOpen, IndexWrite, Indexed, PrepareDone,
         InstallFailed, IndexKeep, IndexCheck, Checked, InstallDone, RebuildDone, RemoveCsv,
         RemoveIndex, RenameCsv, RenameIndex
<1>1. CASE Step("prep_drop") /\ RemoveIndex("tmp", "prep_open", PrepareFailed)
  <2>1. FilesOK'
    BY <1>1 DEF IInv, TypeOK, FilesOK, Csvs, Indexes, Copies, IndexInv, ControlOK, Positions,
           RemoveCsv, RemoveIndex, RenameCsv, RenameIndex, Exists, PrepareFailed, RebuildFailed
  <2>2. ControlOK'
    BY <1>1 DEF IInv, TypeOK, ControlOK, Pcs, RecoverPcs, IndexPcs, CommitPcs, UndoPcs, Answers,
           Failures, RemoveCsv, RemoveIndex, RenameCsv, RenameIndex, Exists, PrepareFailed,
           RebuildFailed
  <2>3. FlagsOK' /\ NumbersOK'
    BY <1>a, <1>1 DEF IInv, TypeOK, FlagsOK, NumbersOK, Positions, PrepareFailed, RebuildFailed
  <2>4. (KeptInv /\ StageInv /\ IndexInv /\ RecoverInv)'
    BY <1>1 DEF IInv, TypeOK, KeptInv, StageInv, IndexInv, RecoverInv, FilesOK, ControlOK,
           FlagsOK, Serving, Staging, Preparing, Installed, InIndex, IndexPcs, Committing,
           Recovering, Copies, Csvs, Indexes, RemoveCsv, RemoveIndex, RenameCsv, RenameIndex,
           Exists, PrepareFailed, RebuildFailed
  <2>. QED BY <2>1, <2>2, <2>3, <2>4 DEF IInv, TypeOK
<1>2. CASE IndexOpen
  <2>1. FilesOK'
    BY <1>2 DEF IInv, TypeOK, FilesOK, Csvs, Indexes, Copies, IndexInv, ControlOK, Positions,
           RemoveCsv, RemoveIndex, RenameCsv, RenameIndex, Exists, IndexOpen, PrepareFailed,
           RebuildFailed
  <2>2. ControlOK'
    BY <1>2 DEF IInv, TypeOK, ControlOK, Pcs, RecoverPcs, IndexPcs, CommitPcs, UndoPcs, Answers,
           Failures, RemoveCsv, RemoveIndex, RenameCsv, RenameIndex, Exists, IndexOpen,
           PrepareFailed, RebuildFailed
  <2>3. FlagsOK'
    BY <1>a, <1>2 DEF IInv, TypeOK, FlagsOK, IndexOpen, PrepareFailed, RebuildFailed
  <2>4. NumbersOK'
    <3>1. UNCHANGED <<ram, flash, current, previousCurrent, beforeSel, command, loading, callFaults,
                      edits, plays, cuts>>
      BY <1>2 DEF IndexOpen
    <3>. QED BY <1>a, <3>1 DEF IInv, TypeOK, NumbersOK
  <2>5. (KeptInv /\ StageInv /\ IndexInv /\ RecoverInv)'
    BY <1>2 DEF IInv, TypeOK, KeptInv, StageInv, IndexInv, RecoverInv, FilesOK, ControlOK,
           FlagsOK, Serving, Staging, Preparing, Installed, InIndex, IndexPcs, Committing,
           Recovering, Copies, Csvs, Indexes, RemoveCsv, RemoveIndex, RenameCsv, RenameIndex,
           Exists, IndexOpen, PrepareFailed, RebuildFailed
  <2>. QED BY <2>1, <2>2, <2>3, <2>4, <2>5 DEF IInv, TypeOK
<1>3. CASE IndexWrite
  <2>1. FilesOK'
    <3>1. CASE IsList(Indexed) /\ index' = [index EXCEPT !["tmp"] = Len(Indexed)] /\ UNCHANGED <<csv, legacy>>
      BY <1>3, <3>1 DEF IInv, TypeOK, FilesOK, Indexes, Copies, IndexWrite
    <3>2. ASSUME NEW k \in Positions \cup {Partial}, PutIndex("tmp", k)
          PROVE  FilesOK'
      BY <1>3, <3>2 DEF IInv, TypeOK, FilesOK, Indexes, Copies, IndexWrite
    <3>. QED BY <1>3, <3>1, <3>2 DEF IndexWrite
  <2>2. ControlOK'
    BY <1>3 DEF IInv, TypeOK, ControlOK, Pcs, RecoverPcs, IndexPcs, CommitPcs, UndoPcs, Answers,
           Failures, RemoveCsv, RemoveIndex, RenameCsv, RenameIndex, Exists, IndexWrite,
           Indexed, PrepareDone, PrepareFailed, RebuildFailed
  <2>3. FlagsOK' /\ NumbersOK'
    BY <1>a, <1>3 DEF IInv, TypeOK, FlagsOK, NumbersOK, Positions, IndexWrite, Indexed,
           PrepareDone, PrepareFailed, RebuildFailed
  <2>4. (KeptInv /\ StageInv)'
    BY <1>3 DEF IInv, TypeOK, KeptInv, StageInv, IndexInv, RecoverInv, FilesOK, ControlOK,
           FlagsOK, Serving, Staging, Preparing, Installed, InIndex, IndexPcs, Committing,
           Recovering, Copies, Csvs, Indexes, RemoveCsv, RemoveIndex, RenameCsv, RenameIndex,
           Exists, IndexWrite, Indexed, PrepareDone, PrepareFailed, RebuildFailed
  <2>5. (IndexInv /\ RecoverInv)'
    BY <1>3 DEF IInv, TypeOK, KeptInv, StageInv, IndexInv, RecoverInv, FilesOK, ControlOK,
           FlagsOK, Serving, Staging, Preparing, Installed, InIndex, IndexPcs, Committing,
           Recovering, Copies, Csvs, Indexes, RemoveCsv, RemoveIndex, RenameCsv, RenameIndex,
           Exists, IndexWrite, Indexed, PrepareDone, PrepareFailed, RebuildFailed
  <2>. QED BY <2>1, <2>2, <2>3, <2>4, <2>5 DEF IInv, TypeOK
<1>4. CASE Step("inst_drop") /\ RemoveIndex("bak", "inst_keep", InstallFailed)
  <2>1. FilesOK'
    BY <1>4 DEF IInv, TypeOK, FilesOK, Csvs, Indexes, Copies, IndexInv, ControlOK, Positions,
           RemoveCsv, RemoveIndex, RenameCsv, RenameIndex, Exists, InstallFailed, RebuildFailed
  <2>2. ControlOK'
    BY <1>4 DEF IInv, TypeOK, ControlOK, Pcs, RecoverPcs, IndexPcs, CommitPcs, UndoPcs, Answers,
           Failures, RemoveCsv, RemoveIndex, RenameCsv, RenameIndex, Exists, InstallFailed,
           RebuildFailed
  <2>3. FlagsOK' /\ NumbersOK'
    BY <1>a, <1>4 DEF IInv, TypeOK, FlagsOK, NumbersOK, Positions, InstallFailed, RebuildFailed
  <2>4. (KeptInv /\ StageInv /\ IndexInv /\ RecoverInv)'
    BY <1>4 DEF IInv, TypeOK, KeptInv, StageInv, IndexInv, RecoverInv, FilesOK, ControlOK,
           FlagsOK, Serving, Staging, Preparing, Installed, InIndex, IndexPcs, Committing,
           Recovering, Copies, Csvs, Indexes, RemoveCsv, RemoveIndex, RenameCsv, RenameIndex,
           Exists, InstallFailed, RebuildFailed
  <2>. QED BY <2>1, <2>2, <2>3, <2>4 DEF IInv, TypeOK
<1>5. CASE IndexKeep
  <2>1. FilesOK'
    BY <1>5 DEF IInv, TypeOK, FilesOK, Csvs, Indexes, Copies, IndexInv, ControlOK, Positions,
           RemoveCsv, RemoveIndex, RenameCsv, RenameIndex, Exists, IndexKeep, InstallFailed,
           RebuildFailed
  <2>2. ControlOK'
    BY <1>5 DEF IInv, TypeOK, ControlOK, Pcs, RecoverPcs, IndexPcs, CommitPcs, UndoPcs, Answers,
           Failures, RemoveCsv, RemoveIndex, RenameCsv, RenameIndex, Exists, IndexKeep,
           InstallFailed, RebuildFailed
  <2>3. FlagsOK'
    <3>1. hadIndex' = (index["active"] # Missing)
      BY <1>5 DEF IndexKeep, Exists
    <3>2. hadIndex' \in BOOLEAN
      BY <3>1
    <3>. QED BY <1>5, <3>2 DEF IInv, TypeOK, FlagsOK, IndexKeep
  <2>4. NumbersOK'
    BY <1>a, <1>5 DEF IInv, TypeOK, FlagsOK, NumbersOK, Positions, IndexKeep, InstallFailed,
           RebuildFailed
  <2>5. (KeptInv /\ StageInv /\ IndexInv /\ RecoverInv)'
    BY <1>5 DEF IInv, TypeOK, KeptInv, StageInv, IndexInv, RecoverInv, FilesOK, ControlOK,
           FlagsOK, Serving, Staging, Preparing, Installed, InIndex, IndexPcs, Committing,
           Recovering, Copies, Csvs, Indexes, RemoveCsv, RemoveIndex, RenameCsv, RenameIndex,
           Exists, IndexKeep, InstallFailed, RebuildFailed
  <2>. QED BY <2>1, <2>2, <2>3, <2>4, <2>5 DEF IInv, TypeOK
<1>6. CASE /\ Step("inst_rename")
      /\ RenameIndex("tmp", "active", "inst_check", IF hadIndex THEN "inst_back" ELSE InstallFailed)
  <2>1. FilesOK'
    BY <1>6 DEF IInv, TypeOK, FilesOK, Csvs, Indexes, Copies, IndexInv, ControlOK, Positions,
           RemoveCsv, RemoveIndex, RenameCsv, RenameIndex, Exists, InstallFailed, RebuildFailed
  <2>2. ControlOK'
    BY <1>6 DEF IInv, TypeOK, ControlOK, Pcs, RecoverPcs, IndexPcs, CommitPcs, UndoPcs, Answers,
           Failures, RemoveCsv, RemoveIndex, RenameCsv, RenameIndex, Exists, InstallFailed,
           RebuildFailed
  <2>3. FlagsOK' /\ NumbersOK'
    BY <1>a, <1>6 DEF IInv, TypeOK, FlagsOK, NumbersOK, Positions, InstallFailed, RebuildFailed
  <2>4. (KeptInv /\ StageInv)'
    BY <1>6 DEF IInv, TypeOK, KeptInv, StageInv, IndexInv, RecoverInv, FilesOK, ControlOK,
           FlagsOK, Serving, Staging, Preparing, Installed, InIndex, IndexPcs, Committing,
           Recovering, Copies, Csvs, Indexes, RemoveCsv, RemoveIndex, RenameCsv, RenameIndex,
           Exists, InstallFailed, RebuildFailed
  <2>5. (IndexInv /\ RecoverInv)'
    BY <1>6 DEF IInv, TypeOK, KeptInv, StageInv, IndexInv, RecoverInv, FilesOK, ControlOK,
           FlagsOK, Serving, Staging, Preparing, Installed, InIndex, IndexPcs, Committing,
           Recovering, Copies, Csvs, Indexes, RemoveCsv, RemoveIndex, RenameCsv, RenameIndex,
           Exists, InstallFailed, RebuildFailed
  <2>. QED BY <2>1, <2>2, <2>3, <2>4, <2>5 DEF IInv, TypeOK
<1>7. CASE Step("inst_back") /\ RenameIndex("bak", "active", InstallFailed, InstallFailed)
  <2>1. FilesOK'
    BY <1>7 DEF IInv, TypeOK, FilesOK, Csvs, Indexes, Copies, IndexInv, ControlOK, Positions,
           RemoveCsv, RemoveIndex, RenameCsv, RenameIndex, Exists, InstallFailed, RebuildFailed
  <2>2. ControlOK'
    BY <1>7 DEF IInv, TypeOK, ControlOK, Pcs, RecoverPcs, IndexPcs, CommitPcs, UndoPcs, Answers,
           Failures, RemoveCsv, RemoveIndex, RenameCsv, RenameIndex, Exists, InstallFailed,
           RebuildFailed
  <2>3. FlagsOK' /\ NumbersOK'
    BY <1>a, <1>7 DEF IInv, TypeOK, FlagsOK, NumbersOK, Positions, InstallFailed, RebuildFailed
  <2>4. (KeptInv /\ StageInv /\ IndexInv /\ RecoverInv)'
    BY <1>7 DEF IInv, TypeOK, KeptInv, StageInv, IndexInv, RecoverInv, FilesOK, ControlOK,
           FlagsOK, Serving, Staging, Preparing, Installed, InIndex, IndexPcs, Committing,
           Recovering, Copies, Csvs, Indexes, RemoveCsv, RemoveIndex, RenameCsv, RenameIndex,
           Exists, InstallFailed, RebuildFailed
  <2>. QED BY <2>1, <2>2, <2>3, <2>4 DEF IInv, TypeOK
<1>8. CASE IndexCheck
  <2>1. FilesOK'
    BY <1>8 DEF IInv, TypeOK, FilesOK, Csvs, Indexes, Copies, IndexInv, ControlOK, Positions,
           RemoveCsv, RemoveIndex, RenameCsv, RenameIndex, Exists, IndexCheck, Checked,
           InstallDone, InstallFailed, RebuildFailed
  <2>2. ControlOK'
    BY <1>8 DEF IInv, TypeOK, ControlOK, Pcs, RecoverPcs, IndexPcs, CommitPcs, UndoPcs, Answers,
           Failures, RemoveCsv, RemoveIndex, RenameCsv, RenameIndex, Exists, IndexCheck,
           Checked, InstallDone, InstallFailed, RebuildFailed
  <2>3. FlagsOK' /\ NumbersOK'
    BY <1>a, <1>8 DEF IInv, TypeOK, FlagsOK, NumbersOK, Positions, IndexCheck, Checked,
           InstallDone, InstallFailed, RebuildFailed
  <2>4. (KeptInv /\ StageInv /\ IndexInv /\ RecoverInv)'
    BY <1>8 DEF IInv, TypeOK, KeptInv, StageInv, IndexInv, RecoverInv, FilesOK, ControlOK,
           FlagsOK, Serving, Staging, Preparing, Installed, InIndex, IndexPcs, Committing,
           Recovering, Copies, Csvs, Indexes, RemoveCsv, RemoveIndex, RenameCsv, RenameIndex,
           Exists, IndexCheck, Checked, InstallDone, InstallFailed, RebuildFailed
  <2>. QED BY <2>1, <2>2, <2>3, <2>4 DEF IInv, TypeOK
<1>9. CASE Step("reb_drop") /\ RemoveIndex("bak", RebuildDone, RebuildFailed)
  <2>1. FilesOK'
    BY <1>9 DEF IInv, TypeOK, FilesOK, Csvs, Indexes, Copies, IndexInv, ControlOK, Positions,
           RemoveCsv, RemoveIndex, RenameCsv, RenameIndex, Exists, RebuildDone, RebuildFailed
  <2>2. ControlOK'
    BY <1>9 DEF IInv, TypeOK, ControlOK, Pcs, RecoverPcs, IndexPcs, CommitPcs, UndoPcs, Answers,
           Failures, RemoveCsv, RemoveIndex, RenameCsv, RenameIndex, Exists, RebuildDone,
           RebuildFailed
  <2>3. FlagsOK' /\ NumbersOK'
    BY <1>a, <1>9 DEF IInv, TypeOK, FlagsOK, NumbersOK, Positions, RebuildDone, RebuildFailed
  <2>4. (KeptInv /\ StageInv /\ IndexInv /\ RecoverInv)'
    BY <1>9 DEF IInv, TypeOK, KeptInv, StageInv, IndexInv, RecoverInv, FilesOK, ControlOK,
           FlagsOK, Serving, Staging, Preparing, Installed, InIndex, IndexPcs, Committing,
           Recovering, Copies, Csvs, Indexes, RemoveCsv, RemoveIndex, RenameCsv, RenameIndex,
           Exists, RebuildDone, RebuildFailed
  <2>. QED BY <2>1, <2>2, <2>3, <2>4 DEF IInv, TypeOK
<1>. QED BY <1>1, <1>2, <1>3, <1>4, <1>5, <1>6, <1>7, <1>8, <1>9 DEF IndexStep

\* commit: the rollback copy is there from Displace to the clean-up.
LEMMA CommitStepKeeps == ASSUME IInv, CommitStep PROVE IInv'
<1> USE ListsAreLists
<1>a. NoFault \/ Fault
  BY DEF CommitStep, CommitBegin, CommitOpen, CommitWrite, Prefixes, Displace, Select,
         SelectionSet, SelectionFails, CleanUp, RemoveCsv, RemoveIndex, RenameCsv, RenameIndex
<1>1. CASE CommitBegin
  <2>1. FilesOK'
    BY <1>1 DEF IInv, TypeOK, FilesOK, Csvs, Indexes, Copies, IndexInv, ControlOK, Positions,
           RemoveCsv, RemoveIndex, RenameCsv, RenameIndex, Exists, CommitBegin
  <2>2. ControlOK'
    BY <1>1 DEF IInv, TypeOK, ControlOK, Pcs, RecoverPcs, IndexPcs, CommitPcs, UndoPcs, Answers,
           Failures, RemoveCsv, RemoveIndex, RenameCsv, RenameIndex, Exists, CommitBegin
  <2>3. FlagsOK' /\ NumbersOK'
    BY <1>a, <1>1 DEF IInv, TypeOK, FlagsOK, NumbersOK, Positions, CommitBegin
  <2>4. (KeptInv /\ StageInv /\ IndexInv /\ RecoverInv)'
    BY <1>1 DEF IInv, TypeOK, KeptInv, StageInv, IndexInv, RecoverInv, FilesOK, ControlOK,
           FlagsOK, Serving, Staging, Preparing, Installed, InIndex, IndexPcs, Committing,
           Recovering, Copies, Csvs, Indexes, RemoveCsv, RemoveIndex, RenameCsv, RenameIndex,
           Exists, CommitBegin
  <2>. QED BY <2>1, <2>2, <2>3, <2>4 DEF IInv, TypeOK
<1>2. CASE Step("tmp_drop") /\ RemoveCsv("tmp", "idx_tmp_drop", "io_error")
  <2>1. FilesOK'
    BY <1>2 DEF IInv, TypeOK, FilesOK, Csvs, Indexes, Copies, IndexInv, ControlOK, Positions,
           RemoveCsv, RemoveIndex, RenameCsv, RenameIndex, Exists
  <2>2. ControlOK'
    BY <1>2 DEF IInv, TypeOK, ControlOK, Pcs, RecoverPcs, IndexPcs, CommitPcs, UndoPcs, Answers,
           Failures, RemoveCsv, RemoveIndex, RenameCsv, RenameIndex, Exists
  <2>3. FlagsOK' /\ NumbersOK'
    BY <1>a, <1>2 DEF IInv, TypeOK, FlagsOK, NumbersOK, Positions
  <2>4. (KeptInv /\ StageInv /\ IndexInv /\ RecoverInv)'
    BY <1>2 DEF IInv, TypeOK, KeptInv, StageInv, IndexInv, RecoverInv, FilesOK, ControlOK,
           FlagsOK, Serving, Staging, Preparing, Installed, InIndex, IndexPcs, Committing,
           Recovering, Copies, Csvs, Indexes, RemoveCsv, RemoveIndex, RenameCsv, RenameIndex,
           Exists
  <2>. QED BY <2>1, <2>2, <2>3, <2>4 DEF IInv, TypeOK
<1>3. CASE Step("idx_tmp_drop") /\ RemoveIndex("tmp", "tmp_open", "io_error")
  <2>1. FilesOK'
    BY <1>3 DEF IInv, TypeOK, FilesOK, Csvs, Indexes, Copies, IndexInv, ControlOK, Positions,
           RemoveCsv, RemoveIndex, RenameCsv, RenameIndex, Exists
  <2>2. ControlOK'
    BY <1>3 DEF IInv, TypeOK, ControlOK, Pcs, RecoverPcs, IndexPcs, CommitPcs, UndoPcs, Answers,
           Failures, RemoveCsv, RemoveIndex, RenameCsv, RenameIndex, Exists
  <2>3. FlagsOK' /\ NumbersOK'
    BY <1>a, <1>3 DEF IInv, TypeOK, FlagsOK, NumbersOK, Positions
  <2>4. (KeptInv /\ StageInv /\ IndexInv /\ RecoverInv)'
    BY <1>3 DEF IInv, TypeOK, KeptInv, StageInv, IndexInv, RecoverInv, FilesOK, ControlOK,
           FlagsOK, Serving, Staging, Preparing, Installed, InIndex, IndexPcs, Committing,
           Recovering, Copies, Csvs, Indexes, RemoveCsv, RemoveIndex, RenameCsv, RenameIndex,
           Exists
  <2>. QED BY <2>1, <2>2, <2>3, <2>4 DEF IInv, TypeOK
<1>4. CASE CommitOpen
  <2>1. FilesOK'
    BY <1>4 DEF IInv, TypeOK, FilesOK, Csvs, Indexes, Copies, IndexInv, ControlOK, Positions,
           RemoveCsv, RemoveIndex, RenameCsv, RenameIndex, Exists, CommitOpen
  <2>2. ControlOK'
    BY <1>4 DEF IInv, TypeOK, ControlOK, Pcs, RecoverPcs, IndexPcs, CommitPcs, UndoPcs, Answers,
           Failures, RemoveCsv, RemoveIndex, RenameCsv, RenameIndex, Exists, CommitOpen
  <2>3. FlagsOK' /\ NumbersOK'
    BY <1>a, <1>4 DEF IInv, TypeOK, FlagsOK, NumbersOK, Positions, CommitOpen
  <2>4. (KeptInv /\ StageInv /\ IndexInv /\ RecoverInv)'
    BY <1>4 DEF IInv, TypeOK, KeptInv, StageInv, IndexInv, RecoverInv, FilesOK, ControlOK,
           FlagsOK, Serving, Staging, Preparing, Installed, InIndex, IndexPcs, Committing,
           Recovering, Copies, Csvs, Indexes, RemoveCsv, RemoveIndex, RenameCsv, RenameIndex,
           Exists, CommitOpen
  <2>. QED BY <2>1, <2>2, <2>3, <2>4 DEF IInv, TypeOK
<1>5. CASE CommitWrite
  <2>0. \A c \in {Partial} \cup Prefixes(rows) : c \in Csvs
    BY DEF IInv, TypeOK, FilesOK, Prefixes, Csvs
  <2>1. FilesOK'
    <3>1. ASSUME NEW c \in Csvs, PutCsv("tmp", c)
          PROVE  FilesOK'
      BY <1>5, <3>1 DEF IInv, TypeOK, FilesOK, Copies, CommitWrite
    <3>2. rows \in Csvs
      BY DEF IInv, TypeOK, FilesOK, Csvs
    <3>. QED BY <1>5, <2>0, <3>1, <3>2 DEF CommitWrite
  <2>2. ControlOK'
    BY <1>5 DEF IInv, TypeOK, ControlOK, Pcs, RecoverPcs, IndexPcs, CommitPcs, UndoPcs, Answers,
           Failures, RemoveCsv, RemoveIndex, RenameCsv, RenameIndex, Exists, CommitWrite,
           Prefixes
  <2>3. FlagsOK' /\ NumbersOK'
    BY <1>a, <1>5 DEF IInv, TypeOK, FlagsOK, NumbersOK, Positions, CommitWrite, Prefixes
  <2>4. /\ pc = "tmp_write" /\ csv'["active"] = Active /\ csv'["bak"] = Backup
        /\ (pc' = "prep_drop" /\ csv'["tmp"] = rows) \/ pc' \in {"no_space", "io_error"}
        /\ UNCHANGED <<index, legacy, caller, locals, before, spare>>
    BY <1>5 DEF IInv, TypeOK, FilesOK, Copies, CommitWrite
  <2>5. (KeptInv /\ StageInv /\ IndexInv /\ RecoverInv)'
    BY <2>4 DEF IInv, TypeOK, KeptInv, StageInv, IndexInv, RecoverInv, FilesOK, ControlOK,
           FlagsOK, Serving, Staging, Preparing, Installed, InIndex, IndexPcs, Committing,
           Recovering, Copies, Csvs, Indexes
  <2>. QED BY <2>1, <2>2, <2>3, <2>5 DEF IInv, TypeOK
<1>6. CASE Step("bak_drop") /\ RemoveCsv("bak", "displace", "io_error")
  <2>1. FilesOK'
    BY <1>6 DEF IInv, TypeOK, FilesOK, Csvs, Indexes, Copies, IndexInv, ControlOK, Positions,
           RemoveCsv, RemoveIndex, RenameCsv, RenameIndex, Exists
  <2>2. ControlOK'
    BY <1>6 DEF IInv, TypeOK, ControlOK, Pcs, RecoverPcs, IndexPcs, CommitPcs, UndoPcs, Answers,
           Failures, RemoveCsv, RemoveIndex, RenameCsv, RenameIndex, Exists
  <2>3. FlagsOK' /\ NumbersOK'
    BY <1>a, <1>6 DEF IInv, TypeOK, FlagsOK, NumbersOK, Positions
  <2>4. (KeptInv /\ StageInv /\ IndexInv /\ RecoverInv)'
    BY <1>6 DEF IInv, TypeOK, KeptInv, StageInv, IndexInv, RecoverInv, FilesOK, ControlOK,
           FlagsOK, Serving, Staging, Preparing, Installed, InIndex, IndexPcs, Committing,
           Recovering, Copies, Csvs, Indexes, RemoveCsv, RemoveIndex, RenameCsv, RenameIndex,
           Exists
  <2>. QED BY <2>1, <2>2, <2>3, <2>4 DEF IInv, TypeOK
<1>7. CASE Displace
  <2>1. FilesOK'
    BY <1>7 DEF IInv, TypeOK, FilesOK, Csvs, Indexes, Copies, IndexInv, ControlOK, Positions,
           RemoveCsv, RemoveIndex, RenameCsv, RenameIndex, Exists, Displace
  <2>2. ControlOK'
    BY <1>7 DEF IInv, TypeOK, ControlOK, Pcs, RecoverPcs, IndexPcs, CommitPcs, UndoPcs, Answers,
           Failures, RemoveCsv, RemoveIndex, RenameCsv, RenameIndex, Exists, Displace
  <2>3. FlagsOK'
    <3>1. hadCsv' = (csv["active"] # Missing)
      BY <1>7 DEF Displace, Exists
    <3>2. hadCsv' \in BOOLEAN
      BY <3>1
    <3>. QED BY <1>7, <3>2 DEF IInv, TypeOK, FlagsOK, Displace
  <2>4. NumbersOK'
    BY <1>a, <1>7 DEF IInv, TypeOK, FlagsOK, NumbersOK, Positions, Displace
  <2>5. (KeptInv /\ StageInv /\ IndexInv /\ RecoverInv)'
    BY <1>7 DEF IInv, TypeOK, KeptInv, StageInv, IndexInv, RecoverInv, FilesOK, ControlOK,
           FlagsOK, Serving, Staging, Preparing, Installed, InIndex, IndexPcs, Committing,
           Recovering, Copies, Csvs, Indexes, RemoveCsv, RemoveIndex, RenameCsv, RenameIndex,
           Exists, Displace
  <2>. QED BY <2>1, <2>2, <2>3, <2>4, <2>5 DEF IInv, TypeOK
<1>8. CASE /\ Step("install")
      /\ RenameCsv("tmp", "active", "inst_drop", IF hadCsv THEN "undo_csv" ELSE "io_error")
  <2>1. FilesOK'
    BY <1>8 DEF IInv, TypeOK, FilesOK, Csvs, Indexes, Copies, IndexInv, ControlOK, Positions,
           RemoveCsv, RemoveIndex, RenameCsv, RenameIndex, Exists
  <2>2. ControlOK'
    BY <1>8 DEF IInv, TypeOK, ControlOK, Pcs, RecoverPcs, IndexPcs, CommitPcs, UndoPcs, Answers,
           Failures, RemoveCsv, RemoveIndex, RenameCsv, RenameIndex, Exists
  <2>3. FlagsOK' /\ NumbersOK'
    BY <1>a, <1>8 DEF IInv, TypeOK, FlagsOK, NumbersOK, Positions
  <2>4. (KeptInv /\ StageInv /\ IndexInv /\ RecoverInv)'
    BY <1>8 DEF IInv, TypeOK, KeptInv, StageInv, IndexInv, RecoverInv, FilesOK, ControlOK,
           FlagsOK, Serving, Staging, Preparing, Installed, InIndex, IndexPcs, Committing,
           Recovering, Copies, Csvs, Indexes, RemoveCsv, RemoveIndex, RenameCsv, RenameIndex,
           Exists
  <2>. QED BY <2>1, <2>2, <2>3, <2>4 DEF IInv, TypeOK
<1>9. CASE Select
  <2>1. FilesOK'
    BY <1>9 DEF IInv, TypeOK, FilesOK, Csvs, Indexes, Copies, IndexInv, ControlOK, Positions,
           RemoveCsv, RemoveIndex, RenameCsv, RenameIndex, Exists, Select, SelectionSet,
           SelectionFails
  <2>2. ControlOK'
    BY <1>9 DEF IInv, TypeOK, ControlOK, Pcs, RecoverPcs, IndexPcs, CommitPcs, UndoPcs, Answers,
           Failures, RemoveCsv, RemoveIndex, RenameCsv, RenameIndex, Exists, Select,
           SelectionSet, SelectionFails
  <2>3. FlagsOK' /\ NumbersOK'
    BY <1>a, <1>9 DEF IInv, TypeOK, FlagsOK, NumbersOK, Positions, Select, SelectionSet,
           SelectionFails
  <2>4. (KeptInv /\ StageInv /\ IndexInv /\ RecoverInv)'
    BY <1>9 DEF IInv, TypeOK, KeptInv, StageInv, IndexInv, RecoverInv, FilesOK, ControlOK,
           FlagsOK, Serving, Staging, Preparing, Installed, InIndex, IndexPcs, Committing,
           Recovering, Copies, Csvs, Indexes, RemoveCsv, RemoveIndex, RenameCsv, RenameIndex,
           Exists, Select, SelectionSet, SelectionFails
  <2>. QED BY <2>1, <2>2, <2>3, <2>4 DEF IInv, TypeOK
<1>10. CASE At("idx_bak_drop") /\ CleanUp(RemoveIndex("bak", "csv_bak_drop", "undo_csv"))
  <2>1. FilesOK'
    BY <1>10 DEF IInv, TypeOK, FilesOK, Csvs, Indexes, Copies, IndexInv, ControlOK, Positions,
           RemoveCsv, RemoveIndex, RenameCsv, RenameIndex, Exists, CleanUp
  <2>2. ControlOK'
    BY <1>10 DEF IInv, TypeOK, ControlOK, Pcs, RecoverPcs, IndexPcs, CommitPcs, UndoPcs,
           Answers, Failures, RemoveCsv, RemoveIndex, RenameCsv, RenameIndex, Exists, CleanUp
  <2>3. FlagsOK' /\ NumbersOK'
    BY <1>a, <1>10 DEF IInv, TypeOK, FlagsOK, NumbersOK, Positions, CleanUp
  <2>4. (KeptInv /\ StageInv /\ IndexInv /\ RecoverInv)'
    BY <1>10 DEF IInv, TypeOK, KeptInv, StageInv, IndexInv, RecoverInv, FilesOK, ControlOK,
           FlagsOK, Serving, Staging, Preparing, Installed, InIndex, IndexPcs, Committing,
           Recovering, Copies, Csvs, Indexes, RemoveCsv, RemoveIndex, RenameCsv, RenameIndex,
           Exists, CleanUp
  <2>. QED BY <2>1, <2>2, <2>3, <2>4 DEF IInv, TypeOK
<1>11. CASE At("csv_bak_drop") /\ CleanUp(RemoveCsv("bak", "committed", "undo_csv"))
  <2>1. FilesOK'
    BY <1>11 DEF IInv, TypeOK, FilesOK, Csvs, Indexes, Copies, IndexInv, ControlOK, Positions,
           RemoveCsv, RemoveIndex, RenameCsv, RenameIndex, Exists, CleanUp
  <2>2. ControlOK'
    BY <1>11 DEF IInv, TypeOK, ControlOK, Pcs, RecoverPcs, IndexPcs, CommitPcs, UndoPcs,
           Answers, Failures, RemoveCsv, RemoveIndex, RenameCsv, RenameIndex, Exists, CleanUp
  <2>3. FlagsOK' /\ NumbersOK'
    BY <1>a, <1>11 DEF IInv, TypeOK, FlagsOK, NumbersOK, Positions, CleanUp
  <2>4. (KeptInv /\ StageInv /\ IndexInv /\ RecoverInv)'
    BY <1>11 DEF IInv, TypeOK, KeptInv, StageInv, IndexInv, RecoverInv, FilesOK, ControlOK,
           FlagsOK, Serving, Staging, Preparing, Installed, InIndex, IndexPcs, Committing,
           Recovering, Copies, Csvs, Indexes, RemoveCsv, RemoveIndex, RenameCsv, RenameIndex,
           Exists, CleanUp
  <2>. QED BY <2>1, <2>2, <2>3, <2>4 DEF IInv, TypeOK
<1>. QED BY <1>1, <1>2, <1>3, <1>4, <1>5, <1>6, <1>7, <1>8, <1>9, <1>10, <1>11 DEF CommitStep

\* rollbackPlaylist.
LEMMA UndoStepKeeps == ASSUME IInv, UndoStep PROVE IInv'
<1> USE ListsAreLists
<1>a. NoFault \/ Fault
  BY DEF UndoStep, UndoCsv, Undo, UndoCsvRename, UndoIndex, UndoIndexRename, UndoCheck, Checked,
         CallRebuild, RolledBack, SelectionSet, SelectionFails, RemoveCsv, RemoveIndex,
         RenameCsv, RenameIndex
<1>1. CASE UndoCsv
  <2>1. FilesOK'
    BY <1>1 DEF IInv, TypeOK, FilesOK, Csvs, Indexes, Copies, IndexInv, ControlOK, Positions,
           RemoveCsv, RemoveIndex, RenameCsv, RenameIndex, Exists, UndoCsv, Undo
  <2>2. ControlOK'
    BY <1>1 DEF IInv, TypeOK, ControlOK, Pcs, RecoverPcs, IndexPcs, CommitPcs, UndoPcs, Answers,
           Failures, RemoveCsv, RemoveIndex, RenameCsv, RenameIndex, Exists, UndoCsv, Undo
  <2>3. FlagsOK'
    BY <1>a, <1>1 DEF IInv, TypeOK, FlagsOK, UndoCsv, Undo
  <2>4. NumbersOK'
    <3>1. UNCHANGED <<ram, flash, current, previousCurrent, beforeSel, command, loading, callFaults,
                      edits, plays, cuts>>
      BY <1>1 DEF UndoCsv, Undo
    <3>. QED BY <1>a, <3>1 DEF IInv, TypeOK, NumbersOK
  <2>5. (KeptInv /\ StageInv /\ IndexInv /\ RecoverInv)'
    BY <1>1 DEF IInv, TypeOK, KeptInv, StageInv, IndexInv, RecoverInv, FilesOK, ControlOK,
           FlagsOK, Serving, Staging, Preparing, Installed, InIndex, IndexPcs, Committing,
           Recovering, Copies, Csvs, Indexes, RemoveCsv, RemoveIndex, RenameCsv, RenameIndex,
           Exists, UndoCsv, Undo
  <2>. QED BY <2>1, <2>2, <2>3, <2>4, <2>5 DEF IInv, TypeOK
<1>2. CASE UndoCsvRename
  <2>1. FilesOK'
    BY <1>2 DEF IInv, TypeOK, FilesOK, Csvs, Indexes, Copies, IndexInv, ControlOK, Positions,
           RemoveCsv, RemoveIndex, RenameCsv, RenameIndex, Exists, UndoCsvRename, Undo
  <2>2. ControlOK'
    BY <1>2 DEF IInv, TypeOK, ControlOK, Pcs, RecoverPcs, IndexPcs, CommitPcs, UndoPcs, Answers,
           Failures, RemoveCsv, RemoveIndex, RenameCsv, RenameIndex, Exists, UndoCsvRename, Undo
  <2>3. FlagsOK' /\ NumbersOK'
    BY <1>a, <1>2 DEF IInv, TypeOK, FlagsOK, NumbersOK, Positions, UndoCsvRename, Undo
  <2>4. (KeptInv /\ StageInv /\ IndexInv /\ RecoverInv)'
    BY <1>2 DEF IInv, TypeOK, KeptInv, StageInv, IndexInv, RecoverInv, FilesOK, ControlOK,
           FlagsOK, Serving, Staging, Preparing, Installed, InIndex, IndexPcs, Committing,
           Recovering, Copies, Csvs, Indexes, RemoveCsv, RemoveIndex, RenameCsv, RenameIndex,
           Exists, UndoCsvRename, Undo
  <2>. QED BY <2>1, <2>2, <2>3, <2>4 DEF IInv, TypeOK
<1>3. CASE UndoIndex
  <2>1. FilesOK'
    BY <1>3 DEF IInv, TypeOK, FilesOK, Csvs, Indexes, Copies, IndexInv, ControlOK, Positions,
           RemoveCsv, RemoveIndex, RenameCsv, RenameIndex, Exists, UndoIndex, Undo
  <2>2. ControlOK'
    BY <1>3 DEF IInv, TypeOK, ControlOK, Pcs, RecoverPcs, IndexPcs, CommitPcs, UndoPcs, Answers,
           Failures, RemoveCsv, RemoveIndex, RenameCsv, RenameIndex, Exists, UndoIndex, Undo
  <2>3. FlagsOK'
    BY <1>a, <1>3 DEF IInv, TypeOK, FlagsOK, UndoIndex, Undo
  <2>4. NumbersOK'
    BY <1>a, <1>3 DEF IInv, TypeOK, FlagsOK, NumbersOK, Positions, UndoIndex, Undo
  <2>5. (KeptInv /\ StageInv /\ IndexInv /\ RecoverInv)'
    BY <1>3 DEF IInv, TypeOK, KeptInv, StageInv, IndexInv, RecoverInv, FilesOK, ControlOK,
           FlagsOK, Serving, Staging, Preparing, Installed, InIndex, IndexPcs, Committing,
           Recovering, Copies, Csvs, Indexes, RemoveCsv, RemoveIndex, RenameCsv, RenameIndex,
           Exists, UndoIndex, Undo
  <2>. QED BY <2>1, <2>2, <2>3, <2>4, <2>5 DEF IInv, TypeOK
<1>4. CASE UndoIndexRename
  <2>1. FilesOK'
    BY <1>4 DEF IInv, TypeOK, FilesOK, Csvs, Indexes, Copies, IndexInv, ControlOK, Positions,
           RemoveCsv, RemoveIndex, RenameCsv, RenameIndex, Exists, UndoIndexRename, Undo
  <2>2. ControlOK'
    BY <1>4 DEF IInv, TypeOK, ControlOK, Pcs, RecoverPcs, IndexPcs, CommitPcs, UndoPcs, Answers,
           Failures, RemoveCsv, RemoveIndex, RenameCsv, RenameIndex, Exists, UndoIndexRename,
           Undo
  <2>3. FlagsOK' /\ NumbersOK'
    BY <1>a, <1>4 DEF IInv, TypeOK, FlagsOK, NumbersOK, Positions, UndoIndexRename, Undo
  <2>4. (KeptInv /\ StageInv /\ IndexInv /\ RecoverInv)'
    BY <1>4 DEF IInv, TypeOK, KeptInv, StageInv, IndexInv, RecoverInv, FilesOK, ControlOK,
           FlagsOK, Serving, Staging, Preparing, Installed, InIndex, IndexPcs, Committing,
           Recovering, Copies, Csvs, Indexes, RemoveCsv, RemoveIndex, RenameCsv, RenameIndex,
           Exists, UndoIndexRename, Undo
  <2>. QED BY <2>1, <2>2, <2>3, <2>4 DEF IInv, TypeOK
<1>5. CASE UndoCheck
  <2>1. FilesOK'
    BY <1>5 DEF IInv, TypeOK, FilesOK, Csvs, Indexes, Copies, IndexInv, ControlOK, Positions,
           RemoveCsv, RemoveIndex, RenameCsv, RenameIndex, Exists, UndoCheck, Checked,
           CallRebuild
  <2>2. ControlOK'
    BY <1>5 DEF IInv, TypeOK, ControlOK, Pcs, RecoverPcs, IndexPcs, CommitPcs, UndoPcs, Answers,
           Failures, RemoveCsv, RemoveIndex, RenameCsv, RenameIndex, Exists, UndoCheck, Checked,
           CallRebuild
  <2>3. FlagsOK' /\ NumbersOK'
    BY <1>a, <1>5 DEF IInv, TypeOK, FlagsOK, NumbersOK, Positions, UndoCheck, Checked,
           CallRebuild
  <2>4. (KeptInv /\ StageInv /\ IndexInv /\ RecoverInv)'
    BY <1>5 DEF IInv, TypeOK, KeptInv, StageInv, IndexInv, RecoverInv, FilesOK, ControlOK,
           FlagsOK, Serving, Staging, Preparing, Installed, InIndex, IndexPcs, Committing,
           Recovering, Copies, Csvs, Indexes, RemoveCsv, RemoveIndex, RenameCsv, RenameIndex,
           Exists, UndoCheck, Checked, CallRebuild
  <2>. QED BY <2>1, <2>2, <2>3, <2>4 DEF IInv, TypeOK
<1>6. CASE RolledBack
  <2>1. FilesOK'
    BY <1>6 DEF IInv, TypeOK, FilesOK, Csvs, Indexes, Copies, IndexInv, ControlOK, Positions,
           RemoveCsv, RemoveIndex, RenameCsv, RenameIndex, Exists, RolledBack, SelectionSet,
           SelectionFails
  <2>2. ControlOK'
    BY <1>6 DEF IInv, TypeOK, ControlOK, Pcs, RecoverPcs, IndexPcs, CommitPcs, UndoPcs, Answers,
           Failures, RemoveCsv, RemoveIndex, RenameCsv, RenameIndex, Exists, RolledBack,
           SelectionSet, SelectionFails
  <2>3. FlagsOK' /\ NumbersOK'
    BY <1>a, <1>6 DEF IInv, TypeOK, FlagsOK, NumbersOK, Positions, RolledBack, SelectionSet,
           SelectionFails
  <2>4. (KeptInv /\ StageInv /\ IndexInv /\ RecoverInv)'
    BY <1>6 DEF IInv, TypeOK, KeptInv, StageInv, IndexInv, RecoverInv, FilesOK, ControlOK,
           FlagsOK, Serving, Staging, Preparing, Installed, InIndex, IndexPcs, Committing,
           Recovering, Copies, Csvs, Indexes, RemoveCsv, RemoveIndex, RenameCsv, RenameIndex,
           Exists, RolledBack, SelectionSet, SelectionFails
  <2>. QED BY <2>1, <2>2, <2>3, <2>4 DEF IInv, TypeOK
<1>. QED BY <1>1, <1>2, <1>3, <1>4, <1>5, <1>6 DEF UndoStep

\* The callers, the player and the power cut.
LEMMA CallersKeep ==
  ASSUME IInv,
         \/ CommitFails \/ CommitReturns \/ RecoverReturns \/ Boot \/ Start
         \/ PlayTakes \/ PlayLoads \/ PlayGivesUp \/ Refresh \/ Request \/ PowerCut
         \/ \E position \in 1 .. MaxRows : Play(position)
  PROVE  IInv'
<1> USE ListsAreLists
<1>1. CASE CommitFails
  <2>1. FilesOK'
    BY <1>1 DEF IInv, TypeOK, FilesOK, Csvs, Indexes, Copies, IndexInv, ControlOK, Positions,
           RemoveCsv, RemoveIndex, RenameCsv, RenameIndex, Exists, CommitFails, Failed,
           Answered, DropLocals
  <2>2. ControlOK'
    BY <1>1 DEF IInv, TypeOK, ControlOK, Pcs, RecoverPcs, IndexPcs, CommitPcs, UndoPcs, Answers,
           Failures, RemoveCsv, RemoveIndex, RenameCsv, RenameIndex, Exists, CommitFails,
           Failed, Answered, DropLocals
  <2>3. FlagsOK' /\ NumbersOK'
    BY <1>1 DEF IInv, TypeOK, FlagsOK, NumbersOK, Positions, CommitFails, Failed, Answered,
           DropLocals
  <2>4. (KeptInv /\ StageInv /\ IndexInv /\ RecoverInv)'
    BY <1>1 DEF IInv, TypeOK, KeptInv, StageInv, IndexInv, RecoverInv, FilesOK, ControlOK,
           FlagsOK, Serving, Staging, Preparing, Installed, InIndex, IndexPcs, Committing,
           Recovering, Copies, Csvs, Indexes, RemoveCsv, RemoveIndex, RenameCsv, RenameIndex,
           Exists, CommitFails, Failed, Answered, DropLocals
  <2>. QED BY <2>1, <2>2, <2>3, <2>4 DEF IInv, TypeOK
<1>2. CASE CommitReturns
  <2>1. FilesOK'
    BY <1>2 DEF IInv, TypeOK, FilesOK, Csvs, Indexes, Copies, IndexInv, ControlOK, Positions,
           RemoveCsv, RemoveIndex, RenameCsv, RenameIndex, Exists, CommitReturns, Answered,
           DropLocals
  <2>2. ControlOK'
    BY <1>2 DEF IInv, TypeOK, ControlOK, Pcs, RecoverPcs, IndexPcs, CommitPcs, UndoPcs, Answers,
           Failures, RemoveCsv, RemoveIndex, RenameCsv, RenameIndex, Exists, CommitReturns,
           Answered, DropLocals
  <2>3. FlagsOK'
    BY <1>2 DEF IInv, TypeOK, FlagsOK, CommitReturns, Answered, DropLocals
  <2>4. NumbersOK'
    BY <1>2 DEF IInv, TypeOK, FlagsOK, NumbersOK, Positions, CommitReturns, Answered, DropLocals
  <2>5. (KeptInv /\ StageInv /\ IndexInv /\ RecoverInv)'
    BY <1>2 DEF IInv, TypeOK, KeptInv, StageInv, IndexInv, RecoverInv, FilesOK, ControlOK,
           FlagsOK, Serving, Staging, Preparing, Installed, InIndex, IndexPcs, Committing,
           Recovering, Copies, Csvs, Indexes, RemoveCsv, RemoveIndex, RenameCsv, RenameIndex,
           Exists, CommitReturns, Answered, DropLocals
  <2>. QED BY <2>1, <2>2, <2>3, <2>4, <2>5 DEF IInv, TypeOK
<1>3. CASE RecoverReturns
  <2>1. FilesOK'
    BY <1>3 DEF IInv, TypeOK, FilesOK, Csvs, Indexes, Copies, IndexInv, ControlOK, Positions,
           RemoveCsv, RemoveIndex, RenameCsv, RenameIndex, Exists, RecoverReturns, Answered,
           DropLocals
  <2>2. ControlOK'
    BY <1>3 DEF IInv, TypeOK, ControlOK, Pcs, RecoverPcs, IndexPcs, CommitPcs, UndoPcs, Answers,
           Failures, RemoveCsv, RemoveIndex, RenameCsv, RenameIndex, Exists, RecoverReturns,
           Answered, DropLocals
  <2>3. FlagsOK' /\ NumbersOK'
    BY <1>3 DEF IInv, TypeOK, FlagsOK, NumbersOK, Positions, RecoverReturns, Answered,
           DropLocals
  <2>4. (KeptInv /\ StageInv /\ IndexInv /\ RecoverInv)'
    BY <1>3 DEF IInv, TypeOK, KeptInv, StageInv, IndexInv, RecoverInv, FilesOK, ControlOK,
           FlagsOK, Serving, Staging, Preparing, Installed, InIndex, IndexPcs, Committing,
           Recovering, Copies, Csvs, Indexes, RemoveCsv, RemoveIndex, RenameCsv, RenameIndex,
           Exists, RecoverReturns, Answered, DropLocals
  <2>. QED BY <2>1, <2>2, <2>3, <2>4 DEF IInv, TypeOK
<1>4. CASE Boot
  <2>1. FilesOK'
    BY <1>4 DEF IInv, TypeOK, FilesOK, Csvs, Indexes, Copies, IndexInv, ControlOK, Positions,
           RemoveCsv, RemoveIndex, RenameCsv, RenameIndex, Exists, Boot
  <2>2. ControlOK'
    BY <1>4 DEF IInv, TypeOK, ControlOK, Pcs, RecoverPcs, IndexPcs, CommitPcs, UndoPcs, Answers,
           Failures, RemoveCsv, RemoveIndex, RenameCsv, RenameIndex, Exists, Boot
  <2>3. FlagsOK' /\ NumbersOK'
    BY <1>4 DEF IInv, TypeOK, FlagsOK, NumbersOK, Positions, Boot
  <2>4. (KeptInv /\ StageInv /\ IndexInv /\ RecoverInv)'
    BY <1>4 DEF IInv, TypeOK, KeptInv, StageInv, IndexInv, RecoverInv, FilesOK, ControlOK,
           FlagsOK, Serving, Staging, Preparing, Installed, InIndex, IndexPcs, Committing,
           Recovering, Copies, Csvs, Indexes, RemoveCsv, RemoveIndex, RenameCsv, RenameIndex,
           Exists, Boot
  <2>. QED BY <2>1, <2>2, <2>3, <2>4 DEF IInv, TypeOK
<1>5. CASE Start
  <2>1. FilesOK'
    BY <1>5 DEF IInv, TypeOK, FilesOK, Csvs, Indexes, Copies, IndexInv, ControlOK, Positions,
           RemoveCsv, RemoveIndex, RenameCsv, RenameIndex, Exists, Start, StartPositions,
           Choose, Count
  <2>2. ControlOK'
    BY <1>5 DEF IInv, TypeOK, ControlOK, Pcs, RecoverPcs, IndexPcs, CommitPcs, UndoPcs, Answers,
           Failures, RemoveCsv, RemoveIndex, RenameCsv, RenameIndex, Exists, Start,
           StartPositions, Choose, Count
  <2>3. FlagsOK' /\ NumbersOK'
    BY <1>5, CountIsPosition DEF IInv, TypeOK, FlagsOK, NumbersOK, Positions, Start,
           StartPositions, Choose, Count
  <2>4. (KeptInv /\ StageInv /\ IndexInv /\ RecoverInv)'
    BY <1>5 DEF IInv, TypeOK, KeptInv, StageInv, IndexInv, RecoverInv, FilesOK, ControlOK,
           FlagsOK, Serving, Staging, Preparing, Installed, InIndex, IndexPcs, Committing,
           Recovering, Copies, Csvs, Indexes, RemoveCsv, RemoveIndex, RenameCsv, RenameIndex,
           Exists, Start, StartPositions, Choose, Count
  <2>. QED BY <2>1, <2>2, <2>3, <2>4 DEF IInv, TypeOK
<1>6. CASE PlayTakes
  <2>1. FilesOK'
    BY <1>6 DEF IInv, TypeOK, FilesOK, Csvs, Indexes, Copies, IndexInv, ControlOK, Positions,
           RemoveCsv, RemoveIndex, RenameCsv, RenameIndex, Exists, PlayTakes, Choose
  <2>2. ControlOK'
    BY <1>6 DEF IInv, TypeOK, ControlOK, Pcs, RecoverPcs, IndexPcs, CommitPcs, UndoPcs, Answers,
           Failures, RemoveCsv, RemoveIndex, RenameCsv, RenameIndex, Exists, PlayTakes, Choose
  <2>3. FlagsOK' /\ NumbersOK'
    BY <1>6 DEF IInv, TypeOK, FlagsOK, NumbersOK, Positions, PlayTakes, Choose
  <2>4. (KeptInv /\ StageInv /\ IndexInv /\ RecoverInv)'
    BY <1>6 DEF IInv, TypeOK, KeptInv, StageInv, IndexInv, RecoverInv, FilesOK, ControlOK,
           FlagsOK, Serving, Staging, Preparing, Installed, InIndex, IndexPcs, Committing,
           Recovering, Copies, Csvs, Indexes, RemoveCsv, RemoveIndex, RenameCsv, RenameIndex,
           Exists, PlayTakes, Choose
  <2>. QED BY <2>1, <2>2, <2>3, <2>4 DEF IInv, TypeOK
<1>7. CASE PlayLoads
  <2>1. FilesOK'
    BY <1>7 DEF IInv, TypeOK, FilesOK, Csvs, Indexes, Copies, IndexInv, ControlOK, Positions,
           RemoveCsv, RemoveIndex, RenameCsv, RenameIndex, Exists, PlayLoads, Load, Choose,
           Count
  <2>2. ControlOK'
    BY <1>7 DEF IInv, TypeOK, ControlOK, Pcs, RecoverPcs, IndexPcs, CommitPcs, UndoPcs, Answers,
           Failures, RemoveCsv, RemoveIndex, RenameCsv, RenameIndex, Exists, PlayLoads, Load,
           Choose, Count
  <2>3. FlagsOK' /\ NumbersOK'
    BY <1>7, CountIsPosition DEF IInv, TypeOK, FlagsOK, NumbersOK, Positions, PlayLoads, Load,
           Choose, Count
  <2>4. (KeptInv /\ StageInv /\ IndexInv /\ RecoverInv)'
    BY <1>7 DEF IInv, TypeOK, KeptInv, StageInv, IndexInv, RecoverInv, FilesOK, ControlOK,
           FlagsOK, Serving, Staging, Preparing, Installed, InIndex, IndexPcs, Committing,
           Recovering, Copies, Csvs, Indexes, RemoveCsv, RemoveIndex, RenameCsv, RenameIndex,
           Exists, PlayLoads, Load, Choose, Count
  <2>. QED BY <2>1, <2>2, <2>3, <2>4 DEF IInv, TypeOK
<1>8. CASE PlayGivesUp
  <2>1. FilesOK'
    BY <1>8 DEF IInv, TypeOK, FilesOK, Csvs, Indexes, Copies, IndexInv, ControlOK, Positions,
           RemoveCsv, RemoveIndex, RenameCsv, RenameIndex, Exists, PlayGivesUp
  <2>2. ControlOK'
    BY <1>8 DEF IInv, TypeOK, ControlOK, Pcs, RecoverPcs, IndexPcs, CommitPcs, UndoPcs, Answers,
           Failures, RemoveCsv, RemoveIndex, RenameCsv, RenameIndex, Exists, PlayGivesUp
  <2>3. FlagsOK' /\ NumbersOK'
    BY <1>8 DEF IInv, TypeOK, FlagsOK, NumbersOK, Positions, PlayGivesUp
  <2>4. (KeptInv /\ StageInv /\ IndexInv /\ RecoverInv)'
    BY <1>8 DEF IInv, TypeOK, KeptInv, StageInv, IndexInv, RecoverInv, FilesOK, ControlOK,
           FlagsOK, Serving, Staging, Preparing, Installed, InIndex, IndexPcs, Committing,
           Recovering, Copies, Csvs, Indexes, RemoveCsv, RemoveIndex, RenameCsv, RenameIndex,
           Exists, PlayGivesUp
  <2>. QED BY <2>1, <2>2, <2>3, <2>4 DEF IInv, TypeOK
<1>9. CASE Refresh
  <2>1. FilesOK'
    BY <1>9 DEF IInv, TypeOK, FilesOK, Csvs, Indexes, Copies, IndexInv, ControlOK, Positions,
           RemoveCsv, RemoveIndex, RenameCsv, RenameIndex, Exists, Refresh, Load, Choose, Count
  <2>2. ControlOK'
    BY <1>9 DEF IInv, TypeOK, ControlOK, Pcs, RecoverPcs, IndexPcs, CommitPcs, UndoPcs, Answers,
           Failures, RemoveCsv, RemoveIndex, RenameCsv, RenameIndex, Exists, Refresh, Load,
           Choose, Count
  <2>3. FlagsOK' /\ NumbersOK'
    BY <1>9, CountIsPosition DEF IInv, TypeOK, FlagsOK, NumbersOK, Positions, Refresh, Load,
           Choose, Count
  <2>4. (KeptInv /\ StageInv /\ IndexInv /\ RecoverInv)'
    BY <1>9 DEF IInv, TypeOK, KeptInv, StageInv, IndexInv, RecoverInv, FilesOK, ControlOK,
           FlagsOK, Serving, Staging, Preparing, Installed, InIndex, IndexPcs, Committing,
           Recovering, Copies, Csvs, Indexes, RemoveCsv, RemoveIndex, RenameCsv, RenameIndex,
           Exists, Refresh, Load, Choose, Count
  <2>. QED BY <2>1, <2>2, <2>3, <2>4 DEF IInv, TypeOK
<1>10. CASE \E position \in 1 .. MaxRows : Play(position)
  <2>1. FilesOK'
    BY <1>10 DEF IInv, TypeOK, FilesOK, Csvs, Indexes, Copies, IndexInv, ControlOK, Positions,
           RemoveCsv, RemoveIndex, RenameCsv, RenameIndex, Exists, Play, Count
  <2>2. ControlOK'
    BY <1>10 DEF IInv, TypeOK, ControlOK, Pcs, RecoverPcs, IndexPcs, CommitPcs, UndoPcs,
           Answers, Failures, RemoveCsv, RemoveIndex, RenameCsv, RenameIndex, Exists, Play,
           Count
  <2>3. FlagsOK' /\ NumbersOK'
    BY <1>10, CountIsPosition DEF IInv, TypeOK, FlagsOK, NumbersOK, Positions, Play, Count
  <2>4. (KeptInv /\ StageInv /\ IndexInv /\ RecoverInv)'
    BY <1>10 DEF IInv, TypeOK, KeptInv, StageInv, IndexInv, RecoverInv, FilesOK, ControlOK,
           FlagsOK, Serving, Staging, Preparing, Installed, InIndex, IndexPcs, Committing,
           Recovering, Copies, Csvs, Indexes, RemoveCsv, RemoveIndex, RenameCsv, RenameIndex,
           Exists, Play, Count
  <2>. QED BY <2>1, <2>2, <2>3, <2>4 DEF IInv, TypeOK
<1>11. CASE Request
  <2>0. Effective \in Lists /\ Backup \in Lists \cup {Missing}
    BY <1>11 DEF IInv, TypeOK, FilesOK, KeptInv, Effective, RecoverySource
  <2>1. FilesOK'
    BY <1>11, <2>0 DEF IInv, TypeOK, FilesOK, Request
  <2>2. ControlOK'
    BY <1>11 DEF IInv, TypeOK, ControlOK, Pcs, RecoverPcs, IndexPcs, CommitPcs, UndoPcs,
           Answers, Failures, RemoveCsv, RemoveIndex, RenameCsv, RenameIndex, Exists, Request,
           Effective, RecoverySource
  <2>3. FlagsOK'
    BY <1>11 DEF IInv, TypeOK, FlagsOK, Request
  <2>4. NumbersOK'
    BY <1>11 DEF IInv, TypeOK, FlagsOK, NumbersOK, Positions, Request
  <2>5. (KeptInv /\ StageInv)'
    BY <1>11, <2>0 DEF IInv, TypeOK, KeptInv, StageInv, IndexInv, RecoverInv, FilesOK,
           ControlOK, FlagsOK, Serving, Staging, Preparing, Installed, InIndex, IndexPcs,
           Committing, Recovering, Copies, Csvs, Indexes, RemoveCsv, RemoveIndex, RenameCsv,
           RenameIndex, Exists, Request, Effective, RecoverySource
  <2>6. (IndexInv /\ RecoverInv)'
    BY <1>11, <2>0 DEF IInv, TypeOK, KeptInv, StageInv, IndexInv, RecoverInv, FilesOK,
           ControlOK, FlagsOK, Serving, Staging, Preparing, Installed, InIndex, IndexPcs,
           Committing, Recovering, Copies, Csvs, Indexes, RemoveCsv, RemoveIndex, RenameCsv,
           RenameIndex, Exists, Request, Effective, RecoverySource
  <2>. QED BY <2>1, <2>2, <2>3, <2>4, <2>5, <2>6 DEF IInv, TypeOK
<1>12. CASE PowerCut
  <2>1. FilesOK'
    BY <1>12 DEF IInv, TypeOK, FilesOK, Csvs, Indexes, Copies, IndexInv, ControlOK, Positions,
           RemoveCsv, RemoveIndex, RenameCsv, RenameIndex, Exists, PowerCut, DropLocals
  <2>2. ControlOK'
    BY <1>12 DEF IInv, TypeOK, ControlOK, Pcs, RecoverPcs, IndexPcs, CommitPcs, UndoPcs,
           Answers, Failures, RemoveCsv, RemoveIndex, RenameCsv, RenameIndex, Exists, PowerCut,
           DropLocals
  <2>3. FlagsOK'
    BY <1>12 DEF IInv, TypeOK, FlagsOK, PowerCut, DropLocals
  <2>4. NumbersOK'
    BY <1>12 DEF IInv, TypeOK, FlagsOK, NumbersOK, Positions, PowerCut, DropLocals
  <2>5. (KeptInv /\ StageInv /\ IndexInv /\ RecoverInv)'
    BY <1>12 DEF IInv, TypeOK, KeptInv, StageInv, IndexInv, RecoverInv, FilesOK, ControlOK,
           FlagsOK, Serving, Staging, Preparing, Installed, InIndex, IndexPcs, Committing,
           Recovering, Copies, Csvs, Indexes, RemoveCsv, RemoveIndex, RenameCsv, RenameIndex,
           Exists, PowerCut, DropLocals
  <2>. QED BY <2>1, <2>2, <2>3, <2>4, <2>5 DEF IInv, TypeOK
<1>. QED BY <1>1, <1>2, <1>3, <1>4, <1>5, <1>6, <1>7, <1>8, <1>9, <1>10, <1>11, <1>12

\* What the four kinds of request store are lists, and the position they ask
\* for is the one the selected station has there.
LEMMA AppendIsList ==
  ASSUME NEW list \in Lists, NEW s \in Stations \ Elements(list), Len(list) < MaxRows
  PROVE  /\ Append(list, s) \in Lists /\ Len(Append(list, s)) = Len(list) + 1
         /\ \A j \in 1 .. Len(list) : Append(list, s)[j] = list[j]
  <1> DEFINE new == Append(list, s)  n == Len(list)
  <1>1. n \in 0 .. MaxRows /\ n + 1 \in 0 .. MaxRows /\ DOMAIN list = 1 .. n
        /\ list \in [1 .. n -> Stations]
    BY ListElements
  <1>2. new \in [1 .. n + 1 -> Stations] /\ new[n + 1] = s /\ \A j \in 1 .. n : new[j] = list[j]
    <2>1. list \in Seq(Stations) /\ s \in Stations
      BY ListElements
    <2>2. new \in Seq(Stations) /\ Len(new) = n + 1 /\ new[n + 1] = s
          /\ \A j \in 1 .. n : new[j] = list[j]
      BY <2>1, AppendProperties
    <2> HIDE DEF new, n
    <2>. QED BY <2>2
  <1>3. \A j \in 1 .. n : list[j] # s
    BY <1>1 DEF Elements
  <1>4. \A j, k \in 1 .. n : list[j] = list[k] => j = k
    <2>1. \A j, k \in DOMAIN list : list[j] = list[k] => j = k
      BY DEF Lists
    <2>. QED BY <1>1, <2>1
  <1> HIDE DEF new, n
  <1>5. DOMAIN new = 1 .. n + 1
    BY <1>2
  <1>6. \A j, k \in DOMAIN new : new[j] = new[k] => j = k
    <2> SUFFICES ASSUME NEW j \in 1 .. n + 1, NEW k \in 1 .. n + 1, new[j] = new[k] PROVE j = k
      BY <1>5
    <2>1. n \in Int
      BY <1>1
    <2>2. (j \in 1 .. n \/ j = n + 1) /\ (k \in 1 .. n \/ k = n + 1)
      BY <2>1
    <2>. QED BY <2>2, <1>2, <1>3, <1>4
  <1>7. new \in UNION {[1 .. m -> Stations] : m \in 0 .. MaxRows}
    BY <1>1, <1>2
  <1>8. Len(new) = n + 1
    BY <1>1, <1>5
  <1>. QED BY <1>2, <1>6, <1>7, <1>8 DEF Lists, new, n

LEMMA WithoutIsList ==
  ASSUME NEW list \in Lists, NEW k \in DOMAIN list
  PROVE  /\ Without(list, k) \in Lists /\ Len(Without(list, k)) = Len(list) - 1
         /\ \A j \in 1 .. Len(list) - 1 : Without(list, k)[j] = list[IF j < k THEN j ELSE j + 1]
  <1> DEFINE new == Without(list, k)  n == Len(list)
  <1>1. n \in 1 .. MaxRows /\ DOMAIN list = 1 .. n /\ k \in 1 .. n /\ list \in [1 .. n -> Stations]
    BY ListElements
  <1>2. \A j \in 1 .. n - 1 : (IF j < k THEN j ELSE j + 1) \in 1 .. n
    BY <1>1
  <1>3. new = [j \in 1 .. n - 1 |-> list[IF j < k THEN j ELSE j + 1]]
    BY DEF Without
  <1>4. \A j, m \in 1 .. n : list[j] = list[m] => j = m
    <2>1. \A j, m \in DOMAIN list : list[j] = list[m] => j = m
      BY DEF Lists
    <2>. QED BY <1>1, <2>1
  <1> HIDE DEF new, n
  <1>5. new \in [1 .. n - 1 -> Stations]
    BY <1>1, <1>2, <1>3
  <1>6. \A j, m \in DOMAIN new : new[j] = new[m] => j = m
    <2> SUFFICES ASSUME NEW j \in 1 .. n - 1, NEW m \in 1 .. n - 1, new[j] = new[m] PROVE j = m
      BY <1>3
    <2>1. (IF j < k THEN j ELSE j + 1) = (IF m < k THEN m ELSE m + 1)
      BY <1>2, <1>3, <1>4
    <2>. QED BY <1>1, <2>1
  <1>7. n - 1 \in 0 .. MaxRows
    BY <1>1
  <1>8. new \in UNION {[1 .. m -> Stations] : m \in 0 .. MaxRows}
    BY <1>5, <1>7
  <1>9. Len(new) = n - 1
    BY <1>5, <1>7
  <1>. QED BY <1>3, <1>6, <1>8, <1>9 DEF Lists, new, n

\* Where the station at j was before it or another one was moved.
MovedFrom(from, to, j) ==
    IF j = to THEN from
    ELSE LET i == IF j < to THEN j ELSE j - 1 IN IF i < from THEN i ELSE i + 1

LEMMA MovedIsList ==
  ASSUME NEW list \in Lists, NEW from \in DOMAIN list, NEW to \in DOMAIN list
  PROVE  /\ Moved(list, from, to) \in Lists /\ Len(Moved(list, from, to)) = Len(list)
         /\ \A j \in 1 .. Len(list) : Moved(list, from, to)[j] = list[MovedFrom(from, to, j)]
  <1> DEFINE n == Len(list)  new == Moved(list, from, to)  Old(j) == MovedFrom(from, to, j)
  <1>1. n \in 1 .. MaxRows /\ DOMAIN list = 1 .. n /\ from \in 1 .. n /\ to \in 1 .. n
        /\ list \in [1 .. n -> Stations]
    BY ListElements
  <1>2. \A j \in 1 .. n : Old(j) \in 1 .. n
    BY <1>1 DEF MovedFrom
  <1>3. \A j, k \in 1 .. n : Old(j) = Old(k) => j = k
    BY <1>1 DEF MovedFrom
  <1>4. \A j, m \in 1 .. n : list[j] = list[m] => j = m
    <2>1. \A j, m \in DOMAIN list : list[j] = list[m] => j = m
      BY DEF Lists
    <2>. QED BY <1>1, <2>1
  <1>5. \A j \in 1 .. n : new[j] = list[Old(j)]
    <2> SUFFICES ASSUME NEW j \in 1 .. n, j # to PROVE new[j] = list[Old(j)]
      BY DEF Moved, MovedFrom
    <2> DEFINE i == IF j < to THEN j ELSE j - 1
    <2>1. i \in 1 .. n - 1
      BY <1>1
    <2>2. new[j] = Without(list, from)[i]
      BY DEF Moved
    <2>. QED BY <2>1, <2>2 DEF Without, MovedFrom
  <1>6. DOMAIN new = 1 .. n
    BY DEF Moved
  <1>7. new = [j \in 1 .. n |-> new[j]]
    BY DEF Moved
  <1> HIDE DEF new, n, Old
  <1>8. new \in [1 .. n -> Stations]
    BY <1>1, <1>2, <1>5, <1>7
  <1>9. \A j, k \in DOMAIN new : new[j] = new[k] => j = k
    BY <1>2, <1>3, <1>4, <1>5, <1>6
  <1>10. new \in UNION {[1 .. m -> Stations] : m \in 0 .. MaxRows}
    BY <1>1, <1>8
  <1>11. Len(new) = n
    BY <1>1, <1>6
  <1>. QED BY <1>5, <1>9, <1>10, <1>11 DEF Lists, new, n, Old

\* Of two positions, one in each list: the same station, if it is in both.
Keeps(list, p, new, q) ==
    p \in DOMAIN list /\ list[p] \in Elements(new) => new[q] = list[p]

LEMMA RequestStoresList ==
  ASSUME IInv, ram <= Len(Active), IsList(Active),
         Add(Active) \/ Delete(Active) \/ Move(Active) \/ Import(Active)
  PROVE  \E new \in Lists, position \in Positions :
           /\ CallCommit("edit", new, position)
           /\ position <= Len(new) /\ Keeps(Active, ram, new, position)
  <1> DEFINE list == Active  n == Len(list)
  <1>1. /\ n \in Positions /\ MaxRows \in Nat /\ DOMAIN list = 1 .. n /\ ram \in 0 .. n
        /\ \A j, k \in 1 .. n : list[j] = list[k] => j = k
    <2>1. \A j, k \in DOMAIN list : list[j] = list[k] => j = k
      BY DEF Lists
    <2>. QED BY <2>1, ListElements DEF IInv, TypeOK, NumbersOK, Positions
  <1> HIDE DEF n
  <1>2. CASE Add(list)
    <2>1. PICK s \in Stations \ Elements(list) : CallCommit("edit", Append(list, s), ram)
      BY <1>2 DEF Add
    <2>2. n < MaxRows
      BY <1>2 DEF Add, n
    <2> DEFINE new == Append(list, s)
    <2>3. new \in Lists /\ Len(new) = n + 1 /\ \A j \in 1 .. n : new[j] = list[j]
      BY <2>2, AppendIsList DEF n
    <2> HIDE DEF new
    <2>4. ram \in Positions /\ ram <= Len(new) /\ Keeps(list, ram, new, ram)
      BY <1>1, <2>3 DEF Keeps, Positions
    <2>. QED BY <2>1, <2>3, <2>4 DEF new
  <1>3. CASE Delete(list)
    <2>1. PICK k \in DOMAIN list :
            CallCommit("edit", Without(list, k), IF ram = 0 THEN 0 ELSE AfterDelete(ram, k, n - 1))
      BY <1>3 DEF Delete, n
    <2> DEFINE new == Without(list, k)
               q == IF ram = 0 THEN 0 ELSE AfterDelete(ram, k, n - 1)
    <2>2. new \in Lists /\ Len(new) = n - 1
          /\ \A j \in 1 .. n - 1 : new[j] = list[IF j < k THEN j ELSE j + 1]
      BY WithoutIsList DEF n
    <2> HIDE DEF new
    <2>a. n \in Nat /\ n <= MaxRows /\ k \in 1 .. n /\ ram \in 0 .. n
      BY <1>1, <2>1 DEF Positions
    <2>b. ram # 0 => q \in 0 .. n - 1 /\ (ram # k => q \in 1 .. n - 1 /\ (IF q < k THEN q ELSE q + 1) = ram)
      BY <2>a DEF AfterDelete
    <2>3. q \in Positions /\ q <= Len(new)
      BY <1>1, <2>2, <2>a, <2>b DEF Positions
    <2>4. DOMAIN new = 1 .. n - 1
      BY <2>2, ListElements
    <2>5. ASSUME ram = k PROVE list[ram] \notin Elements(new)
      <3>1. \A j \in 1 .. n - 1 : (IF j < k THEN j ELSE j + 1) \in 1 .. n
                                  /\ (IF j < k THEN j ELSE j + 1) # k
        BY <2>a
      <3>2. \A j \in 1 .. n - 1 : new[j] # list[ram]
        BY <1>1, <2>2, <2>5, <2>a, <3>1
      <3>. QED BY <2>4, <3>2 DEF Elements
    <2>6. ASSUME ram # k, ram # 0 PROVE new[q] = list[ram]
      BY <2>2, <2>6, <2>b
    <2>7. Keeps(list, ram, new, q)
      BY <1>1, <2>5, <2>6 DEF Keeps
    <2>. QED BY <2>1, <2>2, <2>3, <2>7 DEF new
  <1>4. CASE Move(list)
    <2>1. PICK from, to \in DOMAIN list :
            CallCommit("edit", Moved(list, from, to), AfterMove(ram, from, to))
      BY <1>4 DEF Move
    <2> DEFINE new == Moved(list, from, to)  q == AfterMove(ram, from, to)
    <2>2. new \in Lists /\ Len(new) = n /\ \A j \in 1 .. n : new[j] = list[MovedFrom(from, to, j)]
      BY MovedIsList DEF n
    <2> HIDE DEF new
    <2>3. q \in Positions /\ q <= Len(new)
      BY <1>1, <2>1, <2>2 DEF AfterMove, Positions
    <2>4. ASSUME ram # 0 PROVE new[q] = list[ram]
      <3>1. q \in 1 .. n /\ MovedFrom(from, to, q) = ram
        BY <1>1, <2>1, <2>4 DEF AfterMove, MovedFrom, Positions
      <3>. QED BY <2>2, <3>1
    <2>5. Keeps(list, ram, new, q)
      BY <1>1, <2>4 DEF Keeps
    <2>. QED BY <2>1, <2>2, <2>3, <2>5 DEF new
  <1>5. CASE Import(list)
    <2> DEFINE active == IF ram = 0 THEN Missing ELSE list[ram]
    <2>1. PICK new \in Lists : CallCommit("edit", new, ImportCurrent(new, ram, active))
      BY <1>5 DEF Import
    <2> DEFINE q == ImportCurrent(new, ram, active)
    <2>2. DOMAIN new = 1 .. Len(new) /\ Len(new) \in 0 .. MaxRows
      BY ListElements
    <2>3. ASSUME active \in Elements(new)
          PROVE  q \in DOMAIN new /\ new[q] = active
      <3> HIDE DEF active
      <3>1. \E k \in DOMAIN new : new[k] = active
        BY <2>3 DEF Elements
      <3>. QED BY <2>3, <3>1 DEF ImportCurrent
    <2>4. ASSUME active \notin Elements(new)
          PROVE  q \in Positions /\ q <= Len(new)
      <3> HIDE DEF active
      <3>. QED BY <1>1, <2>2, <2>4 DEF ImportCurrent, Positions
    <2>5. ram \in DOMAIN list => active = list[ram]
      BY <1>1
    <2> HIDE DEF active, q
    <2>6. q \in Positions /\ q <= Len(new)
      BY <2>2, <2>3, <2>4 DEF Positions
    <2>7. Keeps(list, ram, new, q)
      BY <2>3, <2>5 DEF Keeps
    <2>. QED BY <2>1, <2>6, <2>7 DEF q
  <1>. QED BY <1>2, <1>3, <1>4, <1>5

\* The request itself: it is refused, or commit is called.
LEMMA SnapshotKeeps == ASSUME IInv, Snapshot PROVE IInv'
<1> USE ListsAreLists
<1>1. IsList(Active) /\ Backup = Missing /\ caller = "request"
  BY DEF IInv, StageInv, RecoverInv, Serving, Snapshot
<1>2. /\ pc = "snapshot" /\ UNCHANGED <<csv, index, legacy, caller, ram, flash, command, loading,
           plays, before, beforeSel, spare, callFaults, touched, edits, cuts>>
      /\ \/ \E a \in {"READ_FAILED", "CONFLICT", "INVALID_STATE"} : Answered(a)
         \/ /\ UNCHANGED answer
            /\ \E list \in Lists, position \in Positions : CallCommit("edit", list, position)
  BY <1>1, RequestStoresList DEF Snapshot
<1>3. faults' \in 0 .. MaxFaults
  BY DEF Snapshot, IInv, TypeOK, NumbersOK
<1>4. CASE \E a \in {"READ_FAILED", "CONFLICT", "INVALID_STATE"} : Answered(a)
  <2>1. TypeOK'
    BY <1>2, <1>3, <1>4 DEF IInv, TypeOK, FilesOK, ControlOK, FlagsOK, NumbersOK, Positions, Pcs,
           Answers, Answered, DropLocals
  <2>2. (KeptInv /\ StageInv /\ IndexInv /\ RecoverInv)'
    BY <1>1, <1>2, <1>4 DEF IInv, KeptInv, StageInv, IndexInv, RecoverInv, Serving, Staging, Preparing,
           Installed, InIndex, IndexPcs, Committing, Recovering, Answered, DropLocals
  <2>. QED BY <2>1, <2>2 DEF IInv
<1>5. ASSUME NEW list \in Lists, NEW position \in Positions, UNCHANGED answer,
             CallCommit("edit", list, position)
      PROVE  IInv'
  <2>1. TypeOK'
    BY <1>2, <1>3, <1>5 DEF IInv, TypeOK, FilesOK, ControlOK, FlagsOK, NumbersOK, Pcs, CommitPcs,
           CallCommit
  <2>2. {Active, Backup} \subseteq {before, spare, Missing} /\ Active # Missing
    BY <1>1, <1>2 DEF IInv, RecoverInv, Recovering, Serving
  <2>3. (KeptInv /\ StageInv)'
    BY <1>1, <1>2, <1>5, <2>2 DEF KeptInv, StageInv, Serving, Staging, Preparing, Installed, InIndex,
           IndexPcs, CallCommit
  <2>4. (IndexInv /\ RecoverInv)'
    BY <1>1, <1>2, <1>5 DEF IInv, IndexInv, RecoverInv, Serving, Staging, Preparing, Installed, InIndex,
           IndexPcs, Committing, Recovering, CallCommit
  <2>. QED BY <2>1, <2>3, <2>4 DEF IInv
<1>. QED BY <1>2, <1>4, <1>5

\* A device that was never on has one list, or none and perhaps a legacy one.
LEMMA InitIInv == Init => IInv
<1> SUFFICES ASSUME Init PROVE IInv
  OBVIOUS
<1> USE ListsAreLists
<1>1. /\ csv["tmp"] = Missing /\ csv["bak"] = Missing /\ csv \in [Copies -> Csvs]
      /\ (csv["active"] \in Lists /\ legacy = Missing) \/ csv["active"] = Missing
      /\ index \in [Copies -> Positions \cup {Missing}] /\ legacy \in Lists \cup {Missing}
  BY DEF Init, NoFiles, Copies, Csvs
<1>2. before = Effective /\ rows = Effective
  BY DEF Init
<1>3. Effective \in Lists
      /\ (csv["active"] \in Lists => Effective = csv["active"])
      /\ (csv["active"] = Missing => Effective = LegacyList)
  BY <1>1 DEF Effective, RecoverySource
<1>4. flash \in Positions /\ ram = flash
  <2>1. Len(Effective) \in Positions
    BY <1>3
  <2>. QED BY <2>1 DEF Init, Positions
<1> HIDE DEF LegacyList
<1>5. TypeOK
  <2>1. FilesOK
    BY <1>1, <1>2, <1>3 DEF Init, FilesOK, Indexes
  <2>2. ControlOK /\ FlagsOK
    BY DEF Init, ControlOK, FlagsOK, Pcs, Answers
  <2>3. NumbersOK
    BY <1>4 DEF Init, NumbersOK, Positions
  <2>. QED BY <2>1, <2>2, <2>3 DEF TypeOK
<1>6. KeptInv /\ StageInv /\ IndexInv /\ RecoverInv
  BY <1>1, <1>2, <1>3 DEF Init, KeptInv, StageInv, IndexInv, RecoverInv, Serving, Staging, Preparing,
         Installed, InIndex, IndexPcs, Committing, Recovering, Copies
<1>. QED BY <1>5, <1>6 DEF IInv

LEMMA NextIInv == IInv /\ [Next]_vars => IInv'
<1> SUFFICES ASSUME IInv, [Next]_vars PROVE IInv'
  OBVIOUS
<1>1. CASE Next
  BY <1>1, RecoverStepKeeps, IndexStepKeeps, CommitStepKeeps, UndoStepKeeps, CallersKeep,
     SnapshotKeeps DEF Next, StoreStep, PlayerStep
<1>2. CASE UNCHANGED vars
  <2>1. TypeOK'
    BY <1>2 DEF vars, IInv, TypeOK, FilesOK, ControlOK, FlagsOK, NumbersOK
  <2>2. (KeptInv /\ StageInv /\ IndexInv /\ RecoverInv)'
    BY <1>2 DEF vars, IInv, KeptInv, StageInv, IndexInv, RecoverInv, Serving, Staging, Preparing,
       Installed, InIndex, Committing, Recovering
  <2>. QED BY <2>1, <2>2 DEF IInv
<1>. QED BY <1>1, <1>2

-----------------------------------------------------------------------------
(* What a request may rely on                                              *)

\* How a step changes the two conditions on the faults of the call.
FaultsCount ==
    /\ Unfailed' => Unfailed
    /\ FailedOnce' => FailedOnce
    /\ faults' = faults => Unfailed' = Unfailed /\ FailedOnce' = FailedOnce
    /\ faults' = faults + 1 => ~Unfailed' /\ (FailedOnce' => Unfailed)

\* A step counts at most one fault.
LEMMA FaultsAreCounted ==
  ASSUME IInv, RequestInv, faults' \in {faults, faults + 1}, callFaults' = callFaults
  PROVE  FaultsCount /\ CountInv'
  BY DEF IInv, TypeOK, NumbersOK, RequestInv, CountInv, Unfailed, FailedOnce, FaultsCount

\* recover tells the list it ends with from the one it was given.
LEMMA RecoverStepAnswers == ASSUME IInv, RequestInv, RecoverStep PROVE RequestInv'
<1> USE ListsAreLists DEF IInv, RequestInv, TypeOK, FilesOK, KeptInv, StageInv, RecoverInv,
       Serving, Staging, Preparing, Installed, InIndex, IndexPcs, Committing, Recovering,
       Selected, ValidIndex, Copies, Csvs, Indexes, Exists, RemoveCsv, RemoveIndex, RenameCsv,
       RenameIndex, UndoPcs
<1>a. faults' \in {faults, faults + 1} /\ callFaults' = callFaults
  BY DEF RecoverStep, RecoverInspect, CallCommit, RecoverySource, MigratedPosition,
         LegacyUnreadable, RecoverIndex, Checked, CallRebuild, RemoveCsv, RemoveIndex,
         RenameCsv, RenameIndex
<1>b. FaultsCount /\ CountInv'
  BY <1>a, FaultsAreCounted
<1>1. CASE RecoverInspect
  <2>1. /\ pc = "recover" /\ UNCHANGED <<csv, index, legacy, ram, flash, caller, answer, command, loading,
             before, beforeSel, spare, touched>>
        /\ \/ /\ UNCHANGED locals
              /\ \/ pc' = "unrecovered"
                 \/ pc' = "rec_index" /\ (faults' = faults => Effective = Active)
                 \/ pc' = "rec_drop" /\ (faults' = faults => Effective = Backup)
           \/ /\ NoList
              /\ \/ legacy # Missing /\ CallCommit("migrate", legacy, MigratedPosition)
                 \/ legacy = Missing /\ CallCommit("init", <<>>, 0)
    <3>1. PICK unread \in {{}} \cup {{c} : c \in {"active", "bak"}} :
            LET Seen(c) == IF c \in unread THEN Partial ELSE csv[c]
                source == RecoverySource(Seen("active"), Seen("bak"))
            IN /\ \A c \in unread : Exists(csv, c)
               /\ IF unread = {} THEN NoFault ELSE Fault
               /\ \/ source = "Legacy" /\ CallCommit("migrate", legacy, MigratedPosition)
                  \/ source = "InitializeEmpty" /\ CallCommit("init", <<>>, 0)
                  \/ /\ source \in {"Active", "Backup", "Fail"} /\ UNCHANGED locals
                     /\ pc' = [Active |-> "rec_index", Backup |-> "rec_drop",
                               Fail |-> "unrecovered"][source]
      BY <1>1 DEF RecoverInspect
    <3> DEFINE Seen(c) == IF c \in unread THEN Partial ELSE csv[c]
               source == RecoverySource(Seen("active"), Seen("bak"))
    <3>2. /\ source \in {"Legacy", "InitializeEmpty"} => NoList
          /\ source = "Legacy" => legacy # Missing
          /\ source = "InitializeEmpty" => legacy = Missing
      BY <3>1 DEF RecoverySource, Exists
    <3>3. /\ unread = {} /\ source = "Active" => Effective = Active
          /\ unread = {} /\ source = "Backup" => Effective = Backup
      BY DEF Effective, RecoverySource
    <3>4. faults' = faults => unread = {}
      BY <3>1 DEF IInv, TypeOK, NumbersOK
    <3>5. /\ pc = "recover" /\ UNCHANGED <<csv, index, legacy, ram, flash, caller, answer, command, loading,
             before, beforeSel, spare, touched>>
      BY <1>1 DEF RecoverInspect
    <3> HIDE DEF Seen, source
    <3>6. \/ source = "Legacy" /\ CallCommit("migrate", legacy, MigratedPosition)
          \/ source = "InitializeEmpty" /\ CallCommit("init", <<>>, 0)
          \/ UNCHANGED locals /\ source = "Active" /\ pc' = "rec_index"
          \/ UNCHANGED locals /\ source = "Backup" /\ pc' = "rec_drop"
          \/ UNCHANGED locals /\ source = "Fail" /\ pc' = "unrecovered"
      BY <3>1 DEF source, Seen
    <3>7. CASE source \in {"Legacy", "InitializeEmpty"}
      BY <3>2, <3>5, <3>6, <3>7
    <3>8. CASE UNCHANGED locals /\ source = "Active" /\ pc' = "rec_index"
      <4>1. faults' = faults => Effective = Active
        BY <3>3, <3>4, <3>8
      <4>. QED BY <3>5, <3>8, <4>1
    <3>9. CASE UNCHANGED locals /\ source = "Backup" /\ pc' = "rec_drop"
      <4>1. faults' = faults => Effective = Backup
        BY <3>3, <3>4, <3>9
      <4>. QED BY <3>5, <3>9, <4>1
    <3>10. CASE UNCHANGED locals /\ source = "Fail" /\ pc' = "unrecovered"
      BY <3>5, <3>10
    <3>. QED BY <3>6, <3>7, <3>8, <3>9, <3>10
  <2>2. CASE UNCHANGED locals /\ pc' \in {"unrecovered", "rec_index", "rec_drop"}
    <3>1. Effective' = Effective
      BY <2>1 DEF Effective, RecoverySource
    <3>2. (BuildInv /\ CallInv /\ UneditedInv)'
      BY <2>1, <2>2 DEF RequestInv, BuildInv, CallInv, UneditedInv, InIndex, IndexPcs, UndoPcs, Installed,
         Committing, Staging, Preparing
    <3>3. (OldListInv /\ UndoInv /\ FailureInv)'
      BY <1>a, <1>b, <2>1, <2>2, <3>1 DEF RequestInv, FaultsCount, CallInv, OldListInv, UndoInv, FailureInv,
         CallCommit, InIndex, IndexPcs, UndoPcs, Installed, Serving, Committing, Staging, Preparing
    <3>4. (ChoiceInv /\ FollowInv)'
      BY <2>1, <2>2 DEF RequestInv, CallInv, ChoiceInv, FollowInv, Selected, InIndex, IndexPcs, UndoPcs,
         Installed, Committing, Staging, Preparing
    <3>5. (AnswersTrue /\ SelectionFollows)'
      BY <2>2 DEF AnswersTrue, SelectionFollows, Free
    <3>. QED BY <1>b, <3>2, <3>3, <3>4, <3>5 DEF RequestInv
  <2>3. ASSUME NoList, NEW why \in {"init", "migrate"}, CallCommit(why, LegacyList, ram)
        PROVE  RequestInv'
    <3>1. Len(LegacyList) \in Nat /\ ram \in 0 .. Len(LegacyList)
      BY <2>3 DEF IInv, TypeOK, FilesOK, Positions, RequestInv, UneditedInv
    <3>2. (BuildInv /\ CallInv)'
      BY <2>1, <2>3, <3>1 DEF RequestInv, BuildInv, CallInv, CallCommit, InIndex, IndexPcs, UndoPcs, Installed
    <3>3. UneditedInv'
      BY <2>1, <2>3, <3>1 DEF RequestInv, UneditedInv, CallCommit
    <3>4. (OldListInv /\ UndoInv /\ FailureInv)'
      BY <2>1, <2>3 DEF OldListInv, UndoInv, FailureInv, CallCommit, InIndex, IndexPcs, UndoPcs, Installed,
         Serving, Staging, Preparing
    <3>5. (ChoiceInv /\ FollowInv)'
      BY <2>1, <2>3 DEF RequestInv, CallInv, ChoiceInv, FollowInv, CallCommit, Selected, ControlOK, IInv, TypeOK,
         UndoPcs, InIndex, IndexPcs, Committing, Staging, Installed, Preparing
    <3>6. (AnswersTrue /\ SelectionFollows)'
      BY <2>3 DEF AnswersTrue, SelectionFollows, Free, CallCommit
    <3>. QED BY <1>b, <3>2, <3>3, <3>4, <3>5, <3>6 DEF RequestInv
  <2>4. NoList => ram \in 0 .. Len(LegacyList) /\ Len(LegacyList) \in Nat
    BY DEF IInv, TypeOK, FilesOK, Positions, RequestInv, UneditedInv
  <2>5. NoList /\ legacy # Missing => MigratedPosition = ram
    BY <2>4 DEF MigratedPosition
  <2>6. NoList /\ legacy = Missing => ram = 0
    BY <2>4
  <2>. QED BY <2>1, <2>2, <2>3, <2>5, <2>6 DEF CallCommit
<1>2. CASE LegacyUnreadable
  <2>1. (BuildInv /\ CallInv /\ UneditedInv)'
    BY <1>2 DEF BuildInv, CallInv, FailureInv, ControlOK, UneditedInv, LegacyUnreadable,
           RecoverySource
  <2>2. (OldListInv /\ UndoInv /\ FailureInv)'
    BY <1>b, <1>2 DEF FaultsCount, BuildInv, CallInv, OldListInv, FailureInv, UndoInv,
           LegacyUnreadable, RecoverySource
  <2>3. (ChoiceInv /\ FollowInv /\ AnswersTrue /\ SelectionFollows)'
    BY <1>b, <1>2 DEF FaultsCount, ChoiceInv, FollowInv, CallInv, UneditedInv, FailureInv,
           Follows, ControlOK, Free, AnswersTrue, SelectionFollows, LegacyUnreadable,
           RecoverySource
  <2>. QED BY <1>b, <2>1, <2>2, <2>3
<1>3. CASE RecoverIndex
  <2>1. (BuildInv /\ CallInv /\ UneditedInv)'
    BY <1>3 DEF BuildInv, CallInv, FailureInv, ControlOK, UneditedInv, RecoverIndex, Checked,
           CallRebuild
  <2>2. (OldListInv /\ UndoInv /\ FailureInv)'
    BY <1>b, <1>3 DEF FaultsCount, BuildInv, CallInv, OldListInv, FailureInv, UndoInv,
           RecoverIndex, Checked, CallRebuild
  <2>3. (ChoiceInv /\ FollowInv /\ AnswersTrue /\ SelectionFollows)'
    BY <1>b, <1>3 DEF FaultsCount, ChoiceInv, FollowInv, CallInv, UneditedInv, FailureInv,
           Follows, ControlOK, Free, AnswersTrue, SelectionFollows, RecoverIndex, Checked,
           CallRebuild
  <2>. QED BY <1>b, <2>1, <2>2, <2>3
<1>4. CASE Step("rec_drop") /\ RemoveCsv("active", "rec_promote", "unrecovered")
  <2>1. (BuildInv /\ CallInv /\ UneditedInv)'
    BY <1>4 DEF BuildInv, CallInv, FailureInv, ControlOK, UneditedInv
  <2>2. (OldListInv /\ UndoInv /\ FailureInv)'
    BY <1>b, <1>4 DEF FaultsCount, BuildInv, CallInv, OldListInv, FailureInv, UndoInv
  <2>3. (ChoiceInv /\ FollowInv /\ AnswersTrue /\ SelectionFollows)'
    BY <1>b, <1>4 DEF FaultsCount, ChoiceInv, FollowInv, CallInv, UneditedInv, FailureInv,
           Follows, ControlOK, Free, AnswersTrue, SelectionFollows
  <2>. QED BY <1>b, <2>1, <2>2, <2>3
<1>5. CASE Step("rec_promote") /\ RenameCsv("bak", "active", "rec_index", "unrecovered")
  <2>1. (BuildInv /\ CallInv /\ UneditedInv)'
    BY <1>5 DEF BuildInv, CallInv, FailureInv, ControlOK, UneditedInv
  <2>2. (OldListInv /\ UndoInv /\ FailureInv)'
    BY <1>b, <1>5 DEF FaultsCount, BuildInv, CallInv, OldListInv, FailureInv, UndoInv
  <2>3. (ChoiceInv /\ FollowInv /\ AnswersTrue /\ SelectionFollows)'
    BY <1>b, <1>5 DEF FaultsCount, ChoiceInv, FollowInv, CallInv, UneditedInv, FailureInv,
           Follows, ControlOK, Free, AnswersTrue, SelectionFollows
  <2>. QED BY <1>b, <2>1, <2>2, <2>3
<1>6. CASE Step("rec_csv_tmp") /\ RemoveCsv("tmp", "rec_csv_bak", "unrecovered")
  <2>1. (BuildInv /\ CallInv /\ UneditedInv)'
    BY <1>6 DEF BuildInv, CallInv, FailureInv, ControlOK, UneditedInv
  <2>2. (OldListInv /\ UndoInv /\ FailureInv)'
    BY <1>b, <1>6 DEF FaultsCount, BuildInv, CallInv, OldListInv, FailureInv, UndoInv
  <2>3. (ChoiceInv /\ FollowInv /\ AnswersTrue /\ SelectionFollows)'
    BY <1>b, <1>6 DEF FaultsCount, ChoiceInv, FollowInv, CallInv, UneditedInv, FailureInv,
           Follows, ControlOK, Free, AnswersTrue, SelectionFollows
  <2>. QED BY <1>b, <2>1, <2>2, <2>3
<1>7. CASE Step("rec_csv_bak") /\ RemoveCsv("bak", "rec_idx_tmp", "unrecovered")
  <2>1. (BuildInv /\ CallInv /\ UneditedInv)'
    BY <1>7 DEF BuildInv, CallInv, FailureInv, ControlOK, UneditedInv
  <2>2. (OldListInv /\ UndoInv /\ FailureInv)'
    BY <1>b, <1>7 DEF FaultsCount, BuildInv, CallInv, OldListInv, FailureInv, UndoInv
  <2>3. (ChoiceInv /\ FollowInv /\ AnswersTrue /\ SelectionFollows)'
    BY <1>b, <1>7 DEF FaultsCount, ChoiceInv, FollowInv, CallInv, UneditedInv, FailureInv,
           Follows, ControlOK, Free, AnswersTrue, SelectionFollows
  <2>. QED BY <1>b, <2>1, <2>2, <2>3
<1>8. CASE Step("rec_idx_tmp") /\ RemoveIndex("tmp", "rec_idx_bak", "unrecovered")
  <2>1. (BuildInv /\ CallInv /\ UneditedInv)'
    BY <1>8 DEF BuildInv, CallInv, FailureInv, ControlOK, UneditedInv
  <2>2. (OldListInv /\ UndoInv /\ FailureInv)'
    BY <1>b, <1>8 DEF FaultsCount, BuildInv, CallInv, OldListInv, FailureInv, UndoInv
  <2>3. (ChoiceInv /\ FollowInv /\ AnswersTrue /\ SelectionFollows)'
    BY <1>b, <1>8 DEF FaultsCount, ChoiceInv, FollowInv, CallInv, UneditedInv, FailureInv,
           Follows, ControlOK, Free, AnswersTrue, SelectionFollows
  <2>. QED BY <1>b, <2>1, <2>2, <2>3
<1>9. CASE Step("rec_idx_bak") /\ RemoveIndex("bak", "recovered", "unrecovered")
  <2>1. (BuildInv /\ CallInv /\ UneditedInv)'
    BY <1>9 DEF BuildInv, CallInv, FailureInv, ControlOK, UneditedInv
  <2>2. (OldListInv /\ UndoInv /\ FailureInv)'
    BY <1>b, <1>9 DEF FaultsCount, BuildInv, CallInv, OldListInv, FailureInv, UndoInv
  <2>3. (ChoiceInv /\ FollowInv /\ AnswersTrue /\ SelectionFollows)'
    BY <1>b, <1>9 DEF FaultsCount, ChoiceInv, FollowInv, CallInv, UneditedInv, FailureInv,
           Follows, ControlOK, Free, AnswersTrue, SelectionFollows
  <2>. QED BY <1>b, <2>1, <2>2, <2>3
<1>. QED BY <1>1, <1>2, <1>3, <1>4, <1>5, <1>6, <1>7, <1>8, <1>9 DEF RecoverStep

\* An index is built for the list it is installed beside.
LEMMA IndexStepAnswers == ASSUME IInv, RequestInv, IndexStep PROVE RequestInv'
<1> USE ListsAreLists DEF IInv, RequestInv, TypeOK, FilesOK, KeptInv, StageInv, RecoverInv,
       Serving, Staging, Preparing, Installed, InIndex, IndexPcs, Committing, Recovering,
       Selected, ValidIndex, Copies, Csvs, Indexes, Exists, RemoveCsv, RemoveIndex, RenameCsv,
       RenameIndex, UndoPcs
<1>a. faults' \in {faults, faults + 1} /\ callFaults' = callFaults
  BY DEF IndexStep, PrepareFailed, RebuildFailed, IndexOpen, IndexWrite, Indexed, PrepareDone,
         InstallFailed, IndexKeep, IndexCheck, Checked, InstallDone, RebuildDone, RemoveCsv,
         RemoveIndex, RenameCsv, RenameIndex
<1>b. FaultsCount /\ CountInv'
  BY <1>a, FaultsAreCounted
<1>1. CASE Step("prep_drop") /\ RemoveIndex("tmp", "prep_open", PrepareFailed)
  <2>1. (BuildInv /\ CallInv /\ UneditedInv)'
    BY <1>1 DEF BuildInv, CallInv, FailureInv, ControlOK, UneditedInv, PrepareFailed,
           RebuildFailed
  <2>2. (OldListInv /\ UndoInv /\ FailureInv)'
    BY <1>b, <1>1 DEF FaultsCount, BuildInv, CallInv, OldListInv, FailureInv, UndoInv,
           ControlOK, PrepareFailed, RebuildFailed
  <2>3. (ChoiceInv /\ FollowInv /\ AnswersTrue /\ SelectionFollows)'
    BY <1>b, <1>1 DEF FaultsCount, ChoiceInv, FollowInv, CallInv, UneditedInv, FailureInv,
           Follows, ControlOK, Free, AnswersTrue, SelectionFollows, PrepareFailed, RebuildFailed
  <2>. QED BY <1>b, <2>1, <2>2, <2>3
<1>2. CASE IndexOpen
  <2>1. (BuildInv /\ CallInv /\ UneditedInv)'
    BY <1>2 DEF BuildInv, CallInv, FailureInv, ControlOK, UneditedInv, IndexOpen, PrepareFailed,
           RebuildFailed
  <2>2. (OldListInv /\ UndoInv /\ FailureInv)'
    BY <1>b, <1>2 DEF FaultsCount, BuildInv, CallInv, OldListInv, FailureInv, UndoInv,
           ControlOK, IndexOpen, PrepareFailed, RebuildFailed
  <2>3. (ChoiceInv /\ FollowInv /\ AnswersTrue /\ SelectionFollows)'
    BY <1>b, <1>2 DEF FaultsCount, ChoiceInv, FollowInv, CallInv, UneditedInv, FailureInv,
           Follows, ControlOK, Free, AnswersTrue, SelectionFollows, IndexOpen, PrepareFailed,
           RebuildFailed
  <2>. QED BY <1>b, <2>1, <2>2, <2>3
<1>3. CASE IndexWrite
  <2>1. (BuildInv /\ CallInv /\ UneditedInv)'
    BY <1>3 DEF BuildInv, CallInv, FailureInv, ControlOK, UneditedInv, IndexWrite, Indexed,
           PrepareDone, PrepareFailed, RebuildFailed
  <2>2. (OldListInv /\ UndoInv /\ FailureInv)'
    BY <1>b, <1>3 DEF FaultsCount, BuildInv, CallInv, OldListInv, FailureInv, UndoInv,
           ControlOK, IndexWrite, Indexed, PrepareDone, PrepareFailed, RebuildFailed
  <2>3. (ChoiceInv /\ FollowInv /\ AnswersTrue /\ SelectionFollows)'
    BY <1>b, <1>3 DEF FaultsCount, ChoiceInv, FollowInv, CallInv, UneditedInv, FailureInv,
           Follows, ControlOK, Free, AnswersTrue, SelectionFollows, IndexWrite, Indexed,
           PrepareDone, PrepareFailed, RebuildFailed
  <2>. QED BY <1>b, <2>1, <2>2, <2>3
<1>4. CASE Step("inst_drop") /\ RemoveIndex("bak", "inst_keep", InstallFailed)
  <2>1. (BuildInv /\ CallInv /\ UneditedInv)'
    BY <1>4 DEF BuildInv, CallInv, FailureInv, ControlOK, UneditedInv, InstallFailed,
           RebuildFailed
  <2>2. (OldListInv /\ UndoInv /\ FailureInv)'
    BY <1>b, <1>4 DEF FaultsCount, BuildInv, CallInv, OldListInv, FailureInv, UndoInv,
           ControlOK, InstallFailed, RebuildFailed
  <2>3. (ChoiceInv /\ FollowInv /\ AnswersTrue /\ SelectionFollows)'
    BY <1>b, <1>4 DEF FaultsCount, ChoiceInv, FollowInv, CallInv, UneditedInv, FailureInv,
           Follows, ControlOK, Free, AnswersTrue, SelectionFollows, InstallFailed, RebuildFailed
  <2>. QED BY <1>b, <2>1, <2>2, <2>3
<1>5. CASE IndexKeep
  <2>1. (BuildInv /\ CallInv /\ UneditedInv)'
    BY <1>5 DEF BuildInv, CallInv, FailureInv, ControlOK, UneditedInv, IndexKeep, InstallFailed,
           RebuildFailed
  <2>2. (OldListInv /\ UndoInv /\ FailureInv)'
    BY <1>b, <1>5 DEF FaultsCount, BuildInv, CallInv, OldListInv, FailureInv, UndoInv,
           ControlOK, IndexKeep, InstallFailed, RebuildFailed
  <2>3. (ChoiceInv /\ FollowInv /\ AnswersTrue /\ SelectionFollows)'
    BY <1>b, <1>5 DEF FaultsCount, ChoiceInv, FollowInv, CallInv, UneditedInv, FailureInv,
           Follows, ControlOK, Free, AnswersTrue, SelectionFollows, IndexKeep, InstallFailed,
           RebuildFailed
  <2>. QED BY <1>b, <2>1, <2>2, <2>3
<1>6. CASE /\ Step("inst_rename")
      /\ RenameIndex("tmp", "active", "inst_check", IF hadIndex THEN "inst_back" ELSE InstallFailed)
  <2>1. (BuildInv /\ CallInv /\ UneditedInv)'
    BY <1>6 DEF BuildInv, CallInv, FailureInv, ControlOK, UneditedInv, InstallFailed,
           RebuildFailed
  <2>2. (OldListInv /\ UndoInv /\ FailureInv)'
    BY <1>b, <1>6 DEF FaultsCount, BuildInv, CallInv, OldListInv, FailureInv, UndoInv,
           ControlOK, InstallFailed, RebuildFailed
  <2>3. (ChoiceInv /\ FollowInv /\ AnswersTrue /\ SelectionFollows)'
    BY <1>b, <1>6 DEF FaultsCount, ChoiceInv, FollowInv, CallInv, UneditedInv, FailureInv,
           Follows, ControlOK, Free, AnswersTrue, SelectionFollows, InstallFailed, RebuildFailed
  <2>. QED BY <1>b, <2>1, <2>2, <2>3
<1>7. CASE Step("inst_back") /\ RenameIndex("bak", "active", InstallFailed, InstallFailed)
  <2>1. (BuildInv /\ CallInv /\ UneditedInv)'
    BY <1>7 DEF BuildInv, CallInv, FailureInv, ControlOK, UneditedInv, InstallFailed,
           RebuildFailed
  <2>2. (OldListInv /\ UndoInv /\ FailureInv)'
    BY <1>b, <1>7 DEF FaultsCount, BuildInv, CallInv, OldListInv, FailureInv, UndoInv,
           ControlOK, InstallFailed, RebuildFailed
  <2>3. (ChoiceInv /\ FollowInv /\ AnswersTrue /\ SelectionFollows)'
    BY <1>b, <1>7 DEF FaultsCount, ChoiceInv, FollowInv, CallInv, UneditedInv, FailureInv,
           Follows, ControlOK, Free, AnswersTrue, SelectionFollows, InstallFailed, RebuildFailed
  <2>. QED BY <1>b, <2>1, <2>2, <2>3
<1>8. CASE IndexCheck
  <2>1. (BuildInv /\ CallInv /\ UneditedInv)'
    BY <1>8 DEF BuildInv, CallInv, FailureInv, ControlOK, UneditedInv, IndexCheck, Checked,
           InstallDone, InstallFailed, RebuildFailed
  <2>2. (OldListInv /\ UndoInv /\ FailureInv)'
    BY <1>b, <1>8 DEF FaultsCount, BuildInv, CallInv, OldListInv, FailureInv, UndoInv,
           ControlOK, IndexCheck, Checked, InstallDone, InstallFailed, RebuildFailed
  <2>3. (ChoiceInv /\ FollowInv /\ AnswersTrue /\ SelectionFollows)'
    BY <1>b, <1>8 DEF FaultsCount, ChoiceInv, FollowInv, CallInv, UneditedInv, FailureInv,
           Follows, ControlOK, Free, AnswersTrue, SelectionFollows, IndexCheck, Checked,
           InstallDone, InstallFailed, RebuildFailed
  <2>. QED BY <1>b, <2>1, <2>2, <2>3
<1>9. CASE Step("reb_drop") /\ RemoveIndex("bak", RebuildDone, RebuildFailed)
  <2>1. (BuildInv /\ CallInv /\ UneditedInv)'
    BY <1>9 DEF BuildInv, CallInv, FailureInv, ControlOK, UneditedInv, RebuildDone,
           RebuildFailed
  <2>2. (OldListInv /\ UndoInv /\ FailureInv)'
    BY <1>b, <1>9 DEF FaultsCount, BuildInv, CallInv, OldListInv, FailureInv, UndoInv,
           ControlOK, RebuildDone, RebuildFailed
  <2>3. (ChoiceInv /\ FollowInv /\ AnswersTrue /\ SelectionFollows)'
    BY <1>b, <1>9 DEF FaultsCount, ChoiceInv, FollowInv, CallInv, UneditedInv, FailureInv,
           Follows, ControlOK, Free, AnswersTrue, SelectionFollows, RebuildDone, RebuildFailed
  <2>. QED BY <1>b, <2>1, <2>2, <2>3
<1>. QED BY <1>1, <1>2, <1>3, <1>4, <1>5, <1>6, <1>7, <1>8, <1>9 DEF IndexStep

\* commit keeps a copy of the list, and then the old position, until it cannot
\* fail any more.
LEMMA CommitStepAnswers == ASSUME IInv, RequestInv, CommitStep PROVE RequestInv'
<1> USE ListsAreLists DEF IInv, RequestInv, TypeOK, FilesOK, KeptInv, StageInv, RecoverInv,
       Serving, Staging, Preparing, Installed, InIndex, IndexPcs, Committing, Recovering,
       Selected, ValidIndex, Copies, Csvs, Indexes, Exists, RemoveCsv, RemoveIndex, RenameCsv,
       RenameIndex, UndoPcs
<1>a. faults' \in {faults, faults + 1} /\ callFaults' = callFaults
  BY DEF CommitStep, CommitBegin, CommitOpen, CommitWrite, Prefixes, Displace, Select,
         SelectionSet, SelectionFails, CleanUp, RemoveCsv, RemoveIndex, RenameCsv, RenameIndex
<1>b. FaultsCount /\ CountInv'
  BY <1>a, FaultsAreCounted
<1>1. CASE CommitBegin
  <2>1. BuildInv'
    BY <1>1 DEF BuildInv, CallInv, FailureInv, CommitBegin
  <2>2. CallInv'
    <3>1. current \in Nat /\ Len(rows) \in Nat
      BY DEF IInv, TypeOK, FilesOK, NumbersOK, Positions
    <3>. QED BY <1>1, <3>1 DEF RequestInv, CallInv, UndoPcs, InIndex, IndexPcs, CommitBegin
  <2>3. UneditedInv'
    BY <1>1 DEF UneditedInv, BuildInv, CallInv, CommitBegin
  <2>4. (OldListInv /\ UndoInv /\ FailureInv)'
    BY <1>b, <1>1 DEF FaultsCount, BuildInv, CallInv, OldListInv, FailureInv, UndoInv,
           CommitBegin
  <2>5. (ChoiceInv /\ FollowInv /\ AnswersTrue /\ SelectionFollows)'
    BY <1>b, <1>1 DEF FaultsCount, ChoiceInv, FollowInv, CallInv, UneditedInv, FailureInv,
           Follows, ControlOK, Free, AnswersTrue, SelectionFollows, CommitBegin
  <2>. QED BY <1>b, <2>1, <2>2, <2>3, <2>4, <2>5
<1>2. CASE Step("tmp_drop") /\ RemoveCsv("tmp", "idx_tmp_drop", "io_error")
  <2>1. (BuildInv /\ CallInv /\ UneditedInv)'
    BY <1>2 DEF BuildInv, CallInv, FailureInv, ControlOK, UneditedInv
  <2>2. (OldListInv /\ UndoInv /\ FailureInv)'
    BY <1>b, <1>2 DEF FaultsCount, BuildInv, CallInv, OldListInv, FailureInv, UndoInv
  <2>3. (ChoiceInv /\ FollowInv /\ AnswersTrue /\ SelectionFollows)'
    BY <1>b, <1>2 DEF FaultsCount, ChoiceInv, FollowInv, CallInv, UneditedInv, FailureInv,
           Follows, ControlOK, Free, AnswersTrue, SelectionFollows
  <2>. QED BY <1>b, <2>1, <2>2, <2>3
<1>3. CASE Step("idx_tmp_drop") /\ RemoveIndex("tmp", "tmp_open", "io_error")
  <2>1. (BuildInv /\ CallInv /\ UneditedInv)'
    BY <1>3 DEF BuildInv, CallInv, FailureInv, ControlOK, UneditedInv
  <2>2. (OldListInv /\ UndoInv /\ FailureInv)'
    BY <1>b, <1>3 DEF FaultsCount, BuildInv, CallInv, OldListInv, FailureInv, UndoInv
  <2>3. (ChoiceInv /\ FollowInv /\ AnswersTrue /\ SelectionFollows)'
    BY <1>b, <1>3 DEF FaultsCount, ChoiceInv, FollowInv, CallInv, UneditedInv, FailureInv,
           Follows, ControlOK, Free, AnswersTrue, SelectionFollows
  <2>. QED BY <1>b, <2>1, <2>2, <2>3
<1>4. CASE CommitOpen
  <2>1. (BuildInv /\ CallInv /\ UneditedInv)'
    BY <1>4 DEF BuildInv, CallInv, FailureInv, ControlOK, UneditedInv, CommitOpen
  <2>2. (OldListInv /\ UndoInv /\ FailureInv)'
    BY <1>b, <1>4 DEF FaultsCount, BuildInv, CallInv, OldListInv, FailureInv, UndoInv,
           CommitOpen
  <2>3. (ChoiceInv /\ FollowInv /\ AnswersTrue /\ SelectionFollows)'
    BY <1>b, <1>4 DEF FaultsCount, ChoiceInv, FollowInv, CallInv, UneditedInv, FailureInv,
           Follows, ControlOK, Free, AnswersTrue, SelectionFollows, CommitOpen
  <2>. QED BY <1>b, <2>1, <2>2, <2>3
<1>5. CASE CommitWrite
  <2>1. (BuildInv /\ CallInv /\ UneditedInv)'
    BY <1>5 DEF BuildInv, CallInv, FailureInv, ControlOK, UneditedInv, CommitWrite, Prefixes
  <2>2. (OldListInv /\ UndoInv /\ FailureInv)'
    BY <1>b, <1>5 DEF FaultsCount, BuildInv, CallInv, OldListInv, FailureInv, UndoInv,
           CommitWrite, Prefixes
  <2>3. (ChoiceInv /\ FollowInv /\ AnswersTrue /\ SelectionFollows)'
    BY <1>b, <1>5 DEF FaultsCount, ChoiceInv, FollowInv, CallInv, UneditedInv, FailureInv,
           Follows, ControlOK, Free, AnswersTrue, SelectionFollows, CommitWrite, Prefixes
  <2>. QED BY <1>b, <2>1, <2>2, <2>3
<1>6. CASE Step("bak_drop") /\ RemoveCsv("bak", "displace", "io_error")
  <2>1. (BuildInv /\ CallInv /\ UneditedInv)'
    BY <1>6 DEF BuildInv, CallInv, FailureInv, ControlOK, UneditedInv
  <2>2. (OldListInv /\ UndoInv /\ FailureInv)'
    BY <1>b, <1>6 DEF FaultsCount, BuildInv, CallInv, OldListInv, FailureInv, UndoInv
  <2>3. (ChoiceInv /\ FollowInv /\ AnswersTrue /\ SelectionFollows)'
    BY <1>b, <1>6 DEF FaultsCount, ChoiceInv, FollowInv, CallInv, UneditedInv, FailureInv,
           Follows, ControlOK, Free, AnswersTrue, SelectionFollows
  <2>. QED BY <1>b, <2>1, <2>2, <2>3
<1>7. CASE Displace
  <2>1. (BuildInv /\ CallInv /\ UneditedInv)'
    BY <1>7 DEF BuildInv, CallInv, FailureInv, ControlOK, UneditedInv, Displace
  <2>2. (OldListInv /\ UndoInv /\ FailureInv)'
    BY <1>b, <1>7 DEF FaultsCount, BuildInv, CallInv, OldListInv, FailureInv, UndoInv, Displace
  <2>3. (ChoiceInv /\ FollowInv /\ AnswersTrue /\ SelectionFollows)'
    BY <1>b, <1>7 DEF FaultsCount, ChoiceInv, FollowInv, CallInv, UneditedInv, FailureInv,
           Follows, ControlOK, Free, AnswersTrue, SelectionFollows, Displace
  <2>. QED BY <1>b, <2>1, <2>2, <2>3
<1>8. CASE /\ Step("install")
      /\ RenameCsv("tmp", "active", "inst_drop", IF hadCsv THEN "undo_csv" ELSE "io_error")
  <2>1. (BuildInv /\ CallInv /\ UneditedInv)'
    BY <1>8 DEF BuildInv, CallInv, FailureInv, ControlOK, UneditedInv
  <2>2. (OldListInv /\ UndoInv /\ FailureInv)'
    BY <1>b, <1>8 DEF FaultsCount, BuildInv, CallInv, OldListInv, FailureInv, UndoInv
  <2>3. (ChoiceInv /\ FollowInv /\ AnswersTrue /\ SelectionFollows)'
    BY <1>b, <1>8 DEF FaultsCount, ChoiceInv, FollowInv, CallInv, UneditedInv, FailureInv,
           Follows, ControlOK, Free, AnswersTrue, SelectionFollows
  <2>. QED BY <1>b, <2>1, <2>2, <2>3
<1>9. CASE Select
  <2>1. (BuildInv /\ CallInv /\ UneditedInv)'
    BY <1>9 DEF BuildInv, CallInv, FailureInv, ControlOK, UneditedInv, Select, SelectionSet,
           SelectionFails
  <2>2. (OldListInv /\ UndoInv /\ FailureInv)'
    BY <1>b, <1>9 DEF FaultsCount, BuildInv, CallInv, OldListInv, FailureInv, UndoInv, Select,
           SelectionSet, SelectionFails
  <2>3. (ChoiceInv /\ FollowInv /\ AnswersTrue /\ SelectionFollows)'
    BY <1>b, <1>9 DEF FaultsCount, ChoiceInv, FollowInv, CallInv, UneditedInv, FailureInv,
           Follows, ControlOK, Free, AnswersTrue, SelectionFollows, Select, SelectionSet,
           SelectionFails
  <2>. QED BY <1>b, <2>1, <2>2, <2>3
<1>10. CASE At("idx_bak_drop") /\ CleanUp(RemoveIndex("bak", "csv_bak_drop", "undo_csv"))
  <2>1. (BuildInv /\ CallInv /\ UneditedInv)'
    BY <1>10 DEF BuildInv, CallInv, FailureInv, ControlOK, UneditedInv, CleanUp
  <2>2. (OldListInv /\ UndoInv /\ FailureInv)'
    BY <1>b, <1>10 DEF FaultsCount, BuildInv, CallInv, OldListInv, FailureInv, UndoInv, CleanUp
  <2>3. (ChoiceInv /\ FollowInv /\ AnswersTrue /\ SelectionFollows)'
    BY <1>b, <1>10 DEF FaultsCount, ChoiceInv, FollowInv, CallInv, UneditedInv, FailureInv,
           Follows, ControlOK, Free, AnswersTrue, SelectionFollows, CleanUp
  <2>. QED BY <1>b, <2>1, <2>2, <2>3
<1>11. CASE At("csv_bak_drop") /\ CleanUp(RemoveCsv("bak", "committed", "undo_csv"))
  <2>1. (BuildInv /\ CallInv /\ UneditedInv)'
    BY <1>11 DEF BuildInv, CallInv, FailureInv, ControlOK, UneditedInv, CleanUp
  <2>2. (OldListInv /\ UndoInv /\ FailureInv)'
    BY <1>b, <1>11 DEF FaultsCount, BuildInv, CallInv, OldListInv, FailureInv, UndoInv, CleanUp
  <2>3. (ChoiceInv /\ FollowInv /\ AnswersTrue /\ SelectionFollows)'
    BY <1>b, <1>11 DEF FaultsCount, ChoiceInv, FollowInv, CallInv, UneditedInv, FailureInv,
           Follows, ControlOK, Free, AnswersTrue, SelectionFollows, CleanUp
  <2>. QED BY <1>b, <2>1, <2>2, <2>3
<1>. QED BY <1>1, <1>2, <1>3, <1>4, <1>5, <1>6, <1>7, <1>8, <1>9, <1>10, <1>11 DEF CommitStep

\* rollbackPlaylist puts back what the first failure left.
LEMMA UndoStepAnswers == ASSUME IInv, RequestInv, UndoStep PROVE RequestInv'
<1> USE ListsAreLists DEF IInv, RequestInv, TypeOK, FilesOK, KeptInv, StageInv, RecoverInv,
       Serving, Staging, Preparing, Installed, InIndex, IndexPcs, Committing, Recovering,
       Selected, ValidIndex, Copies, Csvs, Indexes, Exists, RemoveCsv, RemoveIndex, RenameCsv,
       RenameIndex, UndoPcs
<1>a. faults' \in {faults, faults + 1} /\ callFaults' = callFaults
  BY DEF UndoStep, UndoCsv, Undo, UndoCsvRename, UndoIndex, UndoIndexRename, UndoCheck, Checked,
         CallRebuild, RolledBack, SelectionSet, SelectionFails, RemoveCsv, RemoveIndex,
         RenameCsv, RenameIndex
<1>b. FaultsCount /\ CountInv'
  BY <1>a, FaultsAreCounted
<1>1. CASE UndoCsv
  <2>1. (BuildInv /\ CallInv /\ UneditedInv)'
    BY <1>1 DEF BuildInv, CallInv, FailureInv, ControlOK, UneditedInv, UndoCsv, Undo
  <2>2. (OldListInv /\ UndoInv /\ FailureInv)'
    BY <1>b, <1>1 DEF FaultsCount, BuildInv, CallInv, OldListInv, FailureInv, UndoInv, UndoCsv,
           Undo
  <2>3. (ChoiceInv /\ FollowInv /\ AnswersTrue /\ SelectionFollows)'
    BY <1>b, <1>1 DEF FaultsCount, ChoiceInv, FollowInv, CallInv, UneditedInv, FailureInv,
           Follows, ControlOK, Free, AnswersTrue, SelectionFollows, UndoCsv, Undo
  <2>. QED BY <1>b, <2>1, <2>2, <2>3
<1>2. CASE UndoCsvRename
  <2>1. (BuildInv /\ CallInv /\ UneditedInv)'
    BY <1>2 DEF BuildInv, CallInv, FailureInv, ControlOK, UneditedInv, UndoCsvRename, Undo
  <2>2. (OldListInv /\ UndoInv /\ FailureInv)'
    BY <1>b, <1>2 DEF FaultsCount, BuildInv, CallInv, OldListInv, FailureInv, UndoInv,
           UndoCsvRename, Undo
  <2>3. (ChoiceInv /\ FollowInv /\ AnswersTrue /\ SelectionFollows)'
    BY <1>b, <1>2 DEF FaultsCount, ChoiceInv, FollowInv, CallInv, UneditedInv, FailureInv,
           Follows, ControlOK, Free, AnswersTrue, SelectionFollows, UndoCsvRename, Undo
  <2>. QED BY <1>b, <2>1, <2>2, <2>3
<1>3. CASE UndoIndex
  <2>1. (BuildInv /\ CallInv /\ UneditedInv)'
    BY <1>3 DEF BuildInv, CallInv, FailureInv, ControlOK, UneditedInv, UndoIndex, Undo
  <2>2. (OldListInv /\ UndoInv /\ FailureInv)'
    BY <1>b, <1>3 DEF FaultsCount, BuildInv, CallInv, OldListInv, FailureInv, UndoInv,
           UndoIndex, Undo
  <2>3. (ChoiceInv /\ FollowInv /\ AnswersTrue /\ SelectionFollows)'
    BY <1>b, <1>3 DEF FaultsCount, ChoiceInv, FollowInv, CallInv, UneditedInv, FailureInv,
           Follows, ControlOK, Free, AnswersTrue, SelectionFollows, UndoIndex, Undo
  <2>. QED BY <1>b, <2>1, <2>2, <2>3
<1>4. CASE UndoIndexRename
  <2>1. (BuildInv /\ CallInv /\ UneditedInv)'
    BY <1>4 DEF BuildInv, CallInv, FailureInv, ControlOK, UneditedInv, UndoIndexRename, Undo
  <2>2. (OldListInv /\ UndoInv /\ FailureInv)'
    BY <1>b, <1>4 DEF FaultsCount, BuildInv, CallInv, OldListInv, FailureInv, UndoInv,
           UndoIndexRename, Undo
  <2>3. (ChoiceInv /\ FollowInv /\ AnswersTrue /\ SelectionFollows)'
    BY <1>b, <1>4 DEF FaultsCount, ChoiceInv, FollowInv, CallInv, UneditedInv, FailureInv,
           Follows, ControlOK, Free, AnswersTrue, SelectionFollows, UndoIndexRename, Undo
  <2>. QED BY <1>b, <2>1, <2>2, <2>3
<1>5. CASE UndoCheck
  <2>1. (BuildInv /\ CallInv /\ UneditedInv)'
    <3>1. BuildInv'
      BY <1>5 DEF BuildInv, CallInv, FailureInv, ControlOK, UndoCheck, Checked, CallRebuild
    <3>2. CallInv'
      BY <1>5 DEF BuildInv, CallInv, FailureInv, ControlOK, UndoCheck, Checked, CallRebuild
    <3>3. UneditedInv'
      BY <1>5 DEF FailureInv, ControlOK, UneditedInv, UndoCheck, Checked, CallRebuild
    <3>. QED BY <3>1, <3>2, <3>3
  <2>2. (OldListInv /\ UndoInv /\ FailureInv)'
    BY <1>b, <1>5 DEF FaultsCount, BuildInv, CallInv, OldListInv, FailureInv, UndoInv,
           UndoCheck, Checked, CallRebuild
  <2>3. (ChoiceInv /\ FollowInv /\ AnswersTrue /\ SelectionFollows)'
    BY <1>b, <1>5 DEF FaultsCount, ChoiceInv, FollowInv, CallInv, UneditedInv, FailureInv,
           Follows, ControlOK, Free, AnswersTrue, SelectionFollows, UndoCheck, Checked,
           CallRebuild
  <2>. QED BY <1>b, <2>1, <2>2, <2>3
<1>6. CASE RolledBack
  <2>1. (BuildInv /\ CallInv /\ UneditedInv)'
    BY <1>6 DEF BuildInv, CallInv, FailureInv, ControlOK, UneditedInv, RolledBack, SelectionSet,
           SelectionFails
  <2>2. (OldListInv /\ UndoInv /\ FailureInv)'
    BY <1>b, <1>6 DEF FaultsCount, BuildInv, CallInv, OldListInv, FailureInv, UndoInv,
           RolledBack, SelectionSet, SelectionFails
  <2>3. (ChoiceInv /\ FollowInv /\ AnswersTrue /\ SelectionFollows)'
    BY <1>b, <1>6 DEF FaultsCount, ChoiceInv, FollowInv, CallInv, UneditedInv, FailureInv,
           Follows, ControlOK, Free, AnswersTrue, SelectionFollows, RolledBack, SelectionSet,
           SelectionFails
  <2>. QED BY <1>b, <2>1, <2>2, <2>3
<1>. QED BY <1>1, <1>2, <1>3, <1>4, <1>5, <1>6 DEF UndoStep

\* What is answered.
LEMMA CallersAnswer ==
  ASSUME IInv, RequestInv, CommitFails \/ CommitReturns \/ RecoverReturns \/ Boot \/ Start
  PROVE  RequestInv'
<1> USE ListsAreLists DEF IInv, RequestInv, TypeOK, FilesOK, KeptInv, StageInv, RecoverInv,
       Serving, Staging, Preparing, Installed, InIndex, IndexPcs, Committing, Recovering,
       Selected, ValidIndex, Copies, Csvs, Indexes, Exists, RemoveCsv, RemoveIndex, RenameCsv,
       RenameIndex, UndoPcs
<1>a. faults' \in {faults, faults + 1} /\ callFaults' = callFaults
  BY DEF CommitFails, Failed, Answered, DropLocals, CommitReturns, RecoverReturns, Boot, Start,
         StartPositions, Choose, Count, RemoveCsv, RemoveIndex, RenameCsv, RenameIndex
<1>b. FaultsCount /\ CountInv'
  BY <1>a, FaultsAreCounted
<1>1. CASE CommitFails
  <2>1. (BuildInv /\ CallInv /\ UneditedInv)'
    BY <1>1 DEF BuildInv, CallInv, FailureInv, ControlOK, UneditedInv, CommitFails, Failed,
           Answered, DropLocals
  <2>2. (OldListInv /\ UndoInv /\ FailureInv)'
    BY <1>b, <1>1 DEF FaultsCount, BuildInv, CallInv, OldListInv, FailureInv, UndoInv,
           CommitFails, Failed, Answered, DropLocals
  <2>3. (ChoiceInv /\ FollowInv /\ AnswersTrue /\ SelectionFollows)'
    BY <1>b, <1>1 DEF FaultsCount, ChoiceInv, FollowInv, CallInv, UneditedInv, FailureInv,
           Follows, ControlOK, AnswersTrue, SelectionFollows, Free, BuildInv, UndoInv, NoFiles,
           Failures, CommitFails, Failed, Answered, DropLocals
  <2>. QED BY <1>b, <2>1, <2>2, <2>3
<1>2. CASE CommitReturns
  <2>1. (BuildInv /\ CallInv /\ UneditedInv)'
    BY <1>2 DEF BuildInv, CallInv, FailureInv, ControlOK, UneditedInv, CommitReturns, Answered,
           DropLocals
  <2>2. (OldListInv /\ UndoInv /\ FailureInv)'
    BY <1>b, <1>2 DEF FaultsCount, BuildInv, CallInv, OldListInv, FailureInv, UndoInv,
           CommitReturns, Answered, DropLocals
  <2>3. (ChoiceInv /\ FollowInv /\ AnswersTrue /\ SelectionFollows)'
    BY <1>b, <1>2 DEF FaultsCount, ChoiceInv, FollowInv, CallInv, UneditedInv, FailureInv,
           Follows, ControlOK, AnswersTrue, SelectionFollows, Free, BuildInv, UndoInv, NoFiles,
           Failures, CommitReturns, Answered, DropLocals
  <2>. QED BY <1>b, <2>1, <2>2, <2>3
<1>3. CASE RecoverReturns
  <2>1. BuildInv'
    BY <1>3 DEF BuildInv, CallInv, FailureInv, RecoverReturns, Answered, DropLocals
  <2>2. CallInv'
    BY <1>3 DEF CallInv, ControlOK, RecoverReturns, Answered, DropLocals
  <2>3. UneditedInv'
    <3>1. Len(LegacyList) \in Nat \/ legacy \notin Lists \cup {Missing}
      BY DEF Positions
    <3>. QED BY <1>3, <3>1 DEF IInv, RequestInv, TypeOK, FilesOK, UneditedInv, RecoverReturns, Answered, DropLocals,
                Committing, Staging, Installed, InIndex, Preparing, IndexPcs
  <2>4. (OldListInv /\ UndoInv /\ FailureInv)'
    BY <1>b, <1>3 DEF FaultsCount, BuildInv, CallInv, OldListInv, FailureInv, UndoInv,
           RecoverReturns, Answered, DropLocals
  <2>5. (ChoiceInv /\ FollowInv /\ AnswersTrue /\ SelectionFollows)'
    BY <1>b, <1>3 DEF FaultsCount, ChoiceInv, FollowInv, CallInv, UneditedInv, FailureInv,
           Follows, ControlOK, AnswersTrue, SelectionFollows, Free, BuildInv, UndoInv, NoFiles,
           Failures, RecoverReturns, Answered, DropLocals
  <2>. QED BY <1>b, <2>1, <2>2, <2>3, <2>4, <2>5
<1>4. CASE Boot
  <2>1. (BuildInv /\ CallInv /\ UneditedInv)'
    BY <1>4 DEF BuildInv, CallInv, FailureInv, ControlOK, UneditedInv, Boot
  <2>2. (OldListInv /\ UndoInv /\ FailureInv)'
    BY <1>b, <1>4 DEF FaultsCount, BuildInv, CallInv, OldListInv, FailureInv, UndoInv, Boot
  <2>3. (ChoiceInv /\ FollowInv /\ AnswersTrue /\ SelectionFollows)'
    BY <1>b, <1>4 DEF FaultsCount, ChoiceInv, FollowInv, CallInv, UneditedInv, FailureInv,
           Follows, ControlOK, AnswersTrue, SelectionFollows, Free, BuildInv, UndoInv, NoFiles,
           Failures, Boot
  <2>. QED BY <1>b, <2>1, <2>2, <2>3
<1>5. CASE Start
  <2>1. BuildInv'
    BY <1>5 DEF BuildInv, CallInv, FailureInv, Start, StartPositions, Choose, Count
  <2>2. CallInv'
    BY <1>5 DEF CallInv, ControlOK, Start, StartPositions, Choose, Count
  <2>3. UneditedInv'
    <3>1. Len(LegacyList) \in Nat /\ MaxRows \in Nat
      BY DEF IInv, TypeOK, FilesOK, Positions
    <3>2. /\ pc' = "ready" /\ UNCHANGED <<csv, index, legacy, previousCurrent, command, loading>>
          /\ \E position \in StartPositions : ram' = position /\ flash' \in {position, flash}
      BY <1>5 DEF Start, Choose
    <3>3. NoList => StartPositions \subseteq 0 .. Len(LegacyList)
      BY <3>1 DEF RequestInv, UneditedInv, StartPositions, Count, Exists, IInv, TypeOK, FilesOK, Copies
    <3>. QED BY <3>2, <3>3 DEF RequestInv, UneditedInv,
                Committing, Staging, Installed, InIndex, Preparing, IndexPcs
  <2>4. (OldListInv /\ UndoInv /\ FailureInv)'
    BY <1>b, <1>5 DEF FaultsCount, BuildInv, CallInv, OldListInv, FailureInv, UndoInv, Start,
           StartPositions, Choose, Count
  <2>5. (ChoiceInv /\ FollowInv /\ AnswersTrue /\ SelectionFollows)'
    BY <1>b, <1>5 DEF FaultsCount, ChoiceInv, FollowInv, CallInv, UneditedInv, FailureInv,
           Follows, ControlOK, AnswersTrue, SelectionFollows, Free, BuildInv, UndoInv, NoFiles,
           Failures, Start, StartPositions, Choose, Count
  <2>. QED BY <1>b, <2>1, <2>2, <2>3, <2>4, <2>5
<1>. QED BY <1>1, <1>2, <1>3, <1>4, <1>5

\* The player, who touches the position and no file.
LEMMA PlayerAnswers ==
  ASSUME IInv, RequestInv, PlayTakes \/ PlayLoads \/ PlayGivesUp \/ Refresh
         \/ \E position \in 1 .. MaxRows : Play(position)
  PROVE  RequestInv'
<1> USE ListsAreLists DEF IInv, RequestInv, TypeOK, FilesOK, KeptInv, StageInv, RecoverInv,
       Serving, Staging, Preparing, Installed, InIndex, IndexPcs, Committing, Recovering,
       Selected, ValidIndex, Copies, Csvs, Indexes, Exists, RemoveCsv, RemoveIndex, RenameCsv,
       RenameIndex, UndoPcs
<1>a. faults' \in {faults, faults + 1} /\ callFaults' = callFaults
  BY DEF PlayTakes, Choose, PlayLoads, Load, Count, PlayGivesUp, Refresh, Play, RemoveCsv,
         RemoveIndex, RenameCsv, RenameIndex
<1>b. FaultsCount /\ CountInv'
  BY <1>a, FaultsAreCounted
<1>1. CASE PlayTakes
  <2>1. (BuildInv /\ CallInv /\ UneditedInv)'
    BY <1>1 DEF BuildInv, CallInv, FailureInv, ControlOK, UneditedInv, PlayTakes, Choose
  <2>2. (OldListInv /\ UndoInv /\ FailureInv)'
    BY <1>b, <1>1 DEF FaultsCount, BuildInv, CallInv, OldListInv, Effective, RecoverySource,
           FailureInv, UndoInv, PlayTakes, Choose
  <2>3. (ChoiceInv /\ FollowInv /\ AnswersTrue /\ SelectionFollows)'
    BY <1>b, <1>1 DEF FaultsCount, ChoiceInv, FollowInv, CallInv, UneditedInv, FailureInv,
           Follows, ControlOK, AnswersTrue, SelectionFollows, Free, BuildInv, UndoInv, NoFiles,
           Failures, PlayTakes, Choose
  <2>. QED BY <1>b, <2>1, <2>2, <2>3
<1>2. CASE PlayLoads
  <2>1. (BuildInv /\ CallInv /\ UneditedInv)'
    BY <1>2 DEF BuildInv, CallInv, FailureInv, ControlOK, UneditedInv, PlayLoads, Load, Choose,
           Count
  <2>2. (OldListInv /\ UndoInv /\ FailureInv)'
    BY <1>b, <1>2 DEF FaultsCount, BuildInv, CallInv, OldListInv, Effective, RecoverySource,
           FailureInv, UndoInv, PlayLoads, Load, Choose, Count
  <2>3. (ChoiceInv /\ FollowInv /\ AnswersTrue /\ SelectionFollows)'
    BY <1>b, <1>2 DEF FaultsCount, ChoiceInv, FollowInv, CallInv, UneditedInv, FailureInv,
           Follows, ControlOK, AnswersTrue, SelectionFollows, Free, BuildInv, UndoInv, NoFiles,
           Failures, PlayLoads, Load, Choose, Count
  <2>. QED BY <1>b, <2>1, <2>2, <2>3
<1>3. CASE PlayGivesUp
  <2>1. (BuildInv /\ CallInv /\ UneditedInv)'
    BY <1>3 DEF BuildInv, CallInv, FailureInv, ControlOK, UneditedInv, PlayGivesUp
  <2>2. (OldListInv /\ UndoInv /\ FailureInv)'
    BY <1>b, <1>3 DEF FaultsCount, BuildInv, CallInv, OldListInv, Effective, RecoverySource,
           FailureInv, UndoInv, PlayGivesUp
  <2>3. (ChoiceInv /\ FollowInv /\ AnswersTrue /\ SelectionFollows)'
    BY <1>b, <1>3 DEF FaultsCount, ChoiceInv, FollowInv, CallInv, UneditedInv, FailureInv,
           Follows, ControlOK, AnswersTrue, SelectionFollows, Free, BuildInv, UndoInv, NoFiles,
           Failures, PlayGivesUp
  <2>. QED BY <1>b, <2>1, <2>2, <2>3
<1>4. CASE Refresh
  <2>1. (BuildInv /\ CallInv /\ UneditedInv)'
    BY <1>4 DEF BuildInv, CallInv, FailureInv, ControlOK, UneditedInv, Refresh, Load, Choose,
           Count
  <2>2. (OldListInv /\ UndoInv /\ FailureInv)'
    BY <1>b, <1>4 DEF FaultsCount, BuildInv, CallInv, OldListInv, Effective, RecoverySource,
           FailureInv, UndoInv, Refresh, Load, Choose, Count
  <2>3. (ChoiceInv /\ FollowInv)'
    <3>1. pc = "ready" /\ UNCHANGED <<pc, undoing>>
      BY <1>4 DEF Refresh, Free
    <3>. QED BY <3>1 DEF RequestInv, CallInv, ChoiceInv, FollowInv, Selected, UndoPcs, Committing, Staging,
                Installed, InIndex, Preparing, IndexPcs
  <2>4. (AnswersTrue /\ SelectionFollows)'
    BY <1>b, <1>4 DEF FaultsCount, AnswersTrue, SelectionFollows, Free, BuildInv, ChoiceInv,
           CallInv, FollowInv, UndoInv, FailureInv, Follows, NoFiles, Failures, ControlOK,
           Refresh, Load, Choose, Count
  <2>. QED BY <1>b, <2>1, <2>2, <2>3, <2>4
<1>5. CASE \E position \in 1 .. MaxRows : Play(position)
  <2>1. (BuildInv /\ CallInv /\ UneditedInv)'
    BY <1>5 DEF BuildInv, CallInv, FailureInv, ControlOK, UneditedInv, Play, Count
  <2>2. (OldListInv /\ UndoInv /\ FailureInv)'
    BY <1>b, <1>5 DEF FaultsCount, BuildInv, CallInv, OldListInv, Effective, RecoverySource,
           FailureInv, UndoInv, Play, Count
  <2>3. (ChoiceInv /\ FollowInv /\ AnswersTrue /\ SelectionFollows)'
    BY <1>b, <1>5 DEF FaultsCount, ChoiceInv, FollowInv, CallInv, UneditedInv, FailureInv,
           Follows, ControlOK, AnswersTrue, SelectionFollows, Free, BuildInv, UndoInv, NoFiles,
           Failures, Play, Count
  <2>. QED BY <1>b, <2>1, <2>2, <2>3
<1>. QED BY <1>1, <1>2, <1>3, <1>4, <1>5

\* A new request starts the account anew, and so does a power cut.
LEMMA RequestAnswers == ASSUME IInv, RequestInv, Request \/ PowerCut PROVE RequestInv'
<1> USE ListsAreLists DEF IInv, RequestInv, TypeOK, FilesOK, KeptInv, StageInv, RecoverInv,
       Serving, Staging, Preparing, Installed, InIndex, IndexPcs, Committing, Recovering,
       Selected, ValidIndex, Copies, Csvs, Indexes, Exists, RemoveCsv, RemoveIndex, RenameCsv,
       RenameIndex, UndoPcs
<1>1. CASE Request
  <2>1. BuildInv'
    BY <1>1 DEF BuildInv, CallInv, FailureInv, Request, Effective, RecoverySource
  <2>2. CallInv'
    <3>1. /\ pc = "ready" /\ pc' = "recover" /\ caller' = "request" /\ answer' = "none"
          /\ UNCHANGED <<purpose, undoing>>
      BY <1>1 DEF Request, Free
    <3>. QED BY <3>1 DEF RequestInv, CallInv, UndoPcs, InIndex, IndexPcs
  <2>3. UneditedInv'
    BY <1>1 DEF UneditedInv, BuildInv, CallInv, Request, Effective, RecoverySource
  <2>4. (OldListInv /\ UndoInv /\ FailureInv)'
    BY <1>1 DEF FaultsCount, BuildInv, CallInv, OldListInv, FailureInv, UndoInv, Request,
           Effective, RecoverySource
  <2>5. (ChoiceInv /\ FollowInv)'
    <3>1. /\ pc = "ready" /\ pc' = "recover" /\ beforeSel' = ram /\ ram' = ram /\ undoing' = undoing
      BY <1>1 DEF Request, Free
    <3>. QED BY <3>1 DEF RequestInv, CallInv, ChoiceInv, FollowInv, Selected, UndoPcs, Committing, Staging,
                Installed, InIndex, Preparing, IndexPcs
  <2>6. (AnswersTrue /\ SelectionFollows)'
    BY <1>1 DEF FaultsCount, AnswersTrue, SelectionFollows, Free, BuildInv, ChoiceInv, CallInv,
           FollowInv, UndoInv, FailureInv, Follows, NoFiles, Failures, ControlOK, Request,
           Effective, RecoverySource
  <2>7. CountInv'
    BY <1>1 DEF NumbersOK, CountInv, Request, Effective, RecoverySource
  <2>. QED BY <2>1, <2>2, <2>3, <2>4, <2>5, <2>6, <2>7
<1>2. CASE PowerCut
  <2>1. (BuildInv /\ CallInv /\ UneditedInv)'
    BY <1>2 DEF BuildInv, CallInv, FailureInv, ControlOK, UneditedInv, PowerCut, DropLocals
  <2>2. (OldListInv /\ UndoInv /\ FailureInv)'
    BY <1>2 DEF FaultsCount, BuildInv, CallInv, OldListInv, FailureInv, UndoInv, PowerCut,
           DropLocals
  <2>3. (ChoiceInv /\ FollowInv /\ AnswersTrue /\ SelectionFollows)'
    BY <1>2 DEF FaultsCount, ChoiceInv, FollowInv, CallInv, UneditedInv, FailureInv, Follows,
           ControlOK, AnswersTrue, SelectionFollows, Free, BuildInv, UndoInv, NoFiles, Failures,
           PowerCut, DropLocals
  <2>4. CountInv'
    BY <1>2 DEF NumbersOK, CountInv, PowerCut, DropLocals
  <2>. QED BY <2>1, <2>2, <2>3, <2>4
<1>. QED BY <1>1, <1>2

\* The request that is carried out asks for the station that was selected.
LEMMA SnapshotAnswers == ASSUME IInv, RequestInv, Snapshot PROVE RequestInv'
<1>1. /\ IsList(Active) /\ caller = "request" /\ undoing = "install"
      /\ ValidIndex(Active, index["active"])
  BY DEF IInv, TypeOK, ControlOK, StageInv, RecoverInv, Serving, Snapshot, RequestInv, CallInv, BuildInv,
         UndoPcs, InIndex, IndexPcs
<1>2. /\ pc = "snapshot" /\ UNCHANGED <<csv, index, legacy, caller, ram, flash, command, loading,
           before, beforeSel, spare, callFaults, touched>>
      /\ \/ \E a \in {"READ_FAILED", "CONFLICT", "INVALID_STATE"} : Answered(a)
         \/ /\ UNCHANGED answer
            /\ \E new \in Lists, position \in Positions :
                 /\ CallCommit("edit", new, position)
                 /\ position <= Len(new) /\ Keeps(Active, ram, new, position)
  BY <1>1, RequestStoresList DEF Snapshot
<1>a. faults' \in {faults, faults + 1}
  BY DEF Snapshot
<1>b. FaultsCount /\ CountInv'
  BY <1>2, <1>a, FaultsAreCounted
<1>3. ASSUME NEW a \in {"READ_FAILED", "CONFLICT", "INVALID_STATE"}, Answered(a)
      PROVE  RequestInv'
  <2>1. (BuildInv /\ CallInv)'
    BY <1>1, <1>2, <1>3 DEF RequestInv, BuildInv, CallInv, Answered, DropLocals, InIndex, IndexPcs, Installed
  <2>2. UneditedInv'
    BY <1>1, <1>2, <1>3 DEF UneditedInv, Answered, Committing, Staging, Installed, InIndex, IndexPcs, Preparing
  <2>3. (OldListInv /\ UndoInv /\ FailureInv)'
    BY <1>1, <1>2, <1>3 DEF OldListInv, UndoInv, FailureInv, Answered, UndoPcs, DropLocals, Serving, Staging, Installed,
           InIndex, IndexPcs, Preparing, ValidIndex
  <2>4. (ChoiceInv /\ FollowInv /\ AnswersTrue /\ SelectionFollows)'
    BY <1>1, <1>2, <1>3 DEF ChoiceInv, FollowInv, AnswersTrue, SelectionFollows, Answered, DropLocals, Selected,
           Committing, Staging, Installed, InIndex, IndexPcs, Preparing, Failures
  <2>. QED BY <1>b, <2>1, <2>2, <2>3, <2>4 DEF RequestInv
<1>4. ASSUME NEW new \in Lists, NEW position \in Positions, CallCommit("edit", new, position), UNCHANGED answer,
             position <= Len(new), Keeps(Active, ram, new, position)
      PROVE  RequestInv'
  <2>1. (BuildInv /\ CallInv /\ UneditedInv)'
    BY <1>1, <1>2, <1>4 DEF RequestInv, BuildInv, CallInv, UneditedInv, CallCommit, InIndex, IndexPcs, Installed
  <2>2. /\ Unfailed => Active = before
        /\ spare = Missing => Active = before
    BY <1>1, <1>2 DEF IInv, RecoverInv, RequestInv, OldListInv, Serving, Recovering
  <2>3. (OldListInv /\ UndoInv /\ FailureInv)'
    BY <1>1, <1>2, <1>4, <1>b, <2>2 DEF FaultsCount, OldListInv, UndoInv, FailureInv, CallCommit, UndoPcs, Serving,
           Staging, Installed, InIndex, IndexPcs, Preparing, ValidIndex
  <2>4. ~touched => ram = beforeSel
    BY <1>1, <1>2 DEF RequestInv, ChoiceInv, Selected
  <2>5. (ChoiceInv /\ FollowInv)'
    BY <1>1, <1>2, <1>4, <2>2, <2>4 DEF ChoiceInv, FollowInv, Follows, Keeps, CallCommit, Selected
  <2>6. (AnswersTrue /\ SelectionFollows)'
    BY <1>4 DEF AnswersTrue, SelectionFollows, CallCommit, Free
  <2>. QED BY <1>b, <2>1, <2>3, <2>5, <2>6 DEF RequestInv
<1>. QED BY <1>2, <1>3, <1>4

LEMMA InitRequestInv == Init => RequestInv
<1> SUFFICES ASSUME Init PROVE RequestInv
  OBVIOUS
<1>1. IInv
  BY InitIInv
<1>2. /\ pc = "off" /\ caller = "boot" /\ purpose = "init" /\ undoing = "install" /\ answer = "none"
      /\ faults = 0 /\ callFaults = 0 /\ previousCurrent = 0 /\ command = 0 /\ loading = 0
      /\ flash \in 0 .. Len(Effective) /\ ram = flash
      /\ NoList => index["active"] = Missing /\ index["bak"] = Missing
  BY DEF Init, NoFiles, Copies
<1>3. NoList => Effective = LegacyList
  BY DEF Effective, RecoverySource
<1>4. Len(LegacyList) \in Nat
  BY <1>1, ListsAreLists DEF IInv, TypeOK, FilesOK, Positions
<1>5. UneditedInv
  BY <1>2, <1>3, <1>4 DEF UneditedInv, Committing, Staging, Installed, InIndex, IndexPcs, Preparing
<1>6. CountInv /\ BuildInv /\ CallInv
  BY <1>2 DEF CountInv, BuildInv, CallInv, InIndex, IndexPcs, Installed
<1>7. OldListInv /\ UndoInv /\ FailureInv /\ ChoiceInv /\ FollowInv
  BY <1>2 DEF OldListInv, UndoInv, FailureInv, ChoiceInv, FollowInv, UndoPcs, InIndex, IndexPcs
<1>8. AnswersTrue /\ SelectionFollows
  BY <1>2 DEF AnswersTrue, SelectionFollows, Free
<1>. QED BY <1>5, <1>6, <1>7, <1>8 DEF RequestInv

LEMMA NextRequestInv == IInv /\ RequestInv /\ [Next]_vars => RequestInv'
<1> SUFFICES ASSUME IInv, RequestInv, [Next]_vars PROVE RequestInv'
  OBVIOUS
<1>1. CASE Next
  BY <1>1, RecoverStepAnswers, IndexStepAnswers, CommitStepAnswers, UndoStepAnswers, CallersAnswer,
     PlayerAnswers, RequestAnswers, SnapshotAnswers DEF Next, StoreStep, PlayerStep
<1>2. CASE UNCHANGED vars
  <2>1. (CountInv /\ BuildInv /\ CallInv /\ UneditedInv)'
    BY <1>2 DEF vars, RequestInv, CountInv, BuildInv, CallInv, UneditedInv, InIndex, Installed, Committing,
           Staging, ValidIndex
  <2>2. (OldListInv /\ UndoInv /\ FailureInv)'
    BY <1>2 DEF vars, RequestInv, OldListInv, UndoInv, FailureInv, Unfailed, FailedOnce, InIndex, Installed, Serving,
           Staging, ValidIndex, Effective, RecoverySource
  <2>3. (ChoiceInv /\ FollowInv /\ AnswersTrue /\ SelectionFollows)'
    BY <1>2 DEF vars, RequestInv, ChoiceInv, FollowInv, Follows, FailedOnce, InIndex, Installed, Committing, Staging,
           Selected, Free, AnswersTrue, SelectionFollows
  <2>. QED BY <2>1, <2>2, <2>3 DEF RequestInv
<1>. QED BY <1>1, <1>2

-----------------------------------------------------------------------------
(* The theorems                                                            *)

\* Every state of every behaviour satisfies the inductive invariant: at each
\* stage of recover, commit and rollback the copies are as it says.
THEOREM Invariant == Spec => []IInv
  BY InitIInv, NextIInv, PTL DEF Spec

\* Whatever fails and wherever the power is cut, a recovery ends with the
\* list from before the last request, the one it asked for, or the rollback
\* copy an earlier failure had left.
THEOREM AlwaysListKept == Spec => []ListKept
  <1>1. IInv => ListKept
    <2> SUFFICES ASSUME IInv PROVE ListKept
      OBVIOUS
    <2>1. {Active, Backup} \subseteq {before, rows, spare, Missing}
      BY DEF IInv, KeptInv
    <2>2. before \in Lists /\ rows \in Lists /\ spare \in Lists \cup {Missing}
      BY DEF IInv, TypeOK, FilesOK
    <2>3. NoList => LegacyList \in {before, rows, spare}
      BY DEF IInv, KeptInv
    <2>4. CASE IsList(Active)
      BY <2>1, <2>4 DEF ListKept, Effective, RecoverySource
    <2>5. CASE ~IsList(Active) /\ IsList(Backup)
      BY <2>1, <2>5 DEF ListKept, Effective, RecoverySource
    <2>6. CASE ~IsList(Active) /\ ~IsList(Backup)
      <3>1. NoList
        BY <2>1, <2>2, <2>6
      <3>. QED BY <2>3, <2>6, <3>1 DEF ListKept, Effective, RecoverySource
    <2>. QED BY <2>4, <2>5, <2>6
  <1>. QED BY <1>1, Invariant, PTL

\* At each stage of a request it is known what its answer will rely on.
THEOREM RequestInvariant == Spec => []RequestInv
  BY InitRequestInv, NextRequestInv, Invariant, PTL DEF Spec

\* Of whatever length the list and whatever the player does meanwhile, OK means
\* the new list, its index and the new position are in place and nothing else
\* is left; and a request of which one operation failed has changed nothing.
THEOREM AlwaysAnswersTrue == Spec => []AnswersTrue
  <1>1. RequestInv => AnswersTrue
    BY DEF RequestInv
  <1>. QED BY <1>1, RequestInvariant, PTL

\* The installed index is the one of the installed list between any two
\* calls, unless no list could be read or two operations of a call failed.
THEOREM AlwaysIndexFollows == Spec => []IndexFollows
  <1>1. RequestInv => IndexFollows
    BY DEF RequestInv, FailureInv, IndexFollows, Free
  <1>. QED BY <1>1, RequestInvariant, PTL

\* Whatever is added, deleted, moved or imported, the selected station is the
\* one it was, if it is still in the list.
THEOREM AlwaysSelectionFollows == Spec => []SelectionFollows
  <1>1. RequestInv => SelectionFollows
    BY DEF RequestInv
  <1>. QED BY <1>1, RequestInvariant, PTL

-----------------------------------------------------------------------------
(* A change of the list is one step                                        *)

\* What a recovery ends with, and that it is always a list.
LEMMA EffectiveIs ==
    ASSUME IInv
    PROVE  /\ Active \in Lists \cup {Missing} /\ Backup \in Lists \cup {Missing}
           /\ LegacyList \in Lists
           /\ Effective = IF Active # Missing THEN Active ELSE IF Backup # Missing THEN Backup ELSE LegacyList
           /\ Effective \in Lists
<1>1. Active \in Lists \cup {Missing} /\ Backup \in Lists \cup {Missing}
  BY DEF IInv, TypeOK, FilesOK, KeptInv
<1>2. LegacyList \in Lists
  BY ListsAreLists DEF IInv, TypeOK, FilesOK
<1>3. Effective = IF Active # Missing THEN Active ELSE IF Backup # Missing THEN Backup ELSE LegacyList
  BY <1>1 DEF Effective, RecoverySource
<1> QED
  BY <1>1, <1>2, <1>3

\* A step that leaves both lists, and the old firmware's, changes nothing.
LEMMA SameFiles ==
    ASSUME Active' = Active, Backup' = Backup, legacy' = legacy
    PROVE  Effective' = Effective
BY DEF Effective, RecoverySource

\* Under Trusted a list only goes that is not there.
LEMMA GoneKept ==
    ASSUME IInv, RequestInv, GoneInv, [Next]_vars, [Trusted]_vars
    PROVE  GoneInv'
<1> USE DEF GoneInv
<1>0. faults \in Nat
  BY DEF IInv, TypeOK, NumbersOK
<1>1. CASE UNCHANGED vars
  BY <1>1 DEF vars
<1>2. CASE RecoverInspect
  <2>1. NoFault
    BY <1>0, <1>2 DEF Trusted, RecoverInspect, vars, CallCommit
  <2>2. Active \in Lists \cup {Missing}
    BY EffectiveIs
  <2> QED
    BY <1>0, <1>2, <2>1, <2>2 DEF RecoverInspect, RecoverySource, CallCommit
<1>3. CASE RecoverStep /\ ~RecoverInspect
  BY <1>3 DEF RecoverStep, LegacyUnreadable, RecoverIndex, Checked, CallRebuild, RemoveCsv, RenameCsv, RemoveIndex
<1>4. CASE IndexStep
  <2>1. pc' # pc /\ (InIndex("no") \/ rebuilds # "no")
    BY <1>4 DEF IndexStep, PrepareFailed, RebuildFailed, IndexOpen, IndexWrite, Indexed, PrepareDone,
         InstallFailed, IndexKeep, IndexCheck, Checked, InstallDone, RebuildDone, RemoveCsv,
         RemoveIndex, RenameCsv, RenameIndex, InIndex, IndexPcs
  <2>2. NoFault \/ ~Installed
    BY <1>4, <2>1 DEF Trusted, vars
  <2>3. CASE ~Installed
    BY <1>4, <2>1, <2>3 DEF IndexStep, PrepareFailed, RebuildFailed, IndexOpen, IndexWrite, Indexed, PrepareDone,
         InstallFailed, IndexKeep, IndexCheck, Checked, InstallDone, RebuildDone, RemoveCsv,
         RemoveIndex, RenameCsv, RenameIndex, Installed, InIndex, IndexPcs, Preparing
  <2>4. CASE NoFault
    <3>1. pc = "inst_check" => ValidIndex(Active, index["active"])
      BY DEF RequestInv, BuildInv
    <3> QED
      BY <1>0, <1>4, <2>4, <3>1 DEF IndexStep, PrepareFailed, RebuildFailed, IndexOpen, IndexWrite, Indexed,
           PrepareDone, InstallFailed, IndexKeep, IndexCheck, Checked, InstallDone, RebuildDone, RemoveCsv,
           RemoveIndex, RenameCsv, RenameIndex
  <2> QED
    BY <2>2, <2>3, <2>4
<1>5. CASE CommitStep
  <2>1. CASE Step("install") /\ RenameCsv("tmp", "active", "inst_drop", IF hadCsv THEN "undo_csv" ELSE "io_error")
    BY <2>1 DEF RenameCsv, IInv, StageInv
  <2>2. CASE pc \in {"select", "idx_bak_drop", "csv_bak_drop"}
    <3>1. NoFault \/ pc' = pc
      BY <1>5, <2>2 DEF Trusted, vars, Installed
    <3> QED
      BY <1>0, <1>5, <2>2, <3>1 DEF CommitStep, CommitBegin, CommitOpen, CommitWrite, Displace, Select, SelectionSet,
           SelectionFails, CleanUp, RemoveCsv, RemoveIndex
  <2>3. CASE pc \notin {"install", "select", "idx_bak_drop", "csv_bak_drop"}
    BY <1>5, <2>3 DEF CommitStep, CommitBegin, CommitOpen, CommitWrite, Displace, Select, RemoveCsv, RemoveIndex,
         RenameCsv
  <2> QED
    BY <1>5, <2>1, <2>2, <2>3 DEF CommitStep, CommitBegin, CommitOpen, CommitWrite, Displace, Select
<1>6. CASE UndoStep
  BY <1>6 DEF UndoStep, Undo, UndoCsv, UndoCsvRename, UndoIndex, UndoIndexRename, UndoCheck, RolledBack,
       Checked, CallRebuild, RenameCsv, RemoveIndex, RenameIndex, SelectionSet, SelectionFails
<1>7. CASE CommitFails \/ CommitReturns \/ RecoverReturns \/ Snapshot
  BY <1>7 DEF CommitFails, CommitReturns, RecoverReturns, Snapshot, Answered, CallCommit, Add, Delete, Move, Import
<1>8. CASE Boot \/ Start \/ Request \/ PowerCut
  BY <1>8 DEF Boot, Start, Request, PowerCut
<1>9. CASE PlayerStep \/ PlayGivesUp \/ Refresh \/ \E position \in 1 .. MaxRows : Play(position)
  BY <1>9 DEF PlayerStep, PlayTakes, PlayLoads, PlayGivesUp, Refresh, Play
<1> QED
  BY <1>1, <1>2, <1>3, <1>4, <1>5, <1>6, <1>7, <1>8, <1>9 DEF Next, StoreStep

\* Only the installation changes the list that a recovery ends with.
LEMMA StoreKeepsList ==
    ASSUME IInv, IInv', GoneInv, StoreStep
    PROVE  \/ Effective' = Effective
           \/ pc = "install" /\ purpose = "edit" /\ pc' = "inst_drop" /\ Effective' = rows
<1>1. /\ Effective = IF Active # Missing THEN Active ELSE IF Backup # Missing THEN Backup ELSE LegacyList
      /\ csv \in [Copies -> Csvs]
      /\ Active' = Missing \/ Active' \in Lists
  BY EffectiveIs DEF IInv, TypeOK, FilesOK, KeptInv
<1>2. Effective' = (IF Active # Missing THEN Active ELSE IF Backup # Missing THEN Backup ELSE LegacyList)'
  <2>1. Active' \in Lists \cup {Missing} /\ Backup' \in Lists \cup {Missing}
    BY DEF IInv, TypeOK, FilesOK, KeptInv
  <2> QED
    BY <2>1 DEF Effective, RecoverySource
<1>3. CASE RecoverStep
  <2>1. CASE UNCHANGED csv /\ legacy' = legacy
    BY <2>1, SameFiles
  <2>2. CASE ~UNCHANGED csv
    BY <1>1, <1>2, <1>3, <2>2 DEF RecoverStep, RecoverInspect, LegacyUnreadable, RecoverIndex, Checked, RemoveCsv,
         RenameCsv, RemoveIndex, GoneInv, IInv, StageInv, Serving, Copies
  <2> QED
    BY <1>3, <2>1, <2>2 DEF RecoverStep, RecoverInspect, LegacyUnreadable, RecoverIndex, Checked, RemoveCsv,
         RenameCsv, RemoveIndex
<1>4. CASE IndexStep
  BY <1>4, SameFiles DEF IndexStep, IndexOpen, IndexWrite, IndexKeep, IndexCheck, Checked, RemoveIndex, RenameIndex
<1>5. CASE CommitStep
  <2>1. CASE Displace
    BY <1>1, <1>2, <2>1 DEF Displace, RenameCsv, IInv, StageInv, Staging, Copies, Exists
  <2>2. CASE Step("install") /\ RenameCsv("tmp", "active", "inst_drop", IF hadCsv THEN "undo_csv" ELSE "io_error")
    <3>1. CASE purpose = "edit"
      BY <1>1, <1>2, <2>2, <3>1, SameFiles DEF RenameCsv, IInv, TypeOK, FilesOK, StageInv, Copies
    <3>2. CASE purpose # "edit"
      BY <1>1, <1>2, <2>2, <3>2, SameFiles DEF RenameCsv, IInv, TypeOK, FilesOK, StageInv, RecoverInv, Committing,
           Copies
    <3> QED
      BY <3>1, <3>2
  <2>3. CASE \/ Step("bak_drop") /\ RemoveCsv("bak", "displace", "io_error")
             \/ At("csv_bak_drop") /\ CleanUp(RemoveCsv("bak", "committed", "undo_csv"))
    BY <1>1, <1>2, <2>3, SameFiles DEF CleanUp, RemoveCsv, IInv, TypeOK, FilesOK, StageInv, Staging, Installed, Copies
  <2>4. CASE \/ CommitBegin \/ CommitOpen \/ CommitWrite \/ Select
             \/ Step("tmp_drop") /\ RemoveCsv("tmp", "idx_tmp_drop", "io_error")
             \/ Step("idx_tmp_drop") /\ RemoveIndex("tmp", "tmp_open", "io_error")
             \/ At("idx_bak_drop") /\ CleanUp(RemoveIndex("bak", "csv_bak_drop", "undo_csv"))
    BY <1>1, <2>4, SameFiles DEF CommitBegin, CommitOpen, CommitWrite, Select, CleanUp, RemoveCsv, RemoveIndex, Copies
  <2> QED
    BY <1>5, <2>1, <2>2, <2>3, <2>4 DEF CommitStep
<1>6. CASE UndoStep
  <2>1. CASE UndoCsv
    BY <1>1, <2>1, SameFiles DEF UndoCsv, Undo, GoneInv, Copies
  <2>2. CASE UndoCsvRename
    BY <1>1, <1>2, <2>2, SameFiles DEF UndoCsvRename, Undo, RenameCsv, IInv, StageInv, Copies
  <2>3. CASE UndoIndex \/ UndoIndexRename \/ UndoCheck \/ RolledBack
    BY <2>3, SameFiles DEF Undo, UndoIndex, UndoIndexRename, UndoCheck, RolledBack, Checked, RemoveIndex, RenameIndex
  <2> QED
    BY <1>6, <2>1, <2>2, <2>3 DEF UndoStep
<1>7. CASE CommitReturns
  BY <1>1, <1>2, <1>7, SameFiles DEF CommitReturns, IInv, StageInv, Serving
<1>8. CASE CommitFails \/ RecoverReturns \/ Snapshot \/ Boot \/ Start
  BY <1>8, SameFiles DEF CommitFails, RecoverReturns, Snapshot, Boot, Start
<1> QED
  BY <1>3, <1>4, <1>5, <1>6, <1>7, <1>8 DEF StoreStep

\* Only a request that stores a list begins an update.
LEMMA StoreKeepsTarget ==
    ASSUME IInv, StoreStep, ~Snapshot
    PROVE  Updating' => Updating /\ rows' = rows
<1> USE DEF Updating, Staging, Preparing
<1>1. CASE RecoverStep
  BY <1>1 DEF RecoverStep, RecoverInspect, LegacyUnreadable, RecoverIndex, Checked, CallCommit, CallRebuild, RemoveCsv,
       RenameCsv, RemoveIndex
<1>2. CASE IndexStep
  BY <1>2 DEF IndexStep, PrepareFailed, RebuildFailed, IndexOpen, IndexWrite, Indexed, PrepareDone, InstallDone,
       InstallFailed, IndexKeep, IndexCheck, Checked, RebuildDone, RemoveIndex, RenameIndex, IInv, TypeOK, ControlOK
<1>3. CASE CommitStep
  BY <1>3 DEF CommitStep, CommitBegin, CommitOpen, CommitWrite, Displace, Select, SelectionSet, SelectionFails,
       CleanUp, RemoveCsv, RemoveIndex, RenameCsv
<1>4. CASE UndoStep
  BY <1>4 DEF UndoStep, Undo, UndoCsv, UndoCsvRename, UndoIndex, UndoIndexRename, UndoCheck, RolledBack, Checked,
       CallRebuild, RemoveIndex, RenameCsv, RenameIndex, SelectionSet, SelectionFails
<1>5. CASE CommitFails \/ CommitReturns \/ RecoverReturns \/ Boot \/ Start
  BY <1>5 DEF CommitFails, CommitReturns, RecoverReturns, Boot, Start, Answered
<1> QED
  BY <1>1, <1>2, <1>3, <1>4, <1>5 DEF StoreStep

LEMMA UpdateStarts == Init => Update!Init
<1> SUFFICES ASSUME Init PROVE Update!Init
  OBVIOUS
<1>1. IInv /\ ~Updating
  BY InitIInv DEF Init, Updating
<1> QED
  BY <1>1, EffectiveIs DEF Update!Init

\* Every step begins an update, installs it, gives it up or changes nothing.
LEMMA UpdateSteps ==
    ASSUME IInv, IInv', GoneInv, [Next]_vars
    PROVE  [Update!Next]_(Update!vars)
<1>0. rows \in Lists /\ rows' \in Lists
  BY DEF IInv, TypeOK, FilesOK
<1>1. ASSUME Effective' = Effective, Updating' => Updating /\ rows' = rows
      PROVE  [Update!Next]_(Update!vars)
  BY <1>0, <1>1 DEF Update!Next, Update!Abort, Update!vars
<1>2. CASE UNCHANGED vars
  BY <1>1, <1>2, SameFiles DEF vars, Updating, Staging
<1>3. CASE Request \/ PowerCut
  BY <1>1, <1>3, SameFiles DEF Request, PowerCut, DropLocals, Updating, Staging, Preparing
<1>4. CASE PlayerStep \/ PlayGivesUp \/ Refresh \/ \E position \in 1 .. MaxRows : Play(position)
  <2>1. UNCHANGED <<csv, legacy, pc, purpose, rebuilds, rows>>
    BY <1>4 DEF PlayerStep, PlayTakes, PlayLoads, PlayGivesUp, Refresh, Play
  <2> QED
    BY <1>1, <2>1, SameFiles DEF Updating, Staging
<1>5. CASE Snapshot
  <2>1. CASE \E a \in Answers : Answered(a)
    BY <1>1, <1>5, <2>1, SameFiles DEF Snapshot, Answered, DropLocals, Updating, Staging, Preparing
  <2>2. CASE /\ ram <= Len(Active)
             /\ Add(Active) \/ Delete(Active) \/ Move(Active) \/ Import(Active)
    <3>1. IsList(Active)
      BY <1>5 DEF Snapshot, IInv, StageInv, Serving
    <3>2. PICK new \in Lists, position \in Positions : CallCommit("edit", new, position)
      BY <2>2, <3>1, RequestStoresList
    <3>3. ~Updating /\ Updating' /\ Effective' = Effective
      BY <1>5, <3>2, SameFiles DEF Snapshot, CallCommit, Updating, Staging, Preparing
    <3>4. Update!Begin(rows')
      BY <3>3 DEF Update!Begin
    <3> QED
      BY <1>0, <3>4 DEF Update!Next
  <2> QED
    BY <1>5, <2>1, <2>2 DEF Snapshot, Answers
<1>6. CASE StoreStep /\ ~Snapshot
  <2>1. CASE Effective' = Effective
    BY <1>1, <1>6, <2>1, StoreKeepsTarget
  <2>2. CASE pc = "install" /\ purpose = "edit" /\ pc' = "inst_drop" /\ Effective' = rows
    <3>1. Updating /\ ~Updating'
      BY <2>2 DEF Updating, Staging, Preparing
    <3>2. Update!Commit
      BY <1>0, <2>2, <3>1 DEF Update!Commit
    <3> QED
      BY <3>2 DEF Update!Next
  <2> QED
    BY <1>6, <2>1, <2>2, StoreKeepsList
<1> QED
  BY <1>2, <1>3, <1>4, <1>5, <1>6 DEF Next

\* A request implements AtomicUpdate, whatever fails until its list is
\* installed and wherever the power is cut: the list a recovery ends with
\* changes in one step, from the old one to the new one, and never goes back
\* (commit, rollbackPlaylist and recover of PlaylistStore).
THEOREM ChangesAtomically == Spec /\ [][Trusted]_vars => ListAtomic
<1>1. Init => GoneInv
  BY DEF Init, GoneInv
<1>2. IInv /\ RequestInv /\ GoneInv /\ [Next]_vars /\ [Trusted]_vars => GoneInv'
  BY GoneKept
<1>3. Init => Update!Init
  BY UpdateStarts
<1>4. IInv /\ IInv' /\ GoneInv /\ [Next]_vars => [Update!Next]_(Update!vars)
  BY UpdateSteps
<1> QED
  BY <1>1, <1>2, <1>3, <1>4, Invariant, RequestInvariant, PTL DEF Spec, ListAtomic, Update!Spec
=============================================================================
