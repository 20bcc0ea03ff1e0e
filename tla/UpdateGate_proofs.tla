-------------------------- MODULE UpdateGate_proofs --------------------------
(***************************************************************************)
(* The update lock has one owner, the user's files survive an update that  *)
(* had them all in its snapshot, and the radio is silent while an image is *)
(* written, for any number of uploads and commands, any set of files, any  *)
(* queue and any bounds.  IInv and QuietInv are inductive;                 *)
(* the proof takes the actions one by one, and under each the types, the   *)
(* handler that runs, the lock and the files.                              *)
(***************************************************************************)
EXTENDS UpdateGate, TLAPS

USE DEF op, progress, uploads, player, tasks, storage,
        Running, WebIdle, At, Goes, Fail, Idle, IInv, TypeOK

LEMMA NoRequestIsNone == NoRequest \notin Requests
  BY BoundAssumption DEF NoRequest, Requests

\* A full queue drops the command.
LEMMA EnqueueKeeps ==
  ASSUME queue \in Seq(Commands), Len(queue) <= QueueSize, NEW c \in Commands, Enqueue(c)
  PROVE  queue' \in Seq(Commands) /\ Len(queue') <= QueueSize
  BY BoundAssumption DEF Enqueue

LEMMA QueueShrinks ==
  ASSUME queue \in Seq(Commands), Len(queue) <= QueueSize
  PROVE  /\ <<>> \in Seq(Commands) /\ Len(<<>>) <= QueueSize
         /\ queue # <<>> => /\ Tail(queue) \in Seq(Commands) /\ Len(Tail(queue)) <= QueueSize
                            /\ Head(queue) \in Commands
  BY BoundAssumption

LEMMA Records ==
  /\ Closed \in Sessions /\ Idle \in Handlers
  /\ \A place \in WebPlaces, r \in Requests, ok \in BOOLEAN :
        [at |-> place, req |-> r, storageReady |-> ok] \in Handlers
  BY DEF Closed, NewSession, Sessions, SessionStates, Images, Handlers, WebPlaces

\* The files through a restart: a write-back or an erasure that it cuts off
\* leaves each of them where it still was.
LEMMA RebootKeepsFiles ==
  ASSUME IInv, Reboot
  PROVE  /\ FlagsOK' /\ (forgotten' \/ Kept')
         /\ boot' = "mount" /\ web'.at = "idle"
         /\ \A r \in Requests : session'[r].at \notin {"open", "writing"}
<1>1. files' \in SUBSET UserFiles
  BY DEF Reboot, FlagsOK, PartlyRestored
<1>2. pending' \in BOOLEAN /\ saved' \in SUBSET UserFiles
  BY DEF Reboot, FlagsOK, PartlyErased
<1>3. FlagsOK'
  BY <1>1, <1>2 DEF Reboot, FlagsOK
<1>4. \A r \in Requests : session'[r].at \notin {"open", "writing"}
  BY DEF Reboot, UploadsOK, Closed, NewSession
<1>5. ASSUME NEW f \in UserFiles, (f \in files /\ mountable) \/ (pending /\ f \in saved)
      PROVE  (f \in files' /\ mountable') \/ (pending' /\ f \in saved')
  <2>1. CASE Interrupts("clear")
    <3>1. saved \subseteq files /\ mountable /\ ~Interrupts("restore")
      BY <2>1 DEF Interrupts, StorageInv, HandlerInv
    <3>. QED BY <1>5, <3>1 DEF Reboot
  <2>2. CASE ~Interrupts("clear")
    <3>1. UNCHANGED <<pending, saved, mountable>>
      BY <2>2 DEF Reboot
    <3>2. CASE Interrupts("restore")
      BY <1>5, <3>1, <3>2 DEF Reboot, PartlyRestored, Interrupts
    <3>3. CASE ~Interrupts("restore")
      BY <1>5, <3>1, <3>3 DEF Reboot
    <3>. QED BY <3>2, <3>3
  <2>. QED BY <2>1, <2>2
<1>6. boot' = "mount" /\ web'.at = "idle" /\ forgotten' = forgotten
  BY DEF Reboot
<1>. QED BY <1>3, <1>4, <1>5, <1>6 DEF StorageInv, Kept

\* The write-back keeps every file, and one that gets through has written all
\* that the snapshot holds.
LEMMA RestoreKeepsFiles ==
  ASSUME IInv, mountable, NEW outcome, RestoreFiles(outcome)
  PROVE  /\ UNCHANGED <<mounted, mountable, pending, saved, forgotten>>
         /\ files' \in SUBSET UserFiles /\ (forgotten' \/ Kept')
         /\ outcome = "clear" => saved' \subseteq files'
<1>1. UNCHANGED <<mounted, mountable, pending, saved, forgotten>>
  BY DEF RestoreFiles
<1>2. files' \in SUBSET UserFiles /\ (outcome = "clear" => saved \subseteq files')
  BY DEF RestoreFiles, FlagsOK, PartlyRestored
<1>3. \A f \in files : f \in files' \/ (pending /\ f \in saved)
  BY DEF RestoreFiles, PartlyRestored
<1>. QED BY <1>1, <1>2, <1>3 DEF StorageInv, Kept

\* A snapshot whose files are all written back may be dropped, or half of it.
LEMMA ClearKeepsFiles ==
  ASSUME IInv, mountable, saved \subseteq files, NEW outcome, ClearSnapshot(outcome)
  PROVE  /\ UNCHANGED <<mounted, mountable, files, forgotten>>
         /\ pending' \in BOOLEAN /\ saved' \in SUBSET UserFiles /\ (forgotten' \/ Kept')
<1>1. UNCHANGED <<mounted, mountable, files, forgotten>>
  BY DEF ClearSnapshot
<1>2. pending' \in BOOLEAN /\ saved' \in SUBSET UserFiles
  BY DEF ClearSnapshot, FlagsOK, PartlyErased
<1>. QED BY <1>1, <1>2 DEF StorageInv, Kept

\* A backup that lets the update go on has secured all files, or is one of the
\* two that are left aside; one that does not has touched no file.
LEMMA BackupKeepsFiles ==
  ASSUME IInv, NEW r \in Requests, Backup(r)
  PROVE  FlagsOK' /\ (forgotten' \/ Kept') /\ (web'.at = "unmount" => Complete')
<1>1. UNCHANGED <<mounted, mountable, files>>
  BY DEF Backup
<1>2. pending' \in BOOLEAN /\ saved' \in SUBSET UserFiles
  BY DEF Backup, KeepSnapshot, MakeSnapshot, ShortSnapshot, SnapshotFails, Readable, FlagsOK
<1>3. forgotten' \in BOOLEAN
  BY DEF Backup, FlagsOK
<1>4. web'.at = "unmount" => pending'
  BY DEF Backup, KeepSnapshot, MakeSnapshot, ShortSnapshot, SnapshotFails
<1>5. web'.at = "unmount" => Complete'
  BY <1>3, <1>4 DEF Backup, Complete, FlagsOK
<1>6. ~forgotten' => ~forgotten /\ (pending => pending' /\ saved' = saved)
  BY <1>2 DEF Backup
<1>7. ASSUME ~forgotten' PROVE Kept'
  BY <1>1, <1>6, <1>7 DEF StorageInv, Kept
<1>8. FlagsOK'
  BY <1>1, <1>2, <1>3 DEF Backup, FlagsOK
<1>. QED BY <1>5, <1>6, <1>7, <1>8

LEMMA InitIInv == Init => IInv
  <1> SUFFICES ASSUME Init PROVE IInv
    OBVIOUS
  <1> USE NoRequestIsNone
  <1>1. StateOK
    BY BoundAssumption, ProfileAssumption DEF Init, StateOK, Images, Commands
  <1>2. UploadsOK /\ FlagsOK
    BY DEF Init, UploadsOK, FlagsOK, Sessions, Handlers, NewSession, SessionStates, Images, Idle, WebPlaces
  <1>3. HandlerInv /\ LockInv /\ StorageInv
    BY DEF Init, HandlerInv, LockInv, StorageInv, Complete, Kept, NewSession, Idle, Opening, Cleaning, Blocked
  <1>. QED BY <1>1, <1>2, <1>3 DEF IInv, TypeOK

\* The handler of one upload, step by step.
LEMMA UploadKeeps ==
  ASSUME IInv, NEW r \in Requests,
         \/ \E image \in Images, valid \in BOOLEAN : UploadStarts(r, image, valid)
         \/ Handle(r) \/ WriteChunk(r) \/ Finalize(r) \/ RequestEnds(r)
  PROVE  IInv'
<1> USE NoRequestIsNone
<1>1. ASSUME NEW image \in Images, NEW valid \in BOOLEAN, UploadStarts(r, image, valid) PROVE IInv'
  <2>1. PICK s \in Sessions :
          /\ session' = [session EXCEPT ![r] = s]
          /\ ~s.audioBlocked
          /\ \/ s.at = "failed" /\ web' = web /\ (active' = active \/ (active = NoRequest /\ active' = r))
             \/ s.at = "open" /\ active = NoRequest /\ active' = r /\ Goes("acquire", r)
    <3> DEFINE s == [NewSession EXCEPT !.at = IF RefusesUpload \/ ~valid THEN "failed" ELSE "open",
                                       !.image = image,
                                       !.needsRecovery = (phase = "FilesystemUnavailable")]
    <3>1. s \in Sessions
      BY DEF NewSession, Sessions, SessionStates, Images
    <3>2. ~s.audioBlocked /\ s.at = IF RefusesUpload \/ ~valid THEN "failed" ELSE "open"
      BY DEF NewSession
    <3>3. session' = [session EXCEPT ![r] = s]
      BY <1>1 DEF UploadStarts
    <3> HIDE DEF s
    <3>. QED BY <1>1, <3>1, <3>2, <3>3 DEF UploadStarts, RefusesUpload
  <2> USE <2>1
  <2>9. UNCHANGED <<op, progress, bt, tasks, stage, player, boot, net, storage>>
        /\ WebIdle /\ session[r].at = "new"
    BY <1>1 DEF UploadStarts, IsNext
  <2>2. StateOK'
    BY <2>9 DEF StateOK
  <2>3. UploadsOK'
    <3>1. active' \in Requests \cup {NoRequest} /\ session' \in [Requests -> Sessions]
      BY DEF UploadsOK
    <3>2. web' \in Handlers
      BY Records DEF UploadsOK, WebPlaces
    <3>. QED BY <3>1, <3>2 DEF UploadsOK
  <2>4. FlagsOK'
    BY <2>9 DEF FlagsOK
  <2>5. HandlerInv'
    BY <2>9 DEF UploadsOK, HandlerInv, LockInv, Opening, Cleaning, Blocked
  <2>6. LockInv'
    BY <2>9 DEF UploadsOK, HandlerInv, LockInv, HoldsLock, Opening, Cleaning
  <2>7. StorageInv'
    BY <2>9 DEF UploadsOK, FlagsOK, StorageInv, Complete, Kept
  <2>. QED BY <2>2, <2>3, <2>4, <2>5, <2>6, <2>7
<1>2. ASSUME BeginUpdate(r) PROVE IInv'
  <2>2. StateOK'
    BY <1>2 DEF
       StateOK, UploadsOK, Sessions, Images, Closed, NewSession, BeginUpdate, updateLockActive
  <2>3. active' \in Requests \cup {NoRequest} /\ session' \in [Requests -> Sessions]
    BY <1>2 DEF
       UploadsOK, SessionStates, Sessions, Closed, NewSession, BeginUpdate, updateLockActive
  <2>4. web' \in Handlers
    BY <1>2, Records DEF
       UploadsOK, WebPlaces, BeginUpdate, updateLockActive
  <2>5. FlagsOK'
    BY <1>2 DEF
       FlagsOK, BeginUpdate, updateLockActive
  <2>6. HandlerInv'
    BY <1>2 DEF
       UploadsOK, Sessions, HandlerInv, LockInv, Opening, Cleaning, Blocked, StorageInv,
       Closed, NewSession, BeginUpdate, updateLockActive
  <2>7. LockInv'
    BY <1>2 DEF
       UploadsOK, Sessions, HandlerInv, LockInv, Opening, Cleaning, Blocked, HoldsLock, Images,
       Closed, NewSession, BeginUpdate, updateLockActive
  <2>8. StorageInv'
    BY <1>2 DEF
       UploadsOK, FlagsOK, Sessions, HandlerInv, LockInv, Opening, Cleaning, Blocked,
       StorageInv, Complete, Kept, Closed, NewSession, BeginUpdate, updateLockActive
  <2>. QED BY <2>2, <2>3, <2>4, <2>5, <2>6, <2>7, <2>8 DEF UploadsOK
<1>3. ASSUME CheckBlocked(r) PROVE IInv'
  <2>2. StateOK'
    BY <1>3 DEF
       StateOK, Closed, NewSession, CheckBlocked
  <2>3. active' \in Requests \cup {NoRequest} /\ session' \in [Requests -> Sessions]
    BY <1>3 DEF
       UploadsOK, SessionStates, Sessions, Closed, NewSession, CheckBlocked
  <2>4. web' \in Handlers
    BY <1>3, Records DEF
       UploadsOK, WebPlaces, CheckBlocked
  <2>5. FlagsOK'
    BY <1>3 DEF
       FlagsOK, CheckBlocked
  <2>6. HandlerInv'
    BY <1>3 DEF
       UploadsOK, Sessions, HandlerInv, LockInv, Opening, Cleaning, Blocked, StorageInv,
       Closed, NewSession, CheckBlocked
  <2>7. LockInv'
    BY <1>3 DEF
       UploadsOK, Sessions, HandlerInv, LockInv, Opening, Cleaning, Blocked, HoldsLock, Images,
       Closed, NewSession, CheckBlocked
  <2>8. StorageInv'
    BY <1>3 DEF
       UploadsOK, FlagsOK, Sessions, HandlerInv, LockInv, Opening, Cleaning, Blocked,
       StorageInv, Complete, Kept, Closed, NewSession, CheckBlocked
  <2>. QED BY <2>2, <2>3, <2>4, <2>5, <2>6, <2>7, <2>8 DEF UploadsOK
<1>4. ASSUME ClaimPhase(r) PROVE IInv'
  <2>2. StateOK'
    BY <1>4 DEF
       StateOK, Closed, NewSession, ClaimPhase
  <2>3. active' \in Requests \cup {NoRequest} /\ session' \in [Requests -> Sessions]
    BY <1>4 DEF
       UploadsOK, SessionStates, Sessions, Closed, NewSession, ClaimPhase
  <2>4. web' \in Handlers
    BY <1>4, Records DEF
       UploadsOK, WebPlaces, ClaimPhase
  <2>5. FlagsOK'
    BY <1>4 DEF
       FlagsOK, ClaimPhase
  <2>6. HandlerInv'
    BY <1>4 DEF
       UploadsOK, Sessions, HandlerInv, LockInv, Opening, Cleaning, Blocked, StorageInv,
       Closed, NewSession, ClaimPhase
  <2>7. LockInv'
    BY <1>4 DEF
       UploadsOK, Sessions, HandlerInv, LockInv, Opening, Cleaning, Blocked, HoldsLock, Images,
       Closed, NewSession, ClaimPhase
  <2>8. StorageInv'
    BY <1>4 DEF
       UploadsOK, FlagsOK, Sessions, HandlerInv, LockInv, Opening, Cleaning, Blocked,
       StorageInv, Complete, Kept, Closed, NewSession, ClaimPhase
  <2>. QED BY <2>2, <2>3, <2>4, <2>5, <2>6, <2>7, <2>8 DEF UploadsOK
<1>5. ASSUME BlockAudio(r) PROVE IInv'
  <2>2. StateOK'
    BY <1>5 DEF
       StateOK, Closed, NewSession, BlockAudio
  <2>3. active' \in Requests \cup {NoRequest} /\ session' \in [Requests -> Sessions]
    BY <1>5 DEF
       UploadsOK, SessionStates, Sessions, Closed, NewSession, BlockAudio
  <2>4. web' \in Handlers
    BY <1>5, Records DEF
       UploadsOK, WebPlaces, BlockAudio
  <2>5. FlagsOK'
    BY <1>5 DEF
       FlagsOK, BlockAudio
  <2>6. HandlerInv'
    BY <1>5 DEF
       UploadsOK, Sessions, HandlerInv, LockInv, Opening, Cleaning, Blocked, StorageInv,
       Closed, NewSession, BlockAudio
  <2>7. LockInv'
    BY <1>5 DEF
       UploadsOK, Sessions, HandlerInv, LockInv, Opening, Cleaning, Blocked, HoldsLock, Images,
       Closed, NewSession, BlockAudio
  <2>8. StorageInv'
    BY <1>5 DEF
       UploadsOK, FlagsOK, Sessions, HandlerInv, LockInv, Opening, Cleaning, Blocked,
       StorageInv, Complete, Kept, Closed, NewSession, BlockAudio
  <2>. QED BY <2>2, <2>3, <2>4, <2>5, <2>6, <2>7, <2>8 DEF UploadsOK
<1>6. ASSUME AwaitRadioStop(r) PROVE IInv'
  <2>2. StateOK'
    BY <1>6 DEF
       StateOK, Closed, NewSession, AwaitRadioStop
  <2>3. active' \in Requests \cup {NoRequest} /\ session' \in [Requests -> Sessions]
    BY <1>6 DEF
       UploadsOK, SessionStates, Sessions, Closed, NewSession, AwaitRadioStop
  <2>4. web' \in Handlers
    BY <1>6, Records DEF
       UploadsOK, WebPlaces, AwaitRadioStop
  <2>5. FlagsOK'
    BY <1>6 DEF
       FlagsOK, AwaitRadioStop
  <2>6. HandlerInv'
    BY <1>6 DEF
       UploadsOK, Sessions, HandlerInv, LockInv, Opening, Cleaning, Blocked, StorageInv,
       Closed, NewSession, AwaitRadioStop
  <2>7. LockInv'
    BY <1>6 DEF
       UploadsOK, Sessions, HandlerInv, LockInv, Opening, Cleaning, Blocked, HoldsLock, Images,
       Closed, NewSession, AwaitRadioStop
  <2>8. StorageInv'
    BY <1>6 DEF
       UploadsOK, FlagsOK, Sessions, HandlerInv, LockInv, Opening, Cleaning, Blocked,
       StorageInv, Complete, Kept, Closed, NewSession, AwaitRadioStop
  <2>. QED BY <2>2, <2>3, <2>4, <2>5, <2>6, <2>7, <2>8 DEF UploadsOK
<1>7. ASSUME Refuse(r) PROVE IInv'
  <2>2. StateOK'
    BY <1>7 DEF
       StateOK, Closed, NewSession, Refuse, FinishUpdate
  <2>3. active' \in Requests \cup {NoRequest} /\ session' \in [Requests -> Sessions]
    BY <1>7 DEF
       UploadsOK, SessionStates, Sessions, Closed, NewSession, Refuse
  <2>4. web' \in Handlers
    BY <1>7, Records DEF
       UploadsOK, WebPlaces, Refuse
  <2>5. FlagsOK'
    BY <1>7 DEF
       FlagsOK, Refuse, FinishUpdate
  <2>6. HandlerInv'
    BY <1>7 DEF
       UploadsOK, Sessions, HandlerInv, LockInv, Opening, Cleaning, Blocked, StorageInv,
       Closed, NewSession, Refuse, FinishUpdate
  <2>7. LockInv'
    BY <1>7 DEF
       UploadsOK, Sessions, HandlerInv, LockInv, Opening, Cleaning, Blocked, HoldsLock, Images,
       Closed, NewSession, Refuse, FinishUpdate
  <2>8. StorageInv'
    BY <1>7 DEF
       UploadsOK, FlagsOK, Sessions, HandlerInv, LockInv, Opening, Cleaning, Blocked,
       StorageInv, Complete, Kept, Closed, NewSession, Refuse, FinishUpdate
  <2>. QED BY <2>2, <2>3, <2>4, <2>5, <2>6, <2>7, <2>8 DEF UploadsOK
<1>8. ASSUME Quiesce(r) PROVE IInv'
  <2>1. queue' \in Seq(Commands) /\ Len(queue') <= QueueSize
    BY <1>8, QueueShrinks DEF
       StateOK, Quiesce
  <2>2. StateOK'
    BY <1>8, <2>1 DEF
       StateOK, Closed, NewSession, Quiesce
  <2>3. active' \in Requests \cup {NoRequest} /\ session' \in [Requests -> Sessions]
    BY <1>8 DEF
       UploadsOK, SessionStates, Sessions, Closed, NewSession, Quiesce
  <2>4. web' \in Handlers
    BY <1>8, Records DEF
       UploadsOK, WebPlaces, Quiesce
  <2>5. FlagsOK'
    BY <1>8 DEF
       FlagsOK, Quiesce
  <2>6. HandlerInv'
    BY <1>8 DEF
       UploadsOK, Sessions, HandlerInv, LockInv, Opening, Cleaning, Blocked, StorageInv,
       Closed, NewSession, Quiesce
  <2>7. LockInv'
    BY <1>8 DEF
       UploadsOK, Sessions, HandlerInv, LockInv, Opening, Cleaning, Blocked, HoldsLock, Images,
       Closed, NewSession, Quiesce
  <2>8. StorageInv'
    BY <1>8 DEF
       UploadsOK, FlagsOK, Sessions, HandlerInv, LockInv, Opening, Cleaning, Blocked,
       StorageInv, Complete, Kept, Closed, NewSession, Quiesce
  <2>. QED BY <2>2, <2>3, <2>4, <2>5, <2>6, <2>7, <2>8 DEF UploadsOK
<1>9. ASSUME SendStop(r) PROVE IInv'
  <2>1. queue' \in Seq(Commands) /\ Len(queue') <= QueueSize
    BY <1>9, EnqueueKeeps DEF
       StateOK, SendStop, Commands
  <2>2. StateOK'
    BY <1>9, <2>1 DEF
       StateOK, Closed, NewSession, SendStop
  <2>3. active' \in Requests \cup {NoRequest} /\ session' \in [Requests -> Sessions]
    BY <1>9 DEF
       UploadsOK, SessionStates, Sessions, Closed, NewSession, SendStop
  <2>4. web' \in Handlers
    BY <1>9, Records DEF
       UploadsOK, WebPlaces, SendStop
  <2>5. FlagsOK'
    BY <1>9 DEF
       FlagsOK, SendStop
  <2>6. HandlerInv'
    BY <1>9 DEF
       UploadsOK, Sessions, HandlerInv, LockInv, Opening, Cleaning, Blocked, StorageInv,
       Closed, NewSession, SendStop
  <2>7. LockInv'
    BY <1>9 DEF
       UploadsOK, Sessions, HandlerInv, LockInv, Opening, Cleaning, Blocked, HoldsLock, Images,
       Closed, NewSession, SendStop
  <2>8. StorageInv'
    BY <1>9 DEF
       UploadsOK, FlagsOK, Sessions, HandlerInv, LockInv, Opening, Cleaning, Blocked,
       StorageInv, Complete, Kept, Closed, NewSession, SendStop
  <2>. QED BY <2>2, <2>3, <2>4, <2>5, <2>6, <2>7, <2>8 DEF UploadsOK
<1>10. ASSUME RadioIsStopped(r) PROVE IInv'
  <2>2. StateOK'
    BY <1>10 DEF
       StateOK, Closed, NewSession, RadioIsStopped
  <2>3. active' \in Requests \cup {NoRequest} /\ session' \in [Requests -> Sessions]
    BY <1>10 DEF
       UploadsOK, SessionStates, Sessions, Closed, NewSession, RadioIsStopped
  <2>4. web' \in Handlers
    BY <1>10, Records DEF
       UploadsOK, WebPlaces, RadioIsStopped
  <2>5. FlagsOK'
    BY <1>10 DEF
       FlagsOK, RadioIsStopped
  <2>6. HandlerInv'
    BY <1>10 DEF
       UploadsOK, Sessions, HandlerInv, LockInv, Opening, Cleaning, Blocked, StorageInv,
       Closed, NewSession, RadioIsStopped
  <2>7. LockInv'
    BY <1>10 DEF
       UploadsOK, Sessions, HandlerInv, LockInv, Opening, Cleaning, Blocked, HoldsLock, Images,
       Closed, NewSession, RadioIsStopped
  <2>8. StorageInv'
    BY <1>10 DEF
       UploadsOK, FlagsOK, Sessions, HandlerInv, LockInv, Opening, Cleaning, Blocked,
       StorageInv, Complete, Kept, Closed, NewSession, RadioIsStopped
  <2>. QED BY <2>2, <2>3, <2>4, <2>5, <2>6, <2>7, <2>8 DEF UploadsOK
<1>11. ASSUME RadioDidNotStop(r) PROVE IInv'
  <2>2. StateOK'
    BY <1>11 DEF
       StateOK, Closed, NewSession, RadioDidNotStop
  <2>3. active' \in Requests \cup {NoRequest} /\ session' \in [Requests -> Sessions]
    BY <1>11 DEF
       UploadsOK, SessionStates, Sessions, Closed, NewSession, RadioDidNotStop
  <2>4. web' \in Handlers
    BY <1>11, Records DEF
       UploadsOK, WebPlaces, RadioDidNotStop
  <2>5. FlagsOK'
    BY <1>11 DEF
       FlagsOK, RadioDidNotStop
  <2>6. HandlerInv'
    BY <1>11 DEF
       UploadsOK, Sessions, HandlerInv, LockInv, Opening, Cleaning, Blocked, StorageInv,
       Closed, NewSession, RadioDidNotStop
  <2>7. LockInv'
    BY <1>11 DEF
       UploadsOK, Sessions, HandlerInv, LockInv, Opening, Cleaning, Blocked, HoldsLock, Images,
       Closed, NewSession, RadioDidNotStop
  <2>8. StorageInv'
    BY <1>11 DEF
       UploadsOK, FlagsOK, Sessions, HandlerInv, LockInv, Opening, Cleaning, Blocked,
       StorageInv, Complete, Kept, Closed, NewSession, RadioDidNotStop
  <2>. QED BY <2>2, <2>3, <2>4, <2>5, <2>6, <2>7, <2>8 DEF UploadsOK
<1>12. ASSUME Backup(r) PROVE IInv'
  <2>1. /\ UNCHANGED <<op, progress, active, bt, tasks, stage, player, boot, net>>
        /\ At("backup", r) /\ files' = files /\ mountable' = mountable
        /\ \/ session' = session /\ Goes("unmount", r)
           \/ Fail(r)
    BY <1>12 DEF Backup, KeepSnapshot, MakeSnapshot, ShortSnapshot, SnapshotFails
  <2>2. StateOK'
    BY <2>1 DEF StateOK
  <2>3. active' \in Requests \cup {NoRequest} /\ session' \in [Requests -> Sessions]
    BY <2>1 DEF UploadsOK, SessionStates, Sessions
  <2>4. web' \in Handlers
    BY <2>1, Records DEF UploadsOK, WebPlaces
  <2>5. FlagsOK'
    BY <1>12, BackupKeepsFiles
  <2>6. HandlerInv'
    BY <2>1 DEF UploadsOK, Sessions, HandlerInv, LockInv, Opening, Cleaning, Blocked
  <2>7. LockInv'
    BY <2>1 DEF UploadsOK, Sessions, HandlerInv, LockInv, Opening, Cleaning, Blocked, HoldsLock, Images
  <2>8. StorageInv'
    <3>1. (forgotten' \/ Kept') /\ (web'.at = "unmount" => Complete')
      BY <1>12, BackupKeepsFiles
    <3>2. \A q \in Requests : session[q].at # "writing" /\ session'[q].at # "writing"
      BY <2>1 DEF UploadsOK, Sessions, HandlerInv, LockInv, Opening, Blocked
    <3>. QED BY <2>1, <3>1, <3>2 DEF StorageInv, HandlerInv
  <2>. QED BY <2>2, <2>3, <2>4, <2>5, <2>6, <2>7, <2>8 DEF UploadsOK
<1>13. ASSUME Unmount(r) PROVE IInv'
  <2>2. StateOK'
    BY <1>13 DEF
       StateOK, UploadsOK, Sessions, Images, Closed, NewSession, Unmount
  <2>3. active' \in Requests \cup {NoRequest} /\ session' \in [Requests -> Sessions]
    BY <1>13 DEF
       UploadsOK, SessionStates, Sessions, Closed, NewSession, Unmount
  <2>4. web' \in Handlers
    BY <1>13, Records DEF
       UploadsOK, WebPlaces, Unmount
  <2>5. FlagsOK'
    BY <1>13 DEF
       FlagsOK, Unmount
  <2>6. HandlerInv'
    BY <1>13 DEF
       UploadsOK, Sessions, HandlerInv, LockInv, Opening, Cleaning, Blocked, StorageInv,
       Closed, NewSession, Unmount
  <2>7. LockInv'
    BY <1>13 DEF
       UploadsOK, Sessions, HandlerInv, LockInv, Opening, Cleaning, Blocked, HoldsLock, Images,
       Closed, NewSession, Unmount
  <2>8. StorageInv'
    BY <1>13 DEF
       UploadsOK, FlagsOK, Sessions, HandlerInv, LockInv, Opening, Cleaning, Blocked,
       StorageInv, Complete, Kept, Closed, NewSession, Unmount
  <2>. QED BY <2>2, <2>3, <2>4, <2>5, <2>6, <2>7, <2>8 DEF UploadsOK
<1>14. ASSUME UpdateBegin(r) PROVE IInv'
  <2>2. StateOK'
    BY <1>14 DEF
       StateOK, Closed, NewSession, UpdateBegin
  <2>3. active' \in Requests \cup {NoRequest} /\ session' \in [Requests -> Sessions]
    BY <1>14 DEF
       UploadsOK, SessionStates, Sessions, Closed, NewSession, UpdateBegin
  <2>4. web' \in Handlers
    BY <1>14, Records DEF
       UploadsOK, WebPlaces, UpdateBegin
  <2>5. FlagsOK'
    BY <1>14 DEF
       FlagsOK, UpdateBegin
  <2>6. HandlerInv'
    BY <1>14 DEF
       UploadsOK, Sessions, HandlerInv, LockInv, Opening, Cleaning, Blocked, StorageInv,
       Closed, NewSession, UpdateBegin
  <2>7. LockInv'
    BY <1>14 DEF
       UploadsOK, Sessions, HandlerInv, LockInv, Opening, Cleaning, Blocked, HoldsLock, Images,
       Closed, NewSession, UpdateBegin
  <2>8. StorageInv'
    BY <1>14 DEF
       UploadsOK, FlagsOK, Sessions, HandlerInv, LockInv, Opening, Cleaning, Blocked,
       StorageInv, Complete, Kept, Closed, NewSession, UpdateBegin
  <2>. QED BY <2>2, <2>3, <2>4, <2>5, <2>6, <2>7, <2>8 DEF UploadsOK
<1>15. ASSUME Recover(r) PROVE IInv'
  <2>2. StateOK'
    BY <1>15 DEF
       StateOK, Closed, NewSession, Recover
  <2>3. active' \in Requests \cup {NoRequest} /\ session' \in [Requests -> Sessions]
    BY <1>15 DEF
       UploadsOK, SessionStates, Sessions, Closed, NewSession, Recover
  <2>4. web' \in Handlers
    BY <1>15, Records DEF
       UploadsOK, WebPlaces, Recover
  <2>5. FlagsOK'
    BY <1>15 DEF
       FlagsOK, Recover
  <2>6. HandlerInv'
    BY <1>15 DEF
       UploadsOK, Sessions, HandlerInv, LockInv, Opening, Cleaning, Blocked, StorageInv,
       Closed, NewSession, Recover
  <2>7. LockInv'
    BY <1>15 DEF
       UploadsOK, Sessions, HandlerInv, LockInv, Opening, Cleaning, Blocked, HoldsLock, Images,
       Closed, NewSession, Recover
  <2>8. StorageInv'
    BY <1>15 DEF
       UploadsOK, FlagsOK, Sessions, HandlerInv, LockInv, Opening, Cleaning, Blocked,
       StorageInv, Complete, Kept, Closed, NewSession, Recover
  <2>. QED BY <2>2, <2>3, <2>4, <2>5, <2>6, <2>7, <2>8 DEF UploadsOK
<1>16. ASSUME Remount(r) PROVE IInv'
  <2>2. StateOK'
    BY <1>16 DEF
       StateOK, Closed, NewSession, Remount, MountSpiffs, Recovered
  <2>3. active' \in Requests \cup {NoRequest} /\ session' \in [Requests -> Sessions]
    BY <1>16 DEF
       UploadsOK, SessionStates, Sessions, Closed, NewSession, Remount, MountSpiffs, Recovered
  <2>4. web' \in Handlers
    BY <1>16, Records DEF
       UploadsOK, WebPlaces, Remount, Recovered
  <2>5. FlagsOK'
    BY <1>16 DEF
       FlagsOK, Remount, MountSpiffs, Recovered
  <2>6. HandlerInv'
    BY <1>16 DEF
       UploadsOK, Sessions, HandlerInv, LockInv, Opening, Cleaning, Blocked, StorageInv,
       Closed, NewSession, Remount, MountSpiffs, Recovered
  <2>7. LockInv'
    BY <1>16 DEF
       UploadsOK, Sessions, HandlerInv, LockInv, Opening, Cleaning, Blocked, HoldsLock, Images,
       Closed, NewSession, Remount, MountSpiffs, Recovered
  <2>8. StorageInv'
    BY <1>16 DEF
       UploadsOK, FlagsOK, Sessions, HandlerInv, LockInv, Opening, Cleaning, Blocked,
       StorageInv, Complete, Kept, Closed, NewSession, Remount, MountSpiffs, Recovered
  <2>. QED BY <2>2, <2>3, <2>4, <2>5, <2>6, <2>7, <2>8 DEF UploadsOK
<1>17. ASSUME RestoreData(r) PROVE IInv'
  <2>2. StateOK'
    BY <1>17 DEF
       StateOK, Closed, NewSession, RestoreData, RestoreFiles, Recovered
  <2>3. active' \in Requests \cup {NoRequest} /\ session' \in [Requests -> Sessions]
    BY <1>17 DEF
       UploadsOK, SessionStates, Sessions, Closed, NewSession, RestoreData, RestoreFiles,
       Recovered
  <2>4. web' \in Handlers
    BY <1>17, Records DEF
       UploadsOK, WebPlaces, RestoreData, RestoreFiles, Recovered
  <2>5. FlagsOK'
    <3>1. files' \in SUBSET UserFiles /\ UNCHANGED <<mounted, mountable, pending, saved, forgotten>>
      BY <1>17, RestoreKeepsFiles DEF RestoreData, StorageInv
    <3>. QED BY <1>17, <3>1 DEF FlagsOK, RestoreData
  <2>6. HandlerInv'
    BY <1>17 DEF
       UploadsOK, Sessions, HandlerInv, LockInv, Opening, Cleaning, Blocked, StorageInv,
       Closed, NewSession, RestoreData, RestoreFiles, Recovered
  <2>7. LockInv'
    BY <1>17 DEF
       UploadsOK, Sessions, HandlerInv, LockInv, Opening, Cleaning, Blocked, HoldsLock, Images,
       Closed, NewSession, RestoreData, RestoreFiles, Recovered
  <2>8. StorageInv'
    <3>1. PICK outcome : RestoreFiles(outcome) /\ Recovered(r, outcome)
      BY <1>17 DEF RestoreData
    <3>2. mountable /\ UNCHANGED <<boot, session>>
      BY <1>17 DEF RestoreData, StorageInv
    <3>3. /\ UNCHANGED <<mountable, pending, saved, forgotten>>
          /\ forgotten' \/ Kept'
          /\ outcome = "clear" => saved' \subseteq files'
      BY <3>1, <3>2, RestoreKeepsFiles
    <3>4. web'.at \in {"clear", "finish"} /\ (web'.at = "clear" => outcome = "clear")
      BY <3>1 DEF Recovered
    <3>. QED
      BY <1>17, <3>2, <3>3, <3>4 DEF StorageInv, Complete, HandlerInv, RestoreData
  <2>. QED BY <2>2, <2>3, <2>4, <2>5, <2>6, <2>7, <2>8 DEF UploadsOK
<1>18. ASSUME DropSnapshot(r) PROVE IInv'
  <2>2. StateOK'
    BY <1>18 DEF
       StateOK, Closed, NewSession, DropSnapshot, ClearSnapshot, Recovered
  <2>3. active' \in Requests \cup {NoRequest} /\ session' \in [Requests -> Sessions]
    BY <1>18 DEF
       UploadsOK, SessionStates, Sessions, Closed, NewSession, DropSnapshot, ClearSnapshot,
       Recovered
  <2>4. web' \in Handlers
    BY <1>18, Records DEF
       UploadsOK, WebPlaces, DropSnapshot, ClearSnapshot, Recovered
  <2>5. FlagsOK'
    <3>1. UNCHANGED <<mounted, mountable, files, forgotten>> /\ pending' \in BOOLEAN /\ saved' \in SUBSET UserFiles
      BY <1>18, ClearKeepsFiles DEF DropSnapshot, StorageInv
    <3>. QED BY <1>18, <3>1 DEF FlagsOK, DropSnapshot
  <2>6. HandlerInv'
    BY <1>18 DEF
       UploadsOK, Sessions, HandlerInv, LockInv, Opening, Cleaning, Blocked, StorageInv,
       Closed, NewSession, DropSnapshot, ClearSnapshot, Recovered
  <2>7. LockInv'
    BY <1>18 DEF
       UploadsOK, Sessions, HandlerInv, LockInv, Opening, Cleaning, Blocked, HoldsLock, Images,
       Closed, NewSession, DropSnapshot, ClearSnapshot, Recovered
  <2>8. StorageInv'
    <3>1. PICK outcome : ClearSnapshot(outcome) /\ Recovered(r, outcome) /\ outcome # "clear"
      BY <1>18 DEF DropSnapshot
    <3>2. saved \subseteq files /\ mountable /\ UNCHANGED <<boot, session>>
      BY <1>18 DEF DropSnapshot, StorageInv
    <3>3. mountable' /\ (forgotten' \/ Kept')
      BY <3>1, <3>2, ClearKeepsFiles
    <3>4. web'.at = "finish" /\ boot' = "on"
      BY <1>18, <3>1, <3>2 DEF DropSnapshot, Recovered
    <3>5. \A q \in Requests : session'[q].at # "writing"
      BY <1>18, <3>2 DEF DropSnapshot, LockInv, HandlerInv
    <3>. QED BY <3>3, <3>4, <3>5 DEF StorageInv
  <2>. QED BY <2>2, <2>3, <2>4, <2>5, <2>6, <2>7, <2>8 DEF UploadsOK
<1>19. ASSUME FinishFailed(r) PROVE IInv'
  <2>2. StateOK'
    BY <1>19 DEF
       StateOK, Closed, NewSession, FinishFailed
  <2>3. active' \in Requests \cup {NoRequest} /\ session' \in [Requests -> Sessions]
    BY <1>19, Records DEF
       UploadsOK, SessionStates, FinishFailed
  <2>4. web' \in Handlers
    BY <1>19, Records DEF
       UploadsOK, WebPlaces, FinishFailed
  <2>5. FlagsOK'
    BY <1>19 DEF
       FlagsOK, FinishFailed
  <2>6. HandlerInv'
    BY <1>19 DEF
       UploadsOK, Sessions, HandlerInv, LockInv, Opening, Cleaning, Blocked, StorageInv,
       Closed, NewSession, FinishFailed
  <2>7. LockInv'
    BY <1>19 DEF
       UploadsOK, Sessions, HandlerInv, LockInv, Opening, Cleaning, Blocked, HoldsLock, Images,
       Closed, NewSession, FinishFailed
  <2>8. StorageInv'
    BY <1>19 DEF
       UploadsOK, FlagsOK, Sessions, HandlerInv, LockInv, Opening, Cleaning, Blocked,
       StorageInv, Complete, Kept, Closed, NewSession, FinishFailed
  <2>. QED BY <2>2, <2>3, <2>4, <2>5, <2>6, <2>7, <2>8 DEF UploadsOK
<1>20. ASSUME UpdateFailed(r) PROVE IInv'
  <2>2. StateOK'
    BY <1>20 DEF
       StateOK, Closed, NewSession, UpdateFailed
  <2>3. active' \in Requests \cup {NoRequest} /\ session' \in [Requests -> Sessions]
    BY <1>20 DEF
       UploadsOK, SessionStates, Sessions, Closed, NewSession, UpdateFailed
  <2>4. web' \in Handlers
    BY <1>20, Records DEF
       UploadsOK, WebPlaces, UpdateFailed
  <2>5. FlagsOK'
    BY <1>20 DEF
       FlagsOK, UpdateFailed
  <2>6. HandlerInv'
    BY <1>20 DEF
       UploadsOK, Sessions, HandlerInv, LockInv, Opening, Cleaning, Blocked, StorageInv,
       Closed, NewSession, UpdateFailed
  <2>7. LockInv'
    BY <1>20 DEF
       UploadsOK, Sessions, HandlerInv, LockInv, Opening, Cleaning, Blocked, HoldsLock, Images,
       Closed, NewSession, UpdateFailed
  <2>8. StorageInv'
    BY <1>20 DEF
       UploadsOK, FlagsOK, Sessions, HandlerInv, LockInv, Opening, Cleaning, Blocked,
       StorageInv, Complete, Kept, Closed, NewSession, UpdateFailed
  <2>. QED BY <2>2, <2>3, <2>4, <2>5, <2>6, <2>7, <2>8 DEF UploadsOK
<1>21. ASSUME Unlock(r) PROVE IInv'
  <2>2. StateOK'
    BY <1>21 DEF
       StateOK, Closed, NewSession, Unlock, FinishUpdate
  <2>3. active' \in Requests \cup {NoRequest} /\ session' \in [Requests -> Sessions]
    BY <1>21, Records DEF
       UploadsOK, SessionStates, Unlock
  <2>4. web' \in Handlers
    BY <1>21, Records DEF
       UploadsOK, WebPlaces, Unlock
  <2>5. FlagsOK'
    BY <1>21 DEF
       FlagsOK, Unlock, FinishUpdate
  <2>6. HandlerInv'
    BY <1>21 DEF
       UploadsOK, Sessions, HandlerInv, LockInv, Opening, Cleaning, Blocked, StorageInv,
       Closed, NewSession, Unlock, FinishUpdate
  <2>7. LockInv'
    BY <1>21 DEF
       UploadsOK, Sessions, HandlerInv, LockInv, Opening, Cleaning, Blocked, HoldsLock, Images,
       Closed, NewSession, Unlock, FinishUpdate
  <2>8. StorageInv'
    BY <1>21 DEF
       UploadsOK, FlagsOK, Sessions, HandlerInv, LockInv, Opening, Cleaning, Blocked,
       StorageInv, Complete, Kept, Closed, NewSession, Unlock, FinishUpdate
  <2>. QED BY <2>2, <2>3, <2>4, <2>5, <2>6, <2>7, <2>8 DEF UploadsOK
<1>22. ASSUME WriteChunk(r) PROVE IInv'
  <2>2. StateOK'
    BY <1>22 DEF
       StateOK, Closed, NewSession, WriteChunk
  <2>3. active' \in Requests \cup {NoRequest} /\ session' \in [Requests -> Sessions]
    BY <1>22 DEF
       UploadsOK, SessionStates, Sessions, Closed, NewSession, WriteChunk
  <2>4. web' \in Handlers
    BY <1>22, Records DEF
       UploadsOK, WebPlaces, WriteChunk
  <2>5. FlagsOK'
    BY <1>22 DEF
       FlagsOK, WriteChunk
  <2>6. HandlerInv'
    BY <1>22 DEF
       UploadsOK, Sessions, HandlerInv, LockInv, Opening, Cleaning, Blocked, StorageInv,
       Closed, NewSession, WriteChunk
  <2>7. LockInv'
    BY <1>22 DEF
       UploadsOK, Sessions, HandlerInv, LockInv, Opening, Cleaning, Blocked, HoldsLock, Images,
       Closed, NewSession, WriteChunk
  <2>8. StorageInv'
    BY <1>22 DEF
       UploadsOK, FlagsOK, Sessions, HandlerInv, LockInv, Opening, Cleaning, Blocked,
       StorageInv, Complete, Kept, Closed, NewSession, WriteChunk
  <2>. QED BY <2>2, <2>3, <2>4, <2>5, <2>6, <2>7, <2>8 DEF UploadsOK
<1>23. ASSUME Finalize(r) PROVE IInv'
  <2>2. StateOK'
    BY <1>23 DEF
       StateOK, Closed, NewSession, Finalize, FinishUpdate
  <2>3. active' \in Requests \cup {NoRequest} /\ session' \in [Requests -> Sessions]
    BY <1>23 DEF
       UploadsOK, SessionStates, Sessions, Closed, NewSession, Finalize
  <2>4. web' \in Handlers
    BY <1>23, Records DEF
       UploadsOK, WebPlaces, Finalize
  <2>5. FlagsOK'
    BY <1>23 DEF
       FlagsOK, Finalize, FinishUpdate
  <2>6. HandlerInv'
    BY <1>23 DEF
       UploadsOK, Sessions, HandlerInv, LockInv, Opening, Cleaning, Blocked, StorageInv,
       Closed, NewSession, Finalize, FinishUpdate
  <2>7. LockInv'
    BY <1>23 DEF
       UploadsOK, Sessions, HandlerInv, LockInv, Opening, Cleaning, Blocked, HoldsLock, Images,
       Closed, NewSession, Finalize, FinishUpdate
  <2>8. StorageInv'
    BY <1>23 DEF
       UploadsOK, FlagsOK, Sessions, HandlerInv, LockInv, Opening, Cleaning, Blocked,
       StorageInv, Complete, Kept, Closed, NewSession, Finalize, FinishUpdate
  <2>. QED BY <2>2, <2>3, <2>4, <2>5, <2>6, <2>7, <2>8 DEF UploadsOK
<1>24. ASSUME RequestEnds(r) PROVE IInv'
  <2>2. StateOK'
    BY <1>24 DEF
       StateOK, Closed, NewSession, RequestEnds
  <2>3. active' \in Requests \cup {NoRequest} /\ session' \in [Requests -> Sessions]
    <3>1. CASE active = r
      BY <1>24, <3>1 DEF
         UploadsOK, Sessions, SessionStates, RequestEnds
    <3>2. CASE active # r
      BY <1>24, <3>2, Records DEF
         UploadsOK, RequestEnds
    <3>. QED BY <3>1, <3>2
  <2>4. web' \in Handlers
    BY <1>24, Records DEF
       UploadsOK, WebPlaces, RequestEnds
  <2>5. FlagsOK'
    BY <1>24 DEF
       FlagsOK, RequestEnds
  <2>6. HandlerInv'
    BY <1>24 DEF
       UploadsOK, Sessions, HandlerInv, LockInv, Opening, Cleaning, Blocked, StorageInv,
       Closed, NewSession, RequestEnds
  <2>7. LockInv'
    BY <1>24 DEF
       UploadsOK, Sessions, HandlerInv, LockInv, Opening, Cleaning, Blocked, HoldsLock, Images,
       Closed, NewSession, RequestEnds
  <2>8. StorageInv'
    BY <1>24 DEF
       UploadsOK, FlagsOK, Sessions, HandlerInv, LockInv, Opening, Cleaning, Blocked,
       StorageInv, Complete, Kept, Closed, NewSession, RequestEnds
  <2>. QED BY <2>2, <2>3, <2>4, <2>5, <2>6, <2>7, <2>8 DEF UploadsOK
<1>. QED
  BY <1>1, <1>2, <1>3, <1>4, <1>5, <1>6, <1>7, <1>8, <1>9, <1>10, <1>11, <1>12, <1>13,
     <1>14, <1>15, <1>16, <1>17, <1>18, <1>19, <1>20, <1>21, <1>22, <1>23, <1>24 DEF Handle

\* Everybody else: the Bluetooth update, the player, the other task, the release
\* of the audio, the restarts and the boot.
LEMMA OthersKeep ==
  ASSUME IInv,
         \/ BtUploadStarts \/ BtUploadEnds \/ BtTerminal \/ MainSteps \/ Dequeue
         \/ RetryDue \/ StreamEnds \/ OtherSteps \/ DspSteps \/ BootSteps \/ PowerCut
         \/ \E what \in {"play", "source", "restart"} : OtherBegins(what)
  PROVE  IInv'
<1> USE NoRequestIsNone
<1>1. CASE BtUploadStarts
  <2>2. StateOK'
    BY <1>1 DEF
       StateOK, BtUploadStarts, updateNetworkQuiescing, blocksRequests
  <2>3. UploadsOK'
    BY <1>1 DEF
       UploadsOK, BtUploadStarts, updateNetworkQuiescing, blocksRequests
  <2>5. FlagsOK'
    BY <1>1 DEF
       FlagsOK, BtUploadStarts, updateNetworkQuiescing, blocksRequests
  <2>6. HandlerInv'
    BY <1>1 DEF
       UploadsOK, Sessions, HandlerInv, LockInv, Opening, Cleaning, Blocked, StorageInv,
       BtUploadStarts, updateNetworkQuiescing, blocksRequests
  <2>7. LockInv'
    BY <1>1 DEF
       UploadsOK, Sessions, HandlerInv, LockInv, Opening, Cleaning, Blocked, HoldsLock, Images,
       BtUploadStarts, updateNetworkQuiescing, blocksRequests
  <2>8. StorageInv'
    BY <1>1 DEF
       UploadsOK, FlagsOK, Sessions, HandlerInv, LockInv, Opening, Cleaning, Blocked,
       StorageInv, Complete, Kept, BtUploadStarts, updateNetworkQuiescing, blocksRequests
  <2>. QED BY <2>2, <2>3, <2>5, <2>6, <2>7, <2>8
<1>2. CASE BtUploadEnds
  <2>2. StateOK'
    BY <1>2 DEF
       StateOK, BtUploadEnds, blocksRequests
  <2>3. UploadsOK'
    BY <1>2 DEF
       UploadsOK, BtUploadEnds, blocksRequests
  <2>5. FlagsOK'
    BY <1>2 DEF
       FlagsOK, BtUploadEnds, blocksRequests
  <2>6. HandlerInv'
    BY <1>2 DEF
       UploadsOK, Sessions, HandlerInv, LockInv, Opening, Cleaning, Blocked, StorageInv,
       BtUploadEnds, blocksRequests
  <2>7. LockInv'
    BY <1>2 DEF
       UploadsOK, Sessions, HandlerInv, LockInv, Opening, Cleaning, Blocked, HoldsLock, Images,
       BtUploadEnds, blocksRequests
  <2>8. StorageInv'
    BY <1>2 DEF
       UploadsOK, FlagsOK, Sessions, HandlerInv, LockInv, Opening, Cleaning, Blocked,
       StorageInv, Complete, Kept, BtUploadEnds, blocksRequests
  <2>. QED BY <2>2, <2>3, <2>5, <2>6, <2>7, <2>8
<1>3. CASE BtTerminal
  <2>2. StateOK'
    BY <1>3 DEF
       StateOK, BtTerminal, MainFree, FinishUpdate
  <2>3. UploadsOK'
    BY <1>3 DEF
       UploadsOK, BtTerminal, MainFree, FinishUpdate
  <2>5. FlagsOK'
    BY <1>3 DEF
       FlagsOK, BtTerminal, MainFree, FinishUpdate
  <2>6. HandlerInv'
    BY <1>3 DEF
       UploadsOK, Sessions, HandlerInv, LockInv, Opening, Cleaning, Blocked, StorageInv,
       BtTerminal, MainFree, FinishUpdate
  <2>7. LockInv'
    BY <1>3 DEF
       UploadsOK, Sessions, HandlerInv, LockInv, Opening, Cleaning, Blocked, HoldsLock, Images,
       BtTerminal, MainFree, FinishUpdate
  <2>8. StorageInv'
    BY <1>3 DEF
       UploadsOK, FlagsOK, Sessions, HandlerInv, LockInv, Opening, Cleaning, Blocked,
       StorageInv, Complete, Kept, BtTerminal, MainFree, FinishUpdate
  <2>. QED BY <2>2, <2>3, <2>5, <2>6, <2>7, <2>8
<1>4. CASE BtTake
  <2>2. StateOK'
    BY <1>4 DEF
       StateOK, BtTake, MainFree, updateLockActive
  <2>3. UploadsOK'
    BY <1>4 DEF
       UploadsOK, BtTake, MainFree, updateLockActive
  <2>5. FlagsOK'
    BY <1>4 DEF
       FlagsOK, BtTake, MainFree, updateLockActive
  <2>6. HandlerInv'
    BY <1>4 DEF
       UploadsOK, Sessions, HandlerInv, LockInv, Opening, Cleaning, Blocked, StorageInv,
       BtTake, MainFree, updateLockActive
  <2>7. LockInv'
    BY <1>4 DEF
       UploadsOK, Sessions, HandlerInv, LockInv, Opening, Cleaning, Blocked, HoldsLock, Images,
       BtTake, MainFree, updateLockActive
  <2>8. StorageInv'
    BY <1>4 DEF
       UploadsOK, FlagsOK, Sessions, HandlerInv, LockInv, Opening, Cleaning, Blocked,
       StorageInv, Complete, Kept, BtTake, MainFree, updateLockActive
  <2>. QED BY <2>2, <2>3, <2>5, <2>6, <2>7, <2>8
<1>5. CASE BtStart
  <2>2. StateOK'
    BY <1>5 DEF
       StateOK, BtStart, blocksRequests, FinishUpdate
  <2>3. UploadsOK'
    BY <1>5 DEF
       UploadsOK, BtStart, blocksRequests, FinishUpdate
  <2>5. FlagsOK'
    BY <1>5 DEF
       FlagsOK, BtStart, blocksRequests, FinishUpdate
  <2>6. HandlerInv'
    BY <1>5 DEF
       UploadsOK, Sessions, HandlerInv, LockInv, Opening, Cleaning, Blocked, StorageInv,
       BtStart, blocksRequests, FinishUpdate
  <2>7. LockInv'
    BY <1>5 DEF
       UploadsOK, Sessions, HandlerInv, LockInv, Opening, Cleaning, Blocked, HoldsLock, Images,
       BtStart, blocksRequests, FinishUpdate
  <2>8. StorageInv'
    BY <1>5 DEF
       UploadsOK, FlagsOK, Sessions, HandlerInv, LockInv, Opening, Cleaning, Blocked,
       StorageInv, Complete, Kept, BtStart, blocksRequests, FinishUpdate
  <2>. QED BY <2>2, <2>3, <2>5, <2>6, <2>7, <2>8
<1>6. CASE BtQuiesce
  <2>1. queue' \in Seq(Commands) /\ Len(queue') <= QueueSize
    BY <1>6, QueueShrinks DEF
       StateOK, BtQuiesce
  <2>2. StateOK'
    BY <1>6, <2>1 DEF
       StateOK, BtQuiesce
  <2>3. UploadsOK'
    BY <1>6 DEF
       UploadsOK, BtQuiesce
  <2>5. FlagsOK'
    BY <1>6 DEF
       FlagsOK, BtQuiesce
  <2>6. HandlerInv'
    BY <1>6 DEF
       UploadsOK, Sessions, HandlerInv, LockInv, Opening, Cleaning, Blocked, StorageInv,
       BtQuiesce
  <2>7. LockInv'
    BY <1>6 DEF
       UploadsOK, Sessions, HandlerInv, LockInv, Opening, Cleaning, Blocked, HoldsLock, Images,
       BtQuiesce
  <2>8. StorageInv'
    BY <1>6 DEF
       UploadsOK, FlagsOK, Sessions, HandlerInv, LockInv, Opening, Cleaning, Blocked,
       StorageInv, Complete, Kept, BtQuiesce
  <2>. QED BY <2>2, <2>3, <2>5, <2>6, <2>7, <2>8
<1>7. CASE BtSendStop
  <2>1. queue' \in Seq(Commands) /\ Len(queue') <= QueueSize
    BY <1>7, EnqueueKeeps DEF
       StateOK, BtSendStop, Commands
  <2>2. StateOK'
    BY <1>7, <2>1 DEF
       StateOK, BtSendStop
  <2>3. UploadsOK'
    BY <1>7 DEF
       UploadsOK, BtSendStop
  <2>5. FlagsOK'
    BY <1>7 DEF
       FlagsOK, BtSendStop
  <2>6. HandlerInv'
    BY <1>7 DEF
       UploadsOK, Sessions, HandlerInv, LockInv, Opening, Cleaning, Blocked, StorageInv,
       BtSendStop
  <2>7. LockInv'
    BY <1>7 DEF
       UploadsOK, Sessions, HandlerInv, LockInv, Opening, Cleaning, Blocked, HoldsLock, Images,
       BtSendStop
  <2>8. StorageInv'
    BY <1>7 DEF
       UploadsOK, FlagsOK, Sessions, HandlerInv, LockInv, Opening, Cleaning, Blocked,
       StorageInv, Complete, Kept, BtSendStop
  <2>. QED BY <2>2, <2>3, <2>5, <2>6, <2>7, <2>8
<1>8. CASE HoldCompleted
  <2>2. StateOK'
    BY <1>8 DEF
       StateOK, HoldCompleted, MainFree
  <2>3. UploadsOK'
    BY <1>8 DEF
       UploadsOK, HoldCompleted, MainFree
  <2>5. FlagsOK'
    BY <1>8 DEF
       FlagsOK, HoldCompleted, MainFree
  <2>6. HandlerInv'
    BY <1>8 DEF
       UploadsOK, Sessions, HandlerInv, LockInv, Opening, Cleaning, Blocked, StorageInv,
       HoldCompleted, MainFree
  <2>7. LockInv'
    BY <1>8 DEF
       UploadsOK, Sessions, HandlerInv, LockInv, Opening, Cleaning, Blocked, HoldsLock, Images,
       HoldCompleted, MainFree
  <2>8. StorageInv'
    BY <1>8 DEF
       UploadsOK, FlagsOK, Sessions, HandlerInv, LockInv, Opening, Cleaning, Blocked,
       StorageInv, Complete, Kept, HoldCompleted, MainFree
  <2>. QED BY <2>2, <2>3, <2>5, <2>6, <2>7, <2>8
<1>9. CASE RestartAfterUpdate
  <2>1. queue' \in Seq(Commands) /\ Len(queue') <= QueueSize
    BY <1>9, QueueShrinks DEF
       StateOK, RestartAfterUpdate, MainFree, Reboot
  <2>2. StateOK'
    BY <1>9, <2>1 DEF
       StateOK, Closed, NewSession, RestartAfterUpdate, MainFree, Reboot
  <2>3. active' \in Requests \cup {NoRequest} /\ session' \in [Requests -> Sessions]
    BY <1>9 DEF
       UploadsOK, SessionStates, Sessions, Images, Closed, NewSession, RestartAfterUpdate,
       MainFree, Reboot
  <2>4. web' \in Handlers
    BY <1>9, Records DEF
       UploadsOK, WebPlaces, RestartAfterUpdate, MainFree, Reboot
  <2>5. FlagsOK'
    BY <1>9, RebootKeepsFiles DEF RestartAfterUpdate
  <2>6. HandlerInv'
    BY <1>9 DEF
       UploadsOK, Sessions, HandlerInv, LockInv, Opening, Cleaning, Blocked, StorageInv,
       Closed, NewSession, RestartAfterUpdate, MainFree, Reboot
  <2>7. LockInv'
    BY <1>9 DEF
       UploadsOK, Sessions, HandlerInv, LockInv, Opening, Cleaning, Blocked, HoldsLock, Images,
       Closed, NewSession, RestartAfterUpdate, MainFree, Reboot
  <2>8. StorageInv'
    BY <1>9, RebootKeepsFiles DEF RestartAfterUpdate, StorageInv
  <2>. QED BY <2>2, <2>3, <2>4, <2>5, <2>6, <2>7, <2>8 DEF UploadsOK
<1>10. CASE ExecuteStop
  <2>2. StateOK'
    BY <1>10 DEF
       StateOK, ExecuteStop, Halt, systemUpdateAudioBlocked
  <2>3. UploadsOK'
    BY <1>10 DEF
       UploadsOK, ExecuteStop, Halt, systemUpdateAudioBlocked
  <2>5. FlagsOK'
    BY <1>10 DEF
       FlagsOK, ExecuteStop, Halt, systemUpdateAudioBlocked
  <2>6. HandlerInv'
    BY <1>10 DEF
       UploadsOK, Sessions, HandlerInv, LockInv, Opening, Cleaning, Blocked, StorageInv,
       ExecuteStop, Halt, systemUpdateAudioBlocked
  <2>7. LockInv'
    BY <1>10 DEF
       UploadsOK, Sessions, HandlerInv, LockInv, Opening, Cleaning, Blocked, HoldsLock, Images,
       ExecuteStop, Halt, systemUpdateAudioBlocked
  <2>8. StorageInv'
    BY <1>10 DEF
       UploadsOK, FlagsOK, Sessions, HandlerInv, LockInv, Opening, Cleaning, Blocked,
       StorageInv, Complete, Kept, ExecuteStop, Halt, systemUpdateAudioBlocked
  <2>. QED BY <2>2, <2>3, <2>5, <2>6, <2>7, <2>8
<1>11. CASE ExecutePlay
  <2>2. StateOK'
    BY <1>11 DEF
       StateOK, ExecutePlay, Halt, systemUpdateAudioBlocked
  <2>3. UploadsOK'
    BY <1>11 DEF
       UploadsOK, ExecutePlay, Halt, systemUpdateAudioBlocked
  <2>5. FlagsOK'
    BY <1>11 DEF
       FlagsOK, ExecutePlay, Halt, systemUpdateAudioBlocked
  <2>6. HandlerInv'
    BY <1>11 DEF
       UploadsOK, Sessions, HandlerInv, LockInv, Opening, Cleaning, Blocked, StorageInv,
       ExecutePlay, Halt, systemUpdateAudioBlocked
  <2>7. LockInv'
    BY <1>11 DEF
       UploadsOK, Sessions, HandlerInv, LockInv, Opening, Cleaning, Blocked, HoldsLock, Images,
       ExecutePlay, Halt, systemUpdateAudioBlocked
  <2>8. StorageInv'
    BY <1>11 DEF
       UploadsOK, FlagsOK, Sessions, HandlerInv, LockInv, Opening, Cleaning, Blocked,
       StorageInv, Complete, Kept, ExecutePlay, Halt, systemUpdateAudioBlocked
  <2>. QED BY <2>2, <2>3, <2>5, <2>6, <2>7, <2>8
<1>12. CASE Dequeue
  <2>1. queue' \in Seq(Commands) /\ Len(queue') <= QueueSize
    BY <1>12, QueueShrinks DEF
       StateOK, Dequeue, PlayerRuns, MainFree
  <2>2. StateOK'
    BY <1>12, <2>1, QueueShrinks DEF
       StateOK, Commands, Dequeue, PlayerRuns, MainFree
  <2>3. UploadsOK'
    BY <1>12 DEF
       UploadsOK, Dequeue, PlayerRuns, MainFree
  <2>5. FlagsOK'
    BY <1>12 DEF
       FlagsOK, Dequeue, PlayerRuns, MainFree
  <2>6. HandlerInv'
    BY <1>12 DEF
       UploadsOK, Sessions, HandlerInv, LockInv, Opening, Cleaning, Blocked, StorageInv,
       Dequeue, PlayerRuns, MainFree
  <2>7. LockInv'
    BY <1>12, QueueShrinks DEF
       UploadsOK, Sessions, StateOK, Commands, HandlerInv, LockInv, Opening, Cleaning, Blocked,
       HoldsLock, Images, Dequeue, PlayerRuns, MainFree
  <2>8. StorageInv'
    BY <1>12 DEF
       UploadsOK, FlagsOK, Sessions, HandlerInv, LockInv, Opening, Cleaning, Blocked,
       StorageInv, Complete, Kept, Dequeue, PlayerRuns, MainFree
  <2>. QED BY <2>2, <2>3, <2>5, <2>6, <2>7, <2>8
<1>13. CASE RetryDue
  <2>2. StateOK'
    BY <1>13 DEF
       StateOK, Commands, RetryDue, PlayerRuns, MainFree
  <2>3. UploadsOK'
    BY <1>13 DEF
       UploadsOK, RetryDue, PlayerRuns, MainFree
  <2>5. FlagsOK'
    BY <1>13 DEF
       FlagsOK, RetryDue, PlayerRuns, MainFree
  <2>6. HandlerInv'
    BY <1>13 DEF
       UploadsOK, Sessions, HandlerInv, LockInv, Opening, Cleaning, Blocked, StorageInv,
       RetryDue, PlayerRuns, MainFree
  <2>7. LockInv'
    BY <1>13 DEF
       UploadsOK, Sessions, HandlerInv, LockInv, Opening, Cleaning, Blocked, HoldsLock, Images,
       RetryDue, PlayerRuns, MainFree
  <2>8. StorageInv'
    BY <1>13 DEF
       UploadsOK, FlagsOK, Sessions, HandlerInv, LockInv, Opening, Cleaning, Blocked,
       StorageInv, Complete, Kept, RetryDue, PlayerRuns, MainFree
  <2>. QED BY <2>2, <2>3, <2>5, <2>6, <2>7, <2>8
<1>14. CASE StreamEnds
  <2>2. StateOK'
    BY <1>14 DEF
       StateOK, StreamEnds, PlayerRuns, MainFree, Halt
  <2>3. UploadsOK'
    BY <1>14 DEF
       UploadsOK, StreamEnds, PlayerRuns, MainFree, Halt
  <2>5. FlagsOK'
    BY <1>14 DEF
       FlagsOK, StreamEnds, PlayerRuns, MainFree, Halt
  <2>6. HandlerInv'
    BY <1>14 DEF
       UploadsOK, Sessions, HandlerInv, LockInv, Opening, Cleaning, Blocked, StorageInv,
       StreamEnds, PlayerRuns, MainFree, Halt
  <2>7. LockInv'
    BY <1>14 DEF
       UploadsOK, Sessions, HandlerInv, LockInv, Opening, Cleaning, Blocked, HoldsLock, Images,
       StreamEnds, PlayerRuns, MainFree, Halt
  <2>8. StorageInv'
    BY <1>14 DEF
       UploadsOK, FlagsOK, Sessions, HandlerInv, LockInv, Opening, Cleaning, Blocked,
       StorageInv, Complete, Kept, StreamEnds, PlayerRuns, MainFree, Halt
  <2>. QED BY <2>2, <2>3, <2>5, <2>6, <2>7, <2>8
<1>15. ASSUME NEW what \in {"play", "source", "restart"}, OtherBegins(what) PROVE IInv'
  <2>2. StateOK'
    BY <1>15 DEF
       StateOK, OtherBegins, OtherIdle
  <2>3. UploadsOK'
    BY <1>15 DEF
       UploadsOK, OtherBegins, OtherIdle
  <2>5. FlagsOK'
    BY <1>15 DEF
       FlagsOK, OtherBegins, OtherIdle
  <2>6. HandlerInv'
    BY <1>15 DEF
       UploadsOK, Sessions, HandlerInv, LockInv, Opening, Cleaning, Blocked, StorageInv,
       OtherBegins, OtherIdle
  <2>7. LockInv'
    BY <1>15 DEF
       UploadsOK, Sessions, HandlerInv, LockInv, Opening, Cleaning, Blocked, HoldsLock, Images,
       OtherBegins, OtherIdle
  <2>8. StorageInv'
    BY <1>15 DEF
       UploadsOK, FlagsOK, Sessions, HandlerInv, LockInv, Opening, Cleaning, Blocked,
       StorageInv, Complete, Kept, OtherBegins, OtherIdle
  <2>. QED BY <2>2, <2>3, <2>5, <2>6, <2>7, <2>8
<1>16. CASE SendPlay
  <2>1. queue' \in Seq(Commands) /\ Len(queue') <= QueueSize
    BY <1>16, EnqueueKeeps DEF
       StateOK, SendPlay, Commands
  <2>2. StateOK'
    BY <1>16, <2>1 DEF
       StateOK, SendPlay
  <2>3. UploadsOK'
    BY <1>16 DEF
       UploadsOK, SendPlay
  <2>5. FlagsOK'
    BY <1>16 DEF
       FlagsOK, SendPlay
  <2>6. HandlerInv'
    BY <1>16 DEF
       UploadsOK, Sessions, HandlerInv, LockInv, Opening, Cleaning, Blocked, StorageInv,
       SendPlay
  <2>7. LockInv'
    BY <1>16 DEF
       UploadsOK, Sessions, HandlerInv, LockInv, Opening, Cleaning, Blocked, HoldsLock, Images,
       SendPlay
  <2>8. StorageInv'
    BY <1>16 DEF
       UploadsOK, FlagsOK, Sessions, HandlerInv, LockInv, Opening, Cleaning, Blocked,
       StorageInv, Complete, Kept, SendPlay
  <2>. QED BY <2>2, <2>3, <2>5, <2>6, <2>7, <2>8
<1>17. CASE ReplaceQueue
  <2>1. queue' \in Seq(Commands) /\ Len(queue') <= QueueSize
    BY <1>17, QueueShrinks DEF
       StateOK, ReplaceQueue
  <2>2. StateOK'
    BY <1>17, <2>1 DEF
       StateOK, ReplaceQueue
  <2>3. UploadsOK'
    BY <1>17 DEF
       UploadsOK, ReplaceQueue
  <2>5. FlagsOK'
    BY <1>17 DEF
       FlagsOK, ReplaceQueue
  <2>6. HandlerInv'
    BY <1>17 DEF
       UploadsOK, Sessions, HandlerInv, LockInv, Opening, Cleaning, Blocked, StorageInv,
       ReplaceQueue
  <2>7. LockInv'
    BY <1>17 DEF
       UploadsOK, Sessions, HandlerInv, LockInv, Opening, Cleaning, Blocked, HoldsLock, Images,
       ReplaceQueue
  <2>8. StorageInv'
    BY <1>17 DEF
       UploadsOK, FlagsOK, Sessions, HandlerInv, LockInv, Opening, Cleaning, Blocked,
       StorageInv, Complete, Kept, ReplaceQueue
  <2>. QED BY <2>2, <2>3, <2>5, <2>6, <2>7, <2>8
<1>18. CASE SendAgain
  <2>2. StateOK'
    BY <1>18 DEF
       StateOK, SendAgain
  <2>3. UploadsOK'
    BY <1>18 DEF
       UploadsOK, SendAgain
  <2>5. FlagsOK'
    BY <1>18 DEF
       FlagsOK, SendAgain
  <2>6. HandlerInv'
    BY <1>18 DEF
       UploadsOK, Sessions, HandlerInv, LockInv, Opening, Cleaning, Blocked, StorageInv,
       SendAgain
  <2>7. LockInv'
    BY <1>18 DEF
       UploadsOK, Sessions, HandlerInv, LockInv, Opening, Cleaning, Blocked, HoldsLock, Images,
       SendAgain
  <2>8. StorageInv'
    BY <1>18 DEF
       UploadsOK, FlagsOK, Sessions, HandlerInv, LockInv, Opening, Cleaning, Blocked,
       StorageInv, Complete, Kept, SendAgain
  <2>. QED BY <2>2, <2>3, <2>5, <2>6, <2>7, <2>8
<1>19. CASE RestartRequested
  <2>2. StateOK'
    BY <1>19 DEF
       StateOK, RestartRequested
  <2>3. UploadsOK'
    BY <1>19 DEF
       UploadsOK, RestartRequested
  <2>5. FlagsOK'
    BY <1>19 DEF
       FlagsOK, RestartRequested
  <2>6. HandlerInv'
    BY <1>19 DEF
       UploadsOK, Sessions, HandlerInv, LockInv, Opening, Cleaning, Blocked, StorageInv,
       RestartRequested
  <2>7. LockInv'
    BY <1>19 DEF
       UploadsOK, Sessions, HandlerInv, LockInv, Opening, Cleaning, Blocked, HoldsLock, Images,
       RestartRequested
  <2>8. StorageInv'
    BY <1>19 DEF
       UploadsOK, FlagsOK, Sessions, HandlerInv, LockInv, Opening, Cleaning, Blocked,
       StorageInv, Complete, Kept, RestartRequested
  <2>. QED BY <2>2, <2>3, <2>5, <2>6, <2>7, <2>8
<1>20. CASE ReleaseCheck
  <2>2. StateOK'
    BY <1>20 DEF
       StateOK, ReleaseCheck
  <2>3. UploadsOK'
    BY <1>20 DEF
       UploadsOK, ReleaseCheck
  <2>5. FlagsOK'
    BY <1>20 DEF
       FlagsOK, ReleaseCheck
  <2>6. HandlerInv'
    BY <1>20 DEF
       UploadsOK, Sessions, HandlerInv, LockInv, Opening, Cleaning, Blocked, StorageInv,
       ReleaseCheck
  <2>7. LockInv'
    BY <1>20 DEF
       UploadsOK, Sessions, HandlerInv, LockInv, Opening, Cleaning, Blocked, HoldsLock, Images,
       ReleaseCheck
  <2>8. StorageInv'
    BY <1>20 DEF
       UploadsOK, FlagsOK, Sessions, HandlerInv, LockInv, Opening, Cleaning, Blocked,
       StorageInv, Complete, Kept, ReleaseCheck
  <2>. QED BY <2>2, <2>3, <2>5, <2>6, <2>7, <2>8
<1>21. CASE ReleaseAudio
  <2>2. StateOK'
    BY <1>21 DEF
       StateOK, ReleaseAudio
  <2>3. UploadsOK'
    BY <1>21 DEF
       UploadsOK, ReleaseAudio
  <2>5. FlagsOK'
    BY <1>21 DEF
       FlagsOK, ReleaseAudio
  <2>6. HandlerInv'
    BY <1>21 DEF
       UploadsOK, Sessions, HandlerInv, LockInv, Opening, Cleaning, Blocked, StorageInv,
       ReleaseAudio
  <2>7. LockInv'
    BY <1>21 DEF
       UploadsOK, Sessions, HandlerInv, LockInv, Opening, Cleaning, Blocked, HoldsLock, Images,
       ReleaseAudio
  <2>8. StorageInv'
    BY <1>21 DEF
       UploadsOK, FlagsOK, Sessions, HandlerInv, LockInv, Opening, Cleaning, Blocked,
       StorageInv, Complete, Kept, ReleaseAudio
  <2>. QED BY <2>2, <2>3, <2>5, <2>6, <2>7, <2>8
<1>22. CASE RestartDue
  <2>1. queue' \in Seq(Commands) /\ Len(queue') <= QueueSize
    BY <1>22, QueueShrinks DEF
       StateOK, RestartDue, Reboot
  <2>2. StateOK'
    BY <1>22, <2>1 DEF
       StateOK, Closed, NewSession, RestartDue, Reboot
  <2>3. active' \in Requests \cup {NoRequest} /\ session' \in [Requests -> Sessions]
    BY <1>22 DEF
       UploadsOK, SessionStates, Sessions, Images, Closed, NewSession, RestartDue, Reboot
  <2>4. web' \in Handlers
    BY <1>22, Records DEF
       UploadsOK, WebPlaces, RestartDue, Reboot
  <2>5. FlagsOK'
    BY <1>22, RebootKeepsFiles DEF RestartDue
  <2>6. HandlerInv'
    BY <1>22 DEF
       UploadsOK, Sessions, HandlerInv, LockInv, Opening, Cleaning, Blocked, StorageInv,
       Closed, NewSession, RestartDue, Reboot
  <2>7. LockInv'
    BY <1>22 DEF
       UploadsOK, Sessions, HandlerInv, LockInv, Opening, Cleaning, Blocked, HoldsLock, Images,
       Closed, NewSession, RestartDue, Reboot
  <2>8. StorageInv'
    BY <1>22, RebootKeepsFiles DEF RestartDue, StorageInv
  <2>. QED BY <2>2, <2>3, <2>4, <2>5, <2>6, <2>7, <2>8 DEF UploadsOK
<1>23. CASE BootMount
  <2>2. StateOK'
    BY <1>23, ProfileAssumption DEF
       StateOK, BootMount, MountSpiffs, BootStep
  <2>3. UploadsOK'
    BY <1>23 DEF
       UploadsOK, BootMount, MountSpiffs, BootStep
  <2>5. FlagsOK'
    BY <1>23 DEF
       FlagsOK, BootMount, MountSpiffs, BootStep
  <2>6. HandlerInv'
    BY <1>23 DEF
       UploadsOK, Sessions, HandlerInv, LockInv, Opening, Cleaning, Blocked, StorageInv,
       BootMount, MountSpiffs, BootStep
  <2>7. LockInv'
    BY <1>23 DEF
       UploadsOK, Sessions, HandlerInv, LockInv, Opening, Cleaning, Blocked, HoldsLock, Images,
       BootMount, MountSpiffs, BootStep
  <2>8. StorageInv'
    BY <1>23 DEF
       UploadsOK, FlagsOK, Sessions, HandlerInv, LockInv, Opening, Cleaning, Blocked,
       StorageInv, Complete, Kept, BootMount, MountSpiffs, BootStep
  <2>. QED BY <2>2, <2>3, <2>5, <2>6, <2>7, <2>8
<1>24. CASE BootRestore
  <2>2. StateOK'
    BY <1>24 DEF
       StateOK, BootRestore, RestoreFiles, BootStep
  <2>3. UploadsOK'
    BY <1>24 DEF
       UploadsOK, BootRestore, RestoreFiles, BootStep
  <2>5. FlagsOK'
    <3>1. files' \in SUBSET UserFiles /\ UNCHANGED <<mounted, mountable, pending, saved, forgotten>>
      BY <1>24, RestoreKeepsFiles DEF BootRestore, StorageInv
    <3>. QED BY <1>24, <3>1 DEF FlagsOK, BootRestore, BootStep
  <2>6. HandlerInv'
    BY <1>24 DEF
       UploadsOK, Sessions, HandlerInv, LockInv, Opening, Cleaning, Blocked, StorageInv,
       BootRestore, RestoreFiles, BootStep
  <2>7. LockInv'
    BY <1>24 DEF
       UploadsOK, Sessions, HandlerInv, LockInv, Opening, Cleaning, Blocked, HoldsLock, Images,
       BootRestore, RestoreFiles, BootStep
  <2>8. StorageInv'
    <3>1. PICK outcome : RestoreFiles(outcome) /\ BootStep(IF outcome = "clear" THEN "clear" ELSE "on")
      BY <1>24 DEF BootRestore
    <3>2. mountable /\ UNCHANGED <<web, session>> /\ web.at = "idle"
      BY <1>24, <3>1 DEF BootRestore, BootStep, StorageInv, HandlerInv
    <3>3. /\ UNCHANGED <<mountable, pending, saved, forgotten>>
          /\ forgotten' \/ Kept'
          /\ outcome = "clear" => saved' \subseteq files'
      BY <3>1, <3>2, RestoreKeepsFiles
    <3>4. boot' \in {"clear", "on"} /\ (boot' = "clear" => outcome = "clear")
      BY <3>1 DEF BootStep
    <3>5. \A q \in Requests : session'[q].at # "writing"
      BY <1>24, <3>2 DEF BootRestore, StorageInv
    <3>. QED
      BY <3>2, <3>3, <3>4, <3>5 DEF StorageInv
  <2>. QED BY <2>2, <2>3, <2>5, <2>6, <2>7, <2>8
<1>25. CASE BootClear
  <2>2. StateOK'
    BY <1>25 DEF
       StateOK, BootClear, ClearSnapshot, BootStep
  <2>3. UploadsOK'
    BY <1>25 DEF
       UploadsOK, BootClear, ClearSnapshot, BootStep
  <2>5. FlagsOK'
    <3>1. UNCHANGED <<mounted, mountable, files, forgotten>> /\ pending' \in BOOLEAN /\ saved' \in SUBSET UserFiles
      BY <1>25, ClearKeepsFiles DEF BootClear, StorageInv
    <3>. QED BY <1>25, <3>1 DEF FlagsOK, BootClear, BootStep
  <2>6. HandlerInv'
    BY <1>25 DEF
       UploadsOK, Sessions, HandlerInv, LockInv, Opening, Cleaning, Blocked, StorageInv,
       BootClear, ClearSnapshot, BootStep
  <2>7. LockInv'
    BY <1>25 DEF
       UploadsOK, Sessions, HandlerInv, LockInv, Opening, Cleaning, Blocked, HoldsLock, Images,
       BootClear, ClearSnapshot, BootStep
  <2>8. StorageInv'
    <3>1. /\ boot' = "on" /\ UNCHANGED <<web, session>> /\ web.at = "idle"
          /\ saved \subseteq files /\ mountable
      BY <1>25 DEF BootClear, BootStep, StorageInv, HandlerInv
    <3>2. forgotten' \/ Kept'
      BY <1>25, <3>1, ClearKeepsFiles DEF BootClear
    <3>3. \A q \in Requests : session'[q].at # "writing"
      BY <1>25, <3>1 DEF BootClear, StorageInv
    <3>. QED BY <3>1, <3>2, <3>3 DEF StorageInv
  <2>. QED BY <2>2, <2>3, <2>5, <2>6, <2>7, <2>8
<1>26. CASE PowerCut
  <2>1. queue' \in Seq(Commands) /\ Len(queue') <= QueueSize
    BY <1>26, QueueShrinks DEF
       StateOK, PowerCut, Reboot
  <2>2. StateOK'
    BY <1>26, <2>1 DEF
       StateOK, Closed, NewSession, PowerCut, Reboot
  <2>3. active' \in Requests \cup {NoRequest} /\ session' \in [Requests -> Sessions]
    BY <1>26 DEF
       UploadsOK, SessionStates, Sessions, Images, Closed, NewSession, PowerCut, Reboot
  <2>4. web' \in Handlers
    BY <1>26, Records DEF
       UploadsOK, WebPlaces, PowerCut, Reboot
  <2>5. FlagsOK'
    BY <1>26, RebootKeepsFiles DEF PowerCut
  <2>6. HandlerInv'
    BY <1>26 DEF
       UploadsOK, Sessions, HandlerInv, LockInv, Opening, Cleaning, Blocked, StorageInv,
       Closed, NewSession, PowerCut, Reboot
  <2>7. LockInv'
    BY <1>26 DEF
       UploadsOK, Sessions, HandlerInv, LockInv, Opening, Cleaning, Blocked, HoldsLock, Images,
       Closed, NewSession, PowerCut, Reboot
  <2>8. StorageInv'
    BY <1>26, RebootKeepsFiles DEF PowerCut, StorageInv
  <2>. QED BY <2>2, <2>3, <2>4, <2>5, <2>6, <2>7, <2>8 DEF UploadsOK
<1>. QED
  BY <1>1, <1>2, <1>3, <1>4, <1>5, <1>6, <1>7, <1>8, <1>9, <1>10, <1>11, <1>12, <1>13,
     <1>14, <1>15, <1>16, <1>17, <1>18, <1>19, <1>20, <1>21, <1>22, <1>23, <1>24, <1>25, <1>26
  DEF MainSteps, OtherSteps, DspSteps, BootSteps

LEMMA NextIInv == IInv /\ [Next]_vars => IInv'
<1> SUFFICES ASSUME IInv, [Next]_vars PROVE IInv'
  OBVIOUS
<1>1. CASE Next
  BY <1>1, UploadKeeps, OthersKeep DEF Next
<1>2. CASE UNCHANGED vars
  BY <1>2 DEF vars, IInv, TypeOK, StateOK, UploadsOK, FlagsOK, HandlerInv, LockInv, StorageInv,
     Complete, Kept, HoldsLock
<1>. QED BY <1>1, <1>2

-----------------------------------------------------------------------------
(* The silence                                                             *)

\* The handler of one upload keeps the gate it relies on.
LEMMA UploadQuiet ==
  ASSUME IInv, QuietInv, NEW r \in Requests,
         \/ \E image \in Images, valid \in BOOLEAN : UploadStarts(r, image, valid)
         \/ Handle(r) \/ WriteChunk(r) \/ Finalize(r) \/ RequestEnds(r)
  PROVE  QuietInv'
<1> USE NoRequestIsNone DEF UploadsOK, Sessions, HandlerInv, LockInv, Opening, Cleaning, Blocked,
        QuietInv, ClaimInv, ReleaseInv, GateInv, Claimed, Stopped
<1>1. ASSUME NEW image \in Images, NEW valid \in BOOLEAN, UploadStarts(r, image, valid) PROVE QuietInv'
  <2>1. PICK s \in Sessions :
          /\ session' = [session EXCEPT ![r] = s] /\ s.at \in {"failed", "open"}
          /\ s.needsRecovery => phase = "FilesystemUnavailable"
    <3> DEFINE s == [NewSession EXCEPT !.at = IF RefusesUpload \/ ~valid THEN "failed" ELSE "open",
                                       !.image = image,
                                       !.needsRecovery = (phase = "FilesystemUnavailable")]
    <3>1. s \in Sessions /\ s.at \in {"failed", "open"} /\ s.needsRecovery = (phase = "FilesystemUnavailable")
      BY DEF NewSession, SessionStates, Images
    <3>2. session' = [session EXCEPT ![r] = s]
      BY <1>1 DEF UploadStarts
    <3> HIDE DEF s
    <3>. QED BY <3>1, <3>2
  <2>2. session[r].at = "new" /\ web.at = "idle" /\ UNCHANGED <<op, tasks, radio>>
        /\ web'.at \in {"idle", "acquire"} /\ active' \in {active, r}
    <3>1. session[r].at = "new" /\ web.at = "idle" /\ UNCHANGED <<op, tasks, radio>>
      BY <1>1 DEF UploadStarts, IsNext
    <3>2. web' = web \/ Goes("acquire", r)
      BY <1>1 DEF UploadStarts
    <3>3. active' = active \/ active' = r
      BY <1>1 DEF UploadStarts
    <3>. QED BY <3>1, <3>2, <3>3
  <2>3. \A q \in Requests : q # r => session'[q] = session[q]
    BY <2>1
  <2>4. session'[r] = s
    BY <2>1
  <2>5. active \in Requests => session[active].at # "new"
    OBVIOUS
  <2>. QED BY <2>1, <2>2, <2>3, <2>4, <2>5
<1>2. CASE BeginUpdate(r)
  BY <1>2 DEF BeginUpdate
<1>3. CASE CheckBlocked(r)
  BY <1>3 DEF CheckBlocked
<1>4. CASE ClaimPhase(r)
  BY <1>4 DEF ClaimPhase
<1>5. CASE BlockAudio(r)
  BY <1>5 DEF BlockAudio
<1>6. CASE AwaitRadioStop(r)
  BY <1>6 DEF AwaitRadioStop
<1>7. CASE Refuse(r)
  BY <1>7 DEF Refuse
<1>8. CASE Quiesce(r)
  BY <1>8 DEF Quiesce
<1>9. CASE SendStop(r)
  BY <1>9 DEF SendStop
<1>10. CASE RadioIsStopped(r)
  BY <1>10 DEF RadioIsStopped
<1>11. CASE RadioDidNotStop(r)
  BY <1>11 DEF RadioDidNotStop
<1>12. CASE Backup(r)
  BY <1>12 DEF Backup, KeepSnapshot, MakeSnapshot, ShortSnapshot, SnapshotFails
<1>13. CASE Unmount(r)
  BY <1>13 DEF Unmount
<1>14. CASE UpdateBegin(r)
  BY <1>14 DEF UpdateBegin
<1>15. CASE Recover(r)
  BY <1>15 DEF Recover
<1>16. CASE Remount(r)
  BY <1>16 DEF Remount, Recovered
<1>17. CASE RestoreData(r)
  BY <1>17 DEF RestoreData, Recovered
<1>18. CASE DropSnapshot(r)
  BY <1>18 DEF DropSnapshot, Recovered
<1>19. CASE FinishFailed(r)
  BY <1>19 DEF FinishFailed, Closed, NewSession
<1>20. CASE UpdateFailed(r)
  BY <1>20 DEF UpdateFailed
<1>21. CASE Unlock(r)
  BY <1>21 DEF Unlock, Closed, NewSession
<1>22. CASE WriteChunk(r)
  BY <1>22 DEF WriteChunk
<1>23. CASE Finalize(r)
  BY <1>23 DEF Finalize
<1>24. CASE RequestEnds(r)
  BY <1>24 DEF RequestEnds, Closed, NewSession
<1>. QED
  BY <1>1, <1>2, <1>3, <1>4, <1>5, <1>6, <1>7, <1>8, <1>9, <1>10, <1>11, <1>12, <1>13, <1>14, <1>15, <1>16, <1>17, <1>18, <1>19, <1>20, <1>21, <1>22, <1>23, <1>24 DEF Handle

\* Nobody else plays, opens the gate or takes the phase while it is relied on.
LEMMA OthersQuiet ==
  ASSUME IInv, QuietInv,
         \/ BtUploadStarts \/ BtUploadEnds \/ BtTerminal \/ MainSteps \/ Dequeue
         \/ RetryDue \/ StreamEnds \/ OtherSteps \/ DspSteps \/ BootSteps \/ PowerCut
         \/ \E what \in {"play", "source", "restart"} : OtherBegins(what)
  PROVE  QuietInv'
<1> USE NoRequestIsNone DEF UploadsOK, FlagsOK, StateOK, Sessions, HandlerInv, LockInv, Opening, Cleaning, Blocked,
        QuietInv, ClaimInv, ReleaseInv, GateInv, Claimed, Stopped
<1>1. CASE BtUploadStarts
  BY <1>1 DEF BtUploadStarts
<1>2. CASE BtUploadEnds
  BY <1>2 DEF BtUploadEnds
<1>3. CASE BtTerminal
  BY <1>3 DEF BtTerminal
<1>4. CASE BtTake
  BY <1>4 DEF BtTake, MainFree
<1>5. CASE BtStart
  BY <1>5 DEF BtStart
<1>6. CASE BtQuiesce
  BY <1>6 DEF BtQuiesce
<1>7. CASE BtSendStop
  BY <1>7 DEF BtSendStop
<1>8. CASE HoldCompleted
  BY <1>8 DEF HoldCompleted
<1>9. CASE RestartAfterUpdate
  BY <1>9 DEF RestartAfterUpdate, Reboot, Closed, NewSession
<1>10. CASE ExecuteStop
  BY <1>10 DEF ExecuteStop, Halt
<1>11. CASE ExecutePlay
  BY <1>11 DEF ExecutePlay, Halt
<1>12. CASE Dequeue
  BY <1>12 DEF Dequeue, PlayerRuns, MainFree, systemUpdateAudioBlocked
<1>13. CASE RetryDue
  BY <1>13 DEF RetryDue, PlayerRuns, systemUpdateAudioBlocked, MainFree
<1>14. CASE StreamEnds
  BY <1>14 DEF StreamEnds, Halt, PlayerRuns, MainFree
<1>15. CASE SendPlay
  BY <1>15 DEF SendPlay
<1>16. CASE ReplaceQueue
  BY <1>16 DEF ReplaceQueue
<1>17. CASE SendAgain
  BY <1>17 DEF SendAgain
<1>18. CASE RestartRequested
  BY <1>18 DEF RestartRequested
<1>19. CASE ReleaseCheck
  BY <1>19 DEF ReleaseCheck, blocksRequests
<1>20. CASE ReleaseAudio
  BY <1>20 DEF ReleaseAudio
<1>21. CASE RestartDue
  BY <1>21 DEF RestartDue, Reboot, Closed, NewSession
<1>22. CASE BootMount
  BY <1>22 DEF BootMount, BootStep
<1>23. CASE BootRestore
  BY <1>23 DEF BootRestore, BootStep
<1>24. CASE BootClear
  BY <1>24 DEF BootClear, BootStep
<1>25. CASE PowerCut
  BY <1>25 DEF PowerCut, Reboot, Closed, NewSession
<1>26. CASE \E what \in {"play", "source", "restart"} : OtherBegins(what)
  BY <1>26 DEF OtherBegins
<1>. QED
  BY <1>1, <1>2, <1>3, <1>4, <1>5, <1>6, <1>7, <1>8, <1>9, <1>10, <1>11, <1>12, <1>13, <1>14, <1>15, <1>16, <1>17, <1>18, <1>19, <1>20, <1>21, <1>22, <1>23, <1>24, <1>25, <1>26
  DEF MainSteps, OtherSteps, DspSteps, BootSteps

LEMMA NextQuiet == IInv /\ QuietInv /\ [Next]_vars => QuietInv'
<1> SUFFICES ASSUME IInv, QuietInv, [Next]_vars PROVE QuietInv'
  OBVIOUS
<1>1. CASE Next
  BY <1>1, UploadQuiet, OthersQuiet DEF Next
<1>2. CASE UNCHANGED vars
  BY <1>2 DEF vars, QuietInv, ClaimInv, ReleaseInv, GateInv
<1>. QED BY <1>1, <1>2

LEMMA InitQuiet == Init => QuietInv
  BY NoRequestIsNone DEF Init, NewSession, QuietInv, ClaimInv, ReleaseInv, GateInv, Claimed, Blocked, Stopped

-----------------------------------------------------------------------------
(* The theorems                                                            *)

\* Every state of every behaviour satisfies the inductive invariant, and so
\* has the declared types.
THEOREM Invariant == Spec => []IInv
  BY InitIInv, NextIInv, PTL DEF Spec

\* However uploads, Bluetooth updates, failures and late cleanups interleave,
\* whoever writes an image holds the lock for its own target.
THEOREM AlwaysOneWriter == Spec => []OneWriter
  <1>1. IInv => OneWriter
    BY DEF UploadsOK, Sessions, Images, LockInv, HoldsLock, OneWriter, Writing
  <1>. QED BY <1>1, Invariant, PTL

\* Whatever write, mount, write-back or erasure fails and wherever the power is
\* cut, each of the user's files is intact in the file system or in the committed
\* snapshot, as long as no update went on with a snapshot that lacks one of them
\* and no backup took a pending snapshot for none (forgotten).
THEOREM AlwaysUserDataKept == Spec => []UserDataKept
  <1>1. IInv => UserDataKept
    BY DEF StorageInv, UserDataKept
  <1>. QED BY <1>1, Invariant, PTL

\* However commands, retries, changes of source, restarts and the release of an
\* earlier update's gate interleave with it, nothing sounds while an image is
\* written.
THEOREM AlwaysSilentWhileWriting == Spec => []SilentWhileWriting
  <1>1. Spec => []QuietInv
    BY InitQuiet, NextQuiet, Invariant, PTL DEF Spec
  <1>2. IInv /\ QuietInv => SilentWhileWriting
    BY DEF HandlerInv, LockInv, QuietInv, GateInv, SilentWhileWriting, Writing, Blocked
  <1>. QED BY <1>1, <1>2, Invariant, PTL
=============================================================================
