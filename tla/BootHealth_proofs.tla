-------------------------- MODULE BootHealth_proofs --------------------------
(***************************************************************************)
(* The health gate of a firmware update, for any tick counts and bounds:   *)
(* the device always keeps a known good image, calls itself ready only     *)
(* for a durably valid one, and approves none behind a stalled main loop.  *)
(* IInv is inductive; the proof takes the actions one by one, and under    *)
(* each the types, the slots and the stability window.                     *)
(***************************************************************************)
EXTENDS BootHealth, TLAPS

USE TicksNat, BoundsNat

LEMMA OtherSlot == \A s \in Slots : Other(s) \in Slots /\ Other(s) # s /\ Other(Other(s)) = s
  <1> SUFFICES ASSUME NEW s \in Slots
               PROVE  Other(s) \in Slots /\ Other(s) # s /\ Other(Other(s)) = s
    OBVIOUS
  <1>1. CASE s = "app0"
    BY <1>1 DEF Slots, Other
  <1>2. CASE s = "app1"
    BY <1>2 DEF Slots, Other
  <1>. QED BY <1>1, <1>2 DEF Slots

LEMMA InitIInv == Init => IInv
  <1> SUFFICES ASSUME Init PROVE IInv
    OBVIOUS
  <1>1. TypeOK
    <2>1. otadata \in [Slots -> ImageStates]
      BY DEF Init, ImageStates
    <2>2. FlagsOK
      BY DEF Init, FlagsOK
    <2>3. ValuesOK
      BY <2>1 DEF Init, ValuesOK, Slots, Failures, Stages, Phases, ValidationModes
    <2>. QED BY <2>2, <2>3 DEF TypeOK
  <1>2. KnownGoodKept /\ SlotsInv /\ UploadInv /\ JudgedInv /\ RollbackInv /\ ReadyInv
    BY DEF Init, KnownGoodKept, SlotsInv, UploadInv, JudgedInv, RollbackInv, ReadyInv, Slots
  <1>3. WindowInv /\ ApprovedAlive
    BY DEF Init, WindowInv, ApprovedAlive, Fresh
  <1>. QED BY <1>1, <1>2, <1>3 DEF IInv

\* A rollback from a judged image leaves a device that is off with the
\* validated image selected.
LEMMA RebootInv ==
  ASSUME IInv, InvalidateAndReboot, running = bootSlot, Good(Other(running))
  PROVE  IInv'
  <1> USE OtherSlot
  <1>1. ValuesOK'
    BY DEF IInv, TypeOK, ValuesOK, InvalidateAndReboot, RamReset, NoFault, Slots, ImageStates,
           Failures, Stages, Phases, ValidationModes, Alive
  <1>2. FlagsOK'
    BY DEF IInv, TypeOK, FlagsOK, InvalidateAndReboot, RamReset
  <1>3. (KnownGoodKept /\ SlotsInv /\ UploadInv /\ JudgedInv /\ RollbackInv /\ ReadyInv)'
    <2>1. bootSlot' = Other(running) /\ otadata'[bootSlot'] = "Valid" /\ bootSlot' \in intact'
      BY DEF IInv, TypeOK, ValuesOK, InvalidateAndReboot, Good
    <2>. QED
      BY <2>1 DEF KnownGoodKept, SlotsInv, UploadInv, JudgedInv, RollbackInv, ReadyInv,
             InvalidateAndReboot, RamReset
  <1>4. (WindowInv /\ ApprovedAlive)'
    BY DEF WindowInv, ApprovedAlive, Fresh, InvalidateAndReboot, RamReset
  <1>. QED BY <1>1, <1>2, <1>3, <1>4 DEF IInv, TypeOK

LEMMA NextIInv == IInv /\ [Next]_vars => IInv'
<1> SUFFICES ASSUME IInv, [Next]_vars PROVE IInv'
  OBVIOUS
<1> USE OtherSlot
<1>1. CASE Bootloader
  <2>1. ValuesOK'
    BY <1>1 DEF IInv, TypeOK, ValuesOK, ImageStates, Failures, Stages, Phases, ValidationModes,
           Alive, flash, gate, flags, evidence, clock, counters,
           Bootloader
  <2>4. FlagsOK'
    BY <1>1 DEF IInv, TypeOK, FlagsOK, flash, gate, flags, evidence, clock, counters,
           Bootloader
  <2>2. (KnownGoodKept /\ SlotsInv /\ UploadInv /\ JudgedInv /\ RollbackInv /\ ReadyInv)'
    BY <1>1 DEF IInv, TypeOK, ValuesOK, KnownGoodKept, SlotsInv, UploadInv, JudgedInv, RollbackInv,
           ReadyInv, Good, flash, gate, flags, evidence, clock, counters,
           Bootloader
  <2>3. (WindowInv /\ ApprovedAlive)'
    BY <1>1 DEF IInv, TypeOK, ValuesOK, WindowInv, ApprovedAlive, UploadInv, RollbackInv, JudgedInv, Fresh, flash, gate, flags, evidence, clock, counters,
           Bootloader
  <2>. QED BY <2>1, <2>2, <2>3, <2>4 DEF IInv, TypeOK
<1>2. CASE BeginUnreadable
  <2>1. ValuesOK'
    BY <1>2 DEF IInv, TypeOK, ValuesOK, ImageStates, Failures, Stages, Phases, ValidationModes,
           Alive, flash, gate, flags, evidence, clock, counters,
           BeginUnreadable, Fault
  <2>4. FlagsOK'
    BY <1>2 DEF IInv, TypeOK, FlagsOK, flash, gate, flags, evidence, clock, counters,
           BeginUnreadable, Fault
  <2>2. (KnownGoodKept /\ SlotsInv /\ UploadInv /\ JudgedInv /\ RollbackInv /\ ReadyInv)'
    BY <1>2 DEF IInv, TypeOK, ValuesOK, KnownGoodKept, SlotsInv, UploadInv, JudgedInv, RollbackInv,
           ReadyInv, Good, flash, gate, flags, evidence, clock, counters,
           BeginUnreadable, Fault
  <2>3. (WindowInv /\ ApprovedAlive)'
    BY <1>2 DEF IInv, TypeOK, ValuesOK, WindowInv, ApprovedAlive, UploadInv, RollbackInv, JudgedInv, Fresh, flash, gate, flags, evidence, clock, counters,
           BeginUnreadable, Fault
  <2>. QED BY <2>1, <2>2, <2>3, <2>4 DEF IInv, TypeOK
<1>3. CASE Begin
  <2>1. ValuesOK'
    BY <1>3 DEF IInv, TypeOK, ValuesOK, ImageStates, Failures, Stages, Phases, ValidationModes,
           Alive, flash, evidence, clock, counters, Begin, CheckRollback, RollbackPossible,
           Fault, NoFault, GateBegin, Publish
  <2>2. FlagsOK'
    BY <1>3 DEF IInv, TypeOK, FlagsOK, evidence, Begin, GateBegin
  <2>3. (KnownGoodKept /\ SlotsInv /\ UploadInv)'
    BY <1>3 DEF IInv, KnownGoodKept, SlotsInv, UploadInv, RollbackInv, Good, flash, Begin
  <2>4. stage' \in {"start", "setup"} /\ monitor' = "none" /\ running = bootSlot
    BY <1>3 DEF IInv, SlotsInv, RollbackInv, Begin, Good
  <2>5. ReadyInv'
    BY <1>3, <2>4 DEF IInv, KnownGoodKept, SlotsInv, ReadyInv, TypeOK, ValuesOK, ImageStates,
           Begin, flash
  <2>6. JudgedInv'
    <3>1. SUFFICES ASSUME stage' = "start" PROVE JudgedInv'
      BY <2>4 DEF JudgedInv
    <3>2. /\ mode' = (IF otadata[running] = "PendingVerify" THEN "PendingVerify"
                      ELSE "InitialUndefined")
          /\ validationRequired' /\ stateReadOk'
      BY <1>3, <3>1 DEF Begin, GateBegin
    <3>. QED BY <1>3, <2>4, <3>1, <3>2 DEF IInv, KnownGoodKept, JudgedInv, Good, Begin, flash
  <2>7. RollbackInv'
    BY <1>3, <2>4 DEF RollbackInv, Begin, GateBegin
  <2>8. (WindowInv /\ ApprovedAlive)'
    BY <1>3 DEF IInv, RollbackInv, WindowInv, ApprovedAlive, Fresh, evidence, clock,
           Begin, GateBegin
  <2>. QED BY <2>1, <2>2, <2>3, <2>5, <2>6, <2>7, <2>8 DEF IInv, TypeOK
<1>4. CASE StartMonitor
  <2>1. ValuesOK'
    BY <1>4 DEF IInv, TypeOK, ValuesOK, ImageStates, Failures, Stages, Phases, ValidationModes,
           Alive, flash, gate, flags, evidence, clock, counters,
           StartMonitor
  <2>4. FlagsOK'
    BY <1>4 DEF IInv, TypeOK, FlagsOK, flash, gate, flags, evidence, clock, counters,
           StartMonitor
  <2>2. (KnownGoodKept /\ SlotsInv /\ UploadInv /\ JudgedInv /\ RollbackInv /\ ReadyInv)'
    BY <1>4 DEF IInv, TypeOK, ValuesOK, KnownGoodKept, SlotsInv, UploadInv, JudgedInv, RollbackInv,
           ReadyInv, Good, flash, gate, flags, evidence, clock, counters,
           StartMonitor
  <2>3. (WindowInv /\ ApprovedAlive)'
    BY <1>4 DEF IInv, TypeOK, ValuesOK, WindowInv, ApprovedAlive, UploadInv, RollbackInv, JudgedInv, Fresh, flash, gate, flags, evidence, clock, counters,
           StartMonitor
  <2>. QED BY <2>1, <2>2, <2>3, <2>4 DEF IInv, TypeOK
<1>5. CASE StartFails
  <2>1. ValuesOK'
    BY <1>5 DEF IInv, TypeOK, ValuesOK, ImageStates, Failures, Stages, Phases, ValidationModes,
           Alive, flash, gate, flags, evidence, clock, counters,
           StartFails, Fault, Rejected, Publish
  <2>4. FlagsOK'
    BY <1>5 DEF IInv, TypeOK, FlagsOK, flash, gate, flags, evidence, clock, counters,
           StartFails, Fault, Rejected, Publish
  <2>2. (KnownGoodKept /\ SlotsInv /\ UploadInv /\ JudgedInv /\ RollbackInv /\ ReadyInv)'
    BY <1>5 DEF IInv, TypeOK, ValuesOK, KnownGoodKept, SlotsInv, UploadInv, JudgedInv, RollbackInv,
           ReadyInv, Good, flash, gate, flags, evidence, clock, counters,
           StartFails, Fault, Rejected, Publish
  <2>3. (WindowInv /\ ApprovedAlive)'
    BY <1>5 DEF IInv, TypeOK, ValuesOK, WindowInv, ApprovedAlive, UploadInv, RollbackInv, JudgedInv, Fresh, flash, gate, flags, evidence, clock, counters,
           StartFails, Fault, Rejected, Publish
  <2>. QED BY <2>1, <2>2, <2>3, <2>4 DEF IInv, TypeOK
<1>6. CASE RejectAtStart
  <2>1. CASE InvalidateAndReboot
    <3>1. running = bootSlot /\ Good(Other(running))
      BY <1>6 DEF RejectAtStart, IInv, JudgedInv, RollbackInv, UploadInv
    <3>. QED BY <2>1, <3>1, RebootInv
  <2>2. CASE ~InvalidateAndReboot
    <3>1. ValuesOK'
      BY <1>6, <2>2 DEF RejectAtStart, IInv, TypeOK, ValuesOK, Failures, Stages, Phases, Alive,
             flash, gate, flags, evidence, clock, counters, Fault, NoFault, Publish
    <3>2. FlagsOK'
      BY <1>6, <2>2 DEF RejectAtStart, IInv, TypeOK, FlagsOK, flash, gate, flags, evidence, clock, counters
    <3>3. (KnownGoodKept /\ SlotsInv /\ UploadInv)'
      <4>1. UNCHANGED <<flash, running, uploading, stateReadOk>> /\ stage # "off" /\ stage # "loop"
        BY <1>6, <2>2 DEF RejectAtStart, IInv, flags
      <4>2. stage' \notin {"off", "loop"}
        BY <1>6, <2>2, <4>1 DEF RejectAtStart, mvars
      <4>. QED
        BY <4>1, <4>2 DEF IInv, KnownGoodKept, SlotsInv, UploadInv, Good, flash
    <3>5. (JudgedInv /\ RollbackInv /\ ReadyInv)'
      BY <1>6, <2>2 DEF RejectAtStart, IInv, UploadInv, JudgedInv, RollbackInv, ReadyInv, flash, gate, flags, evidence, clock, counters
    <3>4. (WindowInv /\ ApprovedAlive)'
      BY <1>6, <2>2 DEF RejectAtStart, IInv, RollbackInv, WindowInv, ApprovedAlive, Fresh, flash, gate, flags, evidence, clock, counters
    <3>. QED BY <3>1, <3>2, <3>3, <3>4, <3>5 DEF IInv, TypeOK
  <2>. QED BY <2>1, <2>2
<1>7. CASE HaltReported
  <2>1. ValuesOK'
    BY <1>7 DEF IInv, TypeOK, ValuesOK, ImageStates, Failures, Stages, Phases, ValidationModes,
           Alive, flash, gate, flags, evidence, clock, counters,
           HaltReported
  <2>4. FlagsOK'
    BY <1>7 DEF IInv, TypeOK, FlagsOK, flash, gate, flags, evidence, clock, counters,
           HaltReported
  <2>2. (KnownGoodKept /\ SlotsInv /\ UploadInv /\ JudgedInv /\ RollbackInv /\ ReadyInv)'
    BY <1>7 DEF IInv, TypeOK, ValuesOK, KnownGoodKept, SlotsInv, UploadInv, JudgedInv, RollbackInv,
           ReadyInv, Good, flash, gate, flags, evidence, clock, counters,
           HaltReported
  <2>3. (WindowInv /\ ApprovedAlive)'
    BY <1>7 DEF IInv, TypeOK, ValuesOK, WindowInv, ApprovedAlive, UploadInv, RollbackInv, JudgedInv, Fresh, flash, gate, flags, evidence, clock, counters,
           HaltReported
  <2>. QED BY <2>1, <2>2, <2>3, <2>4 DEF IInv, TypeOK
<1>8. CASE HaltSilently
  <2>1. ValuesOK'
    BY <1>8 DEF IInv, TypeOK, ValuesOK, ImageStates, Failures, Stages, Phases, ValidationModes,
           Alive, flash, gate, flags, evidence, clock, counters,
           HaltSilently
  <2>4. FlagsOK'
    BY <1>8 DEF IInv, TypeOK, FlagsOK, flash, gate, flags, evidence, clock, counters,
           HaltSilently
  <2>2. (KnownGoodKept /\ SlotsInv /\ UploadInv /\ JudgedInv /\ RollbackInv /\ ReadyInv)'
    BY <1>8 DEF IInv, TypeOK, ValuesOK, KnownGoodKept, SlotsInv, UploadInv, JudgedInv, RollbackInv,
           ReadyInv, Good, flash, gate, flags, evidence, clock, counters,
           HaltSilently
  <2>3. (WindowInv /\ ApprovedAlive)'
    BY <1>8 DEF IInv, TypeOK, ValuesOK, WindowInv, ApprovedAlive, UploadInv, RollbackInv, JudgedInv, Fresh, flash, gate, flags, evidence, clock, counters,
           HaltSilently
  <2>. QED BY <2>1, <2>2, <2>3, <2>4 DEF IInv, TypeOK
<1>9. CASE CompleteSetup
  <2>1. ValuesOK'
    BY <1>9 DEF IInv, TypeOK, ValuesOK, ImageStates, Failures, Stages, Phases, ValidationModes,
           Alive, flash, gate, flags, evidence, clock, counters,
           CompleteSetup
  <2>4. FlagsOK'
    BY <1>9 DEF IInv, TypeOK, FlagsOK, flash, gate, flags, evidence, clock, counters,
           CompleteSetup
  <2>2. (KnownGoodKept /\ SlotsInv /\ UploadInv /\ JudgedInv /\ RollbackInv /\ ReadyInv)'
    BY <1>9 DEF IInv, TypeOK, ValuesOK, KnownGoodKept, SlotsInv, UploadInv, JudgedInv, RollbackInv,
           ReadyInv, Good, flash, gate, flags, evidence, clock, counters,
           CompleteSetup
  <2>3. (WindowInv /\ ApprovedAlive)'
    BY <1>9 DEF IInv, TypeOK, ValuesOK, WindowInv, ApprovedAlive, UploadInv, RollbackInv, JudgedInv, Fresh, flash, gate, flags, evidence, clock, counters,
           CompleteSetup
  <2>. QED BY <2>1, <2>2, <2>3, <2>4 DEF IInv, TypeOK
<1>10. CASE StampSetup
  <2>1. ValuesOK'
    BY <1>10 DEF IInv, TypeOK, ValuesOK, ImageStates, Failures, Stages, Phases, ValidationModes,
           Alive, flash, gate, flags, evidence, clock, counters,
           StampSetup
  <2>4. FlagsOK'
    BY <1>10 DEF IInv, TypeOK, FlagsOK, flash, gate, flags, evidence, clock, counters,
           StampSetup
  <2>2. (KnownGoodKept /\ SlotsInv /\ UploadInv /\ JudgedInv /\ RollbackInv /\ ReadyInv)'
    BY <1>10 DEF IInv, TypeOK, ValuesOK, KnownGoodKept, SlotsInv, UploadInv, JudgedInv, RollbackInv,
           ReadyInv, Good, flash, gate, flags, evidence, clock, counters,
           StampSetup
  <2>3. (WindowInv /\ ApprovedAlive)'
    BY <1>10 DEF IInv, TypeOK, ValuesOK, WindowInv, ApprovedAlive, UploadInv, RollbackInv, JudgedInv, Fresh, flash, gate, flags, evidence, clock, counters,
           StampSetup
  <2>. QED BY <2>1, <2>2, <2>3, <2>4 DEF IInv, TypeOK
<1>11. CASE Service
  <2>1. ValuesOK'
    BY <1>11 DEF IInv, TypeOK, ValuesOK, ImageStates, Failures, Stages, Phases, ValidationModes,
           Alive, flash, gate, flags, evidence, clock, counters,
           Service
  <2>4. FlagsOK'
    BY <1>11 DEF IInv, TypeOK, FlagsOK, flash, gate, flags, evidence, clock, counters,
           Service
  <2>2. (KnownGoodKept /\ SlotsInv /\ UploadInv /\ JudgedInv /\ RollbackInv /\ ReadyInv)'
    BY <1>11 DEF IInv, TypeOK, ValuesOK, KnownGoodKept, SlotsInv, UploadInv, JudgedInv, RollbackInv,
           ReadyInv, Good, flash, gate, flags, evidence, clock, counters,
           Service
  <2>3. (WindowInv /\ ApprovedAlive)'
    BY <1>11 DEF IInv, TypeOK, ValuesOK, WindowInv, ApprovedAlive, UploadInv, RollbackInv, JudgedInv, Fresh, flash, gate, flags, evidence, clock, counters,
           Service
  <2>. QED BY <2>1, <2>2, <2>3, <2>4 DEF IInv, TypeOK
<1>12. CASE StartUpload
  <2>1. ValuesOK'
    BY <1>12 DEF IInv, TypeOK, ValuesOK, ImageStates, Failures, Stages, Phases, ValidationModes,
           Alive, flash, gate, flags, evidence, clock, counters,
           StartUpload, UploadAllowed, BootHealthReady
  <2>4. FlagsOK'
    BY <1>12 DEF IInv, TypeOK, FlagsOK, flash, gate, flags, evidence, clock, counters,
           StartUpload, UploadAllowed, BootHealthReady
  <2>2. (KnownGoodKept /\ SlotsInv /\ UploadInv /\ JudgedInv /\ RollbackInv /\ ReadyInv)'
    BY <1>12 DEF IInv, TypeOK, ValuesOK, KnownGoodKept, SlotsInv, UploadInv, JudgedInv, RollbackInv,
           ReadyInv, Good, flash, gate, flags, evidence, clock, counters,
           StartUpload, UploadAllowed, BootHealthReady
  <2>3. (WindowInv /\ ApprovedAlive)'
    BY <1>12 DEF IInv, TypeOK, ValuesOK, WindowInv, ApprovedAlive, UploadInv, RollbackInv, JudgedInv, Fresh, flash, gate, flags, evidence, clock, counters,
           StartUpload, UploadAllowed, BootHealthReady
  <2>. QED BY <2>1, <2>2, <2>3, <2>4 DEF IInv, TypeOK
<1>13. CASE FinishUpload
  <2>1. ValuesOK'
    BY <1>13 DEF IInv, TypeOK, ValuesOK, ImageStates, Failures, Stages, Phases, ValidationModes,
           Alive, flash, gate, flags, evidence, clock, counters,
           FinishUpload
  <2>4. FlagsOK'
    BY <1>13 DEF IInv, TypeOK, FlagsOK, flash, gate, flags, evidence, clock, counters,
           FinishUpload
  <2>2. (KnownGoodKept /\ SlotsInv /\ UploadInv /\ JudgedInv /\ RollbackInv /\ ReadyInv)'
    BY <1>13 DEF IInv, TypeOK, ValuesOK, KnownGoodKept, SlotsInv, UploadInv, JudgedInv, RollbackInv,
           ReadyInv, Good, flash, gate, flags, evidence, clock, counters,
           FinishUpload
  <2>3. (WindowInv /\ ApprovedAlive)'
    BY <1>13 DEF IInv, TypeOK, ValuesOK, WindowInv, ApprovedAlive, UploadInv, RollbackInv, JudgedInv, Fresh, flash, gate, flags, evidence, clock, counters,
           FinishUpload
  <2>. QED BY <2>1, <2>2, <2>3, <2>4 DEF IInv, TypeOK
<1>14. CASE AbortUpload
  <2>1. ValuesOK'
    BY <1>14 DEF IInv, TypeOK, ValuesOK, ImageStates, Failures, Stages, Phases, ValidationModes,
           Alive, flash, gate, flags, evidence, clock, counters,
           AbortUpload
  <2>4. FlagsOK'
    BY <1>14 DEF IInv, TypeOK, FlagsOK, flash, gate, flags, evidence, clock, counters,
           AbortUpload
  <2>2. (KnownGoodKept /\ SlotsInv /\ UploadInv /\ JudgedInv /\ RollbackInv /\ ReadyInv)'
    BY <1>14 DEF IInv, TypeOK, ValuesOK, KnownGoodKept, SlotsInv, UploadInv, JudgedInv, RollbackInv,
           ReadyInv, Good, flash, gate, flags, evidence, clock, counters,
           AbortUpload
  <2>3. (WindowInv /\ ApprovedAlive)'
    BY <1>14 DEF IInv, TypeOK, ValuesOK, WindowInv, ApprovedAlive, UploadInv, RollbackInv, JudgedInv, Fresh, flash, gate, flags, evidence, clock, counters,
           AbortUpload
  <2>. QED BY <2>1, <2>2, <2>3, <2>4 DEF IInv, TypeOK
<1>15. CASE Restart
  <2>1. ValuesOK'
    BY <1>15 DEF IInv, TypeOK, ValuesOK, Slots, ImageStates, Failures, Stages, Phases, ValidationModes,
           Alive, flash, gate, flags, evidence, clock, counters,
           Restart, RamReset
  <2>4. FlagsOK'
    BY <1>15 DEF IInv, TypeOK, FlagsOK, flash, gate, flags, evidence, clock, counters,
           Restart, RamReset
  <2>2. (KnownGoodKept /\ SlotsInv /\ UploadInv /\ JudgedInv /\ RollbackInv /\ ReadyInv)'
    BY <1>15 DEF IInv, TypeOK, ValuesOK, KnownGoodKept, SlotsInv, UploadInv, JudgedInv, RollbackInv,
           ReadyInv, Good, flash, gate, flags, evidence, clock, counters,
           Restart, RamReset
  <2>3. (WindowInv /\ ApprovedAlive)'
    BY <1>15 DEF IInv, TypeOK, ValuesOK, WindowInv, ApprovedAlive, UploadInv, RollbackInv, JudgedInv, Fresh, flash, gate, flags, evidence, clock, counters,
           Restart, RamReset
  <2>. QED BY <2>1, <2>2, <2>3, <2>4 DEF IInv, TypeOK
<1>16. CASE Sample
  <2>1. ValuesOK'
    BY <1>16 DEF IInv, TypeOK, ValuesOK, ImageStates, Failures, Stages, Phases, ValidationModes,
           Alive, flash, gate, flags, evidence, clock, counters,
           Sample, mvars
  <2>4. FlagsOK'
    BY <1>16 DEF IInv, TypeOK, FlagsOK, flash, gate, flags, evidence, clock, counters,
           Sample, mvars
  <2>2. (KnownGoodKept /\ SlotsInv /\ UploadInv /\ JudgedInv /\ RollbackInv /\ ReadyInv)'
    BY <1>16 DEF IInv, TypeOK, ValuesOK, KnownGoodKept, SlotsInv, UploadInv, JudgedInv, RollbackInv,
           ReadyInv, Good, flash, gate, flags, evidence, clock, counters,
           Sample, mvars
  <2>3. (WindowInv /\ ApprovedAlive)'
    BY <1>16 DEF IInv, TypeOK, ValuesOK, WindowInv, ApprovedAlive, UploadInv, RollbackInv, JudgedInv, Fresh, flash, gate, flags, evidence, clock, counters,
           Sample, mvars
  <2>. QED BY <2>1, <2>2, <2>3, <2>4 DEF IInv, TypeOK
<1>17. CASE StartOver
  <2>1. ValuesOK'
    BY <1>17 DEF IInv, TypeOK, ValuesOK, ImageStates, Failures, Stages, Phases, ValidationModes,
           Alive, flash, gate, flags, evidence, clock, counters,
           StartOver, mvars, Judge, Verdict, EvidenceReady, Publish
  <2>4. FlagsOK'
    BY <1>17 DEF IInv, TypeOK, FlagsOK, flash, gate, flags, evidence, clock, counters,
           StartOver, mvars, Judge, Verdict, EvidenceReady, Publish
  <2>2. (KnownGoodKept /\ SlotsInv /\ UploadInv /\ JudgedInv /\ RollbackInv /\ ReadyInv)'
    BY <1>17 DEF IInv, TypeOK, ValuesOK, KnownGoodKept, SlotsInv, UploadInv, JudgedInv, RollbackInv,
           ReadyInv, Good, flash, gate, flags, evidence, clock, counters,
           StartOver, mvars, Judge, Verdict, EvidenceReady, Publish
  <2>3. (WindowInv /\ ApprovedAlive)'
    BY <1>17 DEF IInv, TypeOK, ValuesOK, WindowInv, ApprovedAlive, UploadInv, RollbackInv, JudgedInv, Fresh, flash, gate, flags, evidence, clock, counters,
           StartOver, mvars, Judge, Verdict, EvidenceReady, Publish
  <2>. QED BY <2>1, <2>2, <2>3, <2>4 DEF IInv, TypeOK
<1>18. CASE StartWindow
  <2>1. ValuesOK'
    BY <1>18 DEF IInv, TypeOK, ValuesOK, ImageStates, Failures, Stages, Phases, ValidationModes,
           Alive, flash, gate, flags, evidence, clock, counters,
           StartWindow, mvars, Judge, Verdict, EvidenceReady, Publish
  <2>4. FlagsOK'
    BY <1>18 DEF IInv, TypeOK, FlagsOK, flash, gate, flags, evidence, clock, counters,
           StartWindow, mvars, Judge, Verdict, EvidenceReady, Publish
  <2>2. (KnownGoodKept /\ SlotsInv /\ UploadInv /\ JudgedInv /\ RollbackInv /\ ReadyInv)'
    BY <1>18 DEF IInv, TypeOK, ValuesOK, KnownGoodKept, SlotsInv, UploadInv, JudgedInv, RollbackInv,
           ReadyInv, Good, flash, gate, flags, evidence, clock, counters,
           StartWindow, mvars, Judge, Verdict, EvidenceReady, Publish
  <2>3. (WindowInv /\ ApprovedAlive)'
    BY <1>18 DEF IInv, TypeOK, ValuesOK, WindowInv, ApprovedAlive, UploadInv, RollbackInv, JudgedInv, Fresh, flash, gate, flags, evidence, clock, counters,
           StartWindow, mvars, Judge, Verdict, EvidenceReady, Publish
  <2>. QED BY <2>1, <2>2, <2>3, <2>4 DEF IInv, TypeOK
<1>19. CASE ContinueWindow
  <2>1. ValuesOK'
    BY <1>19 DEF IInv, TypeOK, ValuesOK, ImageStates, Failures, Stages, Phases, ValidationModes,
           Alive, flash, gate, flags, evidence, clock, counters,
           ContinueWindow, mvars, Judge, Verdict, EvidenceReady, Publish
  <2>4. FlagsOK'
    BY <1>19 DEF IInv, TypeOK, FlagsOK, flash, gate, flags, evidence, clock, counters,
           ContinueWindow, mvars, Judge, Verdict, EvidenceReady, Publish
  <2>2. (KnownGoodKept /\ SlotsInv /\ UploadInv /\ JudgedInv /\ RollbackInv /\ ReadyInv)'
    BY <1>19 DEF IInv, TypeOK, ValuesOK, KnownGoodKept, SlotsInv, UploadInv, JudgedInv, RollbackInv,
           ReadyInv, Good, flash, gate, flags, evidence, clock, counters,
           ContinueWindow, mvars, Judge, Verdict, EvidenceReady, Publish
  <2>3. (WindowInv /\ ApprovedAlive)'
    BY <1>19 DEF IInv, TypeOK, ValuesOK, WindowInv, ApprovedAlive, UploadInv, RollbackInv, JudgedInv, Fresh, flash, gate, flags, evidence, clock, counters,
           ContinueWindow, mvars, Judge, Verdict, EvidenceReady, Publish
  <2>. QED BY <2>1, <2>2, <2>3, <2>4 DEF IInv, TypeOK
<1>20. CASE Approve
  <2>1. ValuesOK'
    BY <1>20 DEF IInv, TypeOK, ValuesOK, ImageStates, Failures, Stages, Phases, ValidationModes,
           Alive, flash, gate, flags, evidence, clock, counters,
           Approve, mvars, Judge, Verdict, EvidenceReady, Publish
  <2>4. FlagsOK'
    BY <1>20 DEF IInv, TypeOK, FlagsOK, flash, gate, flags, evidence, clock, counters,
           Approve, mvars, Judge, Verdict, EvidenceReady, Publish
  <2>2. (KnownGoodKept /\ SlotsInv /\ UploadInv /\ JudgedInv /\ RollbackInv /\ ReadyInv)'
    BY <1>20 DEF IInv, TypeOK, ValuesOK, KnownGoodKept, SlotsInv, UploadInv, JudgedInv, RollbackInv,
           ReadyInv, Good, flash, gate, flags, evidence, clock, counters,
           Approve, mvars, Judge, Verdict, EvidenceReady, Publish
  <2>3. (WindowInv /\ ApprovedAlive)'
    BY <1>20 DEF IInv, TypeOK, ValuesOK, WindowInv, ApprovedAlive, UploadInv, RollbackInv, JudgedInv, Fresh, flash, gate, flags, evidence, clock, counters,
           Approve, mvars, Judge, Verdict, EvidenceReady, Publish
  <2>. QED BY <2>1, <2>2, <2>3, <2>4 DEF IInv, TypeOK
<1>21. CASE Reject
  <2>1. ValuesOK'
    BY <1>21 DEF IInv, TypeOK, ValuesOK, ImageStates, Failures, Stages, Phases, ValidationModes,
           Alive, flash, gate, flags, evidence, clock, counters,
           Reject, mvars, Judge, Verdict, EvidenceReady, Publish, Rejected
  <2>4. FlagsOK'
    BY <1>21 DEF IInv, TypeOK, FlagsOK, flash, gate, flags, evidence, clock, counters,
           Reject, mvars, Judge, Verdict, EvidenceReady, Publish, Rejected
  <2>2. (KnownGoodKept /\ SlotsInv /\ UploadInv /\ JudgedInv /\ RollbackInv /\ ReadyInv)'
    BY <1>21 DEF IInv, TypeOK, ValuesOK, KnownGoodKept, SlotsInv, UploadInv, JudgedInv, RollbackInv,
           ReadyInv, Good, flash, gate, flags, evidence, clock, counters,
           Reject, mvars, Judge, Verdict, EvidenceReady, Publish, Rejected
  <2>3. (WindowInv /\ ApprovedAlive)'
    BY <1>21 DEF IInv, TypeOK, ValuesOK, WindowInv, ApprovedAlive, UploadInv, RollbackInv, JudgedInv, Fresh, flash, gate, flags, evidence, clock, counters,
           Reject, mvars, Judge, Verdict, EvidenceReady, Publish, Rejected
  <2>. QED BY <2>1, <2>2, <2>3, <2>4 DEF IInv, TypeOK
<1>22. CASE SaveRejection
  <2>1. ValuesOK'
    BY <1>22 DEF IInv, TypeOK, ValuesOK, ImageStates, Failures, Stages, Phases, ValidationModes,
           Alive, flash, gate, flags, evidence, clock, counters,
           SaveRejection, mvars, SaveReason, Fault, NoFault
  <2>4. FlagsOK'
    BY <1>22 DEF IInv, TypeOK, FlagsOK, flash, gate, flags, evidence, clock, counters,
           SaveRejection, mvars, SaveReason, Fault, NoFault
  <2>2. (KnownGoodKept /\ SlotsInv /\ UploadInv /\ JudgedInv /\ RollbackInv /\ ReadyInv)'
    BY <1>22 DEF IInv, TypeOK, ValuesOK, KnownGoodKept, SlotsInv, UploadInv, JudgedInv, RollbackInv,
           ReadyInv, Good, flash, gate, flags, evidence, clock, counters,
           SaveRejection, mvars, SaveReason, Fault, NoFault
  <2>3. (WindowInv /\ ApprovedAlive)'
    BY <1>22 DEF IInv, TypeOK, ValuesOK, WindowInv, ApprovedAlive, UploadInv, RollbackInv, JudgedInv, Fresh, flash, gate, flags, evidence, clock, counters,
           SaveRejection, mvars, SaveReason, Fault, NoFault
  <2>. QED BY <2>1, <2>2, <2>3, <2>4 DEF IInv, TypeOK
<1>23. CASE CheckCandidate
  <2>1. ValuesOK'
    BY <1>23 DEF IInv, TypeOK, ValuesOK, ImageStates, Failures, Stages, Phases, ValidationModes,
           Alive, flash, gate, flags, evidence, clock, counters,
           CheckCandidate, mvars, CheckRollback, RollbackPossible, Fault, NoFault, Publish
  <2>4. FlagsOK'
    BY <1>23 DEF IInv, TypeOK, FlagsOK, flash, gate, flags, evidence, clock, counters,
           CheckCandidate, mvars, CheckRollback, RollbackPossible, Fault, NoFault, Publish
  <2>2. (KnownGoodKept /\ SlotsInv /\ UploadInv /\ JudgedInv /\ RollbackInv /\ ReadyInv)'
    BY <1>23 DEF IInv, TypeOK, ValuesOK, KnownGoodKept, SlotsInv, UploadInv, JudgedInv, RollbackInv,
           ReadyInv, Good, flash, gate, flags, evidence, clock, counters,
           CheckCandidate, mvars, CheckRollback, RollbackPossible, Fault, NoFault, Publish
  <2>3. (WindowInv /\ ApprovedAlive)'
    BY <1>23 DEF IInv, TypeOK, ValuesOK, WindowInv, ApprovedAlive, UploadInv, RollbackInv, JudgedInv, Fresh, flash, gate, flags, evidence, clock, counters,
           CheckCandidate, mvars, CheckRollback, RollbackPossible, Fault, NoFault, Publish
  <2>. QED BY <2>1, <2>2, <2>3, <2>4 DEF IInv, TypeOK
<1>24. CASE Invalidate
  <2>1. CASE InvalidateAndReboot
    <3>1. running = bootSlot /\ Good(Other(running))
      BY <1>24 DEF Invalidate, IInv, JudgedInv, RollbackInv, UploadInv
    <3>. QED BY <2>1, <3>1, RebootInv
  <2>2. CASE ~InvalidateAndReboot
    <3>1. ValuesOK'
      BY <1>24, <2>2 DEF Invalidate, mvars, IInv, TypeOK, ValuesOK, Failures, Stages, Phases, Alive,
             flash, gate, flags, evidence, clock, counters, Fault, NoFault, Publish
    <3>2. FlagsOK'
      BY <1>24, <2>2 DEF Invalidate, mvars, IInv, TypeOK, FlagsOK, flash, gate, flags, evidence, clock, counters
    <3>3. (KnownGoodKept /\ SlotsInv /\ UploadInv)'
      BY <1>24, <2>2 DEF Invalidate, mvars, IInv, KnownGoodKept, SlotsInv, UploadInv, JudgedInv, Good,
             flash, gate, flags, evidence, clock, counters
    <3>5. (JudgedInv /\ RollbackInv /\ ReadyInv)'
      BY <1>24, <2>2 DEF Invalidate, mvars, IInv, UploadInv, JudgedInv, RollbackInv, ReadyInv, flash, gate, flags, evidence, clock, counters
    <3>4. (WindowInv /\ ApprovedAlive)'
      BY <1>24, <2>2 DEF Invalidate, mvars, IInv, RollbackInv, WindowInv, ApprovedAlive, Fresh, flash, gate, flags, evidence, clock, counters
    <3>. QED BY <3>1, <3>2, <3>3, <3>4, <3>5 DEF IInv, TypeOK
  <2>. QED BY <2>1, <2>2
<1>25. CASE MarkValid
  <2>1. ValuesOK'
    BY <1>25 DEF IInv, TypeOK, ValuesOK, ImageStates, Failures, Stages, Phases, ValidationModes,
           Alive, flash, gate, flags, evidence, clock, counters,
           MarkValid, mvars, Fault, NoFault
  <2>4. FlagsOK'
    BY <1>25 DEF IInv, TypeOK, FlagsOK, flash, gate, flags, evidence, clock, counters,
           MarkValid, mvars, Fault, NoFault
  <2>2. (KnownGoodKept /\ SlotsInv /\ UploadInv /\ JudgedInv /\ RollbackInv /\ ReadyInv)'
    BY <1>25 DEF IInv, TypeOK, ValuesOK, KnownGoodKept, SlotsInv, UploadInv, JudgedInv, RollbackInv,
           ReadyInv, Good, flash, gate, flags, evidence, clock, counters,
           MarkValid, mvars, Fault, NoFault
  <2>3. (WindowInv /\ ApprovedAlive)'
    BY <1>25 DEF IInv, TypeOK, ValuesOK, WindowInv, ApprovedAlive, UploadInv, RollbackInv, JudgedInv, Fresh, flash, gate, flags, evidence, clock, counters,
           MarkValid, mvars, Fault, NoFault
  <2>. QED BY <2>1, <2>2, <2>3, <2>4 DEF IInv, TypeOK
<1>26. CASE Confirm
  <2>1. ValuesOK'
    BY <1>26 DEF IInv, TypeOK, ValuesOK, ImageStates, Failures, Stages, Phases, ValidationModes,
           Alive, flash, gate, flags, evidence, clock, counters,
           Confirm, mvars, Fault, NoFault
  <2>4. FlagsOK'
    BY <1>26 DEF IInv, TypeOK, FlagsOK, flash, gate, flags, evidence, clock, counters,
           Confirm, mvars, Fault, NoFault
  <2>2. (KnownGoodKept /\ SlotsInv /\ UploadInv /\ JudgedInv /\ RollbackInv /\ ReadyInv)'
    BY <1>26 DEF IInv, TypeOK, ValuesOK, KnownGoodKept, SlotsInv, UploadInv, JudgedInv, RollbackInv,
           ReadyInv, Good, flash, gate, flags, evidence, clock, counters,
           Confirm, mvars, Fault, NoFault
  <2>3. (WindowInv /\ ApprovedAlive)'
    BY <1>26 DEF IInv, TypeOK, ValuesOK, WindowInv, ApprovedAlive, UploadInv, RollbackInv, JudgedInv, Fresh, flash, gate, flags, evidence, clock, counters,
           Confirm, mvars, Fault, NoFault
  <2>. QED BY <2>1, <2>2, <2>3, <2>4 DEF IInv, TypeOK
<1>27. CASE Unconfirmed
  <2>1. ValuesOK'
    BY <1>27 DEF IInv, TypeOK, ValuesOK, ImageStates, Failures, Stages, Phases, ValidationModes,
           Alive, flash, gate, flags, evidence, clock, counters,
           Unconfirmed, mvars, CheckRollback, RollbackPossible, Fault, NoFault, Publish
  <2>4. FlagsOK'
    BY <1>27 DEF IInv, TypeOK, FlagsOK, flash, gate, flags, evidence, clock, counters,
           Unconfirmed, mvars, CheckRollback, RollbackPossible, Fault, NoFault, Publish
  <2>2. (KnownGoodKept /\ SlotsInv /\ UploadInv /\ JudgedInv /\ RollbackInv /\ ReadyInv)'
    BY <1>27 DEF IInv, TypeOK, ValuesOK, KnownGoodKept, SlotsInv, UploadInv, JudgedInv, RollbackInv,
           ReadyInv, Good, flash, gate, flags, evidence, clock, counters,
           Unconfirmed, mvars, CheckRollback, RollbackPossible, Fault, NoFault, Publish
  <2>3. (WindowInv /\ ApprovedAlive)'
    BY <1>27 DEF IInv, TypeOK, ValuesOK, WindowInv, ApprovedAlive, UploadInv, RollbackInv, JudgedInv, Fresh, flash, gate, flags, evidence, clock, counters,
           Unconfirmed, mvars, CheckRollback, RollbackPossible, Fault, NoFault, Publish
  <2>. QED BY <2>1, <2>2, <2>3, <2>4 DEF IInv, TypeOK
<1>28. CASE SaveMarkFailure
  <2>1. ValuesOK'
    BY <1>28 DEF IInv, TypeOK, ValuesOK, ImageStates, Failures, Stages, Phases, ValidationModes,
           Alive, flash, gate, flags, evidence, clock, counters,
           SaveMarkFailure, mvars, SaveReason, Fault, NoFault
  <2>4. FlagsOK'
    BY <1>28 DEF IInv, TypeOK, FlagsOK, flash, gate, flags, evidence, clock, counters,
           SaveMarkFailure, mvars, SaveReason, Fault, NoFault
  <2>2. (KnownGoodKept /\ SlotsInv /\ UploadInv /\ JudgedInv /\ RollbackInv /\ ReadyInv)'
    BY <1>28 DEF IInv, TypeOK, ValuesOK, KnownGoodKept, SlotsInv, UploadInv, JudgedInv, RollbackInv,
           ReadyInv, Good, flash, gate, flags, evidence, clock, counters,
           SaveMarkFailure, mvars, SaveReason, Fault, NoFault
  <2>3. (WindowInv /\ ApprovedAlive)'
    BY <1>28 DEF IInv, TypeOK, ValuesOK, WindowInv, ApprovedAlive, UploadInv, RollbackInv, JudgedInv, Fresh, flash, gate, flags, evidence, clock, counters,
           SaveMarkFailure, mvars, SaveReason, Fault, NoFault
  <2>. QED BY <2>1, <2>2, <2>3, <2>4 DEF IInv, TypeOK
<1>29. CASE PowerCut
  <2>1. ValuesOK'
    BY <1>29 DEF IInv, TypeOK, ValuesOK, Slots, ImageStates, Failures, Stages, Phases, ValidationModes,
           Alive, flash, gate, flags, evidence, clock, counters,
           PowerCut, RamReset
  <2>4. FlagsOK'
    BY <1>29 DEF IInv, TypeOK, FlagsOK, flash, gate, flags, evidence, clock, counters,
           PowerCut, RamReset
  <2>2. (KnownGoodKept /\ SlotsInv /\ UploadInv /\ JudgedInv /\ RollbackInv /\ ReadyInv)'
    BY <1>29 DEF IInv, TypeOK, ValuesOK, KnownGoodKept, SlotsInv, UploadInv, JudgedInv, RollbackInv,
           ReadyInv, Good, flash, gate, flags, evidence, clock, counters,
           PowerCut, RamReset
  <2>3. (WindowInv /\ ApprovedAlive)'
    BY <1>29 DEF IInv, TypeOK, ValuesOK, WindowInv, ApprovedAlive, UploadInv, RollbackInv, JudgedInv, Fresh, flash, gate, flags, evidence, clock, counters,
           PowerCut, RamReset
  <2>. QED BY <2>1, <2>2, <2>3, <2>4 DEF IInv, TypeOK
<1>30. CASE Tick
  <2>1. ValuesOK'
    BY <1>30 DEF IInv, TypeOK, ValuesOK, ImageStates, Failures, Stages, Phases, ValidationModes,
           Alive, flash, gate, flags, evidence, clock, counters,
           Tick
  <2>4. FlagsOK'
    BY <1>30 DEF IInv, TypeOK, FlagsOK, flash, gate, flags, evidence, clock, counters,
           Tick
  <2>2. (KnownGoodKept /\ SlotsInv /\ UploadInv /\ JudgedInv /\ RollbackInv /\ ReadyInv)'
    BY <1>30 DEF IInv, TypeOK, ValuesOK, KnownGoodKept, SlotsInv, UploadInv, JudgedInv, RollbackInv,
           ReadyInv, Good, flash, gate, flags, evidence, clock, counters,
           Tick
  <2>3. (WindowInv /\ ApprovedAlive)'
    BY <1>30 DEF IInv, TypeOK, ValuesOK, WindowInv, ApprovedAlive, UploadInv, RollbackInv, JudgedInv, Fresh, flash, gate, flags, evidence, clock, counters,
           Tick
  <2>. QED BY <2>1, <2>2, <2>3, <2>4 DEF IInv, TypeOK
<1>31. CASE UNCHANGED vars
  BY <1>31 DEF vars, flash, gate, flags, evidence, clock, counters, IInv, TypeOK, ValuesOK, FlagsOK, KnownGoodKept, SlotsInv, UploadInv, JudgedInv,
         RollbackInv, ReadyInv, WindowInv, ApprovedAlive, Good, Fresh
<1>. QED
  BY <1>1, <1>2, <1>3, <1>4, <1>5, <1>6, <1>7, <1>8, <1>9, <1>10, <1>11, <1>12, <1>13, <1>14, <1>15, <1>16, <1>17, <1>18, <1>19, <1>20, <1>21, <1>22, <1>23, <1>24, <1>25, <1>26, <1>27, <1>28, <1>29, <1>30, <1>31 DEF Next, MainStep, MonitorStep

\* Every state of every behaviour satisfies the inductive invariant, and so
\* has the declared types.
THEOREM Invariant == Spec => []IInv
  BY InitIInv, NextIInv, PTL DEF Spec

\* Whatever is uploaded, fails or is cut off, a known good image remains.
THEOREM AlwaysKnownGood == Spec => []KnownGoodKept
  <1>1. IInv => KnownGoodKept BY DEF IInv
  <1>. QED BY <1>1, Invariant, PTL

\* The device calls itself ready only when its image is durably valid.
THEOREM AlwaysReadyMeansDurable == Spec => []ReadyMeansDurable
  <1>1. IInv => ReadyMeansDurable
    BY DEF IInv, UploadInv, RollbackInv, ReadyInv, ReadyMeansDurable, BootHealthReady
  <1>. QED BY <1>1, Invariant, PTL

\* No image is approved behind a stalled main loop.
THEOREM AlwaysApprovedAlive == Spec => []ApprovedAlive
  <1>1. IInv => ApprovedAlive BY DEF IInv
  <1>. QED BY <1>1, Invariant, PTL
=============================================================================
