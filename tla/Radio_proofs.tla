----------------------------- MODULE Radio_proofs -----------------------------
(***************************************************************************)
(* Proofs about the radio.                                                  *)
(*                                                                          *)
(* ConnectAttempt has an inductive invariant of its own (AttemptInv); from  *)
(* it follow its safety properties and the refinement.                      *)
(*                                                                          *)
(* RadioControl: TypeOK holds whoever gives the commands.  The properties   *)
(* need the user commands to come from the main loop, and the main loop to  *)
(* find room in the queue; RadioInvariant says with which invariant.  Its   *)
(* step goes by actor:                                                      *)
(*   the other tasks     every step of theirs is Noticed, and NoticeKeeps   *)
(*   calls of the loop   MainEnqueue, MainCancels, MainRecords, MainLooks,  *)
(*                       MainDecides                                        *)
(*   the loop's turns    MainAsks (controls and link), MainReceives (the    *)
(*                       queue), MainPlays (the player)                     *)
(* The lemmas on sequences of commands come first: Added and Taken say what *)
(* an enqueue and a receive do to every order the invariant speaks of.      *)
(*                                                                          *)
(* The room is proved at the end under a condition on the notices of the    *)
(* other tasks, that three places are free when one comes (CalmInv), from   *)
(* what the main loop does to its load.                                     *)
(***************************************************************************)
EXTENDS RadioInvariant, ConnectAttempt, SequenceTheorems, FiniteSetTheorems, TLAPS

-----------------------------------------------------------------------------
(* The connection attempt.                                                  *)

\* The states of the attempt before any call satisfy the invariant.
LEMMA AttemptStarts == AttemptInit => AttemptInv
  BY DEF AttemptInit, AttemptInv, AttemptTypeOK, Agree, Allocated, Owned, Left, Remembered, States, Active, Canceling

\* A cancellation, whoever asks for it, keeps the invariant as long as it
\* leaves the caller where the invariant allows it.
LEMMA CancelMoves ==
  ASSUME AttemptInv
  PROVE  /\ RequestCancel(state) \in States
         /\ RequestCancel(state) \in Active <=> state \in Active
         /\ state \in Canceling => RequestCancel(state) = state
         /\ state \notin Active => RequestCancel(state) = state
  BY DEF AttemptInv, AttemptTypeOK, States, Active, Canceling, RequestCancel

\* Every step of the caller, of the worker and of the tasks that cancel keeps
\* the invariant.
LEMMA AttemptSteps == AttemptInv /\ [AttemptNext]_attemptVars => AttemptInv'
<1> USE DEF AttemptInv, AttemptTypeOK, Agree, Allocated, Owned, Left, Remembered, States, Active, Canceling
<1> SUFFICES ASSUME AttemptInv, [AttemptNext]_attemptVars PROVE AttemptInv'
  OBVIOUS
<1>0. CASE RefuseHost \/ ConnectDirectly
  BY <1>0 DEF RefuseHost, ConnectDirectly
<1>1. CASE ResolutionError \/ Enter
  <2>1. caller = "out" /\ state' = state /\ socket' \in {socket, "closed"}
    BY <1>1, CancelMoves DEF ResolutionError, Enter, Cancel
  <2>2. accepted' \in BOOLEAN /\ (accepted' => accepted \/ state \in Canceling)
    BY <1>1, <2>1, CancelMoves DEF ResolutionError, Enter, Cancel
  <2>3. CASE ResolutionError
    BY <2>1, <2>2, <2>3 DEF ResolutionError
  <2>4. CASE Enter
    BY <2>1, <2>2, <2>4 DEF Enter
  <2> QED
    BY <1>1, <2>3, <2>4
<1>2. CASE BeginAttempt
  BY <1>2 DEF BeginAttempt
<1>3. CASE RefuseAttempt
  BY <1>3 DEF RefuseAttempt
<1>4. CASE Spawn
  BY <1>4 DEF Spawn
<1>5. CASE NoWorker
  BY <1>5 DEF NoWorker
<1>6. CASE Alone
  BY <1>6 DEF Alone
<1>7. CASE Leave
  BY <1>7 DEF Leave
<1>8. CASE Stay
  BY <1>8 DEF Stay
<1>9. CASE Sleep
  BY <1>9 DEF Sleep
<1>10. CASE Expire
  BY <1>10 DEF Expire, Cancel, RequestCancel
<1>11. CASE AfterExpiry
  BY <1>11 DEF AfterExpiry
<1>12. CASE Return
  BY <1>12 DEF Return
<1>13. CASE Connect
  <2>1. CASE connected' = TRUE
    BY <1>13, <2>1 DEF Connect
  <2>2. CASE connected' = FALSE
    BY <1>13, <2>2 DEF Connect
  <2> QED
    BY <1>13, <2>1, <2>2 DEF Connect
<1>14. CASE Finalize
  BY <1>14 DEF Finalize, Finalizing
<1>15. CASE Cleanup
  BY <1>15 DEF Cleanup
<1>16. CASE Publish
  <2>1. CASE state = "FinalizingCanceled"
    BY <1>16, <2>1 DEF Publish
  <2>2. CASE state = "FinalizingSuccess"
    <3>1. socket = "open"
      BY <1>16, <2>2 DEF Publish
    <3> QED
      BY <1>16, <2>2, <3>1 DEF Publish
  <2>3. CASE state = "FinalizingFailure"
    BY <1>16, <2>3 DEF Publish
  <2> QED
    BY <1>16, <2>1, <2>2, <2>3 DEF Publish
<1>17. CASE Reject
  BY <1>17 DEF Reject
<1>18. CASE Store
  BY <1>18 DEF Store
<1>19. CASE CancelPendingConnection
  BY <1>19 DEF CancelPendingConnection, Cancel, RequestCancel
<1>20. CASE UNCHANGED attemptVars
  BY <1>20 DEF attemptVars
<1> QED
  BY <1>0, <1>1, <1>2, <1>3, <1>4, <1>5, <1>6, <1>7, <1>8, <1>9, <1>10, <1>11, <1>12, <1>13,
     <1>14, <1>15, <1>16, <1>17, <1>18, <1>19, <1>20 DEF AttemptNext, CallerStep, WorkerStep

\* The state of the attempt always says where its thread is, whose the
\* connection is, and whether it was cancelled.
THEOREM AttemptInvariant == ConnectSpec => []AttemptInv
  BY AttemptStarts, AttemptSteps, PTL DEF ConnectSpec

\* Every variable keeps its type.
THEOREM AttemptTyped == ConnectSpec => []AttemptTypeOK
  BY AttemptInvariant, PTL DEF AttemptInv

\* A cancellation that was accepted is never answered by a connection.
THEOREM CancelIsHonoured == ConnectSpec => []CancelHonoured
<1>1. AttemptInv => CancelHonoured
  BY DEF AttemptInv, Remembered, CancelHonoured, Canceling
<1> QED
  BY <1>1, AttemptInvariant, PTL

\* A connection that the caller is told of is open and its own.
THEOREM ConnectionHandedOver == ConnectSpec => []HandedOver
<1>1. AttemptInv => HandedOver
  BY DEF AttemptInv, AttemptTypeOK, Agree, Owned, HandedOver, Active, Canceling
<1> QED
  BY <1>1, AttemptInvariant, PTL

\* An attempt that is over leaves no parameters and no stray connection.
THEOREM NothingLeftBehind == ConnectSpec => []NothingLeft
<1>1. AttemptInv => NothingLeft
  BY DEF AttemptInv, AttemptTypeOK, Agree, Allocated, Owned, NothingLeft, Active, Canceling
<1> QED
  BY <1>1, AttemptInvariant, PTL

\* complete is entered and publishes only in the states it handles.
THEOREM CompletedOnce == ConnectSpec => []NeverInvalid
<1>1. AttemptInv => NeverInvalid
  BY DEF AttemptInv, Agree, NeverInvalid
<1> QED
  BY <1>1, AttemptInvariant, PTL

\* Only the worker that rejects a connection, or the loop when no worker runs,
\* closes one; or a URL that cannot be used, under a worker that was given up.
LEMMA StepCloses ==
  ASSUME AttemptInv, [AttemptNext]_attemptVars, socket = "open", socket' = "closed"
  PROVE  worker \in {"reject", "none"} \/ (ResolutionError /\ state \in Canceling)
<1>0. CASE ResolutionError
  <2>1. state \in Canceling \/ state \notin Active
    BY <1>0 DEF ResolutionError, AttemptInv, Left
  <2>2. state \notin Active => worker = "none"
    BY DEF AttemptInv, Agree
  <2> QED
    BY <1>0, <2>1, <2>2
<1>1. CASE Enter
  BY <1>1 DEF Enter, AttemptInv, Agree
<1>2. CASE Connect
  BY <1>2 DEF Connect
<1>3. CASE Reject
  BY <1>3 DEF Reject
<1>4. CASE UNCHANGED socket
  BY <1>4
<1>5. CASE ConnectDirectly
  BY <1>5 DEF ConnectDirectly
<1> QED
  BY <1>0, <1>1, <1>2, <1>3, <1>4, <1>5
     DEF AttemptNext, CallerStep, WorkerStep, CancelPendingConnection, RefuseHost, BeginAttempt, RefuseAttempt, Spawn, NoWorker, Alone, Leave, Stay,
         Sleep, Expire, AfterExpiry, Return, Finalize, Cleanup, Publish, Store, attemptVars

\* A connection is closed by its worker, or by the loop when no worker runs,
\* or it is the one of a given-up attempt and the next URL cannot be used.
THEOREM AlwaysClosedByOwner == ConnectSpec => ClosedByOwner
<1>1. AttemptInv /\ [AttemptNext]_attemptVars =>
         [socket = "open" /\ socket' = "closed" =>
             worker \in {"reject", "none"} \/ (ResolutionError /\ state \in Canceling)]_attemptVars
  BY StepCloses
<1> QED
  BY <1>1, AttemptInvariant, PTL DEF ConnectSpec, ClosedByOwner

-----------------------------------------------------------------------------
(* Refinement.                                                              *)

\* The initial states of the attempt are those of its abstraction.
LEMMA InitRefines == AttemptInit => Attempt!Init
  BY DEF AttemptInit, Attempt!Init, Phase, Canceling

\* A step of the attempt is a step of its abstraction, or a stutter.
LEMMA StepRefines == AttemptInv /\ [AttemptNext]_attemptVars => [Attempt!Next]_Phase
<1> USE DEF Phase, Attempt!Next, Attempt!Start, Attempt!Doom, Attempt!Succeed, Attempt!Fail, Attempt!Over
<1> USE DEF AttemptInv, AttemptTypeOK, Agree, States, Active, Canceling
<1> SUFFICES ASSUME AttemptInv, [AttemptNext]_attemptVars PROVE [Attempt!Next]_Phase
  OBVIOUS
<1>1. CASE BeginAttempt
  BY <1>1 DEF BeginAttempt
<1>2. CASE Expire \/ CancelPendingConnection \/ ResolutionError \/ Enter
  BY <1>2 DEF Expire, CancelPendingConnection, ResolutionError, Enter, Cancel, RequestCancel
<1>3. CASE Finalize
  BY <1>3 DEF Finalize, Finalizing
<1>4. CASE Publish
  BY <1>4 DEF Publish
<1>5. CASE Store
  BY <1>5 DEF Store
<1>6. CASE RefuseHost \/ ConnectDirectly \/ RefuseAttempt \/ Spawn \/ NoWorker \/ Alone \/ Leave \/ Stay \/ Sleep \/ AfterExpiry \/ Return
  <2>1. UNCHANGED state
    BY <1>6 DEF RefuseHost, ConnectDirectly, RefuseAttempt, Spawn, NoWorker, Alone, Leave, Stay, Sleep, AfterExpiry, Return
  <2> QED
    BY <2>1
<1>7. CASE Connect \/ Cleanup \/ Reject \/ UNCHANGED attemptVars
  <2>1. UNCHANGED state
    BY <1>7 DEF Connect, Cleanup, Reject, attemptVars
  <2> QED
    BY <2>1
<1> QED
  BY <1>1, <1>2, <1>3, <1>4, <1>5, <1>6, <1>7 DEF AttemptNext, CallerStep, WorkerStep

\* The compare-and-swap protocol implements an attempt with one verdict.
THEOREM AttemptRefines == ConnectSpec => AttemptSpec
  BY InitRefines, StepRefines, AttemptInvariant, PTL DEF ConnectSpec, AttemptSpec, Attempt!Spec

-----------------------------------------------------------------------------
(* Sequences of commands.                                                   *)

\* A command added at the end is the last of its kinds.
LEMMA Added ==
  ASSUME NEW q \in Seq(Commands), NEW c \in Commands
  PROVE  LET more == Append(q, c)
         IN  /\ more \in Seq(Commands) /\ Len(more) = Len(q) + 1
             /\ \A types : Holds(more, types) <=> Holds(q, types) \/ c.type \in types
             /\ \A types, stations :
                   Carry(more, types, stations) <=>
                       Carry(q, types, stations) /\ (c.type \in types => c.station \in stations)
             /\ \A wins, loses :
                   EndsIn(more, wins, loses) <=>
                       c.type \in wins \/ (EndsIn(q, wins, loses) /\ c.type \notin loses)
             /\ \A d, types : LastOf(q, d, types) /\ c.type \notin types => LastOf(more, d, types)
             /\ \A types : LastOf(more, c, types)
             /\ ResumeFirst(q) /\ (c.type = "RESUME" => ~Holds(q, Starters)) => ResumeFirst(more)
  <1> DEFINE more == Append(q, c)
  <1>1. /\ more \in Seq(Commands) /\ Len(more) = Len(q) + 1 /\ Len(q) \in Nat
        /\ more[Len(q) + 1] = c /\ \A i \in 1 .. Len(q) : more[i] = q[i]
    BY AppendProperties
  <1> HIDE DEF more
  <1>2. ASSUME NEW types PROVE Holds(more, types) <=> Holds(q, types) \/ c.type \in types
    BY <1>1 DEF Holds
  <1>3. ASSUME NEW types, NEW stations
        PROVE  Carry(more, types, stations) <=>
                   Carry(q, types, stations) /\ (c.type \in types => c.station \in stations)
    BY <1>1 DEF Carry
  <1>4. ASSUME NEW wins, NEW loses
        PROVE  EndsIn(more, wins, loses) <=> c.type \in wins \/ (EndsIn(q, wins, loses) /\ c.type \notin loses)
    <2> DEFINE n == Len(q) + 1
    <2>1. /\ n \in 1 .. Len(more) /\ ~(n < n) /\ more[n] = c
          /\ \A j \in 1 .. Len(more) : j = n \/ j \in 1 .. Len(q)
          /\ \A i \in 1 .. Len(q) : i \in 1 .. Len(more) /\ i < n /\ ~(n < i) /\ more[i] = q[i]
      BY <1>1
    <2> HIDE DEF n
    <2>2. c.type \in wins => EndsIn(more, wins, loses)
      BY <2>1 DEF EndsIn
    <2>3. EndsIn(q, wins, loses) /\ c.type \notin loses => EndsIn(more, wins, loses)
      BY <2>1 DEF EndsIn
    <2>4. EndsIn(more, wins, loses) => c.type \in wins \/ (EndsIn(q, wins, loses) /\ c.type \notin loses)
      BY <2>1 DEF EndsIn
    <2>. QED BY <2>2, <2>3, <2>4
  <1>5. ASSUME NEW d, NEW types, LastOf(q, d, types), c.type \notin types PROVE LastOf(more, d, types)
    BY <1>1, <1>5 DEF LastOf
  <1>6. ASSUME NEW types PROVE LastOf(more, c, types)
    BY <1>1 DEF LastOf
  <1>7. ResumeFirst(q) /\ (c.type = "RESUME" => ~Holds(q, Starters)) => ResumeFirst(more)
    BY <1>1 DEF ResumeFirst, Holds, Starters
  <1>. QED BY <1>1, <1>2, <1>3, <1>4, <1>5, <1>6, <1>7 DEF more

\* A command taken from the front leaves the order of the others.
LEMMA Taken ==
  ASSUME NEW q \in Seq(Commands), q # <<>>
  PROVE  LET c == Head(q)
             rest == Tail(q)
         IN  /\ c \in Commands /\ rest \in Seq(Commands) /\ Len(rest) = Len(q) - 1
             /\ \A types : Holds(q, types) <=> Holds(rest, types) \/ c.type \in types
             /\ \A types, stations :
                   Carry(q, types, stations) <=>
                       Carry(rest, types, stations) /\ (c.type \in types => c.station \in stations)
             /\ \A wins, loses :
                   EndsIn(q, wins, loses) <=>
                       EndsIn(rest, wins, loses) \/ (c.type \in wins /\ ~Holds(rest, loses))
             /\ \A d, types : LastOf(q, d, types) => LastOf(rest, d, types) \/ (c = d /\ ~Holds(rest, types))
             /\ ResumeFirst(q) => ResumeFirst(rest) /\ (c.type \in Starters => ~Holds(rest, {"RESUME"}))
  <1> DEFINE rest == Tail(q)
             c == Head(q)
  <1>1. /\ c \in Commands /\ rest \in Seq(Commands) /\ Len(rest) = Len(q) - 1 /\ Len(q) \in Nat /\ Len(q) > 0
        /\ c = q[1] /\ \A i \in 1 .. Len(rest) : rest[i] = q[i + 1]
    BY HeadTailProperties, EmptySeq, LenProperties
  <1> HIDE DEF rest, c
  <1>a. \A i \in 1 .. Len(q) : i # 1 => i - 1 \in 1 .. Len(rest) /\ q[i] = rest[i - 1]
    BY <1>1
  <1>b. \A i \in 1 .. Len(rest) : i + 1 \in 1 .. Len(q) /\ i + 1 # 1 /\ rest[i] = q[i + 1]
    BY <1>1
  <1>c. q[1] = c /\ 1 \in 1 .. Len(q) /\ Len(q) \in Nat /\ Len(rest) \in Nat
    BY <1>1
  <1>2. ASSUME NEW types PROVE Holds(q, types) <=> Holds(rest, types) \/ c.type \in types
    <2>1. Holds(q, types) => Holds(rest, types) \/ c.type \in types
      BY <1>a, <1>c DEF Holds
    <2>2. Holds(rest, types) \/ c.type \in types => Holds(q, types)
      BY <1>b, <1>c DEF Holds
    <2>. QED BY <2>1, <2>2
  <1>3. ASSUME NEW types, NEW stations
        PROVE  Carry(q, types, stations) <=>
                   Carry(rest, types, stations) /\ (c.type \in types => c.station \in stations)
    <2>1. Carry(q, types, stations) => Carry(rest, types, stations) /\ (c.type \in types => c.station \in stations)
      BY <1>b, <1>c DEF Carry
    <2>2. Carry(rest, types, stations) /\ (c.type \in types => c.station \in stations) => Carry(q, types, stations)
      BY <1>a, <1>c DEF Carry
    <2>. QED BY <2>1, <2>2
  <1>4. ASSUME NEW wins, NEW loses
        PROVE  EndsIn(q, wins, loses) <=> EndsIn(rest, wins, loses) \/ (c.type \in wins /\ ~Holds(rest, loses))
    <2>1. ASSUME EndsIn(rest, wins, loses) PROVE EndsIn(q, wins, loses)
      <3>1. PICK i \in 1 .. Len(rest) :
               rest[i].type \in wins /\ \A j \in 1 .. Len(rest) : i < j => rest[j].type \notin loses
        BY <2>1 DEF EndsIn
      <3>2. ASSUME NEW j \in 1 .. Len(q), i + 1 < j PROVE q[j].type \notin loses
        <4>1. j - 1 \in 1 .. Len(rest) /\ i < j - 1 /\ q[j] = rest[j - 1]
          BY <1>a, <1>c, <3>2
        <4>. QED BY <3>1, <4>1
      <3>. QED BY <1>b, <3>1, <3>2 DEF EndsIn
    <2>2. ASSUME c.type \in wins, ~Holds(rest, loses) PROVE EndsIn(q, wins, loses)
      <3>1. ASSUME NEW j \in 1 .. Len(q), 1 < j PROVE q[j].type \notin loses
        <4>1. j - 1 \in 1 .. Len(rest) /\ q[j] = rest[j - 1]
          BY <1>a, <1>c, <3>1
        <4>. QED BY <2>2, <4>1 DEF Holds
      <3>. QED BY <1>c, <2>2, <3>1 DEF EndsIn
    <2>3. ASSUME EndsIn(q, wins, loses) PROVE EndsIn(rest, wins, loses) \/ (c.type \in wins /\ ~Holds(rest, loses))
      <3>1. PICK i \in 1 .. Len(q) :
               q[i].type \in wins /\ \A j \in 1 .. Len(q) : i < j => q[j].type \notin loses
        BY <2>3 DEF EndsIn
      <3>2. ASSUME NEW j \in 1 .. Len(rest), i < j + 1 PROVE rest[j].type \notin loses
        BY <1>b, <3>1, <3>2
      <3>3. CASE i = 1
        <4>1. \A j \in 1 .. Len(rest) : i < j + 1
          BY <1>c, <3>3
        <4>. QED BY <1>c, <3>1, <3>2, <3>3, <4>1 DEF Holds
      <3>4. CASE i # 1
        <4> DEFINE k == i - 1
        <4>1. k \in 1 .. Len(rest) /\ rest[k].type \in wins
          BY <1>a, <3>1, <3>4
        <4>2. \A j \in 1 .. Len(rest) : k < j => rest[j].type \notin loses
          BY <1>c, <3>2
        <4> HIDE DEF k
        <4>. QED BY <1>c, <4>1, <4>2 DEF EndsIn
      <3>. QED BY <3>3, <3>4
    <2>. QED BY <2>1, <2>2, <2>3
  <1>5. ASSUME NEW d, NEW types, LastOf(q, d, types)
        PROVE  LastOf(rest, d, types) \/ (c = d /\ ~Holds(rest, types))
    <2>1. PICK i \in 1 .. Len(q) : q[i] = d /\ \A j \in 1 .. Len(q) : i < j => q[j].type \notin types
      BY <1>5 DEF LastOf
    <2>2. ASSUME NEW j \in 1 .. Len(rest), i < j + 1 PROVE rest[j].type \notin types
      BY <1>b, <2>1, <2>2
    <2>3. CASE i = 1
      <3>1. \A j \in 1 .. Len(rest) : i < j + 1
        BY <1>c, <2>3
      <3>. QED BY <1>c, <2>1, <2>2, <2>3, <3>1 DEF Holds
    <2>4. CASE i # 1
      <3> DEFINE k == i - 1
      <3>1. k \in 1 .. Len(rest) /\ rest[k] = d
        BY <1>a, <2>1, <2>4
      <3>2. \A j \in 1 .. Len(rest) : k < j => rest[j].type \notin types
        BY <1>c, <2>2
      <3> HIDE DEF k
      <3>. QED BY <1>c, <3>1, <3>2 DEF LastOf
    <2>. QED BY <2>3, <2>4
  <1>6. ASSUME ResumeFirst(q) PROVE ResumeFirst(rest) /\ (c.type \in Starters => ~Holds(rest, {"RESUME"}))
    <2>1. ResumeFirst(rest)
      <3>1. \A i \in 1 .. Len(rest) : i + 1 \in 1 .. Len(q) /\ rest[i] = q[i + 1]
        BY <1>1
      <3>2. \A i, j \in 1 .. Len(rest) : i + 1 <= j + 1 <=> i <= j
        BY <1>1
      <3>. QED BY <1>6, <3>1, <3>2 DEF ResumeFirst
    <2>2. c.type \in Starters => ~Holds(rest, {"RESUME"})
      <3>1. SUFFICES ASSUME c.type \in Starters, NEW i \in 1 .. Len(rest), rest[i].type = "RESUME" PROVE FALSE
        BY DEF Holds
      <3>2. i + 1 \in 1 .. Len(q) /\ 1 \in 1 .. Len(q) /\ q[i + 1].type = "RESUME" /\ q[1].type \in Starters /\ ~(i + 1 <= 1)
        BY <1>1, <3>1
      <3>. QED BY <1>6, <3>2 DEF ResumeFirst
    <2>. QED BY <2>1, <2>2
  <1>. QED BY <1>1, <1>2, <1>3, <1>4, <1>5, <1>6 DEF rest, c

\* The empty sequence, and those a call of the main loop sends.
LEMMA None ==
  /\ Len(<<>>) = 0 /\ <<>> \in Seq(Commands) /\ ResumeFirst(<<>>)
  /\ \A types : ~Holds(<<>>, types)
  /\ \A types, stations : Carry(<<>>, types, stations)
  /\ \A wins, loses : ~EndsIn(<<>>, wins, loses)
  BY DEF Holds, Carry, EndsIn, ResumeFirst

LEMMA One ==
  ASSUME NEW c \in Commands
  PROVE  /\ <<c>> \in Seq(Commands) /\ <<c>> # <<>> /\ Head(<<c>>) = c /\ Tail(<<c>>) = <<>>
         /\ \A types : Holds(<<c>>, types) <=> c.type \in types
         /\ \A types, stations : Carry(<<c>>, types, stations) <=> (c.type \in types => c.station \in stations)
  <1>1. Len(<<c>>) = 1 /\ <<c>>[1] = c /\ \A i \in 1 .. 1 : i = 1
    OBVIOUS
  <1>. QED BY <1>1 DEF Holds, Carry

LEMMA Two ==
  ASSUME NEW c \in Commands, NEW d \in Commands
  PROVE  /\ <<c, d>> \in Seq(Commands) /\ <<c, d>> # <<>> /\ Head(<<c, d>>) = c /\ Tail(<<c, d>>) = <<d>>
         /\ \A types : Holds(<<c, d>>, types) <=> c.type \in types \/ d.type \in types
         /\ \A types, stations :
               Carry(<<c, d>>, types, stations) <=>
                   (c.type \in types => c.station \in stations) /\ (d.type \in types => d.station \in stations)
  <1>1. Len(<<c, d>>) = 2 /\ <<c, d>>[1] = c /\ <<c, d>>[2] = d /\ \A i \in 1 .. 2 : i = 1 \/ i = 2
    OBVIOUS
  <1>. QED BY <1>1 DEF Holds, Carry

-----------------------------------------------------------------------------
(* Types.                                                                   *)

\* The commands there are.
LEMMA CommandsTyped ==
  /\ \A type \in {"PLAY", "STOP", "SUSPEND", "RESUME", "OFFLINE", "ONLINE", "BURL"} :
        Command(type) \in Commands /\ Command(type).type = type /\ Command(type).station = NoStation
  /\ \A s \in Stations \cup {NoStation} :
        /\ Play(s) \in Commands /\ Play(s).type = "PLAY" /\ Play(s).station = s
        /\ ResumeOf(s) \in Commands /\ ResumeOf(s).type = "RESUME" /\ ResumeOf(s).station = s
  BY DEF Command, Play, ResumeOf, Commands

\* What is to be sent is sent, and nothing is left to send otherwise.
LEMMA SendingTyped ==
  ASSUME NEW todo \in Seq(Commands), NEW reason \in Reasons, Carry(todo, Starters, Stations)
  PROVE  CallTyped(Sending(todo, reason))
  <1>1. CASE todo = <<>>
    BY <1>1, None DEF Sending, Idle, CallTyped, Calls, Reasons
  <1>2. CASE todo # <<>>
    BY <1>2 DEF Sending, CallTyped, Calls
  <1>. QED BY <1>1, <1>2

LEMMA IdleTyped == CallTyped(Idle)
  BY None DEF Idle, CallTyped, Calls, Reasons

LEMMA PopTyped ==
  ASSUME TypeInv, NEW p \in Callers, call[p].at \in {"send", "cancel", "record"}
  PROVE  CallTyped(Pop(p)) /\ Head(call[p].todo) \in Commands
         /\ (Head(call[p].todo).type \in Starters => Head(call[p].todo).station \in Stations)
  <1> DEFINE todo == call[p].todo
  <1>1. todo \in Seq(Commands) /\ todo # <<>> /\ Carry(todo, Starters, Stations) /\ call[p].reason \in Reasons
    BY DEF TypeInv, CallsTyped, CallTyped, Calls
  <1> HIDE DEF todo
  <1>2. /\ Tail(todo) \in Seq(Commands) /\ Carry(Tail(todo), Starters, Stations)
        /\ Head(todo) \in Commands /\ (Head(todo).type \in Starters => Head(todo).station \in Stations)
    BY <1>1, Taken
  <1>3. CallTyped(Sending(Tail(todo), call[p].reason))
    BY <1>1, <1>2, SendingTyped
  <1>. QED BY <1>2, <1>3 DEF todo, Pop

\* A task that goes on leaves the calls of the others.
LEMMA GoesTyped ==
  ASSUME TypeInv, NEW p \in Callers, NEW c, CallTyped(c), Goes(p, c)
  PROVE  call' \in [Callers -> Calls] /\ \A r \in Callers : CallTyped(call[r])'
  <1>1. call \in [Callers -> Calls] /\ call' = [call EXCEPT ![p] = c] /\ c \in Calls
    BY DEF TypeInv, CallsTyped, CallTyped, Goes
  <1>2. ASSUME NEW r \in Callers PROVE CallTyped(call'[r])
    BY <1>1, <1>2 DEF TypeInv, CallsTyped
  <1>. QED BY <1>1, <1>2 DEF CallTyped

LEMMA TypeInit == Init => TypeInv
  <1> SUFFICES ASSUME Init PROVE ValuesTyped /\ FlagsTyped /\ QueueTyped /\ CallsTyped
    BY DEF TypeInv
  <1>1. ValuesTyped
    BY DEF Init, ValuesTyped, Links, Sources, InitialSource, Temporaries, NoTemporary
  <1>4. FlagsTyped
    BY DEF Init, FlagsTyped
  <1>2. QueueTyped
    BY QueueAssumption, None DEF Init, QueueTyped
  <1>3. CallsTyped
    BY IdleTyped DEF Init, CallsTyped, CallTyped
  <1>. QED BY <1>1, <1>2, <1>3, <1>4

USE DEF At, control, player, network, history

\* What a change of source sends.
LEMMA DecidedCalls ==
  ASSUME NEW p, Decide(p), ResumeStation(source, lastStation) \in Stations
  PROVE  LET stop == UserStop(source)
             suspend == Suspend(source, call[p].seen)
             resume == Resume(source, call[p].reason)
             again == ResumeOf(ResumeStation(source, lastStation))
             decides(todo) == Goes(p, Sending(todo, call[p].reason))
         IN  /\ ~(stop /\ suspend)
             /\ ~stop /\ ~suspend /\ ~resume => decides(<<>>)
             /\ stop /\ ~resume => decides(<<Command("STOP")>>)
             /\ suspend /\ ~resume => decides(<<Command("SUSPEND")>>)
             /\ ~stop /\ ~suspend /\ resume => decides(<<again>>)
             /\ stop /\ resume => decides(<<Command("STOP"), again>>)
             /\ suspend /\ resume => decides(<<Command("SUSPEND"), again>>)
  <1> DEFINE stop == UserStop(source)
             suspend == Suspend(source, call[p].seen)
             resume == Resume(source, call[p].reason)
             again == ResumeOf(ResumeStation(source, lastStation))
             first == IF stop THEN <<Command("STOP")>> ELSE <<>>
             second == IF suspend THEN <<Command("SUSPEND")>> ELSE <<>>
             third == IF resume THEN <<again>> ELSE <<>>
  <1>1. Goes(p, Sending(first \o second \o third, call[p].reason))
    BY DEF Decide, ResetQueue, ResumeOf
  <1>2. ~(stop /\ suspend)
    BY DEF UserStop, Suspend
  <1>3. /\ Command("STOP") \in Commands /\ Command("SUSPEND") \in Commands /\ again \in Commands
    BY CommandsTyped
  <1> HIDE DEF stop, suspend, resume, again
  <1>4. \A c \in Commands : <<c>> \o <<>> = <<c>> /\ <<>> \o <<c>> = <<c>>
    OBVIOUS
  <1>5. ASSUME NEW c \in Commands, NEW d \in Commands PROVE <<c>> \o <<d>> = <<c, d>>
    <2>1. <<c>> \in Seq(Commands) /\ <<c, d>> = Append(<<c>>, d)
      OBVIOUS
    <2>. QED BY <2>1, AppendIsConcat
  <1>6. <<>> \o <<>> = <<>>
    OBVIOUS
  <1>7. ~stop /\ ~suspend /\ ~resume => first \o second \o third = <<>>
    BY <1>6
  <1>8. stop /\ ~resume => first \o second \o third = <<Command("STOP")>>
    BY <1>2, <1>3, <1>4
  <1>9. suspend /\ ~resume => first \o second \o third = <<Command("SUSPEND")>>
    BY <1>2, <1>3, <1>4
  <1>10. ~stop /\ ~suspend /\ resume => first \o second \o third = <<again>>
    BY <1>3, <1>4, <1>6
  <1>11. stop /\ resume => first \o second \o third = <<Command("STOP"), again>>
    BY <1>2, <1>3, <1>4, <1>5
  <1>12. suspend /\ resume => first \o second \o third = <<Command("SUSPEND"), again>>
    BY <1>2, <1>3, <1>4, <1>5
  <1>. QED BY <1>1, <1>2, <1>7, <1>8, <1>9, <1>10, <1>11, <1>12 DEF stop, suspend, resume, again

\* The calls of a task.
LEMMA CallStepTyped == ASSUME TypeInv, NEW p \in Callers, CallStep(p) PROVE TypeInv'
<1>a. ValuesTyped /\ FlagsTyped /\ QueueTyped /\ CallsTyped /\ CallTyped(call[p])
  BY DEF TypeInv, CallsTyped
<1>1. CASE Enqueue(p)
  <2> DEFINE command == Head(call[p].todo)
  <2>1. CallTyped(Pop(p)) /\ command \in Commands /\ (command.type \in Starters => command.station \in Stations)
    BY <1>1, PopTyped DEF Enqueue
  <2>2. CallTyped([call[p] EXCEPT !.at = "cancel"])
    BY <1>a, <1>1 DEF Enqueue, CallTyped, Calls
  <2>3. CallsTyped'
    BY <1>1, <2>1, <2>2, GoesTyped DEF Enqueue, CallsTyped
  <2>4. QueueTyped'
    <3>1. CASE Len(queue) < QueueSize /\ queue' = Append(queue, command)
      <4>1. queue' \in Seq(Commands) /\ Len(queue') = Len(queue) + 1 /\ Carry(queue', Starters, Stations)
        BY <1>a, <2>1, <3>1, Added DEF QueueTyped
      <4>. QED BY <1>a, <3>1, <4>1, QueueAssumption, LenProperties DEF QueueTyped
    <3>2. CASE queue' = queue
      BY <1>a, <3>2 DEF QueueTyped
    <3>. QED BY <1>1, <3>1, <3>2 DEF Enqueue
  <2>5. ValuesTyped'
    BY <1>a, <1>1, <2>1 DEF Enqueue, ValuesTyped, Commands
  <2>6. FlagsTyped'
    <3>1. asked' \in BOOLEAN
      BY <1>a, <1>1 DEF Enqueue, FlagsTyped
    <3>. QED BY <1>a, <1>1, <3>1 DEF Enqueue, FlagsTyped
  <2>. QED BY <2>3, <2>4, <2>5, <2>6 DEF TypeInv
<1>2. CASE CancelPending(p)
  <2>1. CallTyped(Pop(p)) /\ CallTyped([call[p] EXCEPT !.at = "record"])
    BY <1>a, <1>2, PopTyped DEF CancelPending, CallTyped, Calls
  <2>2. CallsTyped'
    BY <1>2, <2>1, GoesTyped DEF CancelPending, CallsTyped
  <2>3. ValuesTyped'
    BY <1>a, <1>2 DEF CancelPending, ValuesTyped
  <2>f. FlagsTyped'
    BY <1>a, <1>2 DEF CancelPending, FlagsTyped
  <2>q. QueueTyped'
    BY <1>a, <1>2 DEF CancelPending, QueueTyped
  <2>. QED BY <2>2, <2>3, <2>f, <2>q DEF TypeInv
<1>3. CASE RecordIntent(p)
  <2>1. CallTyped(Pop(p)) /\ Head(call[p].todo) \in Commands
    BY <1>3, PopTyped DEF RecordIntent
  <2>2. CallsTyped'
    BY <1>3, <2>1, GoesTyped DEF RecordIntent, CallsTyped
  <2>3. ValuesTyped'
    BY <1>a, <1>3, <2>1 DEF RecordIntent, ValuesTyped, Commands, Sources, RecordCommand
  <2>f. FlagsTyped'
    BY <1>a, <1>3, <2>1 DEF RecordIntent, FlagsTyped
  <2>q. QueueTyped'
    BY <1>a, <1>3, <2>1 DEF RecordIntent, QueueTyped
  <2>. QED BY <2>2, <2>3, <2>f, <2>q DEF TypeInv
<1>4. CASE Look(p)
  <2>1. ASSUME NEW b \in BOOLEAN PROVE CallTyped([call[p] EXCEPT !.at = "decide", !.seen = b])
    BY <1>a DEF CallTyped, Calls
  <2>2. (playing \/ stream # "none") \in BOOLEAN
    OBVIOUS
  <2>3. CallsTyped'
    BY <1>4, <2>1, <2>2, IdleTyped, GoesTyped DEF Look, CallsTyped
  <2>4. ValuesTyped'
    BY <1>a, <1>4 DEF Look, ValuesTyped
  <2>f. FlagsTyped'
    BY <1>a, <1>4 DEF Look, FlagsTyped
  <2>q. QueueTyped'
    BY <1>a, <1>4 DEF Look, QueueTyped
  <2>. QED BY <2>3, <2>4, <2>f, <2>q DEF TypeInv
<1>5. CASE Decide(p)
  <2> DEFINE s == ResumeStation(source, lastStation)
  <2>0. s \in Stations
    BY <1>a DEF ValuesTyped, Sources, ResumeStation
  <2>1. \E todo \in Seq(Commands) : Goes(p, Sending(todo, call[p].reason)) /\ Carry(todo, Starters, Stations)
    <3>1. /\ Command("STOP") \in Commands /\ Command("STOP").type = "STOP"
          /\ Command("SUSPEND") \in Commands /\ Command("SUSPEND").type = "SUSPEND"
          /\ ResumeOf(s) \in Commands /\ ResumeOf(s).station \in Stations
      BY <2>0, CommandsTyped
    <3>2. \A todo \in {<<>>, <<Command("STOP")>>, <<Command("SUSPEND")>>, <<ResumeOf(s)>>,
                       <<Command("STOP"), ResumeOf(s)>>, <<Command("SUSPEND"), ResumeOf(s)>>} :
             todo \in Seq(Commands) /\ Carry(todo, Starters, Stations)
      <4>1. \A c \in {Command("STOP"), Command("SUSPEND"), ResumeOf(s)} :
               c \in Commands /\ (c.type \in Starters => c.station \in Stations)
        BY <3>1 DEF Starters
      <4>2. \A c \in {Command("STOP"), Command("SUSPEND"), ResumeOf(s)} :
               <<c>> \in Seq(Commands) /\ Carry(<<c>>, Starters, Stations)
        BY <4>1, One
      <4>3. \A c, d \in {Command("STOP"), Command("SUSPEND"), ResumeOf(s)} :
               <<c, d>> \in Seq(Commands) /\ Carry(<<c, d>>, Starters, Stations)
        BY <4>1, Two
      <4>. QED BY <4>2, <4>3, None
    <3>. QED BY <1>5, <2>0, <3>2, DecidedCalls
  <2>2. call[p].reason \in Reasons
    BY <1>a DEF CallTyped, Calls
  <2>3. CallsTyped'
    <3>1. PICK todo \in Seq(Commands) : Goes(p, Sending(todo, call[p].reason)) /\ Carry(todo, Starters, Stations)
      BY <2>1
    <3>2. CallTyped(Sending(todo, call[p].reason))
      BY <2>2, <3>1, SendingTyped
    <3>. QED BY <3>1, <3>2, GoesTyped DEF CallsTyped
  <2>4. ValuesTyped'
    BY <1>a, <1>5, QueueAssumption, None DEF Decide, ResetQueue, ValuesTyped
  <2>f. FlagsTyped'
    BY <1>a, <1>5, QueueAssumption, None DEF Decide, ResetQueue, FlagsTyped
  <2>q. QueueTyped'
    BY <1>a, <1>5, QueueAssumption, None DEF Decide, ResetQueue, QueueTyped
  <2>. QED BY <2>3, <2>4, <2>f, <2>q DEF TypeInv
<1>. QED BY <1>1, <1>2, <1>3, <1>4, <1>5 DEF CallStep

\* A user's command, or an announcement.
LEMMA SendTyped ==
  ASSUME TypeInv, NEW p \in Callers, NEW type \in {"PLAY", "STOP", "BURL"}, NEW s \in Stations \cup {NoStation},
         s \in Stations \/ type # "PLAY",
         NEW command, command = [type |-> type, station |-> s], Goes(p, Sending(<<command>>, "none"))
  PROVE  CallsTyped'
  <1>1. command \in Commands /\ command.type = type /\ command.station = s
    BY DEF Commands
  <1>2. <<command>> \in Seq(Commands) /\ Carry(<<command>>, Starters, Stations) /\ "none" \in Reasons
    BY <1>1, One DEF Starters, Reasons
  <1>. QED BY <1>2, SendingTyped, GoesTyped DEF CallsTyped

LEMMA UserTyped ==
  ASSUME TypeInv, NEW p \in Callers,
         UserStep(p) \/ Announce(p) \/ NoControls
  PROVE  TypeInv'
<1>a. ValuesTyped /\ FlagsTyped /\ QueueTyped /\ CallsTyped /\ CallTyped(call[p])
  BY DEF TypeInv, CallsTyped
<1>1. ASSUME NEW command, Send(p, command), lastStation' \in Stations,
             \/ \E s \in Stations : command = Play(s)
             \/ command = Command("STOP")
      PROVE  TypeInv'
  <2>1. CallsTyped'
    BY <1>1, SendTyped DEF Send, Play, Command
  <2>2. ValuesTyped'
    BY <1>a, <1>1 DEF Send, Free, ValuesTyped
  <2>3. FlagsTyped'
    BY <1>a, <1>1 DEF Send, FlagsTyped
  <2>4. QueueTyped'
    BY <1>a, <1>1 DEF Send, QueueTyped
  <2>. QED BY <2>1, <2>2, <2>3, <2>4 DEF TypeInv
<1>2. CASE \E s \in Stations : PlayStation(p, s) \/ Step(p, s)
  BY <1>a, <1>1, <1>2 DEF PlayStation, Step, ValuesTyped
<1>3. CASE Stop(p)
  BY <1>a, <1>1, <1>3 DEF Stop, ValuesTyped
<1>4. CASE Toggle(p)
  BY <1>a, <1>1, <1>4 DEF Toggle, ValuesTyped
<1>5. CASE SelectOther(p)
  <2>1. CallTyped(Changed("manual"))
    BY IdleTyped DEF Changed, Idle, CallTyped, Calls, Reasons, Busy
  <2>2. CallsTyped'
    BY <1>5, <2>1, GoesTyped DEF SelectOther, CallsTyped
  <2>3. ValuesTyped'
    BY <1>a, <1>5 DEF SelectOther, Free, ValuesTyped, Sources, Cycle, Other
  <2>4. FlagsTyped'
    BY <1>a, <1>5 DEF SelectOther, FlagsTyped
  <2>5. QueueTyped'
    BY <1>a, <1>5 DEF SelectOther, QueueTyped
  <2>. QED BY <2>2, <2>3, <2>4, <2>5 DEF TypeInv
<1>6. CASE Announce(p)
  <2>1. CallsTyped'
    BY <1>6, SendTyped DEF Announce, Command
  <2>3. ValuesTyped'
    BY <1>a, <1>6 DEF Announce, Free, ValuesTyped
  <2>4. FlagsTyped'
    BY <1>a, <1>6 DEF Announce, FlagsTyped
  <2>5. QueueTyped'
    BY <1>a, <1>6 DEF Announce, QueueTyped
  <2>. QED BY <2>1, <2>3, <2>4, <2>5 DEF TypeInv
<1>7. CASE NoControls
  <2>1. ValuesTyped' /\ QueueTyped'
    BY <1>a, <1>7 DEF NoControls, ValuesTyped, QueueTyped
  <2>2. FlagsTyped'
    BY <1>a, <1>7 DEF NoControls, FlagsTyped
  <2>3. CallsTyped'
    BY <1>a, <1>7 DEF NoControls, CallsTyped
  <2>. QED BY <2>1, <2>2, <2>3 DEF TypeInv
<1>. QED BY <1>2, <1>3, <1>4, <1>5, <1>6, <1>7 DEF UserStep

\* The Wi-Fi event task.
LEMMA WifiTyped == ASSUME TypeInv, WifiStep PROVE TypeInv'
<1>a. ValuesTyped /\ FlagsTyped /\ QueueTyped /\ CallsTyped /\ "wifi" \in Callers
  BY DEF TypeInv, Callers
<1>b. /\ CallTyped(Idle) /\ CallTyped([Idle EXCEPT !.at = "got"])
      /\ CallTyped([Idle EXCEPT !.at = "lost", !.seen = Busy(temp)])
      /\ CallTyped(Sending(<<Command("OFFLINE")>>, "none")) /\ CallTyped(Sending(<<Command("ONLINE")>>, "none"))
  <2>1. \A c \in {Command("OFFLINE"), Command("ONLINE")} : c \in Commands /\ c.type \notin Starters
    BY CommandsTyped DEF Starters
  <2>2. \A c \in {Command("OFFLINE"), Command("ONLINE")} : <<c>> \in Seq(Commands) /\ Carry(<<c>>, Starters, Stations)
    BY <2>1, One
  <2>3. \A c \in {Command("OFFLINE"), Command("ONLINE")} : CallTyped(Sending(<<c>>, "none"))
    BY <2>2, SendingTyped DEF Reasons
  <2>. QED BY <2>3, IdleTyped DEF CallTyped, Idle, Calls, Busy
<1>1. CASE WifiLost
  <2>1. CallsTyped'
    BY <1>a, <1>b, <1>1, GoesTyped DEF WifiLost, CallsTyped
  <2>2. ValuesTyped'
    BY <1>a, <1>1 DEF WifiLost, ValuesTyped, Temporaries, Signal
  <2>3. FlagsTyped'
    BY <1>a, <1>1 DEF WifiLost, FlagsTyped
  <2>4. QueueTyped'
    BY <1>a, <1>1 DEF WifiLost, QueueTyped
  <2>. QED BY <2>1, <2>2, <2>3, <2>4 DEF TypeInv
<1>2. CASE WifiLostDecide
  <2>1. CallsTyped'
    BY <1>a, <1>b, <1>2, GoesTyped DEF WifiLostDecide, CallsTyped
  <2>2. ValuesTyped' /\ QueueTyped'
    BY <1>a, <1>2 DEF WifiLostDecide, ValuesTyped, QueueTyped
  <2>3. FlagsTyped'
    <3>1. lostPlaying' \in BOOLEAN
      BY <1>a, <1>2 DEF WifiLostDecide, FlagsTyped
    <3>. QED BY <1>a, <1>2, <3>1 DEF WifiLostDecide, FlagsTyped
  <2>. QED BY <2>1, <2>2, <2>3 DEF TypeInv
<1>3. CASE WifiGotIp
  <2>1. CallsTyped'
    BY <1>a, <1>b, <1>3, GoesTyped DEF WifiGotIp, CallsTyped
  <2>2. ValuesTyped' /\ QueueTyped'
    BY <1>a, <1>3 DEF WifiGotIp, ValuesTyped, QueueTyped
  <2>3. FlagsTyped'
    <3>1. lostPlaying' \in BOOLEAN
      BY <1>a, <1>3 DEF WifiGotIp, FlagsTyped
    <3>. QED BY <1>a, <1>3, <3>1 DEF WifiGotIp, FlagsTyped
  <2>. QED BY <2>1, <2>2, <2>3 DEF TypeInv
<1>4. CASE WifiGotIpDecide
  <2>1. CallsTyped'
    BY <1>a, <1>b, <1>4, GoesTyped DEF WifiGotIpDecide, CallsTyped
  <2>2. ValuesTyped' /\ QueueTyped'
    BY <1>a, <1>4 DEF WifiGotIpDecide, ValuesTyped, QueueTyped
  <2>3. FlagsTyped'
    <3>1. lostPlaying' \in BOOLEAN
      BY <1>a, <1>4 DEF WifiGotIpDecide, FlagsTyped
    <3>. QED BY <1>a, <1>4, <3>1 DEF WifiGotIpDecide, FlagsTyped
  <2>. QED BY <2>1, <2>2, <2>3 DEF TypeInv
<1>. QED BY <1>1, <1>2, <1>3, <1>4 DEF WifiStep

\* The commands the main loop receives.
LEMMA ReceiveTyped == ASSUME TypeInv, Receive PROVE TypeInv'
<1>a. ValuesTyped /\ FlagsTyped /\ QueueTyped /\ CallsTyped
  BY DEF TypeInv
<1>1. CallsTyped'
  BY <1>a DEF Receive, CallsTyped
<1>2. QueueTyped'
  <2>1. CASE queue # <<>> /\ queue' = Tail(queue)
    <3>1. queue' \in Seq(Commands) /\ Len(queue') = Len(queue) - 1 /\ Carry(queue', Starters, Stations)
      BY <1>a, <2>1, Taken DEF QueueTyped
    <3>. QED BY <1>a, <3>1, QueueAssumption, LenProperties DEF QueueTyped
  <2>2. CASE queue' = queue
    BY <1>a, <2>2 DEF QueueTyped
  <2>. QED BY <2>1, <2>2 DEF Receive
<1>3. queue # <<>> /\ Head(queue).type \in Starters => Head(queue).station \in Stations
  BY <1>a, Taken DEF QueueTyped
<1>b. link' = link /\ sync' = sync /\ chosen' = chosen /\ asked' = asked /\ ready' = ready /\ beginReconnect' = beginReconnect
  BY DEF Receive
<1> DEFINE command == Head(queue)
           OthersTyped ==
             /\ source' \in Sources /\ temp' \in Temporaries /\ stream' \in {"none", "radio", "temporary"}
             /\ lastStation' \in Stations /\ tuned' \in Stations \cup {NoStation}
             /\ mainAt' \in {"url", "connect"} /\ after' \in {"controls", "url", "reconnect"}
           BitsTyped ==
             /\ url' \in BOOLEAN /\ playing' \in BOOLEAN /\ reconnect' \in BOOLEAN /\ cancelled' \in BOOLEAN
             /\ lostPlaying' \in BOOLEAN /\ quiet' \in BOOLEAN
<1>4. ASSUME queue # <<>>, command.type = "STOP", HandleStop PROVE OthersTyped /\ BitsTyped
  <2>1. OthersTyped
    BY <1>a, <1>3, <1>4 DEF HandleStop, ValuesTyped, Sources, Temporaries, Finish, StopConsumed, NoTune, Silence
  <2>2. BitsTyped
    BY <1>a, <1>4 DEF HandleStop, FlagsTyped, Busy, ResumeAllowed, Finish, StopConsumed, NoTune, Silence
  <2>. QED BY <2>1, <2>2
<1>5. ASSUME queue # <<>>, command.type = "SUSPEND", HandleSuspend PROVE OthersTyped /\ BitsTyped
  <2>1. OthersTyped
    BY <1>a, <1>3, <1>5 DEF HandleSuspend, ValuesTyped, Sources, Temporaries, NoTune, Silence
  <2>2. BitsTyped
    BY <1>a, <1>5 DEF HandleSuspend, FlagsTyped, Busy, ResumeAllowed, NoTune, Silence
  <2>. QED BY <2>1, <2>2
<1>6. ASSUME queue # <<>>, command.type = "PLAY", HandlePlay(command.station) PROVE OthersTyped /\ BitsTyped
  <2>1. OthersTyped
    BY <1>a, <1>3, <1>6 DEF HandlePlay, ValuesTyped, Sources, Temporaries, PlayConsumed, NoTune, Tune, Silence, Starters
  <2>2. BitsTyped
    BY <1>a, <1>6 DEF HandlePlay, FlagsTyped, Busy, ResumeAllowed, PlayConsumed, NoTune, Tune, Silence
  <2>. QED BY <2>1, <2>2
<1>7. ASSUME queue # <<>>, command.type = "RESUME", HandleResume(command.station) PROVE OthersTyped /\ BitsTyped
  <2>1. OthersTyped
    BY <1>a, <1>3, <1>7 DEF HandleResume, ValuesTyped, Sources, Temporaries, PlayConsumed, NoTune, Tune, Silence, Starters
  <2>2. BitsTyped
    BY <1>a, <1>7 DEF HandleResume, FlagsTyped, Busy, ResumeAllowed, PlayConsumed, NoTune, Tune, Silence
  <2>. QED BY <2>1, <2>2
<1>8. ASSUME queue # <<>>, command.type = "OFFLINE", HandleOffline PROVE OthersTyped /\ BitsTyped
  <2>1. OthersTyped
    BY <1>a, <1>3, <1>8 DEF HandleOffline, ValuesTyped, Sources, Temporaries, Schedule, NoTune, Silence
  <2>2. BitsTyped
    BY <1>a, <1>8 DEF HandleOffline, FlagsTyped, Busy, ResumeAllowed, Schedule, NoTune, Silence
  <2>. QED BY <2>1, <2>2
<1>9. ASSUME queue # <<>>, command.type = "ONLINE", HandleOnline PROVE OthersTyped /\ BitsTyped
  <2>1. OthersTyped
    BY <1>a, <1>3, <1>9 DEF HandleOnline, ValuesTyped, Sources, Temporaries, Schedule, NoTune
  <2>2. BitsTyped
    BY <1>a, <1>9 DEF HandleOnline, FlagsTyped, Busy, ResumeAllowed, Schedule, NoTune
  <2>. QED BY <2>1, <2>2
<1>10. ASSUME NoTune("url"), UNCHANGED <<source, temp, url, stream, playing, lastStation, reconnect, lostPlaying>>
       PROVE  OthersTyped /\ BitsTyped
  <2>1. OthersTyped
    BY <1>a, <1>10 DEF NoTune, ValuesTyped
  <2>2. BitsTyped
    BY <1>a, <1>10 DEF NoTune, FlagsTyped
  <2>. QED BY <2>1, <2>2
<1>11. OthersTyped /\ BitsTyped
  BY <1>4, <1>5, <1>6, <1>7, <1>8, <1>9, <1>10 DEF Receive
<1>12. overtaken' \in BOOLEAN
  BY <1>a DEF Receive, FlagsTyped
<1>13. ValuesTyped'
  BY <1>a, <1>b, <1>11 DEF ValuesTyped
<1>14. FlagsTyped'
  BY <1>a, <1>b, <1>11, <1>12 DEF FlagsTyped
<1>. QED BY <1>1, <1>2, <1>13, <1>14 DEF TypeInv

\* The other steps of the main loop.
LEMMA LoopTyped ==
  ASSUME TypeInv, ObserveLink \/ SyncPlaylist \/ TakeUrl \/ Announced \/ Connected \/ Service \/ Restore \/ Retry \/ NoRetry
  PROVE  TypeInv'
<1>a. ValuesTyped /\ FlagsTyped /\ QueueTyped /\ CallsTyped /\ "main" \in Callers
  BY DEF TypeInv, Callers
<1>1. CASE ObserveLink
  <2>1. PICK l \in Links : /\ link' = l /\ source' = Observe(source, l)
                           /\ LET reason == ObserveReason(source, l)
                              IN  /\ temp' = IF reason \in {"bt_disconnect", "bt_offline"} THEN Suppress(temp) ELSE temp
                                  /\ Goes("main", IF reason = "none" THEN Idle ELSE Changed(reason))
                                  /\ asked' = (asked /\ reason = "none")
    BY <1>1 DEF ObserveLink
  <2>2. \A reason \in Reasons : CallTyped(Changed(reason))
    BY IdleTyped DEF Changed, Idle, CallTyped, Calls, Busy
  <2>3. ObserveReason(source, l) \in Reasons
    BY DEF ObserveReason, Reasons
  <2>4. CallsTyped'
    BY <1>a, <2>1, <2>2, <2>3, IdleTyped, GoesTyped DEF CallsTyped
  <2>5. ValuesTyped'
    BY <1>a, <1>1, <2>1 DEF ObserveLink, ValuesTyped, Sources, Temporaries, Observe, Other, Suppress, Busy
  <2>6. FlagsTyped'
    BY <1>a, <1>1 DEF ObserveLink, FlagsTyped
  <2>7. QueueTyped'
    BY <1>a, <1>1 DEF ObserveLink, QueueTyped
  <2>. QED BY <2>4, <2>5, <2>6, <2>7 DEF TypeInv
<1>2. CASE TakeUrl
  <2>1. CallsTyped' /\ QueueTyped'
    BY <1>a, <1>2 DEF TakeUrl, CallsTyped, QueueTyped
  <2>2. ValuesTyped'
    <3>1. Begin(temp) \in Temporaries
      BY <1>a DEF ValuesTyped, Begin, Busy, Temporaries
    <3>. QED BY <1>a, <1>2, <3>1 DEF TakeUrl, ValuesTyped
  <2>3. FlagsTyped'
    BY <1>a, <1>2 DEF TakeUrl, FlagsTyped
  <2>. QED BY <2>1, <2>2, <2>3 DEF TypeInv
<1>3. CASE Announced
  <2>1. CallsTyped' /\ QueueTyped'
    BY <1>a, <1>3 DEF Announced, CallsTyped, QueueTyped
  <2>2. ValuesTyped'
    BY <1>a, <1>3 DEF Announced, ValuesTyped, Temporaries, Signal, Connects, FailsToConnect
  <2>3. FlagsTyped'
    BY <1>a, <1>3 DEF Announced, FlagsTyped
  <2>. QED BY <2>1, <2>2, <2>3 DEF TypeInv
<1>4. CASE Connected
  <2>1. CallsTyped' /\ QueueTyped'
    BY <1>a, <1>4 DEF Connected, CallsTyped, QueueTyped
  <2>2. ValuesTyped'
    BY <1>a, <1>4 DEF Connected, ValuesTyped, Connects, FailsToConnect, Silence
  <2>3. FlagsTyped'
    BY <1>a, <1>4 DEF Connected, FlagsTyped, Schedule, Busy, ResumeAllowed, Connects, FailsToConnect, Silence
  <2>. QED BY <2>1, <2>2, <2>3 DEF TypeInv
<1>5. CASE Service
  <2>1. CallsTyped' /\ QueueTyped'
    BY <1>a, <1>5 DEF Service, CallsTyped, QueueTyped
  <2>2. ValuesTyped'
    BY <1>a, <1>5 DEF Service, ValuesTyped, ServiceTemporary, ServiceRadio, Silence, Temporaries, Finish
  <2>3. FlagsTyped'
    BY <1>a, <1>5 DEF Service, FlagsTyped, ServiceTemporary, ServiceRadio, Decoding, Silence, Schedule, Busy, ResumeAllowed
  <2>. QED BY <2>1, <2>2, <2>3 DEF TypeInv
<1>6. CASE Restore
  <2>1. CallsTyped' /\ QueueTyped'
    BY <1>a, <1>6 DEF Restore, CallsTyped, QueueTyped
  <2>2. ValuesTyped'
    BY <1>a, <1>6 DEF Restore, ValuesTyped, ResumeStation, PlayConsumed, Tune, NoTune, Silence, Sources, Temporaries
  <2>3. FlagsTyped'
    BY <1>a, <1>6 DEF Restore, FlagsTyped, Tune, NoTune, Silence
  <2>. QED BY <2>1, <2>2, <2>3 DEF TypeInv
<1>7. CASE Retry
  <2>1. CallsTyped' /\ QueueTyped'
    BY <1>a, <1>7 DEF Retry, CallsTyped, QueueTyped
  <2>2. ValuesTyped'
    BY <1>a, <1>7 DEF Retry, ValuesTyped, Tune, Silence
  <2>3. FlagsTyped'
    BY <1>a, <1>7 DEF Retry, FlagsTyped, Tune, Silence
  <2>. QED BY <2>1, <2>2, <2>3 DEF TypeInv
<1>8. CASE NoRetry
  <2>1. CallsTyped' /\ QueueTyped'
    BY <1>a, <1>8 DEF NoRetry, CallsTyped, QueueTyped
  <2>2. ValuesTyped'
    BY <1>a, <1>8 DEF NoRetry, ValuesTyped, NoTune
  <2>3. FlagsTyped'
    BY <1>a, <1>8 DEF NoRetry, FlagsTyped, NoTune, RetryAllowed, Busy, ResumeAllowed
  <2>. QED BY <2>1, <2>2, <2>3 DEF TypeInv
<1>9. CASE SyncPlaylist
  <2>1. CallsTyped' /\ QueueTyped'
    BY <1>a, <1>9 DEF SyncPlaylist, CallsTyped, QueueTyped
  <2>2. CASE SelectionGone
    <3>1. ValuesTyped'
      BY <1>a, <1>9, <2>2
      DEF SyncPlaylist, SelectionGone, ValuesTyped, Silence, Sources, Temporaries, SelectionCleared, Finish, Suppress, Busy
    <3>2. FlagsTyped'
      BY <1>a, <1>9, <2>2 DEF SyncPlaylist, SelectionGone, FlagsTyped, Silence
    <3>. QED BY <2>1, <3>1, <3>2 DEF TypeInv
  <2>3. CASE StationReread
    <3>1. ValuesTyped'
      BY <1>a, <1>9, <2>3 DEF SyncPlaylist, StationReread, ValuesTyped, Tune, NoTune, Silence
    <3>2. FlagsTyped'
      BY <1>a, <1>9, <2>3 DEF SyncPlaylist, StationReread, FlagsTyped, Tune, NoTune, Silence
    <3>. QED BY <2>1, <3>1, <3>2 DEF TypeInv
  <2>. QED BY <1>9, <2>2, <2>3 DEF SyncPlaylist
<1>. QED BY <1>1, <1>2, <1>3, <1>4, <1>5, <1>6, <1>7, <1>8, <1>9

LEMMA StepTyped == TypeInv /\ [Next]_vars => TypeInv'
<1>1. ASSUME TypeInv, Next PROVE TypeInv'
  <2>1. Operators \subseteq Callers /\ Tasks \subseteq Callers
    BY TaskAssumption DEF Callers
  <2>2. CASE MainStep
    BY <1>1, <2>2, LoopTyped, ReceiveTyped, UserTyped, "main" \in Callers DEF MainStep, Callers
  <2>3. CASE CommitPlaylist
    <3>1. ValuesTyped' /\ QueueTyped' /\ CallsTyped'
      BY <1>1, <2>3 DEF TypeInv, CommitPlaylist, ValuesTyped, QueueTyped, CallsTyped, control, player, history
    <3>2. FlagsTyped'
      BY <1>1, <2>3 DEF TypeInv, CommitPlaylist, FlagsTyped, control, player, network, history
    <3>. QED BY <3>1, <3>2 DEF TypeInv
  <2>. QED BY <1>1, <2>1, <2>2, <2>3, CallStepTyped, UserTyped, WifiTyped DEF Next
<1>2. ASSUME TypeInv, UNCHANGED vars PROVE TypeInv'
  <2>1. ValuesTyped' /\ QueueTyped' /\ CallsTyped'
    BY <1>2 DEF TypeInv, ValuesTyped, QueueTyped, CallsTyped, vars
  <2>2. FlagsTyped'
    BY <1>2 DEF TypeInv, FlagsTyped, vars
  <2>. QED BY <2>1, <2>2 DEF TypeInv
<1>. QED BY <1>1, <1>2

\* What the tasks share, the queue and the calls stay within their types,
\* whoever gives the commands and whatever is dropped at a full queue.
THEOREM RadioTypeCorrect == Spec => []TypeOK
<1>1. TypeInv => TypeOK
  <2>1. ASSUME TypeInv PROVE ValuesTyped /\ FlagsTyped /\ QueueTyped /\ CallsTyped
    BY <2>1 DEF TypeInv
  <2>. QED BY <2>1 DEF TypeOK, ValuesTyped, FlagsTyped, QueueTyped, CallsTyped
<1>. QED BY <1>1, TypeInit, StepTyped, PTL DEF Spec

-----------------------------------------------------------------------------
(* More about what a sequence holds.                                        *)

\* The last command of its kinds is there, and says how the sequence ends.
LEMMA LastFacts ==
  ASSUME NEW q \in Seq(Commands), NEW d, NEW types, LastOf(q, d, types)
  PROVE  /\ \A some : d.type \in some => Holds(q, some)
         /\ \A wins, loses : d.type \in wins /\ loses \subseteq types => EndsIn(q, wins, loses)
         /\ \A some, stations : Carry(q, some, stations) /\ d.type \in some => d.station \in stations
         /\ \A e, others : /\ LastOf(q, e, others) /\ d.type \in others /\ e.type \in types
                           => d = e
  <1>1. PICK i \in 1 .. Len(q) : q[i] = d /\ \A j \in 1 .. Len(q) : i < j => q[j].type \notin types
    BY DEF LastOf
  <1>2. \A some : d.type \in some => Holds(q, some)
    BY <1>1 DEF Holds
  <1>3. \A wins, loses : d.type \in wins /\ loses \subseteq types => EndsIn(q, wins, loses)
    BY <1>1 DEF EndsIn
  <1>4. \A some, stations : Carry(q, some, stations) /\ d.type \in some => d.station \in stations
    BY <1>1 DEF Carry
  <1>5. ASSUME NEW e, NEW others, LastOf(q, e, others), d.type \in others, e.type \in types PROVE d = e
    <2>1. PICK k \in 1 .. Len(q) : q[k] = e /\ \A j \in 1 .. Len(q) : k < j => q[j].type \notin others
      BY <1>5 DEF LastOf
    <2>2. ~(i < k) /\ ~(k < i)
      BY <1>1, <1>5, <2>1
    <2>3. i = k
      BY <2>2
    <2>. QED BY <1>1, <2>1, <2>3
  <1>. QED BY <1>2, <1>3, <1>4, <1>5

\* What is not there carries nothing.
LEMMA NotHeld == ASSUME NEW q, NEW types, ~Holds(q, types) PROVE \A stations : Carry(q, types, stations)
  BY DEF Holds, Carry

\* One kind among several.
LEMMA HeldAmong ==
  ASSUME NEW q
  PROVE  /\ Holds(q, Starters) <=> Holds(q, {"PLAY"}) \/ Holds(q, {"RESUME"})
         /\ Holds(q, Silencers) <=> Holds(q, {"STOP"}) \/ Holds(q, {"SUSPEND"})
         /\ \A wins, loses : EndsIn(q, wins, loses) => Holds(q, wins)
  BY DEF Holds, EndsIn, Starters, Silencers

\* The calls of the main loop.
LEMMA MainCallsTyped ==
  ASSUME NEW todo \in MainCalls, todo # <<>>
  PROVE  /\ todo \in Seq(Commands) /\ Head(todo) \in Commands /\ Tail(todo) \in MainCalls
         /\ Head(todo).type \in Silencers \cup Starters
         /\ Head(todo).type # "SUSPEND" => Tail(todo) = <<>>
         /\ Head(todo).type = "PLAY" => Head(todo).station \in Stations /\ Head(todo) = Play(Head(todo).station)
         /\ \A types : Holds(todo, types) <=> Holds(Tail(todo), types) \/ Head(todo).type \in types
         /\ \A types, stations :
               Carry(todo, types, stations) <=>
                   Carry(Tail(todo), types, stations) /\ (Head(todo).type \in types => Head(todo).station \in stations)
         /\ ~Holds(Tail(todo), {"STOP"}) /\ ~Holds(Tail(todo), {"SUSPEND"}) /\ ~Holds(Tail(todo), {"PLAY"})
  <1>1. ASSUME NEW c \in Commands, todo = <<c>>,
               c = Command("STOP") \/ c = Command("SUSPEND") \/ (\E s \in Stations : c = Play(s) \/ c = ResumeOf(s))
        PROVE  /\ todo \in Seq(Commands) /\ Head(todo) \in Commands /\ Tail(todo) = <<>> /\ Head(todo) = c
               /\ c.type \in Silencers \cup Starters
               /\ c.type = "PLAY" => c.station \in Stations /\ c = Play(c.station)
    BY <1>1, One DEF Silencers, Starters, Command, Play, ResumeOf
  <1>2. ASSUME NEW s \in Stations, todo = <<Command("SUSPEND"), ResumeOf(s)>>
        PROVE  /\ todo \in Seq(Commands) /\ Head(todo) = Command("SUSPEND") /\ Tail(todo) = <<ResumeOf(s)>>
               /\ Head(todo) \in Commands /\ Head(todo).type = "SUSPEND"
               /\ \A types : Holds(Tail(todo), types) <=> "RESUME" \in types
    <2>1. /\ Command("SUSPEND") \in Commands /\ Command("SUSPEND").type = "SUSPEND"
          /\ ResumeOf(s) \in Commands /\ ResumeOf(s).type = "RESUME"
      BY CommandsTyped
    <2>. QED BY <1>2, <2>1, One, Two
  <1>3. \/ \E c \in Commands :
              /\ todo = <<c>>
              /\ c = Command("STOP") \/ c = Command("SUSPEND") \/ (\E s \in Stations : c = Play(s) \/ c = ResumeOf(s))
        \/ \E s \in Stations : todo = <<Command("SUSPEND"), ResumeOf(s)>>
    BY CommandsTyped DEF MainCalls
  <1>4. todo \in Seq(Commands) /\ Head(todo) \in Commands /\ Tail(todo) \in MainCalls
    BY <1>1, <1>2, <1>3 DEF MainCalls
  <1>5. \A types : Holds(todo, types) <=> Holds(Tail(todo), types) \/ Head(todo).type \in types
    BY <1>4, Taken
  <1>6. \A types, stations :
           Carry(todo, types, stations) <=>
               Carry(Tail(todo), types, stations) /\ (Head(todo).type \in types => Head(todo).station \in stations)
    BY <1>4, Taken
  <1>7. Head(todo).type \in Silencers \cup Starters
    BY <1>1, <1>2, <1>3 DEF Silencers
  <1>8. Head(todo).type # "SUSPEND" => Tail(todo) = <<>>
    BY <1>1, <1>2, <1>3
  <1>9. Head(todo).type = "PLAY" => Head(todo).station \in Stations /\ Head(todo) = Play(Head(todo).station)
    BY <1>1, <1>2, <1>3
  <1>10. ~Holds(Tail(todo), {"STOP"}) /\ ~Holds(Tail(todo), {"SUSPEND"}) /\ ~Holds(Tail(todo), {"PLAY"})
    BY <1>1, <1>2, <1>3, None
  <1>. QED BY <1>4, <1>5, <1>6, <1>7, <1>8, <1>9, <1>10

\* A task that sends nothing.
LEMMA NothingToSend ==
  ASSUME Main.todo = <<>>
  PROVE  /\ \A type : ~Sends(type)
         /\ \A types : ~Holds(Main.todo, types)
         /\ \A types, stations : Carry(Main.todo, types, stations)
  BY None DEF Sends

LEMMA RadioInit == Init => RadioInv
  <1> SUFFICES ASSUME Init PROVE RadioInv
    OBVIOUS
  <1>1. TypeInv
    BY TypeInit
  <1>2. \A p \in Callers : call[p].at = "idle" /\ call[p].todo = <<>>
    BY DEF Init, Idle
  <1>3. Main.at = "idle" /\ Main.todo = <<>> /\ "main" \in Callers
    BY <1>2 DEF Main, Callers
  <1>4. queue = <<>> /\ stream = "none" /\ mainAt = "observe" /\ source = InitialSource /\ temp = NoTemporary
    BY DEF Init
  <1>5. OthersInv
    BY <1>2, None DEF OthersInv
  <1>6. MainInv
    BY <1>3, NothingToSend DEF MainInv, MainCalls, Changing
  <1>7. BusyInv
    BY <1>4 DEF BusyInv, Busy, Radio, NoTemporary, InitialSource
  <1>8. SilenceInv
    BY <1>4, None DEF SilenceInv, Silenced, Radio
  <1>9. SentInv /\ PlayInv /\ StationInv
    BY <1>3, <1>4 DEF SentInv, PlayInv, Plays, StationInv, InitialSource
  <1>10. QueueInv
    BY <1>3, <1>4, None, NothingToSend DEF QueueInv
  <1>. QED BY <1>1, <1>5, <1>6, <1>7, <1>8, <1>9, <1>10 DEF RadioInv, ControlInv

-----------------------------------------------------------------------------
(* The other tasks.                                                         *)

\* A step of another task, as the main loop sees it.
Noticed ==
    /\ call'["main"] = call["main"]
    /\ UNCHANGED <<source, stream, playing, lastStation, tuned, reconnect, mainAt, chosen, asked, overtaken, quiet>>
    /\ temp' \in {temp, Signal(temp)}
    /\ queue' = queue \/ \E c \in Commands : c.type \in Notices /\ queue' = Append(queue, c)

\* Who goes on, and who does not.
LEMMA Going ==
  ASSUME TypeInv, NEW p \in Callers, NEW c, Goes(p, c)
  PROVE  call'[p] = c /\ \A r \in Callers \ {p} : call'[r] = call[r]
  BY DEF TypeInv, CallsTyped, Goes

LEMMA OthersGo ==
  ASSUME TypeInv, OthersInv, NEW p \in Callers \ {"main"}, NEW c, Goes(p, c),
         c.at \notin {"look", "decide", "record"}, ~Holds(c.todo, Silencers \cup Starters)
  PROVE  OthersInv' /\ call'["main"] = call["main"]
  <1>1. call'[p] = c /\ \A r \in Callers \ {p} : call'[r] = call[r]
    BY Going
  <1>. QED BY <1>1 DEF OthersInv, Callers

LEMMA MainGoes == ASSUME TypeInv, OthersInv, NEW c, Goes("main", c) \/ call' = call PROVE OthersInv'
  <1>1. \A r \in Callers \ {"main"} : call'[r] = call[r]
    BY Going DEF Callers
  <1>. QED BY <1>1 DEF OthersInv

\* What another task sends is a notice, and it has nothing else to send.
LEMMA NoticeSent ==
  ASSUME TypeInv, OthersInv, NEW p \in Callers \ {"main"}, call[p].at \in {"send", "cancel"}
  PROVE  /\ Head(call[p].todo) \in Commands /\ Head(call[p].todo).type \in Notices
         /\ Pop(p).at \notin {"look", "decide", "record"} /\ ~Holds(Pop(p).todo, Silencers \cup Starters)
  <1> DEFINE todo == call[p].todo
  <1>1. todo \in Seq(Commands) /\ todo # <<>> /\ ~Holds(todo, Silencers \cup Starters)
    BY DEF TypeInv, CallsTyped, CallTyped, Calls, OthersInv
  <1> HIDE DEF todo
  <1>2. Head(todo) \in Commands /\ Head(todo).type \notin Silencers \cup Starters /\ ~Holds(Tail(todo), Silencers \cup Starters)
    BY <1>1, Taken
  <1>3. Head(todo).type \in Notices
    BY <1>2 DEF Commands, Silencers, Starters, Notices
  <1>4. Pop(p).at \in {"idle", "send"} /\ Pop(p).todo = Tail(todo)
    BY DEF Pop, Sending, Idle, todo
  <1>. QED BY <1>2, <1>3, <1>4 DEF todo

LEMMA NoticeStep ==
  ASSUME TypeInv, OthersInv, NEW p \in Callers \ {"main"}, CallStep(p) \/ Announce(p) \/ WifiStep
  PROVE  Noticed /\ OthersInv'
<1>1. CASE Enqueue(p)
  <2> DEFINE command == Head(call[p].todo)
  <2>1. PICK c \in {Pop(p), [call[p] EXCEPT !.at = "cancel"]} : Goes(p, c)
    BY <1>1 DEF Enqueue
  <2>2. [call[p] EXCEPT !.at = "cancel"].at = "cancel" /\ [call[p] EXCEPT !.at = "cancel"].todo = call[p].todo
    BY DEF TypeInv, CallsTyped, CallTyped, Calls
  <2>3. command \in Commands /\ command.type \in Notices
        /\ c.at \notin {"look", "decide", "record"} /\ ~Holds(c.todo, Silencers \cup Starters)
    BY <1>1, <2>2, NoticeSent DEF Enqueue, OthersInv
  <2>4. OthersInv' /\ call'["main"] = call["main"]
    BY <2>1, <2>3, OthersGo
  <2>5. queue' = queue \/ queue' = Append(queue, command)
    BY <1>1 DEF Enqueue
  <2>6. chosen' = chosen /\ asked' = asked
    BY <1>1, <2>3 DEF Enqueue, Notices
  <2>. QED BY <1>1, <2>3, <2>4, <2>5, <2>6 DEF Enqueue, Noticed
<1>2. CASE CancelPending(p)
  <2>1. Goes(p, Pop(p)) /\ Pop(p).at \notin {"look", "decide", "record"} /\ ~Holds(Pop(p).todo, Silencers \cup Starters)
    BY <1>2, NoticeSent DEF CancelPending, Notices
  <2>2. OthersInv' /\ call'["main"] = call["main"]
    BY <2>1, OthersGo
  <2>. QED BY <1>2, <2>2 DEF CancelPending, Noticed
<1>3. CASE RecordIntent(p) \/ Look(p) \/ Decide(p)
  BY <1>3 DEF RecordIntent, Look, Decide, ResetQueue, OthersInv
<1>4. CASE Announce(p)
  <2>1. Command("BURL") \in Commands /\ Command("BURL").type \notin Silencers \cup Starters
    BY CommandsTyped DEF Silencers, Starters
  <2>2. Sending(<<Command("BURL")>>, "none").at = "send" /\ Sending(<<Command("BURL")>>, "none").todo = <<Command("BURL")>>
    BY <2>1, One DEF Sending
  <2>3. OthersInv' /\ call'["main"] = call["main"]
    BY <1>4, <2>1, <2>2, One, OthersGo DEF Announce
  <2>. QED BY <1>4, <2>3 DEF Announce, Free, Noticed
<1>5. CASE WifiStep
  <2>1. "wifi" \in Callers \ {"main"}
    BY DEF Callers
  <2>2. \A c \in {Idle, [Idle EXCEPT !.at = "got"], [Idle EXCEPT !.at = "lost", !.seen = Busy(temp)],
                  Sending(<<Command("OFFLINE")>>, "none"), Sending(<<Command("ONLINE")>>, "none")} :
           c.at \notin {"look", "decide", "record"} /\ ~Holds(c.todo, Silencers \cup Starters)
    <3>1. \A c \in {Command("OFFLINE"), Command("ONLINE")} : c \in Commands /\ c.type \notin Silencers \cup Starters
      BY CommandsTyped DEF Silencers, Starters
    <3>2. \A c \in {Command("OFFLINE"), Command("ONLINE")} : <<c>> # <<>> /\ ~Holds(<<c>>, Silencers \cup Starters)
      BY <3>1, One
    <3>3. \A c \in {Idle, [Idle EXCEPT !.at = "got"], [Idle EXCEPT !.at = "lost", !.seen = Busy(temp)]} :
             c.at \notin {"look", "decide", "record"} /\ c.todo = <<>>
      <4>1. Idle.at = "idle" /\ Idle.todo = <<>>
        BY DEF Idle
      <4>2. [Idle EXCEPT !.at = "got"].at = "got" /\ [Idle EXCEPT !.at = "got"].todo = <<>>
        BY DEF Idle
      <4>3. /\ [Idle EXCEPT !.at = "lost", !.seen = Busy(temp)].at = "lost"
            /\ [Idle EXCEPT !.at = "lost", !.seen = Busy(temp)].todo = <<>>
        BY DEF Idle
      <4>. QED BY <4>1, <4>2, <4>3
    <3>4. \A c \in {Sending(<<Command("OFFLINE")>>, "none"), Sending(<<Command("ONLINE")>>, "none")} :
             c.at \notin {"look", "decide", "record"} /\ ~Holds(c.todo, Silencers \cup Starters)
      BY <3>2 DEF Sending
    <3>. QED BY <3>3, <3>4, None
  <2>3. OthersInv' /\ call'["main"] = call["main"]
    <3>1. CASE call' = call
      BY <3>1 DEF OthersInv
    <3>2. \/ call' = call
          \/ \E c \in {Idle, [Idle EXCEPT !.at = "got"], [Idle EXCEPT !.at = "lost", !.seen = Busy(temp)],
                       Sending(<<Command("OFFLINE")>>, "none"), Sending(<<Command("ONLINE")>>, "none")} : Goes("wifi", c)
      BY <1>5 DEF WifiStep, WifiLost, WifiLostDecide, WifiGotIp, WifiGotIpDecide
    <3>. QED BY <2>1, <2>2, <3>1, <3>2, OthersGo
  <2>4. UNCHANGED <<source, stream, playing, lastStation, tuned, reconnect, mainAt, chosen, asked, overtaken, quiet, queue>>
        /\ temp' \in {temp, Signal(temp)}
    BY <1>5 DEF WifiStep, WifiLost, WifiLostDecide, WifiGotIp, WifiGotIpDecide
  <2>. QED BY <2>3, <2>4 DEF Noticed
<1>. QED BY <1>1, <1>2, <1>3, <1>4, <1>5 DEF CallStep

\* A notice in the queue does not come between the commands of the main loop.
LEMMA NoticeKeeps == ASSUME TypeInv, ControlInv, Noticed PROVE ControlInv'
<1>0. MainInv /\ SentInv /\ BusyInv /\ SilenceInv /\ PlayInv /\ QueueInv /\ StationInv
  BY DEF ControlInv
<1>1. /\ Main' = Main /\ source' = source /\ stream' = stream /\ playing' = playing /\ lastStation' = lastStation
      /\ tuned' = tuned /\ reconnect' = reconnect /\ mainAt' = mainAt /\ chosen' = chosen /\ asked' = asked
      /\ overtaken' = overtaken /\ quiet' = quiet
  BY DEF Noticed, Main
<1>2. temp'.live = temp.live /\ Busy(temp') = Busy(temp)
  BY DEF Noticed, Busy, Signal, TypeInv, ValuesTyped, Temporaries
<1>3. /\ \A types : types \cap Notices = {} => (Holds(queue', types) <=> Holds(queue, types))
      /\ \A types, stations : types \cap Notices = {} => (Carry(queue', types, stations) <=> Carry(queue, types, stations))
      /\ \A wins, loses : (wins \cup loses) \cap Notices = {} => (EndsIn(queue', wins, loses) <=> EndsIn(queue, wins, loses))
      /\ \A d, types : types \cap Notices = {} /\ LastOf(queue, d, types) => LastOf(queue', d, types)
      /\ ResumeFirst(queue) => ResumeFirst(queue')
  <2>1. CASE queue' = queue
    BY <2>1
  <2>2. ASSUME NEW c \in Commands, c.type \in Notices, queue' = Append(queue, c) PROVE <1>3!:
    <3>1. queue \in Seq(Commands)
      BY DEF TypeInv, QueueTyped
    <3>2. c.type # "RESUME" /\ \A types : types \cap Notices = {} => c.type \notin types
      BY <2>2 DEF Notices
    <3>. QED BY <2>2, <3>1, <3>2, Added
  <2>. QED BY <2>1, <2>2 DEF Noticed
<1>4. /\ Holds(queue', Silencers) <=> Holds(queue, Silencers)
      /\ Holds(queue', Starters) <=> Holds(queue, Starters)
      /\ Holds(queue', {"PLAY"}) <=> Holds(queue, {"PLAY"})
      /\ Holds(queue', {"RESUME"}) <=> Holds(queue, {"RESUME"})
      /\ \A stations : Carry(queue', {"RESUME"}, stations) <=> Carry(queue, {"RESUME"}, stations)
      /\ \A stations : Carry(queue', {"PLAY"}, stations) <=> Carry(queue, {"PLAY"}, stations)
      /\ EndsIn(queue', Silencers, {"PLAY"}) <=> EndsIn(queue, Silencers, {"PLAY"})
      /\ EndsIn(queue', Starters, Silencers) <=> EndsIn(queue, Starters, Silencers)
      /\ \A d : LastOf(queue, d, {"PLAY"}) => LastOf(queue', d, {"PLAY"})
      /\ \A d : LastOf(queue, d, Silencers \cup Starters) => LastOf(queue', d, Silencers \cup Starters)
      /\ ResumeFirst(queue) => ResumeFirst(queue')
  <2>1. \A types \in {Silencers, Starters, {"PLAY"}, {"RESUME"}, Silencers \cup {"PLAY"}, Starters \cup Silencers, Silencers \cup Starters} :
           types \cap Notices = {}
    BY DEF Silencers, Starters, Notices
  <2>. QED BY <1>3, <2>1
<1>5. MainInv'
  BY <1>0, <1>1, <1>2 DEF MainInv, Changing, Sends
<1>6. SentInv'
  BY <1>0, <1>1, <1>4 DEF SentInv
<1>7. BusyInv'
  BY <1>0, <1>1, <1>2 DEF BusyInv, Radio
<1>8. SilenceInv'
  BY <1>0, <1>1, <1>2, <1>4 DEF SilenceInv, Stopped, Displaced, Silenced, Sends, Changing, Radio
<1>9. PlayInv'
  BY <1>0, <1>1, <1>2, <1>4 DEF PlayInv, Plays, Started, Sends, Changing, Radio
<1>10. QueueInv'
  BY <1>0, <1>1, <1>4 DEF QueueInv, Sends
<1>11. StationInv'
  BY <1>0, <1>1, <1>4 DEF StationInv, Sends, Resumed, Radio
<1>. QED BY <1>5, <1>6, <1>7, <1>8, <1>9, <1>10, <1>11 DEF ControlInv

-----------------------------------------------------------------------------
(* The calls of the main loop.                                              *)

LEMMA MainParts == RadioInv =>
    /\ TypeInv /\ OthersInv /\ MainInv /\ SentInv /\ BusyInv /\ SilenceInv /\ PlayInv /\ QueueInv /\ StationInv
    /\ queue \in Seq(Commands) /\ "main" \in Callers /\ Main \in Calls /\ Main.todo \in MainCalls
  BY DEF RadioInv, ControlInv, TypeInv, QueueTyped, CallsTyped, CallTyped, Main, MainInv, Callers

LEMMA MainPops ==
  ASSUME RadioInv, Goes("main", Pop("main"))
  PROVE  /\ Main'.todo = Tail(Main.todo) /\ Main'.at = IF Tail(Main.todo) = <<>> THEN "idle" ELSE "send"
  <1>1. Main' = Pop("main")
    BY MainParts, Going DEF Main
  <1> DEFINE rest == Tail(Main.todo)
  <1>2. Pop("main") = Sending(rest, Main.reason)
    BY DEF Pop, Main
  <1>3. Sending(rest, Main.reason).todo = rest /\ Sending(rest, Main.reason).at = IF rest = <<>> THEN "idle" ELSE "send"
    <2> HIDE DEF rest
    <2>. QED BY DEF Sending, Idle
  <1>. QED BY <1>1, <1>2, <1>3

\* A command of the main loop becomes the last of the queue.
LEMMA MainEnqueue == ASSUME RadioInv, Room, Enqueue("main") PROVE ControlInv'
<1> DEFINE c == Head(Main.todo)
<1>0. /\ TypeInv /\ MainInv /\ SentInv /\ BusyInv /\ SilenceInv /\ PlayInv /\ QueueInv /\ StationInv
      /\ queue \in Seq(Commands) /\ "main" \in Callers /\ Main \in Calls
  BY MainParts
<1>1. Main.at = "send" /\ Main.todo # <<>> /\ Main.todo \in MainCalls
  BY <1>0 DEF Enqueue, Main, MainInv
<1>2. /\ c \in Commands /\ c.type \in Silencers \cup Starters
      /\ \A types : Holds(Main.todo, types) <=> Holds(Tail(Main.todo), types) \/ c.type \in types
      /\ \A types, stations :
            Carry(Main.todo, types, stations) <=>
                Carry(Tail(Main.todo), types, stations) /\ (c.type \in types => c.station \in stations)
      /\ c.type = "PLAY" => c = Play(c.station)
  BY <1>1, MainCallsTyped
<1>3. /\ queue' = Append(queue, c) /\ Goes("main", [Main EXCEPT !.at = "cancel"])
      /\ c.type = "PLAY" => chosen' = c.station /\ asked' = (source.active = "bt")
      /\ c.type # "PLAY" => chosen' = chosen /\ asked' = asked
  <2>1. Len(queue) < QueueSize
    BY <1>0, <1>1 DEF Room, Main
  <2>2. c.type \in Cancelling
    BY <1>2 DEF Cancelling, Silencers, Starters
  <2>. QED BY <2>1, <2>2, <1>0, QueueAssumption, LenProperties DEF Enqueue, Main
<1>4. Main'.at = "cancel" /\ Main'.todo = Main.todo
  <2>1. Main' = [Main EXCEPT !.at = "cancel"]
    BY <1>0, <1>3, Going DEF Main
  <2>. QED BY <1>0, <2>1 DEF Calls
<1>5. UNCHANGED <<source, temp, stream, playing, lastStation, tuned, reconnect, mainAt, overtaken, quiet>>
  BY DEF Enqueue
<1>6. /\ \A types : Holds(queue', types) <=> Holds(queue, types) \/ c.type \in types
      /\ \A types, stations :
            Carry(queue', types, stations) <=>
                Carry(queue, types, stations) /\ (c.type \in types => c.station \in stations)
      /\ \A wins, loses :
            EndsIn(queue', wins, loses) <=> c.type \in wins \/ (EndsIn(queue, wins, loses) /\ c.type \notin loses)
      /\ \A d, types : LastOf(queue, d, types) /\ c.type \notin types => LastOf(queue', d, types)
      /\ \A types : LastOf(queue', c, types)
      /\ ResumeFirst(queue) /\ (c.type = "RESUME" => ~Holds(queue, Starters)) => ResumeFirst(queue')
  BY <1>0, <1>2, <1>3, Added
<1> HIDE DEF c
<1>7. \A type : Sends(type) <=> Holds(Main.todo, {type})
  BY DEF Sends
<1>8. \A type : Sends(type)' <=> Sends(type)
  BY <1>4 DEF Sends
<1>9. c.type = "PLAY" \/ c.type = "STOP" \/ c.type = "SUSPEND" \/ c.type = "RESUME"
  BY <1>2 DEF Silencers, Starters
<1>10. Sends(c.type)
  BY <1>2, <1>7
<1>11. MainInv'
  BY <1>0, <1>1, <1>4, <1>5, <1>8 DEF MainInv, Changing
<1>12. SentInv'
  BY <1>4, <1>6 DEF SentInv, c
<1>13. BusyInv'
  BY <1>0, <1>5 DEF BusyInv, Radio
<1>14. SilenceInv'
  <2>1. CASE c.type = "PLAY"
    BY <1>3, <1>5, <1>8, <1>10, <2>1 DEF SilenceInv, Stopped, Displaced
  <2>2. CASE c.type \in Silencers
    BY <1>6, <2>2 DEF SilenceInv, Silenced
  <2>3. CASE c.type = "RESUME"
    <3>1. source.active = "radio" /\ source.intent
      BY <1>0, <1>10, <2>3 DEF MainInv, ResumeAllowed
    <3>. QED BY <1>5, <3>1 DEF SilenceInv, Stopped, Displaced
  <2>. QED BY <1>9, <2>1, <2>2, <2>3 DEF Silencers
<1>15. PlayInv'
  <2>1. CASE c.type \in Starters
    BY <1>2, <1>4, <2>1 DEF PlayInv, Started
  <2>2. CASE c.type = "STOP"
    BY <1>8, <1>10, <2>2 DEF PlayInv, Plays
  <2>3. CASE c.type = "SUSPEND"
    <3>1. Plays' => Sends("RESUME")
      BY <1>0, <1>5, <1>10, <2>3 DEF MainInv, Plays, ResumeAllowed
    <3>2. Sends("RESUME") => Holds(Main'.todo, Starters)
      BY <1>4, <1>7, HeldAmong
    <3>. QED BY <3>1, <3>2 DEF PlayInv, Started
  <2>. QED BY <1>9, <2>1, <2>2, <2>3 DEF Starters
<1>16. QueueInv'
  <2>1. ResumeFirst(queue')
    BY <1>0, <1>1, <1>6, <1>10 DEF QueueInv
  <2>2. Sends("SUSPEND")' => ~Holds(queue', Starters)
    <3>1. SUFFICES ASSUME Sends("SUSPEND") PROVE ~Holds(queue', Starters)
      BY <1>8
    <3>2. c.type = "SUSPEND"
      BY <1>1, <1>2, <1>7, <3>1, MainCallsTyped
    <3>. QED BY <1>0, <1>6, <3>1, <3>2 DEF QueueInv, Starters
  <2>3. Holds(queue', {"PLAY"}) => LastOf(queue', Play(chosen'), {"PLAY"})
    BY <1>0, <1>2, <1>3, <1>6 DEF QueueInv
  <2>. QED BY <1>4, <2>1, <2>2, <2>3 DEF QueueInv
<1>17. StationInv'
  <2>1. SUFFICES ASSUME source.intent, ~Sends("PLAY") PROVE StationInv'
    BY <1>5, <1>8 DEF StationInv
  <2>2. c.type # "PLAY" /\ chosen' = chosen /\ Resumed' = Resumed
    BY <1>3, <1>5, <1>10, <2>1 DEF Resumed
  <2>3. /\ Holds(queue', {"PLAY"}) <=> Holds(queue, {"PLAY"})
        /\ \A stations : Carry(queue', {"PLAY"}, stations) <=> Carry(queue, {"PLAY"}, stations)
    BY <1>6, <2>2
  <2>4. \/ Holds(queue', {"PLAY"}) /\ (Holds(queue', {"RESUME"}) => source.station # NoStation)
        \/ Carry(queue', {"RESUME"}, Resumed)
    <3>1. CASE c.type = "RESUME"
      <4>1. ~Holds(queue, Starters)
        BY <1>0, <1>1, <1>10, <3>1 DEF QueueInv
      <4>2. Carry(queue, {"RESUME"}, Resumed)
        BY <4>1, HeldAmong, NotHeld
      <4>3. c.station \in Resumed
        BY <1>0, <1>2, <2>1, <3>1 DEF StationInv
      <4>. QED BY <1>6, <4>2, <4>3
    <3>2. CASE c.type # "RESUME"
      BY <1>0, <1>6, <2>1, <2>3, <3>2 DEF StationInv
    <3>. QED BY <3>1, <3>2
  <2>. QED BY <1>0, <1>4, <1>5, <2>1, <2>2, <2>3, <2>4 DEF StationInv, Radio
<1>. QED BY <1>11, <1>12, <1>13, <1>14, <1>15, <1>16, <1>17 DEF ControlInv

\* The cancellation of a pending connection leaves the command recorded next,
\* or goes on with the next one.
LEMMA MainCancels == ASSUME RadioInv, CancelPending("main") PROVE ControlInv'
<1> DEFINE c == Head(Main.todo)
           rest == Tail(Main.todo)
<1>0. /\ TypeInv /\ MainInv /\ SentInv /\ BusyInv /\ SilenceInv /\ PlayInv /\ QueueInv /\ StationInv
      /\ queue \in Seq(Commands) /\ "main" \in Callers /\ Main \in Calls
  BY MainParts
<1>1. Main.at = "cancel" /\ Main.todo # <<>> /\ Main.todo \in MainCalls
  BY <1>0 DEF CancelPending, Main, MainInv
<1>2. /\ c \in Commands /\ c.type \in Silencers \cup Starters /\ rest \in MainCalls
      /\ \A types : Holds(Main.todo, types) <=> Holds(rest, types) \/ c.type \in types
      /\ \A types, stations :
            Carry(Main.todo, types, stations) <=>
                Carry(rest, types, stations) /\ (c.type \in types => c.station \in stations)
      /\ c.type # "SUSPEND" => rest = <<>>
      /\ ~Holds(rest, {"STOP"}) /\ ~Holds(rest, {"SUSPEND"}) /\ ~Holds(rest, {"PLAY"})
  BY <1>1, MainCallsTyped
<1>3. UNCHANGED <<source, temp, queue, stream, playing, lastStation, tuned, reconnect, mainAt, chosen, asked,
                  overtaken, quiet>>
  BY DEF CancelPending
<1>4. LastOf(queue, c, Silencers \cup Starters)
  BY <1>0, <1>1 DEF SentInv
<1>5. \A type : Sends(type) <=> Holds(Main.todo, {type})
  BY DEF Sends
<1>6. CASE c.type \in {"PLAY", "STOP"}
  <2>1. Goes("main", [Main EXCEPT !.at = "record"])
    BY <1>6 DEF CancelPending, Main
  <2>2. Main'.at = "record" /\ Main'.todo = Main.todo
    <3>1. Main' = [Main EXCEPT !.at = "record"]
      BY <1>0, <2>1, Going DEF Main
    <3>. QED BY <1>0, <3>1 DEF Calls
  <2>3. \A type : Sends(type)' <=> Sends(type)
    BY <2>2 DEF Sends
  <2>4. Sends("PLAY") \/ Sends("STOP")
    BY <1>2, <1>5, <1>6
  <2>5. MainInv'
    BY <1>0, <1>1, <1>3, <2>2, <2>3, <2>4 DEF MainInv, Changing
  <2>6. SentInv'
    BY <1>3, <1>4, <2>2 DEF SentInv
  <2>7. BusyInv'
    BY <1>0, <1>3 DEF BusyInv, Radio
  <2>8. SilenceInv'
    BY <1>0, <1>1, <1>3, <2>2, <2>3 DEF SilenceInv, Stopped, Displaced, Silenced, Changing, Radio
  <2>9. PlayInv'
    BY <1>0, <1>1, <1>3, <2>2, <2>3 DEF PlayInv, Plays, Started, Changing, Radio
  <2>10. QueueInv'
    BY <1>0, <1>3, <2>2, <2>3 DEF QueueInv
  <2>11. StationInv'
    BY <1>0, <1>3, <2>2, <2>3 DEF StationInv, Resumed, Radio
  <2>. QED BY <2>5, <2>6, <2>7, <2>8, <2>9, <2>10, <2>11 DEF ControlInv
<1>7. CASE c.type \notin {"PLAY", "STOP"}
  <2>0. c.type = "SUSPEND" \/ c.type = "RESUME"
    BY <1>2, <1>7 DEF Silencers, Starters
  <2>1. Main'.todo = rest /\ Main'.at = IF rest = <<>> THEN "idle" ELSE "send"
    <3>1. Goes("main", Pop("main"))
      BY <1>7 DEF CancelPending, Main
    <3>. QED BY <3>1, MainPops
  <2>2. \A type : Sends(type)' <=> Holds(rest, {type})
    BY <2>1 DEF Sends
  <2>a. rest = <<>> => \A types : ~Holds(rest, types)
    BY None
  <2> HIDE DEF c, rest
  <2>3. MainInv'
    BY <1>0, <1>1, <1>2, <1>3, <1>5, <2>1, <2>2, <2>a DEF MainInv, Changing
  <2>4. SentInv'
    BY <2>1 DEF SentInv
  <2>5. BusyInv'
    BY <1>0, <1>3 DEF BusyInv, Radio
  <2>6. ~Sends("PLAY") /\ ~Sends("STOP") /\ ~Changing /\ ~Changing' /\ ~Sends("PLAY")' /\ ~Sends("STOP")'
    BY <1>1, <1>2, <1>5, <2>0, <2>1, <2>2 DEF Changing
  <2>7. SilenceInv'
    <3>1. c.type \in Silencers => EndsIn(queue, Silencers, {"PLAY"})
      <4>1. {"PLAY"} \subseteq Silencers \cup Starters
        BY DEF Starters
      <4>. QED BY <1>0, <1>4, <4>1, LastFacts
    <3>2. Holds(Main.todo, Silencers) => c.type \in Silencers
      BY <1>2, HeldAmong
    <3>3. Stopped' \/ Displaced' => Silenced
      BY <1>0, <1>3, <2>6 DEF SilenceInv, Stopped, Displaced
    <3>. QED BY <1>3, <3>1, <3>2, <3>3 DEF SilenceInv, Silenced, Radio
  <2>8. PlayInv'
    <3>1. c.type \in Starters => EndsIn(queue, Starters, Silencers)
      BY <1>0, <1>4, LastFacts
    <3>2. Holds(Main.todo, Starters) => Holds(Main'.todo, Starters) \/ c.type \in Starters
      BY <1>2, <2>1
    <3>3. Plays' <=> Plays
      BY <1>3, <2>6 DEF Plays
    <3>. QED BY <1>0, <1>3, <3>1, <3>2, <3>3 DEF PlayInv, Started, Radio
  <2>9. QueueInv'
    <3>1. Sends("RESUME")' => c.type = "SUSPEND"
      BY <1>2, <2>2, <2>a
    <3>2. c.type = "SUSPEND" => ~Holds(queue, Starters)
      BY <1>0, <1>2, <1>5 DEF QueueInv
    <3>. QED BY <1>0, <1>2, <1>3, <2>2, <3>1, <3>2 DEF QueueInv
  <2>10. StationInv'
    <3>1. \A types, stations : Carry(Main.todo, types, stations) => Carry(Main'.todo, types, stations)
      BY <1>2, <2>1
    <3>. QED BY <1>0, <1>3, <2>6, <3>1 DEF StationInv, Resumed, Radio
  <2>. QED BY <2>3, <2>4, <2>5, <2>7, <2>8, <2>9, <2>10 DEF ControlInv
<1>. QED BY <1>6, <1>7

\* The record of the user's intent: the command is still the last in the queue.
LEMMA MainRecords == ASSUME RadioInv, RecordIntent("main") PROVE ControlInv'
<1> DEFINE c == Head(Main.todo)
           rest == Tail(Main.todo)
<1>0. /\ TypeInv /\ MainInv /\ SentInv /\ BusyInv /\ SilenceInv /\ PlayInv /\ QueueInv /\ StationInv
      /\ queue \in Seq(Commands) /\ "main" \in Callers /\ Main \in Calls
  BY MainParts
<1>1. Main.at = "record" /\ Main.todo # <<>> /\ Main.todo \in MainCalls
  BY <1>0 DEF RecordIntent, Main, MainInv
<1>2. /\ c \in Commands
      /\ \A types : Holds(Main.todo, types) <=> Holds(rest, types) \/ c.type \in types
      /\ c.type # "SUSPEND" => rest = <<>>
      /\ c.type = "PLAY" => c.station \in Stations /\ c = Play(c.station)
      /\ ~Holds(rest, {"STOP"}) /\ ~Holds(rest, {"PLAY"})
  BY <1>1, MainCallsTyped
<1>3. /\ UNCHANGED <<temp, queue, stream, playing, lastStation, tuned, reconnect, mainAt, chosen, asked>>
      /\ quiet' = FALSE /\ overtaken' = FALSE
      /\ source' = RecordCommand(source, c.type = "PLAY", c.station)
  BY DEF RecordIntent, Main
<1>4. LastOf(queue, c, Silencers \cup Starters)
  BY <1>0, <1>1 DEF SentInv
<1>5. c.type = "PLAY" \/ c.type = "STOP"
  BY <1>0, <1>1, <1>2 DEF MainInv, Sends
<1>6. Main'.todo = <<>> /\ Main'.at = "idle"
  BY <1>2, <1>5, MainPops DEF RecordIntent
<1>7. /\ \A type : ~Sends(type)'
      /\ \A types : ~Holds(Main'.todo, types)
      /\ \A types, stations : Carry(Main'.todo, types, stations)
  BY <1>6, None DEF Sends
<1>8. /\ source'.active = source.active /\ source'.intent = (c.type = "PLAY") /\ source'.stop = (c.type # "PLAY")
      /\ source'.station = IF c.type = "PLAY" THEN c.station ELSE NoStation
  BY <1>0, <1>3 DEF RecordCommand, TypeInv, ValuesTyped, Sources
<1> HIDE DEF c, rest
<1>9. MainInv'
  BY <1>6, <1>7 DEF MainInv, Changing, MainCalls
<1>10. SentInv'
  BY <1>6 DEF SentInv
<1>11. BusyInv'
  BY <1>0, <1>3, <1>5, <1>8 DEF BusyInv, Radio
<1>12. ~Changing /\ ~Changing'
  BY <1>1, <1>6 DEF Changing
<1>13. SilenceInv'
  <2>1. c.type = "STOP" => EndsIn(queue, Silencers, {"PLAY"})
    <3>1. {"PLAY"} \subseteq Silencers \cup Starters /\ "STOP" \in Silencers
      BY DEF Starters, Silencers
    <3>. QED BY <1>0, <1>4, <3>1, LastFacts
  <2>2. CASE c.type = "STOP"
    BY <1>3, <2>1, <2>2 DEF SilenceInv, Silenced
  <2>3. CASE c.type = "PLAY"
    <3>1. ~Stopped' /\ (Displaced' => Displaced)
      BY <1>3, <1>8, <1>12, <2>3 DEF Stopped, Displaced
    <3>2. ~Holds(Main.todo, Silencers)
      BY <1>2, <2>3, None DEF Silencers
    <3>. QED BY <1>0, <1>3, <3>1, <3>2 DEF SilenceInv, Silenced, Radio
  <2>. QED BY <1>5, <2>2, <2>3
<1>14. PlayInv'
  <2>1. c.type = "PLAY" => EndsIn(queue, Starters, Silencers)
    BY <1>0, <1>4, LastFacts DEF Starters
  <2>. QED BY <1>3, <1>5, <1>8, <2>1 DEF PlayInv, Plays, Started
<1>15. QueueInv'
  BY <1>0, <1>3, <1>7 DEF QueueInv
<1>16. StationInv'
  <2>1. SUFFICES ASSUME c.type = "PLAY" PROVE StationInv'
    BY <1>8 DEF StationInv
  <2>2. Holds(queue, {"PLAY"}) /\ c = Play(chosen)
    <3>1. Holds(queue, {"PLAY"})
      BY <1>0, <1>4, <2>1, LastFacts
    <3>2. LastOf(queue, Play(chosen), {"PLAY"})
      BY <1>0, <3>1 DEF QueueInv
    <3>3. Play(chosen).type \in Silencers \cup Starters
      BY DEF Play, Starters
    <3>. QED BY <1>0, <1>4, <2>1, <3>1, <3>2, <3>3, LastFacts
  <2>3. source'.station = chosen /\ source'.station # NoStation
    BY <1>2, <1>8, <2>1, <2>2, StationAssumption DEF Play
  <2>. QED BY <1>3, <1>7, <2>2, <2>3 DEF StationInv
<1>. QED BY <1>9, <1>10, <1>11, <1>13, <1>14, <1>15, <1>16 DEF ControlInv

\* A look at the player during a change of source.
LEMMA MainLooks == ASSUME RadioInv, Look("main") PROVE ControlInv'
<1>0. /\ TypeInv /\ MainInv /\ SentInv /\ BusyInv /\ SilenceInv /\ PlayInv /\ QueueInv /\ StationInv
      /\ "main" \in Callers /\ Main \in Calls
  BY MainParts
<1>1. Main.at = "look" /\ Main.todo = <<>> /\ Main.seen = Busy(temp) /\ mainAt \in {"observe", "receive"}
  BY <1>0 DEF Look, Main, MainInv
<1>2. UNCHANGED <<source, temp, queue, stream, playing, lastStation, tuned, reconnect, mainAt, chosen, asked,
                  overtaken, quiet>>
  BY DEF Look
<1>3. /\ Main'.todo = <<>> /\ Main'.reason = IF Busy(temp) THEN "none" ELSE Main.reason
      /\ Main'.at = IF Busy(temp) THEN "idle" ELSE "decide"
      /\ ~Busy(temp) => Main'.seen = (playing \/ stream # "none")
  <2>1. CASE Busy(temp)
    <3>1. Main' = Idle
      BY <1>0, <2>1, Going DEF Look, Main
    <3>. QED BY <2>1, <3>1 DEF Idle
  <2>2. CASE ~Busy(temp)
    <3>1. Main' = [Main EXCEPT !.at = "decide", !.seen = playing \/ stream # "none"]
      BY <1>0, <1>1, <2>2, Going DEF Look, Main
    <3>. QED BY <1>0, <1>1, <2>2, <3>1 DEF Calls
  <2>. QED BY <2>1, <2>2
<1>4. /\ \A type : ~Sends(type)' /\ ~Sends(type)
      /\ \A types : ~Holds(Main'.todo, types) /\ ~Holds(Main.todo, types)
      /\ \A types, stations : Carry(Main'.todo, types, stations)
  BY <1>1, <1>3, None DEF Sends
<1>5. MainInv'
  BY <1>0, <1>1, <1>2, <1>3, <1>4 DEF MainInv, Changing, MainCalls
<1>6. SentInv'
  BY <1>3 DEF SentInv
<1>7. BusyInv'
  BY <1>0, <1>2 DEF BusyInv, Radio
<1>8. SilenceInv'
  <2>1. CASE Busy(temp)
    BY <1>0, <1>2, <2>1 DEF BusyInv, SilenceInv, Silenced, Radio
  <2>2. CASE ~Busy(temp)
    <3>1. Changing' /\ (Stopped' => Stopped)
      BY <1>2, <1>3, <1>4, <2>2 DEF Changing, Stopped
    <3>. QED BY <1>0, <1>2, <1>4, <3>1 DEF SilenceInv, Displaced, Silenced, Radio
  <2>. QED BY <2>1, <2>2
<1>9. PlayInv'
  BY <1>2, <1>3 DEF PlayInv, Plays, Changing
<1>10. QueueInv'
  BY <1>0, <1>2, <1>4 DEF QueueInv
<1>11. StationInv'
  BY <1>0, <1>2, <1>4 DEF StationInv, Resumed, Radio
<1>. QED BY <1>5, <1>6, <1>7, <1>8, <1>9, <1>10, <1>11 DEF ControlInv

\* The decision of a change of source: what it takes out of the queue it
\* sends again.
LEMMA MainDecides == ASSUME RadioInv, Decide("main") PROVE ControlInv'
<1> DEFINE stop == UserStop(source)
           suspend == Suspend(source, Main.seen)
           resume == Resume(source, Main.reason)
           station == ResumeStation(source, lastStation)
           again == ResumeOf(station)
           todo == Main'.todo
<1>0. /\ TypeInv /\ MainInv /\ SentInv /\ BusyInv /\ SilenceInv /\ PlayInv /\ QueueInv /\ StationInv
      /\ "main" \in Callers /\ Main \in Calls
  BY MainParts
<1>1. /\ Main.at = "decide" /\ Main.todo = <<>> /\ ~Busy(temp) /\ Main.seen = (playing \/ stream # "none")
      /\ mainAt \in {"observe", "receive"} /\ (source.active = "radio" => Main.reason \in {"manual", "bt_disconnect", "bt_offline"})
  BY <1>0 DEF Decide, ResetQueue, Main, MainInv, Changing
<1>2. /\ UNCHANGED <<source, temp, stream, playing, lastStation, tuned, reconnect, mainAt, chosen, asked, overtaken, quiet>>
      /\ queue' = <<>>
  BY DEF Decide, ResetQueue
<1>3. station \in Stations
  BY <1>0 DEF TypeInv, ValuesTyped, Sources, ResumeStation
<1>4. ~(stop /\ suspend) /\ ~(stop /\ resume) /\ (resume => ResumeAllowed(source))
      /\ (source.active = "radio" /\ source.intent => resume) /\ (Main.seen => stop \/ suspend)
  BY <1>0, <1>1 DEF UserStop, Suspend, Resume, ResumeAllowed, BusyInv
<1>5. \E sent \in MainCalls :
         /\ Goes("main", Sending(sent, Main.reason))
         /\ ~stop /\ ~suspend /\ ~resume => sent = <<>>
         /\ stop => sent = <<Command("STOP")>>
         /\ suspend /\ ~resume => sent = <<Command("SUSPEND")>>
         /\ ~suspend /\ resume => sent = <<again>>
         /\ suspend /\ resume => sent = <<Command("SUSPEND"), again>>
  <2> DEFINE decides(sent) == Goes("main", Sending(sent, Main.reason))
  <2>1. /\ ~stop /\ ~suspend /\ ~resume => decides(<<>>)
        /\ stop /\ ~resume => decides(<<Command("STOP")>>)
        /\ suspend /\ ~resume => decides(<<Command("SUSPEND")>>)
        /\ ~stop /\ ~suspend /\ resume => decides(<<again>>)
        /\ suspend /\ resume => decides(<<Command("SUSPEND"), again>>)
    BY <1>3, DecidedCalls DEF Main
  <2>2. /\ <<>> \in MainCalls /\ <<Command("STOP")>> \in MainCalls /\ <<Command("SUSPEND")>> \in MainCalls
        /\ <<again>> \in MainCalls /\ <<Command("SUSPEND"), again>> \in MainCalls
    BY <1>3 DEF MainCalls
  <2> HIDE DEF stop, suspend, resume, again, decides
  <2>3. \/ ~stop /\ ~suspend /\ ~resume
        \/ stop /\ ~suspend /\ ~resume
        \/ suspend /\ ~stop /\ ~resume
        \/ ~stop /\ ~suspend /\ resume
        \/ suspend /\ resume /\ ~stop
    BY <1>4
  <2>4. CASE ~stop /\ ~suspend /\ ~resume
    BY <2>1, <2>2, <2>4 DEF decides
  <2>5. CASE stop /\ ~suspend /\ ~resume
    BY <2>1, <2>2, <2>5 DEF decides
  <2>6. CASE suspend /\ ~stop /\ ~resume
    BY <2>1, <2>2, <2>6 DEF decides
  <2>7. CASE ~stop /\ ~suspend /\ resume
    BY <2>1, <2>2, <2>7 DEF decides
  <2>8. CASE suspend /\ resume /\ ~stop
    BY <2>1, <2>2, <2>8 DEF decides
  <2>. QED BY <2>3, <2>4, <2>5, <2>6, <2>7, <2>8
<1>6. /\ todo \in MainCalls
      /\ ~stop /\ ~suspend /\ ~resume => todo = <<>>
      /\ stop => todo = <<Command("STOP")>>
      /\ suspend /\ ~resume => todo = <<Command("SUSPEND")>>
      /\ ~suspend /\ resume => todo = <<again>>
      /\ suspend /\ resume => todo = <<Command("SUSPEND"), again>>
      /\ Main'.at = IF todo = <<>> THEN "idle" ELSE "send"
  <2>1. PICK sent \in MainCalls :
           /\ Goes("main", Sending(sent, Main.reason))
           /\ ~stop /\ ~suspend /\ ~resume => sent = <<>>
           /\ stop => sent = <<Command("STOP")>>
           /\ suspend /\ ~resume => sent = <<Command("SUSPEND")>>
           /\ ~suspend /\ resume => sent = <<again>>
           /\ suspend /\ resume => sent = <<Command("SUSPEND"), again>>
    BY <1>5
  <2>2. Main' = Sending(sent, Main.reason)
    BY <1>0, <2>1, Going DEF Main
  <2>3. Sending(sent, Main.reason).todo = sent /\ Sending(sent, Main.reason).at = IF sent = <<>> THEN "idle" ELSE "send"
    BY DEF Sending, Idle
  <2>. QED BY <2>1, <2>2, <2>3
<1>7. /\ \A types : Holds(todo, types) <=>
             (stop /\ "STOP" \in types) \/ (suspend /\ "SUSPEND" \in types) \/ (resume /\ "RESUME" \in types)
      /\ Carry(todo, {"RESUME"}, {station})
  <2>1. /\ Command("STOP") \in Commands /\ Command("STOP").type = "STOP"
        /\ Command("SUSPEND") \in Commands /\ Command("SUSPEND").type = "SUSPEND"
        /\ again \in Commands /\ again.type = "RESUME" /\ again.station = station
    BY <1>3, CommandsTyped
  <2> HIDE DEF stop, suspend, resume, again, todo, station
  <2>2. CASE todo = <<>>
    <3>1. ~stop /\ ~suspend /\ ~resume
      BY <1>4, <1>6, <2>1, <2>2, One, Two
    <3>. QED BY <2>2, <3>1, None
  <2>3. CASE stop
    BY <1>4, <1>6, <2>1, <2>3, One
  <2>4. CASE suspend /\ ~resume
    BY <1>4, <1>6, <2>1, <2>4, One
  <2>5. CASE ~suspend /\ resume
    BY <1>4, <1>6, <2>1, <2>5, One
  <2>6. CASE suspend /\ resume
    <3>1. /\ \A types : Holds(<<Command("SUSPEND"), again>>, types) <=> "SUSPEND" \in types \/ "RESUME" \in types
          /\ Carry(<<Command("SUSPEND"), again>>, {"RESUME"}, {station})
      <4> DEFINE first == Command("SUSPEND")
      <4>1. first \in Commands /\ first.type = "SUSPEND" /\ again \in Commands /\ again.type = "RESUME" /\ again.station = station
        BY <2>1
      <4> HIDE DEF first
      <4>2. /\ \A types : Holds(<<first, again>>, types) <=> "SUSPEND" \in types \/ "RESUME" \in types
            /\ Carry(<<first, again>>, {"RESUME"}, {station})
        <5>1. /\ \A types : Holds(<<first, again>>, types) <=> first.type \in types \/ again.type \in types
              /\ \A types, stations :
                    Carry(<<first, again>>, types, stations) <=>
                        (first.type \in types => first.station \in stations) /\ (again.type \in types => again.station \in stations)
          BY <4>1, Two
        <5>. QED BY <4>1, <5>1
      <4>. QED BY <4>2 DEF first
    <3>2. todo = <<Command("SUSPEND"), again>> /\ ~stop
      BY <1>4, <1>6, <2>6
    <3>. QED BY <2>6, <3>1, <3>2
  <2>. QED BY <1>6, <2>2, <2>3, <2>4, <2>5, <2>6
<1>8. \A type : Sends(type)' <=> Holds(todo, {type})
  BY DEF Sends
<1> HIDE DEF stop, suspend, resume, again, todo
<1>a. Main'.todo = todo
  BY DEF todo
<1>9. /\ Sends("RESUME")' <=> resume
      /\ Sends("SUSPEND")' <=> suspend
      /\ ~Sends("PLAY")'
  <2>1. /\ Sends("RESUME")' <=> Holds(todo, {"RESUME"})
        /\ Sends("SUSPEND")' <=> Holds(todo, {"SUSPEND"})
        /\ Sends("PLAY")' <=> Holds(todo, {"PLAY"})
    BY <1>8
  <2>2. /\ Holds(todo, {"RESUME"}) <=> resume
        /\ Holds(todo, {"SUSPEND"}) <=> suspend
        /\ ~Holds(todo, {"PLAY"})
    BY <1>7
  <2>. QED BY <2>1, <2>2
<1>10. MainInv'
  <2>1. source.active = "radio" /\ source.intent <=> ResumeAllowed(source)
    BY DEF ResumeAllowed
  <2>. QED BY <1>1, <1>2, <1>4, <1>6, <1>9, <1>a, <2>1 DEF MainInv, Changing
<1>11. SentInv'
  BY <1>6 DEF SentInv
<1>12. BusyInv'
  BY <1>0, <1>2 DEF BusyInv, Radio
<1>13. SilenceInv'
  <2>1. stop \/ suspend => Holds(todo, Silencers)
    BY <1>7 DEF Silencers
  <2>2. ~stop /\ ~suspend => ~Radio'
    BY <1>1, <1>2, <1>4 DEF Radio
  <2>. QED BY <1>2, <1>a, <2>1, <2>2, None DEF SilenceInv, Silenced
<1>14. PlayInv'
  <2>1. resume => Holds(todo, Starters)
    BY <1>7 DEF Starters
  <2>. QED BY <1>2, <1>4, <1>a, <2>1 DEF PlayInv, Plays, Started
<1>15. QueueInv'
  BY <1>2, None DEF QueueInv
<1>16. StationInv'
  <2>1. Resumed' = {station} /\ ~Sends("PLAY")
    BY <1>1, <1>2, NothingToSend DEF Resumed
  <2>. QED BY <1>0, <1>2, <1>7, <1>a, <2>1, None DEF StationInv, Radio
<1>. QED BY <1>10, <1>11, <1>12, <1>13, <1>14, <1>15, <1>16 DEF ControlInv

-----------------------------------------------------------------------------
(* What the main loop does between calls.                                   *)

\* Between calls nothing is to be sent.
LEMMA MainIdle ==
  ASSUME RadioInv, Main.at = "idle"
  PROVE  /\ Main.todo = <<>> /\ ~Changing
         /\ \A type : ~Sends(type)
         /\ \A types : ~Holds(Main.todo, types)
         /\ \A types, stations : Carry(Main.todo, types, stations)
  <1>1. Main.todo = <<>>
    BY MainParts DEF MainInv
  <1>. QED BY <1>1, NothingToSend DEF Changing

\* A user command through the main loop: it is about to be sent.
LEMMA MainSends ==
  ASSUME RadioInv, NEW c, Send("main", c),
         (c = Command("STOP") /\ lastStation' = lastStation) \/ (\E s \in Stations : c = Play(s))
  PROVE  ControlInv'
<1>0. /\ TypeInv /\ MainInv /\ SentInv /\ BusyInv /\ SilenceInv /\ PlayInv /\ QueueInv /\ StationInv
      /\ "main" \in Callers /\ Main \in Calls
  BY MainParts
<1>1. Main.at = "idle" /\ mainAt' = "observe"
  BY DEF Send, Free, Main
<1>2. UNCHANGED <<source, temp, queue, stream, playing, tuned, reconnect, chosen, asked, overtaken, quiet>>
  BY DEF Send
<1>3. /\ c \in Commands /\ <<c>> \in MainCalls
      /\ \/ c.type = "STOP" /\ lastStation' = lastStation
         \/ c.type = "PLAY"
  BY CommandsTyped DEF MainCalls
<1>4. Main'.at = "send" /\ Main'.todo = <<c>>
  <2>1. Main' = Sending(<<c>>, "none")
    BY <1>0, Going DEF Send, Main
  <2>. QED BY <1>3, <2>1, One DEF Sending
<1>5. \A types : Holds(Main'.todo, types) <=> c.type \in types
  BY <1>3, <1>4, One
<1>6. \A types, stations : c.type \notin types => Carry(Main'.todo, types, stations)
  BY <1>5, NotHeld
<1>7. \A type : Sends(type)' <=> c.type = type
  BY <1>5 DEF Sends
<1>8. /\ Main.todo = <<>> /\ ~Changing
      /\ \A type : ~Sends(type)
      /\ \A types : ~Holds(Main.todo, types)
  BY <1>1, MainIdle
<1>9. Radio' => Radio
  BY <1>1, <1>2 DEF Radio
<1>10. MainInv'
  BY <1>1, <1>3, <1>4, <1>7 DEF MainInv, Changing
<1>11. SentInv'
  BY <1>4 DEF SentInv
<1>12. BusyInv'
  BY <1>0, <1>1, <1>2, <1>9 DEF BusyInv
<1>13. SilenceInv'
  <2>1. CASE c.type = "STOP"
    BY <1>5, <2>1 DEF SilenceInv, Silenced, Silencers
  <2>2. CASE c.type = "PLAY"
    BY <1>0, <1>2, <1>7, <1>8, <1>9, <2>2 DEF SilenceInv, Stopped, Displaced, Silenced
  <2>. QED BY <1>3, <2>1, <2>2
<1>14. PlayInv'
  <2>1. CASE c.type = "STOP"
    BY <1>7, <2>1 DEF PlayInv, Plays
  <2>2. CASE c.type = "PLAY"
    BY <1>5, <2>2 DEF PlayInv, Started, Starters
  <2>. QED BY <1>3, <2>1, <2>2
<1>15. QueueInv'
  BY <1>0, <1>2, <1>3, <1>7 DEF QueueInv
<1>16. StationInv'
  BY <1>0, <1>2, <1>3, <1>6, <1>7, <1>8, <1>9 DEF StationInv, Resumed
<1>. QED BY <1>10, <1>11, <1>12, <1>13, <1>14, <1>15, <1>16 DEF ControlInv

\* A turn of the loop that at most selects another source: what the user
\* asked of the radio stays.
LEMMA MainTurns ==
  ASSUME RadioInv, Main.at = "idle", mainAt # "connect", mainAt' \in {"observe", "receive"}, Main'.todo = <<>>,
         UNCHANGED <<queue, stream, playing, lastStation, tuned, reconnect, chosen, overtaken, quiet>>,
         source'.intent = source.intent, source'.station = source.station, source'.stop = source.stop,
         temp'.live = temp.live, Busy(temp') = Busy(temp),
         \/ Main'.at = "idle" /\ source'.active = source.active /\ asked' = asked
         \/ /\ Main'.at = "look" /\ Main'.seen = Busy(temp')
            /\ source'.active = "radio" => Main'.reason \in {"manual", "bt_disconnect", "bt_offline"}
  PROVE  ControlInv'
<1>0. MainInv /\ SentInv /\ BusyInv /\ SilenceInv /\ PlayInv /\ QueueInv /\ StationInv
  BY MainParts
<1>1. /\ ~Changing
      /\ \A type : ~Sends(type)
      /\ \A types : ~Holds(Main.todo, types)
      /\ \A types, stations : Carry(Main.todo, types, stations)
  BY MainIdle
<1>2. /\ \A type : ~Sends(type)'
      /\ \A types : ~Holds(Main'.todo, types)
      /\ \A types, stations : Carry(Main'.todo, types, stations)
  BY None DEF Sends
<1>3. Radio' => Radio
  BY DEF Radio
<1>4. Changing' <=> Main'.at = "look"
  BY DEF Changing
<1>5. MainInv'
  BY <1>2, <1>4 DEF MainInv, MainCalls
<1>6. SentInv'
  BY DEF SentInv
<1>7. BusyInv'
  BY <1>0, <1>3 DEF BusyInv
<1>8. SilenceInv'
  BY <1>0, <1>1, <1>2, <1>3, <1>4 DEF SilenceInv, Stopped, Displaced, Silenced
<1>9. PlayInv'
  <2>1. Plays' => Plays
    BY <1>1, <1>4 DEF Plays
  <2>2. Radio => Radio'
    BY DEF Radio
  <2>. QED BY <1>0, <1>1, <1>2, <2>1, <2>2 DEF PlayInv, Started
<1>10. QueueInv'
  BY <1>0, <1>2 DEF QueueInv
<1>11. StationInv'
  BY <1>0, <1>1, <1>2, <1>3 DEF StationInv, Resumed, ResumeStation
<1>. QED BY <1>5, <1>6, <1>7, <1>8, <1>9, <1>10, <1>11 DEF ControlInv

\* The controls, and the observation of the Bluetooth link.
LEMMA MainAsks == ASSUME RadioInv, UserStep("main") \/ NoControls \/ ObserveLink PROVE ControlInv'
<1>0. TypeInv /\ MainInv /\ "main" \in Callers /\ Main \in Calls
  BY MainParts
<1>1. CASE UserStep("main")
  <2>1. CASE \E s \in Stations : PlayStation("main", s) \/ Step("main", s)
    BY <2>1, MainSends DEF PlayStation, Step
  <2>2. CASE Stop("main")
    BY <2>2, MainSends DEF Stop
  <2>3. CASE Toggle("main")
    <3>1. lastStation \in Stations
      BY <1>0 DEF TypeInv, ValuesTyped
    <3>2. Send("main", Command("STOP")) \/ Send("main", Play(lastStation))
      BY <2>3 DEF Toggle
    <3>. QED BY <2>3, <3>1, <3>2, MainSends DEF Toggle
  <2>4. CASE SelectOther("main")
    <3>1. Main' = Changed("manual")
      BY <1>0, <2>4, Going DEF SelectOther, Main
    <3>2. /\ Main'.at = "look" /\ Main'.todo = <<>> /\ Main'.seen = Busy(temp) /\ Main'.reason = "manual"
      BY <3>1 DEF Changed, Idle
    <3>3. /\ source'.intent = source.intent /\ source'.station = source.station /\ source'.stop = source.stop
      BY <1>0, <2>4 DEF SelectOther, Cycle, TypeInv, ValuesTyped, Sources
    <3>4. /\ Main.at = "idle" /\ mainAt = "controls" /\ mainAt' = "observe"
          /\ UNCHANGED <<queue, stream, playing, lastStation, tuned, reconnect, chosen, overtaken, quiet, temp>>
      BY <2>4 DEF SelectOther, Free, Main
    <3>. QED BY <3>2, <3>3, <3>4, MainTurns
  <2>. QED BY <1>1, <2>1, <2>2, <2>3, <2>4 DEF UserStep
<1>2. CASE NoControls
  <2>1. /\ Main.at = "idle" /\ mainAt = "controls" /\ mainAt' = "observe" /\ Main' = Main
        /\ UNCHANGED <<source, temp, queue, stream, playing, lastStation, tuned, reconnect, chosen, asked, overtaken, quiet>>
    BY <1>2 DEF NoControls, Main
  <2>. QED BY <2>1, MainIdle, MainTurns
<1>3. CASE ObserveLink
  <2>1. /\ Main.at = "idle" /\ mainAt = "observe" /\ mainAt' = "receive"
        /\ UNCHANGED <<queue, stream, playing, lastStation, tuned, reconnect, chosen, overtaken, quiet>>
    BY <1>3 DEF ObserveLink, Main
  <2>2. PICK l \in Links :
           LET reason == ObserveReason(source, l)
           IN  /\ source' = Observe(source, l)
               /\ temp' = IF reason \in {"bt_disconnect", "bt_offline"} THEN Suppress(temp) ELSE temp
               /\ Goes("main", IF reason = "none" THEN Idle ELSE Changed(reason))
               /\ asked' = (asked /\ reason = "none")
    BY <1>3 DEF ObserveLink
  <2> DEFINE reason == ObserveReason(source, l)
  <2>3. /\ source'.intent = source.intent /\ source'.station = source.station /\ source'.stop = source.stop
        /\ source'.active = IF reason = "none" THEN source.active ELSE Other(source.active)
    BY <1>0, <2>2 DEF Observe, TypeInv, ValuesTyped, Sources
  <2>4. temp'.live = temp.live /\ Busy(temp') = Busy(temp)
    BY <1>0, <2>2 DEF Suppress, Busy, TypeInv, ValuesTyped, Temporaries
  <2>5. CASE reason = "none"
    <3>1. Main' = Idle /\ asked' = asked
      BY <1>0, <2>2, <2>5, Going DEF Main, TypeInv, FlagsTyped
    <3>2. Main'.at = "idle" /\ Main'.todo = <<>>
      BY <3>1 DEF Idle
    <3>. QED BY <2>1, <2>3, <2>4, <2>5, <3>1, <3>2, MainTurns
  <2>6. CASE reason # "none"
    <3>1. Main' = Changed(reason)
      BY <1>0, <2>2, <2>6, Going DEF Main
    <3>2. Main'.at = "look" /\ Main'.todo = <<>> /\ Main'.seen = Busy(temp) /\ Main'.reason = reason
      BY <3>1 DEF Changed, Idle
    <3>3. source'.active = "radio" => reason \in {"manual", "bt_disconnect", "bt_offline"}
      BY <2>3, <2>6 DEF ObserveReason, Other
    <3>. QED BY <2>1, <2>3, <2>4, <3>2, <3>3, MainTurns
  <2>. QED BY <2>5, <2>6
<1>. QED BY <1>1, <1>2, <1>3

-----------------------------------------------------------------------------
(* The player and its queue.                                                *)

\* A step of the player, which leaves what the user wants, and ends in a
\* connection to a station or leaves the radio's as it was.
Steady ==
    /\ source'.active = source.active /\ source'.intent = source.intent /\ (source'.stop => source.stop)
    /\ stream' \in {stream, "none"} /\ (stream' = "temporary" => temp'.live)
Stays == Main.at = "idle" /\ Main' = Main /\ UNCHANGED <<chosen, asked>> /\ Steady
Tunes(station) ==
    /\ ~Busy(temp') /\ stream' = "none" /\ lastStation' = station /\ source'.station = NoStation
    /\ \/ mainAt' = "connect" /\ tuned' = station /\ quiet' = FALSE
       \/ mainAt' \notin {"connect", "announce"} /\ quiet' = TRUE
Keeps ==
    /\ mainAt' \notin {"connect", "announce"} /\ UNCHANGED <<lastStation, tuned, quiet>>
    /\ source'.station = source.station

\* What becomes of a command that the player takes from its queue.
Starts(c) == c.type \in Starters /\ Tunes(c.station) /\ (c.type = "RESUME" => ResumeAllowed(source))
Ignores(c) == c.type \in Starters /\ Keeps /\ (Busy(temp) \/ ~ResumeAllowed(source))
Quiets(c) == c.type \in Silencers /\ Keeps /\ stream' # "radio"
Notes(c) ==
    /\ c.type \notin Silencers \cup Starters /\ Keeps
    /\ ~Busy(temp) /\ ResumeAllowed(source) => reconnect' \/ (stream' = stream /\ reconnect' = reconnect)
LEMMA Handled ==
  ASSUME RadioInv, Receive, queue # <<>>
  PROVE  LET c == Head(queue)
         IN  /\ queue' = Tail(queue) /\ mainAt # "connect" /\ Stays /\ Busy(temp') = Busy(temp)
             /\ Starts(c) \/ Ignores(c) \/ Quiets(c) \/ Notes(c)
<1> DEFINE c == Head(queue)
           same == Busy(temp') = Busy(temp)
           taken == Starts(c) \/ Ignores(c) \/ Quiets(c) \/ Notes(c)
<1>0. TypeInv /\ BusyInv /\ "main" \in Callers
  BY MainParts
<1>9. queue' = Tail(queue) /\ Main.at = "idle" /\ Main' = Main /\ UNCHANGED <<chosen, asked>> /\ mainAt # "connect"
  BY DEF Receive, Main
<1> SUFFICES Steady /\ same /\ taken
  BY <1>9 DEF Stays
<1>a. /\ source \in Sources /\ temp \in Temporaries
      /\ Busy(temp) => stream # "radio"
      /\ stream = "temporary" => temp.live
  BY <1>0 DEF TypeInv, ValuesTyped, BusyInv, Radio
<1>b. NoTune("url") /\ lastStation' = lastStation /\ source'.station = source.station => Keeps
  BY DEF NoTune, Keeps
<1>c. source' = source /\ stream' = stream /\ temp' = temp => Steady /\ same /\ source'.station = source.station
  BY <1>a DEF Steady
<1> HIDE DEF c
<1>1. CASE c.type = "STOP" /\ HandleStop
  <2>1. /\ source'.active = source.active /\ source'.intent = source.intent /\ (source'.stop => source.stop)
        /\ source'.station = source.station
    BY <1>1, <1>a DEF HandleStop, StopConsumed, Sources
  <2>2. Keeps
    BY <1>1, <1>b, <2>1 DEF HandleStop
  <2>3. stream' \in {stream, "none"} /\ (stream' = "temporary" => temp'.live) /\ stream' # "radio"
    BY <1>1, <1>a DEF HandleStop, Silence, Busy
  <2>4. same
    BY <1>1, <1>a DEF HandleStop, Finish, Busy, Temporaries
  <2>5. Quiets(c)
    BY <1>1, <2>2, <2>3 DEF Silencers, Quiets
  <2>. QED BY <2>1, <2>3, <2>4, <2>5 DEF Steady
<1>2. CASE c.type = "SUSPEND" /\ HandleSuspend
  <2>1. Keeps
    BY <1>2, <1>b DEF HandleSuspend
  <2>2. Quiets(c)
    BY <1>2, <1>a, <2>1 DEF HandleSuspend, Silence, Silencers, Quiets
  <2>3. Steady /\ same
    BY <1>2, <1>a DEF HandleSuspend, Silence, Steady
  <2>. QED BY <2>2, <2>3
<1>3. CASE c.type = "PLAY" /\ HandlePlay(c.station)
  <2>1. CASE Busy(temp)
    <3>1. Keeps /\ Steady /\ same
      BY <1>3, <1>b, <1>c, <2>1 DEF HandlePlay
    <3>. QED BY <1>3, <2>1, <3>1 DEF Starters, Ignores
  <2>2. CASE ~Busy(temp)
    <3>1. /\ source'.active = source.active /\ source'.intent = source.intent /\ source'.stop = source.stop
          /\ source'.station = NoStation
      BY <1>3, <1>a, <2>2 DEF HandlePlay, PlayConsumed, Sources
    <3>2. Tunes(c.station) /\ stream' = "none" /\ temp' = temp
      BY <1>3, <2>2, <3>1 DEF HandlePlay, Tune, Silence, Tunes
    <3>3. Starts(c)
      BY <1>3, <3>2 DEF Starts, Starters
    <3>. QED BY <3>1, <3>2, <3>3 DEF Steady
  <2>. QED BY <2>1, <2>2
<1>4. CASE c.type = "RESUME" /\ HandleResume(c.station)
  <2>1. CASE Busy(temp) \/ ~ResumeAllowed(source)
    <3>1. Keeps /\ Steady /\ same
      BY <1>4, <1>b, <1>c, <2>1 DEF HandleResume
    <3>. QED BY <1>4, <2>1, <3>1 DEF Starters, Ignores
  <2>2. CASE ~Busy(temp) /\ ResumeAllowed(source)
    <3>1. /\ source'.active = source.active /\ source'.intent = source.intent /\ source'.stop = source.stop
          /\ source'.station = NoStation
      BY <1>4, <1>a, <2>2 DEF HandleResume, PlayConsumed, Sources
    <3>2. Tunes(c.station) /\ stream' = "none" /\ temp' = temp
      BY <1>4, <2>2, <3>1 DEF HandleResume, Tune, Silence, Tunes
    <3>3. Starts(c)
      BY <1>4, <2>2, <3>2 DEF Starts, Starters
    <3>. QED BY <3>1, <3>2, <3>3 DEF Steady
  <2>. QED BY <2>1, <2>2
<1>5. CASE c.type = "OFFLINE" /\ HandleOffline
  <2>1. Keeps
    BY <1>5, <1>b DEF HandleOffline
  <2>2. Notes(c)
    BY <1>5, <2>1 DEF HandleOffline, Schedule, Silencers, Starters, Notes
  <2>3. Steady /\ same
    BY <1>5, <1>a DEF HandleOffline, Silence, Steady
  <2>. QED BY <2>2, <2>3
<1>6. CASE c.type = "ONLINE" /\ HandleOnline
  <2>1. Keeps /\ Steady /\ same
    BY <1>6, <1>b, <1>c DEF HandleOnline
  <2>2. Notes(c)
    BY <1>6, <2>1 DEF HandleOnline, Schedule, Silencers, Starters, Notes
  <2>. QED BY <2>1, <2>2
<1>7. CASE /\ c.type = "BURL" /\ NoTune("url")
           /\ UNCHANGED <<source, temp, url, stream, playing, lastStation, reconnect, lostPlaying>>
  <2>1. Keeps /\ Steady /\ same
    BY <1>7, <1>b, <1>c
  <2>2. Notes(c)
    BY <1>7, <2>1 DEF Silencers, Starters, Notes
  <2>. QED BY <2>1, <2>2
<1> HIDE DEF same, taken
<1>. QED BY <1>1, <1>2, <1>3, <1>4, <1>5, <1>6, <1>7 DEF Receive, c

\* The command at the front is handled: what the invariant promised of the
\* whole queue is done, or is promised of the rest.
LEMMA MainReceives == ASSUME RadioInv, Receive, queue # <<>> PROVE ControlInv'
<1> DEFINE c == Head(queue)
           rest == Tail(queue)
<1>0. /\ TypeInv /\ MainInv /\ SentInv /\ BusyInv /\ SilenceInv /\ PlayInv /\ QueueInv /\ StationInv
      /\ queue \in Seq(Commands)
  BY MainParts
<1>a. /\ queue' = rest /\ Stays /\ mainAt # "connect" /\ Busy(temp') = Busy(temp)
      /\ Starts(c) \/ Ignores(c) \/ Quiets(c) \/ Notes(c)
  BY Handled
<1>b. overtaken' = (overtaken \/ (/\ source.station # NoStation /\ source'.station = NoStation
                                  /\ \E i \in DOMAIN queue' : queue'[i].type = "PLAY" /\ queue'[i].station # lastStation'))
  BY DEF Receive
<1>c. /\ c \in Commands /\ rest \in Seq(Commands)
      /\ \A types : Holds(queue, types) <=> Holds(rest, types) \/ c.type \in types
      /\ \A types, stations :
            Carry(queue, types, stations) <=>
                Carry(rest, types, stations) /\ (c.type \in types => c.station \in stations)
      /\ \A wins, loses :
            EndsIn(queue, wins, loses) <=> EndsIn(rest, wins, loses) \/ (c.type \in wins /\ ~Holds(rest, loses))
      /\ \A d, types : LastOf(queue, d, types) => LastOf(rest, d, types) \/ (c = d /\ ~Holds(rest, types))
      /\ ResumeFirst(queue) => ResumeFirst(rest) /\ (c.type \in Starters => ~Holds(rest, {"RESUME"}))
  BY <1>0, Taken
<1> HIDE DEF c, rest
<1>1. /\ Main.at = "idle" /\ Main' = Main /\ chosen' = chosen /\ asked' = asked
      /\ source'.active = source.active /\ source'.intent = source.intent
  BY <1>a DEF Stays, Steady
<1>2. /\ Main.todo = <<>> /\ ~Changing /\ ~Changing'
      /\ \A type : ~Sends(type) /\ ~Sends(type)'
      /\ \A types : ~Holds(Main.todo, types) /\ ~Holds(Main'.todo, types)
      /\ \A types, stations : Carry(Main'.todo, types, stations)
  BY <1>1, MainIdle DEF Changing, Sends
<1>3. Ignores(c) \/ Quiets(c) \/ Notes(c) => Keeps /\ (Radio' => Radio)
  BY <1>a DEF Ignores, Quiets, Notes, Keeps, Radio, Stays, Steady
<1>4. MainInv'
  BY <1>0, <1>1, <1>2 DEF MainInv
<1>5. SentInv'
  BY <1>1 DEF SentInv
<1>6. BusyInv'
  <2>1. Busy(temp') => ~Radio'
    BY <1>0, <1>3, <1>a DEF BusyInv, Starts, Tunes
  <2>2. stream' = "temporary" \/ mainAt' = "announce" => temp'.live
    BY <1>3, <1>a DEF Stays, Steady, Starts, Tunes, Keeps
  <2>3. source'.stop => ~source'.intent
    BY <1>0, <1>a DEF BusyInv, Stays, Steady
  <2>4. source'.station # NoStation => source'.intent
    BY <1>0, <1>1, <1>3, <1>a DEF BusyInv, Starts, Tunes, Keeps
  <2>. QED BY <2>1, <2>2, <2>3, <2>4 DEF BusyInv
<1>7. SilenceInv'
  <2>1. SUFFICES ASSUME Stopped \/ Displaced PROVE Silenced'
    BY <1>1, <1>2 DEF SilenceInv, Stopped, Displaced
  <2>2. ~ResumeAllowed(source)
    BY <2>1 DEF Stopped, Displaced, ResumeAllowed
  <2>3. CASE EndsIn(queue, Silencers, {"PLAY"})
    <3>1. CASE EndsIn(rest, Silencers, {"PLAY"})
      BY <1>a, <3>1 DEF Silenced
    <3>2. CASE c.type \in Silencers /\ ~Holds(rest, {"PLAY"})
      <4>1. Quiets(c)
        BY <1>a, <3>2 DEF Starts, Ignores, Notes, Starters, Silencers
      <4>. QED BY <1>a, <3>2, <4>1 DEF Silenced, Radio, Quiets, Keeps
    <3>. QED BY <1>c, <2>3, <3>1, <3>2
  <2>4. CASE ~Radio /\ (Holds(queue, {"PLAY"}) => Busy(temp))
    <3>1. ~Starts(c)
      <4>1. SUFFICES ASSUME Starts(c) PROVE FALSE
        OBVIOUS
      <4>2. c.type = "PLAY"
        BY <2>2, <4>1 DEF Starts, Starters
      <4>. QED BY <1>a, <1>c, <2>4, <4>1, <4>2 DEF Starts, Tunes
    <3>. QED BY <1>3, <1>a, <1>c, <2>4, <3>1 DEF Silenced
  <2>. QED BY <1>0, <1>2, <2>1, <2>3, <2>4 DEF SilenceInv, Silenced
<1>8. PlayInv'
  <2>1. SUFFICES ASSUME Plays, ~Busy(temp) PROVE PlayInv'
    BY <1>1, <1>2, <1>a DEF PlayInv, Plays
  <2>2. ResumeAllowed(source)
    BY <2>1 DEF Plays, ResumeAllowed
  <2>3. Starts(c) => Radio' \/ quiet'
    BY DEF Starts, Tunes, Radio
  <2>4. CASE EndsIn(queue, Starters, Silencers)
    <3>1. CASE EndsIn(rest, Starters, Silencers)
      BY <1>a, <3>1 DEF PlayInv, Started
    <3>2. CASE c.type \in Starters /\ ~Holds(rest, Silencers)
      <4>1. Starts(c)
        BY <1>a, <2>1, <2>2, <3>2 DEF Ignores, Quiets, Notes, Starters, Silencers
      <4>. QED BY <1>a, <2>3, <3>2, <4>1 DEF PlayInv
    <3>. QED BY <1>c, <2>4, <3>1, <3>2
  <2>5. CASE ~Holds(queue, Silencers) /\ (~quiet => Radio \/ reconnect)
    <3>1. ~Holds(rest, Silencers) /\ c.type \notin Silencers
      BY <1>c, <2>5
    <3>2. ~quiet' => Radio' \/ reconnect'
      BY <1>a, <2>1, <2>2, <2>3, <2>5, <3>1 DEF Ignores, Quiets, Notes, Keeps, Radio
    <3>. QED BY <1>a, <3>1, <3>2 DEF PlayInv
  <2>. QED BY <1>0, <1>2, <2>1, <2>4, <2>5 DEF PlayInv, Started
<1>9. QueueInv'
  <2>1. ResumeFirst(rest)
    BY <1>0, <1>c DEF QueueInv
  <2>2. Holds(rest, {"PLAY"}) => LastOf(rest, Play(chosen), {"PLAY"})
    BY <1>0, <1>c DEF QueueInv
  <2>. QED BY <1>1, <1>2, <1>a, <2>1, <2>2 DEF QueueInv
<1>10. StationInv'
  <2>1. SUFFICES ASSUME source.intent PROVE StationInv'
    BY <1>1 DEF StationInv
  <2>2. /\ \/ Holds(queue, {"PLAY"}) /\ (Holds(queue, {"RESUME"}) => source.station # NoStation)
           \/ Carry(queue, {"RESUME"}, Resumed)
        /\ ~overtaken =>
              /\ source.station \in {NoStation, chosen}
              /\ source.station = NoStation =>
                    lastStation = chosen /\ Carry(queue, {"PLAY"}, {chosen}) /\ (Radio => tuned = chosen)
    BY <1>0, <1>2, <2>1 DEF StationInv
  <2>3. c.type \in Starters => Carry(rest, {"RESUME"}, Resumed')
    BY <1>0, <1>c, NotHeld DEF QueueInv
  <2>4. CASE Ignores(c) \/ Quiets(c) \/ Notes(c)
    <3>1. /\ source'.station = source.station /\ lastStation' = lastStation /\ tuned' = tuned /\ (Radio' => Radio)
          /\ Resumed' = Resumed
      BY <1>3, <2>4 DEF Keeps, Resumed, ResumeStation
    <3>2. \/ Holds(rest, {"PLAY"}) /\ (Holds(rest, {"RESUME"}) => source.station # NoStation)
          \/ Carry(rest, {"RESUME"}, Resumed)
      BY <1>c, <2>2, <2>3, <3>1 DEF Starters
    <3>3. ~overtaken' => ~overtaken
      BY <1>b
    <3>. QED BY <1>1, <1>2, <1>a, <1>c, <2>2, <3>1, <3>2, <3>3 DEF StationInv
  <2>5. CASE Starts(c)
    <3>1. /\ c.type \in Starters /\ source'.station = NoStation /\ lastStation' = c.station
          /\ Radio' => tuned' = c.station
      BY <2>5 DEF Starts, Tunes, Radio
    <3>2. ASSUME ~overtaken' PROVE c.station = chosen /\ Carry(rest, {"PLAY"}, {chosen})
      <4>1. ~overtaken /\ (source.station # NoStation => Carry(rest, {"PLAY"}, {c.station}))
        <5>1. source.station # NoStation => \A i \in DOMAIN rest : rest[i].type = "PLAY" => rest[i].station = c.station
          BY <1>a, <1>b, <3>1, <3>2
        <5>2. DOMAIN rest = 1 .. Len(rest)
          BY <1>c, LenProperties
        <5>. QED BY <1>b, <3>2, <5>1, <5>2 DEF Carry
      <4>2. c.type = "PLAY" \/ c.type = "RESUME"
        BY <3>1 DEF Starters
      <4>3. CASE source.station = NoStation
        <5>1. lastStation = chosen /\ Carry(queue, {"PLAY"}, {chosen}) /\ Resumed = {chosen}
          BY <2>2, <4>1, <4>3 DEF Resumed, ResumeStation
        <5>2. c.type = "RESUME" => Carry(queue, {"RESUME"}, {chosen})
          BY <1>c, <2>2, <4>3, <5>1
        <5>. QED BY <1>c, <4>2, <5>1, <5>2
      <4>4. CASE source.station # NoStation
        <5>1. source.station = chosen /\ Resumed = {chosen}
          BY <2>2, <4>1, <4>4 DEF Resumed, ResumeStation
        <5>2. CASE Holds(rest, {"PLAY"})
          <6>1. LastOf(rest, Play(chosen), {"PLAY"}) /\ Carry(rest, {"PLAY"}, {c.station})
            BY <1>9, <1>1, <1>a, <4>1, <4>4, <5>2 DEF QueueInv
          <6>2. Play(chosen).type = "PLAY" /\ Play(chosen).station = chosen
            BY DEF Play
          <6>3. chosen = c.station
            BY <1>c, <6>1, <6>2, LastFacts
          <6>. QED BY <6>1, <6>3
        <5>3. CASE ~Holds(rest, {"PLAY"}) /\ c.type = "PLAY"
          <6>1. LastOf(queue, Play(chosen), {"PLAY"})
            BY <1>0, <1>c, <5>3 DEF QueueInv
          <6>2. Play(chosen).type = "PLAY" /\ Play(chosen).station = chosen
            BY DEF Play
          <6>3. ~LastOf(rest, Play(chosen), {"PLAY"})
            BY <1>c, <5>3, <6>2, LastFacts
          <6>4. c = Play(chosen)
            BY <1>c, <6>1, <6>3
          <6>. QED BY <5>3, <6>2, <6>4, NotHeld
        <5>4. CASE ~Holds(rest, {"PLAY"}) /\ c.type = "RESUME"
          <6>1. Carry(queue, {"RESUME"}, {chosen})
            BY <1>c, <2>2, <5>1, <5>4
          <6>. QED BY <1>c, <5>4, <6>1, NotHeld
        <5>. QED BY <4>2, <5>2, <5>3, <5>4
      <4>. QED BY <4>3, <4>4
    <3>. QED BY <1>1, <1>2, <1>a, <2>3, <3>1, <3>2 DEF StationInv
  <2>. QED BY <1>a, <2>4, <2>5
<1>. QED BY <1>4, <1>5, <1>6, <1>7, <1>8, <1>9, <1>10 DEF ControlInv

\* What a step of the loop leaves: the calls, what the user asked for, the
\* queue and the selected source.
Rests ==
    /\ Main.at = "idle" /\ Main' = Main /\ UNCHANGED <<queue, chosen, asked, overtaken>>
    /\ source'.active = source.active /\ source'.intent = source.intent /\ (source'.stop => source.stop)
TemporaryLive == stream' = "temporary" \/ mainAt' = "announce" => temp'.live

\* A step that starts no radio, and leaves a retry behind where it ends one
\* that should play.
LEMMA MainStays ==
  ASSUME RadioInv, Rests, TemporaryLive, Busy(temp') = Busy(temp), Radio' => Radio,
         UNCHANGED <<lastStation, tuned, quiet>>, source'.station = source.station,
         ResumeAllowed(source) /\ ~Busy(temp) /\ (Radio \/ reconnect) => Radio' \/ reconnect'
  PROVE  ControlInv'
<1>0. /\ MainInv /\ SentInv /\ BusyInv /\ SilenceInv /\ PlayInv /\ QueueInv /\ StationInv
      /\ "main" \in Callers
  BY MainParts
<1>1. /\ Main.at = "idle" /\ Main' = Main /\ chosen' = chosen /\ asked' = asked
      /\ source'.active = source.active /\ source'.intent = source.intent
  BY DEF Rests
<1>2. /\ Main.todo = <<>> /\ ~Changing /\ ~Changing'
      /\ \A type : ~Sends(type) /\ ~Sends(type)'
      /\ \A types : ~Holds(Main.todo, types)
  BY <1>1, MainIdle DEF Changing, Sends
<1>3. MainInv'
  BY <1>0, <1>1, <1>2 DEF MainInv
<1>4. SentInv'
  BY <1>1 DEF SentInv
<1>5. BusyInv'
  BY <1>0, <1>1 DEF BusyInv, Rests, TemporaryLive
<1>6. SilenceInv'
  BY <1>0, <1>1, <1>2 DEF SilenceInv, Stopped, Displaced, Silenced, Rests
<1>7. PlayInv'
  BY <1>0, <1>1, <1>2 DEF PlayInv, Plays, Started, ResumeAllowed, Rests
<1>8. QueueInv'
  BY <1>0, <1>1, <1>2 DEF QueueInv, Rests
<1>9. StationInv'
  BY <1>0, <1>1, <1>2 DEF StationInv, Resumed, ResumeStation, Rests
<1>. QED BY <1>3, <1>4, <1>5, <1>6, <1>7, <1>8, <1>9 DEF ControlInv

\* A step that starts the radio where it may run: a retry, or the restore
\* after an announcement, which takes over what the user asked for meanwhile.
LEMMA MainTunes ==
  ASSUME RadioInv, Rests, ResumeAllowed(source), ~Busy(temp'), stream' = "none",
         \/ mainAt' = "connect" /\ tuned' = lastStation'
         \/ mainAt' \notin {"connect", "announce"} /\ quiet' = TRUE,
         \/ ~Busy(temp) /\ source'.station = source.station /\ lastStation' = lastStation
         \/ queue = <<>> /\ source'.station = NoStation /\ lastStation' = ResumeStation(source, lastStation)
  PROVE  ControlInv'
<1>0. /\ MainInv /\ SentInv /\ BusyInv /\ SilenceInv /\ PlayInv /\ QueueInv /\ StationInv
      /\ "main" \in Callers
  BY MainParts
<1>1. /\ Main.at = "idle" /\ Main' = Main /\ queue' = queue /\ chosen' = chosen /\ asked' = asked
      /\ overtaken' = overtaken /\ source'.active = "radio" /\ source'.intent /\ source.active = "radio" /\ source.intent
  BY DEF Rests, ResumeAllowed
<1>2. /\ Main.todo = <<>> /\ ~Changing /\ ~Changing'
      /\ \A type : ~Sends(type) /\ ~Sends(type)'
      /\ \A types : ~Holds(Main.todo, types) /\ ~Holds(Main'.todo, types)
      /\ \A types, stations : Carry(Main'.todo, types, stations)
  BY <1>1, MainIdle DEF Changing, Sends
<1>3. Radio' => tuned' = lastStation'
  BY DEF Radio
<1>4. MainInv'
  BY <1>0, <1>1, <1>2 DEF MainInv
<1>5. SentInv'
  BY <1>1 DEF SentInv
<1>6. BusyInv'
  BY <1>0, <1>1 DEF BusyInv, Rests
<1>7. SilenceInv'
  BY <1>1 DEF SilenceInv, Stopped, Displaced
<1>8. PlayInv'
  <2>1. Radio' \/ quiet'
    BY DEF Radio
  <2>2. Started \/ ~Holds(queue, Silencers)
    <3>1. CASE queue = <<>>
      BY <3>1, None
    <3>2. CASE ~Busy(temp)
      BY <1>0, <1>1, <1>2, <3>2 DEF PlayInv, Plays
    <3>. QED BY <3>1, <3>2
  <2>. QED BY <1>1, <2>1, <2>2 DEF PlayInv, Started
<1>9. QueueInv'
  BY <1>0, <1>1, <1>2 DEF QueueInv
<1>10. StationInv'
  <2>1. CASE source'.station = source.station /\ lastStation' = lastStation
    BY <1>0, <1>1, <1>2, <1>3, <2>1 DEF StationInv, Resumed, ResumeStation
  <2>2. CASE queue = <<>> /\ source'.station = NoStation /\ lastStation' = ResumeStation(source, lastStation)
    <3>1. ~overtaken => lastStation' = chosen
      BY <1>0, <1>1, <1>2, <2>2 DEF StationInv, ResumeStation
    <3>. QED BY <1>1, <1>2, <1>3, <2>2, <3>1, None DEF StationInv
  <2>. QED BY <2>1, <2>2
<1>. QED BY <1>4, <1>5, <1>6, <1>7, <1>8, <1>9, <1>10 DEF ControlInv

\* A step after which the radio does not run and nothing is in its way: an
\* announcement takes the player, or a restore is refused for good.
LEMMA MainSilent ==
  ASSUME RadioInv, Rests, TemporaryLive, ~Radio', UNCHANGED lastStation, source'.station = source.station,
         \/ Busy(temp')
         \/ queue = <<>> /\ (ResumeAllowed(source) => quiet')
  PROVE  ControlInv'
<1>0. /\ MainInv /\ SentInv /\ BusyInv /\ SilenceInv /\ PlayInv /\ QueueInv /\ StationInv
      /\ "main" \in Callers
  BY MainParts
<1>1. /\ Main.at = "idle" /\ Main' = Main /\ chosen' = chosen /\ asked' = asked /\ queue' = queue
      /\ overtaken' = overtaken /\ source'.active = source.active /\ source'.intent = source.intent
  BY DEF Rests
<1>2. /\ Main.todo = <<>> /\ ~Changing /\ ~Changing'
      /\ \A type : ~Sends(type) /\ ~Sends(type)'
      /\ \A types : ~Holds(Main.todo, types)
  BY <1>1, MainIdle DEF Changing, Sends
<1>a. queue = <<>> => \A types : ~Holds(queue, types)
  BY None
<1>3. MainInv'
  BY <1>0, <1>1, <1>2 DEF MainInv
<1>4. SentInv'
  BY <1>1 DEF SentInv
<1>5. BusyInv'
  BY <1>0, <1>1 DEF BusyInv, Rests, TemporaryLive
<1>6. SilenceInv'
  BY <1>0, <1>1, <1>2, <1>a DEF SilenceInv, Stopped, Displaced, Silenced
<1>7. PlayInv'
  BY <1>1, <1>a DEF PlayInv, Plays, ResumeAllowed
<1>8. QueueInv'
  BY <1>0, <1>1, <1>2 DEF QueueInv
<1>9. StationInv'
  BY <1>0, <1>1, <1>2 DEF StationInv, Resumed, ResumeStation
<1>. QED BY <1>3, <1>4, <1>5, <1>6, <1>7, <1>8, <1>9 DEF ControlInv

\* The playlist lost the selected station: the radio is silent, and only what
\* the user asked for meanwhile is still wanted.
LEMMA MainForgets ==
  ASSUME RadioInv, SyncPlaylist, SelectionGone
  PROVE  ControlInv'
<1>0. /\ MainInv /\ BusyInv /\ QueueInv /\ StationInv
      /\ source \in Sources /\ temp \in Temporaries /\ "main" \in Callers
  BY MainParts DEF TypeInv, ValuesTyped
<1>1. /\ Main.at = "idle" /\ Main' = Main /\ mainAt = "url" /\ mainAt' = mainAt /\ queue = <<>> /\ quiet'
      /\ UNCHANGED <<queue, lastStation, chosen, asked, overtaken>>
  BY DEF SyncPlaylist, SelectionGone, At, Main
<1>2. /\ source'.stop = source.stop /\ source'.station = source.station
      /\ source'.intent = (source.intent /\ source.station # NoStation)
  BY <1>0 DEF SelectionGone, SelectionCleared, Sources
<1>3. /\ Main.todo = <<>> /\ ~Changing /\ ~Changing' /\ \A type : ~Sends(type) /\ ~Sends(type)'
      /\ \A types : ~Holds(queue, types)
      /\ \A types, stations : Carry(Main'.todo, types, stations) /\ Carry(queue, types, stations)
  BY <1>1, MainIdle, None DEF Changing, Sends
<1>4. /\ Busy(temp') = Busy(temp) /\ ~Radio'
      /\ stream' = "temporary" => temp'.live
  BY <1>0, <1>1 DEF SelectionGone, BusyInv, Radio, Silence, Finish, Suppress, Busy, Temporaries
<1>5. MainInv' /\ SentInv'
  BY <1>0, <1>1, <1>3 DEF MainInv, SentInv
<1>6. BusyInv'
  BY <1>0, <1>1, <1>2, <1>4 DEF BusyInv
<1>7. SilenceInv'
  BY <1>1, <1>3, <1>4 DEF SilenceInv, Silenced
<1>8. PlayInv'
  BY <1>1, <1>3 DEF PlayInv
<1>9. QueueInv'
  BY <1>0, <1>1, <1>3 DEF QueueInv
<1>10. StationInv'
  BY <1>0, <1>1, <1>2, <1>3, <1>4 DEF StationInv
<1>. QED BY <1>5, <1>6, <1>7, <1>8, <1>9, <1>10 DEF ControlInv

\* The rest of the loop.
LEMMA MainPlays ==
  ASSUME RadioInv,
         \/ Receive /\ queue = <<>>
         \/ SyncPlaylist \/ TakeUrl \/ Announced \/ Connected \/ Service \/ Restore \/ Retry \/ NoRetry
  PROVE  ControlInv'
<1>0. /\ source \in Sources /\ temp \in Temporaries /\ overtaken \in BOOLEAN /\ reconnect \in BOOLEAN /\ quiet \in BOOLEAN
      /\ after \in {"controls", "url", "reconnect"}
      /\ stream \in {"none", "radio", "temporary"} /\ BusyInv /\ "main" \in Callers
  BY MainParts DEF TypeInv, ValuesTyped, FlagsTyped
<1>a. /\ Busy(temp) => ~Radio
      /\ stream = "temporary" \/ mainAt = "announce" => temp.live
  BY <1>0 DEF BusyInv
<1>1. CASE Receive /\ queue = <<>>
  <2>1. UNCHANGED <<source, temp, queue, stream, reconnect, lastStation, tuned, quiet, call, chosen, asked>> /\ mainAt = "receive" /\ mainAt' = "url" /\ Main.at = "idle"
    BY <1>1 DEF Receive, NoTune, Main
  <2>2. overtaken' = overtaken
    BY <1>0, <1>1, <2>1 DEF Receive
  <2>3. Rests /\ TemporaryLive /\ (Radio' <=> Radio)
    BY <1>a, <2>1, <2>2 DEF Rests, TemporaryLive, Radio, Main
  <2>. QED BY <2>1, <2>3, MainStays
<1>2. CASE TakeUrl
  <2>1. UNCHANGED <<source, queue, reconnect, lastStation, tuned, quiet, call, chosen, asked, overtaken>> /\ mainAt = "url" /\ Main.at = "idle"
    BY <1>2 DEF TakeUrl, Main
  <2>2. Rests
    BY <2>1 DEF Rests, Main
  <2>3. CASE mainAt' = "announce" /\ temp' = Begin(temp) /\ stream' = "none"
    <3>1. TemporaryLive /\ ~Radio' /\ Busy(temp')
      BY <2>3 DEF Begin, TemporaryLive, Radio, Busy
    <3>. QED BY <2>1, <2>2, <3>1, MainSilent
  <2>4. CASE mainAt' = "service" /\ temp' = temp /\ stream' = stream
    <3>1. TemporaryLive /\ (Radio' <=> Radio)
      BY <1>a, <2>1, <2>4 DEF TemporaryLive, Radio
    <3>. QED BY <2>1, <2>2, <2>4, <3>1, MainStays
  <2>. QED BY <1>2, <2>3, <2>4 DEF TakeUrl
<1>3. CASE Announced
  <2>1. UNCHANGED <<source, queue, reconnect, lastStation, tuned, quiet, call, chosen, asked, overtaken>>
        /\ mainAt = "announce" /\ mainAt' = "service" /\ Main.at = "idle"
    BY <1>3 DEF Announced, Main
  <2>2. Rests
    BY <2>1 DEF Rests, Main
  <2>3. temp'.live /\ (Busy(temp') = Busy(temp)) /\ Busy(temp) /\ stream' # "radio"
    BY <1>0, <1>3, <1>a, <2>1 DEF Announced, Signal, Busy, Temporaries, Radio
  <2>4. TemporaryLive /\ ~Radio'
    BY <2>1, <2>3 DEF TemporaryLive, Radio
  <2>. QED BY <2>1, <2>2, <2>3, <2>4, MainStays
<1>4. CASE Connected
  <2>1. UNCHANGED <<source, temp, queue, lastStation, tuned, quiet, call, chosen, asked, overtaken>>
        /\ mainAt = "connect" /\ mainAt' = after /\ Main.at = "idle" /\ Radio
    BY <1>4 DEF Connected, Main, Radio
  <2>2. Rests
    BY <2>1 DEF Rests, Main
  <2>3. \/ stream' = "radio"
        \/ stream' = "none" /\ reconnect' = (~Busy(temp) /\ ResumeAllowed(source))
    BY <1>4 DEF Connected, Silence, Schedule
  <2>4. TemporaryLive /\ (ResumeAllowed(source) /\ ~Busy(temp) => Radio' \/ reconnect')
    BY <1>0, <2>1, <2>3 DEF TemporaryLive, Radio
  <2>. QED BY <2>1, <2>2, <2>4, MainStays
<1>5. CASE Service
  <2>1. UNCHANGED <<source, queue, lastStation, tuned, quiet, call, chosen, asked, overtaken>>
        /\ mainAt = "service" /\ mainAt' = "restore" /\ Main.at = "idle"
    BY <1>5 DEF Service, Main
  <2>2. Rests
    BY <2>1 DEF Rests, Main
  <2>3. CASE ServiceTemporary
    <3>1. (stream' = stream /\ temp' = temp) \/ (stream' = "none" /\ temp' = Finish(temp))
      BY <2>3 DEF ServiceTemporary, Silence
    <3>2. temp.live
      BY <2>3 DEF ServiceTemporary
    <3>3. Busy(temp) /\ Busy(temp') = Busy(temp)
      BY <1>0, <3>1, <3>2 DEF Finish, Busy, Temporaries
    <3>4. stream' # "radio" /\ (stream' = "temporary" => temp'.live)
      BY <1>a, <3>1, <3>2, <3>3 DEF Radio
    <3>5. TemporaryLive /\ ~Radio'
      BY <2>1, <3>4 DEF TemporaryLive, Radio
    <3>. QED BY <2>1, <2>2, <3>3, <3>5, MainStays
  <2>4. CASE ServiceRadio
    <3>1. /\ temp' = temp /\ ~temp.live
          /\ \/ stream' = stream /\ reconnect' \in {reconnect, reconnect /\ stream = "none"}
             \/ stream' = "none" /\ reconnect' = (~Busy(temp) /\ ResumeAllowed(source))
      BY <2>4 DEF ServiceRadio, Decoding, Silence, Schedule
    <3>2. TemporaryLive /\ (Radio' => Radio)
      BY <1>a, <2>1, <3>1 DEF TemporaryLive, Radio
    <3>3. ResumeAllowed(source) /\ ~Busy(temp) /\ (Radio \/ reconnect) => Radio' \/ reconnect'
      BY <1>0, <1>a, <2>1, <3>1 DEF Radio
    <3>. QED BY <2>1, <2>2, <3>1, <3>2, <3>3, MainStays
  <2>. QED BY <1>5, <2>3, <2>4 DEF Service
<1>6. CASE Restore
  <2>1. UNCHANGED <<queue, reconnect, call, chosen, asked, overtaken>> /\ mainAt = "restore" /\ Main.at = "idle"
    BY <1>6 DEF Restore, Main
  <2> DEFINE allowed == ResumeAllowed(source)
  <2>2. CASE /\ queue = <<>> /\ Granted(temp, allowed, ready)
             /\ temp' = [temp EXCEPT !.restoring = FALSE]
             /\ lastStation' = ResumeStation(source, lastStation) /\ source' = PlayConsumed(source)
             /\ Tune(ResumeStation(source, lastStation), "reconnect")
    <3>1. /\ source'.active = source.active /\ source'.intent = source.intent /\ source'.stop = source.stop
          /\ source'.station = NoStation
      BY <1>0, <2>2 DEF PlayConsumed, Sources
    <3>2. ~Busy(temp') /\ ResumeAllowed(source)
      BY <1>0, <2>2 DEF Granted, Waiting, Busy, Temporaries
    <3>3. Rests
      BY <2>1, <3>1 DEF Rests, Main
    <3>4. /\ stream' = "none"
          /\ \/ mainAt' = "connect" /\ tuned' = lastStation'
             \/ mainAt' \notin {"connect", "announce"} /\ quiet' = TRUE
      BY <2>2 DEF Tune, Silence
    <3>. QED BY <2>2, <3>1, <3>2, <3>3, <3>4, MainTunes
  <2>3. CASE /\ queue = <<>> /\ Refused(temp, allowed)
             /\ temp' = [temp EXCEPT !.restoring = FALSE, !.suppressed = FALSE]
             /\ quiet' = (quiet \/ temp.suppressed) /\ mainAt' = "reconnect"
             /\ UNCHANGED <<lastStation, source, stream>>
    <3>1. Rests
      BY <2>1, <2>3 DEF Rests, Main
    <3>2. ~temp.live /\ Busy(temp) /\ (allowed => quiet')
      BY <1>0, <2>3 DEF Refused, Waiting, Busy, Temporaries
    <3>3. TemporaryLive /\ ~Radio'
      BY <1>a, <2>3, <3>2 DEF TemporaryLive, Radio
    <3>. QED BY <2>3, <3>1, <3>2, <3>3, MainSilent
  <2>4. CASE NoTune("reconnect") /\ UNCHANGED <<temp, lastStation, source, stream>>
    <3>1. mainAt' = "reconnect" /\ UNCHANGED <<tuned, quiet>>
      BY <2>4 DEF NoTune
    <3>2. Rests /\ TemporaryLive /\ (Radio' <=> Radio)
      BY <1>a, <2>1, <2>4, <3>1 DEF Rests, TemporaryLive, Radio, Main
    <3>. QED BY <2>1, <2>4, <3>1, <3>2, MainStays
  <2>. QED BY <1>6, <2>2, <2>3, <2>4 DEF Restore
<1>7. CASE Retry
  <2>1. UNCHANGED <<source, temp, queue, lastStation, call, chosen, asked, overtaken>> /\ Main.at = "idle"
        /\ ~Busy(temp) /\ ResumeAllowed(source)
    BY <1>7 DEF Retry, RetryAllowed, Main
  <2>2. /\ stream' = "none"
        /\ \/ mainAt' = "connect" /\ tuned' = lastStation'
           \/ mainAt' \notin {"connect", "announce"} /\ quiet' = TRUE
    BY <1>7, <2>1 DEF Retry, Tune, Silence
  <2>3. Rests
    BY <2>1 DEF Rests, Main
  <2>. QED BY <2>1, <2>2, <2>3, MainTunes
<1>8. CASE NoRetry
  <2>1. UNCHANGED <<source, temp, queue, stream, lastStation, tuned, quiet, call, chosen, asked, overtaken>> /\ Main.at = "idle"
        /\ mainAt = "reconnect" /\ mainAt' = "controls" /\ reconnect' = (reconnect /\ RetryAllowed)
    BY <1>8 DEF NoRetry, NoTune, Main
  <2>2. Rests /\ TemporaryLive /\ (Radio' <=> Radio)
    BY <1>a, <2>1 DEF Rests, TemporaryLive, Radio, Main
  <2>3. ResumeAllowed(source) /\ ~Busy(temp) /\ reconnect => reconnect'
    BY <2>1 DEF RetryAllowed
  <2>. QED BY <2>1, <2>2, <2>3, MainStays
<1>9. CASE SyncPlaylist /\ StationReread
  <2>1. UNCHANGED <<source, temp, queue, lastStation, call, chosen, asked, overtaken>> /\ Main.at = "idle"
        /\ mainAt = "url" /\ ~Busy(temp)
    BY <1>9 DEF SyncPlaylist, StationReread, Main
  <2>2. Rests
    BY <2>1 DEF Rests, Main
  <2>3. CASE NoTune("url") /\ UNCHANGED <<stream, reconnect>>
    <3>1. TemporaryLive /\ (Radio' <=> Radio) /\ UNCHANGED <<tuned, quiet>>
      BY <1>a, <2>1, <2>3 DEF TemporaryLive, Radio, NoTune
    <3>. QED BY <2>1, <2>2, <2>3, <3>1, MainStays
  <2>4. CASE ResumeAllowed(source) /\ Tune(lastStation, "url")
    <3>1. /\ stream' = "none"
          /\ \/ mainAt' = "connect" /\ tuned' = lastStation'
             \/ mainAt' \notin {"connect", "announce"} /\ quiet' = TRUE
      BY <2>1, <2>4 DEF Tune, Silence
    <3>. QED BY <2>1, <2>2, <2>4, <3>1, MainTunes
  <2>. QED BY <1>9, <2>3, <2>4 DEF StationReread
<1>10. CASE SyncPlaylist /\ SelectionGone
  BY <1>10, MainForgets
<1>. QED BY <1>1, <1>2, <1>3, <1>4, <1>5, <1>6, <1>7, <1>8, <1>9, <1>10 DEF SyncPlaylist

-----------------------------------------------------------------------------
(* The invariant, where the user commands come from the main loop.          *)

LEMMA RadioStep ==
  ASSUME Operators \subseteq {"main"}, RadioInv, Room, [Next]_vars
  PROVE  RadioInv'
<1>0. TypeInv /\ OthersInv /\ ControlInv
  BY DEF RadioInv
<1>1. TypeInv'
  BY <1>0, StepTyped
<1>2. CASE UNCHANGED vars \/ CommitPlaylist
  <2>1. UNCHANGED <<source, temp, queue, stream, playing, lastStation, tuned, reconnect, mainAt, chosen, asked, overtaken, quiet, call>>
    BY <1>2 DEF vars, CommitPlaylist, control, player, history
  <2>2. Noticed /\ OthersInv'
    BY <1>0, <2>1 DEF Noticed, OthersInv
  <2>. QED BY <1>0, <1>1, <2>2, NoticeKeeps DEF RadioInv
<1>3. ASSUME NEW p \in Callers \ {"main"}, CallStep(p) \/ Announce(p) \/ WifiStep PROVE RadioInv'
  BY <1>0, <1>1, <1>3, NoticeStep, NoticeKeeps DEF RadioInv
<1>4. CASE CallStep("main")
  <2>1. ControlInv'
    BY <1>4, MainEnqueue, MainCancels, MainRecords, MainLooks, MainDecides DEF CallStep
  <2>2. \E c : Goes("main", c)
    BY <1>4 DEF CallStep, Enqueue, CancelPending, RecordIntent, Look, Decide, ResetQueue
  <2>3. OthersInv'
    BY <1>0, <2>2, MainGoes
  <2>. QED BY <1>1, <2>1, <2>3 DEF RadioInv
<1>5. CASE UserStep("main") \/ NoControls \/ ObserveLink
  <2>1. ControlInv'
    BY <1>5, MainAsks
  <2>2. call' = call \/ \E c : Goes("main", c)
    BY <1>5 DEF UserStep, PlayStation, Step, Stop, Toggle, Send, SelectOther, NoControls, ObserveLink
  <2>3. OthersInv'
    BY <1>0, <2>2, MainGoes
  <2>. QED BY <1>1, <2>1, <2>3 DEF RadioInv
<1>6. CASE Receive \/ SyncPlaylist \/ TakeUrl \/ Announced \/ Connected \/ Service \/ Restore \/ Retry \/ NoRetry
  <2>1. ControlInv'
    BY <1>6, MainReceives, MainPlays
  <2>2. call' = call
    BY <1>6 DEF Receive, SyncPlaylist, TakeUrl, Announced, Connected, Service, Restore, Retry, NoRetry
  <2>3. OthersInv'
    BY <1>0, <2>2, MainGoes
  <2>. QED BY <1>1, <2>1, <2>3 DEF RadioInv
<1>7. CASE Next
  <2>1. CASE MainStep
    BY <1>5, <1>6, <2>1 DEF MainStep
  <2>2. CASE WifiStep
    <3>1. "wifi" \in Callers \ {"main"}
      BY DEF Callers
    <3>. QED BY <1>3, <2>2, <3>1
  <2>3. CASE \E p \in Callers : CallStep(p)
    BY <1>3, <1>4, <2>3
  <2>4. CASE \E p \in Operators : UserStep(p)
    BY <1>5, <2>4
  <2>5. CASE \E p \in Tasks : Announce(p)
    <3>1. \A p \in Tasks : p \in Callers \ {"main"}
      BY TaskAssumption DEF Callers
    <3>. QED BY <1>3, <2>5, <3>1
  <2>. QED BY <1>2, <1>7, <2>1, <2>2, <2>3, <2>4, <2>5 DEF Next
<1>. QED BY <1>2, <1>7

\* The inductive invariant of the source manager and the player, for any
\* stations, tasks, queue and bounds: where the user commands come from the
\* main loop (the controls) and it finds room in the queue.
THEOREM RadioInvariantHolds ==
  ASSUME Operators \subseteq {"main"}
  PROVE  Spec /\ []Room => []RadioInv
  <1>1. Init => RadioInv
    BY RadioInit
  <1>2. RadioInv /\ Room /\ [Next]_vars => RadioInv'
    BY RadioStep
  <1>. QED BY <1>1, <1>2, PTL DEF Spec

\* Nothing is on its way: nothing is to be sent, and nothing is to be done.
LEMMA AtRest ==
  ASSUME RadioInv, Settled
  PROVE  /\ queue = <<>> /\ mainAt = "observe" /\ (Radio <=> stream = "radio") /\ ~Changing
         /\ \A type : ~Sends(type)
         /\ \A types : ~Holds(queue, types) /\ ~Holds(Main.todo, types)
         /\ \A wins, loses : ~EndsIn(queue, wins, loses)
  <1>1. queue = <<>> /\ mainAt = "observe" /\ Main.at = "idle"
    BY DEF Settled, Main, Callers, Idle
  <1>. QED BY <1>1, MainIdle, None DEF Radio

\* A radio the user stopped stays silent (Player::_applyStop,
\* sourceManagerRadioResumeAllowed).
THEOREM AlwaysStopHonoured ==
  ASSUME Operators \subseteq {"main"}
  PROVE  Spec /\ []Room => []StopHonoured
  <1>1. RadioInv => StopHonoured
    <2> SUFFICES ASSUME RadioInv, Settled, ~source.intent PROVE stream # "radio"
      BY DEF StopHonoured
    <2>. QED BY AtRest, MainParts DEF SilenceInv, Stopped, Silenced
  <1>. QED BY <1>1, RadioInvariantHolds, PTL

\* A radio the user started plays or is about to be connected again
\* (scheduleRadioReconnect, radioActions).
THEOREM AlwaysPlayHonoured ==
  ASSUME Operators \subseteq {"main"}
  PROVE  Spec /\ []Room => []PlayHonoured
  <1>1. RadioInv => PlayHonoured
    <2> SUFFICES ASSUME RadioInv, Settled, source.active = "radio", source.intent, ~Busy(temp), ~quiet
                 PROVE  stream = "radio" \/ reconnect
      BY DEF PlayHonoured
    <2>. QED BY AtRest, MainParts DEF PlayInv, Plays, Started
  <1>. QED BY <1>1, RadioInvariantHolds, PTL

\* The station that plays is the one the user asked for last
\* (recordRadioCommand, radioStationForResume).
THEOREM AlwaysStationHonoured ==
  ASSUME Operators \subseteq {"main"}
  PROVE  Spec /\ []Room => []StationHonoured
  <1>1. RadioInv => StationHonoured
    <2> SUFFICES ASSUME RadioInv, Settled, stream = "radio", source.intent, ~overtaken, source.station = NoStation
                 PROVE  tuned = chosen
      BY DEF StationHonoured
    <2>. QED BY AtRest, MainParts DEF StationInv
  <1>. QED BY <1>1, RadioInvariantHolds, PTL

\* While Bluetooth is the selected source the radio does not run, unless the
\* user asked for it then (stopOnSourceChange).
THEOREM AlwaysBluetoothAlone ==
  ASSUME Operators \subseteq {"main"}
  PROVE  Spec /\ []Room => []BluetoothAlone
  <1>1. RadioInv => BluetoothAlone
    <2> SUFFICES ASSUME RadioInv, Settled, source.active = "bt", ~asked PROVE stream # "radio"
      BY DEF BluetoothAlone
    <2>. QED BY AtRest, MainParts DEF SilenceInv, Displaced, Silenced
  <1>. QED BY <1>1, RadioInvariantHolds, PTL

-----------------------------------------------------------------------------
(* The room in the queue.                                                   *)

\* A bound on the load survives a turn that gives as much as it takes.
LEMMA Trade ==
  ASSUME NEW load \in Nat, NEW next \in Nat, NEW share \in 1 .. 2, NEW later \in 1 .. 2, NEW size \in Nat,
         size > 1, load + 2 <= size + share, next <= later \/ next + share <= load + later
  PROVE  next + 2 <= size + later
  OBVIOUS

\* The main loop sends two commands at most, and none after its observation.
LoadOK ==
    /\ Len(queue) \in Nat /\ Len(queue) <= QueueSize /\ Unsent \in 0 .. 2 /\ Load \in Nat /\ Share \in 1 .. 2
    /\ mainAt \notin {"observe", "receive"} => Unsent = 0
    /\ Main.at = "send" => Unsent > 0
LEMMA LoadTyped == RadioInv => LoadOK
<1> SUFFICES ASSUME RadioInv PROVE LoadOK
  OBVIOUS
<1>1. Len(queue) \in Nat /\ Len(queue) <= QueueSize /\ QueueSize \in Nat
  BY MainParts, QueueAssumption, LenProperties DEF TypeInv, QueueTyped
<1>2. Len(Main.todo) \in 0 .. 2 /\ (Len(Main.todo) = 0 <=> Main.todo = <<>>)
  <2>1. \A todo \in MainCalls : Len(todo) \in 0 .. 2 /\ (Len(todo) = 0 <=> todo = <<>>)
    BY DEF MainCalls
  <2>. QED BY <2>1, MainParts
<1>3. /\ Main.at \in {"cancel", "record", "send"} => Main.todo # <<>>
      /\ mainAt \notin {"observe", "receive"} => Main.at = "idle" /\ Main.todo = <<>>
  BY MainParts DEF MainInv
<1>4. Unsent \in 0 .. 2 /\ (mainAt \notin {"observe", "receive"} => Unsent = 0) /\ (Main.at = "send" => Unsent > 0)
  BY <1>2, <1>3 DEF Unsent
<1>. QED BY <1>1, <1>4 DEF LoadOK, Load, Share

\* A call of the main loop adds nothing to its load, or replaces all of it.
LEMMA MainCallLoad ==
  ASSUME RadioInv, RadioInv', CallStep("main")
  PROVE  Share' = Share /\ (Load' <= Load \/ Load' <= Share)
<1>a. RadioInv' => LoadOK'
  BY LoadTyped, PTL
<1>b. Share' = Share
  BY DEF CallStep, Enqueue, CancelPending, RecordIntent, Look, Decide, Share
<1>0. /\ Share' = Share /\ Main \in Calls /\ "main" \in Callers
      /\ TypeInv /\ queue \in Seq(Commands) /\ Main.todo \in MainCalls /\ MainInv
      /\ Len(queue) \in Nat /\ Len(queue') \in Nat /\ Unsent \in 0 .. 2 /\ Unsent' \in 0 .. 2
  BY <1>a, <1>b, LoadTyped, MainParts DEF LoadOK
<1>1. ASSUME Main.at \in {"send", "cancel", "record"}
      PROVE  Len(Main.todo) \in Nat /\ Len(Tail(Main.todo)) = Len(Main.todo) - 1
  <2>1. Main.todo \in Seq(Commands) /\ Main.todo # <<>>
    BY <1>0, <1>1, MainCallsTyped DEF MainInv
  <2>. QED BY <2>1, HeadTailProperties, EmptySeq, LenProperties
<1>2. ASSUME Goes("main", Pop("main")), Main.at \in {"send", "cancel", "record"}
      PROVE  Unsent' = Len(Main.todo) - 1
  <2>1. Main'.todo = Tail(Main.todo) /\ Main'.at \in {"idle", "send"}
    BY <1>2, MainPops
  <2>. QED BY <1>1, <1>2, <2>1 DEF Unsent
<1>3. CASE Enqueue("main")
  <2>1. Main.at = "send" /\ Unsent = Len(Main.todo)
    BY <1>3 DEF Enqueue, Main, Unsent
  <2>2. CASE Goes("main", Pop("main"))
    <3>1. Len(queue') <= Len(queue) + 1
      <4>1. Head(Main.todo) \in Commands
        BY <1>0, <2>1, MainCallsTyped DEF MainInv
      <4>2. queue' = queue \/ queue' = Append(queue, Head(Main.todo))
        BY <1>3 DEF Enqueue, Main
      <4>. QED BY <1>0, <4>1, <4>2, AppendProperties
    <3>. QED BY <1>0, <1>1, <1>2, <2>1, <2>2, <3>1 DEF Load
  <2>3. CASE Goes("main", [call["main"] EXCEPT !.at = "cancel"])
    <3>1. Main' = [Main EXCEPT !.at = "cancel"]
      BY <1>0, <2>3, Going DEF Main
    <3>2. Main'.at = "cancel" /\ Main'.todo = Main.todo
      BY <1>0, <3>1 DEF Calls
    <3>3. Unsent' = Len(Main.todo) - 1
      BY <3>2 DEF Unsent
    <3>4. Len(queue') <= Len(queue) + 1
      <4>1. Head(Main.todo) \in Commands
        BY <1>0, <2>1, MainCallsTyped DEF MainInv
      <4>2. queue' = queue \/ queue' = Append(queue, Head(Main.todo))
        BY <1>3 DEF Enqueue, Main
      <4>. QED BY <1>0, <4>1, <4>2, AppendProperties
    <3>. QED BY <1>0, <1>1, <2>1, <3>3, <3>4 DEF Load
  <2>. QED BY <1>3, <2>2, <2>3 DEF Enqueue
<1>4. CASE CancelPending("main")
  <2>1. Main.at = "cancel" /\ Unsent = Len(Main.todo) - 1 /\ queue' = queue
    BY <1>4 DEF CancelPending, Main, Unsent, control
  <2>2. CASE Goes("main", Pop("main"))
    BY <1>0, <1>2, <2>1, <2>2 DEF Load
  <2>3. CASE Goes("main", [call["main"] EXCEPT !.at = "record"])
    <3>1. Main' = [Main EXCEPT !.at = "record"]
      BY <1>0, <2>3, Going DEF Main
    <3>2. Main'.at = "record" /\ Main'.todo = Main.todo
      BY <1>0, <3>1 DEF Calls
    <3>. QED BY <1>0, <2>1, <3>2 DEF Load, Unsent
  <2>. QED BY <1>4, <2>2, <2>3 DEF CancelPending
<1>5. CASE RecordIntent("main")
  <2>1. Main.at = "record" /\ Unsent = Len(Main.todo) - 1 /\ queue' = queue /\ Goes("main", Pop("main"))
    BY <1>5 DEF RecordIntent, Main, Unsent
  <2>. QED BY <1>0, <1>2, <2>1 DEF Load
<1>6. CASE Look("main")
  <2>1. Main.at = "look" /\ Unsent = 0 /\ queue' = queue
    <3>1. Main.at = "look" /\ queue' = queue
      BY <1>6 DEF Look, Main, control
    <3>. QED BY <1>0, <3>1, None DEF MainInv, Unsent
  <2>2. Main'.todo = <<>> /\ Main'.at \in {"idle", "decide"}
    <3>1. \/ Main' = Idle
          \/ \E seen : Main' = [Main EXCEPT !.at = "decide", !.seen = seen]
      BY <1>0, <1>6, Going DEF Look, Main
    <3>2. Main.todo = <<>>
      BY <1>0, <2>1 DEF MainInv
    <3>3. CASE Main' = Idle
      BY <3>3 DEF Idle
    <3>4. ASSUME NEW seen, Main' = [Main EXCEPT !.at = "decide", !.seen = seen]
          PROVE  Main'.todo = Main.todo /\ Main'.at = "decide"
      BY <1>0, <3>4 DEF Calls
    <3>. QED BY <3>1, <3>2, <3>3, <3>4
  <2>3. Unsent' = 0
    BY <2>2, None DEF Unsent
  <2>. QED BY <1>0, <2>1, <2>3 DEF Load
<1>7. CASE Decide("main")
  <2>1. queue' = <<>> /\ Main.at = "decide"
    BY <1>7 DEF Decide, ResetQueue, Main
  <2>2. mainAt \in {"observe", "receive"}
    BY <1>0, <2>1 DEF MainInv
  <2>3. Len(queue') = 0 /\ Share = 2
    BY <2>1, <2>2, None DEF Share
  <2>4. Len(queue') + Unsent' <= Share
    <3>1. Unsent' \in 0 .. 2
      BY <1>0
    <3>2. \A n \in 0 .. 2 : 0 + n <= 2
      OBVIOUS
    <3>. QED BY <2>3, <3>1, <3>2
  <2>. QED BY <1>b, <2>4 DEF Load
<1>. QED BY <1>3, <1>4, <1>5, <1>6, <1>7 DEF CallStep

\* A turn of the loop takes one command from the queue and sends one.
LEMMA MainTurnLoad ==
  ASSUME RadioInv, RadioInv', UserStep("main") \/ MainStep
  PROVE  Load' <= Share' \/ Load' + Share <= Load + Share'
<1>a. RadioInv' => LoadOK'
  BY LoadTyped, PTL
<1>0. /\ TypeInv /\ Main \in Calls /\ "main" \in Callers /\ queue \in Seq(Commands)
      /\ Len(queue) \in Nat /\ Len(queue') \in Nat /\ Unsent \in 0 .. 2 /\ Unsent' \in 0 .. 2
      /\ Share \in 1 .. 2 /\ Share' \in 1 .. 2
  BY <1>a, LoadTyped, MainParts DEF LoadOK
<1>1. ASSUME Main.at = "idle" PROVE Unsent = 0
  BY <1>1, MainIdle, None DEF Unsent
<1>2. CASE Receive
  <2>1. /\ Main.at = "idle" /\ Main' = Main /\ mainAt = "receive" /\ queue' = IF queue = <<>> THEN queue ELSE Tail(queue)
    BY <1>2 DEF Receive, Main
  <2>2. Share = 2 /\ Unsent = 0 /\ Unsent' = 0
    BY <1>1, <2>1 DEF Share, Unsent
  <2>3. CASE queue = <<>>
    <3>1. Len(queue') = 0
      BY <2>1, <2>3, None
    <3>. QED BY <1>0, <2>2, <3>1 DEF Load
  <2>4. CASE queue # <<>>
    <3>1. Len(queue') = Len(queue) - 1
      BY <1>0, <2>1, <2>4, Taken
    <3>. QED BY <1>0, <2>2, <3>1 DEF Load
  <2>. QED BY <2>3, <2>4
<1>3. CASE ObserveLink
  <2>1. /\ Main.at = "idle" /\ mainAt = "observe" /\ mainAt' = "receive" /\ queue' = queue
        /\ Main' = Idle \/ \E reason : Main' = Changed(reason)
    BY <1>0, <1>3, Going DEF ObserveLink, Main
  <2>2. Main'.todo = <<>> /\ Main'.at \in {"idle", "look"}
    <3>1. \A reason : Changed(reason).todo = <<>> /\ Changed(reason).at = "look"
      BY DEF Idle, Changed
    <3>. QED BY <2>1, <3>1 DEF Idle
  <2>3. Unsent = 0 /\ Unsent' = 0 /\ Share' = Share
    BY <1>1, <2>1, <2>2, None DEF Unsent, Share
  <2>. QED BY <1>0, <2>1, <2>3 DEF Load
<1>4. CASE UserStep("main") \/ NoControls
  <2>1. /\ Main.at = "idle" /\ mainAt = "controls" /\ mainAt' = "observe" /\ queue' = queue
        /\ \/ Main' = Main \/ Main' = Changed("manual")
           \/ \E c : Main' = Sending(<<c>>, "none")
    BY <1>0, <1>4, Going
    DEF UserStep, PlayStation, Step, Stop, Toggle, Send, SelectOther, NoControls, At, Free, Main, control
  <2>2. Share = 1 /\ Share' = 2 /\ Unsent = 0
    BY <1>1, <2>1 DEF Share
  <2>3. Unsent' <= 1
    <3>1. CASE Main' = Main
      BY <2>1, <2>2, <3>1 DEF Unsent
    <3>2. CASE Main' = Changed("manual")
      <4>1. Main'.todo = <<>> /\ Main'.at = "look"
        BY <3>2 DEF Changed, Idle
      <4>. QED BY <4>1, None DEF Unsent
    <3>3. ASSUME NEW c, Main' = Sending(<<c>>, "none") PROVE Unsent' <= 1
      <4>1. Len(<<c>>) = 1 /\ <<c>> # <<>>
        OBVIOUS
      <4>2. Main'.todo = <<c>> /\ Main'.at = "send"
        BY <3>3, <4>1 DEF Sending
      <4>. QED BY <4>1, <4>2 DEF Unsent
    <3>. QED BY <2>1, <3>1, <3>2, <3>3
  <2>. QED BY <1>0, <2>1, <2>2, <2>3 DEF Load
<1>5. CASE SyncPlaylist \/ TakeUrl \/ Announced \/ Connected \/ Service \/ Restore \/ Retry \/ NoRetry
  <2>1. /\ Main.at = "idle" /\ Main' = Main /\ queue' = queue /\ mainAt \notin {"observe", "receive"}
    BY <1>5 DEF SyncPlaylist, TakeUrl, Announced, Connected, Service, Restore, Retry, NoRetry, At, Main, control
  <2>2. Unsent = 0 /\ Unsent' = Unsent /\ Share = 1
    BY <1>1, <2>1 DEF Unsent, Share
  <2>. QED BY <1>0, <2>1, <2>2 DEF Load
<1>. QED BY <1>2, <1>3, <1>4, <1>5 DEF MainStep

LEMMA MainLoad ==
  ASSUME RadioInv, RadioInv', CallStep("main") \/ UserStep("main") \/ MainStep
  PROVE  Load' <= Share' \/ Load' + Share <= Load + Share'
<1>a. RadioInv' => LoadOK'
  BY LoadTyped, PTL
<1>0. Load \in Nat /\ Load' \in Nat /\ Share \in 1 .. 2 /\ Share' \in 1 .. 2
  BY <1>a, LoadTyped DEF LoadOK
<1>1. CASE CallStep("main")
  <2>1. Share' = Share /\ (Load' <= Load \/ Load' <= Share)
    BY <1>1, MainCallLoad
  <2>2. \A load, next \in Nat, share \in 1 .. 2 : next <= load => next + share <= load + share
    OBVIOUS
  <2>. QED BY <1>0, <2>1, <2>2
<1>. QED BY <1>1, MainTurnLoad

\* Another task adds one notice at most, when it sends one.
LEMMA NoticeLoad ==
  ASSUME RadioInv, NEW p \in Callers \ {"main"}, CallStep(p) \/ Announce(p) \/ WifiStep
  PROVE  /\ Share' = Share /\ Unsent' = Unsent
         /\ Len(queue') = Len(queue) \/ (Enqueue(p) /\ Len(queue') = Len(queue) + 1)
<1>0. TypeInv /\ OthersInv /\ queue \in Seq(Commands)
  BY MainParts
<1>1. Noticed
  BY <1>0, NoticeStep
<1>2. Share' = Share /\ Unsent' = Unsent
  BY <1>1 DEF Noticed, Share, Unsent, Main
<1>3. \A c \in Commands : Len(Append(queue, c)) = Len(queue) + 1
  BY <1>0, AppendProperties
<1>4. ~Enqueue(p) => queue' = queue
  BY <1>0 DEF CallStep, CancelPending, RecordIntent, Look, Decide, Announce, WifiStep,
              WifiLost, WifiLostDecide, WifiGotIp, WifiGotIpDecide, control, OthersInv
<1>. QED BY <1>1, <1>2, <1>3, <1>4 DEF Noticed

\* Every step is one of the main loop, one of another task or a saved playlist.
LEMMA Actors ==
  ASSUME Operators \subseteq {"main"}, Next
  PROVE  \/ CallStep("main") \/ UserStep("main") \/ MainStep
         \/ \E p \in Callers \ {"main"} : CallStep(p) \/ (p \in Tasks /\ Announce(p)) \/ WifiStep
         \/ CommitPlaylist
  BY TaskAssumption DEF Next, Callers

LEMMA CalmStep ==
  ASSUME Operators \subseteq {"main"}, QueueSize > 1, RadioInv, RadioInv', CalmInv, [Next /\ Calm]_vars
  PROVE  CalmInv'
<1>a. RadioInv' => LoadOK'
  BY LoadTyped, PTL
<1>0. /\ QueueSize \in Nat /\ Load \in Nat /\ Load' \in Nat /\ Share \in 1 .. 2 /\ Share' \in 1 .. 2
      /\ Len(queue) \in Nat /\ Unsent \in 0 .. 2 /\ (mainAt \notin {"observe", "receive"} => Unsent = 0)
  BY <1>a, LoadTyped, QueueAssumption DEF LoadOK
<1>1. CASE UNCHANGED vars \/ CommitPlaylist
  <2>1. Load' = Load /\ Share' = Share
    BY <1>1 DEF vars, CommitPlaylist, control, Load, Share, Unsent, Main
  <2>. QED BY <2>1 DEF CalmInv
<1>2. CASE CallStep("main") \/ UserStep("main") \/ MainStep
  <2>1. Load' <= Share' \/ Load' + Share <= Load + Share'
    BY <1>2, MainLoad
  <2>2. Load + 2 <= QueueSize + Share
    BY DEF CalmInv
  <2>3. Load' + 2 <= QueueSize + Share'
    BY <1>0, <2>1, <2>2, Trade
  <2>. QED BY <2>3 DEF CalmInv
<1>3. ASSUME NEW p \in Callers \ {"main"}, CallStep(p) \/ (p \in Tasks /\ Announce(p)) \/ WifiStep, Calm PROVE CalmInv'
  <2>1. /\ Share' = Share /\ Unsent' = Unsent
        /\ Len(queue') = Len(queue) \/ (Enqueue(p) /\ Len(queue') = Len(queue) + 1)
    BY <1>3, NoticeLoad
  <2>2. Len(queue') = Len(queue) \/ (Len(queue) + 3 <= QueueSize /\ Len(queue') = Len(queue) + 1)
    BY <1>3, <2>1 DEF Calm
  <2>3. Unsent <= Share
    BY <1>0 DEF Share
  <2>. QED BY <1>0, <2>1, <2>2, <2>3 DEF CalmInv, Load
<1>. QED BY <1>1, <1>2, <1>3, Actors

\* The main loop finds room when a notice does not come before three places
\* are free: the loop keeps two of them busy at most (Player::loop takes one
\* command in a round, stopOnSourceChange empties the queue first).
LEMMA CalmRoom ==
  ASSUME RadioInv, CalmInv
  PROVE  Room
  BY LoadTyped, QueueAssumption DEF LoadOK, CalmInv, Room, Load, Main

LEMMA CalmInit == QueueSize > 1 /\ Init => CalmInv
  <1> SUFFICES ASSUME QueueSize > 1, Init PROVE CalmInv
    OBVIOUS
  <1>1. queue = <<>> /\ mainAt = "observe" /\ Main.at = "idle" /\ Main.todo = <<>>
    BY DEF Init, Main, Callers, Idle
  <1>. QED BY <1>1, None, QueueAssumption DEF CalmInv, Load, Unsent, Share

\* What a user asks of the radio never finds the queue full, if no notice
\* comes before three places are free: for any number of commands, changes of
\* the link, notices and failures.
THEOREM RoomWhenCalm ==
  ASSUME Operators \subseteq {"main"}, QueueSize > 1
  PROVE  Spec /\ [][Calm]_vars => [](RadioInv /\ Room)
  <1> DEFINE Inv == RadioInv /\ CalmInv
  <1>1. Init => Inv
    BY RadioInit, CalmInit
  <1>2. Inv /\ [Next]_vars /\ [Calm]_vars => Inv'
    <2>1. RadioInv /\ CalmInv => Room
      BY CalmRoom
    <2>2. RadioInv /\ Room /\ [Next]_vars => RadioInv'
      BY RadioStep
    <2>3. [Next]_vars /\ [Calm]_vars => [Next /\ Calm]_vars
      OBVIOUS
    <2>4. RadioInv /\ RadioInv' /\ CalmInv /\ [Next /\ Calm]_vars => CalmInv'
      BY CalmStep
    <2>. QED BY <2>1, <2>2, <2>3, <2>4
  <1>3. Inv => RadioInv /\ Room
    BY CalmRoom
  <1>. HIDE DEF Inv
  <1>. QED BY <1>1, <1>2, <1>3, PTL DEF Spec

\* The same when the notices are calm, however many there are.
THEOREM HonouredWhenCalm ==
  ASSUME Operators \subseteq {"main"}, QueueSize > 1
  PROVE  Spec /\ [][Calm]_vars => [](StopHonoured /\ PlayHonoured /\ StationHonoured /\ BluetoothAlone)
  BY RoomWhenCalm, AlwaysStopHonoured, AlwaysPlayHonoured, AlwaysStationHonoured, AlwaysBluetoothAlone, PTL
=============================================================================
