---------------------------- MODULE ConnectAttempt ----------------------------
(***************************************************************************)
(* A radio connection that can be given up (radio_connect_lifetime.h, and   *)
(* connectToHost and connectTask of Audio.cpp).  The caller, the main loop, *)
(* starts a worker task that connects, and waits for it at most a timeout;  *)
(* any task may ask it to give up.  The worker is never killed: it alone    *)
(* frees its parameters and decides, by compare-and-swap on state_, whether *)
(* the connection is handed over.  One step is one atomic access, one       *)
(* callback of complete, or one decision of the wait.  What the stream      *)
(* handlers do to a connection that was handed over is left out.  In        *)
(* RadioControl an attempt is the step Connected; the two modules are       *)
(* proved about together (Radio_proofs), so their specifications have       *)
(* different names.                                                         *)
(***************************************************************************)
VARIABLES
    watchdog,   \* config.store.watchdog: connect in a worker
    state,      \* ConnectAttemptLifetime::state_
    caller,     \* where connectToHost is
    worker,     \* where the task that completes the attempt is
    connected,  \* what the worker's connect returned
    params,     \* the worker's parameters are allocated
    socket,     \* the TCP connection of the client
    result,     \* what connectToHost returned last
    accepted    \* history: a cancellation of this attempt was accepted

attemptVars == <<watchdog, state, caller, worker, connected, params, socket, result, accepted>>

Canceling == {"CancelRequested", "FinalizingCanceled"}
Active == {"Connecting", "FinalizingSuccess", "FinalizingFailure"} \cup Canceling
States == {"Idle", "Succeeded", "Failed", "Canceled"} \cup Active

AttemptTypeOK ==
    /\ watchdog \in BOOLEAN /\ state \in States
    /\ caller \in {"out", "entered", "begun", "alone", "waiting", "looked", "expired", "done"}
    /\ worker \in {"none", "connecting", "complete", "cleanup", "publish", "reject", "store"}
    /\ connected \in BOOLEAN /\ params \in BOOLEAN
    /\ socket \in {"closed", "open"} /\ result \in {"none", "open", "failed"}
    /\ accepted \in BOOLEAN

AttemptInit ==
    /\ watchdog \in BOOLEAN
    /\ state = "Idle" /\ caller = "out" /\ worker = "none" /\ connected = FALSE
    /\ params = FALSE /\ socket = "closed" /\ result = "none" /\ accepted = FALSE

-----------------------------------------------------------------------------
(* requestCancel: the compare-and-swap loop ends on one of these moves.     *)

\* Variant: a worker that finalizes is not interrupted.
RequestCancel_NotFinalizing(s) == IF s = "Connecting" THEN "CancelRequested" ELSE s

RequestCancel(s) ==
    CASE s = "Connecting" -> "CancelRequested"
      [] s \in {"FinalizingSuccess", "FinalizingFailure"} -> "FinalizingCanceled"
      [] OTHER -> s

Cancel ==
    /\ state' = RequestCancel(state)
    /\ accepted' = (accepted \/ RequestCancel(state) \in Canceling)

\* Another task: STOP, PLAY, a source change, or stopSong of the loop itself.
CancelPendingConnection ==
    /\ Cancel
    /\ UNCHANGED <<watchdog, caller, worker, connected, params, socket, result>>

-----------------------------------------------------------------------------
(* connectToHost.                                                           *)

\* No host, or one that is too long.
RefuseHost ==
    /\ caller = "out" /\ result' = "failed"
    /\ UNCHANGED <<watchdog, state, caller, worker, connected, params, socket, accepted>>

\* A URL that cannot be used, of the station or of a playlist or redirect:
\* the client is stopped without asking whether a given-up worker still has
\* it (or another one, if a refused attempt has changed the client since).
ResolutionError ==
    /\ caller = "out" /\ result' = "failed"
    /\ socket' \in IF state \in Active THEN {socket, "closed"} ELSE {"closed"}
    /\ Cancel
    /\ UNCHANGED <<watchdog, caller, worker, connected, params>>

\* Variant: setDefaults stops the client in any case.
Enter_Stops ==
    /\ caller = "out" /\ caller' = "entered"
    /\ socket' = "closed" /\ Cancel
    /\ UNCHANGED <<watchdog, worker, connected, params, result>>

\* setDefaults: the pending attempt is cancelled, and the client is stopped
\* unless a worker may be using it.
Enter ==
    /\ caller = "out" /\ caller' = "entered"
    /\ Cancel
    /\ socket' = IF state \in Active THEN socket ELSE "closed"
    /\ UNCHANGED <<watchdog, worker, connected, params, result>>

\* Without the watchdog the caller connects by itself.
ConnectDirectly ==
    /\ caller = "entered" /\ ~watchdog /\ caller' = "out"
    /\ \/ socket' = "open" /\ result' = "open"
       \/ socket' = socket /\ result' = "failed"
    /\ UNCHANGED <<watchdog, state, worker, connected, params, accepted>>

BeginAttempt ==
    /\ caller = "entered" /\ watchdog /\ state \notin Active
    /\ state' = "Connecting" /\ accepted' = FALSE
    /\ caller' = "begun"
    /\ UNCHANGED <<watchdog, worker, connected, params, socket, result>>

\* The worker of the previous attempt is still at work.
RefuseAttempt ==
    /\ caller = "entered" /\ watchdog /\ state \in Active
    /\ caller' = "out" /\ result' = "failed"
    /\ UNCHANGED <<watchdog, state, worker, connected, params, socket, accepted>>

Spawn ==
    /\ caller = "begun" /\ caller' = "waiting"
    /\ params' = TRUE /\ worker' = "connecting"
    /\ UNCHANGED <<watchdog, state, connected, socket, result, accepted>>

\* No memory, or no task: the caller completes the attempt itself.
NoWorker ==
    /\ caller = "begun" /\ caller' = "alone"
    /\ params' \in BOOLEAN /\ worker' = "complete" /\ connected' = FALSE
    /\ UNCHANGED <<watchdog, state, socket, result, accepted>>

Alone ==
    /\ caller = "alone" /\ worker = "none"
    /\ caller' = "out" /\ result' = "failed"
    /\ UNCHANGED <<watchdog, state, worker, connected, params, socket, accepted>>

\* One round of the wait: it ends when the attempt is over or was cancelled;
\* otherwise the loop sleeps, or the time is up and it cancels by itself.
Leave ==
    /\ caller = "waiting" /\ (state \notin Active \/ state \in Canceling)
    /\ caller' = "done"
    /\ UNCHANGED <<watchdog, state, worker, connected, params, socket, result, accepted>>

Stay ==
    /\ caller = "waiting" /\ state \in Active \ Canceling
    /\ caller' = "looked"
    /\ UNCHANGED <<watchdog, state, worker, connected, params, socket, result, accepted>>

Sleep ==
    /\ caller = "looked" /\ caller' = "waiting"
    /\ UNCHANGED <<watchdog, state, worker, connected, params, socket, result, accepted>>

Expire ==
    /\ caller = "looked" /\ Cancel
    /\ caller' = "expired"
    /\ UNCHANGED <<watchdog, worker, connected, params, socket, result>>

AfterExpiry ==
    /\ caller = "expired"
    /\ caller' = IF state \in Canceling THEN "done" ELSE "waiting"
    /\ UNCHANGED <<watchdog, state, worker, connected, params, socket, result, accepted>>

Return ==
    /\ caller = "done" /\ caller' = "out"
    /\ result' = IF state = "Succeeded" THEN "open" ELSE "failed"
    /\ UNCHANGED <<watchdog, state, worker, connected, params, socket, accepted>>

CallerStep ==
    \/ RefuseHost \/ ResolutionError \/ Enter \/ ConnectDirectly
    \/ BeginAttempt \/ RefuseAttempt \/ Spawn \/ NoWorker \/ Alone
    \/ Leave \/ Stay \/ Sleep \/ Expire \/ AfterExpiry \/ Return

-----------------------------------------------------------------------------
(* connectTask and complete.                                                *)

Connect ==
    /\ worker = "connecting" /\ worker' = "complete"
    /\ connected' \in BOOLEAN
    /\ socket' = IF connected' THEN "open" ELSE socket
    /\ UNCHANGED <<watchdog, state, caller, params, result, accepted>>

\* Variant: the connection is all that counts.
Finalizing_Connected(s) == IF connected THEN "FinalizingSuccess" ELSE "FinalizingFailure"

\* The first compare-and-swap loop of complete.
Finalizing(s) ==
    CASE s = "Connecting" -> IF connected THEN "FinalizingSuccess" ELSE "FinalizingFailure"
      [] s = "CancelRequested" -> "FinalizingCanceled"
      [] OTHER -> s

Finalize ==
    /\ worker = "complete"
    /\ state \in {"Connecting", "CancelRequested"}
    /\ state' = Finalizing(state) /\ worker' = "cleanup"
    /\ UNCHANGED <<watchdog, caller, connected, params, socket, result, accepted>>

Cleanup ==
    /\ worker = "cleanup" /\ worker' = "publish"
    /\ params' = FALSE
    /\ UNCHANGED <<watchdog, state, caller, connected, socket, result, accepted>>

Publish ==
    /\ worker = "publish"
    /\ \/ state = "FinalizingCanceled" /\ worker' = "reject" /\ state' = state
       \/ state = "FinalizingSuccess" /\ worker' = "none" /\ state' = "Succeeded"
       \/ state = "FinalizingFailure" /\ worker' = "none" /\ state' = "Failed"
    /\ UNCHANGED <<watchdog, caller, connected, params, socket, result, accepted>>

Reject ==
    /\ worker = "reject" /\ worker' = "store"
    /\ socket' = IF connected THEN "closed" ELSE socket
    /\ UNCHANGED <<watchdog, state, caller, connected, params, result, accepted>>

\* Variant: the state is not stored.
Store_Missing ==
    /\ worker = "store" /\ worker' = "none"
    /\ UNCHANGED <<watchdog, state, caller, connected, params, socket, result, accepted>>

Store ==
    /\ worker = "store" /\ worker' = "none"
    /\ state' = "Canceled"
    /\ UNCHANGED <<watchdog, caller, connected, params, socket, result, accepted>>

WorkerStep == Connect \/ Finalize \/ Cleanup \/ Publish \/ Reject \/ Store

AttemptNext == CallerStep \/ WorkerStep \/ CancelPendingConnection

ConnectSpec == AttemptInit /\ [][AttemptNext]_attemptVars

\* With the watchdog, the loop goes on once it has entered connectToHost, its
\* timeout expires, and the attempt it completes by itself is completed; the
\* worker, the other tasks and a direct connect may rest.
FairConnectSpec ==
    /\ ConnectSpec
    /\ WF_attemptVars(watchdog /\ caller # "out" /\ CallerStep) /\ SF_attemptVars(Expire)
    /\ WF_attemptVars(caller = "alone" /\ WorkerStep)

-----------------------------------------------------------------------------
(* The inductive invariant.                                                 *)

\* The state says where the completing thread is.
Agree ==
    /\ worker = "none" => state \notin Active \/ caller = "begun"
    /\ state \notin Active => worker = "none" /\ caller # "begun"
    /\ worker \in {"connecting", "complete"} \/ caller = "begun" => state \in {"Connecting", "CancelRequested"}
    /\ worker \in {"cleanup", "publish"} => state \in {"FinalizingSuccess", "FinalizingFailure", "FinalizingCanceled"}
    /\ worker \in {"reject", "store"} => state = "FinalizingCanceled"
    /\ caller = "begun" => worker = "none"
    /\ ~watchdog => state = "Idle" /\ caller \in {"out", "entered"}

\* The parameters live from the start of the worker to its cleanup.
Allocated == params => worker \in {"connecting", "complete", "cleanup"}

\* An open connection belongs to the worker that opened it, or to the caller
\* of an attempt that succeeded.  Only a given-up attempt may lose it early.
Owned ==
    /\ worker = "none" /\ state # "Succeeded" /\ watchdog => socket = "closed"
    /\ worker \in {"connecting", "store"} => socket = "closed"
    /\ worker \in {"complete", "cleanup", "publish", "reject"} =>
          (socket = "open" => connected) /\ (connected /\ state \notin Canceling => socket = "open")
    /\ state = "FinalizingSuccess" => connected
    /\ state = "FinalizingFailure" => ~connected
    /\ caller \in {"waiting", "looked", "expired", "done"} /\ state = "Succeeded" => socket = "open"

\* The caller turns away only from an attempt that is over or given up.
Left ==
    /\ caller \in {"out", "entered", "done"} => state \in Canceling \/ state \notin Active
    /\ caller = "entered" /\ state \notin Active => socket = "closed"
    /\ caller = "alone" => worker # "connecting" /\ ~connected /\ state # "Succeeded"

Remembered == accepted => state \in Canceling \cup {"Canceled"}

\* What every step keeps, and what the properties follow from.
AttemptInv == AttemptTypeOK /\ Agree /\ Allocated /\ Owned /\ Left /\ Remembered

-----------------------------------------------------------------------------
(* Properties                                                               *)

\* A cancellation that was accepted is never answered by a connection.
CancelHonoured == accepted => state # "Succeeded"

\* The caller is told of a connection only when it is open and no worker can
\* touch it any more.
HandedOver ==
    caller = "done" /\ state = "Succeeded" => socket = "open" /\ worker = "none"

\* An attempt that is over has freed its parameters and left a connection
\* only to a caller that asked for one.
NothingLeft ==
    state \notin Active => ~params /\ (watchdog /\ state # "Succeeded" => socket = "closed")

\* The verdict is given once, by one thread: complete is never entered, and
\* never publishes, in a state it does not expect ("Connect worker completed
\* in an invalid state", Audio.cpp:406).
NeverInvalid ==
    /\ worker = "complete" => state \in {"Connecting", "CancelRequested"}
    /\ worker = "publish" => state \in {"FinalizingSuccess", "FinalizingFailure", "FinalizingCanceled"}

\* A connection is closed by its worker, or by the loop when no worker runs.
\* The one exception is resolutionError, which does not ask, and it can only
\* meet the connection of an attempt that was given up.
ClosedByOwner ==
    [][socket = "open" /\ socket' = "closed" =>
          worker \in {"reject", "none"} \/ (ResolutionError /\ state \in Canceling)]_attemptVars

\* The attempt as its caller sees it.
Phase ==
    CASE state = "Idle" -> "rest"
      [] state = "Succeeded" -> "succeeded"
      [] state \in {"Failed", "Canceled"} -> "failed"
      [] state \in Canceling -> "doomed"
      [] OTHER -> "pending"
Attempt == INSTANCE CancellableAttempt WITH phase <- Phase
AttemptSpec == Attempt!Spec

\* With the watchdog connectToHost returns, even if the worker hangs in connect.
CallerReturns == watchdog /\ caller = "entered" ~> caller = "out"

\* Every attempt ends, so that the next one is admitted, if the worker's
\* connect does (it is bounded by a timeout of its own).
AttemptEnds == WF_attemptVars(WorkerStep) => ((state \in Active) ~> (state \notin Active))
=============================================================================
