------------------------------ MODULE RadioState ------------------------------
(***************************************************************************)
(* The two small state machines that decide what the radio may do, as      *)
(* operators on records: SourceManagerState (source_manager_state.h), which *)
(* keeps the selected source and the user's PLAY/STOP intent, and           *)
(* TemporaryAudioState (temporary_audio_state.h), which keeps an            *)
(* announcement and the restore that follows it.                            *)
(***************************************************************************)
CONSTANTS Stations, NoStation

ASSUME StationAssumption == NoStation \notin Stations

-----------------------------------------------------------------------------
(* SourceManagerState.  A Bluetooth link is "absent" (no module or a module *)
(* switched off), "ready" (module, no peer) or "connected".                 *)

Links == {"absent", "ready", "connected"}

Sources == [active : {"radio", "bt"},       \* active_
            intent : BOOLEAN,               \* radioPlayIntent_
            station : Stations \cup {NoStation},    \* pendingRadioStation_
            stop : BOOLEAN,                 \* pendingRadioStop_
            observed : BOOLEAN]             \* observedConnected_

InitialSource == [active |-> "radio", intent |-> FALSE, station |-> NoStation,
                  stop |-> FALSE, observed |-> FALSE]

RecordCommand(s, play, station) ==
    [s EXCEPT !.intent = play, !.station = IF play THEN station ELSE NoStation, !.stop = ~play]
PlayConsumed(s) == [s EXCEPT !.station = NoStation]
StopConsumed(s) == [s EXCEPT !.stop = FALSE]

\* playlistSelectionCleared: a PLAY that is still to be served stays wanted.
SelectionCleared(s) == [s EXCEPT !.intent = @ /\ s.station # NoStation]

ResumeAllowed(s) == s.active = "radio" /\ s.intent
ResumeStation_Stored(s, last) == last                     \* variant: misses one still in the queue
ResumeStation(s, last) == IF s.station = NoStation THEN last ELSE s.station

\* radioActions: what a change of source asks of the player.
Reasons == {"none", "manual", "bt_connect", "bt_disconnect", "bt_offline"}
UserStop_Forgotten(s) == FALSE                            \* variant: lost with the queue
UserStop(s) == s.stop
Suspend(s, physicallyActive) == physicallyActive /\ ~s.stop
Resume_Manual(s, reason) == reason = "manual" /\ ResumeAllowed(s)   \* variant: not after a lost link
Resume(s, reason) == reason \in {"manual", "bt_disconnect", "bt_offline"} /\ ResumeAllowed(s)

Other(source) == IF source = "radio" THEN "bt" ELSE "radio"

\* cycle, and select of the source that is not active.
CanCycle(s, link) == s.active = "bt" \/ link # "absent"
Cycle(s) == [s EXCEPT !.active = Other(@)]

\* observe: follow the link.
ObserveReason(s, link) ==
    CASE s.active = "bt" /\ link = "absent"                        -> "bt_offline"
      [] s.active = "radio" /\ ~s.observed /\ link = "connected"   -> "bt_connect"
      [] s.active = "bt" /\ s.observed /\ link = "ready"           -> "bt_disconnect"
      [] OTHER                                                     -> "none"
Observe(s, link) ==
    [s EXCEPT !.observed = link = "connected",
              !.active = IF ObserveReason(s, link) = "none" THEN @ ELSE Other(@)]

-----------------------------------------------------------------------------
(* TemporaryAudioState.                                                     *)

Temporaries == [live : BOOLEAN,         \* a token is set: the announcement owns the player
                terminal : BOOLEAN,     \* it was told to end
                restoring : BOOLEAN,    \* it ended, the base is not restored yet
                suppressed : BOOLEAN]   \* radioRestoreSuppressed_

NoTemporary == [live |-> FALSE, terminal |-> FALSE, restoring |-> FALSE, suppressed |-> FALSE]

Busy(t) == t.live \/ t.restoring
Begin(t) == [live |-> TRUE, terminal |-> FALSE, restoring |-> FALSE,
             suppressed |-> Busy(t) /\ t.suppressed]
Signal(t) == [t EXCEPT !.terminal = t.live]
Finish_NoRestore(t) == NoTemporary                        \* variant: nothing left to restore
Finish(t) == [t EXCEPT !.live = FALSE, !.terminal = FALSE, !.restoring = TRUE]
Suppress(t) == [t EXCEPT !.suppressed = @ \/ Busy(t)]

\* takeRadioRestore: refused for good, granted, or still waiting.
Waiting(t) == ~t.live /\ t.restoring
Refused(t, allowed) == Waiting(t) /\ (t.suppressed \/ ~allowed)
Granted(t, allowed, ready) == Waiting(t) /\ ~t.suppressed /\ allowed /\ ready
=============================================================================
