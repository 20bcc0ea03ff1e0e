----------------------------- MODULE RadioControl -----------------------------
(***************************************************************************)
(* Who decides what the radio plays: the source manager (source_manager.cpp)*)
(* and the player (player.cpp), between the tasks that reach them.          *)
(*                                                                          *)
(*   "main"   the Arduino loop: sourceManagerLoop, player.loop, controls    *)
(*   "wifi"   the Wi-Fi event task: WiFiLostConnection, WiFiReconnected     *)
(*   Tasks    the other callers: web server, MQTT, display                  *)
(*                                                                          *)
(* A step is what one task does under one critical section or one atomic    *)
(* call: sendCommand is an enqueue, then the cancellation of a pending      *)
(* connection, then the record of the user's intent; a change of source is  *)
(* a selection, then a look at the player, then a reset of the queue, then  *)
(* the commands that replace its contents.  Time is left out: a retry that  *)
(* is due may run, a full queue may drop a command.  Volume, display and    *)
(* smart start are left out; a firmware update (systemUpdateAudioBlocked)   *)
(* is not in progress.                                                      *)
(***************************************************************************)
EXTENDS RadioState, Naturals, Sequences

CONSTANTS
    Tasks,              \* the callers beside the main loop and the Wi-Fi events
    Operators,          \* the callers a user gives transport and source commands through
    QueueSize,          \* places in the player queue
    MaxChanges,         \* bound: changes of the Bluetooth link and of the playlist
    MaxCommands,        \* bound: user commands
    MaxDrops,           \* bound: losses of the Wi-Fi connection
    MaxAnnouncements,   \* bound: temporary URLs
    MaxFailures         \* bound: failed connections, broken streams, unreadable stations

ASSUME TaskAssumption == {"main", "wifi"} \cap Tasks = {} /\ Operators \subseteq Tasks \cup {"main"}
ASSUME QueueAssumption == QueueSize \in Nat \ {0}
ASSUME BoundsAssumption ==
    {MaxChanges, MaxCommands, MaxDrops, MaxAnnouncements, MaxFailures} \subseteq Nat

VARIABLES
    link,           \* the Bluetooth link as btLink.loop last saw it
    source,         \* sourceState
    temp,           \* Player::_temporary
    queue, url,     \* playerQueue, and whether _temporaryUrls holds one
    sync,           \* Player::_pendingStationRefresh: the playlist was changed
    stream,         \* what Audio runs: none, radio or temporary
    playing,        \* Player::_status = PLAYING
    lastStation,    \* config.lastStation()
    tuned,          \* the station of the last _play
    reconnect,      \* _radioReconnect.pending()
    cancelled,      \* the connection attempt was told to give up
    ready,          \* network.ready() and WiFi.isConnected()
    lostPlaying,    \* network.lostPlaying
    beginReconnect, \* network.beginReconnect
    mainAt, after,  \* where loop() is, and where it goes after a connection
    call,           \* per task: the calls it is in
    chosen,         \* history: the station of the user's last PLAY
    asked,          \* history: that PLAY was sent while Bluetooth was selected
    overtaken,      \* history: an older command used up the station of the last PLAY
    quiet,          \* history: a suppressed restore or a station that is not to be had ended the radio
    spent           \* how much of each bound is used

control == <<source, temp, queue, url>>
player == <<stream, playing, lastStation, tuned, reconnect, cancelled>>
network == <<ready, lostPlaying, beginReconnect>>
history == <<chosen, asked, overtaken, quiet>>
vars == <<link, sync, control, player, network, mainAt, after, call, history, spent>>

Callers == {"main", "wifi"} \cup Tasks

Command(type) == [type |-> type, station |-> NoStation]
Play(s) == [type |-> "PLAY", station |-> s]
Commands == [type : {"PLAY", "STOP", "SUSPEND", "RESUME", "OFFLINE", "ONLINE", "BURL"},
             station : Stations \cup {NoStation}]

\* The calls a task is in: the commands it still has to send, the reason of
\* a change of source, and what it saw in its last look.
Calls == [at : {"idle", "look", "decide", "send", "cancel", "record", "lost", "got"},
          todo : Seq(Commands), reason : Reasons, seen : BOOLEAN]
Idle == [at |-> "idle", todo |-> <<>>, reason |-> "none", seen |-> FALSE]
Sending(todo, reason) ==
    IF todo = <<>> THEN Idle ELSE [at |-> "send", todo |-> todo, reason |-> reason, seen |-> FALSE]
Goes(p, c) == call' = [call EXCEPT ![p] = c]
Pop(p) == Sending(Tail(call[p].todo), call[p].reason)

Bounds == [changes |-> MaxChanges, commands |-> MaxCommands, drops |-> MaxDrops,
           announcements |-> MaxAnnouncements, failures |-> MaxFailures]
Spend(kind) == spent[kind] < Bounds[kind] /\ spent' = [spent EXCEPT ![kind] = @ + 1]

TypeOK ==
    /\ link \in Links /\ sync \in BOOLEAN /\ source \in Sources /\ temp \in Temporaries
    /\ queue \in Seq(Commands) /\ Len(queue) <= QueueSize
    /\ stream \in {"none", "radio", "temporary"}
    /\ lastStation \in Stations /\ tuned \in Stations \cup {NoStation}
    /\ url \in BOOLEAN /\ playing \in BOOLEAN /\ reconnect \in BOOLEAN /\ cancelled \in BOOLEAN
    /\ ready \in BOOLEAN /\ lostPlaying \in BOOLEAN /\ beginReconnect \in BOOLEAN
    /\ asked \in BOOLEAN /\ overtaken \in BOOLEAN /\ quiet \in BOOLEAN
    /\ mainAt \in {"observe", "controls", "receive", "url", "service", "restore", "reconnect", "connect", "announce"}
    /\ after \in {"controls", "url", "reconnect"}
    /\ call \in [Callers -> Calls]
    /\ chosen \in Stations \cup {NoStation}

Init ==
    /\ link \in {"absent", "ready"} /\ sync = FALSE /\ source = InitialSource /\ temp = NoTemporary
    /\ queue = <<>> /\ url = FALSE
    /\ stream = "none" /\ playing = FALSE /\ lastStation \in Stations /\ tuned = NoStation
    /\ reconnect = FALSE /\ cancelled = FALSE
    /\ ready = TRUE /\ lostPlaying = FALSE /\ beginReconnect = FALSE
    /\ mainAt = "observe" /\ after = "controls"
    /\ call = [p \in Callers |-> Idle]
    /\ chosen = NoStation /\ asked = FALSE /\ overtaken = FALSE /\ quiet = FALSE
    /\ spent = [kind \in DOMAIN Bounds |-> 0]

-----------------------------------------------------------------------------
(* Player::sendCommand: enqueue, cancel a pending connection, record.       *)

Cancelling == {"PLAY", "STOP", "BURL", "SUSPEND", "RESUME", "OFFLINE"}

Enqueue(p) ==
    /\ call[p].at = "send"
    /\ LET command == Head(call[p].todo)
       IN  \/ /\ Len(queue) < QueueSize
              /\ queue' = Append(queue, command)
              /\ Goes(p, IF command.type \in Cancelling THEN [call[p] EXCEPT !.at = "cancel"] ELSE Pop(p))
              /\ IF command.type = "PLAY" THEN chosen' = command.station /\ asked' = (source.active = "bt")
                 ELSE UNCHANGED <<chosen, asked>>
           \/ Len(queue) = QueueSize /\ Goes(p, Pop(p)) /\ UNCHANGED <<queue, chosen, asked>>
    /\ UNCHANGED <<sync, link, source, temp, url, player, network, mainAt, after, overtaken, quiet, spent>>

\* A cancellation that comes before the attempt begins, or after it is
\* decided, changes nothing.
CancelPending(p) ==
    /\ call[p].at = "cancel"
    /\ cancelled' \in {cancelled, cancelled \/ mainAt \in {"connect", "announce"}}
    /\ Goes(p, IF Head(call[p].todo).type \in {"PLAY", "STOP"}
               THEN [call[p] EXCEPT !.at = "record"] ELSE Pop(p))
    /\ UNCHANGED <<sync, link, control, stream, playing, lastStation, tuned, reconnect,
                   network, mainAt, after, history, spent>>

RecordIntent(p) ==
    /\ call[p].at = "record"
    /\ LET command == Head(call[p].todo)
       IN  source' = RecordCommand(source, command.type = "PLAY", command.station)
    /\ Goes(p, Pop(p))
    /\ quiet' = FALSE /\ overtaken' = FALSE
    /\ UNCHANGED <<sync, link, temp, queue, url, player, network, mainAt, after, chosen, asked, spent>>

-----------------------------------------------------------------------------
(* stopOnSourceChange, after a selection.                                   *)

Look(p) ==
    /\ call[p].at = "look"
    /\ IF call[p].seen \/ Busy(temp)
       THEN lostPlaying' = FALSE /\ Goes(p, Idle)
       ELSE /\ Goes(p, [call[p] EXCEPT !.at = "decide", !.seen = playing \/ stream # "none"])
            /\ lostPlaying' = lostPlaying
    /\ UNCHANGED <<sync, link, control, player, ready, beginReconnect, mainAt, after, history, spent>>

ResetQueue == queue' = <<>>

Decide(p) ==
    /\ call[p].at = "decide"
    /\ LET when(wanted, command) == IF wanted THEN <<command>> ELSE <<>>
       IN  Goes(p, Sending(
               when(UserStop(source), Command("STOP")) \o
               when(Suspend(source, call[p].seen), Command("SUSPEND")) \o
               when(Resume(source, call[p].reason),
                    [type |-> "RESUME", station |-> ResumeStation(source, lastStation)]), call[p].reason))
    /\ lostPlaying' = FALSE
    /\ ResetQueue
    /\ UNCHANGED <<sync, link, source, temp, url, player, ready, beginReconnect, mainAt, after, history, spent>>

Changed(reason) == [Idle EXCEPT !.at = "look", !.reason = reason, !.seen = Busy(temp)]

-----------------------------------------------------------------------------
(* User commands, from the controls in the main loop or from another task.  *)

\* The main loop is at a place, and not inside a call.
At(place) == mainAt = place /\ call["main"].at = "idle"

Free(p) ==
    /\ call[p].at = "idle"
    /\ IF p = "main" THEN mainAt = "controls" /\ mainAt' = "observe" ELSE mainAt' = mainAt

Send(p, command) ==
    /\ Free(p) /\ Spend("commands")
    /\ Goes(p, Sending(<<command>>, "none"))
    /\ UNCHANGED <<sync, link, control, stream, playing, tuned, reconnect, cancelled,
                   network, after, history>>

PlayStation(p, s) == Send(p, Play(s)) /\ lastStation' = lastStation
Stop(p) == Send(p, Command("STOP")) /\ lastStation' = lastStation
Toggle(p) == Send(p, IF source.intent THEN Command("STOP") ELSE Play(lastStation)) /\ lastStation' = lastStation

\* prev and next store the neighbour before they send the command.
Step(p, s) == s # lastStation /\ lastStation' = s /\ Send(p, Play(s))

\* cycleNextSource and sourceManagerSelectSource of the other source.
SelectOther(p) ==
    /\ Free(p) /\ Spend("commands")
    /\ CanCycle(source, link)
    /\ source' = Cycle(source)
    /\ Goes(p, Changed("manual"))
    /\ asked' = FALSE
    /\ UNCHANGED <<sync, link, temp, queue, url, player, network, after, chosen, overtaken, quiet>>

\* A loop in which the controls ask for nothing.
NoControls ==
    /\ At("controls") /\ mainAt' = "observe"
    /\ UNCHANGED <<sync, link, control, player, network, after, call, history, spent>>

\* requestTemporaryUrl: the newest URL replaces the waiting one.
Announce(p) ==
    /\ Free(p) /\ Spend("announcements")
    /\ url' = TRUE
    /\ Goes(p, Sending(<<Command("BURL")>>, "none"))
    /\ UNCHANGED <<sync, link, source, temp, queue, player, network, after, history>>

\* requestPlaylistSync: a web request has saved another playlist.  An entry that
\* moved keeps its station here, and an emptied list is filled before it is used.
CommitPlaylist ==
    /\ Spend("changes") /\ sync' = TRUE
    /\ UNCHANGED <<link, control, player, network, mainAt, after, call, history>>

-----------------------------------------------------------------------------
(* The Wi-Fi event task.                                                    *)

WifiLost ==
    /\ call["wifi"].at = "idle" /\ ready /\ Spend("drops")
    /\ ready' = FALSE
    /\ IF beginReconnect THEN UNCHANGED <<temp, call>>
       ELSE /\ temp' = Signal(temp)
            /\ Goes("wifi", [Idle EXCEPT !.at = "lost", !.seen = Busy(temp)])
    /\ UNCHANGED <<sync, link, source, queue, url, player, lostPlaying, beginReconnect, mainAt, after, history>>

WifiLostDecide ==
    /\ call["wifi"].at = "lost"
    /\ LET suspend == ~call["wifi"].seen /\ ResumeAllowed(source)
       IN  /\ lostPlaying' = suspend
           /\ Goes("wifi", IF suspend THEN Sending(<<Command("OFFLINE")>>, "none") ELSE Idle)
    /\ beginReconnect' = TRUE
    /\ UNCHANGED <<sync, link, control, player, ready, mainAt, after, history, spent>>

WifiGotIp ==
    /\ call["wifi"].at = "idle" /\ ~ready
    /\ ready' = TRUE /\ beginReconnect' = FALSE
    /\ lostPlaying' = (lostPlaying /\ ~Busy(temp))
    /\ Goes("wifi", [Idle EXCEPT !.at = "got"])
    /\ UNCHANGED <<sync, link, control, player, mainAt, after, history, spent>>

WifiGotIpDecide ==
    /\ call["wifi"].at = "got"
    /\ Goes("wifi", IF lostPlaying /\ ResumeAllowed(source) THEN Sending(<<Command("ONLINE")>>, "none") ELSE Idle)
    /\ lostPlaying' = FALSE
    /\ UNCHANGED <<sync, link, control, player, ready, beginReconnect, mainAt, after, history, spent>>

-----------------------------------------------------------------------------
(* The main loop.                                                           *)

\* btLink.loop and the observation of sourceManagerLoop.
ObserveLink ==
    /\ At("observe")
    /\ \E l \in Links :
          /\ \/ l = link /\ spent' = spent
             \/ l # link /\ Spend("changes")
          /\ link' = l
          /\ source' = Observe(source, l)
          /\ LET reason == ObserveReason(source, l)
             IN  /\ temp' = IF reason \in {"bt_disconnect", "bt_offline"} THEN Suppress(temp) ELSE temp
                 /\ Goes("main", IF reason = "none" THEN Idle ELSE Changed(reason))
                 /\ asked' = (asked /\ reason = "none")
    /\ mainAt' = "receive"
    /\ UNCHANGED <<sync, queue, url, player, network, after, chosen, overtaken, quiet>>

\* _stop, and scheduleRadioReconnect with the state it is called in.
Silence == stream' = "none" /\ playing' = FALSE
Schedule(t, s) == reconnect' = (~Busy(t) /\ ResumeAllowed(s))

\* _play: the old stream is dropped; a station that cannot be read ends the
\* attempt, otherwise the loop blocks in connecttohost.
Tune(station, then) ==
    /\ Silence
    /\ after' = then
    /\ \/ mainAt' = "connect" /\ tuned' = station /\ cancelled' = FALSE
          /\ quiet' = FALSE /\ spent' = spent
       \/ mainAt' = then /\ Spend("failures") /\ quiet' = TRUE /\ UNCHANGED <<tuned, cancelled>>

NoTune(next) == mainAt' = next /\ UNCHANGED <<after, tuned, cancelled, quiet, spent>>

\* The cases of the switch on the received command; queue' is the caller's.
HandleStop ==
    /\ reconnect' = FALSE /\ lostPlaying' = FALSE /\ url' = FALSE
    /\ IF temp.live THEN Silence /\ temp' = Finish(temp)
       ELSE IF Busy(temp) THEN UNCHANGED <<stream, playing, temp>>
       ELSE Silence /\ temp' = temp
    /\ source' = StopConsumed(source)
    /\ NoTune("url") /\ UNCHANGED lastStation

HandleSuspend ==
    /\ reconnect' = FALSE
    /\ IF Busy(temp) THEN UNCHANGED <<stream, playing>> ELSE Silence
    /\ NoTune("url") /\ UNCHANGED <<source, temp, url, lostPlaying, lastStation>>

HandlePlay(station) ==
    /\ IF Busy(temp) THEN NoTune("url") /\ UNCHANGED <<source, stream, playing, lastStation, reconnect>>
       ELSE /\ reconnect' = FALSE /\ lastStation' = station
            /\ source' = PlayConsumed(source)
            /\ Tune(station, "url")
    /\ UNCHANGED <<temp, url, lostPlaying>>

HandleResume(station) ==
    /\ reconnect' = FALSE
    /\ IF Busy(temp) \/ ~ResumeAllowed(source)
       THEN NoTune("url") /\ UNCHANGED <<source, stream, playing, lastStation>>
       ELSE /\ lastStation' = station
            /\ source' = PlayConsumed(source)
            /\ Tune(station, "url")
    /\ UNCHANGED <<temp, url, lostPlaying>>

HandleOffline ==
    /\ Schedule(temp, source)
    /\ IF ResumeAllowed(source) /\ ~Busy(temp) THEN Silence ELSE UNCHANGED <<stream, playing>>
    /\ NoTune("url") /\ UNCHANGED <<source, temp, url, lostPlaying, lastStation>>

HandleOnline ==
    /\ Schedule(temp, source)
    /\ NoTune("url") /\ UNCHANGED <<source, temp, url, lostPlaying, stream, playing, lastStation>>

Receive ==
    /\ At("receive")
    /\ \/ /\ queue = <<>> /\ queue' = queue
          /\ NoTune("url")
          /\ UNCHANGED <<source, temp, url, stream, playing, lastStation, reconnect, lostPlaying>>
       \/ /\ queue # <<>> /\ queue' = Tail(queue)
          /\ LET command == Head(queue)
             IN  \/ command.type = "STOP" /\ HandleStop
                 \/ command.type = "SUSPEND" /\ HandleSuspend
                 \/ command.type = "PLAY" /\ HandlePlay(command.station)
                 \/ command.type = "RESUME" /\ HandleResume(command.station)
                 \/ command.type = "OFFLINE" /\ HandleOffline
                 \/ command.type = "ONLINE" /\ HandleOnline
                 \/ command.type = "BURL" /\ NoTune("url")
                    /\ UNCHANGED <<source, temp, url, stream, playing, lastStation, reconnect, lostPlaying>>
    /\ overtaken' = (overtaken \/ (/\ source.station # NoStation /\ source'.station = NoStation
                                   /\ \E i \in DOMAIN queue' : queue'[i].type = "PLAY" /\ queue'[i].station # lastStation'))
    /\ UNCHANGED <<sync, link, ready, beginReconnect, call, chosen, asked>>

\* _servicePendingStationRefresh, once every accepted command is consumed.  The
\* selection is gone, and the radio is stopped as by _applyStop, ...
SelectionGone ==
    /\ sync' = FALSE /\ source' = SelectionCleared(source)
    /\ reconnect' = FALSE /\ lostPlaying' = FALSE /\ url' = FALSE
    /\ temp' = IF temp.live THEN Finish(Suppress(temp)) ELSE Suppress(temp)
    /\ IF temp.live \/ ~Busy(temp) THEN Silence ELSE UNCHANGED <<stream, playing>>
    /\ quiet' = TRUE /\ UNCHANGED <<mainAt, after, tuned, cancelled, spent>>

\* ... or the station is read again, after an announcement, and plays again if
\* it became another one.
StationReread ==
    /\ ~Busy(temp) /\ sync' = FALSE
    /\ \/ NoTune("url") /\ UNCHANGED <<stream, playing, reconnect>>
       \/ stream # "none" /\ ResumeAllowed(source) /\ reconnect' = FALSE /\ Tune(lastStation, "url")
    /\ UNCHANGED <<source, temp, url, lostPlaying>>

SyncPlaylist ==
    /\ At("url") /\ sync /\ queue = <<>>
    /\ SelectionGone \/ StationReread
    /\ UNCHANGED <<link, queue, lastStation, ready, beginReconnect, call, chosen, asked, overtaken>>

\* browseUrl: the announcement takes the player, or cannot get the output.
TakeUrl ==
    /\ At("url") /\ url' = FALSE
    /\ \/ /\ url /\ mainAt' = "announce" /\ spent' = spent
          /\ temp' = Begin(temp)
          /\ stream' = "none" /\ lostPlaying' = FALSE /\ cancelled' = FALSE
       \/ /\ IF url THEN Spend("failures") ELSE spent' = spent
          /\ mainAt' = "service"
          /\ UNCHANGED <<temp, stream, lostPlaying, cancelled>>
    /\ UNCHANGED <<sync, link, source, queue, playing, lastStation, tuned, reconnect,
                   ready, beginReconnect, after, call, history>>

Connects == ~cancelled /\ ready /\ spent' = spent
FailsToConnect == IF cancelled \/ ~ready THEN spent' = spent ELSE Spend("failures")

Announced ==
    /\ At("announce") /\ mainAt' = "service"
    /\ \/ Connects /\ stream' = "temporary" /\ playing' = TRUE /\ temp' = temp
       \/ FailsToConnect /\ temp' = Signal(temp) /\ UNCHANGED <<stream, playing>>
    /\ UNCHANGED <<sync, link, source, queue, url, lastStation, tuned, reconnect, cancelled,
                   network, after, call, history>>

Connected ==
    /\ At("connect") /\ mainAt' = after
    /\ \/ Connects /\ stream' = "radio" /\ playing' = TRUE /\ reconnect' = reconnect
       \/ FailsToConnect /\ Silence /\ Schedule(temp, source)
    /\ UNCHANGED <<sync, link, control, lastStation, tuned, cancelled, network, after, call, history>>

\* Audio::loop, which decodes, or finds the stream at its end or broken.  A
\* stream that decodes resets the reconnect policy; an announcement that was
\* told to end or has ended is finished; a radio that broke is scheduled.
Decoding == reconnect' \in {reconnect, reconnect /\ stream = "none"}

\* Variant: an announcement that was told to end plays to its end.
ServiceTemporary_ToItsEnd ==
    /\ temp.live /\ spent' = spent
    /\ \/ stream # "none" /\ UNCHANGED <<stream, playing, temp>>
       \/ (stream = "none" \/ ~temp.terminal) /\ Silence /\ temp' = Finish(temp)
    /\ Decoding

ServiceTemporary ==
    /\ temp.live /\ spent' = spent
    /\ \/ ~temp.terminal /\ stream # "none" /\ UNCHANGED <<stream, playing, temp>>
       \/ Silence /\ temp' = Finish(temp)
    /\ Decoding

ServiceRadio ==
    /\ ~temp.live /\ temp' = temp
    /\ \/ /\ stream # "none" \/ ~playing
          /\ UNCHANGED <<stream, playing, spent>> /\ Decoding
       \/ /\ playing \/ stream # "none"
          /\ IF stream # "none" /\ ready THEN Spend("failures") ELSE spent' = spent
          /\ Silence /\ Schedule(temp, source)

Service ==
    /\ At("service") /\ mainAt' = "restore"
    /\ ServiceTemporary \/ ServiceRadio
    /\ UNCHANGED <<sync, link, source, queue, url, lastStation, tuned, cancelled, network, after, call, history>>

\* restoreTemporaryBase and sourceManagerTakeTemporaryRestore.
Restore ==
    /\ At("restore")
    /\ LET allowed == ResumeAllowed(source)
           free == queue = <<>> /\ ~url
           station == ResumeStation(source, lastStation)
       IN  \/ /\ free /\ Granted(temp, allowed, ready)
              /\ temp' = [temp EXCEPT !.restoring = FALSE]
              /\ lastStation' = station /\ source' = PlayConsumed(source)
              /\ Tune(station, "reconnect")
           \/ /\ free /\ Refused(temp, allowed)
              /\ temp' = [temp EXCEPT !.restoring = FALSE, !.suppressed = FALSE]
              /\ quiet' = (quiet \/ temp.suppressed) /\ mainAt' = "reconnect"
              /\ UNCHANGED <<after, tuned, cancelled, spent, lastStation, source, stream, playing>>
           \/ /\ ~free \/ ~(Granted(temp, allowed, ready) \/ Refused(temp, allowed))
              /\ NoTune("reconnect")
              /\ UNCHANGED <<temp, lastStation, source, stream, playing>>
    /\ UNCHANGED <<sync, link, queue, url, reconnect, network, call, chosen, asked, overtaken>>

\* serviceRadioReconnect: takeDue grants a retry that is due, or drops one
\* that is no longer allowed.
RetryAllowed_AnySource == ~Busy(temp) /\ source.intent    \* variant: whatever is selected meanwhile
RetryAllowed == ~Busy(temp) /\ ResumeAllowed(source)

Retry ==
    /\ At("reconnect")
    /\ RetryAllowed /\ reconnect /\ ready
    /\ reconnect' = FALSE /\ Tune(lastStation, "controls")
    /\ UNCHANGED <<sync, link, control, lastStation, network, call, chosen, asked, overtaken>>

NoRetry ==
    /\ At("reconnect")
    /\ reconnect' = (reconnect /\ RetryAllowed)
    /\ NoTune("controls")
    /\ UNCHANGED <<sync, link, control, stream, playing, lastStation, network, call, chosen, asked, overtaken>>

-----------------------------------------------------------------------------
MainStep ==
    \/ ObserveLink \/ Receive \/ SyncPlaylist \/ TakeUrl \/ Announced \/ Connected \/ Service \/ Restore
    \/ Retry \/ NoRetry \/ NoControls

WifiStep == WifiLost \/ WifiLostDecide \/ WifiGotIp \/ WifiGotIpDecide

CallStep(p) == Enqueue(p) \/ CancelPending(p) \/ RecordIntent(p) \/ Look(p) \/ Decide(p)

UserStep(p) ==
    \/ \E s \in Stations : PlayStation(p, s) \/ Step(p, s)
    \/ Stop(p) \/ Toggle(p) \/ SelectOther(p)

Next ==
    \/ MainStep \/ WifiStep
    \/ \E p \in Callers : CallStep(p)
    \/ \E p \in Operators : UserStep(p)
    \/ \E p \in Tasks : Announce(p)
    \/ CommitPlaylist

Spec == Init /\ [][Next]_vars

\* The loop goes round, a call that has begun goes on, and the back-off of a
\* retry ends; the link, the user, the network and the stations may rest.
FairSpec ==
    /\ Spec
    /\ WF_vars(MainStep) /\ SF_vars(Retry)
    /\ \A p \in Callers : WF_vars(CallStep(p))
    /\ WF_vars(WifiLostDecide \/ WifiGotIpDecide)

-----------------------------------------------------------------------------
(* Properties                                                               *)

\* Nothing is on its way to the player.
Settled ==
    /\ queue = <<>> /\ ~url /\ \A p \in Callers : call[p] = Idle
    /\ mainAt = "observe"

\* A radio the user stopped stays silent: no restore, resume or retry that
\* was under way when the user pressed STOP brings it back
\* (Player::_applyStop, sourceManagerRadioResumeAllowed).
StopHonoured == Settled /\ ~source.intent => stream # "radio"

\* A radio the user started plays or is about to be connected again, as
\* long as it is the selected source and no announcement is under way
\* (scheduleRadioReconnect, radioActions).  Left aside: the radio after a
\* restore that a lost Bluetooth link or an emptied playlist suppressed, and
\* after a station that could not be read.
PlayHonoured ==
    Settled /\ source.active = "radio" /\ source.intent /\ ~Busy(temp) /\ ~quiet =>
        stream = "radio" \/ reconnect

\* The station that plays is the one the user asked for last, whatever was
\* announced, suspended or lost in between (recordRadioCommand,
\* radioStationForResume).  Left aside: a station that an older command used
\* up, and one whose restore a lost Bluetooth link suppressed, which is still
\* pending while a reconnect goes to the stored one.
StationHonoured ==
    Settled /\ stream = "radio" /\ source.intent /\ ~overtaken /\ source.station = NoStation => tuned = chosen

\* While Bluetooth is the selected source, the radio does not run, unless
\* the user asked for it then (stopOnSourceChange).
BluetoothAlone == Settled /\ source.active = "bt" /\ ~asked => stream # "radio"

\* An announcement that was told to end gives the player back
\* (Player::finishTemporary, also after a network loss).
AnnouncementEnds == (temp.live /\ temp.terminal) ~> ~temp.live

\* With a network that stays up, a radio the user started and nobody stopped
\* plays again after any drop, announcement or Bluetooth visit
\* (scheduleRadioReconnect, restoreTemporaryBase).
Wanted == source.active = "radio" /\ source.intent /\ ~quiet
RadioReturns == <>[]ready /\ <>[]Wanted => []<>(stream # "none")
=============================================================================
