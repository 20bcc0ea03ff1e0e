---------------------------- MODULE RadioInvariant ----------------------------
(***************************************************************************)
(* Why the safety properties of RadioControl hold when the user commands    *)
(* come from the main loop and the player queue has room for them: the main *)
(* loop sends a command, records it and handles the queue one after the     *)
(* other, and only notices (a network change, a URL) come in between.       *)
(***************************************************************************)
EXTENDS RadioControl

\* What the theorems assume: the main loop, which alone empties the queue, finds
\* room in it for what it sends (else Player::sendCommand drops the command).
Room == call["main"].at = "send" => Len(queue) < QueueSize

-----------------------------------------------------------------------------
(* What a sequence of commands holds, and in which order.                   *)

Silencers == {"STOP", "SUSPEND"}
Starters == {"PLAY", "RESUME"}
Notices == {"OFFLINE", "ONLINE", "BURL"}

Holds(q, types) == \E i \in 1 .. Len(q) : q[i].type \in types
Carry(q, types, stations) == \A i \in 1 .. Len(q) : q[i].type \in types => q[i].station \in stations

\* After the last of one kind there is none of another.
EndsIn(q, wins, loses) ==
    \E i \in 1 .. Len(q) : q[i].type \in wins /\ \A j \in 1 .. Len(q) : i < j => q[j].type \notin loses
LastOf(q, command, types) ==
    \E i \in 1 .. Len(q) : q[i] = command /\ \A j \in 1 .. Len(q) : i < j => q[j].type \notin types

\* A resume stands alone, and before what the user started after it.
ResumeFirst(q) ==
    \A i, j \in 1 .. Len(q) : q[i].type = "RESUME" /\ q[j].type \in Starters => i <= j

-----------------------------------------------------------------------------
(* The parts of the invariant.                                              *)

\* PLAY and RESUME carry a station; a call that sends has something to send.
CallTyped(c) ==
    /\ c \in Calls /\ Carry(c.todo, Starters, Stations)
    /\ c.at \in {"send", "cancel", "record"} => c.todo # <<>>
ValuesTyped ==
    /\ link \in Links /\ source \in Sources /\ temp \in Temporaries
    /\ stream \in {"none", "radio", "temporary"}
    /\ lastStation \in Stations /\ {tuned, chosen} \subseteq Stations \cup {NoStation}
    /\ mainAt \in {"observe", "controls", "receive", "url", "service", "restore", "reconnect", "connect", "announce"}
    /\ after \in {"controls", "url", "reconnect"}
FlagsTyped ==
    /\ sync \in BOOLEAN /\ url \in BOOLEAN /\ playing \in BOOLEAN /\ reconnect \in BOOLEAN /\ cancelled \in BOOLEAN
    /\ ready \in BOOLEAN /\ lostPlaying \in BOOLEAN /\ beginReconnect \in BOOLEAN
    /\ asked \in BOOLEAN /\ overtaken \in BOOLEAN /\ quiet \in BOOLEAN
QueueTyped == queue \in Seq(Commands) /\ Len(queue) <= QueueSize /\ Carry(queue, Starters, Stations)
CallsTyped == call \in [Callers -> Calls] /\ \A p \in Callers : CallTyped(call[p])
TypeInv == ValuesTyped /\ FlagsTyped /\ QueueTyped /\ CallsTyped

Main == call["main"]
Changing == Main.at \in {"look", "decide"}
Sends(type) == Holds(Main.todo, {type})

\* The other tasks send notices only.
OthersInv ==
    \A p \in Callers \ {"main"} :
        call[p].at \notin {"look", "decide", "record"} /\ ~Holds(call[p].todo, Silencers \cup Starters)

\* What the main loop sends, and what it saw before.
ResumeOf(s) == [type |-> "RESUME", station |-> s]
MainCalls ==
    {<<>>, <<Command("STOP")>>, <<Command("SUSPEND")>>}
    \cup {<<Play(s)>> : s \in Stations} \cup {<<ResumeOf(s)>> : s \in Stations}
    \cup {<<Command("SUSPEND"), ResumeOf(s)>> : s \in Stations}
MainInv ==
    /\ Main.at \in {"idle", "look", "decide", "send", "cancel", "record"}
    /\ Main.todo \in MainCalls
    /\ Main.at \in {"send", "cancel", "record"} <=> Main.todo # <<>>
    /\ Main.at = "record" => Sends("PLAY") \/ Sends("STOP")
    /\ Main.at # "idle" => mainAt \in {"observe", "receive"}
    /\ Main.at = "look" => Main.seen = Busy(temp)
    /\ Main.at = "decide" => ~Busy(temp) /\ Main.seen = (playing \/ stream # "none")
    /\ Changing /\ source.active = "radio" => Main.reason \in {"manual", "bt_disconnect", "bt_offline"}
    /\ Sends("RESUME") => ResumeAllowed(source)
    /\ Sends("SUSPEND") /\ ResumeAllowed(source) => Sends("RESUME")

\* A command that is in the queue and not recorded yet is the last of its kind there.
SentInv == Main.at \in {"cancel", "record"} => LastOf(queue, Head(Main.todo), Silencers \cup Starters)

\* The radio runs, or is being connected.
Radio == stream = "radio" \/ mainAt = "connect"

BusyInv ==
    /\ Busy(temp) => ~Radio
    /\ stream = "temporary" \/ mainAt = "announce" => temp.live
    /\ source.stop => ~source.intent
    /\ source.station # NoStation => source.intent

\* A radio that must not run is silent, or the command that silences it is
\* on its way and no PLAY comes after it.
Stopped == ~source.intent /\ ~Sends("PLAY")
Displaced == source.active = "bt" /\ ~asked /\ ~Changing
Silenced ==
    \/ EndsIn(queue, Silencers, {"PLAY"})
    \/ Holds(Main.todo, Silencers)
    \/ ~Radio /\ (Holds(queue, {"PLAY"}) => Busy(temp))
SilenceInv == Stopped \/ Displaced => Silenced

\* A radio that must run does, or what starts it is on its way and no
\* silencer comes after it.
Plays == source.active = "radio" /\ source.intent /\ ~Changing /\ ~Sends("STOP")
Started == EndsIn(queue, Starters, Silencers) \/ Holds(Main.todo, Starters)
PlayInv ==
    Plays => \/ Busy(temp) \/ Started
             \/ ~Holds(queue, Silencers) /\ (~quiet => Radio \/ reconnect)

\* The stations on their way are the last one the user asked for, or what a
\* resume took over from it.
QueueInv ==
    /\ ResumeFirst(queue)
    /\ Sends("SUSPEND") \/ (Sends("RESUME") /\ Main.at = "send") => ~Holds(queue, Starters)
    /\ Holds(queue, {"PLAY"}) => LastOf(queue, Play(chosen), {"PLAY"})
Resumed == {ResumeStation(source, lastStation)}
StationInv ==
    source.intent /\ ~Sends("PLAY") =>
        /\ \/ Holds(queue, {"PLAY"}) /\ (Holds(queue, {"RESUME"}) => source.station # NoStation)
           \/ Carry(queue, {"RESUME"}, Resumed)
        /\ Carry(Main.todo, {"RESUME"}, Resumed)
        /\ ~overtaken =>
              /\ source.station \in {NoStation, chosen}
              /\ source.station = NoStation =>
                    lastStation = chosen /\ Carry(queue, {"PLAY"}, {chosen}) /\ (Radio => tuned = chosen)

ControlInv ==
    /\ MainInv /\ SentInv /\ BusyInv
    /\ SilenceInv /\ PlayInv /\ QueueInv /\ StationInv
RadioInv == TypeInv /\ OthersInv /\ ControlInv

-----------------------------------------------------------------------------
(* When the main loop finds room: in a round it takes one command from the  *)
(* queue and sends one of the user's; a change of source sends two at most, *)
(* to a queue it has emptied.  What comes on top are the notices, and       *)
(* nothing in the program bounds them; so Calm is a condition.              *)

\* What is in the queue, and what the main loop has still to send.
Unsent == IF Main.at \in {"cancel", "record"} THEN Len(Main.todo) - 1 ELSE Len(Main.todo)
Load == Len(queue) + Unsent

\* The part of the load that is the main loop's own.
Share == IF mainAt \in {"observe", "receive"} THEN 2 ELSE 1

\* A notice comes when there are still three places for it.
Calm == \A p \in Callers \ {"main"} : Enqueue(p) => Len(queue) + 3 <= QueueSize
CalmInv == Load + 2 <= QueueSize + Share
=============================================================================
