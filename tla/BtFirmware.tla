------------------------------ MODULE BtFirmware ------------------------------
(***************************************************************************)
(* The update of the Bluetooth module over the serial link: the sender     *)
(* (BtSender), the link that carries its frames and hands it the lines     *)
(* (bt_link.cpp, bt_link_protocol.cpp), and the web server's service that  *)
(* owns the staged image (serviceBtFirmwareUpdate in netserver.cpp), all   *)
(* called by the main loop.                                                *)
(*                                                                         *)
(* The module at the other end is external: its answers are those that the *)
(* sender and its test name.  It takes a frame only whole and in sequence, *)
(* compares the stored image with the announced CRC, boots it on trial and *)
(* falls back to the old one unless it confirms.                           *)
(*                                                                         *)
(* The line keeps the order of what it carries but may lose or garble any  *)
(* of it.  Answers may take any time: a deadline may pass before them.     *)
(***************************************************************************)
EXTENDS BtSender, Sequences

CONSTANTS
    Versions, OldVersion,      \* what images may call themselves; the first one's
    MaxUpdates, MaxFaults      \* bounds; a fault is a noise, a reset or a switch-off

ASSUME VersionAssumption == OldVersion \in Versions
ASSUME BoundAssumption == MaxUpdates \in Nat

Updates == 1..MaxUpdates

VARIABLES
    sender,       \* BtFirmwareSender
    active,       \* activeBtImage: the update whose image is in memory
    enabled, runtimeActive,    \* btRuntime.available(), and as the link last saw it
    online,       \* BtLinkState::runtimeAvailable
    toModule, fromModule,    \* what is on the line
    torn,         \* toModule ends in a frame that was abandoned halfway
    module,       \* what the module is doing
    session,      \* module: the announced image
    stored,       \* module: the updates whose chunks it has stored
    running, fallback, ota,  \* module: its images, and the state of the running one
    misled,       \* history: this update took the FW_READY of an earlier one
    spent         \* how often each bounded event has happened

main == <<sender, active, enabled, runtimeActive, online, misled>>
line == <<toModule, fromModule, torn>>
remote == <<module, session, stored, running, fallback, ota>>
vars == <<main, line, remote, spent>>

GetStatus == Frame("GET_STATUS", NoTarget, 0)
Garbled == Frame("garbled", NoTarget, 0)
Status(image, state) ==
    [kind |-> "STATUS", of |-> image, seq |-> 0, ota |-> state]

Init ==
    /\ sender = InitialSender /\ active = NoImage /\ misled = FALSE
    /\ enabled = TRUE /\ runtimeActive = TRUE /\ online = TRUE
    /\ toModule = <<>> /\ fromModule = <<>> /\ torn = FALSE
    /\ module = "text" /\ stored = <<>>
    /\ running = [id |-> NoImage, version |-> OldVersion] /\ ota = "NOT_PENDING"
    /\ session = running /\ fallback = running
    /\ spent = [updates |-> 0, faults |-> 0]

Spend(event, bound) ==
    /\ spent[event] < bound
    /\ spent' = [spent EXCEPT ![event] = @ + 1]

-----------------------------------------------------------------------------
(* The line                                                                *)

\* What follows a frame that was abandoned halfway is taken for its rest.
Put(frame) ==
    /\ toModule' = Append(toModule, IF torn THEN Garbled ELSE frame)
    /\ torn' = FALSE

\* The sender goes on as s, which may leave a frame unfinished.
Become(s) ==
    /\ sender' = s
    /\ torn' = (torn \/ (sender.sent = "part" /\ s.sent = "none"))

Answer(kind, seq) == fromModule' = Append(fromModule, Frame(kind, session, seq))

-----------------------------------------------------------------------------
(* The main loop: serviceBtFirmwareUpdate                                  *)

\* A staged image is handed to the sender.  If the player cannot be stopped
\* the update is aborted at once, and its image deleted in the same call.
\* (One that the update lock refuses never reaches the sender.)
StartUpdate(version) ==
    /\ active = NoImage
    /\ Spend("updates", MaxUpdates)
    /\ \/ /\ ~Exclusive(sender) /\ enabled /\ online
          /\ LET s == Started([id |-> spent'.updates, version |-> version]) IN
                \/ Become(s) /\ active' = s.image
                \/ Become(Abort(s)) /\ UNCHANGED active
          /\ misled' = FALSE
       \/ Become(Refused(sender)) /\ UNCHANGED <<active, misled>>
    /\ UNCHANGED <<enabled, runtimeActive, online, toModule, fromModule, remote>>

\* A transfer that is over gives its image back, and the update lock.
EndUpdate ==
    /\ active # NoImage /\ sender.state \in Terminal
    /\ active' = NoImage
    /\ UNCHANGED <<sender, enabled, runtimeActive, online, misled, line, remote, spent>>

-----------------------------------------------------------------------------
(* The main loop: BtLink::loop                                             *)

LinkUp == enabled /\ runtimeActive

\* The status of the module makes it online, and its identity goes to the
\* sender that waits for it.  At any other time of a transfer the line FW_VERSION
\* of a status is an answer the sender did not expect.
ReadLine ==
    /\ LinkUp /\ fromModule # <<>>
    /\ fromModule' = Tail(fromModule)
    /\ LET l == Head(fromModule)
           identity == l.kind = "STATUS" /\ (sender.state = "WaitIdentity" \/ ~Exclusive(sender))
       IN
        /\ IF identity THEN Become(OnIdentity(sender, l.of.version, l.ota))
           ELSE Become(OnLine(sender, l))
        /\ online' = (identity \/ (online /\ l.kind # "READY"))
        /\ misled' = (misled \/ (/\ l.kind = "FW_READY" /\ sender.state = "WaitReady"
                                /\ l.of # sender.target))
    /\ UNCHANGED <<active, enabled, runtimeActive, toModule, remote, spent>>

\* Outside an update a module that comes up is asked for its status, unless it
\* was within the last second.
ReadReady ==
    /\ LinkUp /\ ~Exclusive(sender)
    /\ fromModule # <<>> /\ Head(fromModule).kind = "READY"
    /\ fromModule' = Tail(fromModule) /\ online' = FALSE
    /\ Put(GetStatus)
    /\ UNCHANGED <<sender, active, enabled, runtimeActive, misled, remote, spent>>

\* takeStatusProbe.
TakeProbe ==
    /\ LinkUp /\ sender.probe
    /\ sender' = [sender EXCEPT !.probe = FALSE]
    /\ Put(GetStatus)
    /\ UNCHANGED <<active, enabled, runtimeActive, online, misled, fromModule, remote, spent>>

\* tick: some bytes of the frame are written, or all that are left.
Transmit ==
    /\ LinkUp /\ ~sender.probe /\ Transmitting(sender)
    /\ \/ /\ sender.sent = "none"
          /\ sender' = [sender EXCEPT !.sent = "part"]
          /\ UNCHANGED <<toModule, torn>>
       \/ sender' = Transmitted(sender) /\ Put(sender.frame)
    /\ UNCHANGED <<active, enabled, runtimeActive, online, misled, fromModule, remote, spent>>

\* tick: the deadline has passed.
Expire ==
    /\ LinkUp /\ ~sender.probe /\ Exclusive(sender)
    /\ Become(Expired(sender))
    /\ UNCHANGED <<active, enabled, runtimeActive, online, misled, toModule, fromModule, remote, spent>>

\* tick: the trial of the new image is asked about again.
ProbeAgain ==
    /\ LinkUp /\ sender.state = "WaitIdentity" /\ sender.probeDue
    /\ sender' = [sender EXCEPT !.probe = TRUE, !.probeDue = FALSE]
    /\ UNCHANGED <<active, enabled, runtimeActive, online, misled, line, remote, spent>>

\* The protocol's own tick: silence makes the module offline, and it is asked
\* for its status.  Nothing is sent during an update.
Poll ==
    /\ LinkUp /\ ~Exclusive(sender) /\ toModule = <<>> /\ fromModule = <<>>
    /\ Put(GetStatus)
    /\ online' \in {online, FALSE}
    /\ UNCHANGED <<sender, active, enabled, runtimeActive, misled, fromModule, remote, spent>>

\* Bluetooth was switched off: BtLink::loop ends a transfer itself.
Suspend ==
    /\ ~enabled /\ (Exclusive(sender) \/ runtimeActive)
    /\ Become(OnLine(sender, Frame("FW_ERR", NoTarget, 0)))
    /\ runtimeActive' = FALSE /\ online' = FALSE
    /\ UNCHANGED <<active, enabled, misled, toModule, fromModule, remote, spent>>

\* It is on again: what came in meanwhile is dropped, the module asked anew.
Resume ==
    /\ enabled /\ ~runtimeActive
    /\ runtimeActive' = TRUE /\ online' = FALSE
    /\ fromModule' = <<>>
    /\ Put(GetStatus)
    /\ UNCHANGED <<sender, active, enabled, misled, remote, spent>>

\* Config::setBtEnabled.
Toggle ==
    /\ IF enabled THEN Spend("faults", MaxFaults) ELSE UNCHANGED spent
    /\ enabled' = ~enabled
    /\ UNCHANGED <<sender, active, runtimeActive, online, misled, line, remote>>

MainStep ==
    \/ \E version \in Versions : StartUpdate(version)
    \/ EndUpdate
    \/ ReadLine \/ ReadReady \/ TakeProbe \/ Transmit \/ Expire \/ ProbeAgain \/ Poll
    \/ Suspend \/ Resume

-----------------------------------------------------------------------------
(* The module (external)                                                   *)

ModuleRuns == UNCHANGED <<main, torn, spent>>

\* In text mode it answers commands, and takes an image unless the one that
\* runs is still on trial.
ReadCommand ==
    /\ module = "text" /\ toModule # <<>>
    /\ toModule' = Tail(toModule)
    /\ LET f == Head(toModule) IN
        \/ /\ f.kind = "FW_BEGIN" /\ ota \in {"NOT_PENDING", "VALID"}
           /\ module' = "binary" /\ session' = f.of /\ stored' = <<>>
           /\ fromModule' = Append(fromModule, Frame("FW_READY", f.of, 0))
        \/ /\ f.kind = "FW_BEGIN" /\ Answer("FW_ERR", 0)
           /\ UNCHANGED <<module, session, stored>>
        \/ /\ f.kind = "GET_STATUS"
           /\ fromModule' = Append(fromModule, Status(running, ota))
           /\ UNCHANGED <<module, session, stored>>
        \/ /\ f.kind \notin {"FW_BEGIN", "GET_STATUS"}
           /\ UNCHANGED <<module, session, stored, fromModule>>
    /\ UNCHANGED <<running, fallback, ota>>
    /\ ModuleRuns

\* In binary mode it takes DATA in sequence; a frame it has taken before it
\* may acknowledge again or call out of sequence, and what is no frame it
\* may answer or not.
ReadFrame ==
    /\ module = "binary" /\ toModule # <<>>
    /\ toModule' = Tail(toModule)
    /\ LET f == Head(toModule) IN
        \/ /\ f.kind = "DATA" /\ f.seq = Len(stored)
           /\ stored' = Append(stored, f.of.id) /\ Answer("FW_ACK", f.seq)
           /\ UNCHANGED module
        \/ /\ f.kind = "DATA" /\ f.seq # Len(stored)
           /\ \/ Answer("FW_NACK", f.seq)
              \/ f.seq < Len(stored) /\ Answer("FW_ACK", f.seq)
           /\ UNCHANGED <<module, stored>>
        \/ /\ f.kind = "END" /\ UNCHANGED stored
           /\ IF Len(stored) = Chunks
              THEN module' = "verifying" /\ Answer("FW_VERIFY", 0)
              ELSE module' = "text" /\ Answer("FW_ERR", 0)
        \/ /\ f.kind = "ABORT" /\ UNCHANGED stored
           /\ module' = "text" /\ Answer("FW_ABORTED", 0)
        \/ /\ f.kind \in {"garbled", "GET_STATUS", "FW_BEGIN"}
           /\ Answer("FW_NACK", Len(stored)) \/ UNCHANGED fromModule
           /\ UNCHANGED <<module, stored>>
    /\ UNCHANGED <<session, running, fallback, ota>>
    /\ ModuleRuns

\* A write fails, or the module waits no longer for the next frame.
LeaveBinary ==
    /\ module = "binary" /\ module' = "text"
    /\ Answer("FW_ERR", 0)
    /\ UNCHANGED <<toModule, session, stored, running, fallback, ota>>
    /\ ModuleRuns

\* The stored image is the announced one, or not.
Verify ==
    /\ module = "verifying"
    /\ IF \A i \in DOMAIN stored : stored[i] = session.id
       THEN module' = "restarting" /\ Answer("FW_OK", 0)
       ELSE module' = "text" /\ Answer("FW_ERR", 0)
    /\ UNCHANGED <<toModule, session, stored, running, fallback, ota>>
    /\ ModuleRuns

\* It comes up in text mode, without what was sent to it before.
Reboot ==
    /\ module' = "text"
    /\ toModule' = <<>> /\ torn' = (sender.sent = "part")
    /\ fromModule' = Append(fromModule, Frame("READY", NoTarget, 0))
    /\ UNCHANGED <<main, session, stored>>

Boot ==
    /\ module = "restarting"
    /\ running' = session /\ fallback' = running /\ ota' = "PENDING_VERIFY"
    /\ Reboot /\ UNCHANGED spent

Confirm ==
    /\ ota = "PENDING_VERIFY" /\ ota' \in {"VALID", "CONFIRM_FAILED"}
    /\ UNCHANGED <<toModule, fromModule, module, session, stored, running, fallback>>
    /\ ModuleRuns

\* A reset: an image that has not been confirmed is left.
Reset ==
    /\ module # "restarting" /\ Spend("faults", MaxFaults)
    /\ running' = IF ota \in {"PENDING_VERIFY", "CONFIRM_FAILED"} THEN fallback ELSE running
    /\ ota' = "NOT_PENDING"
    /\ Reboot /\ UNCHANGED fallback

ModuleStep ==
    ReadCommand \/ ReadFrame \/ LeaveBinary \/ Verify \/ Boot \/ Confirm \/ Reset

\* The line loses or garbles what it carries.  A line that is garbled beyond
\* its first letters is none of the sender's.
Noise ==
    /\ Spend("faults", MaxFaults)
    /\ \/ /\ toModule # <<>> /\ UNCHANGED fromModule
          /\ \/ toModule' = Tail(toModule)
             \/ toModule' = [toModule EXCEPT ![1] = Garbled]
       \/ /\ fromModule # <<>> /\ UNCHANGED toModule
          /\ \/ fromModule' = Tail(fromModule)
             \/ /\ Head(fromModule).kind \notin {"READY", "STATUS"}
                /\ fromModule' = [fromModule EXCEPT ![1] = Garbled]
    /\ UNCHANGED <<main, torn, remote>>

Next == MainStep \/ Toggle \/ ModuleStep \/ Noise

Spec == Init /\ [][Next]_vars

\* The main loop goes round.  Nothing is assumed of the module or the line.
FairSpec ==
    /\ Spec
    /\ WF_vars(EndUpdate) /\ WF_vars(TakeProbe) /\ SF_vars(Expire)
    /\ WF_vars(Suspend) /\ WF_vars(Resume)

-----------------------------------------------------------------------------
(* Properties                                                              *)

OtaStates == {"NOT_PENDING", "PENDING_VERIFY", "VALID", "CONFIRM_FAILED"}
Images == [id : {NoImage} \cup Updates, version : Versions \cup {NoTarget.version}]
Frames == [kind : {"none", "FW_BEGIN", "DATA", "END", "ABORT", "GET_STATUS", "garbled"},
           of : Images, seq : Nat]
Lines == [kind : {"none", "FW_READY", "FW_ACK", "FW_NACK", "FW_VERIFY", "FW_OK", "FW_ERR",
                  "FW_ABORTED", "READY", "garbled"},
          of : Images, seq : Nat]
Reports == [kind : {"STATUS"}, of : Images, seq : {0}, ota : OtaStates]
Senders ==
    [state : States, image : {NoImage} \cup Updates, target : Images,
     confirmed : Nat, frame : Frames, sent : {"none", "part", "all"}, reply : Lines,
     retries : Nat, readySeen : BOOLEAN, probe : BOOLEAN, probeDue : BOOLEAN, aborting : BOOLEAN]

TypeOK ==
    /\ sender \in Senders /\ active \in {NoImage} \cup Updates
    /\ enabled \in BOOLEAN /\ runtimeActive \in BOOLEAN /\ online \in BOOLEAN
    /\ toModule \in Seq(Frames) /\ fromModule \in Seq(Lines \cup Reports) /\ torn \in BOOLEAN
    /\ module \in {"text", "binary", "verifying", "restarting"}
    /\ session \in Images /\ stored \in Seq(Nat)
    /\ running \in Images /\ fallback \in Images /\ ota \in OtaStates
    /\ misled \in BOOLEAN /\ spent \in [updates : 0..MaxUpdates, faults : Nat]

\* The module runs the image that was sent, and has confirmed it.
Installed == running = sender.target /\ ota \in {"VALID", "NOT_PENDING"}

\* Success is reported only when the module runs the image that was sent, and
\* has confirmed it: not for an image on trial, nor for the old one the module
\* fell back to, even if it has the same version.  Left aside is an update that
\* began with a late FW_READY of an earlier one: all its answers may be those of
\* that one's session, down to the status of its image.
SuccessMeansInstalled ==
    ~misled /\ sender.state = "Success" => Installed

\* What is shown as confirmed, the module has stored, whatever was lost, late
\* or sent twice: no answer is taken for that of another chunk or of an
\* earlier update.  Left aside is an update that began with a late FW_READY
\* of an earlier one; only the CRC of the module can stop that one.
ConfirmedIsStored ==
    ~misled /\ sender.confirmed > 0 =>
        /\ session = sender.target /\ Len(stored) >= sender.confirmed
        /\ \A i \in DOMAIN stored : stored[i] = sender.target.id

\* The sender keeps a pointer to the image that the web server allocates and
\* deletes: it never holds one that has been deleted.
ImageHeld == sender.image # NoImage => active = sender.image

\* Every update ends, gives the link, the image and the lock back: also when
\* the module is silent, the line is stuck or Bluetooth is switched off.
TransferEnds ==
    (active # NoImage \/ Exclusive(sender)) ~> (active = NoImage /\ ~Exclusive(sender))

-----------------------------------------------------------------------------
(* The inductive invariant                                                 *)

\* What the sender has to do with its target.  A frame that is, or may again
\* be, written belongs to it, and only the first one is FW_BEGIN.
Own(s) ==
    /\ s.aborting => s.state \in {"Error", "Aborted"}
    /\ s.state \in Sending \cup {"WaitAck"} \/ s.aborting =>
        s.frame.of = s.target /\ (s.frame.kind = "FW_BEGIN" <=> s.state = "SendingBegin")
    /\ s.state \in {"SendingBegin", "WaitReady"} => s.reply = NoLine /\ s.confirmed = 0
    /\ s.state \in Terminal => s.image = NoImage

\* The sender has been told that the module is ready.
Past(s) ==
    \/ s.state \in {"SendingData", "WaitAck", "SendingEnd", "WaitVerify", "WaitOk", "WaitIdentity"}
    \/ s.confirmed > 0

\* The answers that count for the transfer they belong to.
Vouching == {"FW_ACK", "FW_OK"}

\* A new update has an id that nothing on its way has.
FreshInv ==
    /\ sender.target.id <= spent.updates /\ session.id <= spent.updates
    /\ \A i \in DOMAIN toModule :
          toModule[i].kind \in {"FW_BEGIN", "DATA"} => toModule[i].of.id <= spent.updates
    /\ \A i \in DOMAIN fromModule :
          fromModule[i].kind \in {"FW_READY"} \cup Vouching => fromModule[i].of.id <= spent.updates

\* Behind the FW_BEGIN of the present update there are only its own DATA.
OnlyOwn(i) ==
    toModule[i].kind # "FW_BEGIN" /\ (toModule[i].kind = "DATA" => toModule[i].of = sender.target)

SessionInv ==
    /\ session = sender.target =>
        /\ \A i \in DOMAIN stored : stored[i] = sender.target.id
        /\ \A i \in DOMAIN toModule : OnlyOwn(i)
    /\ \A i, j \in DOMAIN toModule :
          toModule[i].kind = "FW_BEGIN" /\ toModule[i].of = sender.target /\ i < j => OnlyOwn(j)
    /\ sender.state = "SendingBegin" =>
        /\ session # sender.target
        /\ \A i \in DOMAIN toModule : toModule[i].kind = "FW_BEGIN" => toModule[i].of # sender.target

\* An acknowledgement of the present update is true, and what vouches behind its
\* FW_READY is of this update.
Truthful(l) ==
    l.kind = "FW_ACK" /\ l.of = sender.target => session = sender.target /\ l.seq < Len(stored)

AnswerInv ==
    /\ \A i \in DOMAIN fromModule :
        /\ Truthful(fromModule[i])
        /\ fromModule[i].kind = "FW_READY" /\ fromModule[i].of = sender.target =>
            /\ session = sender.target
            /\ \A j \in DOMAIN fromModule :
                  i < j /\ fromModule[j].kind \in Vouching => fromModule[j].of = sender.target
    /\ Truthful(sender.reply)

\* An update that is not misled has the module to itself.
PastInv ==
    ~misled /\ Past(sender) =>
        /\ session = sender.target /\ sender.confirmed <= Len(stored)
        /\ \A i \in DOMAIN fromModule :
              fromModule[i].kind \in Vouching => fromModule[i].of = sender.target
        /\ sender.reply.kind = "FW_ACK" => sender.reply.of = sender.target

IInv ==
    /\ TypeOK
    /\ Own(sender) /\ ImageHeld
    /\ FreshInv /\ SessionInv /\ AnswerInv /\ PastInv

\* The module has found the image of the present update good: it is about to
\* boot it, runs it, or has fallen back.
OnTrial ==
    /\ session = sender.target
    /\ \/ module = "restarting"
       \/ module = "text" /\ (running = sender.target \/ ota = "NOT_PENDING")

\* A status that would end the update is that of its image.
Sound(l) == l.kind = "STATUS" /\ l.ota = "VALID" => module = "text" /\ Installed

\* FW_OK of the present update is true, and no status behind it is older.
InstalledInv ==
    /\ \A i \in DOMAIN fromModule :
          fromModule[i].kind = "FW_OK" /\ fromModule[i].of = sender.target =>
            OnTrial /\ \A j \in DOMAIN fromModule : i < j => Sound(fromModule[j])
    /\ ~misled /\ sender.state = "WaitIdentity" =>
            OnTrial /\ \A j \in DOMAIN fromModule : Sound(fromModule[j])
    /\ ~misled /\ sender.state = "Success" =>
            session = sender.target /\ module = "text" /\ Installed
=============================================================================
