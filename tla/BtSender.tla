------------------------------- MODULE BtSender -------------------------------
(***************************************************************************)
(* BtFirmwareSender (bt_firmware_sender.cpp): the state machine that sends *)
(* a firmware image to the Bluetooth module, as operators on a record.     *)
(*                                                                         *)
(* confirmed_ and sequence_ advance together, so one field counts the      *)
(* chunks for both, and a line that acknowledges chunk n names the bytes   *)
(* up to it.  The phase and the error are left out: they are only shown.   *)
(* Of a deadline it only matters whether it has passed.                    *)
(***************************************************************************)
EXTENDS Naturals

CONSTANTS
    Chunks,              \* DATA frames of an image
    MaxRetransmissions

ASSUME SenderAssumption == Chunks \in Nat \ {0} /\ MaxRetransmissions \in Nat

NoImage == 0

NoTarget == [id |-> NoImage, version |-> "none"]

\* frame_ and the lines of the module.  "of" is the image a frame belongs to,
\* or the one that a line is about; only FW_BEGIN says it on the line.
Frame(kind, of, seq) == [kind |-> kind, of |-> of, seq |-> seq]
NoFrame == Frame("none", NoTarget, 0)
NoLine == NoFrame

Sending == {"SendingBegin", "SendingData", "SendingEnd"}
Waiting == {"WaitReady", "WaitAck", "WaitVerify", "WaitOk", "WaitIdentity"}
Terminal == {"Success", "Error", "Aborted"}
States == {"Idle"} \cup Sending \cup Waiting \cup Terminal

InitialSender ==
    [state |-> "Idle",
     image |-> NoImage,              \* image_
     target |-> NoTarget,            \* the image that was to be sent, expectedVersion_
     confirmed |-> 0,                \* confirmed_, sequence_
     frame |-> NoFrame, sent |-> "none",    \* frame_; txOffset_: "none", "part" or "all"
     reply |-> NoLine,               \* pendingReply_
     retries |-> 0,                  \* retransmissions_
     readySeen |-> FALSE,
     probe |-> FALSE, probeDue |-> FALSE,   \* statusProbe_, pendingVerifyProbe_
     aborting |-> FALSE]             \* abortTx_

Exclusive(s) == s.state \in Sending \cup Waiting \/ s.aborting

\* Once FW_BEGIN is answered and until FW_OK, frames are binary.
Binary == {"SendingData", "WaitAck", "SendingEnd", "WaitVerify", "WaitOk"}

-----------------------------------------------------------------------------
(* fail, abort, start                                                      *)

Fail_KeepsImage(s, remote) ==
    [s EXCEPT !.state = "Error", !.probe = FALSE, !.probeDue = FALSE,
              !.frame = IF remote THEN Frame("ABORT", s.target, s.confirmed) ELSE NoFrame,
              !.sent = "none", !.aborting = remote]

\* The transfer is over; with remote the module is told so by an ABORT frame.
Fail(s, remote) ==
    [s EXCEPT !.state = "Error", !.image = NoImage, !.probe = FALSE, !.probeDue = FALSE,
              !.frame = IF remote THEN Frame("ABORT", s.target, s.confirmed) ELSE NoFrame,
              !.sent = "none", !.aborting = remote]

Abort(s) ==
    IF Exclusive(s) THEN [Fail(s, s.state \in Binary) EXCEPT !.state = "Aborted"] ELSE s

Started(target) ==
    [InitialSender EXCEPT !.state = "SendingBegin", !.image = target.id,
                          !.target = target, !.frame = Frame("FW_BEGIN", target, 0)]

\* A precondition is missing; a sender that is busy keeps what it is doing.
Refused(s) ==
    IF Exclusive(s) THEN s
    ELSE Fail([s EXCEPT !.reply = NoLine, !.confirmed = 0], FALSE)

-----------------------------------------------------------------------------
(* The frames                                                              *)

PrepareData(s) ==
    [s EXCEPT !.frame = Frame("DATA", s.target, s.confirmed), !.sent = "none",
              !.retries = 0, !.state = "SendingData"]

PrepareEnd(s) ==
    [s EXCEPT !.frame = Frame("END", s.target, s.confirmed), !.sent = "none",
              !.state = "SendingEnd"]

\* The same frame again.
Retry(s) ==
    IF s.retries >= MaxRetransmissions THEN Fail(s, TRUE)
    ELSE [s EXCEPT !.retries = @ + 1, !.sent = "none", !.state = "SendingData"]

-----------------------------------------------------------------------------
(* onLine                                                                  *)

AckMatches_Any(s, line) == TRUE

AckMatches(s, line) == line.seq = s.confirmed

Acknowledged(s) ==
    LET t == [s EXCEPT !.confirmed = @ + 1]
    IN  IF t.confirmed = Chunks THEN PrepareEnd(t) ELSE PrepareData(t)

\* FW_ACK or FW_NACK of the frame that is waited for.
Answered(s, line) ==
    IF ~AckMatches(s, line) THEN Fail(s, TRUE)
    ELSE IF line.kind = "FW_ACK" THEN Acknowledged(s) ELSE Retry(s)

OnReady(s) ==
    IF s.state = "WaitIdentity"
    THEN [s EXCEPT !.readySeen = TRUE, !.probe = TRUE, !.probeDue = FALSE]
    ELSE s

\* An answer that comes before the frame is out is kept until it is.
Early(s, line) ==
    IF s.reply = NoLine THEN [s EXCEPT !.reply = line] ELSE Fail(s, TRUE)

Answers == {"FW_ACK", "FW_NACK"}

\* A line that starts with FW_, during a transfer.
OnUpdateLine(s, line) ==
    IF line.kind = "FW_ERR" THEN Fail(s, FALSE)
    ELSE IF s.state = "SendingData" /\ line.kind \in Answers THEN Early(s, line)
    ELSE IF s.state = "WaitReady" THEN
        IF line.kind = "FW_READY" THEN PrepareData(s) ELSE Fail(s, TRUE)
    ELSE IF s.state = "WaitAck" /\ line.kind \in Answers THEN Answered(s, line)
    ELSE IF s.state = "WaitVerify" /\ line.kind = "FW_VERIFY" THEN [s EXCEPT !.state = "WaitOk"]
    ELSE IF s.state = "WaitOk" /\ line.kind = "FW_OK" THEN [s EXCEPT !.state = "WaitIdentity"]
    ELSE Fail(s, line.kind # "FW_ABORTED" /\ s.state # "WaitIdentity")

OnLine(s, line) ==
    IF line.kind = "READY" THEN OnReady(s)
    ELSE IF Exclusive(s) THEN OnUpdateLine(s, line) ELSE s

-----------------------------------------------------------------------------
(* onIdentity                                                              *)

OnIdentity_NotPending(s, version, ota) ==
    IF s.state # "WaitIdentity" \/ ~s.readySeen THEN s
    ELSE IF version # s.target.version THEN Fail(s, FALSE)
    ELSE IF ota = "PENDING_VERIFY" THEN [s EXCEPT !.probeDue = TRUE]
    ELSE [s EXCEPT !.state = "Success", !.image = NoImage]

\* A complete status of the module.  One that lacks the protocol or the
\* capability counts as another version.
OnIdentity(s, version, ota) ==
    IF s.state # "WaitIdentity" \/ ~s.readySeen THEN s
    ELSE IF version # s.target.version THEN Fail(s, FALSE)
    ELSE IF ota = "PENDING_VERIFY" THEN [s EXCEPT !.probeDue = TRUE]
    ELSE IF ota # "VALID" THEN Fail(s, FALSE)
    ELSE [s EXCEPT !.state = "Success", !.image = NoImage]

-----------------------------------------------------------------------------
(* tick                                                                    *)

Transmitting(s) == s.aborting \/ s.state \in Sending

AbortDone(s) == [s EXCEPT !.aborting = FALSE, !.frame = NoFrame, !.sent = "none"]

\* transmit has written the last byte of the frame.
Transmitted(s) ==
    IF s.aborting THEN AbortDone(s)
    ELSE IF s.state = "SendingBegin" THEN [s EXCEPT !.sent = "all", !.state = "WaitReady"]
    ELSE IF s.state = "SendingEnd" THEN [s EXCEPT !.sent = "all", !.state = "WaitVerify"]
    ELSE LET t == [s EXCEPT !.sent = "all", !.state = "WaitAck"]
         IN  IF t.reply = NoLine THEN t
             ELSE [OnLine(t, t.reply) EXCEPT !.reply = NoLine]

Expired_KeepsAbort(s) ==
    IF s.aborting THEN s
    ELSE IF s.state = "WaitAck" THEN Retry(s)
    ELSE Fail(s, s.state \notin {"SendingBegin", "WaitIdentity"})

\* The deadline of the state has passed; an ABORT that cannot be written is
\* given up.
Expired(s) ==
    IF s.aborting THEN AbortDone(s)
    ELSE IF s.state = "WaitAck" THEN Retry(s)
    ELSE Fail(s, s.state \notin {"SendingBegin", "WaitIdentity"})
=============================================================================
