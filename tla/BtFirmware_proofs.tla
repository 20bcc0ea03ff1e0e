-------------------------- MODULE BtFirmware_proofs --------------------------
(***************************************************************************)
(* What the sender shows as confirmed the module has stored, and the image *)
(* it reads from is not deleted, and success means that the image runs,    *)
(* for any number of chunks, repetitions, updates and faults.  First what  *)
(* each operation of the sender does to its record (Goes), then what a     *)
(* step of the sender and a line taken or put do to the whole, then the    *)
(* actions one by one.                                                     *)
(***************************************************************************)
EXTENDS BtFirmware, TLAPS

\* Every operation but start keeps the target and makes at most one step
\* with the line that it is given.
Goes(s, t, l) ==
    /\ t \in Senders /\ Own(t)
    /\ t.target = s.target
    /\ t.state = "SendingBegin" => s.state = "SendingBegin"
    /\ t.image \in {s.image, NoImage}
    /\ t.reply \in {s.reply, NoLine, l}
    /\ \/ t.confirmed \in {s.confirmed, 0}
       \/ /\ Past(s) /\ l.kind = "FW_ACK" /\ l.seq = s.confirmed
          /\ t.confirmed = s.confirmed + 1
    /\ Past(t) =>
        \/ Past(s)
        \/ s.state = "WaitReady" /\ l.kind = "FW_READY" /\ t.confirmed = 0 /\ t.reply = NoLine

-----------------------------------------------------------------------------
(* The sender                                                              *)

LEMMA NoTargetIsImage == NoTarget \in Images /\ NoTarget.id = NoImage
  BY DEF NoTarget, Images

LEMMA FramesAreTyped ==
  /\ \A k \in {"none", "FW_BEGIN", "DATA", "END", "ABORT", "GET_STATUS", "garbled"},
        image \in Images, n \in Nat :
       /\ Frame(k, image, n) \in Frames
       /\ Frame(k, image, n).kind = k /\ Frame(k, image, n).of = image
  /\ NoFrame \in Frames /\ NoLine \in Lines /\ NoLine.kind = "none"
  /\ GetStatus \in Frames /\ Garbled \in Frames /\ Garbled \in Lines
  /\ GetStatus.kind = "GET_STATUS" /\ Garbled.kind = "garbled"
  /\ GetStatus.of = NoTarget /\ Garbled.of = NoTarget
  BY NoTargetIsImage DEF Frame, Frames, Lines, NoFrame, NoLine, GetStatus, Garbled

LEMMA LinesAreTyped ==
  \A k \in {"FW_READY", "FW_ACK", "FW_NACK", "FW_VERIFY", "FW_OK", "FW_ERR", "FW_ABORTED", "READY"},
     image \in Images, n \in Nat :
       /\ Frame(k, image, n) \in Lines
       /\ Frame(k, image, n).kind = k /\ Frame(k, image, n).of = image /\ Frame(k, image, n).seq = n
  BY DEF Frame, Lines

LEMMA FailGoes ==
  ASSUME NEW s \in Senders, NEW l, NEW told \in BOOLEAN
  PROVE  Goes(s, Fail(s, told), l) /\ Fail(s, told).image = NoImage
         /\ Fail(s, told).state = "Error"
  <1> DEFINE f == IF told THEN Frame("ABORT", s.target, s.confirmed) ELSE NoFrame
             t == [s EXCEPT !.state = "Error", !.image = NoImage, !.probe = FALSE, !.probeDue = FALSE,
                            !.frame = f, !.sent = "none", !.aborting = told]
  <1>1. f \in Frames /\ (told => f.of = s.target /\ f.kind = "ABORT")
    BY FramesAreTyped DEF Senders
  <1>2. Fail(s, told) = t
    BY DEF Fail
  <1> HIDE DEF f
  <1>3. /\ t \in Senders /\ t.state = "Error" /\ t.image = NoImage /\ t.frame = f /\ t.aborting = told
        /\ t.target = s.target /\ t.reply = s.reply /\ t.confirmed = s.confirmed
    BY <1>1 DEF Senders, States, Sending, Waiting, Terminal
  <1> HIDE DEF t
  <1>4. Own(t)
    BY <1>1, <1>3 DEF Own, Sending, Terminal
  <1>. QED BY <1>2, <1>3, <1>4 DEF Goes, Past

LEMMA RetryGoes ==
  ASSUME NEW s \in Senders, NEW l, Own(s), s.state = "WaitAck"
  PROVE  Goes(s, Retry(s), l)
  <1>1. CASE s.retries >= MaxRetransmissions
    BY <1>1, FailGoes DEF Retry
  <1>2. CASE ~(s.retries >= MaxRetransmissions)
    <2> DEFINE n == s.retries + 1
               t == [s EXCEPT !.retries = n, !.sent = "none", !.state = "SendingData"]
    <2>1. Retry(s) = t /\ n \in Nat
      BY <1>2 DEF Retry, Senders
    <2> HIDE DEF n
    <2>2. /\ t \in Senders /\ t.state = "SendingData" /\ t.image = s.image /\ t.frame = s.frame
          /\ t.aborting = s.aborting /\ t.target = s.target /\ t.reply = s.reply
          /\ t.confirmed = s.confirmed
      BY <2>1 DEF Senders, States, Sending
    <2> HIDE DEF t
    <2>3. Own(t) /\ Past(s)
      BY <2>2 DEF Own, Past, Sending, Terminal
    <2>. QED BY <2>1, <2>2, <2>3 DEF Goes
  <1>. QED BY <1>1, <1>2

LEMMA PreparedTyped ==
  ASSUME NEW s \in Senders, ~s.aborting
  PROVE  \A t \in {PrepareData(s), PrepareEnd(s)} :
            /\ t \in Senders /\ Own(t) /\ t.target = s.target /\ t.state # "SendingBegin"
            /\ t.image = s.image /\ t.reply = s.reply /\ t.confirmed = s.confirmed
  <1> DEFINE d == Frame("DATA", s.target, s.confirmed)
             e == Frame("END", s.target, s.confirmed)
             t == [s EXCEPT !.frame = d, !.sent = "none", !.retries = 0, !.state = "SendingData"]
             u == [s EXCEPT !.frame = e, !.sent = "none", !.state = "SendingEnd"]
  <1>1. d \in Frames /\ d.of = s.target /\ d.kind = "DATA"
        /\ e \in Frames /\ e.of = s.target /\ e.kind = "END"
    BY FramesAreTyped DEF Senders
  <1>2. PrepareData(s) = t /\ PrepareEnd(s) = u
    BY DEF PrepareData, PrepareEnd
  <1> HIDE DEF d, e
  <1>3. /\ t \in Senders /\ t.state = "SendingData" /\ t.frame = d /\ t.aborting = s.aborting
        /\ t.target = s.target /\ t.image = s.image /\ t.reply = s.reply /\ t.confirmed = s.confirmed
    BY <1>1 DEF Senders, States, Sending
  <1>4. /\ u \in Senders /\ u.state = "SendingEnd" /\ u.frame = e /\ u.aborting = s.aborting
        /\ u.target = s.target /\ u.image = s.image /\ u.reply = s.reply /\ u.confirmed = s.confirmed
    BY <1>1 DEF Senders, States, Sending
  <1> HIDE DEF t, u
  <1>5. Own(t) /\ Own(u)
    BY <1>1, <1>3, <1>4 DEF Own, Sending, Terminal
  <1>. QED BY <1>2, <1>3, <1>4, <1>5

LEMMA AcknowledgedGoes ==
  ASSUME NEW s \in Senders, NEW l, Own(s), s.state = "WaitAck",
         l.kind = "FW_ACK", l.seq = s.confirmed
  PROVE  Goes(s, Acknowledged(s), l)
  <1> DEFINE t == [s EXCEPT !.confirmed = @ + 1]
  <1>1. t \in Senders /\ t.target = s.target /\ t.state = "WaitAck" /\ t.confirmed = s.confirmed + 1
        /\ t.image = s.image /\ t.reply = s.reply /\ t.aborting = s.aborting
    BY DEF Senders
  <1>2. ~s.aborting
    BY DEF Own, Senders
  <1>3. Past(s)
    BY DEF Past
  <1> HIDE DEF t
  <1>4. Goes(s, PrepareEnd(t), l)
    BY <1>1, <1>2, <1>3, PreparedTyped DEF Goes
  <1>5. Goes(s, PrepareData(t), l)
    BY <1>1, <1>2, <1>3, PreparedTyped DEF Goes
  <1>. QED BY <1>4, <1>5 DEF Acknowledged, t

LEMMA AnsweredGoes ==
  ASSUME NEW s \in Senders, NEW l, Own(s), s.state = "WaitAck"
  PROVE  Goes(s, Answered(s, l), l)
  BY FailGoes, RetryGoes, AcknowledgedGoes DEF Answered, AckMatches

LEMMA PrepareDataGoes ==
  ASSUME NEW s \in Senders, NEW l, Own(s), s.state = "WaitReady", l.kind = "FW_READY"
  PROVE  Goes(s, PrepareData(s), l)
  <1>1. ~s.aborting /\ s.confirmed = 0 /\ s.reply = NoLine
    BY DEF Own, Senders
  <1>. QED BY <1>1, PreparedTyped DEF Goes

LEMMA SameGoes ==
  ASSUME NEW s \in Senders, NEW l, Own(s)
  PROVE  Goes(s, s, l)
  BY DEF Goes

LEMMA OnUpdateLineGoes ==
  ASSUME NEW s \in Senders, NEW l \in Lines \cup Reports, Own(s), Exclusive(s)
  PROVE  Goes(s, OnUpdateLine(s, l), l)
  <1>1. s.state = "SendingData" /\ l.kind \in Answers => Goes(s, Early(s, l), l)
    <2>1. CASE s.reply = NoLine
      <3>1. ASSUME s.state = "SendingData", l.kind \in Answers PROVE l \in Lines
        BY <3>1 DEF Reports, Answers
      <3>2. ASSUME s.state = "SendingData", l \in Lines PROVE Goes(s, [s EXCEPT !.reply = l], l)
        BY <3>2 DEF Goes, Senders, Own, Past, States, Sending, Waiting, Terminal
      <3>. QED BY <2>1, <3>1, <3>2 DEF Early
    <2>2. CASE s.reply # NoLine
      BY <2>2, FailGoes DEF Early
    <2>. QED BY <2>1, <2>2
  <1>2. s.state = "WaitVerify" => Goes(s, [s EXCEPT !.state = "WaitOk"], l)
    BY DEF Goes, Senders, Own, Past, States, Sending, Waiting, Terminal
  <1>3. s.state = "WaitOk" => Goes(s, [s EXCEPT !.state = "WaitIdentity"], l)
    BY DEF Goes, Senders, Own, Past, States, Sending, Waiting, Terminal
  <1>4. Goes(s, Fail(s, l.kind # "FW_ABORTED" /\ s.state # "WaitIdentity"), l)
        /\ Goes(s, Fail(s, TRUE), l) /\ Goes(s, Fail(s, FALSE), l)
    <2>1. (l.kind # "FW_ABORTED" /\ s.state # "WaitIdentity") \in BOOLEAN
      OBVIOUS
    <2>. QED BY <2>1, FailGoes
  <1>. QED BY <1>1, <1>2, <1>3, <1>4, PrepareDataGoes, AnsweredGoes DEF OnUpdateLine

LEMMA OnLineGoes ==
  ASSUME NEW s \in Senders, NEW l \in Lines \cup Reports, Own(s)
  PROVE  Goes(s, OnLine(s, l), l)
  <1>1. Goes(s, OnReady(s), l)
    <2>1. CASE s.state = "WaitIdentity"
      BY <2>1 DEF OnReady, Goes, Senders, Own, Past, States, Sending, Waiting, Terminal
    <2>2. CASE s.state # "WaitIdentity"
      BY <2>2, SameGoes DEF OnReady
    <2>. QED BY <2>1, <2>2
  <1>. QED BY <1>1, OnUpdateLineGoes, SameGoes DEF OnLine

LEMMA OnIdentityGoes ==
  ASSUME NEW s \in Senders, NEW l, NEW version, NEW state, Own(s)
  PROVE  Goes(s, OnIdentity(s, version, state), l)
  <1>1. s.state = "WaitIdentity" => Goes(s, [s EXCEPT !.probeDue = TRUE], l)
    BY DEF Goes, Senders, Own, Past, States, Sending, Waiting, Terminal
  <1>2. s.state = "WaitIdentity" => Goes(s, [s EXCEPT !.state = "Success", !.image = NoImage], l)
    BY DEF Goes, Senders, Own, Past, States, Sending, Waiting, Terminal, NoImage
  <1>. QED BY <1>1, <1>2, FailGoes, SameGoes DEF OnIdentity

LEMMA AbortDoneGoes ==
  ASSUME NEW s \in Senders, NEW l, Own(s), s.aborting
  PROVE  Goes(s, AbortDone(s), l)
  BY FramesAreTyped DEF Goes, AbortDone, Senders, Own, Past, States, Sending, Waiting, Terminal

LEMMA TransmittedGoes ==
  ASSUME NEW s \in Senders, Own(s), Transmitting(s)
  PROVE  Goes(s, Transmitted(s), s.reply) /\ Transmitted(s).state # "SendingBegin"
  <1>1. CASE s.aborting
    <2>1. AbortDone(s).state = s.state
      BY DEF AbortDone, Senders
    <2>. QED BY <1>1, <2>1, AbortDoneGoes DEF Transmitted, Own
  <1>2. CASE ~s.aborting /\ s.state = "SendingBegin"
    BY <1>2 DEF Transmitted, Goes, Senders, Own, Past, States, Sending, Waiting, Terminal
  <1>3. CASE ~s.aborting /\ s.state = "SendingEnd"
    BY <1>3 DEF Transmitted, Goes, Senders, Own, Past, States, Sending, Waiting, Terminal
  <1>4. CASE ~s.aborting /\ s.state = "SendingData"
    <2> DEFINE t == [s EXCEPT !.sent = "all", !.state = "WaitAck"]
    <2>1. t \in Senders /\ Own(t) /\ Goes(s, t, s.reply) /\ Past(s) /\ t.state = "WaitAck"
          /\ t.target = s.target /\ t.reply = s.reply /\ t.confirmed = s.confirmed
          /\ t.image = s.image
      BY <1>4 DEF Goes, Senders, Own, Past, States, Sending, Waiting, Terminal
    <2> HIDE DEF t
    <2>2. s.reply \in Lines
      BY DEF Senders
    <2> DEFINE u == OnLine(t, s.reply)
    <2>3. Goes(t, u, s.reply)
      BY <2>1, <2>2, OnLineGoes
    <2> HIDE DEF u
    <2>4. Goes(s, [u EXCEPT !.reply = NoLine], s.reply)
      <3> DEFINE v == [u EXCEPT !.reply = NoLine]
      <3>1. /\ v \in Senders /\ v.state = u.state /\ v.target = u.target /\ v.image = u.image
            /\ v.confirmed = u.confirmed /\ v.reply = NoLine /\ v.frame = u.frame
            /\ v.aborting = u.aborting
        BY <2>3, FramesAreTyped DEF Goes, Senders
      <3> HIDE DEF v
      <3>2. Own(v)
        BY <3>1, <2>3 DEF Goes, Own
      <3>3. v.confirmed \in {s.confirmed, 0} \/ (s.reply.kind = "FW_ACK" /\ s.reply.seq = s.confirmed /\ v.confirmed = s.confirmed + 1)
        BY <3>1, <2>3, <2>1 DEF Goes
      <3>4. /\ v.target = s.target
            /\ v.state = "SendingBegin" => s.state = "SendingBegin"
            /\ v.image \in {s.image, NoImage}
        BY <3>1, <2>1, <2>3 DEF Goes
      <3>5. Goes(s, v, s.reply)
        BY <3>1, <3>2, <3>3, <3>4, <2>1 DEF Goes
      <3>. QED BY <3>5 DEF v
    <2>5. u.state # "SendingBegin"
      BY <2>1, <2>3 DEF Goes
    <2>6. [u EXCEPT !.reply = NoLine].state = u.state
      BY <2>3 DEF Goes, Senders
    <2>7. Transmitted(s) = IF s.reply = NoLine THEN t ELSE [u EXCEPT !.reply = NoLine]
      BY <1>4, <2>1 DEF Transmitted, t, u
    <2>. QED BY <2>1, <2>4, <2>5, <2>6, <2>7
  <1>. QED BY <1>1, <1>2, <1>3, <1>4 DEF Transmitting, Sending, Senders

LEMMA ExpiredGoes ==
  ASSUME NEW s \in Senders, NEW l, Own(s)
  PROVE  Goes(s, Expired(s), l)
  <1>1. (s.state \notin {"SendingBegin", "WaitIdentity"}) \in BOOLEAN
    OBVIOUS
  <1>. QED BY <1>1, AbortDoneGoes, RetryGoes, FailGoes DEF Expired

LEMMA RefusedGoes ==
  ASSUME NEW s \in Senders, NEW l, Own(s)
  PROVE  Goes(s, Refused(s), l)
  <1>1. CASE Exclusive(s)
    BY <1>1, SameGoes DEF Refused
  <1>2. CASE ~Exclusive(s)
    <2> DEFINE t == [s EXCEPT !.reply = NoLine, !.confirmed = 0]
    <2>1. t \in Senders /\ t.target = s.target /\ t.reply = NoLine /\ t.confirmed = 0 /\ t.image = s.image
          /\ t.state = s.state
      BY FramesAreTyped DEF Senders
    <2> HIDE DEF t
    <2>2. Refused(s) = Fail(t, FALSE)
      BY <1>2 DEF Refused, t
    <2> DEFINE u == Fail(t, FALSE)
    <2>3. Goes(t, u, l)
      BY <2>1, FailGoes
    <2>4. u.reply = NoLine /\ u.confirmed = 0 /\ u.state = "Error"
      BY <2>1 DEF Fail, Senders
    <2> HIDE DEF u
    <2>5. ~Past(u)
      BY <2>4 DEF Past
    <2>. QED BY <2>1, <2>2, <2>3, <2>4, <2>5 DEF Goes, u
  <1>. QED BY <1>1, <1>2

-----------------------------------------------------------------------------
(* The line                                                                *)

\* r is what is left of q: its end, where some may be garbled.
Remains(r, q) ==
    \E d \in Nat : \A i \in DOMAIN r : r[i].kind = "garbled" \/ (i + d \in DOMAIN q /\ r[i] = q[i + d])

LEMMA SequenceFacts ==
  ASSUME NEW S, NEW q \in Seq(S), NEW e \in S
  PROVE  /\ Append(q, e) \in Seq(S) /\ DOMAIN q = 1..Len(q) /\ Len(q) \in Nat
         /\ Len(Append(q, e)) = Len(q) + 1 /\ DOMAIN Append(q, e) = 1..(Len(q) + 1)
         /\ Append(q, e)[Len(q) + 1] = e
         /\ \A i \in DOMAIN q : i \in DOMAIN Append(q, e) /\ Append(q, e)[i] = q[i] /\ q[i] \in S
         /\ \A i \in DOMAIN Append(q, e) : i \in DOMAIN q \/ i = Len(q) + 1
         /\ q # <<>> => /\ Head(q) \in S /\ Tail(q) \in Seq(S) /\ 1 \in DOMAIN q /\ Head(q) = q[1]
                        /\ \A i \in DOMAIN Tail(q) : i + 1 \in DOMAIN q /\ Tail(q)[i] = q[i + 1]
                        /\ [q EXCEPT ![1] = e] \in Seq(S) /\ DOMAIN [q EXCEPT ![1] = e] = DOMAIN q
  OBVIOUS

\* The same, without an element to append.
LEMMA InSequence ==
  ASSUME NEW S, NEW q \in Seq(S)
  PROVE  /\ Len(q) \in Nat /\ DOMAIN q = 1..Len(q) /\ DOMAIN q \subseteq Nat
         /\ \A i \in DOMAIN q : q[i] \in S
         /\ q # <<>> => /\ 1 \in DOMAIN q /\ Head(q) = q[1] /\ Head(q) \in S /\ Tail(q) \in Seq(S)
                        /\ \A i \in DOMAIN Tail(q) : i \in Nat /\ i + 1 \in DOMAIN q /\ Tail(q)[i] = q[i + 1]
  OBVIOUS

LEMMA AtEnd ==
  ASSUME NEW S, NEW q \in Seq(S), NEW e \in S
  PROVE  \A i \in DOMAIN Append(q, e) :
            \/ i \in DOMAIN q /\ Append(q, e)[i] = q[i]
            \/ /\ i = Len(q) + 1 /\ Append(q, e)[i] = e
               /\ \A j \in DOMAIN q : j < i
               /\ \A j \in DOMAIN Append(q, e) : ~(i < j)
  BY SequenceFacts

LEMMA RemainsFacts ==
  ASSUME NEW S, NEW q \in Seq(S), NEW e \in S, e.kind = "garbled"
  PROVE  /\ Remains(q, q) /\ Remains(<<>>, q)
         /\ q # <<>> => Remains(Tail(q), q) /\ Remains([q EXCEPT ![1] = e], q)
  <1>1. Remains(q, q)
    <2>1. \A i \in DOMAIN q : i + 0 \in DOMAIN q /\ q[i] = q[i + 0]
      OBVIOUS
    <2>. QED BY <2>1 DEF Remains
  <1>2. Remains(<<>>, q)
    <2>1. \A i \in DOMAIN <<>> : FALSE
      OBVIOUS
    <2>. QED BY <2>1 DEF Remains
  <1>3. q # <<>> => Remains(Tail(q), q)
    BY SequenceFacts DEF Remains
  <1>4. q # <<>> => Remains([q EXCEPT ![1] = e], q)
    <2>1. ASSUME q # <<>>, NEW i \in DOMAIN [q EXCEPT ![1] = e]
          PROVE  [q EXCEPT ![1] = e][i].kind = "garbled"
                 \/ (i + 0 \in DOMAIN q /\ [q EXCEPT ![1] = e][i] = q[i + 0])
      BY <2>1
    <2>. QED BY <2>1 DEF Remains
  <1>. QED BY <1>1, <1>2, <1>3, <1>4

-----------------------------------------------------------------------------
(* The steps                                                               *)

\* What is put on the line is no part of an image, or the sender's frame.
Puts(f) ==
    /\ toModule' = Append(toModule, f)
    /\ f.kind \in {"FW_BEGIN", "DATA"} => f.of = sender.target /\ sender'.state # "SendingBegin"
    /\ f.kind = "FW_BEGIN" => sender.state = "SendingBegin"

\* What is taken for an answer of this update is one.
Trusted(l) ==
    /\ l.kind = "FW_ACK" => Truthful(l) /\ (~misled /\ Past(sender) => l.of = sender.target)
    /\ l.kind = "FW_READY" /\ sender.state = "WaitReady" /\ ~misled' =>
        /\ session = sender.target
        /\ \A i \in DOMAIN fromModule' :
              fromModule'[i].kind \in Vouching => fromModule'[i].of = sender.target

\* A step of the main loop other than the successful start of an update.
LEMMA SenderMoves ==
  ASSUME IInv, NEW l, Goes(sender, sender', l), Trusted(l),
         misled => misled', spent'.updates \in {spent.updates, spent.updates + 1},
         session' = session, stored' = stored,
         toModule' \in Seq(Frames), fromModule' \in Seq(Lines \cup Reports),
         Remains(fromModule', fromModule),
         Remains(toModule', toModule) \/ \E f \in Frames : Puts(f)
  PROVE  Own(sender)' /\ FreshInv' /\ SessionInv' /\ AnswerInv' /\ PastInv'
<1> USE DEF IInv, Vouching
<1>0. /\ sender \in Senders /\ sender' \in Senders /\ sender'.target = sender.target
      /\ sender.confirmed \in Nat /\ sender.target.id \in Nat /\ session.id \in Nat
      /\ stored \in Seq(Nat) /\ Len(stored) \in Nat /\ spent.updates \in Nat
  BY DEF TypeOK, Goes, Senders, Images, NoImage, Updates
<1>1. Own(sender)'
  BY DEF Goes
<1>2. PICK d \in Nat : \A i \in DOMAIN fromModule' :
        fromModule'[i].kind = "garbled" \/ (i + d \in DOMAIN fromModule /\ fromModule'[i] = fromModule[i + d])
  BY DEF Remains
<1>3. DOMAIN fromModule' \subseteq Nat
  BY SequenceFacts, NoTargetIsImage
<1>4. \A l2 : Truthful(l2)' <=> Truthful(l2)
  BY <1>0 DEF Truthful
<1>5. FreshInv'
  <2>1. \A x \in Nat : x <= spent.updates => x <= spent'.updates
    BY <1>0
  <2>2. /\ \A i \in DOMAIN toModule : toModule[i].of.id \in Nat
        /\ \A i \in DOMAIN fromModule : fromModule[i].of.id \in Nat
    <3>1. \A image \in Images : image.id \in Nat
      BY DEF Images, NoImage, Updates
    <3>2. \A f \in Frames \cup Lines \cup Reports : f.of \in Images
      BY DEF Frames, Lines, Reports
    <3>3. /\ \A i \in DOMAIN toModule : toModule[i] \in Frames
          /\ \A i \in DOMAIN fromModule : fromModule[i] \in Lines \cup Reports
      BY DEF TypeOK
    <3>. QED BY <3>1, <3>2, <3>3
  <2>3. \A i \in DOMAIN toModule' :
          toModule'[i].kind \in {"FW_BEGIN", "DATA"} => toModule'[i].of.id <= spent'.updates
    <3>1. CASE Remains(toModule', toModule)
      <4>1. PICK e \in Nat : \A i \in DOMAIN toModule' :
              toModule'[i].kind = "garbled" \/ (i + e \in DOMAIN toModule /\ toModule'[i] = toModule[i + e])
        BY <3>1 DEF Remains
      <4>. QED BY <2>1, <2>2, <4>1 DEF FreshInv
    <3>2. CASE \E f \in Frames : Puts(f)
      <4>1. PICK f \in Frames : Puts(f)
        BY <3>2
      <4>2. \A i \in DOMAIN toModule' : (i \in DOMAIN toModule /\ toModule'[i] = toModule[i]) \/ toModule'[i] = f
        BY <4>1 DEF Puts, TypeOK
      <4>. QED BY <1>0, <2>1, <2>2, <4>1, <4>2 DEF FreshInv, Puts
    <3>. QED BY <3>1, <3>2
  <2>4. \A i \in DOMAIN fromModule' :
          fromModule'[i].kind \in {"FW_READY"} \cup Vouching => fromModule'[i].of.id <= spent'.updates
    BY <1>2, <2>1, <2>2 DEF FreshInv
  <2>. QED BY <1>0, <2>1, <2>3, <2>4 DEF FreshInv
<1>6. SessionInv'
  <2>1. CASE Remains(toModule', toModule)
    <3>1. PICK e \in Nat : \A i \in DOMAIN toModule' :
            toModule'[i].kind = "garbled" \/ (i + e \in DOMAIN toModule /\ toModule'[i] = toModule[i + e])
      BY <2>1 DEF Remains
    <3>2. DOMAIN toModule' \subseteq Nat
      BY SequenceFacts, NoTargetIsImage
    <3>3. \A i \in DOMAIN toModule' : OnlyOwn(i + e) => OnlyOwn(i)'
      BY <1>0, <3>1 DEF OnlyOwn
    <3>4. \A i \in DOMAIN toModule' : toModule'[i].kind = "garbled" => OnlyOwn(i)'
      BY DEF OnlyOwn
    <3>5. session = sender.target => \A i \in DOMAIN toModule' : OnlyOwn(i)'
      BY <3>1, <3>3, <3>4 DEF SessionInv
    <3>6. ASSUME NEW i \in DOMAIN toModule', NEW j \in DOMAIN toModule',
                 toModule'[i].kind = "FW_BEGIN", toModule'[i].of = sender.target, i < j
          PROVE  OnlyOwn(j)'
      <4>1. i + e \in DOMAIN toModule /\ toModule'[i] = toModule[i + e]
        BY <3>1, <3>6
      <4>2. i + e < j + e
        BY <3>2, <3>6
      <4>3. CASE toModule'[j].kind = "garbled"
        BY <4>3, <3>4
      <4>4. CASE j + e \in DOMAIN toModule
        BY <4>1, <4>2, <4>4, <3>3, <3>6 DEF SessionInv
      <4>. QED BY <3>1, <4>3, <4>4
    <3>7. sender'.state = "SendingBegin" =>
            /\ session # sender.target
            /\ \A i \in DOMAIN toModule' : toModule'[i].kind = "FW_BEGIN" => toModule'[i].of # sender.target
      BY <3>1 DEF SessionInv, Goes
    <3>. QED BY <1>0, <3>5, <3>6, <3>7 DEF SessionInv
  <2>2. CASE \E f \in Frames : Puts(f)
    <3>1. PICK f \in Frames : Puts(f)
      BY <2>2
    <3>2. /\ \A i \in DOMAIN toModule' :
               (i \in DOMAIN toModule /\ toModule'[i] = toModule[i]) \/ (i = Len(toModule) + 1 /\ toModule'[i] = f)
          /\ \A i \in DOMAIN toModule : i < Len(toModule) + 1
          /\ Len(toModule) \in Nat /\ DOMAIN toModule \subseteq Nat
      BY <3>1 DEF Puts, TypeOK
    <3>3. \A i \in DOMAIN toModule : OnlyOwn(i) /\ i \in DOMAIN toModule' => OnlyOwn(i)'
      <4>1. \A i \in DOMAIN toModule : i \in DOMAIN toModule' => toModule'[i] = toModule[i]
        BY <3>2
      <4> HIDE DEF IInv
      <4>. QED BY <1>0, <4>1 DEF OnlyOwn
    <3>. QED BY <1>0, <3>1, <3>2, <3>3 DEF SessionInv, Goes, Puts, OnlyOwn
  <2>. QED BY <2>1, <2>2
<1>7. AnswerInv'
  <2>1. Truthful(sender.reply)'
    BY <1>0, <1>4 DEF Goes, Trusted, AnswerInv, Truthful, NoLine, NoFrame, Frame
  <2>2. \A i \in DOMAIN fromModule' : Truthful(fromModule'[i])
    BY <1>2 DEF AnswerInv, Truthful
  <2>3. ASSUME NEW i \in DOMAIN fromModule',
               fromModule'[i].kind = "FW_READY", fromModule'[i].of = sender.target
        PROVE  /\ session = sender.target
               /\ \A j \in DOMAIN fromModule' :
                     i < j /\ fromModule'[j].kind \in Vouching => fromModule'[j].of = sender.target
    <3>1. i + d \in DOMAIN fromModule /\ fromModule[i + d] = fromModule'[i]
      BY <1>2, <2>3
    <3>2. ASSUME NEW j \in DOMAIN fromModule', i < j, fromModule'[j].kind \in Vouching
          PROVE  fromModule'[j].of = sender.target
      <4>1. j + d \in DOMAIN fromModule /\ fromModule[j + d] = fromModule'[j] /\ i + d < j + d
        BY <1>2, <1>3, <3>2
      <4>. QED BY <2>3, <3>1, <3>2, <4>1 DEF AnswerInv
    <3>. QED BY <2>3, <3>1, <3>2 DEF AnswerInv
  <2>4. (\A i \in DOMAIN fromModule : Truthful(fromModule[i]))'
    BY <2>2, <1>0 DEF Truthful
  <2>. QED BY <1>0, <2>1, <2>3, <2>4 DEF AnswerInv
<1>8. PastInv'
  <2>1. ASSUME ~misled', Past(sender'), Past(sender) PROVE PastInv'
    <3>1. /\ ~misled /\ session = sender.target /\ sender.confirmed <= Len(stored)
          /\ \A i \in DOMAIN fromModule : fromModule[i].kind \in Vouching => fromModule[i].of = sender.target
          /\ sender.reply.kind = "FW_ACK" => sender.reply.of = sender.target
      BY <2>1 DEF PastInv
    <3>2. l.kind = "FW_ACK" => l.of = sender.target /\ l.seq < Len(stored)
      BY <2>1, <3>1 DEF Trusted, Truthful
    <3>3. sender'.confirmed <= Len(stored)
      <4>1. CASE sender'.confirmed \in {sender.confirmed, 0}
        BY <1>0, <3>1, <4>1
      <4>2. CASE l.kind = "FW_ACK" /\ l.seq = sender.confirmed /\ sender'.confirmed = sender.confirmed + 1
        BY <1>0, <3>2, <4>2
      <4>. QED BY <4>1, <4>2 DEF Goes
    <3>4. sender'.reply.kind = "FW_ACK" => sender'.reply.of = sender.target
      BY <3>1, <3>2 DEF Goes, NoLine, NoFrame, Frame
    <3>5. \A i \in DOMAIN fromModule' : fromModule'[i].kind \in Vouching => fromModule'[i].of = sender.target
      BY <1>2, <3>1
    <3>. QED BY <1>0, <3>1, <3>3, <3>4, <3>5 DEF PastInv
  <2>2. ASSUME ~misled', Past(sender'), ~Past(sender) PROVE PastInv'
    BY <1>0, <1>2, <2>2 DEF PastInv, Goes, Trusted, Truthful, NoLine, NoFrame, Frame
  <2>. QED BY <2>1, <2>2 DEF PastInv
<1>. QED BY <1>1, <1>5, <1>6, <1>7, <1>8

\* The start of an update, whose id is new.
LEMMA StartMoves ==
  ASSUME IInv, sender' \in Senders, Own(sender)', ~Past(sender'), sender'.reply = NoLine,
         spent'.updates = spent.updates + 1, sender'.target.id = spent'.updates,
         session' = session, stored' = stored, toModule' = toModule, fromModule' = fromModule
  PROVE  FreshInv' /\ SessionInv' /\ AnswerInv' /\ PastInv'
<1> USE DEF Vouching
<1>1. /\ session.id \in Nat /\ spent.updates \in Nat /\ session.id # sender'.target.id
      /\ \A i \in DOMAIN toModule : /\ toModule[i].of.id \in Nat
                                    /\ toModule[i].kind \in {"FW_BEGIN", "DATA"} =>
                                         toModule[i].of.id # sender'.target.id
      /\ \A i \in DOMAIN fromModule : /\ fromModule[i].of.id \in Nat
                                      /\ fromModule[i].kind \in {"FW_READY"} \cup Vouching =>
                                           fromModule[i].of.id # sender'.target.id
  <2>1. \A image \in Images : image.id \in Nat
    BY DEF Images, NoImage, Updates
  <2>2. \A f \in Frames \cup Lines \cup Reports : f.of \in Images
    BY DEF Frames, Lines, Reports
  <2>3. /\ \A i \in DOMAIN toModule : toModule[i] \in Frames
        /\ \A i \in DOMAIN fromModule : fromModule[i] \in Lines \cup Reports
    BY DEF IInv, TypeOK
  <2>. QED BY <2>1, <2>2, <2>3 DEF IInv, TypeOK, FreshInv
<1>2. FreshInv'
  BY <1>1 DEF IInv, FreshInv
<1>3. SessionInv'
  BY <1>1 DEF SessionInv
<1>4. AnswerInv'
  BY <1>1 DEF AnswerInv, Truthful, NoLine, NoFrame, Frame
<1>. QED BY <1>2, <1>3, <1>4 DEF PastInv

\* The answers of the module are those of its session.
OfSession(a) ==
    /\ a.kind # "FW_READY"
    /\ a.kind \in Vouching => a.of = session
    /\ a.kind = "FW_ACK" => a.seq < Len(stored')

\* A step of the module other than that it takes a FW_BEGIN.
LEMMA ModuleMoves ==
  ASSUME IInv, UNCHANGED <<sender, misled, session>>, spent'.updates = spent.updates,
         toModule' \in Seq(Frames), Remains(toModule', toModule),
         \/ stored' = stored
         \/ /\ toModule # <<>> /\ toModule[1].kind = "DATA"
            /\ stored' = Append(stored, toModule[1].of.id),
         \/ fromModule' = fromModule
         \/ \E a \in Lines \cup Reports : fromModule' = Append(fromModule, a) /\ OfSession(a)
  PROVE  FreshInv' /\ SessionInv' /\ AnswerInv' /\ PastInv'
<1> USE DEF IInv, Vouching
<1>0. /\ stored \in Seq(Nat) /\ Len(stored) \in Nat /\ fromModule \in Seq(Lines \cup Reports)
      /\ toModule \in Seq(Frames) /\ sender.target.id \in Nat /\ session.id \in Nat
      /\ sender.confirmed \in Nat /\ sender.reply \in Lines
  BY DEF TypeOK, Senders, Images, NoImage, Updates
<1>1. PICK e \in Nat : \A i \in DOMAIN toModule' :
        toModule'[i].kind = "garbled" \/ (i + e \in DOMAIN toModule /\ toModule'[i] = toModule[i + e])
  BY DEF Remains
<1>2. DOMAIN toModule' \subseteq Nat /\ DOMAIN fromModule \subseteq Nat
  BY <1>0
<1>3. toModule # <<>> => toModule[1] \in Frames /\ toModule[1].of.id \in Nat /\ 1 \in DOMAIN toModule
  <2>1. toModule # <<>> => toModule[1] \in Frames /\ 1 \in DOMAIN toModule
    BY <1>0, InSequence
  <2>2. \A f \in Frames : f.of.id \in Nat
    BY DEF Frames, Images, NoImage, Updates
  <2>. QED BY <2>1, <2>2
<1>4. /\ Len(stored') \in Nat /\ Len(stored) <= Len(stored')
      /\ \A i \in DOMAIN stored' :
            \/ i \in DOMAIN stored /\ stored'[i] = stored[i]
            \/ /\ toModule # <<>> /\ toModule[1].kind = "DATA" /\ stored'[i] = toModule[1].of.id
  <2>1. CASE stored' = stored
    BY <1>0, <2>1
  <2>2. ASSUME toModule # <<>>, toModule[1].kind = "DATA", stored' = Append(stored, toModule[1].of.id)
        PROVE  /\ Len(stored') \in Nat /\ Len(stored) <= Len(stored')
               /\ \A i \in DOMAIN stored' :
                    (i \in DOMAIN stored /\ stored'[i] = stored[i]) \/ stored'[i] = toModule[1].of.id
    BY <1>0, <1>3, <2>2, SequenceFacts, AtEnd
  <2>. QED BY <2>1, <2>2
<1>5. \A i \in DOMAIN fromModule' :
        \/ i \in DOMAIN fromModule /\ fromModule'[i] = fromModule[i]
        \/ /\ i = Len(fromModule) + 1 /\ OfSession(fromModule'[i])
           /\ \A j \in DOMAIN fromModule : j < i
  <2>1. CASE fromModule' = fromModule
    BY <2>1
  <2>2. ASSUME NEW a \in Lines \cup Reports, fromModule' = Append(fromModule, a), OfSession(a)
        PROVE  \A i \in DOMAIN fromModule' :
                 \/ i \in DOMAIN fromModule /\ fromModule'[i] = fromModule[i]
                 \/ /\ i = Len(fromModule) + 1 /\ OfSession(fromModule'[i])
                    /\ \A j \in DOMAIN fromModule : j < i
    BY <1>0, <2>2, AtEnd
  <2>. QED BY <2>1, <2>2
<1>6. FreshInv'
  BY <1>1, <1>5 DEF FreshInv, OfSession
<1>7. SessionInv'
  <2>1. \A i \in DOMAIN toModule' : OnlyOwn(i + e) => OnlyOwn(i)'
    BY <1>1 DEF OnlyOwn
  <2>2. \A i \in DOMAIN toModule' : toModule'[i].kind = "garbled" => OnlyOwn(i)'
    BY DEF OnlyOwn
  <2>3. session = sender.target => \A i \in DOMAIN toModule' : OnlyOwn(i)'
    BY <1>1, <2>1, <2>2 DEF SessionInv
  <2>4. session = sender.target => \A i \in DOMAIN stored' : stored'[i] = sender.target.id
    BY <1>3, <1>4 DEF SessionInv, OnlyOwn
  <2>5. ASSUME NEW i \in DOMAIN toModule', NEW j \in DOMAIN toModule',
               toModule'[i].kind = "FW_BEGIN", toModule'[i].of = sender.target, i < j
        PROVE  OnlyOwn(j)'
    <3>1. i + e \in DOMAIN toModule /\ toModule'[i] = toModule[i + e]
      BY <1>1, <2>5
    <3>2. i + e < j + e
      BY <1>2, <2>5
    <3>3. CASE toModule'[j].kind = "garbled"
      BY <2>2, <3>3
    <3>4. CASE j + e \in DOMAIN toModule
      BY <2>1, <2>5, <3>1, <3>2, <3>4 DEF SessionInv
    <3>. QED BY <1>1, <3>3, <3>4
  <2>6. sender.state = "SendingBegin" =>
          /\ session # sender.target
          /\ \A i \in DOMAIN toModule' : toModule'[i].kind = "FW_BEGIN" => toModule'[i].of # sender.target
    BY <1>1 DEF SessionInv
  <2>. QED BY <2>3, <2>4, <2>5, <2>6 DEF SessionInv
<1>8. AnswerInv'
  <2>1. Truthful(sender.reply)' /\ (\A i \in DOMAIN fromModule : Truthful(fromModule[i]))'
    <3>1. \A l \in Lines \cup Reports : l.kind = "FW_ACK" => l.seq \in Nat
      BY DEF Lines, Reports
    <3>2. \A i \in DOMAIN fromModule : fromModule[i] \in Lines \cup Reports
      BY <1>0
    <3>3. Truthful(sender.reply)'
      BY <1>0, <1>4, <3>1 DEF AnswerInv, Truthful
    <3>4. ASSUME NEW i \in DOMAIN fromModule',
                 fromModule'[i].kind = "FW_ACK", fromModule'[i].of = sender.target
          PROVE  session = sender.target /\ fromModule'[i].seq < Len(stored')
      <4>1. CASE i \in DOMAIN fromModule /\ fromModule'[i] = fromModule[i]
        <5>1. fromModule[i].seq \in Nat /\ session = sender.target /\ fromModule[i].seq < Len(stored)
          BY <3>1, <3>2, <3>4, <4>1 DEF AnswerInv, Truthful
        <5>. QED BY <1>0, <1>4, <4>1, <5>1
      <4>2. CASE OfSession(fromModule'[i])
        BY <3>4, <4>2 DEF OfSession
      <4>. QED BY <1>5, <4>1, <4>2
    <3>. QED BY <3>3, <3>4 DEF Truthful
  <2>2. ASSUME NEW i \in DOMAIN fromModule',
               fromModule'[i].kind = "FW_READY", fromModule'[i].of = sender.target
        PROVE  /\ session = sender.target
               /\ \A j \in DOMAIN fromModule' :
                     i < j /\ fromModule'[j].kind \in Vouching => fromModule'[j].of = sender.target
    <3>1. i \in DOMAIN fromModule /\ fromModule'[i] = fromModule[i]
      BY <1>5, <2>2 DEF OfSession
    <3>. QED BY <1>5, <2>2, <3>1 DEF AnswerInv, OfSession
  <2>. QED BY <2>1, <2>2 DEF AnswerInv
<1>9. PastInv'
  BY <1>0, <1>4, <1>5 DEF PastInv, OfSession
<1>. QED BY <1>6, <1>7, <1>8, <1>9

\* The module takes a FW_BEGIN, and no session was the present update's yet.
LEMMA BeginMoves ==
  ASSUME IInv, UNCHANGED <<sender, misled>>, spent'.updates = spent.updates,
         toModule # <<>>, toModule[1].kind = "FW_BEGIN", toModule' = Tail(toModule),
         session' = toModule[1].of, stored' = <<>>,
         fromModule' = Append(fromModule, Frame("FW_READY", toModule[1].of, 0))
  PROVE  FreshInv' /\ SessionInv' /\ AnswerInv' /\ PastInv'
<1> USE DEF IInv, Vouching
<1>0. /\ fromModule \in Seq(Lines \cup Reports) /\ toModule \in Seq(Frames)
      /\ 1 \in DOMAIN toModule /\ toModule[1].of \in Images
  <2>1. fromModule \in Seq(Lines \cup Reports) /\ toModule \in Seq(Frames)
    BY DEF TypeOK
  <2>2. 1 \in DOMAIN toModule /\ toModule[1] \in Frames
    BY <2>1, InSequence
  <2>. QED BY <2>1, <2>2 DEF Frames
<1>1. session # sender.target
  BY <1>0 DEF SessionInv, OnlyOwn
<1>2. \A i \in DOMAIN toModule' : i \in Nat /\ i + 1 \in DOMAIN toModule /\ toModule'[i] = toModule[i + 1] /\ 1 < i + 1
  BY <1>0
<1>3. \A i \in DOMAIN fromModule' :
        \/ i \in DOMAIN fromModule /\ fromModule'[i] = fromModule[i]
        \/ /\ i = Len(fromModule) + 1 /\ fromModule'[i].kind = "FW_READY" /\ fromModule'[i].of = toModule[1].of
           /\ \A j \in DOMAIN fromModule' : ~(i < j)
  BY <1>0, LinesAreTyped
<1>4. FreshInv'
  BY <1>0, <1>2, <1>3 DEF FreshInv
<1>5. SessionInv'
  <2>1. \A i \in DOMAIN toModule' : OnlyOwn(i + 1) => OnlyOwn(i)'
    BY <1>2 DEF OnlyOwn
  <2>2. session' = sender.target => \A i \in DOMAIN toModule' : OnlyOwn(i)'
    BY <1>0, <1>2, <2>1 DEF SessionInv
  <2>3. ASSUME NEW i \in DOMAIN toModule', NEW j \in DOMAIN toModule',
               toModule'[i].kind = "FW_BEGIN", toModule'[i].of = sender.target, i < j
        PROVE  OnlyOwn(j)'
    <3>1. i + 1 < j + 1
      BY <1>2, <2>3
    <3>. QED BY <1>2, <2>1, <2>3, <3>1 DEF SessionInv
  <2>4. sender.state = "SendingBegin" =>
          /\ session' # sender.target
          /\ \A i \in DOMAIN toModule' : toModule'[i].kind = "FW_BEGIN" => toModule'[i].of # sender.target
    BY <1>0, <1>2 DEF SessionInv
  <2>. QED BY <2>2, <2>3, <2>4 DEF SessionInv
<1>6. AnswerInv'
  <2>1. Truthful(sender.reply)' /\ (\A i \in DOMAIN fromModule : Truthful(fromModule[i]))'
    BY <1>1, <1>3 DEF AnswerInv, Truthful
  <2>2. ASSUME NEW i \in DOMAIN fromModule',
               fromModule'[i].kind = "FW_READY", fromModule'[i].of = sender.target
        PROVE  /\ session' = sender.target
               /\ \A j \in DOMAIN fromModule' :
                     i < j /\ fromModule'[j].kind \in Vouching => fromModule'[j].of = sender.target
    BY <1>1, <1>3, <2>2 DEF AnswerInv
  <2>. QED BY <2>1, <2>2 DEF AnswerInv
<1>7. PastInv'
  BY <1>1 DEF PastInv
<1>. QED BY <1>4, <1>5, <1>6, <1>7

-----------------------------------------------------------------------------
(* The actions                                                             *)

LEMMA InitIInv == Init => IInv
  <1> SUFFICES ASSUME Init PROVE IInv
    OBVIOUS
  <1>1. InitialSender \in Senders
    BY FramesAreTyped, NoTargetIsImage DEF InitialSender, Senders, States
  <1>2. running \in Images /\ running.id = NoImage
    BY VersionAssumption DEF Init, Images
  <1>3. TypeOK
    <2>1. [updates |-> 0, faults |-> 0] \in [updates : 0..MaxUpdates, faults : Nat]
      BY BoundAssumption
    <2>2. <<>> \in Seq(Frames) /\ <<>> \in Seq(Lines \cup Reports) /\ <<>> \in Seq(Nat)
      OBVIOUS
    <2>. QED BY <1>1, <1>2, <2>1, <2>2 DEF Init, TypeOK, OtaStates
  <1>4. Own(sender) /\ ImageHeld
    BY DEF Init, InitialSender, Own, ImageHeld, Sending, Terminal
  <1>5. FreshInv /\ SessionInv /\ AnswerInv /\ PastInv
    BY <1>2, NoTargetIsImage, FramesAreTyped
    DEF Init, InitialSender, FreshInv, SessionInv, AnswerInv, PastInv, Past, Truthful, NoImage
  <1>. QED BY <1>3, <1>4, <1>5 DEF IInv

\* A frame that is put on the line, or what becomes of it there.
LEMMA PutTyped ==
  ASSUME IInv, NEW f \in Frames, Put(f)
  PROVE  /\ toModule' \in Seq(Frames) /\ torn' \in BOOLEAN
         /\ toModule' = Append(toModule, f) \/ toModule' = Append(toModule, Garbled)
  <1>1. toModule \in Seq(Frames) /\ Garbled \in Frames
    BY FramesAreTyped DEF IInv, TypeOK
  <1>2. Append(toModule, f) \in Seq(Frames) /\ Append(toModule, Garbled) \in Seq(Frames)
    BY <1>1
  <1>. QED BY <1>2 DEF Put

LEMMA LineTyped ==
  ASSUME IInv
  PROVE  /\ toModule \in Seq(Frames) /\ fromModule \in Seq(Lines \cup Reports)
         /\ Remains(fromModule, fromModule) /\ Remains(toModule, toModule)
         /\ fromModule # <<>> => /\ Tail(fromModule) \in Seq(Lines \cup Reports)
                                 /\ Remains(Tail(fromModule), fromModule)
         /\ toModule # <<>> => /\ Tail(toModule) \in Seq(Frames)
                               /\ Remains(Tail(toModule), toModule)
         /\ Remains(<<>>, fromModule) /\ Remains(<<>>, toModule)
  <1>1. /\ toModule \in Seq(Frames) /\ fromModule \in Seq(Lines \cup Reports)
        /\ Garbled \in Frames /\ Garbled \in Lines \cup Reports /\ Garbled.kind = "garbled"
    BY FramesAreTyped DEF IInv, TypeOK
  <1>2. /\ Remains(fromModule, fromModule) /\ Remains(<<>>, fromModule)
        /\ fromModule # <<>> => Remains(Tail(fromModule), fromModule)
    BY <1>1, RemainsFacts
  <1>3. /\ Remains(toModule, toModule) /\ Remains(<<>>, toModule)
        /\ toModule # <<>> => Remains(Tail(toModule), toModule)
    BY <1>1, RemainsFacts
  <1>. QED BY <1>1, <1>2, <1>3

\* What a step of the main loop that starts no update has to show.
LEMMA MainKeeps ==
  ASSUME IInv, NEW l, Goes(sender, sender', l), Trusted(l),
         misled' \in BOOLEAN, misled => misled', UNCHANGED <<active, remote>>,
         spent' \in [updates : 0..MaxUpdates, faults : Nat],
         spent'.updates \in {spent.updates, spent.updates + 1},
         enabled' \in BOOLEAN, runtimeActive' \in BOOLEAN, online' \in BOOLEAN, torn' \in BOOLEAN,
         toModule' \in Seq(Frames), fromModule' \in Seq(Lines \cup Reports),
         Remains(fromModule', fromModule),
         Remains(toModule', toModule) \/ \E f \in Frames : Puts(f)
  PROVE  IInv'
<1>1. Own(sender)' /\ FreshInv' /\ SessionInv' /\ AnswerInv' /\ PastInv'
  BY SenderMoves DEF remote
<1>2. TypeOK'
  BY DEF IInv, TypeOK, Goes, remote
<1>3. ImageHeld'
  BY DEF IInv, ImageHeld, Goes
<1>. QED BY <1>1, <1>2, <1>3 DEF IInv

LEMMA NothingTrusted == Trusted(NoLine)
  BY DEF Trusted, NoLine, NoFrame, Frame

\* What holds before the step and is used of it again and again.
LEMMA Typed ==
  ASSUME IInv
  PROVE  /\ sender \in Senders /\ Own(sender)
         /\ spent \in [updates : 0..MaxUpdates, faults : Nat]
         /\ misled \in BOOLEAN /\ enabled \in BOOLEAN /\ runtimeActive \in BOOLEAN
         /\ online \in BOOLEAN /\ torn \in BOOLEAN
  BY DEF IInv, TypeOK

LEMMA StartUpdateKeeps ==
  ASSUME IInv, NEW version \in Versions, StartUpdate(version)
  PROVE  IInv'
<1> DEFINE n == spent.updates + 1
           target == [id |-> n, version |-> version]
           s == Started(target)
<1>1. /\ spent' = [spent EXCEPT !.updates = n] /\ n \in Updates /\ n \in 1..MaxUpdates
      /\ spent' \in [updates : 0..MaxUpdates, faults : Nat] /\ spent'.updates = n
  <2>1. spent \in [updates : 0..MaxUpdates, faults : Nat] /\ spent.updates < MaxUpdates
        /\ spent' = [spent EXCEPT !.updates = spent.updates + 1]
    BY DEF StartUpdate, Spend, IInv, TypeOK
  <2>2. n \in 0..MaxUpdates /\ n \in 1..MaxUpdates
    BY <2>1, BoundAssumption
  <2> HIDE DEF n
  <2>3. spent' = [spent EXCEPT !.updates = n]
    BY <2>1 DEF n
  <2>. QED BY <2>1, <2>2, <2>3 DEF Updates
<1>2. target \in Images
  BY <1>1 DEF Images
<1>3. /\ s \in Senders /\ s.target = target /\ s.image = n /\ s.state = "SendingBegin" /\ s.confirmed = 0
      /\ s.reply = NoLine /\ ~s.aborting /\ s.frame.of = target /\ s.frame.kind = "FW_BEGIN"
  <2>1. /\ Frame("FW_BEGIN", target, 0) \in Frames /\ Frame("FW_BEGIN", target, 0).of = target
        /\ Frame("FW_BEGIN", target, 0).kind = "FW_BEGIN" /\ NoFrame \in Frames /\ NoLine \in Lines
    BY <1>2, FramesAreTyped
  <2> DEFINE f == Frame("FW_BEGIN", target, 0)
  <2> HIDE DEF f
  <2>. QED BY <1>1, <1>2, <2>1
       DEF Started, InitialSender, Senders, States, Sending, f
<1> HIDE DEF s
<1>4. Own(s) /\ ~Past(s)
  BY <1>3 DEF Own, Past, Terminal
<1>5. CASE /\ ~Exclusive(sender) /\ misled' = FALSE
           /\ \/ Become(s) /\ active' = s.image
              \/ Become(Abort(s)) /\ UNCHANGED active
  <2>1. Exclusive(s)
    BY <1>3 DEF Exclusive, Sending
  <2>2. sender' \in Senders /\ Own(sender)' /\ ~Past(sender') /\ sender'.reply = NoLine /\ sender'.target = target
        /\ (sender'.image # NoImage => active' = sender'.image) /\ active' \in {active, n} /\ torn' \in BOOLEAN
    <3>1. CASE Become(s) /\ active' = s.image
      BY <1>3, <1>4, <3>1 DEF Become, IInv, TypeOK
    <3>2. CASE Become(Abort(s)) /\ UNCHANGED active
      <4> DEFINE told == s.state \in Binary
                 t == Fail(s, told)
                 u == [t EXCEPT !.state = "Aborted"]
      <4>1. Goes(s, t, NoLine) /\ t.image = NoImage /\ t.state = "Error"
        <5>1. told \in BOOLEAN
          OBVIOUS
        <5> HIDE DEF told
        <5>. QED BY <1>3, <5>1, FailGoes
      <4>2. Abort(s) = u
        BY <2>1 DEF Abort
      <4> HIDE DEF t
      <4>3. /\ u \in Senders /\ u.state = "Aborted" /\ u.image = NoImage /\ u.target = t.target
            /\ u.confirmed = t.confirmed /\ u.reply = t.reply /\ u.aborting = t.aborting /\ u.frame = t.frame
        BY <4>1 DEF Goes, Senders, States, Terminal
      <4>4. t.target = target /\ t.reply = NoLine /\ t.confirmed = 0 /\ Own(t)
        BY <1>3, <1>4, <4>1 DEF Goes, NoLine, NoFrame, Frame
      <4> HIDE DEF u
      <4>5. Own(u) /\ ~Past(u)
        BY <4>1, <4>3, <4>4 DEF Own, Past, Sending, Terminal
      <4>. QED BY <3>2, <4>2, <4>3, <4>4, <4>5 DEF Become, IInv, TypeOK
    <3>. QED BY <1>5, <3>1, <3>2
  <2>3. TypeOK'
    BY <1>1, <1>5, <2>2 DEF IInv, TypeOK, StartUpdate, remote
  <2>4. FreshInv' /\ SessionInv' /\ AnswerInv' /\ PastInv'
    BY <1>1, <2>2, StartMoves DEF StartUpdate, remote
  <2>. QED BY <2>2, <2>3, <2>4 DEF IInv, ImageHeld
<1>6. CASE Become(Refused(sender)) /\ UNCHANGED <<active, misled>>
  <2>1. Goes(sender, sender', NoLine) /\ torn' \in BOOLEAN
    BY <1>6, Typed, RefusedGoes DEF Become
  <2>. QED BY <1>1, <1>6, <2>1, Typed, LineTyped, NothingTrusted, MainKeeps DEF StartUpdate
<1>7. \/ ~Exclusive(sender) /\ misled' = FALSE /\ Become(s) /\ active' = s.image
      \/ ~Exclusive(sender) /\ misled' = FALSE /\ Become(Abort(s)) /\ UNCHANGED active
      \/ Become(Refused(sender)) /\ UNCHANGED <<active, misled>>
  BY <1>1 DEF StartUpdate, s
<1>. QED BY <1>5, <1>6, <1>7

LEMMA EndUpdateKeeps ==
  ASSUME IInv, EndUpdate
  PROVE  IInv'
<1>1. sender.image = NoImage
  BY DEF EndUpdate, IInv, Own
<1>2. TypeOK' /\ Own(sender)' /\ ImageHeld'
  BY <1>1 DEF EndUpdate, IInv, TypeOK, ImageHeld, line, remote
<1>3. FreshInv' /\ SessionInv' /\ AnswerInv' /\ PastInv'
  BY DEF EndUpdate, IInv, FreshInv, SessionInv, OnlyOwn, AnswerInv, Truthful, PastInv, line, remote
<1>. QED BY <1>2, <1>3 DEF IInv

\* The first line is trusted: behind it no other FW_READY of its update can be.
LEMMA ReadLineKeeps ==
  ASSUME IInv, ReadLine
  PROVE  IInv'
<1> DEFINE l == Head(fromModule)
<1>1. /\ l \in Lines \cup Reports /\ 1 \in DOMAIN fromModule /\ l = fromModule[1]
      /\ fromModule' = Tail(fromModule)
      /\ \A i \in DOMAIN fromModule' : /\ i + 1 \in DOMAIN fromModule /\ 1 < i + 1
                                       /\ fromModule'[i] = fromModule[i + 1]
  BY LineTyped, InSequence DEF ReadLine
<1>2. Become(OnIdentity(sender, l.of.version, l.ota)) \/ Become(OnLine(sender, l))
  BY DEF ReadLine
<1>3. misled' = (misled \/ (l.kind = "FW_READY" /\ sender.state = "WaitReady" /\ l.of # sender.target))
  BY DEF ReadLine
<1>4. online' \in BOOLEAN
  BY Typed DEF ReadLine
<1> HIDE DEF l
<1>5. Goes(sender, sender', l) /\ torn' \in BOOLEAN
  <2>1. Goes(sender, OnIdentity(sender, l.of.version, l.ota), l)
    BY Typed, OnIdentityGoes
  <2>2. Goes(sender, OnLine(sender, l), l)
    BY <1>1, Typed, OnLineGoes
  <2>3. torn' \in BOOLEAN
    BY <1>2, Typed DEF Become
  <2>. QED BY <1>2, <2>1, <2>2, <2>3 DEF Become
<1>6. Trusted(l)
  <2>1. l.kind = "FW_ACK" => Truthful(l) /\ (~misled /\ Past(sender) => l.of = sender.target)
    BY <1>1 DEF IInv, AnswerInv, PastInv, Vouching
  <2>2. ASSUME l.kind = "FW_READY", sender.state = "WaitReady", ~misled'
        PROVE  /\ session = sender.target
               /\ \A i \in DOMAIN fromModule' :
                     fromModule'[i].kind \in Vouching => fromModule'[i].of = sender.target
    <3>1. l.of = sender.target
      BY <1>3, <2>2
    <3>. QED BY <1>1, <2>2, <3>1 DEF IInv, AnswerInv
  <2>. QED BY <2>1, <2>2 DEF Trusted
<1>. QED BY <1>3, <1>4, <1>5, <1>6, Typed, LineTyped, MainKeeps DEF ReadLine

LEMMA ReadReadyKeeps ==
  ASSUME IInv, ReadReady
  PROVE  IInv'
<1>1. toModule' \in Seq(Frames) /\ torn' \in BOOLEAN /\ \E f \in Frames : Puts(f)
  BY FramesAreTyped, PutTyped DEF ReadReady, Puts
<1>2. online' \in BOOLEAN
  BY DEF ReadReady
<1>. QED BY <1>1, <1>2, SameGoes, Typed, LineTyped, NothingTrusted, MainKeeps DEF ReadReady

LEMMA TakeProbeKeeps ==
  ASSUME IInv, TakeProbe
  PROVE  IInv'
<1>1. Goes(sender, sender', NoLine)
  BY Typed DEF TakeProbe, Goes, Senders, Own, Past
<1>2. toModule' \in Seq(Frames) /\ torn' \in BOOLEAN /\ \E f \in Frames : Puts(f)
  BY FramesAreTyped, PutTyped DEF TakeProbe, Puts
<1>. QED BY <1>1, <1>2, Typed, LineTyped, NothingTrusted, MainKeeps DEF TakeProbe

LEMMA TransmitKeeps ==
  ASSUME IInv, Transmit
  PROVE  IInv'
<1>1. CASE sender.sent = "none" /\ sender' = [sender EXCEPT !.sent = "part"] /\ UNCHANGED <<toModule, torn>>
  <2>1. Goes(sender, sender', NoLine)
    BY <1>1, Typed DEF Goes, Senders, Own, Past
  <2>. QED BY <1>1, <2>1, Typed, LineTyped, NothingTrusted, MainKeeps DEF Transmit
<1>2. CASE sender' = Transmitted(sender) /\ Put(sender.frame)
  <2>1. Goes(sender, sender', sender.reply) /\ sender'.state # "SendingBegin"
    BY <1>2, Typed, TransmittedGoes DEF Transmit
  <2>2. sender.frame \in Frames
    BY Typed DEF Senders
  <2>3. /\ sender.frame.of = sender.target
        /\ sender.frame.kind = "FW_BEGIN" => sender.state = "SendingBegin"
    BY Typed DEF Transmit, Transmitting, Own
  <2>4. toModule' \in Seq(Frames) /\ torn' \in BOOLEAN /\ \E f \in Frames : Puts(f)
    BY <1>2, <2>1, <2>2, <2>3, FramesAreTyped, PutTyped DEF Puts
  <2>5. Trusted(sender.reply)
    <3>1. sender.reply.kind # "FW_READY" \/ sender.state # "WaitReady"
      BY Typed DEF Transmit, Transmitting, Own, Sending
    <3>. QED BY <3>1 DEF Trusted, IInv, AnswerInv, PastInv
  <2>. QED BY <2>1, <2>4, <2>5, Typed, LineTyped, MainKeeps DEF Transmit
<1>. QED BY <1>1, <1>2 DEF Transmit

LEMMA ExpireKeeps ==
  ASSUME IInv, Expire
  PROVE  IInv'
<1>1. Goes(sender, sender', NoLine) /\ torn' \in BOOLEAN
  BY Typed, ExpiredGoes DEF Expire, Become
<1>. QED BY <1>1, Typed, LineTyped, NothingTrusted, MainKeeps DEF Expire

LEMMA ProbeAgainKeeps ==
  ASSUME IInv, ProbeAgain
  PROVE  IInv'
<1>1. Goes(sender, sender', NoLine)
  BY Typed DEF ProbeAgain, Goes, Senders, Own, Past
<1>. QED BY <1>1, Typed, LineTyped, NothingTrusted, MainKeeps DEF ProbeAgain, line

LEMMA PollKeeps ==
  ASSUME IInv, Poll
  PROVE  IInv'
<1>1. toModule' \in Seq(Frames) /\ torn' \in BOOLEAN /\ \E f \in Frames : Puts(f)
  BY FramesAreTyped, PutTyped DEF Poll, Puts
<1>. QED BY <1>1, SameGoes, Typed, LineTyped, NothingTrusted, MainKeeps DEF Poll

LEMMA SuspendKeeps ==
  ASSUME IInv, Suspend
  PROVE  IInv'
<1> DEFINE l == Frame("FW_ERR", NoTarget, 0)
<1>1. l \in Lines /\ l.kind = "FW_ERR"
  BY LinesAreTyped, NoTargetIsImage
<1>2. Become(OnLine(sender, l))
  BY DEF Suspend
<1> HIDE DEF l
<1>3. Goes(sender, sender', l) /\ torn' \in BOOLEAN /\ Trusted(l)
  BY <1>1, <1>2, Typed, OnLineGoes DEF Become, Trusted
<1>. QED BY <1>3, Typed, LineTyped, MainKeeps DEF Suspend

LEMMA ResumeKeeps ==
  ASSUME IInv, Resume
  PROVE  IInv'
<1>1. toModule' \in Seq(Frames) /\ torn' \in BOOLEAN /\ \E f \in Frames : Puts(f)
  BY FramesAreTyped, PutTyped DEF Resume, Puts
<1>2. <<>> \in Seq(Lines \cup Reports)
  OBVIOUS
<1>. QED BY <1>1, <1>2, SameGoes, Typed, LineTyped, NothingTrusted, MainKeeps DEF Resume

LEMMA SpentTyped ==
  ASSUME IInv, NEW bound, Spend("faults", bound)
  PROVE  spent' \in [updates : 0..MaxUpdates, faults : Nat] /\ spent'.updates = spent.updates
  BY Typed DEF Spend

LEMMA ToggleKeeps ==
  ASSUME IInv, Toggle
  PROVE  IInv'
<1>1. spent' \in [updates : 0..MaxUpdates, faults : Nat] /\ spent'.updates = spent.updates
  BY Typed, SpentTyped DEF Toggle
<1>. QED BY <1>1, SameGoes, Typed, LineTyped, NothingTrusted, MainKeeps DEF Toggle, line

\* What a step of the module that takes no FW_BEGIN has to show.
LEMMA ModuleKeeps ==
  ASSUME IInv, UNCHANGED <<main, session>>,
         spent' \in [updates : 0..MaxUpdates, faults : Nat], spent'.updates = spent.updates,
         module' \in {"text", "binary", "verifying", "restarting"}, torn' \in BOOLEAN,
         running' \in Images, fallback' \in Images, ota' \in OtaStates,
         toModule' \in Seq(Frames), Remains(toModule', toModule),
         \/ stored' = stored
         \/ /\ toModule # <<>> /\ toModule[1].kind = "DATA"
            /\ stored' = Append(stored, toModule[1].of.id),
         \/ fromModule' = fromModule
         \/ \E a \in Lines \cup Reports : fromModule' = Append(fromModule, a) /\ OfSession(a)
  PROVE  IInv'
<1>1. FreshInv' /\ SessionInv' /\ AnswerInv' /\ PastInv'
  BY ModuleMoves DEF main
<1>2. stored' \in Seq(Nat) /\ fromModule' \in Seq(Lines \cup Reports)
  <2>1. \A f \in Frames : f.of.id \in Nat
    BY DEF Frames, Images, NoImage, Updates
  <2>2. toModule # <<>> => toModule[1] \in Frames
    BY LineTyped, InSequence
  <2>3. stored \in Seq(Nat) /\ fromModule \in Seq(Lines \cup Reports)
    BY DEF IInv, TypeOK
  <2>4. \A n \in Nat : Append(stored, n) \in Seq(Nat)
    BY <2>3
  <2>5. \A a \in Lines \cup Reports : Append(fromModule, a) \in Seq(Lines \cup Reports)
    BY <2>3
  <2>. QED BY <2>1, <2>2, <2>3, <2>4, <2>5
<1>3. TypeOK'
  BY <1>2 DEF IInv, TypeOK, main
<1>4. Own(sender)' /\ ImageHeld'
  BY DEF IInv, ImageHeld, main
<1>. QED BY <1>1, <1>3, <1>4 DEF IInv

LEMMA ModuleTyped ==
  ASSUME IInv
  PROVE  /\ module \in {"text", "binary", "verifying", "restarting"}
         /\ running \in Images /\ fallback \in Images /\ session \in Images /\ ota \in OtaStates
         /\ stored \in Seq(Nat) /\ Len(stored) \in Nat
         /\ toModule # <<>> => Head(toModule) \in Frames /\ Head(toModule) = toModule[1]
         /\ \A f \in Frames : f.seq \in Nat
  BY LineTyped, InSequence DEF IInv, TypeOK, Frames

LEMMA AnswerOfSession ==
  ASSUME IInv, NEW kind \in {"FW_ACK", "FW_NACK", "FW_VERIFY", "FW_OK", "FW_ERR", "FW_ABORTED"},
         NEW n \in Nat, kind = "FW_ACK" => n < Len(stored'), Answer(kind, n)
  PROVE  \E a \in Lines \cup Reports : fromModule' = Append(fromModule, a) /\ OfSession(a)
  <1> DEFINE a == Frame(kind, session, n)
  <1>1. a \in Lines /\ a.kind = kind /\ a.of = session /\ a.seq = n
    BY ModuleTyped, LinesAreTyped
  <1>2. fromModule' = Append(fromModule, a)
    BY DEF Answer
  <1> HIDE DEF a
  <1>. QED BY <1>1, <1>2 DEF OfSession, Vouching

LEMMA ReadCommandKeeps ==
  ASSUME IInv, ReadCommand
  PROVE  IInv'
<1> DEFINE f == Head(toModule)
<1>0. /\ toModule # <<>> /\ f \in Frames /\ f = toModule[1] /\ toModule' = Tail(toModule)
      /\ UNCHANGED <<main, torn, spent, running, fallback, ota>>
  BY ModuleTyped DEF ReadCommand, ModuleRuns
<1>1. CASE /\ f.kind = "FW_BEGIN" /\ module' = "binary" /\ session' = f.of /\ stored' = <<>>
           /\ fromModule' = Append(fromModule, Frame("FW_READY", f.of, 0))
  <2>1. FreshInv' /\ SessionInv' /\ AnswerInv' /\ PastInv'
    BY <1>0, <1>1, BeginMoves DEF main
  <2>2. f.of \in Images /\ <<>> \in Seq(Nat)
    BY <1>0 DEF Frames
  <2>3. fromModule' \in Seq(Lines \cup Reports)
    <3>1. Frame("FW_READY", f.of, 0) \in Lines \cup Reports
      BY <2>2, LinesAreTyped
    <3>. QED BY <1>1, <3>1, LineTyped, SequenceFacts
  <2>4. TypeOK'
    BY <1>0, <1>1, <2>2, <2>3, LineTyped DEF IInv, TypeOK, main
  <2>5. Own(sender)' /\ ImageHeld'
    BY <1>0 DEF IInv, ImageHeld, main
  <2>. QED BY <2>1, <2>4, <2>5 DEF IInv
<1>2. CASE UNCHANGED <<module, session, stored>>
           /\ (Answer("FW_ERR", 0) \/ fromModule' = Append(fromModule, Status(running, ota))
               \/ UNCHANGED fromModule)
  <2>1. \/ fromModule' = fromModule
        \/ \E a \in Lines \cup Reports : fromModule' = Append(fromModule, a) /\ OfSession(a)
    <3>1. CASE Answer("FW_ERR", 0)
      BY <3>1, AnswerOfSession
    <3>2. CASE fromModule' = Append(fromModule, Status(running, ota))
      <4>1. Status(running, ota) \in Reports /\ Status(running, ota).kind = "STATUS"
        BY ModuleTyped DEF Status, Reports
      <4>. QED BY <3>2, <4>1 DEF OfSession, Vouching
    <3>. QED BY <1>2, <3>1, <3>2
  <2>. QED BY <1>0, <1>2, <2>1, Typed, ModuleTyped, LineTyped, ModuleKeeps
<1>. QED BY <1>1, <1>2 DEF ReadCommand

LEMMA ReadFrameKeeps ==
  ASSUME IInv, ReadFrame
  PROVE  IInv'
<1> DEFINE f == Head(toModule)
<1>0. /\ toModule # <<>> /\ f \in Frames /\ f.seq \in Nat /\ f = toModule[1] /\ toModule' = Tail(toModule)
      /\ UNCHANGED <<main, torn, spent, session, running, fallback, ota>>
  BY ModuleTyped DEF ReadFrame, ModuleRuns
<1>1. module' \in {"text", "binary", "verifying", "restarting"}
  BY ModuleTyped DEF ReadFrame
<1>2. /\ \/ stored' = stored
         \/ f.kind = "DATA" /\ stored' = Append(stored, f.of.id)
      /\ \/ fromModule' = fromModule
         \/ \E a \in Lines \cup Reports : fromModule' = Append(fromModule, a) /\ OfSession(a)
  <2>1. CASE /\ f.kind = "DATA" /\ f.seq = Len(stored)
             /\ stored' = Append(stored, f.of.id) /\ Answer("FW_ACK", f.seq)
    <3>1. f.seq < Len(stored')
      BY <2>1, ModuleTyped
    <3>. QED BY <1>0, <2>1, <3>1, AnswerOfSession
  <2>2. CASE /\ stored' = stored
             /\ Answer("FW_NACK", f.seq) \/ (f.seq < Len(stored) /\ Answer("FW_ACK", f.seq))
    BY <1>0, <2>2, AnswerOfSession
  <2>3. CASE /\ stored' = stored
             /\ Answer("FW_VERIFY", 0) \/ Answer("FW_ERR", 0) \/ Answer("FW_ABORTED", 0)
    BY <2>3, AnswerOfSession
  <2>4. CASE stored' = stored /\ (Answer("FW_NACK", Len(stored)) \/ UNCHANGED fromModule)
    BY <2>4, ModuleTyped, AnswerOfSession
  <2>. QED BY <2>1, <2>2, <2>3, <2>4 DEF ReadFrame
<1>. QED BY <1>0, <1>1, <1>2, Typed, ModuleTyped, LineTyped, ModuleKeeps

LEMMA LeaveBinaryKeeps ==
  ASSUME IInv, LeaveBinary
  PROVE  IInv'
<1>1. \E a \in Lines \cup Reports : fromModule' = Append(fromModule, a) /\ OfSession(a)
  BY AnswerOfSession DEF LeaveBinary
<1>. QED BY <1>1, Typed, ModuleTyped, LineTyped, ModuleKeeps DEF LeaveBinary, ModuleRuns

LEMMA VerifyKeeps ==
  ASSUME IInv, Verify
  PROVE  IInv'
<1>1. \E a \in Lines \cup Reports : fromModule' = Append(fromModule, a) /\ OfSession(a)
  BY AnswerOfSession DEF Verify
<1>2. module' \in {"text", "binary", "verifying", "restarting"}
  BY DEF Verify
<1>. QED BY <1>1, <1>2, Typed, ModuleTyped, LineTyped, ModuleKeeps DEF Verify, ModuleRuns

\* What both restarts of the module share.
LEMMA RebootFacts ==
  ASSUME IInv, Reboot
  PROVE  /\ UNCHANGED <<main, session, stored>> /\ module' = "text" /\ torn' \in BOOLEAN
         /\ toModule' \in Seq(Frames) /\ Remains(toModule', toModule)
         /\ \E a \in Lines \cup Reports : fromModule' = Append(fromModule, a) /\ OfSession(a)
<1>1. \E a \in Lines \cup Reports : fromModule' = Append(fromModule, a) /\ OfSession(a)
  <2>1. Frame("READY", NoTarget, 0) \in Lines /\ Frame("READY", NoTarget, 0).kind = "READY"
    BY LinesAreTyped, NoTargetIsImage
  <2> DEFINE a == Frame("READY", NoTarget, 0)
  <2>2. fromModule' = Append(fromModule, a)
    BY DEF Reboot
  <2> HIDE DEF a
  <2>. QED BY <2>1, <2>2 DEF OfSession, Vouching, a
<1>2. <<>> \in Seq(Frames)
  OBVIOUS
<1>. QED BY <1>1, <1>2, LineTyped DEF Reboot

LEMMA BootKeeps ==
  ASSUME IInv, Boot
  PROVE  IInv'
<1>1. running' \in Images /\ fallback' \in Images /\ ota' \in OtaStates
  BY ModuleTyped DEF Boot, OtaStates
<1>2. Reboot /\ spent' = spent
  BY DEF Boot
<1>. QED BY <1>1, <1>2, Typed, RebootFacts, ModuleKeeps

LEMMA ConfirmKeeps ==
  ASSUME IInv, Confirm
  PROVE  IInv'
<1>1. ota' \in OtaStates
  BY DEF Confirm, OtaStates
<1>. QED BY <1>1, Typed, ModuleTyped, LineTyped, ModuleKeeps DEF Confirm, ModuleRuns

LEMMA ResetKeeps ==
  ASSUME IInv, Reset
  PROVE  IInv'
<1>1. running' \in Images /\ fallback' \in Images /\ ota' \in OtaStates
  BY ModuleTyped DEF Reset, OtaStates
<1>2. Reboot /\ spent' \in [updates : 0..MaxUpdates, faults : Nat] /\ spent'.updates = spent.updates
  BY SpentTyped DEF Reset
<1>. QED BY <1>1, <1>2, RebootFacts, ModuleKeeps

LEMMA NoiseKeeps ==
  ASSUME IInv, Noise
  PROVE  IInv'
<1>1. spent' \in [updates : 0..MaxUpdates, faults : Nat] /\ spent'.updates = spent.updates
  BY SpentTyped DEF Noise
<1>2. /\ toModule \in Seq(Frames) /\ fromModule \in Seq(Lines \cup Reports)
      /\ Garbled \in Frames /\ Garbled \in Lines \cup Reports /\ Garbled.kind = "garbled"
  BY LineTyped, FramesAreTyped
<1>3. /\ toModule' \in Seq(Frames) /\ Remains(toModule', toModule)
      /\ fromModule' \in Seq(Lines \cup Reports) /\ Remains(fromModule', fromModule)
  <2>1. toModule # <<>> =>
          /\ Tail(toModule) \in Seq(Frames) /\ [toModule EXCEPT ![1] = Garbled] \in Seq(Frames)
          /\ Remains(Tail(toModule), toModule) /\ Remains([toModule EXCEPT ![1] = Garbled], toModule)
    BY <1>2, SequenceFacts, RemainsFacts
  <2>2. fromModule # <<>> =>
          /\ Tail(fromModule) \in Seq(Lines \cup Reports)
          /\ [fromModule EXCEPT ![1] = Garbled] \in Seq(Lines \cup Reports)
          /\ Remains(Tail(fromModule), fromModule)
          /\ Remains([fromModule EXCEPT ![1] = Garbled], fromModule)
    BY <1>2, SequenceFacts, RemainsFacts
  <2>. QED BY <2>1, <2>2, LineTyped DEF Noise
<1>. QED BY <1>1, <1>3, SameGoes, Typed, NothingTrusted, MainKeeps DEF Noise, main

LEMMA NextIInv == IInv /\ [Next]_vars => IInv'
<1> SUFFICES ASSUME IInv, [Next]_vars PROVE IInv'
  OBVIOUS
<1>1. CASE MainStep
  BY <1>1, StartUpdateKeeps, EndUpdateKeeps, ReadLineKeeps, ReadReadyKeeps, TakeProbeKeeps,
     TransmitKeeps, ExpireKeeps, ProbeAgainKeeps, PollKeeps, SuspendKeeps, ResumeKeeps DEF MainStep
<1>2. CASE Toggle \/ Noise
  BY <1>2, ToggleKeeps, NoiseKeeps
<1>3. CASE ModuleStep
  BY <1>3, ReadCommandKeeps, ReadFrameKeeps, LeaveBinaryKeeps, VerifyKeeps, BootKeeps, ConfirmKeeps,
     ResetKeeps DEF ModuleStep
<1>4. CASE UNCHANGED vars
  BY <1>4 DEF IInv, TypeOK, ImageHeld, FreshInv, SessionInv, OnlyOwn, AnswerInv, Truthful, PastInv,
     vars, main, line, remote
<1>. QED BY <1>1, <1>2, <1>3, <1>4 DEF Next

-----------------------------------------------------------------------------
(* The end of an update                                                    *)

\* A sender waits for the identity only after FW_OK, and is successful only
\* after a status that calls the image valid.
Ends(s, t, l) ==
    /\ t.target = s.target
    /\ t.state = "WaitIdentity" =>
         s.state = "WaitIdentity" \/ (s.state = "WaitOk" /\ l.kind = "FW_OK")
    /\ t.state = "Success" =>
         s.state = "Success" \/ (s.state = "WaitIdentity" /\ l.kind = "STATUS" /\ l.ota = "VALID")

\* A step that keeps the target and leads to another state, or to none.
LEMMA EndsOtherwise ==
  ASSUME NEW s, NEW t, NEW l, t.target = s.target,
         t.state \notin {"WaitIdentity", "Success"} \/ t.state = s.state
  PROVE  Ends(s, t, l)
  BY DEF Ends

\* The states the operations of the sender lead to.
LEMMA StatesReached ==
  ASSUME NEW s \in Senders
  PROVE  /\ \A told \in BOOLEAN : Fail(s, told).state = "Error" /\ Fail(s, told).target = s.target
         /\ PrepareData(s).state = "SendingData" /\ PrepareData(s).target = s.target
         /\ PrepareEnd(s).state = "SendingEnd" /\ PrepareEnd(s).target = s.target
         /\ Retry(s).state \in {"Error", "SendingData"} /\ Retry(s).target = s.target
         /\ OnReady(s).state = s.state /\ OnReady(s).target = s.target
         /\ \A l : Early(s, l).state \in {"Error", s.state} /\ Early(s, l).target = s.target
  BY DEF Senders, Fail, PrepareData, PrepareEnd, Retry, OnReady, Early

LEMMA AnsweredReaches ==
  ASSUME NEW s \in Senders, NEW l
  PROVE  Answered(s, l).state \in {"Error", "SendingData", "SendingEnd"} /\ Answered(s, l).target = s.target
<1> DEFINE t == [s EXCEPT !.confirmed = @ + 1]
<1>1. t \in Senders /\ t.target = s.target
  BY DEF Senders
<1> HIDE DEF t
<1>2. PrepareEnd(t).state = "SendingEnd" /\ PrepareEnd(t).target = s.target
      /\ PrepareData(t).state = "SendingData" /\ PrepareData(t).target = s.target
  BY <1>1, StatesReached
<1>3. Acknowledged(s).state \in {"SendingData", "SendingEnd"} /\ Acknowledged(s).target = s.target
  BY <1>2 DEF Acknowledged, t
<1>4. Fail(s, TRUE).state = "Error" /\ Fail(s, TRUE).target = s.target
      /\ Retry(s).state \in {"Error", "SendingData"} /\ Retry(s).target = s.target
  BY StatesReached
<1>. QED BY <1>3, <1>4 DEF Answered

LEMMA OnLineEnds ==
  ASSUME NEW s \in Senders, NEW l
  PROVE  Ends(s, OnLine(s, l), l)
<1>1. CASE l.kind = "READY"
  BY <1>1, StatesReached, EndsOtherwise DEF OnLine
<1>2. CASE l.kind # "READY" /\ Exclusive(s)
  <2>1. \A told \in BOOLEAN : Ends(s, Fail(s, told), l)
    BY StatesReached, EndsOtherwise
  <2>2. (l.kind # "FW_ABORTED" /\ s.state # "WaitIdentity") \in BOOLEAN
    OBVIOUS
  <2>3. s.state = "SendingData" => Ends(s, Early(s, l), l)
    BY StatesReached, EndsOtherwise
  <2>4. Ends(s, PrepareData(s), l) /\ Ends(s, Answered(s, l), l)
    BY StatesReached, AnsweredReaches, EndsOtherwise
  <2>5. Ends(s, [s EXCEPT !.state = "WaitOk"], l)
    BY DEF Ends, Senders
  <2>6. s.state = "WaitOk" /\ l.kind = "FW_OK" => Ends(s, [s EXCEPT !.state = "WaitIdentity"], l)
    BY DEF Ends, Senders
  <2>7. Ends(s, OnUpdateLine(s, l), l)
    BY <2>1, <2>2, <2>3, <2>4, <2>5, <2>6 DEF OnUpdateLine
  <2>. QED BY <1>2, <2>7 DEF OnLine
<1>3. CASE l.kind # "READY" /\ ~Exclusive(s)
  BY <1>3, EndsOtherwise DEF OnLine
<1>. QED BY <1>1, <1>2, <1>3

LEMMA OnIdentityEnds ==
  ASSUME NEW s \in Senders, NEW l, l.kind = "STATUS"
  PROVE  Ends(s, OnIdentity(s, l.of.version, l.ota), l)
<1>1. Ends(s, Fail(s, FALSE), l) /\ Ends(s, s, l) /\ Ends(s, [s EXCEPT !.probeDue = TRUE], l)
  BY StatesReached, EndsOtherwise DEF Senders
<1>2. s.state = "WaitIdentity" /\ l.ota = "VALID" =>
        Ends(s, [s EXCEPT !.state = "Success", !.image = NoImage], l)
  BY DEF Ends, Senders
<1>. QED BY <1>1, <1>2 DEF OnIdentity

LEMMA ExpiredEnds ==
  ASSUME NEW s \in Senders, NEW l
  PROVE  Ends(s, Expired(s), l)
<1>1. (s.state \notin {"SendingBegin", "WaitIdentity"}) \in BOOLEAN
  OBVIOUS
<1>2. AbortDone(s).state = s.state /\ AbortDone(s).target = s.target
  BY DEF AbortDone, Senders
<1>. QED BY <1>1, <1>2, StatesReached, EndsOtherwise DEF Expired

LEMMA RefusedEnds ==
  ASSUME NEW s \in Senders, NEW l
  PROVE  Ends(s, Refused(s), l)
<1> DEFINE t == [s EXCEPT !.reply = NoLine, !.confirmed = 0]
<1>1. t \in Senders /\ t.target = s.target
  BY FramesAreTyped DEF Senders
<1> HIDE DEF t
<1>2. Fail(t, FALSE).state = "Error" /\ Fail(t, FALSE).target = s.target
  BY <1>1, StatesReached
<1>. QED BY <1>2, EndsOtherwise DEF Refused, t

\* An early answer is one to a chunk, so what follows the last byte ends nothing.
LEMMA TransmittedEnds ==
  ASSUME NEW s \in Senders, Own(s), Transmitting(s), NEW l
  PROVE  Ends(s, Transmitted(s), l)
<1>1. CASE s.aborting
  BY <1>1, EndsOtherwise DEF Transmitted, AbortDone, Senders
<1>2. CASE ~s.aborting /\ s.state \in {"SendingBegin", "SendingEnd"}
  BY <1>2, EndsOtherwise DEF Transmitted, Senders
<1>3. CASE ~s.aborting /\ s.state = "SendingData"
  <2> DEFINE t == [s EXCEPT !.sent = "all", !.state = "WaitAck"]
             u == OnLine(t, s.reply)
             v == [u EXCEPT !.reply = NoLine]
  <2>1. t \in Senders /\ t.state = "WaitAck" /\ t.target = s.target /\ t.reply = s.reply
        /\ s.reply \in Lines /\ Own(t)
    BY <1>3 DEF Senders, States, Waiting, Own, Sending, Terminal
  <2> HIDE DEF t
  <2>2. u.state \notin {"WaitIdentity", "Success"} /\ u.target = s.target /\ u \in Senders
    BY <2>1, OnLineEnds, OnLineGoes DEF Ends, Goes
  <2> HIDE DEF u
  <2>3. v.state = u.state /\ v.target = u.target
    BY <2>2 DEF Senders
  <2>4. Transmitted(s) = IF s.reply = NoLine THEN t ELSE v
    BY <1>3, <2>1 DEF Transmitted, t, u
  <2>. QED BY <2>1, <2>2, <2>3, <2>4, EndsOtherwise
<1>. QED BY <1>1, <1>2, <1>3 DEF Transmitting, Sending, Senders

\* What an ending step of the sender may rely on.
Final(l) ==
    /\ ~misled /\ sender.state = "WaitOk" /\ l.kind = "FW_OK" =>
         OnTrial /\ \A j \in DOMAIN fromModule' : Sound(fromModule'[j])
    /\ ~misled /\ sender.state = "WaitIdentity" => Sound(l)

\* A step of the main loop other than the successful start of an update.
LEMMA SenderEnds ==
  ASSUME IInv, InstalledInv, NEW l, Ends(sender, sender', l), Final(l),
         misled => misled', misled' \in BOOLEAN, UNCHANGED remote, fromModule' \in Seq(Lines \cup Reports),
         Remains(fromModule', fromModule)
  PROVE  InstalledInv'
<1>1. /\ sender'.target = sender.target /\ OnTrial' = OnTrial /\ Installed' = Installed
      /\ \A x : Sound(x)' <=> Sound(x)
  BY DEF Ends, OnTrial, Sound, Installed, remote
<1>2. PICK d \in Nat : \A i \in DOMAIN fromModule' :
        fromModule'[i].kind = "garbled" \/ (i + d \in DOMAIN fromModule /\ fromModule'[i] = fromModule[i + d])
  BY DEF Remains
<1>3. DOMAIN fromModule' \subseteq Nat /\ \A x : x.kind = "garbled" => Sound(x)
  BY InSequence DEF Sound
<1>4. ASSUME NEW i \in DOMAIN fromModule', fromModule'[i].kind = "FW_OK", fromModule'[i].of = sender.target
      PROVE  OnTrial /\ \A j \in DOMAIN fromModule' : i < j => Sound(fromModule'[j])
  <2>1. i + d \in DOMAIN fromModule /\ fromModule'[i] = fromModule[i + d]
    BY <1>2, <1>4
  <2>2. ASSUME NEW j \in DOMAIN fromModule', i < j PROVE i + d < j + d
    BY <1>3, <2>2
  <2>. QED BY <1>2, <1>3, <1>4, <2>1, <2>2 DEF InstalledInv
<1>5. ~misled' /\ sender'.state = "WaitIdentity" =>
        OnTrial /\ \A j \in DOMAIN fromModule' : Sound(fromModule'[j])
  <2>1. ~misled /\ sender.state = "WaitIdentity" =>
          OnTrial /\ \A j \in DOMAIN fromModule' : Sound(fromModule'[j])
    BY <1>2, <1>3 DEF InstalledInv
  <2>. QED BY <2>1 DEF Ends, Final
<1>6. ~misled' /\ sender'.state = "Success" => session = sender.target /\ module = "text" /\ Installed
  BY DEF Ends, Final, InstalledInv, Sound, OnTrial
<1>7. session' = session /\ module' = module
  BY DEF remote
<1>. QED BY <1>1, <1>4, <1>5, <1>6, <1>7 DEF InstalledInv

\* The start of an update: nothing on its way is of it.
LEMMA StartEnds ==
  ASSUME IInv, sender'.target.id = spent.updates + 1,
         sender'.state \notin {"WaitIdentity", "Success"}, fromModule' = fromModule
  PROVE  InstalledInv'
<1>1. /\ \A i \in DOMAIN fromModule : fromModule[i].of.id \in Nat
      /\ spent.updates \in Nat
  <2>1. \A image \in Images : image.id \in Nat
    BY DEF Images, NoImage, Updates
  <2>2. \A f \in Lines \cup Reports : f.of \in Images
    BY DEF Lines, Reports
  <2>3. \A i \in DOMAIN fromModule : fromModule[i] \in Lines \cup Reports
    BY DEF IInv, TypeOK
  <2>. QED BY <2>1, <2>2, <2>3 DEF IInv, TypeOK
<1>2. \A i \in DOMAIN fromModule : fromModule[i].kind = "FW_OK" => fromModule[i].of # sender'.target
  BY <1>1 DEF IInv, FreshInv, Vouching
<1>. QED BY <1>2 DEF InstalledInv

\* A step of the main loop that leaves the state of the sender alone.
LEMMA StillEnds ==
  ASSUME IInv, InstalledInv, sender'.state = sender.state, sender'.target = sender.target,
         misled' = misled, UNCHANGED remote, fromModule' \in Seq(Lines \cup Reports),
         Remains(fromModule', fromModule)
  PROVE  InstalledInv'
<1>1. Ends(sender, sender', NoLine) /\ Final(NoLine)
  <2>1. NoLine.kind = "none"
    BY FramesAreTyped
  <2>. QED BY <2>1, EndsOtherwise DEF Final, Sound
<1>. QED BY <1>1, Typed, SenderEnds

LEMMA StartUpdateEnds ==
  ASSUME IInv, InstalledInv, NEW version \in Versions, StartUpdate(version)
  PROVE  InstalledInv'
<1> DEFINE n == spent.updates + 1
           target == [id |-> n, version |-> version]
           s == Started(target)
<1>1. spent'.updates = n
  BY Typed DEF StartUpdate, Spend
<1>2. /\ s.target = target /\ s.target.id = n /\ s.state = "SendingBegin" /\ ~s.aborting
  BY DEF Started, InitialSender
<1>3. Started([id |-> spent'.updates, version |-> version]) = s
  BY <1>1
<1>4. fromModule' = fromModule /\ UNCHANGED remote
  BY DEF StartUpdate
<1>5. CASE \/ Become(s) \/ Become(Abort(s))
  <2>1. Abort(s).target = s.target /\ Abort(s).state = "Aborted"
    BY <1>2 DEF Abort, Fail, Exclusive, Sending, Started, InitialSender
  <2>2. sender'.target.id = spent.updates + 1 /\ sender'.state \notin {"WaitIdentity", "Success"}
    BY <1>2, <1>5, <2>1 DEF Become
  <2>. QED BY <1>4, <2>2, StartEnds
<1>6. CASE Become(Refused(sender)) /\ UNCHANGED misled
  <2>1. Ends(sender, sender', NoLine) /\ Final(NoLine)
    <3>1. NoLine.kind = "none"
      BY FramesAreTyped
    <3>. QED BY <1>6, <3>1, Typed, RefusedEnds DEF Final, Sound, Become
  <2>. QED BY <1>4, <1>6, <2>1, Typed, LineTyped, SenderEnds
<1> HIDE DEF s
<1>. QED BY <1>3, <1>5, <1>6 DEF StartUpdate

LEMMA ReadLineEnds ==
  ASSUME IInv, InstalledInv, ReadLine
  PROVE  InstalledInv'
<1> DEFINE l == Head(fromModule)
<1>1. /\ fromModule # <<>> /\ l = fromModule[1] /\ 1 \in DOMAIN fromModule
      /\ fromModule' = Tail(fromModule)
      /\ \A i \in DOMAIN fromModule' : /\ i \in Nat /\ i + 1 \in DOMAIN fromModule /\ 1 < i + 1
                                       /\ fromModule'[i] = fromModule[i + 1]
  BY LineTyped, InSequence DEF ReadLine
<1>2. \/ l.kind = "STATUS" /\ sender' = OnIdentity(sender, l.of.version, l.ota)
      \/ sender' = OnLine(sender, l)
  BY DEF ReadLine, Become
<1>3. misled => misled'
  BY DEF ReadLine
<1>4. misled' \in BOOLEAN /\ UNCHANGED remote
  BY DEF ReadLine
<1> HIDE DEF l
<1>5. Ends(sender, sender', l)
  BY <1>2, Typed, OnIdentityEnds, OnLineEnds
<1>6. Final(l)
  <2>1. ASSUME ~misled, sender.state = "WaitOk", l.kind = "FW_OK"
        PROVE  OnTrial /\ \A j \in DOMAIN fromModule' : Sound(fromModule'[j])
    <3>1. l.of = sender.target
      BY <1>1, <2>1 DEF IInv, PastInv, Past, Vouching
    <3>. QED BY <1>1, <2>1, <3>1 DEF InstalledInv
  <2>2. ~misled /\ sender.state = "WaitIdentity" => Sound(l)
    BY <1>1 DEF InstalledInv
  <2>. QED BY <2>1, <2>2 DEF Final
<1>. QED BY <1>1, <1>3, <1>4, <1>5, <1>6, LineTyped, SenderEnds

\* The main loop.
LEMMA MainEnds ==
  ASSUME IInv, InstalledInv, MainStep \/ Toggle \/ Noise
  PROVE  InstalledInv'
<1>1. CASE \E version \in Versions : StartUpdate(version)
  BY <1>1, StartUpdateEnds
<1>2. CASE ReadLine
  BY <1>2, ReadLineEnds
<1>3. CASE EndUpdate \/ ReadReady \/ Poll \/ Toggle
  BY <1>3, Typed, LineTyped, StillEnds DEF EndUpdate, ReadReady, Poll, Toggle, line
<1>4. CASE TakeProbe \/ ProbeAgain
  <2>1. sender'.state = sender.state /\ sender'.target = sender.target
    BY <1>4, Typed DEF TakeProbe, ProbeAgain, Senders
  <2>. QED BY <1>4, <2>1, Typed, LineTyped, StillEnds DEF TakeProbe, ProbeAgain, line
<1>5. CASE Transmit
  <2>1. CASE sender' = [sender EXCEPT !.sent = "part"]
    <3>1. sender'.state = sender.state /\ sender'.target = sender.target
      BY <2>1, Typed DEF Senders
    <3>. QED BY <1>5, <3>1, Typed, LineTyped, StillEnds DEF Transmit
  <2>2. CASE sender' = Transmitted(sender)
    <3>1. Ends(sender, sender', NoLine) /\ NoLine.kind = "none"
      BY <1>5, <2>2, Typed, TransmittedEnds, FramesAreTyped DEF Transmit
    <3>2. Final(NoLine)
      BY <3>1 DEF Final, Sound
    <3>. QED BY <1>5, <3>1, <3>2, Typed, LineTyped, SenderEnds DEF Transmit
  <2>. QED BY <1>5, <2>1, <2>2 DEF Transmit
<1>6. CASE Expire
  <2>1. Ends(sender, sender', NoLine) /\ NoLine.kind = "none"
    BY <1>6, Typed, ExpiredEnds, FramesAreTyped DEF Expire, Become
  <2>2. Final(NoLine)
    BY <2>1 DEF Final, Sound
  <2>. QED BY <1>6, <2>1, <2>2, Typed, LineTyped, SenderEnds DEF Expire
<1>7. CASE Suspend
  <2> DEFINE l == Frame("FW_ERR", NoTarget, 0)
  <2>1. l.kind = "FW_ERR"
    BY LinesAreTyped, NoTargetIsImage
  <2>2. sender' = OnLine(sender, l) /\ misled' = misled /\ UNCHANGED remote /\ fromModule' = fromModule
    BY <1>7 DEF Suspend, Become
  <2> HIDE DEF l
  <2>3. Ends(sender, sender', l) /\ Final(l)
    BY <2>1, <2>2, Typed, OnLineEnds DEF Final, Sound
  <2>. QED BY <2>2, <2>3, Typed, LineTyped, SenderEnds
<1>8. CASE Resume
  <2>1. <<>> \in Seq(Lines \cup Reports)
    OBVIOUS
  <2>. QED BY <1>8, <2>1, Typed, LineTyped, StillEnds DEF Resume
<1>9. CASE Noise
  <2>1. fromModule' \in Seq(Lines \cup Reports) /\ Remains(fromModule', fromModule)
    <3>1. Garbled \in Lines \cup Reports /\ Garbled.kind = "garbled"
      BY FramesAreTyped
    <3>2. fromModule # <<>> =>
            /\ [fromModule EXCEPT ![1] = Garbled] \in Seq(Lines \cup Reports)
            /\ Remains([fromModule EXCEPT ![1] = Garbled], fromModule)
      BY <3>1, LineTyped, SequenceFacts, RemainsFacts
    <3>. QED BY <1>9, <3>2, LineTyped DEF Noise
  <2>. QED BY <1>9, <2>1, Typed, StillEnds DEF Noise, main
<1>. QED BY <1>1, <1>2, <1>3, <1>4, <1>5, <1>6, <1>7, <1>8, <1>9 DEF MainStep

\* A step of the module while it has not found this image good, other than
\* that it does so: nothing of the update has come to its end.
LEMMA NotYetEnds ==
  ASSUME IInv, InstalledInv, module \notin {"text", "restarting"}, UNCHANGED main,
         \/ fromModule' = fromModule
         \/ \E a : fromModule' = Append(fromModule, a) /\ a.kind # "FW_OK"
  PROVE  InstalledInv'
<1>1. /\ \A i \in DOMAIN fromModule : fromModule[i].kind = "FW_OK" => fromModule[i].of # sender.target
      /\ ~(~misled /\ sender.state \in {"WaitIdentity", "Success"})
  BY DEF InstalledInv, OnTrial
<1>2. \A i \in DOMAIN fromModule' : fromModule'[i].kind # "FW_OK"
        \/ (i \in DOMAIN fromModule /\ fromModule'[i] = fromModule[i])
  <2>1. ASSUME NEW a, a.kind # "FW_OK", fromModule' = Append(fromModule, a)
        PROVE  \A i \in DOMAIN fromModule' : fromModule'[i].kind # "FW_OK"
                  \/ (i \in DOMAIN fromModule /\ fromModule'[i] = fromModule[i])
    BY <2>1, LineTyped
  <2>. QED BY <2>1
<1>. QED BY <1>1, <1>2 DEF InstalledInv, main

LEMMA ReadCommandEnds ==
  ASSUME IInv, InstalledInv, ReadCommand
  PROVE  InstalledInv'
<1> DEFINE f == Head(toModule)
<1>0. /\ module = "text" /\ toModule # <<>> /\ f = toModule[1] /\ 1 \in DOMAIN toModule
      /\ UNCHANGED <<main, running, ota>>
  BY LineTyped, InSequence DEF ReadCommand, ModuleRuns
<1>1. CASE f.kind = "FW_BEGIN" /\ fromModule' = Append(fromModule, Frame("FW_READY", f.of, 0))
  <2>1. session # sender.target
    BY <1>0, <1>1 DEF IInv, SessionInv, OnlyOwn
  <2>2. Frame("FW_READY", f.of, 0).kind = "FW_READY"
    BY DEF Frame
  <2>3. \A i \in DOMAIN fromModule' : fromModule'[i].kind # "FW_OK"
          \/ (i \in DOMAIN fromModule /\ fromModule'[i] = fromModule[i])
    BY <1>1, <2>2, LineTyped
  <2>. QED BY <1>0, <2>1, <2>3 DEF InstalledInv, OnTrial, main
<1>2. CASE /\ UNCHANGED <<module, session, stored>>
           /\ \/ Answer("FW_ERR", 0) \/ fromModule' = Append(fromModule, Status(running, ota))
              \/ UNCHANGED fromModule
  <2>1. OnTrial' = OnTrial /\ Installed' = Installed /\ \A x : Sound(x)' <=> Sound(x)
    BY <1>0, <1>2 DEF OnTrial, Installed, Sound, main
  <2>2. OnTrial => Sound(Status(running, ota))
    BY <1>0 DEF OnTrial, Sound, Status, Installed
  <2>3. Sound(Frame("FW_ERR", session, 0)) /\ Frame("FW_ERR", session, 0).kind = "FW_ERR"
        /\ Status(running, ota).kind = "STATUS"
    BY DEF Sound, Frame, Status
  <2>4. \A i \in DOMAIN fromModule' :
          \/ i \in DOMAIN fromModule /\ fromModule'[i] = fromModule[i]
          \/ fromModule'[i].kind # "FW_OK" /\ (OnTrial => Sound(fromModule'[i]))
    BY <1>2, <2>2, <2>3, LineTyped DEF Answer
  <2>. QED BY <1>0, <1>2, <2>1, <2>4 DEF InstalledInv, main
<1>. QED BY <1>1, <1>2 DEF ReadCommand

LEMMA VerifyEnds ==
  ASSUME IInv, InstalledInv, Verify
  PROVE  InstalledInv'
<1>1. CASE Answer("FW_ERR", 0)
  <2>1. Frame("FW_ERR", session, 0).kind = "FW_ERR"
    BY DEF Frame
  <2>. QED BY <1>1, <2>1, NotYetEnds DEF Verify, ModuleRuns, Answer
<1>2. CASE module' = "restarting" /\ Answer("FW_OK", 0)
  <2>1. /\ \A i \in DOMAIN fromModule : fromModule[i].kind = "FW_OK" => fromModule[i].of # sender.target
        /\ ~(~misled /\ sender.state \in {"WaitIdentity", "Success"})
    BY DEF InstalledInv, OnTrial, Verify
  <2>2. Frame("FW_OK", session, 0).of = session
    BY DEF Frame
  <2>3. \A i \in DOMAIN fromModule' :
          \/ i \in DOMAIN fromModule /\ fromModule'[i] = fromModule[i]
          \/ fromModule'[i].of = session /\ \A j \in DOMAIN fromModule' : ~(i < j)
    BY <1>2, <2>2, LineTyped DEF Answer
  <2>4. UNCHANGED <<main, session>>
    BY DEF Verify, ModuleRuns
  <2>. QED BY <1>2, <2>1, <2>3, <2>4 DEF InstalledInv, OnTrial, main
<1>. QED BY <1>1, <1>2 DEF Verify

\* The module restarts: into the new image, or by a reset.
LEMMA RebootEnds ==
  ASSUME IInv, InstalledInv, Boot \/ Reset
  PROVE  InstalledInv'
<1> DEFINE a == Frame("READY", NoTarget, 0)
<1>1. UNCHANGED <<main, session>> /\ module' = "text" /\ fromModule' = Append(fromModule, a)
      /\ a.kind = "READY"
  BY DEF Boot, Reset, Reboot, Frame
<1> HIDE DEF a
<1>2. \A i \in DOMAIN fromModule' :
        (i \in DOMAIN fromModule /\ fromModule'[i] = fromModule[i]) \/ fromModule'[i] = a
  BY <1>1, LineTyped
<1>3. OnTrial => OnTrial'
  BY <1>1 DEF OnTrial, Boot, Reset, main
<1>4. \A x : Sound(x) => Sound(x)'
  BY <1>1 DEF Sound, Installed, Boot, Reset, main
<1>5. module = "text" /\ Installed => Installed'
  BY <1>1 DEF Installed, Boot, Reset, main
<1>6. Sound(a)'
  BY <1>1 DEF Sound
<1>. QED BY <1>1, <1>2, <1>3, <1>4, <1>5, <1>6 DEF InstalledInv, main

LEMMA ConfirmEnds ==
  ASSUME IInv, InstalledInv, Confirm
  PROVE  InstalledInv'
<1>1. UNCHANGED <<main, session, module, running, fromModule>> /\ ota = "PENDING_VERIFY"
  BY DEF Confirm, ModuleRuns
<1>2. (OnTrial => OnTrial') /\ (\A x : Sound(x) => Sound(x)') /\ ~Installed
  BY <1>1 DEF OnTrial, Sound, Installed, main
<1>. QED BY <1>1, <1>2 DEF InstalledInv, main

LEMMA ModuleEnds ==
  ASSUME IInv, InstalledInv, ModuleStep
  PROVE  InstalledInv'
<1>1. CASE ReadFrame \/ LeaveBinary
  <2>1. module = "binary" /\ UNCHANGED main
    BY <1>1 DEF ReadFrame, LeaveBinary, ModuleRuns
  <2>2. fromModule' = fromModule \/ \E kind \in {"FW_ACK", "FW_NACK", "FW_VERIFY", "FW_ERR", "FW_ABORTED"},
                                      n \in {0, Head(toModule).seq, Len(stored)} : Answer(kind, n)
    BY <1>1 DEF ReadFrame, LeaveBinary
  <2>3. \/ fromModule' = fromModule
        \/ \E a : fromModule' = Append(fromModule, a) /\ a.kind # "FW_OK"
    BY <2>2 DEF Answer, Frame
  <2>. QED BY <2>1, <2>3, NotYetEnds
<1>. QED BY <1>1, ReadCommandEnds, VerifyEnds, RebootEnds, ConfirmEnds DEF ModuleStep

LEMMA NextInstalled == IInv /\ InstalledInv /\ [Next]_vars => InstalledInv'
<1> SUFFICES ASSUME IInv, InstalledInv, [Next]_vars PROVE InstalledInv'
  OBVIOUS
<1>1. CASE UNCHANGED vars
  BY <1>1 DEF InstalledInv, OnTrial, Sound, Installed, vars, main, line, remote
<1>. QED BY <1>1, MainEnds, ModuleEnds DEF Next

LEMMA InitInstalled == Init => InstalledInv
  BY DEF Init, InitialSender, InstalledInv

-----------------------------------------------------------------------------
(* The theorems                                                            *)

\* The strengthening that makes the two invariants below inductive.
THEOREM Invariant == Spec => []IInv
  BY InitIInv, NextIInv, PTL DEF Spec

\* For any number of chunks, repetitions, updates and faults, what the sender
\* counts as confirmed the module has stored, and it is of this update: an
\* answer that is late, repeated or of an earlier update is never taken for one
\* of a chunk of this one (unless its FW_READY was).
THEOREM AlwaysConfirmedIsStored == Spec => []ConfirmedIsStored
<1>1. IInv => ConfirmedIsStored
  BY DEF IInv, PastInv, Past, SessionInv, ConfirmedIsStored
<1>. QED BY <1>1, Invariant, PTL

\* The sender never holds the pointer to an image that has been deleted.
THEOREM AlwaysImageHeld == Spec => []ImageHeld
<1>1. IInv => ImageHeld
  BY DEF IInv
<1>. QED BY <1>1, Invariant, PTL

\* Success means that the module runs the image that was sent and has confirmed
\* it, whatever was lost, late or sent twice and however often the module was
\* reset: an update is told of no image that is on trial, that was left again,
\* or that only has the same version (unless its FW_READY was of another one).
THEOREM AlwaysSuccessMeansInstalled == Spec => []SuccessMeansInstalled
<1>1. Spec => []InstalledInv
  <2>1. Init => InstalledInv
    BY InitInstalled
  <2>2. IInv /\ InstalledInv /\ [Next]_vars => InstalledInv'
    BY NextInstalled
  <2>. QED BY <2>1, <2>2, Invariant, PTL DEF Spec
<1>2. InstalledInv => SuccessMeansInstalled
  BY DEF InstalledInv, SuccessMeansInstalled
<1>. QED BY <1>1, <1>2, PTL
=============================================================================
