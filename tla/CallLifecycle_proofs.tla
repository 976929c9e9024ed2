----------------------- MODULE CallLifecycle_proofs -----------------------
(***************************************************************************)
(* One call between the worker, Asterisk, the debtor and the consumer: for *)
(* any levels, causes, retries, drops and backlog, and whatever crashes.   *)
(* The row keeps the facts of its log under every writer; what it says     *)
(* about the line is true because each frame that was raised is (Keys,     *)
(* Played), and a free attempt stays free because a channel that rang once *)
(* and was refused leaves nothing behind that could say otherwise (Quiet,  *)
(* RungOut).                                                               *)
(***************************************************************************)
EXTENDS CallLifecycle, SequenceTheorems, Projection_proofs

\* What is in a websocket, whatever its order.
Frames(q) == {q[i] : i \in DOMAIN q}

\* A phone rings once per POST at most.
Rung == /\ rings <= MaxRetries + 1
        /\ worker \in {"committed", "retrying"} => rings <= tries

\* The types, with what keeps the number of rings bounded.
CallTypes == TypeOK /\ Rung

\* A keypress in the websocket or on the row was pressed on the line.
Keys == /\ \A e \in Frames(queue) : e.kind = "ChannelDtmfReceived" => e.value \in line.pressed
        /\ row.ack => "1" \in line.pressed

\* Below L3 only the message is played; a playback that is reported finished was heard to
\* its end or cut, and had been spoken.
Played == level # "L3" =>
            /\ \A i \in DOMAIN media : media[i] = "message"
            /\ (row.played \/ \E e \in Frames(queue) : e.kind = "PlaybackFinished")
                 => line.heard \/ line.cut
            /\ media # <<>> \/ line.heard \/ line.cut => line.spoken

\* The answer on the row was settled, unless the worker stored over it.
Settled == row.answered # NoTime /\ worker # "overtook" => IsTerminal(row.status)

\* Until a phone that rings for the first time is answered or given up, nothing has happened.
NothingYet == rings = 0 \/ (rings = 1 /\ chan = "ringing")

\* The row says nothing of an answer.
Unanswered == row.answered = NoTime /\ row.status \notin {"ANSWERED", "ANSWERED_MACHINE"}

\* Until the first ring is over, neither the line nor the row has anything to say.
Quiet == /\ rings = 0 => chan \in {"none", "gone"}
         /\ NothingYet =>
              /\ queue = <<>> /\ media = <<>> /\ cdr = "NONE" /\ ~line.answered
              /\ Unanswered /\ row.cause = NoCause /\ outcome.counts

\* Something says that the carrier was congested.
Congested == \/ row.cause = "CONGESTION" \/ ~outcome.counts
             \/ \E e \in Frames(queue) : e.cause = "CONGESTION"

\* After one ring, then, nobody answered, and nothing is to come that says anything else.
RungOut == rings = 1 /\ Congested =>
  /\ chan = "gone" /\ media = <<>> /\ cdr # "ANSWERED" /\ ~line.answered /\ Unanswered
  /\ row.cause \in {NoCause, "CONGESTION"}
  /\ ~outcome.counts => row.cause = "CONGESTION"
  /\ \A e \in Frames(queue) : e.kind = "ChannelDestroyed" /\ e.cause = "CONGESTION" /\ e.from = "ARI"

---------------------------------------------------------------------------
(* Frames in a websocket.                                                  *)

\* What a queue of two parts holds.
LEMMA FramesConcat ==
  ASSUME NEW q \in Seq(Event), NEW r \in Seq(Event)
  PROVE  q \o r \in Seq(Event) /\ Frames(q \o r) \subseteq Frames(q) \cup Frames(r)
<1>1. q \o r \in Seq(Event) /\ Len(q \o r) = Len(q) + Len(r)
  BY ConcatProperties
<1>2. ASSUME NEW i \in DOMAIN (q \o r)
      PROVE  (q \o r)[i] \in Frames(q) \cup Frames(r)
  <2>1. i \in 1 .. Len(q) + Len(r) /\ Len(q) \in Nat /\ Len(r) \in Nat
    BY <1>1, LenProperties
  <2>2. (q \o r)[i] = IF i <= Len(q) THEN q[i] ELSE r[i - Len(q)]
    BY <2>1, ConcatProperties
  <2>3. IF i <= Len(q) THEN i \in DOMAIN q ELSE i - Len(q) \in DOMAIN r
    BY <2>1, LenProperties
  <2> QED BY <2>2, <2>3 DEF Frames
<1> QED BY <1>1, <1>2 DEF Frames

\* The frame that is read, and those that are left.
LEMMA FramesTail ==
  ASSUME NEW q \in Seq(Event), q # <<>>
  PROVE  /\ Head(q) \in Event /\ Head(q) \in Frames(q)
         /\ Tail(q) \in Seq(Event) /\ Frames(Tail(q)) \subseteq Frames(q)
<1>1. /\ Head(q) \in Event /\ Tail(q) \in Seq(Event) /\ Len(Tail(q)) = Len(q) - 1
      /\ \A i \in 1 .. Len(Tail(q)) : Tail(q)[i] = q[i + 1]
  BY HeadTailProperties
<1>2. Len(q) \in Nat \ {0} /\ DOMAIN q = 1 .. Len(q) /\ DOMAIN Tail(q) = 1 .. Len(Tail(q))
  BY <1>1, EmptySeq, LenProperties
<1>3. Head(q) = q[1]
  OBVIOUS
<1> QED BY <1>1, <1>2, <1>3 DEF Frames

\* One event or two that are raised together.
LEMMA FramesFew ==
  ASSUME NEW d \in Event, NEW e \in Event
  PROVE  /\ Frames(<<>>) = {}
         /\ <<e>> \in Seq(Event) /\ Frames(<<e>>) = {e}
         /\ <<d>> \o <<e>> \in Seq(Event) /\ Frames(<<d>> \o <<e>>) \subseteq {d, e}
         /\ <<>> \o <<e>> \in Seq(Event) /\ Frames(<<>> \o <<e>>) = {e}
<1>1. Frames(<<>>) = {}
  BY DEF Frames
<1>2. \A f \in Event : <<f>> \in Seq(Event) /\ Frames(<<f>>) = {f}
  BY DEF Frames
<1>3. <<>> \o <<e>> = <<e>>
  BY <1>2, ConcatEmptySeq
<1>4. /\ <<d>> \o <<e>> \in Seq(Event)
      /\ Frames(<<d>> \o <<e>>) \subseteq Frames(<<d>>) \cup Frames(<<e>>)
  <2>1. <<d>> \in Seq(Event) /\ <<e>> \in Seq(Event)
    BY <1>2
  <2> QED BY <2>1, FramesConcat
<1>5. Frames(<<d>> \o <<e>>) \subseteq {d, e}
  BY <1>2, <1>4
<1> QED BY <1>1, <1>2, <1>3, <1>4, <1>5

\* Events that are raised are unread or lost.
LEMMA RaiseFrames ==
  ASSUME NEW q \in Seq(Event), NEW events \in Seq(Event), Raise(q, events)
  PROVE  queue' \in Seq(Event) /\ Frames(queue') \subseteq Frames(q) \cup Frames(events)
BY FramesConcat DEF Raise

\* What Asterisk raises is an event.
LEMMA AriEvent ==
  ASSUME NEW k \in Kinds, NEW n \in Nat, NEW v \in Values, NEW c \in Causes \cup {NoCause}
  PROVE  Ari(k, n, v, c) \in Event
BY DEF Ari, Event, Sources

\* A channel that hangs up says so, and names no cause but a normal one.
Farewell(e) == /\ e.kind \in {"StasisEnd", "ChannelDestroyed", "PlaybackFinished"}
               /\ e.cause \in {NoCause, "NORMAL"}

\* A playback that a hangup reports finished is marked as cut.
FarewellOf(e) == Farewell(e) /\ (e.kind = "PlaybackFinished" => line'.cut)

\* A hangup leaves of the line what happened on it, and marks no playback but one it cut.
KeepsLine == /\ line' = [line EXCEPT !.cut = line'.cut] /\ line'.cut \in BOOLEAN
             /\ line.cut => line'.cut
             /\ line'.cut => line.cut \/ media # <<>>

\* What the channel says as it leaves.
LEMMA LeavingFrames ==
  ASSUME TypeOK, NEW left \in Leaving
  PROVE  /\ left \in Seq(Event) /\ \A e \in Frames(left) : Farewell(e)
         /\ (\E e \in Frames(left) : e.kind = "PlaybackFinished") => Len(left) = 2
         /\ Len(left) = 2 => media # <<>>
<1> DEFINE s == Ari("StasisEnd", clock + 1, "NONE", NoCause)
           p == Ari("PlaybackFinished", clock + 1, "NONE", NoCause)
<1>1. s \in Event /\ p \in Event /\ Farewell(s) /\ Farewell(p) /\ s.kind = "StasisEnd"
  <2>1. {"StasisEnd", "PlaybackFinished"} \subseteq Kinds /\ "NONE" \in Values
    BY DEF Kinds, Values
  <2>2. clock + 1 \in Nat
    BY DEF TypeOK
  <2>3. s \in Event /\ p \in Event
    BY <2>1, <2>2, AriEvent
  <2> QED BY <2>3 DEF Farewell, Ari
<1>2. \/ left = <<>> \/ left = <<s>>
      \/ media # <<>> /\ (left = <<s>> \o <<p>> \/ left = <<p>> \o <<s>>)
  BY DEF Leaving
<1> HIDE DEF s, p
<1>3. /\ <<s>> \o <<p>> \in Seq(Event) /\ Frames(<<s>> \o <<p>>) \subseteq {s, p}
      /\ <<p>> \o <<s>> \in Seq(Event) /\ Frames(<<p>> \o <<s>>) \subseteq {s, p}
  <2>1. <<s>> \o <<p>> \in Seq(Event) /\ Frames(<<s>> \o <<p>>) \subseteq {s, p}
    BY <1>1, FramesFew, Zenon
  <2>2. <<p>> \o <<s>> \in Seq(Event) /\ Frames(<<p>> \o <<s>>) \subseteq {p, s}
    BY <1>1, FramesFew, Zenon
  <2> QED BY <2>1, <2>2
<1>4. Len(<<s>> \o <<p>>) = 2 /\ Len(<<p>> \o <<s>>) = 2
  <2>1. <<s>> \in Seq(Event) /\ <<p>> \in Seq(Event) /\ Len(<<s>>) = 1 /\ Len(<<p>>) = 1
    BY <1>1
  <2> QED BY <2>1, ConcatProperties
<1>5. CASE left = <<>>
  <2>1. Frames(<<>>) = {} /\ <<>> \in Seq(Event) /\ Len(<<>>) = 0
    BY DEF Frames
  <2> QED BY <1>5, <2>1
<1>6. CASE left = <<s>>
  <2>1. left \in Seq(Event) /\ Frames(left) = {s} /\ Len(left) = 1
    BY <1>1, <1>6, FramesFew
  <2> QED BY <1>1, <2>1
<1>7. CASE media # <<>> /\ (left = <<s>> \o <<p>> \/ left = <<p>> \o <<s>>)
  <2>1. CASE left = <<s>> \o <<p>>
    BY <1>1, <1>3, <1>4, <1>7, <2>1, Zenon
  <2>2. CASE left = <<p>> \o <<s>>
    BY <1>1, <1>3, <1>4, <1>7, <2>2, Zenon
  <2> QED BY <1>7, <2>1, <2>2
<1> QED BY <1>2, <1>5, <1>6, <1>7

\* What hanging up raises are farewells, and the channel is gone.
LEMMA HangUpFrames ==
  ASSUME TypeOK, NEW q \in Seq(Event), HangUp(q)
  PROVE  /\ queue' \in Seq(Event) /\ \A e \in Frames(queue') : e \in Frames(q) \/ FarewellOf(e)
         /\ chan' = "gone" /\ media' = <<>> /\ clock' \in Nat
         /\ cdr' \in {"ANSWERED", "NO_ANSWER"} /\ KeepsLine
<1> DEFINE d == Ari("ChannelDestroyed", clock + 2, "NONE", "NORMAL")
<1>1. PICK left \in Leaving :
        /\ Raise(q, left \o <<d>>) /\ chan' = "gone" /\ media' = <<>> /\ clock' = clock + 2
        /\ cdr' \in {"ANSWERED", "NO_ANSWER"}
        /\ line' = [line EXCEPT !.cut = line.cut \/ Len(left) = 2]
  BY DEF HangUp
<1>2. d \in Event /\ Farewell(d) /\ d.kind = "ChannelDestroyed"
  <2>1. "ChannelDestroyed" \in Kinds /\ "NONE" \in Values /\ "NORMAL" \in Causes
    BY DEF Kinds, Values, Causes
  <2>2. clock + 2 \in Nat
    BY DEF TypeOK
  <2>3. d \in Event
    BY <2>1, <2>2, AriEvent
  <2> QED BY <2>3 DEF Farewell, Ari
<1> HIDE DEF d
<1>3. clock' \in Nat
  BY <1>1 DEF TypeOK
<1>4. line'.cut = (line.cut \/ Len(left) = 2) /\ line'.cut \in BOOLEAN
  BY <1>1 DEF TypeOK
<1>5. KeepsLine
  BY <1>1, <1>4, LeavingFrames DEF KeepsLine
<1>6. <<d>> \in Seq(Event) /\ Frames(<<d>>) = {d}
  BY <1>2, FramesFew
<1>7. left \in Seq(Event) /\ \A e \in Frames(left) : FarewellOf(e)
  BY <1>4, LeavingFrames DEF FarewellOf
<1>8. left \o <<d>> \in Seq(Event) /\ Frames(left \o <<d>>) \subseteq Frames(left) \cup {d}
  BY <1>6, <1>7, FramesConcat
<1>9. FarewellOf(d)
  BY <1>2 DEF FarewellOf
<1>10. queue' \in Seq(Event) /\ Frames(queue') \subseteq Frames(q) \cup Frames(left \o <<d>>)
  BY <1>1, <1>8, RaiseFrames
<1> QED BY <1>1, <1>3, <1>5, <1>7, <1>8, <1>9, <1>10

---------------------------------------------------------------------------
(* What a step of the consumer does, to the row and to the line.           *)

\* One frame is folded into the row, or was known.
LEMMA HandleRow ==
  ASSUME TypeOK, Handle
  PROVE  /\ Head(queue) \in Event /\ Head(queue) \in Frames(queue)
         /\ row' \in Call /\ log' \in SUBSET Event
         /\ \/ row' = row /\ log' = log
            \/ row' = ApplyEvent(row, Head(queue)) /\ log' = log \cup {Head(queue)}
<1>1. Head(queue) \in Event /\ Head(queue) \in Frames(queue)
  BY FramesTail DEF TypeOK, Handle
<1>2. \/ row' = row /\ log' = log
      \/ row' = ApplyEvent(row, Head(queue)) /\ log' = log \cup {Head(queue)}
  BY DEF Handle, Ingest
<1>3. ApplyEvent(row, Head(queue)) \in Call
  BY <1>1, ApplyExtends DEF TypeOK, Extends
<1> QED BY <1>1, <1>2, <1>3 DEF TypeOK

\* The call is driven: something may be played, or the channel hung up.
LEMMA HandleLine ==
  ASSUME TypeOK, Handle
  PROVE  /\ queue' \in Seq(Event) /\ \A e \in Frames(queue') : e \in Frames(queue) \/ (FarewellOf(e) /\ Live)
         /\ clock' \in Nat
         /\ \/ UNCHANGED <<chan, media, line, cdr>>
            \/ /\ chan' = "gone" /\ media' = <<>> /\ cdr' \in {"ANSWERED", "NO_ANSWER"} /\ Live
               /\ KeepsLine
            \/ /\ chan = "up" /\ UNCHANGED <<chan, cdr>>
               /\ \E m \in {"prompt", "message"} :
                    /\ media' = Append(media, m)
                    /\ line' = [line EXCEPT !.spoken = @ \/ m = "message"]
                    /\ m = "prompt" => level = "L3"
                    /\ m = "message" /\ level = "L3" =>
                         \/ row'.ack
                         \/ Head(queue).kind = "ChannelDtmfReceived" /\ Head(queue).value = "1"
<1> DEFINE e == Head(queue)
           c == row'
<1>1. Tail(queue) \in Seq(Event) /\ Frames(Tail(queue)) \subseteq Frames(queue)
  BY FramesTail DEF TypeOK, Handle
<1>2. Drive(e, c)
  BY DEF Handle
<1>3. CASE queue' = Tail(queue) /\ UNCHANGED <<chan, clock, cdr>> /\ Play("message")
           /\ (level = "L3" => row'.ack \/ (e.kind = "ChannelDtmfReceived" /\ e.value = "1"))
  BY <1>1, <1>3 DEF Play, TypeOK
<1>4. CASE queue' = Tail(queue) /\ UNCHANGED <<chan, clock, cdr>> /\ Play("prompt") /\ level = "L3"
  BY <1>1, <1>4 DEF Play, TypeOK
<1>5. CASE queue' = Tail(queue) /\ UNCHANGED <<chan, media, line, clock, cdr>>
  BY <1>1, <1>5 DEF TypeOK
<1>6. CASE Live /\ HangUp(Tail(queue))
  BY <1>1, <1>6, HangUpFrames
<1>7. Gated(c) <=> level = "L3" /\ ~row'.ack
  BY DEF Gated
<1> QED BY <1>2, <1>3, <1>4, <1>5, <1>6, <1>7 DEF Drive

\* A status that does not go back stays past dialling.
LEMMA RankSettled ==
  ASSUME NEW s, NEW t, Rank(t) >= Rank(s), IsTerminal(s)
  PROVE  IsTerminal(t)
BY DEF Rank, IsTerminal, Terminal

\* The event that closes a call nobody saw the end of carries no cause and no fact but the end.
LEMMA ClosedRow ==
  ASSUME TypeOK, NEW from \in {"CDR", "RECONCILER"}
  PROVE  /\ Destroyed(from) \in Event
         /\ Closed(from) \in Call
         /\ Closed(from).played = row.played /\ Closed(from).ack = row.ack
         /\ Closed(from).optedOut = row.optedOut
         /\ Closed(from).answered = row.answered /\ Closed(from).cause = row.cause
         /\ IsTerminal(row.status) => IsTerminal(Closed(from).status)
         /\ Unanswered => Closed(from).status \notin {"ANSWERED", "ANSWERED_MACHINE"}
<1> DEFINE e == Destroyed(from)
<1>1. e \in Event /\ e.kind = "ChannelDestroyed" /\ e.cause = NoCause
  BY DEF Destroyed, Event, Kinds, Values, Sources, TypeOK
<1>2. row \in Call
  BY DEF TypeOK
<1> HIDE DEF e
<1>3. /\ ApplyEvent(row, e).cause = row.cause
      /\ Extends(row, e, ApplyEvent(row, e)) /\ Explains(row, e, ApplyEvent(row, e).status)
  BY <1>1, <1>2, ApplyCause, ApplyExtends, ApplyExplained
<1>4. Closed(from) = row \/ Closed(from) = ApplyEvent(row, e)
  BY DEF Closed, e
<1>5. NoCause # "NORMAL"
  BY DEF NoCause
<1>6. CASE Closed(from) = row
  BY <1>1, <1>2, <1>6 DEF Unanswered, e
<1>7. CASE Closed(from) = ApplyEvent(row, e)
  <2>1. /\ Closed(from) \in Call /\ Closed(from).cause = row.cause
        /\ Closed(from).answered = row.answered
    BY <1>1, <1>3, <1>7 DEF Extends
  <2>2. /\ Closed(from).played = row.played /\ Closed(from).ack = row.ack
        /\ Closed(from).optedOut = row.optedOut
    BY <1>1, <1>2, <1>3, <1>7 DEF Extends, Call
  <2>3. Unanswered => Closed(from).status \notin {"ANSWERED", "ANSWERED_MACHINE"}
    BY <1>1, <1>3, <1>5, <1>7 DEF Explains, Unanswered
  <2>4. IsTerminal(row.status) => IsTerminal(Closed(from).status)
    BY <1>3, <1>7, RankSettled DEF Extends
  <2> QED BY <1>1, <2>1, <2>2, <2>3, <2>4 DEF e
<1> QED BY <1>4, <1>6, <1>7

\* The diff closes the call, with a status of its own, or finds nothing to do.
LEMMA DiffRow ==
  ASSUME TypeOK, ReconnectDiff
  PROVE  \/ UNCHANGED <<row, log, outcome>>
         \/ /\ InFlight(row) /\ outcome' = ApplyOutcome(outcome, row')
            /\ \E from \in {"CDR", "RECONCILER"}, s \in Statuses :
                 /\ row' = [Closed(from) EXCEPT !.status = s]
                 /\ log' = log \cup {e \in {Destroyed(from)} : ~Duplicate(log, e)}
                 /\ Unanswered /\ cdr # "ANSWERED" => s \notin {"ANSWERED", "ANSWERED_MACHINE"}
                 /\ IsTerminal(row.status) => IsTerminal(s)
<1>1. CASE ~MissedItsEnd
  BY <1>1 DEF ReconnectDiff
<1>2. CASE MissedItsEnd
  <2>1. InFlight(row) /\ outcome' = ApplyOutcome(outcome, row')
    BY <1>2 DEF MissedItsEnd, ReconnectDiff
  <2>2. CASE FromCdr
    <3> DEFINE s == IF cdr = "ANSWERED" THEN Closed("CDR").status ELSE cdr
    <3>1. row' = [Closed("CDR") EXCEPT !.status = s]
      BY <2>2, ClosedRow DEF FromCdr
    <3>2. s \in Statuses
      BY <2>2, ClosedRow DEF FromCdr, TypeOK, Statuses, Call
    <3>3. Unanswered /\ cdr # "ANSWERED" => s \notin {"ANSWERED", "ANSWERED_MACHINE"}
      BY DEF TypeOK
    <3>4. log' = log \cup {e \in {Destroyed("CDR")} : ~Duplicate(log, e)}
      BY <2>2 DEF FromCdr
    <3>5. IsTerminal(row.status) => IsTerminal(s)
      BY <2>2, ClosedRow DEF FromCdr, TypeOK, IsTerminal
    <3> HIDE DEF s
    <3> QED BY <2>1, <3>1, <3>2, <3>3, <3>4, <3>5
  <2>3. CASE FromNothing
    <3> DEFINE c == Closed("RECONCILER")
               s == IF IsTerminal(c.status) THEN c.status ELSE "UNKNOWN"
    <3>1. row' = [c EXCEPT !.status = s]
      BY <2>3, ClosedRow DEF FromNothing
    <3>2. s \in Statuses
      BY ClosedRow DEF Statuses, Call
    <3>3. Unanswered => s \notin {"ANSWERED", "ANSWERED_MACHINE"}
      BY ClosedRow
    <3>4. log' = log \cup {e \in {Destroyed("RECONCILER")} : ~Duplicate(log, e)}
      BY <2>3 DEF FromNothing
    <3>5. IsTerminal(s)
      BY DEF IsTerminal
    <3> HIDE DEF c, s
    <3> QED BY <2>1, <3>1, <3>2, <3>3, <3>4, <3>5 DEF c
  <2> QED BY <1>2, <2>1, <2>2, <2>3 DEF ReconnectDiff
<1> QED BY <1>1, <1>2

\* What is on record of the outcome, before and after.
Outcomes == [ attempts : 0 .. MaxCount, deliveries : 0 .. MaxCount,
              counts : BOOLEAN, phoneValid : BOOLEAN, withdrawn : BOOLEAN,
              next : {"dispatch", "retry", "human"} ]

\* apply_outcome keeps the counters within their bounds.
LEMMA OutcomeType ==
  ASSUME NEW o \in Outcomes, NEW c \in Call
  PROVE  /\ ApplyOutcome(o, c) \in Outcomes
         /\ ApplyOutcome(o, c).withdrawn <=> o.withdrawn \/ c.optedOut
         /\ ApplyOutcome(o, c).counts <=> AttemptClass(c.status, c.cause) # "CARRIER_FAULT"
<1>1. \A n \in 0 .. MaxCount : Bump(n) \in 0 .. MaxCount
  BY ConstantsAssumption DEF Bump
<1>2. 0 \in 0 .. MaxCount
  BY ConstantsAssumption
<1> QED BY <1>1, <1>2 DEF ApplyOutcome, Outcomes, Call

---------------------------------------------------------------------------
(* Types, and how often a phone rings.                                     *)

\* What is on the line, and in the websocket.
LineType ==
  /\ chan \in {"none", "ringing", "up", "gone"} /\ media \in Seq({"prompt", "message"})
  /\ line \in [answered : BOOLEAN, pressed : SUBSET {"1", "9"}, spoken : BOOLEAN, heard : BOOLEAN,
              cut : BOOLEAN]
  /\ clock \in Nat /\ cdr \in {"NONE", "ANSWERED", "NO_ANSWER", "BUSY", "FAILED"}
  /\ queue \in Seq(Event)

\* The call starts with its row committed and no channel.
LEMMA InitTypes == Init => CallTypes
<1> SUFFICES ASSUME Init PROVE CallTypes
  OBVIOUS
<1>1. row \in Call
  <2>1. NewCall \in Call
    BY DEF NewCall, Call, Statuses, Times, NoTime
  <2> HIDE DEF NewCall
  <2> QED BY <2>1 DEF Init
<1>2. rings = 0 /\ tries = 0 /\ drops = 0 /\ MaxRetries \in Nat /\ MaxDrops \in Nat /\ MaxCount \in Nat
  BY ConstantsAssumption DEF Init
<1> QED BY <1>1, <1>2 DEF Init, CallTypes, TypeOK, Rung

\* A worker moves: the row is its own, except for Store.
LEMMA WorkerTypes ==
  ASSUME CallTypes, Worker
  PROVE  CallTypes'
<1>1. /\ MaxRetries \in Nat /\ rings \in Nat /\ tries \in Nat /\ rings <= MaxRetries + 1
      /\ worker \in {"committed", "retrying"} => rings <= tries
      /\ tries <= MaxRetries + 1 /\ <<>> \in Seq({"prompt", "message"})
  BY ConstantsAssumption DEF CallTypes, Rung, TypeOK
<1>2. ASSUME Accept PROVE /\ chan' \in {"none", "ringing", "up", "gone"}
                          /\ media' \in Seq({"prompt", "message"}) /\ rings' \in {rings, rings + 1}
  BY <1>1, <1>2 DEF Accept, CallTypes, TypeOK
<1>3. CASE Post
  BY <1>1, <1>2, <1>3 DEF Post, Posting, CallTypes, TypeOK, Rung, socket
<1>4. CASE PostUncertain
  BY <1>1, <1>2, <1>4 DEF PostUncertain, Posting, CallTypes, TypeOK, Rung, socket
<1>5. CASE PostRefused \/ ResolveAfterUncertainty \/ Crash
  BY <1>1, <1>5 DEF PostRefused, ResolveAfterUncertainty, Crash, CallTypes, TypeOK, Rung, socket,
                    asterisk
<1>6. CASE Store
  <2>1. row' \in Call /\ Originated \in Event
    BY <1>6 DEF Store, CallTypes, TypeOK, Call, Statuses, Originated, Event, Kinds, Values, Sources
  <2>2. log' \in SUBSET Event
    BY <1>6, <2>1 DEF Store, CallTypes, TypeOK
  <2>3. outcome' \in Outcomes
    BY <1>6 DEF Store, CallTypes, TypeOK, Outcomes
  <2> QED BY <1>1, <1>6, <2>1, <2>2, <2>3 DEF Store, CallTypes, TypeOK, Rung, Outcomes, socket,
                                              asterisk
<1> QED BY <1>3, <1>4, <1>5, <1>6 DEF Worker

\* The line moves: frames are raised.
LEMMA LineTypes ==
  ASSUME CallTypes, Line
  PROVE  /\ UNCHANGED <<row, log, level, outcome, worker, tries, rings, online, drops, diff>>
         /\ LineType'
<1> USE DEF CallTypes
<1>1. /\ {"StasisStart", "ChannelDestroyed", "ChannelDtmfReceived", "PlaybackFinished"} \subseteq Kinds
      /\ {"NONE", "1", "9"} \subseteq Values /\ HangupCauses \subseteq Causes
      /\ clock \in Nat /\ clock + 1 \in Nat
  BY ConstantsAssumption DEF Kinds, Values, TypeOK
<1>2. \A e \in Event : <<e>> \in Seq(Event)
  BY FramesFew
<1>3. CASE Answer
  <2>1. Ari("StasisStart", clock + 1, "NONE", NoCause) \in Event
    BY <1>1, AriEvent
  <2>2. queue' \in Seq(Event)
    BY <1>2, <1>3, <2>1, RaiseFrames DEF Answer, TypeOK
  <2> QED BY <1>1, <1>3, <2>2 DEF Answer, TypeOK, LineType
<1>4. ASSUME NEW cause \in HangupCauses, RingOut(cause)
      PROVE  LineType' /\ UNCHANGED <<row, log, level, outcome, worker, tries, rings, online, drops, diff>>
  <2>1. Ari("ChannelDestroyed", clock + 1, "NONE", cause) \in Event
    BY <1>1, AriEvent
  <2>2. queue' \in Seq(Event)
    BY <1>2, <1>4, <2>1, RaiseFrames DEF RingOut, TypeOK
  <2> QED BY <1>1, <1>4, <2>2 DEF RingOut, Disposition, TypeOK, LineType
<1>5. CASE DebtorHangsUp
  <2>1. HangUp(queue) /\ UNCHANGED <<row, log, level, outcome, worker, tries, rings,
                                     online, drops, diff>>
    BY <1>5 DEF DebtorHangsUp
  <2>2. /\ queue' \in Seq(Event) /\ chan' = "gone" /\ media' = <<>> /\ clock' \in Nat
        /\ cdr' \in {"ANSWERED", "NO_ANSWER"} /\ KeepsLine
    <3>1. TypeOK /\ queue \in Seq(Event)
      BY DEF TypeOK
    <3> QED BY <2>1, <3>1, HangUpFrames
  <2>3. line' \in [answered : BOOLEAN, pressed : SUBSET {"1", "9"}, spoken : BOOLEAN, heard : BOOLEAN,
                   cut : BOOLEAN]
    BY <2>2 DEF TypeOK, KeepsLine
  <2>4. <<>> \in Seq({"prompt", "message"})
    OBVIOUS
  <2> QED BY <2>1, <2>2, <2>3, <2>4 DEF LineType
<1>6. ASSUME NEW digit \in {"1", "9"}, Press(digit)
      PROVE  LineType' /\ UNCHANGED <<row, log, level, outcome, worker, tries, rings, online, drops, diff>>
  <2>1. Ari("ChannelDtmfReceived", clock + 1, digit, NoCause) \in Event
    BY <1>1, AriEvent
  <2>2. queue' \in Seq(Event)
    BY <1>2, <1>6, <2>1, RaiseFrames DEF Press, TypeOK
  <2> QED BY <1>1, <1>6, <2>2 DEF Press, TypeOK, LineType
<1>7. CASE PlaybackEnds
  <2>1. Ari("PlaybackFinished", clock, "NONE", NoCause) \in Event
    BY <1>1, AriEvent
  <2>2. queue' \in Seq(Event)
    BY <1>2, <1>7, <2>1, RaiseFrames DEF PlaybackEnds, TypeOK
  <2>3. media' \in Seq({"prompt", "message"})
    BY <1>7, HeadTailProperties DEF PlaybackEnds, TypeOK
  <2> QED BY <1>1, <1>7, <2>2, <2>3 DEF PlaybackEnds, TypeOK, LineType
<1> QED BY <1>3, <1>4, <1>5, <1>6, <1>7 DEF Line

\* The consumer moves: row, log and outcome stay what they are.
LEMMA ConsumerTypes ==
  ASSUME CallTypes, Consumer
  PROVE  CallTypes'
<1> USE DEF CallTypes
<1>1. CASE Handle
  <2>1. row' \in Call /\ log' \in SUBSET Event
    BY <1>1, HandleRow
  <2>2. outcome' \in Outcomes
    BY <1>1, <2>1, OutcomeType DEF Handle, Settle, TypeOK, Outcomes
  <2>3. LineType'
    <3>1. queue' \in Seq(Event) /\ clock' \in Nat /\ <<>> \in Seq({"prompt", "message"})
      BY <1>1, HandleLine
    <3>2. CASE UNCHANGED <<chan, media, line, cdr>>
      BY <3>1, <3>2 DEF LineType, TypeOK
    <3>3. CASE chan' = "gone" /\ media' = <<>> /\ cdr' \in {"ANSWERED", "NO_ANSWER"} /\ KeepsLine
      BY <3>1, <3>3 DEF LineType, TypeOK, KeepsLine
    <3>4. ASSUME NEW m \in {"prompt", "message"}, UNCHANGED <<chan, cdr>>,
                 media' = Append(media, m), line' = [line EXCEPT !.spoken = @ \/ m = "message"]
          PROVE  LineType'
      <4>1. media' \in Seq({"prompt", "message"})
        BY <3>4, AppendProperties DEF TypeOK
      <4> QED BY <3>1, <3>4, <4>1 DEF LineType, TypeOK
    <3> QED BY <1>1, <3>2, <3>3, <3>4, HandleLine
  <2> QED BY <1>1, <2>1, <2>2, <2>3 DEF Handle, LineType, Outcomes, TypeOK, Rung
<1>2. CASE ReconnectDiff
  <2>1. row' \in Call /\ log' \in SUBSET Event
    <3>1. CASE UNCHANGED <<row, log, outcome>>
      BY <3>1 DEF TypeOK
    <3>2. ASSUME NEW from \in {"CDR", "RECONCILER"}, NEW s \in Statuses,
                 row' = [Closed(from) EXCEPT !.status = s],
                 log' = log \cup {e \in {Destroyed(from)} : ~Duplicate(log, e)}
          PROVE  row' \in Call /\ log' \in SUBSET Event
      <4>1. Closed(from) \in Call /\ Destroyed(from) \in Event
        BY ClosedRow
      <4> QED BY <3>2, <4>1 DEF TypeOK, Call
    <3> QED BY <1>2, <3>1, <3>2, DiffRow
  <2>2. outcome' \in Outcomes
    <3>1. outcome \in Outcomes
      BY DEF TypeOK, Outcomes
    <3>2. outcome' = outcome \/ outcome' = ApplyOutcome(outcome, row')
      BY <1>2 DEF ReconnectDiff
    <3> QED BY <2>1, <3>1, <3>2, OutcomeType
  <2> QED BY <1>2, <2>1, <2>2 DEF ReconnectDiff, Outcomes, TypeOK, Rung, asterisk
<1>3. CASE Drop
  <2>1. <<>> \in Seq(Event)
    BY FramesFew
  <2>2. drops' \in 0 .. MaxDrops
    BY <1>3, ConstantsAssumption DEF Drop, TypeOK
  <2>3. queue' \in Seq(Event) /\ online' \in BOOLEAN
    BY <1>3, <2>1 DEF Drop
  <2> QED BY <1>3, <2>2, <2>3 DEF Drop, TypeOK, Rung, asterisk
<1>4. CASE Reconnect \/ Restart \/ ListChannels
  BY <1>4 DEF Reconnect, Restart, ListChannels, TypeOK, Rung, asterisk
<1> QED BY <1>1, <1>2, <1>3, <1>4 DEF Consumer

\* Every column, counter and frame keeps its type, and the phone rings once per POST.
LEMMA TypesStep ==
  ASSUME CallTypes, [Next]_vars
  PROVE  CallTypes'
<1>1. CASE Line
  BY <1>1, LineTypes DEF CallTypes, LineType, TypeOK, Rung
<1>2. CASE UNCHANGED vars
  BY <1>2 DEF CallTypes, TypeOK, Rung, vars, asterisk, socket
<1> QED BY <1>1, <1>2, WorkerTypes, ConsumerTypes DEF Next

\* The row of a call and its counters have their types, whatever crashes and retries.
THEOREM TypeCorrect == Spec => []TypeOK
<1>1. Spec => []CallTypes
  BY InitTypes, TypesStep, PTL DEF Spec
<1>2. CallTypes => TypeOK
  BY DEF CallTypes
<1> QED BY <1>1, <1>2, PTL

---------------------------------------------------------------------------
(* The row and its log.                                                    *)

\* A worker writes neither, but for Store, whose status is no fact and whose event is not read.
LEMMA FactsOfWorker ==
  ASSUME TypeOK, FactsAreTheLog, Worker
  PROVE  FactsAreTheLog'
<1>1. CASE UNCHANGED <<row, log>>
  BY <1>1 DEF FactsAreTheLog
<1>2. CASE Store
  <2>1. row' \in Call /\ Originated.kind = "Originated"
    BY <1>2 DEF Store, TypeOK, Call, Statuses, Originated
  <2>2. /\ row'.played = row.played /\ row'.ack = row.ack /\ row'.optedOut = row.optedOut
        /\ row'.answered = row.answered /\ row'.started = row.started /\ row'.ended = row.ended
    BY <1>2 DEF Store, TypeOK, Call
  <2>3. FactsAgree(row', log)
    BY <2>1, <2>2, FactsWithoutStatus DEF FactsAreTheLog, TypeOK
  <2>4. FactsAgree(row', log \cup {Originated})
    BY <2>1, <2>3, FactsOfOther
  <2> QED BY <1>2, <2>4 DEF Store, FactsAreTheLog
<1> QED
  BY <1>1, <1>2 DEF Worker, Post, PostUncertain, PostRefused, ResolveAfterUncertainty, Crash

\* What closes a call is one more event of the log, and a status beside it.
LEMMA FactsOfDiff ==
  ASSUME TypeOK, FactsAreTheLog, ReconnectDiff
  PROVE  FactsAreTheLog'
<1>1. CASE UNCHANGED <<row, log, outcome>>
  BY <1>1 DEF FactsAreTheLog
<1>2. ASSUME NEW from \in {"CDR", "RECONCILER"}, NEW s \in Statuses,
             row' = [Closed(from) EXCEPT !.status = s],
             log' = log \cup {e \in {Destroyed(from)} : ~Duplicate(log, e)}
      PROVE  FactsAreTheLog'
  <2> DEFINE d == Destroyed(from)
             c == Closed(from)
  <2>1. d \in Event /\ c \in Call /\ row \in Call /\ log \in SUBSET Event
    BY ClosedRow DEF TypeOK
  <2>2. FactsAgree(c, log')
    <3>1. CASE Duplicate(log, d)
      <4>1. c = row /\ log' = log
        BY <1>2, <3>1 DEF Closed
      <4> QED BY <4>1 DEF FactsAreTheLog
    <3>2. CASE ~Duplicate(log, d)
      <4>1. c = ApplyEvent(row, d) /\ log' = log \cup {d}
        BY <1>2, <3>2 DEF Closed
      <4> HIDE DEF c, d
      <4> QED BY <2>1, <4>1, FactsStep DEF FactsAreTheLog
    <3> QED BY <3>1, <3>2
  <2> HIDE DEF c, d
  <2>3. row' = [c EXCEPT !.status = s]
    BY <1>2 DEF c
  <2>4. /\ row' \in Call
        /\ row'.played = c.played /\ row'.ack = c.ack /\ row'.optedOut = c.optedOut
        /\ row'.answered = c.answered /\ row'.started = c.started /\ row'.ended = c.ended
    BY <2>1, <2>3 DEF Call
  <2> QED BY <2>1, <2>2, <2>4, FactsWithoutStatus DEF FactsAreTheLog
<1> QED BY <1>1, <1>2, DiffRow

\* Whoever writes the row, the delivery facts and the timestamps remain those of the log.
LEMMA FactsKeptStep ==
  ASSUME TypeOK, FactsAreTheLog, [Next]_vars
  PROVE  FactsAreTheLog'
<1>1. CASE UNCHANGED <<row, log>>
  BY <1>1 DEF FactsAreTheLog
<1>2. CASE Handle
  <2>1. Head(queue) \in Event /\ row \in Call /\ log \in SUBSET Event
    BY <1>2, HandleRow DEF TypeOK
  <2>2. \/ row' = row /\ log' = log
        \/ row' = ApplyEvent(row, Head(queue)) /\ log' = log \cup {Head(queue)}
    BY <1>2, HandleRow
  <2>3. FactsAgree(ApplyEvent(row, Head(queue)), log \cup {Head(queue)})
    BY <2>1, FactsStep DEF FactsAreTheLog
  <2> QED BY <2>2, <2>3 DEF FactsAreTheLog
<1>3. CASE Line
  <2>1. UNCHANGED <<row, log>>
    BY <1>3 DEF Line, Answer, DebtorHangsUp, PlaybackEnds, RingOut, Press
  <2> QED BY <1>1, <2>1
<1> QED
  BY <1>1, <1>2, <1>3, FactsOfWorker, FactsOfDiff
  DEF Next, Consumer, Drop, Reconnect, Restart, ListChannels, vars

\* A call starts without facts, and without a log.
LEMMA InitFacts == Init => FactsAreTheLog
BY DEF Init, NewCall, NoTime, FactsAreTheLog, FactsAgree, PlayedIsLogged, KeypressIsLogged,
       TimesAreEarliest, EarliestOf

\* The delivery facts and the timestamps on the row are those of the recorded events,
\* under two processes that write it and a CDR that overrides its status.
THEOREM FactsKept == Spec => []FactsAreTheLog
<1>1. TypeOK /\ FactsAreTheLog /\ [Next]_vars => FactsAreTheLog'
  BY FactsKeptStep
<1> QED BY <1>1, InitFacts, TypeCorrect, PTL DEF Spec

---------------------------------------------------------------------------
(* Opting out.                                                             *)

\* An answer that is folded in settles the call, and only a Store that overtakes it takes
\* the row back.
LEMMA SettledStep ==
  ASSUME TypeOK, Settled, [Next]_vars
  PROVE  Settled'
<1>1. CASE Handle
  <2>1. worker' = worker
    BY <1>1 DEF Handle
  <2>2. CASE row' = row
    BY <2>1, <2>2 DEF Settled
  <2>3. CASE row' = ApplyEvent(row, Head(queue))
    <3>1. Head(queue) \in Event /\ row \in Call
      BY <1>1, HandleRow DEF TypeOK
    <3>2. Extends(row, Head(queue), row')
      BY <2>3, <3>1, ApplyExtends
    <3>3. CASE Head(queue).kind = "StasisStart"
      BY <2>3, <3>1, <3>3, AnswerSettles DEF Settled
    <3>4. CASE Head(queue).kind # "StasisStart"
      <4>1. row'.answered = row.answered /\ (IsTerminal(row.status) => IsTerminal(row'.status))
        BY <3>2, <3>4, RankSettled DEF Extends
      <4> QED BY <2>1, <4>1 DEF Settled
    <3> QED BY <3>3, <3>4
  <2> QED BY <1>1, <2>2, <2>3, HandleRow
<1>2. CASE ReconnectDiff
  <2>1. worker' = worker
    BY <1>2 DEF ReconnectDiff
  <2>2. row' = row \/ (row'.answered = row.answered /\ (IsTerminal(row.status) => IsTerminal(row'.status)))
    <3>1. ASSUME NEW from \in {"CDR", "RECONCILER"}, NEW s \in Statuses,
                 row' = [Closed(from) EXCEPT !.status = s],
                 IsTerminal(row.status) => IsTerminal(s)
          PROVE  row'.answered = row.answered /\ (IsTerminal(row.status) => IsTerminal(row'.status))
      BY <3>1, ClosedRow DEF Call
    <3> QED BY <1>2, <3>1, DiffRow
  <2> QED BY <2>1, <2>2 DEF Settled
<1>3. CASE Store
  <2>1. /\ row'.answered = row.answered /\ worker = "posted"
        /\ worker' = IF IsTerminal(row.status) THEN "overtook" ELSE "stored"
    BY <1>3 DEF Store, TypeOK, Call
  <2> QED BY <2>1 DEF Settled
<1>4. CASE UNCHANGED row /\ (worker = "overtook" => worker' = "overtook")
  BY <1>4 DEF Settled
<1>5. CASE \/ Line \/ Post \/ PostUncertain \/ PostRefused \/ ResolveAfterUncertainty \/ Crash
           \/ Drop \/ Reconnect \/ Restart \/ ListChannels \/ UNCHANGED vars
  <2>1. UNCHANGED row /\ (worker = "overtook" => worker' = "overtook")
    BY <1>5 DEF Line, Answer, DebtorHangsUp, PlaybackEnds, RingOut, Press, Post, PostUncertain,
         PostRefused, ResolveAfterUncertainty, Crash, Drop, Reconnect, Restart, ListChannels, Posting,
         vars
  <2> QED BY <1>4, <2>1
<1> QED BY <1>1, <1>2, <1>3, <1>5 DEF Next, Worker, Consumer

\* An outcome is applied whenever the row is settled, from the opt-out as it then stands.
LEMMA OptOutStep ==
  ASSUME TypeOK, Settled', OptOutHonoured, [Next]_vars
  PROVE  OptOutHonoured'
<1> USE DEF OptOutHonoured
<1>1. CASE UNCHANGED <<row, outcome>> /\ (worker = "overtook" => worker' = "overtook")
  BY <1>1
<1>2. CASE Handle
  <2>1. row' \in Call /\ outcome \in Outcomes
    BY <1>2, HandleRow DEF TypeOK, Outcomes
  <2>2. \/ IsTerminal(row'.status) /\ outcome' = ApplyOutcome(outcome, row')
        \/ ~IsTerminal(row'.status) /\ outcome' = outcome
    BY <1>2 DEF Handle, Settle
  <2> QED BY <2>1, <2>2, OutcomeType DEF Settled
<1>3. CASE ReconnectDiff
  <2>1. row' \in Call /\ outcome \in Outcomes
    <3>1. \A from \in {"CDR", "RECONCILER"} : \A s \in Statuses : [Closed(from) EXCEPT !.status = s] \in Call
      BY ClosedRow DEF Call
    <3> QED BY <1>3, <3>1, DiffRow DEF TypeOK, Outcomes
  <2>2. UNCHANGED <<row, log, outcome, worker>> \/ outcome' = ApplyOutcome(outcome, row')
    BY <1>3 DEF ReconnectDiff
  <2> QED BY <1>1, <2>1, <2>2, OutcomeType
<1>4. CASE Store
  <2>1. /\ row'.status = "DIALING" /\ row'.answered = row.answered /\ row'.optedOut = row.optedOut
        /\ outcome'.withdrawn = outcome.withdrawn /\ worker = "posted"
    BY <1>4 DEF Store, TypeOK, Call
  <2> QED BY <2>1 DEF IsTerminal
<1>5. CASE Line \/ Post \/ PostUncertain \/ PostRefused \/ ResolveAfterUncertainty \/ Crash
           \/ Drop \/ Reconnect \/ Restart \/ ListChannels
  <2>1. UNCHANGED <<row, outcome>> /\ (worker = "overtook" => worker' = "overtook")
    BY <1>5 DEF Line, Answer, DebtorHangsUp, PlaybackEnds, RingOut, Press, Post, PostUncertain,
         PostRefused, ResolveAfterUncertainty, Crash, Drop, Reconnect, Restart, ListChannels, Posting
  <2> QED BY <1>1, <2>1
<1> QED BY <1>1, <1>2, <1>3, <1>4, <1>5 DEF Next, Worker, Consumer, vars

\* An opt-out on record has reached the buyer, unless the worker stored over the answer or
\* the answer was never seen, and then the row is still under way: every answer that is
\* folded in settles the call (Settled), and a settled call has its outcome applied at
\* every later frame.
THEOREM OptOutsHonoured == Spec => []OptOutHonoured
<1>1. Init => OptOutHonoured /\ Settled
  BY DEF Init, OptOutHonoured, NewCall, Settled
<1>2. TypeOK /\ Settled /\ [Next]_vars => Settled'
  BY SettledStep
<1>3. TypeOK /\ Settled' /\ OptOutHonoured /\ [Next]_vars => OptOutHonoured'
  BY OptOutStep
<1> QED BY <1>1, <1>2, <1>3, TypeCorrect, PTL DEF Spec

---------------------------------------------------------------------------
(* Keys, and what was heard.                                               *)

\* Only the consumer writes what an event said; the others leave the facts and the cause.
LEMMA RowElsewhere ==
  ASSUME TypeOK, \/ Worker \/ Line \/ ReconnectDiff
                 \/ Drop \/ Reconnect \/ Restart \/ ListChannels
  PROVE  /\ row'.ack = row.ack /\ row'.played = row.played
         /\ row'.answered = row.answered /\ row'.cause = row.cause
<1>1. CASE row' = row
  BY <1>1
<1>2. CASE Store
  BY <1>2 DEF Store, TypeOK, Call
<1>3. ASSUME NEW from \in {"CDR", "RECONCILER"}, NEW s \in Statuses,
             row' = [Closed(from) EXCEPT !.status = s]
      PROVE  /\ row'.ack = row.ack /\ row'.played = row.played
             /\ row'.answered = row.answered /\ row'.cause = row.cause
  BY <1>3, ClosedRow DEF Call
<1>4. CASE Line
  <2>1. row' = row
    BY <1>4 DEF Line, Answer, DebtorHangsUp, PlaybackEnds, RingOut, Press
  <2> QED BY <1>1, <2>1
<1> QED
  BY <1>1, <1>2, <1>3, <1>4, DiffRow
  DEF Worker, Post, PostUncertain, PostRefused, ResolveAfterUncertainty, Crash,
      Drop, Reconnect, Restart, ListChannels

\* What a step of the line puts into the websocket.
LEMMA LineFrames ==
  ASSUME TypeOK, Line
  PROVE  \E new \in SUBSET Event :
           /\ Frames(queue') \subseteq Frames(queue) \cup new
           /\ \/ Answer /\ \A e \in new : e.kind = "StasisStart" /\ e.cause = NoCause
              \/ DebtorHangsUp /\ \A e \in new : FarewellOf(e)
              \/ PlaybackEnds /\ \A e \in new : e.kind = "PlaybackFinished" /\ e.cause = NoCause
              \/ \E cause \in HangupCauses :
                   /\ RingOut(cause)
                   /\ \A e \in new : /\ e.kind = "ChannelDestroyed" /\ e.cause = cause
                                     /\ e.from = "ARI"
              \/ \E digit \in {"1", "9"} :
                   /\ Press(digit)
                   /\ \A e \in new : /\ e.kind = "ChannelDtmfReceived" /\ e.value = digit
                                     /\ e.cause = NoCause
<1>1. /\ {"StasisStart", "ChannelDestroyed", "ChannelDtmfReceived", "PlaybackFinished"} \subseteq Kinds
      /\ {"NONE", "1", "9"} \subseteq Values /\ HangupCauses \subseteq Causes
      /\ clock \in Nat /\ clock + 1 \in Nat /\ queue \in Seq(Event)
  BY ConstantsAssumption DEF Kinds, Values, TypeOK
<1>2. ASSUME NEW e \in Event, Raise(queue, <<e>>)
      PROVE  Frames(queue') \subseteq Frames(queue) \cup {e}
  <2>1. <<e>> \in Seq(Event) /\ Frames(<<e>>) = {e}
    BY FramesFew
  <2> QED BY <1>1, <1>2, <2>1, RaiseFrames
<1>3. CASE Answer
  <2> DEFINE e == Ari("StasisStart", clock + 1, "NONE", NoCause)
  <2>1. e \in Event /\ e.kind = "StasisStart" /\ e.cause = NoCause
    BY <1>1, AriEvent DEF Ari
  <2>2. Raise(queue, <<e>>)
    BY <1>3 DEF Answer
  <2> HIDE DEF e
  <2> {e} \in SUBSET Event
    BY <2>1
  <2> WITNESS {e} \in SUBSET Event
  <2> QED BY <1>2, <1>3, <2>1, <2>2
<1>4. CASE DebtorHangsUp
  <2> DEFINE new == {e \in Event : FarewellOf(e)}
  <2>1. queue' \in Seq(Event) /\ \A e \in Frames(queue') : e \in Frames(queue) \/ FarewellOf(e)
    BY <1>1, <1>4, HangUpFrames DEF DebtorHangsUp
  <2>2. Frames(queue') \subseteq Event
    BY <2>1 DEF Frames
  <2>3. Frames(queue') \subseteq Frames(queue) \cup new
    BY <2>1, <2>2
  <2> WITNESS new \in SUBSET Event
  <2> QED BY <1>4, <2>3
<1>5. CASE PlaybackEnds
  <2> DEFINE e == Ari("PlaybackFinished", clock, "NONE", NoCause)
  <2>1. e \in Event /\ e.kind = "PlaybackFinished" /\ e.cause = NoCause
    BY <1>1, AriEvent DEF Ari
  <2>2. Raise(queue, <<e>>)
    BY <1>5 DEF PlaybackEnds
  <2> HIDE DEF e
  <2> {e} \in SUBSET Event
    BY <2>1
  <2> WITNESS {e} \in SUBSET Event
  <2> QED BY <1>2, <1>5, <2>1, <2>2
<1>6. CASE \E cause \in HangupCauses : RingOut(cause)
  <2> PICK cause \in HangupCauses : RingOut(cause)
    BY <1>6
  <2> DEFINE e == Ari("ChannelDestroyed", clock + 1, "NONE", cause)
  <2>1. e \in Event /\ e.kind = "ChannelDestroyed" /\ e.cause = cause /\ e.from = "ARI"
    BY <1>1, AriEvent DEF Ari
  <2>2. Raise(queue, <<e>>)
    BY DEF RingOut
  <2> HIDE DEF e
  <2> {e} \in SUBSET Event
    BY <2>1
  <2> WITNESS {e} \in SUBSET Event
  <2> QED BY <1>2, <2>1, <2>2
<1>7. CASE \E digit \in {"1", "9"} : Press(digit)
  <2> PICK digit \in {"1", "9"} : Press(digit)
    BY <1>7
  <2> DEFINE e == Ari("ChannelDtmfReceived", clock + 1, digit, NoCause)
  <2>1. e \in Event /\ e.kind = "ChannelDtmfReceived" /\ e.value = digit /\ e.cause = NoCause
    BY <1>1, AriEvent DEF Ari
  <2>2. Raise(queue, <<e>>)
    BY DEF Press
  <2> HIDE DEF e
  <2> {e} \in SUBSET Event
    BY <2>1
  <2> WITNESS {e} \in SUBSET Event
  <2> QED BY <1>2, <2>1, <2>2
<1> QED BY <1>3, <1>4, <1>5, <1>6, <1>7 DEF Line

\* What a step of the line does to what happened on it: keys stay pressed.
LEMMA LineHeard ==
  ASSUME TypeOK, Line
  PROVE  /\ line'.spoken = line.spoken /\ (line.heard => line'.heard) /\ (line.cut => line'.cut)
         /\ line'.heard \/ line'.cut => line.heard \/ line.cut \/ media # <<>>
         /\ \/ line'.pressed = line.pressed /\ \A digit \in {"1", "9"} : ~Press(digit)
            \/ \E digit \in {"1", "9"} : Press(digit) /\ line'.pressed = line.pressed \cup {digit}
<1>1. ASSUME NEW digit \in {"1", "9"}, Press(digit)
      PROVE  /\ line'.pressed = line.pressed \cup {digit}
             /\ line'.spoken = line.spoken /\ line'.heard = line.heard /\ line'.cut = line.cut
  BY <1>1 DEF Press, TypeOK
<1>2. CASE ~\E digit \in {"1", "9"} : Press(digit)
  <2>1. CASE Answer
    BY <1>2, <2>1 DEF Answer, TypeOK
  <2>2. CASE PlaybackEnds
    BY <1>2, <2>2 DEF PlaybackEnds, TypeOK
  <2>3. CASE \E cause \in HangupCauses : RingOut(cause)
    <3>1. line' = line
      BY <2>3 DEF RingOut
    <3> QED BY <1>2, <3>1
  <2>4. CASE DebtorHangsUp
    <3>1. KeepsLine
      BY <2>4, HangUpFrames DEF DebtorHangsUp, TypeOK
    <3> QED BY <1>2, <3>1 DEF KeepsLine, TypeOK
  <2> QED BY <1>2, <2>1, <2>2, <2>3, <2>4 DEF Line
<1> QED BY <1>1, <1>2

\* A keypress that is on its way or on record was pressed.
LEMMA KeysStep ==
  ASSUME TypeOK, Keys, [Next]_vars
  PROVE  Keys'
<1> USE DEF Keys
<1>1. CASE Worker \/ ReconnectDiff \/ Reconnect \/ Restart \/ ListChannels
  <2>1. UNCHANGED <<queue, line>>
    BY <1>1 DEF Worker, Post, PostUncertain, PostRefused, ResolveAfterUncertainty, Store, Crash,
         ReconnectDiff, Reconnect, Restart, ListChannels, asterisk, socket
  <2> QED BY <1>1, <2>1, RowElsewhere DEF Frames
<1>2. CASE Drop
  <2>1. queue' = <<>> /\ line' = line
    BY <1>2 DEF Drop, asterisk
  <2> QED BY <1>2, <2>1, RowElsewhere DEF Frames
<1>3. CASE Line
  <2>1. row'.ack = row.ack
    BY <1>3, RowElsewhere
  <2>2. \A e \in Frames(queue') :
          \/ e \in Frames(queue) \/ e.kind # "ChannelDtmfReceived"
          \/ e.value \in line'.pressed
    <3>1. CASE \A digit \in {"1", "9"} : ~Press(digit)
      BY <1>3, <3>1, LineFrames DEF Farewell, FarewellOf
    <3>2. ASSUME NEW digit \in {"1", "9"}, Press(digit)
          PROVE  \A e \in Frames(queue') : e \in Frames(queue) \/ e.value \in line'.pressed
      <4>1. digit \in line'.pressed
        BY <3>2 DEF Press, TypeOK
      <4> DEFINE key == Ari("ChannelDtmfReceived", clock + 1, digit, NoCause)
      <4>2. key \in Event /\ key.value = digit
        BY AriEvent DEF TypeOK, Kinds, Values, Ari
      <4>3. Raise(queue, <<key>>)
        BY <3>2 DEF Press
      <4> HIDE DEF key
      <4>4. <<key>> \in Seq(Event) /\ Frames(<<key>>) = {key}
        BY <4>2, FramesFew
      <4>5. Frames(queue') \subseteq Frames(queue) \cup {key}
        BY <4>3, <4>4, RaiseFrames DEF TypeOK
      <4> QED BY <4>1, <4>2, <4>5
    <3> QED BY <3>1, <3>2
  <2>3. line.pressed \subseteq line'.pressed
    BY <1>3, LineHeard
  <2> QED BY <2>1, <2>2, <2>3
<1>4. CASE Handle
  <2>1. line'.pressed = line.pressed
    BY <1>4, HandleLine DEF TypeOK, KeepsLine
  <2>2. \A e \in Frames(queue') : e.kind = "ChannelDtmfReceived" => e \in Frames(queue)
    BY <1>4, HandleLine DEF Farewell, FarewellOf
  <2>3. row'.ack => row.ack \/ (Head(queue).kind = "ChannelDtmfReceived" /\ Head(queue).value = "1")
    BY <1>4, HandleRow, ApplyExtends DEF Extends, TypeOK
  <2> QED BY <1>4, <2>1, <2>2, <2>3, HandleRow
<1> QED BY <1>1, <1>2, <1>3, <1>4 DEF Next, Consumer, vars, asterisk, socket, Frames

\* L3 content is spoken upon a key.
LEMMA NothingUnaskedStep ==
  ASSUME TypeOK, Keys, Keys', NothingBeforeKeypress, [Next]_vars
  PROVE  NothingBeforeKeypress'
<1> USE DEF NothingBeforeKeypress
<1>1. CASE Line
  <2>1. level' = level
    BY <1>1 DEF Line, Answer, DebtorHangsUp, PlaybackEnds, RingOut, Press
  <2> QED BY <1>1, <2>1, LineHeard
<1>2. CASE Handle
  <2>1. level' = level
    BY <1>2 DEF Handle
  <2>2. Head(queue).kind = "ChannelDtmfReceived" /\ Head(queue).value = "1" => "1" \in line.pressed
    BY <1>2, HandleRow DEF Keys
  <2>3. line'.pressed = line.pressed
        /\ (level = "L3" /\ line'.spoken => line.spoken \/ row'.ack
              \/ (Head(queue).kind = "ChannelDtmfReceived" /\ Head(queue).value = "1"))
    BY <1>2, HandleLine DEF TypeOK, KeepsLine
  <2> QED BY <2>1, <2>2, <2>3 DEF Keys
<1>3. CASE Worker \/ ReconnectDiff \/ Drop \/ Reconnect \/ Restart \/ ListChannels \/ UNCHANGED vars
  <2>1. UNCHANGED <<level, line>>
    BY <1>3 DEF Worker, Post, PostUncertain, PostRefused, ResolveAfterUncertainty, Store, Crash,
         ReconnectDiff, Drop, Reconnect, Restart, ListChannels, asterisk, vars
  <2> QED BY <2>1
<1> QED BY <1>1, <1>2, <1>3 DEF Next, Consumer

\* L3 content is spoken only after the debtor pressed 1, whatever is lost or late: an
\* acknowledgement is on the row or in the websocket only if the key was pressed.
THEOREM NothingUnasked == Spec => []NothingBeforeKeypress
<1>1. Init => Keys /\ NothingBeforeKeypress
  BY DEF Init, Keys, NothingBeforeKeypress, NewCall, Frames
<1>2. TypeOK /\ Keys /\ [Next]_vars => Keys'
  BY KeysStep
<1>3. TypeOK /\ Keys /\ Keys' /\ NothingBeforeKeypress /\ [Next]_vars => NothingBeforeKeypress'
  BY NothingUnaskedStep
<1> QED BY <1>1, <1>2, <1>3, TypeCorrect, PTL DEF Spec

\* Below L3 the message is all that is queued, and a playback that ended was the message.
LEMMA PlayedStep ==
  ASSUME TypeOK, Played, [Next]_vars
  PROVE  Played'
<1> SUFFICES ASSUME level' # "L3"
             PROVE  /\ \A i \in DOMAIN media' : media'[i] = "message"
                    /\ (row'.played \/ \E e \in Frames(queue') : e.kind = "PlaybackFinished")
                          => line'.heard \/ line'.cut
                    /\ media' # <<>> \/ line'.heard \/ line'.cut => line'.spoken
  BY DEF Played
<1> DEFINE Only(m) == \A i \in DOMAIN m : m[i] = "message"
           Ended(q) == \E e \in Frames(q) : e.kind = "PlaybackFinished"
<1>1. level' = level
  BY DEF Next, Worker, Line, Consumer, Post, PostUncertain, PostRefused, ResolveAfterUncertainty,
     Store, Crash, Answer, DebtorHangsUp, PlaybackEnds, RingOut, Press, Handle, Drop, Reconnect,
     Restart, ListChannels, ReconnectDiff, vars
<1>2. /\ Only(media) /\ (row.played \/ Ended(queue) => line.heard \/ line.cut)
      /\ media # <<>> \/ line.heard \/ line.cut => line.spoken
  BY <1>1 DEF Played
<1>3. Only(<<>>) /\ ~Ended(<<>>)
  BY DEF Frames
<1>4. CASE Worker \/ ReconnectDiff \/ Reconnect \/ Restart \/ ListChannels
  <2>1. UNCHANGED <<queue, line>> /\ media' \in {media, <<>>}
    BY <1>4 DEF Worker, Post, PostUncertain, Accept, PostRefused, ResolveAfterUncertainty, Store,
       Crash, ReconnectDiff, Reconnect, Restart, ListChannels, asterisk, socket
  <2>2. row'.played = row.played
    BY <1>4, RowElsewhere
  <2> QED BY <1>2, <1>3, <2>1, <2>2
<1>5. CASE Drop
  <2>1. queue' = <<>> /\ UNCHANGED <<line, media>>
    BY <1>5 DEF Drop, asterisk
  <2>2. row'.played = row.played
    BY <1>5, RowElsewhere
  <2> QED BY <1>2, <1>3, <2>1, <2>2
<1>6. CASE Line
  <2>1. /\ row'.played = row.played /\ (line.heard => line'.heard) /\ (line.cut => line'.cut)
        /\ line'.spoken = line.spoken
        /\ line'.heard \/ line'.cut => line.heard \/ line.cut \/ media # <<>>
    BY <1>6, RowElsewhere, LineHeard
  <2>2. CASE PlaybackEnds
    <3>1. media # <<>> /\ media' = Tail(media) /\ line'.heard = (line.heard \/ Head(media) = "message")
      BY <2>2 DEF PlaybackEnds, TypeOK
    <3>2. /\ Len(media) \in Nat \ {0} /\ Len(media') = Len(media) - 1 /\ Head(media) = media[1]
          /\ DOMAIN media = 1 .. Len(media) /\ DOMAIN media' = 1 .. Len(media')
          /\ \A i \in 1 .. Len(media') : media'[i] = media[i + 1]
      <4>1. media \in Seq({"prompt", "message"}) /\ media' \in Seq({"prompt", "message"})
        BY <3>1, HeadTailProperties DEF TypeOK
      <4> QED BY <3>1, <4>1, HeadTailProperties, LenProperties, EmptySeq
    <3>3. Head(media) = "message"
      BY <1>2, <3>2
    <3>4. line'.heard
      BY <3>1, <3>3
    <3>5. ASSUME NEW i \in DOMAIN media' PROVE media'[i] = "message"
      <4>1. i + 1 \in DOMAIN media
        BY <3>2
      <4> QED BY <1>2, <3>2, <4>1
    <3> QED BY <1>2, <2>1, <3>1, <3>4, <3>5
  <2>3. CASE ~PlaybackEnds
    <3>1. media' \in {media, <<>>}
      BY <1>6, <2>3 DEF Line, Answer, DebtorHangsUp, RingOut, Press, HangUp
    <3>2. Ended(queue') => Ended(queue) \/ line'.cut
      BY <1>6, <2>3, LineFrames DEF FarewellOf
    <3> QED BY <1>2, <1>3, <2>1, <3>1, <3>2
  <2> QED BY <2>2, <2>3
<1>7. CASE Handle
  <2>1. Ended(queue') => Ended(queue) \/ line'.cut
    BY <1>7, HandleLine DEF FarewellOf
  <2>2. row'.played => row.played \/ Ended(queue)
    BY <1>7, HandleRow, ApplyExtends DEF Extends, TypeOK
  <2>3. line'.heard = line.heard /\ (line.cut => line'.cut)
    BY <1>7, HandleLine DEF TypeOK, KeepsLine
  <2>4. \/ media' \in {media, <<>>} /\ line'.spoken = line.spoken
        \/ media' = Append(media, "message") /\ line'.spoken
    BY <1>1, <1>7, HandleLine DEF TypeOK, KeepsLine
  <2>9. line'.cut => line.cut \/ media # <<>>
    BY <1>7, HandleLine DEF TypeOK, KeepsLine
  <2>5. Only(Append(media, "message"))
    BY <1>2, AppendProperties DEF TypeOK
  <2> HIDE DEF Only, Ended
  <2>6. Only(media')
    BY <1>2, <1>3, <2>4, <2>5
  <2>7. row'.played \/ Ended(queue') => line'.heard \/ line'.cut
    BY <1>2, <2>1, <2>2, <2>3
  <2>8. media' # <<>> \/ line'.heard \/ line'.cut => line'.spoken
    BY <1>2, <2>3, <2>4, <2>9
  <2> QED BY <2>6, <2>7, <2>8 DEF Only, Ended
<1>8. CASE UNCHANGED vars
  BY <1>2, <1>8 DEF vars, asterisk, socket, Frames
<1> QED BY <1>4, <1>5, <1>6, <1>7, <1>8 DEF Next, Consumer

\* Below L3, where no gate prompt is played, a delivery on record means that the message
\* was spoken, and heard to its end or cut by a hangup that reported it finished, whatever
\* the consumer missed.
THEOREM DeliveriesPlayed == Spec => []DeliveredWasPlayed
<1>1. Init => Played
  BY DEF Init, Played, NewCall, Frames
<1>2. TypeOK /\ Played /\ [Next]_vars => Played'
  BY PlayedStep
<1>3. Played => DeliveredWasPlayed
  BY DEF Played, DeliveredWasPlayed, Delivered
<1> QED BY <1>1, <1>2, <1>3, TypeCorrect, PTL DEF Spec

---------------------------------------------------------------------------
(* The free attempt.                                                       *)

\* A POST rings an idle phone once more, or leaves a channel that nobody hears.
LEMMA AcceptRings ==
  ASSUME TypeOK, Accept \/ UNCHANGED <<chan, rings, media>>
  PROVE  \/ UNCHANGED <<chan, rings, media>>
         \/ ~Live /\ chan' = "ringing" /\ rings' = rings + 1 /\ media' = <<>>
         \/ ~Live /\ chan' = "gone" /\ rings' = rings /\ media' = <<>>
BY DEF Accept, TypeOK

\* What the worker leaves alone, beside what Store writes.
LEMMA WorkerLeaves ==
  ASSUME TypeOK, Worker
  PROVE  /\ UNCHANGED <<queue, cdr, line>> /\ outcome'.counts = outcome.counts
         /\ Accept \/ UNCHANGED <<chan, rings, media>>
         /\ row'.cause = row.cause /\ (Unanswered => Unanswered')
<1>1. UNCHANGED <<queue, cdr, line>>
  BY DEF Worker, Post, PostUncertain, PostRefused, ResolveAfterUncertainty, Store, Crash,
         asterisk, socket
<1>2. Accept \/ UNCHANGED <<chan, rings, media>>
  BY DEF Worker, Post, PostUncertain, PostRefused, ResolveAfterUncertainty, Store, Crash, asterisk
<1>3. CASE UNCHANGED <<row, outcome>>
  BY <1>1, <1>2, <1>3 DEF Unanswered
<1>4. CASE Store
  BY <1>1, <1>2, <1>4 DEF Store, Unanswered, TypeOK, Call
<1> QED BY <1>3, <1>4 DEF Worker, Post, PostUncertain, PostRefused, ResolveAfterUncertainty, Crash

\* The diff never reports an answer that neither the row nor the CDR has, and gives an attempt
\* back only for the cause on the row.
LEMMA DiffLeaves ==
  ASSUME TypeOK, ReconnectDiff
  PROVE  /\ UNCHANGED <<chan, rings, media, line, cdr, queue>> /\ row'.cause = row.cause
         /\ Unanswered /\ cdr # "ANSWERED" => Unanswered'
         /\ ~outcome'.counts => ~outcome.counts \/ row.cause = "CONGESTION"
         /\ outcome'.counts =>
              UNCHANGED <<row, outcome>> \/ AttemptClass(row'.status, row'.cause) # "CARRIER_FAULT"
<1>1. UNCHANGED <<chan, rings, media, line, cdr, queue>>
  BY DEF ReconnectDiff, asterisk
<1>2. row'.cause = row.cause
  BY RowElsewhere
<1>3. CASE UNCHANGED <<row, log, outcome>>
  BY <1>1, <1>2, <1>3 DEF Unanswered
<1>4. ASSUME NEW from \in {"CDR", "RECONCILER"}, NEW s \in Statuses,
             row' = [Closed(from) EXCEPT !.status = s],
             Unanswered /\ cdr # "ANSWERED" => s \notin {"ANSWERED", "ANSWERED_MACHINE"},
             outcome' = ApplyOutcome(outcome, row')
      PROVE  /\ Unanswered /\ cdr # "ANSWERED" => Unanswered'
             /\ ~outcome'.counts => row.cause = "CONGESTION"
             /\ outcome'.counts => AttemptClass(row'.status, row'.cause) # "CARRIER_FAULT"
  <2>1. Closed(from) \in Call /\ outcome \in Outcomes
    BY ClosedRow DEF TypeOK, Outcomes
  <2>2. row' \in Call /\ row'.status = s /\ row'.answered = row.answered
    BY <1>4, <2>1, ClosedRow DEF Call
  <2>3. outcome'.counts <=> AttemptClass(row'.status, row'.cause) # "CARRIER_FAULT"
    BY <1>4, <2>1, <2>2, OutcomeType
  <2>4. AttemptClass(row'.status, row'.cause) = "CARRIER_FAULT" => row'.cause = "CONGESTION"
    BY DEF AttemptClass
  <2> QED BY <1>2, <1>4, <2>2, <2>3, <2>4 DEF Unanswered
<1> QED BY <1>1, <1>2, <1>3, <1>4, DiffRow

\* A frame that names no congestion gives no attempt back.
LEMMA HandleLeaves ==
  ASSUME TypeOK, Handle
  PROVE  /\ rings' = rings
         /\ row'.cause = "CONGESTION" => row.cause = "CONGESTION" \/ Head(queue).cause = "CONGESTION"
         /\ ~outcome'.counts => ~outcome.counts \/ row'.cause = "CONGESTION"
         /\ \/ outcome' = outcome /\ ~IsTerminal(row'.status)
            \/ outcome'.counts <=> AttemptClass(row'.status, row'.cause) # "CARRIER_FAULT"
<1>1. rings' = rings
  BY DEF Handle
<1>2. row'.cause = "CONGESTION" => row.cause = "CONGESTION" \/ Head(queue).cause = "CONGESTION"
  BY HandleRow, ApplyCause DEF TypeOK
<1>3. row' \in Call /\ outcome \in Outcomes
  BY HandleRow DEF TypeOK, Outcomes
<1>4. \/ outcome' = outcome /\ ~IsTerminal(row'.status)
      \/ outcome'.counts <=> AttemptClass(row'.status, row'.cause) # "CARRIER_FAULT"
  BY <1>3, OutcomeType DEF Handle, Settle
<1>5. AttemptClass(row'.status, row'.cause) = "CARRIER_FAULT" => row'.cause = "CONGESTION"
  BY DEF AttemptClass
<1> QED BY <1>1, <1>2, <1>4, <1>5

\* Until the phone rings, and while it rings for the first time, nothing happens.
LEMMA QuietStep ==
  ASSUME TypeOK, Quiet, [Next]_vars
  PROVE  Quiet'
<1>0. rings \in Nat
  BY ConstantsAssumption DEF TypeOK
<1>1. CASE Worker
  <2>1. CASE UNCHANGED <<chan, rings, media>>
    BY <1>1, <2>1, WorkerLeaves DEF Quiet, NothingYet
  <2>2. CASE ~Live /\ chan' = "ringing" /\ rings' = rings + 1 /\ media' = <<>>
    <3>1. NothingYet' => NothingYet
      BY <1>0, <2>2 DEF NothingYet, Live
    <3> QED BY <1>0, <1>1, <2>2, <3>1, WorkerLeaves DEF Quiet
  <2>3. CASE ~Live /\ chan' = "gone" /\ rings' = rings /\ media' = <<>>
    BY <1>1, <2>3, WorkerLeaves DEF Quiet, NothingYet
  <2> QED BY <1>1, <2>1, <2>2, <2>3, AcceptRings, WorkerLeaves
<1>2. CASE Line
  <2>1. rings' = rings
    BY <1>2 DEF Line, Answer, DebtorHangsUp, PlaybackEnds, RingOut, Press
  <2>2. rings # 0
    BY <1>2 DEF Quiet, NothingYet, Line, Answer, DebtorHangsUp, PlaybackEnds, RingOut, Press
  <2>3. ~NothingYet'
    BY <1>2, <2>1, <2>2 DEF Quiet, NothingYet, Line, Answer, DebtorHangsUp, PlaybackEnds, RingOut,
       Press, HangUp
  <2> QED BY <2>1, <2>2, <2>3 DEF Quiet
<1>3. CASE Handle
  <2>1. rings' = rings /\ queue # <<>> /\ chan' \in {chan, "gone"}
    BY <1>3, HandleLine DEF Handle
  <2> QED BY <2>1 DEF Quiet, NothingYet
<1>4. CASE ReconnectDiff
  <2>1. NoCause # "CONGESTION" /\ "NONE" # "ANSWERED"
    BY DEF NoCause
  <2> QED BY <1>4, <2>1, DiffLeaves DEF Quiet, NothingYet, TypeOK
<1>5. CASE Drop
  BY <1>5 DEF Drop, asterisk, Quiet, NothingYet, Unanswered
<1>6. CASE Reconnect \/ Restart \/ ListChannels \/ UNCHANGED vars
  <2>1. UNCHANGED <<row, outcome, asterisk, queue>>
    BY <1>6 DEF Reconnect, Restart, ListChannels, vars, socket
  <2> QED BY <2>1 DEF asterisk, Quiet, NothingYet, Unanswered
<1> QED BY <1>1, <1>2, <1>3, <1>4, <1>5, <1>6 DEF Next, Consumer

\* In the state RungOut describes, a frame can only repeat that nobody answered.
LEMMA RungOutHandle ==
  ASSUME TypeOK, RungOut, rings = 1, Congested, Handle
  PROVE  /\ chan' = "gone" /\ media' = <<>> /\ cdr' = cdr /\ line' = line /\ Unanswered'
         /\ row'.cause \in {row.cause, "CONGESTION"} /\ Frames(queue') \subseteq Frames(queue)
<1>1. /\ chan = "gone" /\ media = <<>> /\ Unanswered
      /\ \A e \in Frames(queue) : e.kind = "ChannelDestroyed" /\ e.cause = "CONGESTION" /\ e.from = "ARI"
  BY DEF RungOut
<1>2. UNCHANGED <<chan, media, line, cdr>> /\ Frames(queue') \subseteq Frames(queue)
  BY <1>1, HandleLine DEF Live
<1>3. CASE row' = row
  BY <1>1, <1>2, <1>3 DEF Unanswered
<1>4. CASE row' = ApplyEvent(row, Head(queue))
  <2> DEFINE e == Head(queue)
  <2>1. e \in Event /\ row \in Call /\ e.kind = "ChannelDestroyed" /\ e.cause = "CONGESTION" /\ e.from = "ARI"
    BY <1>1, HandleRow DEF TypeOK
  <2> HIDE DEF e
  <2>2. /\ row'.cause = "CONGESTION" /\ Explains(row, e, row'.status)
        /\ Extends(row, e, row')
    BY <1>4, <2>1, ApplyCause, ApplyExplained, ApplyExtends DEF e, NoCause
  <2>3. Unanswered'
    BY <1>1, <2>1, <2>2 DEF Explains, Extends, Unanswered
  <2> QED BY <1>1, <1>2, <2>2, <2>3
<1> QED BY <1>3, <1>4, HandleRow

\* The state is kept by whatever comes late, and reached only from a phone that rang once.
LEMMA RungOutStep ==
  ASSUME TypeOK, Quiet, RungOut, [Next]_vars
  PROVE  RungOut'
<1>0. rings \in Nat /\ NoCause # "CONGESTION" /\ Frames(<<>>) = {}
  BY ConstantsAssumption DEF TypeOK, NoCause, Frames
<1>1. CASE Worker
  <2>1. ASSUME Congested' PROVE Congested
    BY <1>1, <2>1, WorkerLeaves DEF Congested, Frames
  <2>2. CASE UNCHANGED <<chan, rings, media>>
    BY <1>1, <2>1, <2>2, WorkerLeaves DEF RungOut, Frames
  <2>3. CASE ~Live /\ chan' = "ringing" /\ rings' = rings + 1 /\ media' = <<>>
    <3>1. rings' = 1 => ~Congested
      BY <1>0, <2>3 DEF Quiet, NothingYet, Congested
    <3> QED BY <2>1, <3>1 DEF RungOut
  <2>4. CASE ~Live /\ chan' = "gone" /\ rings' = rings /\ media' = <<>>
    BY <1>1, <2>1, <2>4, WorkerLeaves DEF RungOut, Frames
  <2> QED BY <1>1, <2>2, <2>3, <2>4, AcceptRings, WorkerLeaves
<1>2. CASE Line
  <2>1. UNCHANGED <<rings, row, outcome>>
    BY <1>2 DEF Line, Answer, DebtorHangsUp, PlaybackEnds, RingOut, Press
  <2>2. CASE \E cause \in HangupCauses : RingOut(cause)
    <3> PICK cause \in HangupCauses : RingOut(cause)
      BY <2>2
    <3> SUFFICES ASSUME rings' = 1, Congested' PROVE RungOut'
      BY DEF RungOut
    <3>1. /\ queue = <<>> /\ media = <<>> /\ ~line.answered /\ Unanswered
          /\ row.cause = NoCause /\ outcome.counts
      BY <2>1 DEF RingOut, Quiet, NothingYet
    <3>2. /\ chan' = "gone" /\ UNCHANGED <<media, line>> /\ cdr' # "ANSWERED"
      BY DEF RingOut, Disposition
    <3>3. \A e \in Frames(queue') : e.kind = "ChannelDestroyed" /\ e.cause = cause /\ e.from = "ARI"
      <4> DEFINE e == Ari("ChannelDestroyed", clock + 1, "NONE", cause)
      <4>1. e \in Event /\ e.kind = "ChannelDestroyed" /\ e.cause = cause /\ e.from = "ARI"
        <5>1. /\ cause \in Causes /\ clock + 1 \in Nat
              /\ "ChannelDestroyed" \in Kinds /\ "NONE" \in Values
          BY ConstantsAssumption DEF TypeOK, Kinds, Values
        <5> QED BY <5>1, AriEvent DEF Ari
      <4>2. Raise(queue, <<e>>)
        BY DEF RingOut
      <4> HIDE DEF e
      <4>3. <<e>> \in Seq(Event) /\ Frames(<<e>>) = {e}
        BY <4>1, FramesFew
      <4> QED BY <1>0, <3>1, <4>1, <4>2, <4>3, RaiseFrames DEF TypeOK
    <3>4. cause = "CONGESTION"
      BY <1>0, <2>1, <3>1, <3>3 DEF Congested
    <3> QED BY <2>1, <3>1, <3>2, <3>3, <3>4 DEF RungOut, Unanswered
  <2>3. CASE ~\E cause \in HangupCauses : RingOut(cause)
    <3>1. rings = 1 => ~Congested
      <4>1. CASE Answer
        BY <1>0, <4>1 DEF Answer, Quiet, NothingYet, Congested
      <4>2. CASE chan = "up" \/ media # <<>>
        BY <4>2 DEF RungOut
      <4> QED BY <1>2, <2>3, <4>1, <4>2 DEF Line, DebtorHangsUp, PlaybackEnds, Press
    <3>2. ASSUME Congested' PROVE Congested
      <4>1. \A e \in Frames(queue') : e.cause = "CONGESTION" => e \in Frames(queue)
        BY <1>0, <1>2, <2>3, LineFrames DEF Farewell, FarewellOf
      <4> QED BY <2>1, <3>2, <4>1 DEF Congested
    <3> QED BY <2>1, <3>1, <3>2 DEF RungOut
  <2> QED BY <1>2, <2>2, <2>3 DEF Line
<1>3. CASE Handle
  <2> SUFFICES ASSUME rings' = 1, Congested' PROVE RungOut'
    BY DEF RungOut
  <2>1. \A e \in Frames(queue') : e.cause = "CONGESTION" => e \in Frames(queue)
    BY <1>0, <1>3, HandleLine DEF Farewell, FarewellOf
  <2>2. rings = 1 /\ Congested
    BY <1>3, <2>1, HandleLeaves, HandleRow DEF Congested
  <2>3. ~outcome'.counts => row'.cause = "CONGESTION"
    <3>1. ~outcome.counts => row.cause = "CONGESTION"
      BY <2>2 DEF RungOut
    <3> QED BY <1>3, <2>2, <3>1, HandleLeaves, RungOutHandle
  <2> QED BY <1>3, <2>2, <2>3, RungOutHandle DEF RungOut
<1>4. CASE ReconnectDiff
  <2>1. Congested' => Congested
    BY <1>4, DiffLeaves DEF Congested
  <2> QED BY <1>4, <2>1, DiffLeaves DEF RungOut
<1>5. CASE Drop
  <2>1. UNCHANGED <<row, outcome, asterisk>> /\ queue' = <<>>
    BY <1>5 DEF Drop
  <2> QED BY <1>0, <2>1 DEF asterisk, RungOut, Congested, Unanswered
<1>6. CASE Reconnect \/ Restart \/ ListChannels \/ UNCHANGED vars
  <2>1. UNCHANGED <<row, outcome, asterisk, queue>>
    BY <1>6 DEF Reconnect, Restart, ListChannels, vars, socket
  <2> QED BY <2>1 DEF asterisk, RungOut, Congested, Unanswered, Frames
<1> QED BY <1>1, <1>2, <1>3, <1>4, <1>5, <1>6 DEF Next, Consumer

\* Nothing has rung, and nothing is congested, when the call's row is committed.
LEMMA InitQuiet == Init => Quiet /\ RungOut
BY DEF Init, NewCall, NoTime, NoCause, Quiet, NothingYet, Unanswered, RungOut

\* An attempt that was given back as a carrier fault was not answered, provided the phone
\* rang once: whatever the consumer missed and whatever the CDR says.
THEOREM FreeAttemptsUnanswered == Spec => []FreeAttemptNeverAnswered
<1>1. TypeOK /\ Quiet /\ RungOut /\ [Next]_vars => Quiet' /\ RungOut'
  BY QuietStep, RungOutStep
<1>2. RungOut => FreeAttemptNeverAnswered
  BY DEF RungOut, Congested, FreeAttemptNeverAnswered
<1> QED BY <1>1, <1>2, InitQuiet, TypeCorrect, PTL DEF Spec

\* What is given back stays given back.
LEMMA StaysFree ==
  ASSUME TypeOK, RungOut, [Next]_vars, rings = 1, ~outcome.counts
  PROVE  ~outcome'.counts
<1>1. Congested /\ row.cause = "CONGESTION"
  BY DEF RungOut, Congested
<1>2. CASE Worker
  BY <1>2, WorkerLeaves
<1>3. CASE Line
  <2>1. outcome' = outcome
    BY <1>3 DEF Line, Answer, DebtorHangsUp, PlaybackEnds, RingOut, Press
  <2> QED BY <2>1
<1>4. CASE Handle
  <2>1. Unanswered' /\ row'.cause = "CONGESTION"
    BY <1>1, <1>4, RungOutHandle
  <2>2. AttemptClass(row'.status, row'.cause) = "CARRIER_FAULT"
    BY <2>1 DEF Unanswered, AttemptClass
  <2> QED BY <1>4, <2>2, HandleLeaves
<1>5. CASE ReconnectDiff
  <2>1. Unanswered' /\ row'.cause = "CONGESTION"
    BY <1>1, <1>5, DiffLeaves DEF RungOut
  <2>2. AttemptClass(row'.status, row'.cause) = "CARRIER_FAULT"
    BY <2>1 DEF Unanswered, AttemptClass
  <2> QED BY <1>5, <2>2, DiffLeaves
<1>6. CASE Drop \/ Reconnect \/ Restart \/ ListChannels \/ UNCHANGED vars
  <2>1. outcome' = outcome
    BY <1>6 DEF Drop, Reconnect, Restart, ListChannels, vars
  <2> QED BY <2>1
<1> QED BY <1>2, <1>3, <1>4, <1>5, <1>6 DEF Next, Consumer

\* No later frame, CDR or reconnect counts an attempt that was given back, provided the
\* phone rang once.
THEOREM CountsStayFree == Spec => CountsNeverRestored
<1>1. TypeOK /\ Quiet /\ RungOut /\ [Next]_vars => Quiet' /\ RungOut'
  BY QuietStep, RungOutStep
<1>2. TypeOK /\ RungOut /\ [Next]_vars => [rings = 1 /\ ~outcome.counts => ~outcome'.counts]_vars
  BY StaysFree
<1> QED BY <1>1, <1>2, InitQuiet, TypeCorrect, PTL DEF Spec, CountsNeverRestored
===========================================================================
