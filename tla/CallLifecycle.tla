--------------------------- MODULE CallLifecycle ---------------------------
(***************************************************************************)
(* The life of one voice call after its row has been committed:            *)
(*                                                                         *)
(*   - the scheduler worker originates the channel and then stores that it *)
(*     did (telephony/ari.py, telephony/flow.py);                          *)
(*   - Asterisk, the carrier and the debtor, who are external, ring,       *)
(*     answer, press keys, play media and hang up;                         *)
(*   - the one event consumer reads a websocket that can drop, folds each  *)
(*     event into the row, drives the call and applies the outcome         *)
(*     (telephony/events.py, calls/projection.py, calls/outcomes.py);      *)
(*   - after a reconnect it closes what it missed (calls/reconciler.py).   *)
(*                                                                         *)
(* The worker and the consumer are different processes with sessions of    *)
(* their own.  The stale sweeper is not an actor: no process calls it.     *)
(***************************************************************************)
EXTENDS Projection, Sequences

CONSTANTS Levels,          \* escalation levels the call may be made at
          HangupCauses,    \* Q.850 classes of a call that is never answered
          MaxRetries,      \* originate(max_retries=2)
          MaxDrops,        \* bound: how often the websocket drops
          MaxBacklog,      \* bound: frames unread while the line moves on
          MaxCount,        \* bound: where the attempt counters saturate
          CdrTable,        \* is Asterisk writing its CDRs into this database?
          OtherPhone,      \* has the buyer another valid phone?
          Crashes,         \* may the worker die between commit and store?
          Restarts,        \* may the consumer process restart?
          ListMayFail      \* may GET /channels fail after a reconnect?

ASSUME ConstantsAssumption ==
  /\ Levels \subseteq {"L1", "L2", "L3"}
  /\ HangupCauses \subseteq Causes
  /\ MaxRetries \in Nat /\ MaxDrops \in Nat /\ MaxBacklog \in Nat /\ MaxCount \in Nat \ {0}
  /\ {CdrTable, OtherPhone, Crashes, Restarts, ListMayFail} \subseteq BOOLEAN

VARIABLES
  row,        \* the committed Call
  log,        \* the committed CallEvents of the call
  level,      \* Call.level
  outcome,    \* what apply_outcome has written beside the projection
  worker,     \* where the worker is: committed, retrying, posted, stored, overtook (it
              \* stored over what the consumer had written) or failed
  tries,      \* POST /channels requests sent by the loop that is running
  chan,       \* the channel in Asterisk: none, ringing, up, gone
  rings,      \* how often the debtor's phone was rung for this call
  media,      \* playbacks queued on the channel, the first one playing
  line,       \* what happened on the line: answered, pressed, spoken, heard, and whether a
              \* playback that a hangup cut was reported finished (cut)
  clock,      \* timestamp of the last event Asterisk raised
  cdr,        \* disposition in Asterisk's own record of the call
  queue,      \* frames in the websocket, oldest first
  online,     \* is the websocket connected?
  drops,      \* how often it dropped
  diff        \* the reconnect diff: idle, listing, the answer it got, or skipped

asterisk == <<chan, rings, media, line, clock, cdr>>
socket   == <<queue, online, drops, diff>>
vars     == <<row, log, level, outcome, worker, tries, asterisk, socket>>

---------------------------------------------------------------------------
Init == /\ row = NewCall /\ log = {}
        /\ level \in Levels
        /\ outcome = [ attempts |-> 0, deliveries |-> 0, counts |-> TRUE,
                       phoneValid |-> TRUE, withdrawn |-> FALSE, next |-> "dispatch" ]
        /\ worker = "committed" /\ tries = 0
        /\ chan = "none" /\ rings = 0 /\ media = <<>> /\ clock = 0 /\ cdr = "NONE"
        /\ line = [answered |-> FALSE, pressed |-> {}, spoken |-> FALSE, heard |-> FALSE,
                   cut |-> FALSE]
        /\ queue = <<>> /\ online = TRUE /\ drops = 0 /\ diff = "idle"

---------------------------------------------------------------------------
(* calls/outcomes.py and policy/engine.py: what a finished call does to    *)
(* the rest of the system.                                                 *)

\* Mutant: an outcome nobody knows is not held against the debtor.
UnknownIsFree(status, cause) ==
  IF status = "UNKNOWN" \/ cause = "CONGESTION" THEN "CARRIER_FAULT"
  ELSE IF cause = "BAD_NUMBER" THEN "BAD_NUMBER" ELSE "COUNTS"

\* classify_attempt
AttemptClass(status, cause) ==
  CASE status \in {"ANSWERED", "ANSWERED_MACHINE"} -> "COUNTS"
    [] status \notin {"ANSWERED", "ANSWERED_MACHINE"} /\ cause = "CONGESTION" -> "CARRIER_FAULT"
    [] status \notin {"ANSWERED", "ANSWERED_MACHINE"} /\ cause = "BAD_NUMBER" -> "BAD_NUMBER"
    [] OTHER -> "COUNTS"

Bump(n) == IF n < MaxCount THEN n + 1 ELSE n

\* Mutant: the opt-out not carried to the buyer.
OutcomeWithoutOptOut(o, c) ==
  [o EXCEPT !.counts = AttemptClass(c.status, c.cause) # "CARRIER_FAULT",
            !.attempts = IF Delivered(c) THEN 0 ELSE Bump(@)]

\* apply_outcome, from the row c as it stands now.
ApplyOutcome(o, c) ==
  LET class == AttemptClass(c.status, c.cause)
      dead  == class = "BAD_NUMBER"
  IN [ attempts   |-> IF Delivered(c) THEN 0 ELSE Bump(o.attempts),
       deliveries |-> IF Delivered(c) THEN Bump(o.deliveries) ELSE o.deliveries,
       counts     |-> class # "CARRIER_FAULT",
       phoneValid |-> o.phoneValid /\ ~dead,
       withdrawn  |-> o.withdrawn \/ c.optedOut,
       next       |-> IF dead /\ ~OtherPhone THEN "human" ELSE "retry" ]

---------------------------------------------------------------------------
(* The worker: AriClient.originate and flow.originate.                     *)

Live == chan \in {"ringing", "up"}

\* POST /channels reaches Asterisk.  The id of a live channel is refused with 409;
\* the id of a destroyed one is free again.  Into an application whose websocket is
\* not connected the channel is torn down at once.
Accept == IF Live
          THEN UNCHANGED <<chan, rings, media>>
          ELSE /\ chan' = IF online THEN "ringing" ELSE "gone"
               /\ rings' = IF online THEN rings + 1 ELSE rings
               /\ media' = <<>>

\* Mutant: one retry too many.
OneTooMany == worker \in {"committed", "retrying"} /\ tries <= MaxRetries + 1

Posting == worker \in {"committed", "retrying"} /\ tries <= MaxRetries

\* A reply arrives: 200, 201 or 409.
Post == /\ Posting
        /\ Accept
        /\ tries' = 0
        /\ worker' = "posted"
        /\ UNCHANGED <<row, log, level, outcome, line, clock, cdr, socket>>

\* No reply, or a 5xx: the request may or may not have taken effect.
PostUncertain == /\ Posting
                 /\ Accept \/ UNCHANGED <<chan, rings, media>>
                 /\ tries' = tries + 1
                 /\ worker' = "retrying"
                 /\ UNCHANGED <<row, log, level, outcome, line, clock, cdr, socket>>

\* Retries exhausted: GET /channels/{id}, which can fail like the POSTs did; without
\* a channel in the answer originate raises and the tick rolls back.
ResolveAfterUncertainty ==
  /\ worker = "retrying" /\ tries > MaxRetries
  /\ \/ Live /\ worker' = "posted"
     \/ worker' = "failed"
  /\ tries' = 0
  /\ UNCHANGED <<row, log, level, outcome, asterisk, socket>>

\* A 4xx other than 409: AriError at once.
PostRefused == /\ Posting
               /\ worker' = "failed" /\ tries' = 0
               /\ UNCHANGED <<row, log, level, outcome, asterisk, socket>>

Originated == [kind |-> "Originated", at |-> clock, value |-> "NONE",
               cause |-> NoCause, from |-> "WORKER"]

\* The worker's copy of the row is the one it committed: whatever the consumer has
\* written since, the copy still says SCHEDULED and the UPDATE writes DIALING.
Store == /\ worker = "posted"
         /\ row' = [row EXCEPT !.status = "DIALING", !.originated = TRUE]
         /\ log' = log \cup {Originated}
         /\ outcome' = [outcome EXCEPT !.next = "dispatch"]
         /\ worker' = IF IsTerminal(row.status) THEN "overtook" ELSE "stored"
         /\ UNCHANGED <<level, tries, asterisk, socket>>

Crash == /\ Crashes
         /\ worker \in {"committed", "retrying", "posted"}
         /\ worker' = "failed" /\ tries' = 0
         /\ UNCHANGED <<row, log, level, outcome, asterisk, socket>>

---------------------------------------------------------------------------
(* Asterisk, the carrier and the debtor (external).                        *)

Ari(kind, at, value, cause) ==
  [kind |-> kind, at |-> at, value |-> value, cause |-> cause, from |-> "ARI"]

\* Events reach the consumer only while its socket is up; there is no replay.
Raise(q, events) == queue' = IF online THEN q \o events ELSE q

Answer == /\ chan = "ringing"
          /\ chan' = "up"
          /\ line' = [line EXCEPT !.answered = TRUE]
          /\ clock' = clock + 1
          /\ Raise(queue, <<Ari("StasisStart", clock + 1, "NONE", NoCause)>>)
          /\ UNCHANGED <<row, log, level, outcome, worker, tries, rings, media, cdr,
                         online, drops, diff>>

Disposition(cause) == CASE cause = "USER_BUSY"        -> "BUSY"
                        [] cause = "NO_USER_RESPONSE" -> "NO_ANSWER"
                        [] OTHER                      -> "FAILED"

\* Destroyed without ever being answered.
RingOut(cause) ==
  /\ chan = "ringing"
  /\ chan' = "gone"
  /\ clock' = clock + 1
  /\ cdr' = Disposition(cause)
  /\ Raise(queue, <<Ari("ChannelDestroyed", clock + 1, "NONE", cause)>>)
  /\ UNCHANGED <<row, log, level, outcome, worker, tries, rings, media, line,
                 online, drops, diff>>

\* The channel leaves the application, which ends what it was playing: that playback is
\* reported finished too, before or after StasisEnd ("StasisEnd can and does land before
\* PlaybackFinished", projection.py:12), or not at all.
Leaving == LET stasis   == <<Ari("StasisEnd", clock + 1, "NONE", NoCause)>>
               playback == <<Ari("PlaybackFinished", clock + 1, "NONE", NoCause)>>
           IN IF chan # "up" THEN {<<>>}
              ELSE IF media = <<>> THEN {stasis}
              ELSE {stasis, stasis \o playback, playback \o stasis}

\* A live channel goes away, cutting whatever it was playing.
HangUp(q) == \E left \in Leaving :
  /\ chan' = "gone" /\ media' = <<>>
  /\ cdr' = IF chan = "up" THEN "ANSWERED" ELSE "NO_ANSWER"
  /\ line' = [line EXCEPT !.cut = @ \/ Len(left) = 2]
  /\ clock' = clock + 2
  /\ Raise(q, left \o <<Ari("ChannelDestroyed", clock + 2, "NONE", "NORMAL")>>)

DebtorHangsUp == /\ chan = "up"
                 /\ HangUp(queue)
                 /\ UNCHANGED <<row, log, level, outcome, worker, tries, rings,
                                online, drops, diff>>

\* Each key is pressed at most once.
Press(digit) ==
  /\ chan = "up"
  /\ digit \notin line.pressed
  /\ line' = [line EXCEPT !.pressed = @ \cup {digit}]
  /\ clock' = clock + 1
  /\ Raise(queue, <<Ari("ChannelDtmfReceived", clock + 1, digit, NoCause)>>)
  /\ UNCHANGED <<row, log, level, outcome, worker, tries, chan, rings, media, cdr,
                 online, drops, diff>>

\* Another playback has another id, and a PlaybackFinished more changes nothing: the clock
\* need not tell them apart.
PlaybackEnds ==
  /\ media # <<>>
  /\ media' = Tail(media)
  /\ line' = [line EXCEPT !.heard = @ \/ Head(media) = "message"]
  /\ Raise(queue, <<Ari("PlaybackFinished", clock, "NONE", NoCause)>>)
  /\ UNCHANGED <<row, log, level, outcome, worker, tries, chan, rings, clock, cdr,
                 online, drops, diff>>

---------------------------------------------------------------------------
(* The event consumer: telephony/events.py driving telephony/flow.py.      *)

\* Mutant: the L3 gate ignored.
GateIgnored(c) == FALSE

\* L3 content waits for a keypress.
Gated(c) == level = "L3" /\ ~c.ack

\* client.play: a channel that is not up answers 404, any request may fail, and the
\* error is swallowed.
Play(m) == \/ /\ chan = "up"
              /\ media' = Append(media, m)
              /\ line' = [line EXCEPT !.spoken = @ \/ m = "message"]
           \/ UNCHANGED <<media, line>>

\* What the consumer asks of Asterisk about event e once the row is c.
Drive(e, c) ==
  \/ /\ e.kind = "StasisStart"
     /\ Play(IF Gated(c) THEN "prompt" ELSE "message")
     /\ UNCHANGED <<chan, clock, cdr>>
     /\ queue' = Tail(queue)
  \/ /\ e.kind = "ChannelDtmfReceived" /\ e.value = "1" /\ level = "L3"
     /\ Play("message")
     /\ UNCHANGED <<chan, clock, cdr>>
     /\ queue' = Tail(queue)
  \/ /\ \/ e.kind = "ChannelDtmfReceived" /\ e.value = "9"
        \/ e.kind = "PlaybackFinished" /\ ~Gated(c)
     /\ \/ Live /\ HangUp(Tail(queue))
        \* client.hangup: 404, or a request that failed; both are swallowed.
        \/ UNCHANGED <<chan, media, line, clock, cdr>> /\ queue' = Tail(queue)
  \/ /\ \/ e.kind \in {"StasisEnd", "ChannelDestroyed"}
        \/ e.kind = "ChannelDtmfReceived" /\ e.value = "1" /\ level # "L3"
        \/ e.kind = "PlaybackFinished" /\ Gated(c)
     /\ UNCHANGED <<chan, media, line, clock, cdr>>
     /\ queue' = Tail(queue)

\* ingest: append, then project.
Ingest(e) == IF Duplicate(log, e) THEN UNCHANGED <<row, log>>
             ELSE row' = ApplyEvent(row, e) /\ log' = log \cup {e}

Settle(e) == outcome' = IF IsTerminal(row'.status) THEN ApplyOutcome(outcome, row')
                        ELSE outcome

Idle == diff \in {"idle", "skipped"}

\* One frame, in one transaction.  The consumer is sequential: nothing is handled
\* while a reconnect diff is under way.
Handle == /\ queue # <<>> /\ Idle
          /\ LET e == Head(queue) IN
               /\ Ingest(e)
               /\ Drive(e, row')
               /\ Settle(e)
          /\ UNCHANGED <<level, worker, tries, rings, online, drops, diff>>

\* The socket drops, or a handler raises, which closes it too; what it held is gone.
Drop == /\ online /\ drops < MaxDrops
        /\ online' = FALSE /\ queue' = <<>>
        /\ drops' = drops + 1
        /\ UNCHANGED <<row, log, level, outcome, worker, tries, asterisk, diff>>

Reconnect == /\ ~online /\ Idle
             /\ online' = TRUE /\ diff' = "listing"
             /\ UNCHANGED <<row, log, level, outcome, worker, tries, asterisk, queue, drops>>

\* A new consumer process: its first connection runs no diff.
Restart == /\ Restarts /\ ~online
           /\ online' = TRUE /\ diff' = "skipped"
           /\ UNCHANGED <<row, log, level, outcome, worker, tries, asterisk, queue, drops>>

---------------------------------------------------------------------------
(* The reconnect diff: on_reconnect and calls/reconciler.py.               *)

\* GET /channels, before any transaction is opened.
ListChannels == /\ diff = "listing"
                /\ \/ diff' = IF Live THEN "live" ELSE "absent"
                   \/ ListMayFail /\ diff' = "skipped"
                /\ UNCHANGED <<row, log, level, outcome, worker, tries, asterisk,
                               queue, online, drops>>

\* Mutant: a call that has not been answered is not looked for.
AnsweredOnly(c) == c.status = "ANSWERED"

InFlight(c) == c.status \in {"DIALING", "ANSWERED"}

Destroyed(from) == [kind |-> "ChannelDestroyed", at |-> clock, value |-> "NONE",
                    cause |-> NoCause, from |-> from]

\* The row once a synthetic ChannelDestroyed has been ingested.
Closed(from) == IF Duplicate(log, Destroyed(from)) THEN row
                ELSE ApplyEvent(row, Destroyed(from))

\* resolve_from_cdr: the disposition is written over the projected status unless it
\* says ANSWERED.  The table may be absent, the record may be late.
FromCdr == /\ CdrTable /\ cdr # "NONE"
           /\ row' = [Closed("CDR") EXCEPT !.status = IF cdr = "ANSWERED" THEN @ ELSE cdr]
           /\ log' = log \cup {e \in {Destroyed("CDR")} : ~Duplicate(log, e)}

\* No channel and no CDR.
FromNothing ==
  /\ row' = [Closed("RECONCILER") EXCEPT !.status = IF IsTerminal(@) THEN @ ELSE "UNKNOWN"]
  /\ log' = log \cup {e \in {Destroyed("RECONCILER")} : ~Duplicate(log, e)}

MissedItsEnd == InFlight(row) /\ diff = "absent"

ReconnectDiff ==
  /\ diff \in {"live", "absent"}
  /\ IF MissedItsEnd
     THEN /\ FromCdr \/ FromNothing
          /\ outcome' = ApplyOutcome(outcome, row')
     ELSE UNCHANGED <<row, log, outcome>>
  /\ diff' = "idle"
  /\ UNCHANGED <<level, worker, tries, asterisk, queue, online, drops>>

---------------------------------------------------------------------------
Worker == Post \/ PostUncertain \/ PostRefused \/ ResolveAfterUncertainty \/ Store \/ Crash

Line == /\ Len(queue) < MaxBacklog
        /\ \/ Answer \/ DebtorHangsUp \/ PlaybackEnds
           \/ \E cause \in HangupCauses : RingOut(cause)
           \/ \E digit \in {"1", "9"} : Press(digit)

Consumer == Handle \/ Drop \/ Reconnect \/ Restart \/ ListChannels \/ ReconnectDiff

Next == Worker \/ Line \/ Consumer

Spec == Init /\ [][Next]_vars

\* The consumer is one thread that runs on: it reads what is queued, reconnects with a
\* back-off and finishes the diff.  Nothing is assumed of the worker, the carrier or
\* the debtor.
FairSpec == Spec /\ WF_vars(Handle \/ Reconnect \/ ListChannels \/ ReconnectDiff)

---------------------------------------------------------------------------
TypeOK ==
  /\ row \in Call /\ log \subseteq Event /\ level \in Levels
  /\ outcome \in [ attempts : 0 .. MaxCount, deliveries : 0 .. MaxCount,
                   counts : BOOLEAN, phoneValid : BOOLEAN, withdrawn : BOOLEAN,
                   next : {"dispatch", "retry", "human"} ]
  /\ worker \in {"committed", "retrying", "posted", "stored", "overtook", "failed"}
  /\ tries \in 0 .. MaxRetries + 1
  /\ chan \in {"none", "ringing", "up", "gone"} /\ rings \in 0 .. MaxRetries + 1
  /\ media \in Seq({"prompt", "message"})
  /\ line \in [answered : BOOLEAN, pressed : SUBSET {"1", "9"}, spoken : BOOLEAN, heard : BOOLEAN,
              cut : BOOLEAN]
  /\ clock \in Nat
  /\ cdr \in {"NONE", "ANSWERED", "NO_ANSWER", "BUSY", "FAILED"}
  /\ queue \in Seq(Event) /\ online \in BOOLEAN /\ drops \in 0 .. MaxDrops
  /\ diff \in {"idle", "listing", "live", "absent", "skipped"}

\* Whatever two processes write to the row, and whatever the CDR says over it, the
\* delivery facts and the timestamps remain those of the recorded events.
FactsAreTheLog == FactsAgree(row, log)

\* An opt-out on record has reached the buyer (outcomes.py:54-56), but for two ways to
\* lose its outcome: the worker stored DIALING over the answer before the key arrived,
\* or the consumer never saw the answer.  Either way the row says that the call is still
\* under way, and no outcome of it has been applied since: the opt-out waits for the end
\* of the call (MissedEndIsClosed).
OptOutHonoured == row.optedOut /\ ~outcome.withdrawn =>
                    /\ worker = "overtook" \/ row.answered = NoTime
                    /\ ~IsTerminal(row.status)

\* L3 content is spoken only after the debtor pressed 1: not on a late answer, not
\* on a gate prompt that ran out, not on a keypress of another digit.
NothingBeforeKeypress == level = "L3" /\ line.spoken => "1" \in line.pressed

\* Below L3, where no gate prompt is played, a delivery on record means that the message
\* was spoken and ended: heard to its end, or cut by a hangup and reported finished all
\* the same.  The code records a delivery for the second, which models/voice.py:39 rules
\* out ("PlaybackFinished with no preceding StasisEnd"); it never records one for a
\* message that was not played, or whose end was not reported.
DeliveredWasPlayed == level # "L3" /\ Delivered(row) => line.spoken /\ (line.heard \/ line.cut)

\* An attempt given back to the debtor's budget as a carrier fault never rang through:
\* nobody answered it, provided the call was rung once.
FreeAttemptNeverAnswered == rings = 1 /\ ~outcome.counts => ~line.answered

\* An attempt given back is never taken again behind the dispatcher's back, so the
\* counted attempts of a buyer only grow by new calls, provided the call was rung once.
CountsNeverRestored == [][rings = 1 /\ ~outcome.counts => ~outcome'.counts]_vars

\* What the reconnect diff is for: a call in flight whose channel went away while the
\* socket was down is closed once it is back, and an opt-out that waited for its end has
\* reached the buyer, unless a retry has rung it again, or the consumer came back without
\* looking (a new process, or GET /channels failed).
MissedEndIsClosed ==
  (~online /\ Idle /\ chan = "gone" /\ InFlight(row))
     ~> \/ row.ended # NoTime /\ (row.optedOut => outcome.withdrawn)
        \/ Live
        \/ diff = "skipped"

---------------------------------------------------------------------------
(* What the documents claim and the code does not do.                      *)

\* "One attempt" (models/voice.py): a call is folded into the ladder as one attempt or
\* one delivery, however many events report on it.
OneAttemptPerCall == outcome.attempts + outcome.deliveries <= 1

\* "A call is never left mid-flight forever": once the channel is gone for good the row
\* says how it ended.
EveryCallCloses == (chan = "gone" /\ worker \in {"stored", "overtook"}) ~> (row.ended # NoTime)
============================================================================
