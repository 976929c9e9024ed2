---------------------------- MODULE Projection ----------------------------
(***************************************************************************)
(* How one telephony event is folded into a row of the `calls` table       *)
(* (calls/projection.py).  Pure operators, no state: EventLog applies them *)
(* to arbitrary streams of events and CallLifecycle to the streams a real  *)
(* call produces.                                                          *)
(*                                                                         *)
(* Timestamps are natural numbers and NoTime stands for NULL.  Of a        *)
(* payload only what the projection reads is kept: the DTMF digit or the   *)
(* AMD verdict (`value`), the Q.850 cause by class (`cause`), and who      *)
(* wrote the event (`from`).                                               *)
(***************************************************************************)
EXTENDS Integers

NoTime == -1
Times == Nat \cup {NoTime}

Statuses == { "SCHEDULED", "DIALING", "ANSWERED", "ANSWERED_MACHINE", "NO_ANSWER",
              "BUSY", "FAILED", "UNKNOWN", "CANCELLED", "BLOCKED" }

\* One representative of every class of Q.850 causes the code treats alike:
\* 16 | 17 | 18, 19 | 21 | 1, 22 | 34, 38, 41 | any other number.
NoCause == "NONE"
Causes == { "NORMAL", "USER_BUSY", "NO_USER_RESPONSE", "REJECTED", "BAD_NUMBER",
            "CONGESTION", "OTHER" }

Kinds == { "Originated", "StasisStart", "PlaybackStarted", "PlaybackFinished",
           "ChannelDtmfReceived", "AmdResult", "StasisEnd", "ChannelDestroyed" }

Values == {"NONE", "1", "9", "MACHINE"}

\* EventSource, with WORKER split by the payload's "source": the reconciler
\* writes as WORKER too, under a dedupe key of its own.
Sources == {"ARI", "CDR", "WORKER", "RECONCILER"}

Event == [ kind : Kinds, at : Nat, value : Values,
           cause : Causes \cup {NoCause}, from : Sources ]

Call == [ status : Statuses, originated : BOOLEAN,
          answered : Times, started : Times, ended : Times, duration : Times,
          played : BOOLEAN, ack : BOOLEAN, optedOut : BOOLEAN,
          cause : Causes \cup {NoCause} ]

NewCall == [ status |-> "SCHEDULED", originated |-> FALSE,
             answered |-> NoTime, started |-> NoTime, ended |-> NoTime,
             duration |-> NoTime,
             played |-> FALSE, ack |-> FALSE, optedOut |-> FALSE,
             cause |-> NoCause ]

---------------------------------------------------------------------------
(* The status lattice.                                                     *)

Terminal == {"NO_ANSWER", "BUSY", "FAILED", "UNKNOWN", "CANCELLED", "BLOCKED"}

Rank(s) == IF s = "SCHEDULED" THEN 0
           ELSE IF s = "DIALING" THEN 1
           ELSE IF s \in Terminal THEN 3 ELSE 2

CauseStatus(cause) == CASE cause = "NORMAL"           -> "ANSWERED"
                        [] cause = "USER_BUSY"        -> "BUSY"
                        [] cause = "NO_USER_RESPONSE" -> "NO_ANSWER"
                        [] OTHER                      -> "FAILED"

\* Mutant: the rank test dropped.
AdvanceBackwards(c, s) == [c EXCEPT !.status = s]

Advance(c, s) ==
  IF /\ Rank(s) >= Rank(c.status)
     /\ {c.status, s} \subseteq Terminal => c.status = s
  THEN [c EXCEPT !.status = s]
  ELSE c

---------------------------------------------------------------------------
(* Folding one event.                                                      *)

\* Mutant: the last timestamp seen instead of the earliest.
LatestSeen(current, candidate) == candidate

Earliest(current, candidate) ==
  IF current = NoTime \/ candidate < current THEN candidate ELSE current

\* Mutant: an unexplained hangup resolved to UNKNOWN whoever reported it.
FinaliseUnknown(c, e) ==
  IF c.answered # NoTime THEN Advance(c, "ANSWERED")
  ELSE Advance(c, IF e.cause = NoCause THEN "UNKNOWN" ELSE CauseStatus(e.cause))

\* The channel is gone: decide the outcome.
Finalise(c, e) ==
  IF c.answered # NoTime
  THEN IF c.status = "ANSWERED_MACHINE" THEN c ELSE Advance(c, "ANSWERED")
  ELSE Advance(c, CASE e.from = "RECONCILER" -> "UNKNOWN"
                    [] e.from # "RECONCILER" /\ e.cause = NoCause -> "NO_ANSWER"
                    [] OTHER -> CauseStatus(e.cause))

\* Mutant: an event without a cause erases the one on record.
HangupErasing(c, e) == [c EXCEPT !.ended = Earliest(@, e.at), !.cause = e.cause]

Hangup(c, e) ==
  [c EXCEPT !.ended = Earliest(@, e.at),
            !.cause = IF e.cause = NoCause THEN @ ELSE e.cause]

Fold(c, e) ==
  CASE e.kind = "StasisStart" ->
         Advance([c EXCEPT !.answered = Earliest(@, e.at)], "ANSWERED")
    [] e.kind = "PlaybackStarted"  -> [c EXCEPT !.started = Earliest(@, e.at)]
    [] e.kind = "PlaybackFinished" -> [c EXCEPT !.played = TRUE]
    [] e.kind = "ChannelDtmfReceived" ->
         [c EXCEPT !.ack = @ \/ e.value = "1", !.optedOut = @ \/ e.value = "9"]
    [] e.kind = "AmdResult" ->
         IF e.value = "MACHINE" THEN Advance(c, "ANSWERED_MACHINE") ELSE c
    [] e.kind = "StasisEnd"        -> Hangup(c, e)
    [] e.kind = "ChannelDestroyed" -> Finalise(Hangup(c, e), e)
    [] OTHER -> c

\* The duration is filled in once, when both ends are first known.
WithDuration(c) ==
  IF c.answered # NoTime /\ c.ended # NoTime /\ c.duration = NoTime
  THEN [c EXCEPT !.duration = IF c.ended > c.answered THEN c.ended - c.answered ELSE 0]
  ELSE c

ApplyEvent(c, e) == WithDuration(Fold(c, e))

---------------------------------------------------------------------------
(* The append-only log: `call_events` with its unique constraint.          *)

\* ARI events carry no id, so one is derived from type and timestamp; the
\* reconciler and the CDR lookup write at most one event per call.
Key(e) == <<e.from, e.kind, IF e.from = "ARI" THEN e.at ELSE 0>>

\* R is the set of events recorded so far.
Duplicate(R, e) == \E f \in R : Key(f) = Key(e)

---------------------------------------------------------------------------
(* Agreement of a row with its log.                                        *)

\* t is the timestamp of the earliest of the events R of the kinds K, or NULL
\* when R has none.
EarliestOf(t, K, R) ==
  /\ t = NoTime => \A e \in R : e.kind \notin K
  /\ t # NoTime => /\ \E e \in R : e.kind \in K /\ e.at = t
                   /\ \A e \in R : e.kind \in K => t <= e.at

PlayedIsLogged(c, R) == c.played <=> \E e \in R : e.kind = "PlaybackFinished"

KeypressIsLogged(c, R) ==
  /\ c.ack <=> \E e \in R : e.kind = "ChannelDtmfReceived" /\ e.value = "1"
  /\ c.optedOut <=> \E e \in R : e.kind = "ChannelDtmfReceived" /\ e.value = "9"

TimesAreEarliest(c, R) == /\ EarliestOf(c.answered, {"StasisStart"}, R)
                          /\ EarliestOf(c.started, {"PlaybackStarted"}, R)
                          /\ EarliestOf(c.ended, {"StasisEnd", "ChannelDestroyed"}, R)

\* The delivery facts and the timestamps of c are those of the set of events R.
FactsAgree(c, R) == PlayedIsLogged(c, R) /\ KeypressIsLogged(c, R) /\ TimesAreEarliest(c, R)

---------------------------------------------------------------------------
(* What the row says.                                                      *)

IsTerminal(s) == s \notin {"SCHEDULED", "DIALING"}

\* Mutant: a delivery inferred from the connection.
DeliveredIfAnswered(c) == c.answered # NoTime /\ ~c.optedOut

Delivered(c) == c.status = "ANSWERED" /\ c.played /\ ~c.optedOut
===========================================================================
