------------------------- MODULE Projection_proofs -------------------------
(***************************************************************************)
(* What holds of folding one event into a call, for every call and every   *)
(* event: the lemmas that the proofs about the log alone and about the     *)
(* life of a call rest on.                                                 *)
(***************************************************************************)
EXTENDS Projection, TLAPS

\* Raising the status yields a call whose other columns are untouched.
LEMMA AdvanceType ==
  ASSUME NEW c \in Call, NEW s \in Statuses
  PROVE  /\ Advance(c, s) \in Call
         /\ Advance(c, s) = [c EXCEPT !.status = Advance(c, s).status]
BY DEF Advance, Call

\* _advance never lowers the rank and never leaves a terminal outcome.
LEMMA AdvanceForward ==
  ASSUME NEW c \in Call, NEW s \in Statuses
  PROVE  /\ Rank(Advance(c, s).status) >= Rank(c.status)
         /\ c.status \in Terminal => Advance(c, s).status = c.status
BY DEF Advance, Call, Rank, Terminal, Statuses

\* A hangup touches the end time and the cause only.
LEMMA HangupType ==
  ASSUME NEW c \in Call, NEW e \in Event
  PROVE  /\ Hangup(c, e) \in Call
         /\ Hangup(c, e).status = c.status
         /\ Hangup(c, e).answered = c.answered
BY DEF Hangup, Earliest, Call, Event, Times, NoTime

\* _finalise moves the status, forward, and nothing else.
LEMMA FinaliseForward ==
  ASSUME NEW c \in Call, NEW e \in Event
  PROVE  /\ Finalise(c, e) \in Call
         /\ Finalise(c, e) = [c EXCEPT !.status = Finalise(c, e).status]
         /\ Rank(Finalise(c, e).status) >= Rank(c.status)
         /\ c.status \in Terminal => Finalise(c, e).status = c.status
<1>1. CASE c.answered # NoTime
  <2>1. "ANSWERED" \in Statuses
    BY DEF Statuses
  <2>2. c = [c EXCEPT !.status = c.status]
    BY DEF Call
  <2>3. Rank(c.status) \in Int
    BY DEF Rank
  <2> QED
    BY <1>1, <2>1, <2>2, <2>3, AdvanceType, AdvanceForward DEF Finalise
<1>2. CASE c.answered = NoTime
  <2> DEFINE s == CASE e.from = "RECONCILER" -> "UNKNOWN"
                    [] e.from # "RECONCILER" /\ e.cause = NoCause -> "NO_ANSWER"
                    [] OTHER -> CauseStatus(e.cause)
  <2>1. s \in Statuses
    BY DEF CauseStatus, Statuses
  <2>2. Finalise(c, e) = Advance(c, s)
    BY <1>2 DEF Finalise
  <2> HIDE DEF s
  <2> QED
    BY <2>1, <2>2, AdvanceType, AdvanceForward
<1> QED
  BY <1>1, <1>2

\* What one event e may make of the row c: a Call d whose status moved forward only,
\* with each delivery fact and timestamp extended by exactly what e says.
Extends(c, e, d) ==
  /\ d \in Call
  /\ Rank(d.status) >= Rank(c.status)
  /\ c.status \in Terminal => d.status = c.status
  /\ d.played <=> c.played \/ e.kind = "PlaybackFinished"
  /\ d.ack <=> c.ack \/ (e.kind = "ChannelDtmfReceived" /\ e.value = "1")
  /\ d.optedOut <=> c.optedOut \/ (e.kind = "ChannelDtmfReceived" /\ e.value = "9")
  /\ d.answered = IF e.kind = "StasisStart" THEN Earliest(c.answered, e.at) ELSE c.answered
  /\ d.started = IF e.kind = "PlaybackStarted" THEN Earliest(c.started, e.at) ELSE c.started
  /\ d.ended = IF e.kind \in {"StasisEnd", "ChannelDestroyed"}
               THEN Earliest(c.ended, e.at) ELSE c.ended

\* Folding an event extends the row, whatever the event and whatever came before it.
LEMMA FoldExtends ==
  ASSUME NEW c \in Call, NEW e \in Event
  PROVE  Extends(c, e, Fold(c, e))
<1> DEFINE d == Fold(c, e)
<1> SUFFICES Extends(c, e, d)
  OBVIOUS
<1>1. Rank(c.status) \in Int
  BY DEF Rank
<1>2. CASE e.kind = "StasisStart"
  <2> DEFINE a == [c EXCEPT !.answered = Earliest(@, e.at)]
  <2>1. a \in Call
    BY DEF Call, Event, Earliest, Times, NoTime
  <2>2. d = Advance(a, "ANSWERED")
    BY <1>2 DEF Fold
  <2>3. "ANSWERED" \in Statuses
    BY DEF Statuses
  <2>4. d \in Call /\ d = [a EXCEPT !.status = d.status]
    BY <2>1, <2>2, <2>3, AdvanceType
  <2>5. Rank(d.status) >= Rank(a.status) /\ (a.status \in Terminal => d.status = a.status)
    BY <2>1, <2>2, <2>3, AdvanceForward
  <2> HIDE DEF d
  <2> QED
    BY <1>2, <2>4, <2>5 DEF Extends, Call
<1>3. CASE e.kind = "AmdResult"
  <2>1. "ANSWERED_MACHINE" \in Statuses
    BY DEF Statuses
  <2>2. d = c \/ d = Advance(c, "ANSWERED_MACHINE")
    BY <1>3 DEF Fold
  <2>3. CASE d = c
    BY <1>1, <1>3, <2>3 DEF Extends
  <2>4. CASE d = Advance(c, "ANSWERED_MACHINE")
    <3>1. d \in Call /\ d = [c EXCEPT !.status = d.status]
      BY <2>1, <2>4, AdvanceType
    <3>2. Rank(d.status) >= Rank(c.status) /\ (c.status \in Terminal => d.status = c.status)
      BY <2>1, <2>4, AdvanceForward
    <3> HIDE DEF d
    <3> QED
      BY <1>3, <3>1, <3>2 DEF Extends, Call
  <2> QED
    BY <2>2, <2>3, <2>4
<1>4. CASE e.kind = "ChannelDestroyed"
  <2> DEFINE h == Hangup(c, e)
  <2>1. h \in Call /\ h.status = c.status
    BY HangupType
  <2>2. d = Finalise(h, e)
    BY <1>4 DEF Fold
  <2>3. /\ d \in Call /\ d = [h EXCEPT !.status = d.status]
        /\ Rank(d.status) >= Rank(h.status)
        /\ h.status \in Terminal => d.status = h.status
    BY <2>1, <2>2, FinaliseForward
  <2>4. /\ h.played = c.played /\ h.ack = c.ack /\ h.optedOut = c.optedOut
        /\ h.answered = c.answered /\ h.started = c.started
        /\ h.ended = Earliest(c.ended, e.at)
    BY DEF Hangup, Call
  <2> HIDE DEF d, h
  <2> QED
    BY <1>4, <2>1, <2>3, <2>4 DEF Extends, Call
<1>5. CASE e.kind = "StasisEnd"
  <2>1. d = Hangup(c, e)
    BY <1>5 DEF Fold
  <2>2. d \in Call /\ d.status = c.status
    BY <2>1, HangupType
  <2> QED
    BY <1>1, <1>5, <2>1, <2>2 DEF Extends, Hangup, Call
<1>6. CASE e.kind = "PlaybackStarted"
  <2>1. d = [c EXCEPT !.started = Earliest(@, e.at)]
    BY <1>6 DEF Fold
  <2>2. Earliest(c.started, e.at) \in Times
    BY DEF Earliest, Call, Event, Times, NoTime
  <2> HIDE DEF d
  <2> QED
    BY <1>1, <1>6, <2>1, <2>2 DEF Extends, Call
<1>7. CASE e.kind = "PlaybackFinished"
  <2>1. d = [c EXCEPT !.played = TRUE]
    BY <1>7 DEF Fold
  <2>2. d \in Call /\ d.played
    BY <2>1 DEF Call
  <2>3. /\ d.status = c.status /\ d.ack = c.ack /\ d.optedOut = c.optedOut
        /\ d.answered = c.answered /\ d.started = c.started /\ d.ended = c.ended
    BY <2>1 DEF Call
  <2> HIDE DEF d
  <2> QED
    BY <1>1, <1>7, <2>2, <2>3 DEF Extends
<1>8. CASE e.kind = "ChannelDtmfReceived"
  <2>1. d = [c EXCEPT !.ack = @ \/ e.value = "1", !.optedOut = @ \/ e.value = "9"]
    BY <1>8 DEF Fold
  <2>2. d \in Call
    BY <2>1 DEF Call
  <2>3. d.ack <=> c.ack \/ e.value = "1"
    BY <2>1 DEF Call
  <2>4. d.optedOut <=> c.optedOut \/ e.value = "9"
    BY <2>1 DEF Call
  <2>5. /\ d.status = c.status /\ d.played = c.played
        /\ d.answered = c.answered /\ d.started = c.started /\ d.ended = c.ended
    BY <2>1 DEF Call
  <2> HIDE DEF d
  <2> QED
    BY <1>1, <1>8, <2>2, <2>3, <2>4, <2>5 DEF Extends
<1>9. CASE e.kind = "Originated"
  <2>1. d = c
    BY <1>9 DEF Fold
  <2> HIDE DEF d
  <2> QED
    BY <1>1, <1>9, <2>1 DEF Extends
<1> QED
  BY <1>2, <1>3, <1>4, <1>5, <1>6, <1>7, <1>8, <1>9 DEF Event, Kinds

\* The duration is computed beside the facts, never in place of one.
LEMMA DurationOnly ==
  ASSUME NEW c \in Call
  PROVE  /\ WithDuration(c) \in Call
         /\ WithDuration(c) = [c EXCEPT !.duration = WithDuration(c).duration]
BY DEF WithDuration, Call, Times, NoTime

\* apply_event extends the row.
LEMMA ApplyExtends ==
  ASSUME NEW c \in Call, NEW e \in Event
  PROVE  Extends(c, e, ApplyEvent(c, e))
<1> DEFINE f == Fold(c, e)
           d == WithDuration(f)
<1>1. Extends(c, e, f)
  BY FoldExtends
<1>2. f \in Call
  BY <1>1 DEF Extends
<1>3. d \in Call /\ d = [f EXCEPT !.duration = d.duration]
  BY <1>2, DurationOnly
<1>4. ApplyEvent(c, e) = d
  BY DEF ApplyEvent
<1>5. /\ d.status = f.status /\ d.played = f.played
      /\ d.ack = f.ack /\ d.optedOut = f.optedOut
      /\ d.answered = f.answered /\ d.started = f.started /\ d.ended = f.ended
  <2> HIDE DEF d, f
  <2> QED
    BY <1>2, <1>3 DEF Call
<1> HIDE DEF d, f
<1> QED
  BY <1>1, <1>3, <1>4, <1>5 DEF Extends

\* Taking the minimum with one more event keeps the earliest timestamp earliest.
LEMMA EarliestStep ==
  ASSUME NEW R \in SUBSET Event, NEW e \in Event, NEW t \in Times, NEW K,
         EarliestOf(t, K, R),
         NEW u, u = IF e.kind \in K THEN Earliest(t, e.at) ELSE t
  PROVE  EarliestOf(u, K, R \cup {e})
<1>1. e.at \in Nat /\ \A f \in R : f.at \in Nat
  BY DEF Event
<1>2. CASE e.kind \notin K
  BY <1>2 DEF EarliestOf
<1>3. CASE e.kind \in K /\ t = NoTime
  BY <1>1, <1>3 DEF EarliestOf, Earliest, NoTime
<1>4. CASE e.kind \in K /\ t # NoTime /\ e.at < t
  BY <1>1, <1>4 DEF EarliestOf, Earliest, NoTime, Times
<1>5. CASE e.kind \in K /\ t # NoTime /\ ~(e.at < t)
  BY <1>1, <1>5 DEF EarliestOf, Earliest, NoTime, Times
<1> QED
  BY <1>2, <1>3, <1>4, <1>5

\* Whoever changes the status has a reason for the status it gets.
Explains(c, e, s) ==
  \/ s = c.status
  \/ e.kind = "StasisStart" /\ s = "ANSWERED"
  \/ e.kind = "AmdResult" /\ e.value = "MACHINE" /\ s = "ANSWERED_MACHINE"
  \/ /\ e.kind = "ChannelDestroyed"
     /\ \/ s = "ANSWERED" /\ (c.answered # NoTime \/ e.cause = "NORMAL")
        \/ /\ c.answered = NoTime
           /\ \/ s = "UNKNOWN" /\ e.from = "RECONCILER"
              \/ s = "BUSY" /\ e.cause = "USER_BUSY"
              \/ s \in {"NO_ANSWER", "FAILED"}

\* _advance gives the status it is asked for, or leaves the one there is.
LEMMA AdvanceStatus ==
  ASSUME NEW c \in Call, NEW s \in Statuses
  PROVE  Advance(c, s).status \in {c.status, s}
BY DEF Advance, Call

\* Every status that folding an event gives is explained by the event, or by an answer before it.
LEMMA FoldExplained ==
  ASSUME NEW c \in Call, NEW e \in Event
  PROVE  Explains(c, e, Fold(c, e).status)
<1>1. {"ANSWERED", "ANSWERED_MACHINE", "UNKNOWN", "NO_ANSWER"} \subseteq Statuses
  BY DEF Statuses
<1>2. CASE e.kind = "StasisStart"
  <2> DEFINE a == [c EXCEPT !.answered = Earliest(@, e.at)]
  <2>1. a \in Call /\ a.status = c.status
    BY DEF Call, Event, Earliest, Times, NoTime
  <2>2. Fold(c, e) = Advance(a, "ANSWERED")
    BY <1>2 DEF Fold
  <2> HIDE DEF a
  <2> QED
    BY <1>1, <1>2, <2>1, <2>2, AdvanceStatus DEF Explains
<1>3. CASE e.kind = "AmdResult"
  <2>1. Fold(c, e) = IF e.value = "MACHINE" THEN Advance(c, "ANSWERED_MACHINE") ELSE c
    BY <1>3 DEF Fold
  <2> QED
    BY <1>1, <1>3, <2>1, AdvanceStatus DEF Explains
<1>4. CASE e.kind = "ChannelDestroyed"
  <2> DEFINE h == Hangup(c, e)
             s == CASE e.from = "RECONCILER" -> "UNKNOWN"
                    [] e.from # "RECONCILER" /\ e.cause = NoCause -> "NO_ANSWER"
                    [] OTHER -> CauseStatus(e.cause)
  <2>1. h \in Call /\ h.status = c.status /\ h.answered = c.answered
    BY HangupType
  <2>2. Fold(c, e) = Finalise(h, e)
    BY <1>4 DEF Fold
  <2>3. s \in Statuses
    BY DEF CauseStatus, Statuses
  <2>4. c.answered = NoTime => Explains(c, e, s)
    BY <1>4 DEF Explains, CauseStatus
  <2>5. \/ Finalise(h, e) = h
        \/ h.answered # NoTime /\ Finalise(h, e) = Advance(h, "ANSWERED")
        \/ h.answered = NoTime /\ Finalise(h, e) = Advance(h, s)
    BY DEF Finalise
  <2> HIDE DEF h, s
  <2> QED
    BY <1>1, <1>4, <2>1, <2>2, <2>3, <2>4, <2>5, AdvanceStatus DEF Explains
<1>5. CASE e.kind \notin {"StasisStart", "AmdResult", "ChannelDestroyed"}
  <2>1. Fold(c, e).status = c.status
    BY <1>5 DEF Fold, Hangup, Call, Event, Kinds
  <2> QED
    BY <2>1 DEF Explains
<1> QED
  BY <1>2, <1>3, <1>4, <1>5

---------------------------------------------------------------------------
(* apply_event as a whole.                                                 *)

\* The status is the fold's, explained by the event or by an answer before it.
LEMMA ApplyExplained ==
  ASSUME NEW c \in Call, NEW e \in Event
  PROVE  Explains(c, e, ApplyEvent(c, e).status)
<1>1. Fold(c, e) \in Call
  BY FoldExtends DEF Extends
<1>2. \A d \in Call : WithDuration(d).status = d.status
  BY DEF WithDuration, Call
<1>3. ApplyEvent(c, e).status = Fold(c, e).status
  BY <1>1, <1>2 DEF ApplyEvent
<1> QED
  BY <1>3, FoldExplained

\* A row that an answer is folded into is past dialling.
LEMMA AnswerSettles ==
  ASSUME NEW c \in Call, NEW e \in Event, e.kind = "StasisStart"
  PROVE  IsTerminal(ApplyEvent(c, e).status)
<1> DEFINE a == [c EXCEPT !.answered = Earliest(@, e.at)]
<1>1. a \in Call
  BY DEF Call, Event, Earliest, Times, NoTime
<1>2. Fold(c, e) = Advance(a, "ANSWERED")
  BY DEF Fold
<1>3. "ANSWERED" \in Statuses
  BY DEF Statuses
<1> HIDE DEF a
<1>4. Fold(c, e) \in Call /\ IsTerminal(Fold(c, e).status)
  BY <1>1, <1>2, <1>3, AdvanceType DEF Advance, Rank, IsTerminal, Call, Terminal
<1>5. \A d \in Call : WithDuration(d).status = d.status
  BY DEF WithDuration, Call
<1> QED
  BY <1>4, <1>5 DEF ApplyEvent

\* A hangup's cause is kept until a later one names another.
LEMMA ApplyCause ==
  ASSUME NEW c \in Call, NEW e \in Event
  PROVE  ApplyEvent(c, e).cause =
           IF e.kind \in {"StasisEnd", "ChannelDestroyed"} /\ e.cause # NoCause
           THEN e.cause ELSE c.cause
<1>1. Fold(c, e) \in Call
  BY FoldExtends DEF Extends
<1>2. \A d \in Call : WithDuration(d).cause = d.cause
  BY DEF WithDuration, Call
<1>3. ApplyEvent(c, e).cause = Fold(c, e).cause
  BY <1>1, <1>2 DEF ApplyEvent
<1>4. \A d \in Call, s \in Statuses : Advance(d, s).cause = d.cause
  BY DEF Advance, Call
<1>5. CASE e.kind = "ChannelDestroyed"
  <2> DEFINE h == Hangup(c, e)
  <2>0. h \in Call
    BY HangupType
  <2>1. h.cause = IF e.cause = NoCause THEN c.cause ELSE e.cause
    BY DEF Hangup, Call
  <2>2. Fold(c, e) = Finalise(h, e)
    BY <1>5 DEF Fold
  <2>3. Finalise(h, e) = [h EXCEPT !.status = Finalise(h, e).status]
    BY <2>0, FinaliseForward
  <2>4. Finalise(h, e).cause = h.cause
    <3> HIDE DEF h
    <3> QED
      BY <2>0, <2>3 DEF Call
  <2> HIDE DEF h
  <2> QED
    BY <1>3, <1>5, <2>1, <2>2, <2>4
<1>6. CASE e.kind = "StasisEnd"
  BY <1>3, <1>6 DEF Fold, Hangup, Call
<1>7. CASE e.kind = "StasisStart"
  <2> DEFINE a == [c EXCEPT !.answered = Earliest(@, e.at)]
  <2>1. a \in Call /\ a.cause = c.cause
    BY DEF Call, Event, Earliest, Times, NoTime
  <2>2. Fold(c, e) = Advance(a, "ANSWERED") /\ "ANSWERED" \in Statuses
    BY <1>7 DEF Fold, Statuses
  <2> HIDE DEF a
  <2> QED
    BY <1>3, <1>4, <1>7, <2>1, <2>2
<1>8. CASE e.kind = "AmdResult"
  <2>1. Fold(c, e) \in {c, Advance(c, "ANSWERED_MACHINE")} /\ "ANSWERED_MACHINE" \in Statuses
    BY <1>8 DEF Fold, Statuses
  <2> QED
    BY <1>3, <1>4, <1>8, <2>1
<1>9. CASE e.kind \notin {"StasisStart", "AmdResult", "StasisEnd", "ChannelDestroyed"}
  BY <1>3, <1>9 DEF Fold, Call
<1> QED
  BY <1>5, <1>6, <1>7, <1>8, <1>9

\* The facts of a row and of its log grow together.
LEMMA FactsStep ==
  ASSUME NEW c \in Call, NEW R \in SUBSET Event, NEW e \in Event, FactsAgree(c, R)
  PROVE  FactsAgree(ApplyEvent(c, e), R \cup {e})
<1> DEFINE d == ApplyEvent(c, e)
<1>1. Extends(c, e, d)
  BY ApplyExtends
<1>2. c.answered \in Times /\ c.started \in Times /\ c.ended \in Times
  BY DEF Call
<1> HIDE DEF d
<1>3. PlayedIsLogged(d, R \cup {e})
  BY <1>1 DEF FactsAgree, PlayedIsLogged, Extends
<1>4. KeypressIsLogged(d, R \cup {e})
  BY <1>1 DEF FactsAgree, KeypressIsLogged, Extends
<1>5. TimesAreEarliest(d, R \cup {e})
  <2>1. EarliestOf(d.answered, {"StasisStart"}, R \cup {e})
    BY <1>1, <1>2, EarliestStep DEF FactsAgree, TimesAreEarliest, Extends
  <2>2. EarliestOf(d.started, {"PlaybackStarted"}, R \cup {e})
    BY <1>1, <1>2, EarliestStep DEF FactsAgree, TimesAreEarliest, Extends
  <2>3. EarliestOf(d.ended, {"StasisEnd", "ChannelDestroyed"}, R \cup {e})
    BY <1>1, <1>2, EarliestStep DEF FactsAgree, TimesAreEarliest, Extends
  <2> QED
    BY <2>1, <2>2, <2>3 DEF TimesAreEarliest
<1> QED
  BY <1>3, <1>4, <1>5 DEF FactsAgree, d

\* The status is no fact: whoever writes it leaves the agreement as it is.
LEMMA FactsWithoutStatus ==
  ASSUME NEW c \in Call, NEW d \in Call, NEW R, FactsAgree(c, R),
         d.played = c.played, d.ack = c.ack, d.optedOut = c.optedOut,
         d.answered = c.answered, d.started = c.started, d.ended = c.ended
  PROVE  FactsAgree(d, R)
BY DEF FactsAgree, PlayedIsLogged, KeypressIsLogged, TimesAreEarliest

\* Neither is an event that the projection does not read.
LEMMA FactsOfOther ==
  ASSUME NEW c, NEW R, NEW e, FactsAgree(c, R), e.kind = "Originated"
  PROVE  FactsAgree(c, R \cup {e})
<1>1. PlayedIsLogged(c, R \cup {e}) /\ KeypressIsLogged(c, R \cup {e})
  BY DEF FactsAgree, PlayedIsLogged, KeypressIsLogged
<1>2. \A K : "Originated" \notin K => \A t : EarliestOf(t, K, R) => EarliestOf(t, K, R \cup {e})
  BY DEF EarliestOf
<1>3. TimesAreEarliest(c, R \cup {e})
  BY <1>2 DEF FactsAgree, TimesAreEarliest
<1> QED
  BY <1>1, <1>3 DEF FactsAgree
============================================================================
