-------------------------- MODULE EventLog_proofs --------------------------
(***************************************************************************)
(* What holds of the projection for every call, every event and every      *)
(* stream of events, whatever its length and order.                        *)
(***************************************************************************)
EXTENDS EventLog, Projection_proofs, FiniteSetTheorems, WellFoundedInduction

\* Appending an event adds it to the recorded set and nothing else.
LEMMA RecordedAppend ==
  ASSUME NEW s \in Seq(Event), NEW e \in Event
  PROVE  /\ Append(s, e) \in Seq(Event)
         /\ Recorded(Append(s, e)) = Recorded(s) \cup {e}
<1>1. Append(s, e) \in Seq(Event)
  OBVIOUS
<1>2. ASSUME NEW x \in Recorded(Append(s, e)) PROVE x \in Recorded(s) \cup {e}
  <2>1. PICK i \in DOMAIN Append(s, e) : x = Append(s, e)[i]
    BY <1>2 DEF Recorded
  <2>2. CASE i = Len(s) + 1
    BY <2>1, <2>2
  <2>3. CASE i # Len(s) + 1
    <3>1. i \in DOMAIN s /\ x = s[i]
      BY <2>1, <2>3
    <3> QED
      BY <3>1 DEF Recorded
  <2> QED
    BY <2>2, <2>3
<1>3. ASSUME NEW x \in Recorded(s) PROVE x \in Recorded(Append(s, e))
  <2>1. PICK i \in DOMAIN s : x = s[i]
    BY <1>3 DEF Recorded
  <2>2. i \in DOMAIN Append(s, e) /\ Append(s, e)[i] = x
    BY <2>1
  <2> QED
    BY <2>2 DEF Recorded
<1>4. e \in Recorded(Append(s, e))
  <2>1. Len(s) + 1 \in DOMAIN Append(s, e) /\ Append(s, e)[Len(s) + 1] = e
    OBVIOUS
  <2> QED
    BY <2>1 DEF Recorded
<1> QED
  BY <1>1, <1>2, <1>3, <1>4

\* The row is always a Call and the log a sequence of events.
THEOREM TypeCorrect == Spec => []TypeOK
<1>1. Init => TypeOK
  <2>1. NewCall \in Call
    BY DEF NewCall, Call, Statuses, Times, NoTime
  <2>2. Init => row \in Call
    <3> HIDE DEF NewCall
    <3> QED
      BY <2>1 DEF Init, Call, Statuses
  <2> QED
    BY <2>2 DEF Init, TypeOK
<1>2. TypeOK /\ [Ingest]_vars => TypeOK'
  <2> SUFFICES ASSUME TypeOK, [Ingest]_vars PROVE TypeOK'
    OBVIOUS
  <2>1. CASE UNCHANGED vars
    BY <2>1 DEF TypeOK, vars
  <2>2. ASSUME NEW e \in Events, Append_(e) PROVE TypeOK'
    <3>1. e \in Event
      BY EventsAssumption
    <3>2. row' \in Call
      BY <2>2, <3>1, ApplyExtends DEF Append_, TypeOK, Extends
    <3> QED
      BY <2>2, <3>1, <3>2, RecordedAppend DEF Append_, TypeOK
  <2> QED
    BY <2>1, <2>2 DEF Ingest, Ignore
<1> QED
  BY <1>1, <1>2, PTL DEF Spec

\* Status advances and never reopens, for every event in every order: the rank never
\* drops, and the first terminal outcome recorded is the one that stays.
THEOREM StatusForwardOnly == Spec => ForwardOnly
<1>1. ASSUME TypeOK, [Ingest]_vars
      PROVE  [ /\ Rank(row'.status) >= Rank(row.status)
               /\ row.status \in Terminal => row'.status = row.status ]_vars
  <2>1. CASE UNCHANGED vars
    BY <2>1
  <2>2. ASSUME NEW e \in Events, Append_(e)
        PROVE  /\ Rank(row'.status) >= Rank(row.status)
               /\ row.status \in Terminal => row'.status = row.status
    BY <1>1, <2>2, EventsAssumption, ApplyExtends DEF Append_, TypeOK, Extends
  <2> QED
    BY <1>1, <2>1, <2>2 DEF Ingest, Ignore
<1> QED
  BY <1>1, TypeCorrect, PTL DEF Spec, ForwardOnly

\* Order independence of what the law cares about: after any stream of events, late,
\* duplicated or reordered, the delivery facts and the timestamps are those of the set
\* of recorded events.
THEOREM FactsFromLog == Spec => []FactsAreTheLog
<1>1. Init => FactsAreTheLog
  <2>1. Init => Recorded(log) = {}
    BY DEF Init, Recorded
  <2>2. Init => /\ row.answered = NoTime /\ row.started = NoTime /\ row.ended = NoTime
                /\ ~row.played /\ ~row.ack /\ ~row.optedOut
    BY DEF Init, NewCall
  <2> QED
    BY <2>1, <2>2 DEF FactsAreTheLog, FactsAgree, PlayedIsLogged, KeypressIsLogged,
                      TimesAreEarliest, EarliestOf
<1>2. TypeOK /\ FactsAreTheLog /\ [Ingest]_vars => FactsAreTheLog'
  <2> SUFFICES ASSUME TypeOK, FactsAreTheLog, [Ingest]_vars PROVE FactsAreTheLog'
    OBVIOUS
  <2>1. CASE UNCHANGED vars
    BY <2>1 DEF FactsAreTheLog, FactsAgree, PlayedIsLogged, KeypressIsLogged, TimesAreEarliest,
                EarliestOf,
                Recorded, vars
  <2>2. ASSUME NEW e \in Events, Append_(e) PROVE FactsAreTheLog'
    <3> DEFINE R == Recorded(log)
    <3>1. e \in Event /\ row \in Call /\ log \in Seq(Event)
      BY EventsAssumption DEF TypeOK
    <3>2. R \in SUBSET Event
      BY <3>1 DEF Recorded
    <3>3. Recorded(log') = R \cup {e}
      BY <2>2, <3>1, RecordedAppend DEF Append_
    <3> QED
      BY <2>2, <3>1, <3>2, <3>3, FactsStep DEF Append_, FactsAreTheLog, R
  <2> QED
    BY <2>1, <2>2 DEF Ingest, Ignore
<1> QED
  BY <1>1, <1>2, TypeCorrect, PTL DEF Spec

\* No unanswered outcome is claimed without the recorded events that support it, after any
\* stream of events.  The times are needed: a terminal outcome is given only to a row
\* without an answer time, and then no answer is in the log before the hangup.
THEOREM OutcomeFromEvidence == Spec => []OutcomeHasEvidence
<1>1. Init => OutcomeHasEvidence
  BY DEF Init, OutcomeHasEvidence, NewCall, Terminal
<1>2. TypeOK /\ FactsAreTheLog /\ OutcomeHasEvidence /\ [Ingest]_vars => OutcomeHasEvidence'
  <2> SUFFICES ASSUME TypeOK, FactsAreTheLog, OutcomeHasEvidence, [Ingest]_vars
               PROVE  OutcomeHasEvidence'
    OBVIOUS
  <2>1. CASE UNCHANGED vars
    BY <2>1 DEF OutcomeHasEvidence, vars
  <2>2. ASSUME NEW e \in Events, Append_(e) PROVE OutcomeHasEvidence'
    <3> DEFINE R == Recorded(log)
    <3>1. row \in Call /\ e \in Event /\ log \in Seq(Event)
      BY EventsAssumption DEF TypeOK
    <3>2. Recorded(log') = R \cup {e}
      BY <2>2, <3>1, RecordedAppend DEF Append_
    <3>3. /\ Len(log) \in Nat /\ DOMAIN log = 1 .. Len(log) /\ DOMAIN log' = 1 .. Len(log) + 1
          /\ log'[Len(log) + 1] = e /\ \A i \in DOMAIN log : log'[i] = log[i]
      BY <2>2, <3>1 DEF Append_
    <3>4. row.answered = NoTime => \A j \in DOMAIN log : log[j].kind # "StasisStart"
      BY DEF FactsAreTheLog, FactsAgree, TimesAreEarliest, EarliestOf, Recorded
    <3>5. Explains(row, e, row'.status)
      BY <2>2, <3>1, ApplyExplained DEF Append_
    <3>6. row'.status \in Terminal =>
            \E i \in DOMAIN log' : /\ log'[i].kind = "ChannelDestroyed"
                                   /\ \A j \in 1 .. i - 1 : log'[j].kind # "StasisStart"
      <4>1. CASE row.status \in Terminal
        <5> PICK i \in DOMAIN log : /\ log[i].kind = "ChannelDestroyed"
                                    /\ \A j \in 1 .. i - 1 : log[j].kind # "StasisStart"
          BY <4>1 DEF OutcomeHasEvidence
        <5>1. i \in DOMAIN log' /\ \A j \in 1 .. i - 1 : j \in DOMAIN log
          BY <3>3
        <5> QED BY <3>3, <5>1
      <4>2. CASE row.status \notin Terminal /\ row'.status \in Terminal
        <5>1. e.kind = "ChannelDestroyed" /\ row.answered = NoTime
          BY <3>5, <4>2 DEF Explains, Terminal
        <5>2. Len(log) + 1 \in DOMAIN log' /\ \A j \in 1 .. (Len(log) + 1) - 1 : j \in DOMAIN log
          BY <3>3
        <5> QED BY <3>3, <3>4, <5>1, <5>2
      <4> QED BY <4>1, <4>2
    <3> HIDE DEF R
    <3> QED
      BY <3>2, <3>5, <3>6 DEF OutcomeHasEvidence, Explains, Terminal, R
  <2> QED
    BY <2>1, <2>2 DEF Ingest, Ignore
<1> QED
  BY <1>1, <1>2, TypeCorrect, FactsFromLog, PTL DEF Spec
---------------------------------------------------------------------------
(* Folding a finite set, an element at a time.                             *)

\* A set of numbers with 0 that has with every number the next one has them all.
LEMMA Numbers ==
  ASSUME NEW N, 0 \in N, \A n \in Nat : n \in N => n + 1 \in N
  PROVE  Nat \subseteq N
<1> SUFFICES ASSUME Nat \ N # {} PROVE FALSE
  OBVIOUS
<1>1. PICK m \in Nat \ N : \A n \in Nat \ N : ~ (<<n, m>> \in OpToRel(<, Nat))
  BY WFMin, NatLessThanWellFounded
<1>2. \A n \in Nat \ N : ~ (n < m)
  BY <1>1 DEF OpToRel
<1>3. m # 0 /\ m - 1 \in Nat /\ m - 1 < m
  OBVIOUS
<1>4. m - 1 \in N
  BY <1>2, <1>3
<1>5. (m - 1) + 1 \in N
  BY <1>3, <1>4
<1> QED
  BY <1>5

\* r is the fold of the subsets of S with g, from base on, the element first[s] of s last.
FoldOf(r, S, base, g, first) ==
  \A s \in SUBSET S : r[s] = IF s = {} THEN base ELSE g[first[s]][r[s \ {first[s]}]]

\* first picks an element of every subset of S that has one.
Picks(first, S) == \A s \in SUBSET S : s # {} => first[s] \in s

\* What holds of the empty set, and of a set once it holds without one of its elements,
\* holds of every subset of a finite set.
LEMMA Subsets ==
  ASSUME NEW S, IsFiniteSet(S), NEW first, Picks(first, S), NEW G, {} \in G,
         \A s \in SUBSET S : s # {} /\ s \ {first[s]} \in G => s \in G
  PROVE  \A s \in SUBSET S : s \in G
<1> DEFINE N == {n \in Nat : \A s \in SUBSET S : Cardinality(s) = n => s \in G}
<1>1. \A s \in SUBSET S : IsFiniteSet(s) /\ Cardinality(s) \in Nat
  BY FS_Subset, FS_CardinalityType
<1>2. 0 \in N
  BY <1>1, FS_EmptySet
<1>3. ASSUME NEW n \in Nat, n \in N PROVE n + 1 \in N
  <2>1. ASSUME NEW s \in SUBSET S, Cardinality(s) = n + 1 PROVE s \in G
    <3>1. s # {}
      <4> SUFFICES ASSUME s = {} PROVE FALSE
        OBVIOUS
      <4>1. Cardinality(s) = 0
        BY FS_EmptySet
      <4> QED
        BY <2>1, <4>1
    <3>2. first[s] \in s
      BY <3>1 DEF Picks
    <3>3. Cardinality(s \ {first[s]}) = n
      <4> DEFINE x == first[s]
      <4>1. Cardinality(s \ {x}) = Cardinality(s) - 1
        <5> HIDE DEF x
        <5>1. x \in s
          BY <3>2 DEF x
        <5> QED
          BY <1>1, <5>1, FS_RemoveElement
      <4> QED
        BY <2>1, <4>1
    <3>4. s \ {first[s]} \in G
      BY <1>3, <3>3
    <3> QED
      BY <3>1, <3>4
  <2> QED
    BY <2>1
<1>4. Nat \subseteq N
  <2> HIDE DEF N
  <2> QED
    BY <1>2, <1>3, Numbers
<1> QED
  BY <1>1, <1>4

\* Every fold exists: the folds of n elements give those of n + 1.
LEMMA FoldExists ==
  ASSUME NEW S, IsFiniteSet(S), NEW first, Picks(first, S),
         NEW V, NEW base \in V, NEW g \in [S -> [V -> V]]
  PROVE  \E r \in [SUBSET S -> V] : FoldOf(r, S, base, g, first)
<1> DEFINE Step(r, s) == IF s = {} THEN base ELSE g[first[s]][r[s \ {first[s]}]]
           Good(r, n) == \A s \in SUBSET S : Cardinality(s) <= n => r[s] = Step(r, s)
           N == {n \in Nat : \E r \in [SUBSET S -> V] : Good(r, n)}
<1>1. \A s \in SUBSET S : IsFiniteSet(s) /\ Cardinality(s) \in Nat
  BY FS_Subset, FS_CardinalityType
<1>2. \A s \in SUBSET S : s # {} => first[s] \in s /\ first[s] \in S /\ s \ {first[s]} \in SUBSET S
  BY DEF Picks
<1>3. ASSUME NEW r \in [SUBSET S -> V], NEW s \in SUBSET S PROVE Step(r, s) \in V
  BY <1>2
<1>4. 0 \in N
  <2> DEFINE r == [s \in SUBSET S |-> base]
  <2>1. \A s \in SUBSET S : Cardinality(s) <= 0 => s = {}
    BY <1>1, FS_EmptySet
  <2>2. r \in [SUBSET S -> V] /\ Good(r, 0)
    BY <2>1
  <2> HIDE DEF r, Good
  <2> QED
    BY <2>2
<1>5. ASSUME NEW n \in Nat, n \in N PROVE n + 1 \in N
  <2>1. PICK r \in [SUBSET S -> V] : Good(r, n)
    BY <1>5
  <2> DEFINE q == [s \in SUBSET S |-> Step(r, s)]
  <2>2. q \in [SUBSET S -> V]
    <3> HIDE DEF Step
    <3> QED
      BY <1>3
  <2>3. ASSUME NEW s \in SUBSET S, Cardinality(s) <= n + 1 PROVE q[s] = Step(q, s)
    <3>1. CASE s = {}
      BY <3>1
    <3>2. CASE s # {}
      <4> DEFINE t == s \ {first[s]}
      <4>1. t \in SUBSET S /\ first[s] \in s
        BY <1>2, <3>2
      <4>2. Cardinality(t) <= n
        <5>1. PICK x \in s : x = first[s]
          BY <4>1
        <5>2. Cardinality(s \ {x}) = Cardinality(s) - 1
          BY <1>1, FS_RemoveElement
        <5> QED
          BY <1>1, <2>3, <5>1, <5>2
      <4>3. q[t] = r[t]
        <5> HIDE DEF Step, t
        <5> QED
          BY <2>1, <4>1, <4>2
      <4>4. q[s] = g[first[s]][r[t]] /\ Step(q, s) = g[first[s]][q[t]]
        BY <3>2
      <4> QED
        BY <4>3, <4>4
    <3> QED
      BY <3>1, <3>2
  <2>4. Good(q, n + 1)
    <3> HIDE DEF q, Step
    <3> QED
      BY <2>3
  <2> HIDE DEF q, Good
  <2> QED
    BY <2>2, <2>4
<1>6. Nat \subseteq N
  <2> HIDE DEF N
  <2> QED
    BY <1>4, <1>5, Numbers
<1>7. Cardinality(S) \in N /\ \A s \in SUBSET S : Cardinality(s) <= Cardinality(S)
  BY <1>1, <1>6, FS_Subset
<1>8. PICK r \in [SUBSET S -> V] : \A s \in SUBSET S : r[s] = Step(r, s)
  BY <1>7
<1> QED
  BY <1>8 DEF FoldOf
---------------------------------------------------------------------------
(* Events whose order does not matter.                                     *)

\* No verdict and no destruction, one beginning and one end: the events of a call before
\* its channel is destroyed, when nothing is reported twice.
Calm(R) == /\ \A e \in R : e.kind \notin {"AmdResult", "ChannelDestroyed"}
           /\ \A e, f \in R : e.kind = f.kind /\ e.kind \in {"StasisStart", "StasisEnd"} => e = f

\* How long a call lasted, when both of its ends are known.
Lasted(c) == IF c.answered = NoTime \/ c.ended = NoTime THEN NoTime
             ELSE IF c.ended > c.answered THEN c.ended - c.answered ELSE 0

\* The row c is what calm events make of a call that was dialled.
Projects(c, R) ==
  /\ c \in Call /\ c.originated /\ FactsAgree(c, R) /\ c.duration = Lasted(c)
  /\ c.status = IF \E e \in R : e.kind = "StasisStart" THEN "ANSWERED" ELSE "DIALING"
  /\ \A e \in R : e.kind = "StasisEnd" => c.cause = e.cause
  /\ (\A e \in R : e.kind # "StasisEnd") => c.cause = NoCause

\* The columns that no lemma of Projection_proofs speaks of: nobody writes originated, and
\* the duration is filled in once, from the times.
LEMMA OtherColumns ==
  ASSUME NEW c \in Call, NEW e \in Event
  PROVE  LET d == ApplyEvent(c, e) IN
         /\ d.originated = c.originated
         /\ d.duration = IF c.duration = NoTime THEN Lasted(d) ELSE c.duration
<1> DEFINE f == Fold(c, e)
           d == WithDuration(f)
<1>1. f \in Call
  BY FoldExtends DEF Extends
<1>2. f.originated = c.originated /\ f.duration = c.duration
  <2>1. \A b \in Call, s \in Statuses : /\ Advance(b, s).originated = b.originated
                                        /\ Advance(b, s).duration = b.duration
    BY DEF Advance, Call
  <2>2. {"ANSWERED", "ANSWERED_MACHINE"} \subseteq Statuses
    BY DEF Statuses
  <2>3. CASE e.kind = "StasisStart"
    <3> DEFINE a == [c EXCEPT !.answered = Earliest(@, e.at)]
    <3>1. a \in Call /\ a.originated = c.originated /\ a.duration = c.duration
      BY DEF Call, Event, Earliest, Times, NoTime
    <3>2. f = Advance(a, "ANSWERED")
      BY <2>3 DEF Fold
    <3> HIDE DEF a, f
    <3> QED
      BY <2>1, <2>2, <3>1, <3>2
  <2>4. CASE e.kind = "AmdResult"
    <3>1. f \in {c, Advance(c, "ANSWERED_MACHINE")}
      BY <2>4 DEF Fold
    <3> HIDE DEF f
    <3> QED
      BY <2>1, <2>2, <3>1
  <2>5. CASE e.kind = "ChannelDestroyed"
    <3> DEFINE h == Hangup(c, e)
    <3>1. h \in Call /\ h.originated = c.originated /\ h.duration = c.duration
      <4>1. h \in Call
        BY HangupType
      <4> QED
        BY <4>1 DEF Hangup, Call
    <3>2. f = Finalise(h, e)
      BY <2>5 DEF Fold
    <3>3. Finalise(h, e) = [h EXCEPT !.status = Finalise(h, e).status]
      BY <3>1, FinaliseForward
    <3> HIDE DEF h, f
    <3> QED
      BY <3>1, <3>2, <3>3 DEF Call
  <2>6. CASE e.kind \notin {"StasisStart", "AmdResult", "ChannelDestroyed"}
    BY <2>6 DEF Fold, Hangup, Call
  <2> QED
    BY <2>3, <2>4, <2>5, <2>6
<1>3. /\ d.originated = f.originated
      /\ d.answered = f.answered /\ d.ended = f.ended
      /\ d.duration = IF f.duration = NoTime THEN Lasted(f) ELSE f.duration
  <2> HIDE DEF f
  <2> QED
    BY <1>1 DEF WithDuration, Call, Lasted
<1>4. Lasted(d) = Lasted(f)
  BY <1>3 DEF Lasted
<1>5. ApplyEvent(c, e) = d
  BY DEF ApplyEvent
<1> HIDE DEF d, f
<1> QED
  BY <1>2, <1>3, <1>4, <1>5

\* Without a verdict or a destruction, an answer is all that moves the status.
LEMMA CalmStatus ==
  ASSUME NEW c \in Call, NEW e \in Event, c.status \in {"DIALING", "ANSWERED"},
         e.kind \notin {"AmdResult", "ChannelDestroyed"}
  PROVE  ApplyEvent(c, e).status = IF e.kind = "StasisStart" THEN "ANSWERED" ELSE c.status
<1>1. Fold(c, e) \in Call
  BY FoldExtends DEF Extends
<1>2. \A d \in Call : WithDuration(d).status = d.status
  BY DEF WithDuration, Call
<1>3. ApplyEvent(c, e).status = Fold(c, e).status
  BY <1>1, <1>2 DEF ApplyEvent
<1>4. CASE e.kind = "StasisStart"
  <2> DEFINE a == [c EXCEPT !.answered = Earliest(@, e.at)]
  <2>1. a \in Call /\ a.status = c.status
    BY DEF Call, Event, Earliest, Times, NoTime
  <2>2. Fold(c, e) = Advance(a, "ANSWERED")
    BY <1>4 DEF Fold
  <2>3. Advance(a, "ANSWERED").status = "ANSWERED"
    <3> HIDE DEF a
    <3> QED
      BY <2>1 DEF Advance, Rank, Terminal, Call
  <2> QED
    BY <1>3, <1>4, <2>2, <2>3
<1>5. CASE e.kind # "StasisStart"
  BY <1>3, <1>5 DEF Fold, Hangup, Call
<1> QED
  BY <1>4, <1>5

\* One more calm event.  The duration stays what it was once both times are known, because
\* there is no second event that could move either.
LEMMA ProjectsStep ==
  ASSUME NEW c, NEW R \in SUBSET Event, NEW e \in Event, Projects(c, R), Calm(R \cup {e})
  PROVE  Projects(ApplyEvent(c, e), R \cup {e})
<1> DEFINE d == ApplyEvent(c, e)
<1>1. c \in Call /\ FactsAgree(c, R) /\ e.kind \notin {"AmdResult", "ChannelDestroyed"}
  BY DEF Projects, Calm
<1>2. /\ Extends(c, e, d) /\ FactsAgree(d, R \cup {e})
      /\ d.originated = c.originated
      /\ d.duration = (IF c.duration = NoTime THEN Lasted(d) ELSE c.duration)
      /\ d.cause = IF e.kind \in {"StasisEnd", "ChannelDestroyed"} /\ e.cause # NoCause
                   THEN e.cause ELSE c.cause
  BY <1>1, ApplyExtends, FactsStep, OtherColumns, ApplyCause
<1>3. d.status = IF e.kind = "StasisStart" THEN "ANSWERED" ELSE c.status
  BY <1>1, CalmStatus DEF Projects
<1> HIDE DEF d
<1>4. d.duration = Lasted(d)
  <2>1. CASE c.duration = NoTime
    BY <1>2, <2>1
  <2>2. CASE c.duration # NoTime
    <3>1. c.answered # NoTime /\ c.ended # NoTime /\ c.duration = Lasted(c)
      BY <2>2 DEF Projects, Lasted
    <3>2. PICK a \in R : a.kind = "StasisStart" /\ a.at = c.answered
      BY <1>1, <3>1 DEF FactsAgree, TimesAreEarliest, EarliestOf
    <3>3. PICK z \in R : z.kind \in {"StasisEnd", "ChannelDestroyed"} /\ z.at = c.ended
      BY <1>1, <3>1 DEF FactsAgree, TimesAreEarliest, EarliestOf
    <3>4. (e.kind = "StasisStart" => e = a) /\ (e.kind = "StasisEnd" => e = z)
      BY <3>2, <3>3 DEF Calm
    <3>5. d.answered = c.answered /\ d.ended = c.ended
      BY <1>1, <1>2, <3>2, <3>3, <3>4 DEF Extends, Earliest
    <3> QED
      BY <1>2, <2>2, <3>1, <3>5 DEF Lasted
  <2> QED
    BY <2>1, <2>2
<1>5. d.status = IF \E f \in R \cup {e} : f.kind = "StasisStart" THEN "ANSWERED" ELSE "DIALING"
  BY <1>3 DEF Projects
<1>6. \A f \in R \cup {e} : f.kind = "StasisEnd" => d.cause = f.cause
  <2> SUFFICES ASSUME NEW f \in R \cup {e}, f.kind = "StasisEnd" PROVE d.cause = f.cause
    OBVIOUS
  <2>1. CASE e.kind = "StasisEnd"
    <3>1. f = e
      BY <2>1 DEF Calm
    <3>2. c.cause = e.cause \/ c.cause = NoCause
      BY <2>1 DEF Projects, Calm
    <3> QED
      BY <1>2, <2>1, <3>1, <3>2
  <2>2. CASE e.kind # "StasisEnd"
    <3>1. f \in R
      BY <2>2
    <3> QED
      BY <1>1, <1>2, <2>2, <3>1 DEF Projects
  <2> QED
    BY <2>1, <2>2
<1>7. (\A f \in R \cup {e} : f.kind # "StasisEnd") => d.cause = NoCause
  BY <1>1, <1>2 DEF Projects
<1>8. d \in Call /\ d.originated
  BY <1>2 DEF Extends, Projects
<1>9. Projects(d, R \cup {e})
  BY <1>2, <1>4, <1>5, <1>6, <1>7, <1>8 DEF Projects
<1> QED
  BY <1>9 DEF d

\* The events alone decide the row, in whatever order they were folded.
LEMMA ProjectsUnique ==
  ASSUME NEW R \in SUBSET Event, NEW c, NEW d, Projects(c, R), Projects(d, R)
  PROVE  c = d
<1>1. c \in Call /\ d \in Call /\ FactsAgree(c, R) /\ FactsAgree(d, R)
  BY DEF Projects
<1>2. ASSUME NEW t \in Times, NEW u \in Times, NEW K, EarliestOf(t, K, R), EarliestOf(u, K, R)
      PROVE  t = u
  BY <1>2 DEF EarliestOf, Times, NoTime
<1>3. c.answered \in Times /\ c.started \in Times /\ c.ended \in Times
      /\ d.answered \in Times /\ d.started \in Times /\ d.ended \in Times
  BY <1>1 DEF Call
<1>4. c.answered = d.answered /\ c.started = d.started /\ c.ended = d.ended
  BY <1>1, <1>2, <1>3 DEF FactsAgree, TimesAreEarliest
<1>5. c.played = d.played
  <2>1. c.played \in BOOLEAN /\ d.played \in BOOLEAN
    BY <1>1 DEF Call
  <2> QED
    BY <1>1, <2>1, Zenon DEF FactsAgree, PlayedIsLogged
<1>6. c.ack = d.ack /\ c.optedOut = d.optedOut
  <2>1. c.ack \in BOOLEAN /\ d.ack \in BOOLEAN /\ c.optedOut \in BOOLEAN /\ d.optedOut \in BOOLEAN
    BY <1>1 DEF Call
  <2> QED
    BY <1>1, <2>1 DEF FactsAgree, KeypressIsLogged
<1>7. c.originated = d.originated
  <2>1. c.originated \in BOOLEAN /\ d.originated \in BOOLEAN
    BY <1>1 DEF Call
  <2> QED
    BY <2>1 DEF Projects
<1>8. c.duration = d.duration /\ c.status = d.status /\ c.cause = d.cause
  BY <1>4 DEF Projects, Lasted
<1> QED
  BY <1>1, <1>4, <1>5, <1>6, <1>7, <1>8 DEF Call
---------------------------------------------------------------------------
(* Replay: the same events in the order of time.                           *)

EventsAt(s) == { log[i] : i \in s }

\* rebuild() as a fold of functions.
Order == [s \in SUBSET DOMAIN log |-> Latest(s)]
Applied == [i \in DOMAIN log |-> [c \in Call |-> ApplyEvent(c, log[i])]]

\* Every set of events has a latest one.
LEMMA LatestExists ==
  ASSUME TypeOK, NEW s \in SUBSET DOMAIN log, s # {}
  PROVE  Latest(s) \in s /\ \A j \in s \ {Latest(s)} : Before(j, Latest(s))
<1> DEFINE Has(u) == \E i \in u : \A j \in u \ {i} : Before(j, i)
           N == {n \in Nat : \A u \in SUBSET DOMAIN log : u # {} /\ u \subseteq 1 .. n => Has(u)}
<1>1. \A i \in DOMAIN log : i \in Nat /\ log[i].at \in Nat
  <2>1. \A i \in DOMAIN log : i \in Nat /\ log[i] \in Event
    BY DEF TypeOK
  <2> QED
    BY <2>1 DEF Event
<1>2. 0 \in N
  OBVIOUS
<1>3. ASSUME NEW n \in Nat, n \in N PROVE n + 1 \in N
  <2> SUFFICES ASSUME NEW u \in SUBSET DOMAIN log, u # {}, u \subseteq 1 .. n + 1 PROVE Has(u)
    OBVIOUS
  <2> DEFINE t == u \ {n + 1}
  <2>1. t \subseteq 1 .. n /\ t \subseteq DOMAIN log
    OBVIOUS
  <2>2. CASE n + 1 \notin u
    <3>1. t = u
      BY <2>2
    <3> QED
      BY <1>3, <2>1, <3>1
  <2>3. CASE n + 1 \in u /\ t = {}
    <3>1. u \ {n + 1} = {}
      BY <2>3
    <3> QED
      BY <2>3, <3>1
  <2>4. CASE n + 1 \in u /\ t # {}
    <3>1. PICK m \in t : \A j \in t \ {m} : Before(j, m)
      BY <1>3, <2>1, <2>4
    <3>2. m < n + 1 /\ m \in DOMAIN log /\ n + 1 \in DOMAIN log
      BY <2>1, <2>4, <3>1
    <3>3. CASE log[m].at <= log[n + 1].at
      <4>1. ASSUME NEW j \in t PROVE Before(j, n + 1)
        <5>1. j < n + 1 /\ j \in DOMAIN log
          BY <2>1
        <5>2. log[j].at <= log[m].at
          BY <1>1, <3>1, <3>2, <5>1 DEF Before
        <5> QED
          BY <1>1, <3>2, <3>3, <5>1, <5>2 DEF Before
      <4> QED
        BY <2>4, <4>1
    <3>4. CASE log[n + 1].at < log[m].at
      <4>1. Before(n + 1, m)
        BY <3>4 DEF Before
      <4>2. \A j \in u \ {m} : Before(j, m)
        BY <3>1, <4>1
      <4> QED
        BY <3>1, <4>2
    <3> QED
      BY <1>1, <3>2, <3>3, <3>4
  <2> QED
    BY <2>2, <2>3, <2>4
<1>4. Nat \subseteq N
  <2> HIDE DEF N
  <2> QED
    BY <1>2, <1>3, Numbers
<1>5. Len(log) \in N /\ s \subseteq 1 .. Len(log)
  BY <1>4 DEF TypeOK
<1>6. Has(s)
  BY <1>5
<1> QED
  BY <1>6 DEF Latest

LEMMA RebuildIsFold ==
  ASSUME TypeOK, Reset \in Call
  PROVE  /\ IsFiniteSet(DOMAIN log) /\ Picks(Order, DOMAIN log)
         /\ \E r \in [SUBSET DOMAIN log -> Call] :
              FoldOf(r, DOMAIN log, Reset, Applied, Order) /\ Rebuild = r[DOMAIN log]
<1> DEFINE S == DOMAIN log
           Satisfies(r) == r = [s \in SUBSET S |->
                                  IF s = {} THEN Reset
                                  ELSE ApplyEvent(r[s \ {Latest(s)}], log[Latest(s)])]
           p == CHOOSE r : Satisfies(r)
<1>1. IsFiniteSet(S)
  <2>1. S = 1 .. Len(log) /\ Len(log) \in Nat
    BY DEF TypeOK
  <2> QED
    BY <2>1, FS_Interval
<1>2. Picks(Order, S)
  BY LatestExists DEF Picks, Order
<1>3. \A i \in S, c \in Call : ApplyEvent(c, log[i]) \in Call
  BY ApplyExtends DEF Extends, TypeOK
<1>4. Applied \in [S -> [Call -> Call]]
  BY <1>3 DEF Applied
<1>5. PICK q \in [SUBSET S -> Call] : FoldOf(q, S, Reset, Applied, Order)
  <2> HIDE DEF S
  <2> QED
    BY <1>1, <1>2, <1>4, FoldExists
<1>6. ASSUME NEW r, NEW s \in SUBSET S, s # {}, r[s \ {Latest(s)}] \in Call
      PROVE  Applied[Order[s]][r[s \ {Order[s]}]] = ApplyEvent(r[s \ {Latest(s)}], log[Latest(s)])
  <2>1. Order[s] = Latest(s) /\ Latest(s) \in DOMAIN log
    BY <1>6, LatestExists DEF Order
  <2> QED
    BY <1>6, <2>1 DEF Applied
<1>7. Satisfies(q)
  <2>1. ASSUME NEW s \in SUBSET S, s # {}
        PROVE  q[s] = ApplyEvent(q[s \ {Latest(s)}], log[Latest(s)])
    <3>1. q[s \ {Latest(s)}] \in Call
      BY <2>1
    <3> QED
      BY <1>5, <1>6, <2>1, <3>1 DEF FoldOf
  <2>2. q[{}] = Reset
    BY <1>5 DEF FoldOf
  <2> QED
    BY <2>1, <2>2
<1>8. Rebuild = p[S]
  BY DEF Rebuild, MapThenFoldSet
<1>9. Satisfies(p)
  <2> HIDE DEF Satisfies
  <2> QED
    BY <1>7
<1> HIDE DEF p
<1>10. \A s \in SUBSET S : p[s] \in Call
  <2> DEFINE G == {s \in SUBSET S : p[s] \in Call}
  <2>1. {} \in G
    BY <1>9
  <2>2. ASSUME NEW s \in SUBSET S, s # {}, s \ {Order[s]} \in G PROVE s \in G
    <3>1. Order[s] = Latest(s) /\ Latest(s) \in S
      BY <2>2, LatestExists DEF Order
    <3>2. p[s \ {Latest(s)}] \in Call
      BY <2>2, <3>1
    <3>3. p[s] = ApplyEvent(p[s \ {Latest(s)}], log[Latest(s)])
      BY <1>9, <2>2
    <3> QED
      BY <1>3, <3>1, <3>2, <3>3
  <2> HIDE DEF G
  <2>3. \A s \in SUBSET S : s \in G
    BY <1>1, <1>2, <2>1, <2>2, Subsets
  <2> QED
    BY <2>3 DEF G
<1>11. p \in [SUBSET S -> Call]
  BY <1>9, <1>10
<1>12. FoldOf(p, S, Reset, Applied, Order)
  <2>1. ASSUME NEW s \in SUBSET S, s # {}
        PROVE  p[s] = Applied[Order[s]][p[s \ {Order[s]}]]
    <3>1. p[s \ {Latest(s)}] \in Call
      BY <1>10
    <3>2. p[s] = ApplyEvent(p[s \ {Latest(s)}], log[Latest(s)])
      BY <1>9, <2>1
    <3> QED
      BY <1>6, <2>1, <3>1, <3>2
  <2>2. p[{}] = Reset
    BY <1>9
  <2> QED
    BY <2>1, <2>2 DEF FoldOf
<1> QED
  BY <1>1, <1>2, <1>8, <1>11, <1>12

\* In the order of time, too, calm events make of the call what they say.
LEMMA ReplayProjects ==
  ASSUME TypeOK, Projects(Reset, {}), NEW r \in [SUBSET DOMAIN log -> Call],
         FoldOf(r, DOMAIN log, Reset, Applied, Order),
         IsFiniteSet(DOMAIN log), Picks(Order, DOMAIN log)
  PROVE  \A s \in SUBSET DOMAIN log : Calm(EventsAt(s)) => Projects(r[s], EventsAt(s))
<1> DEFINE G == {s \in SUBSET DOMAIN log : Calm(EventsAt(s)) => Projects(r[s], EventsAt(s))}
<1>1. {} \in G
  <2>1. r[{}] = Reset /\ EventsAt({}) = {}
    BY DEF FoldOf, EventsAt
  <2> QED
    BY <2>1
<1>2. ASSUME NEW s \in SUBSET DOMAIN log, s # {}, s \ {Order[s]} \in G PROVE s \in G
  <2> SUFFICES ASSUME Calm(EventsAt(s)) PROVE Projects(r[s], EventsAt(s))
    OBVIOUS
  <2>1. PICK x \in s : x = Order[s]
    BY <1>2 DEF Picks
  <2> DEFINE t == s \ {x}
             R == EventsAt(t)
  <2>2. EventsAt(s) = R \cup {log[x]} /\ R \in SUBSET Event /\ log[x] \in Event
    BY DEF EventsAt, TypeOK
  <2>3. t \in G /\ t \in SUBSET DOMAIN log
    BY <1>2, <2>1
  <2>4. Calm(R)
    BY <2>2 DEF Calm
  <2>5. Projects(r[t], R)
    BY <2>3, <2>4
  <2>6. r[s] = Applied[x][r[t]]
    BY <1>2, <2>1 DEF FoldOf
  <2>7. r[s] = ApplyEvent(r[t], log[x])
    BY <2>3, <2>6 DEF Applied
  <2> HIDE DEF R, t, G
  <2> QED
    BY <2>2, <2>5, <2>7, ProjectsStep
<1> HIDE DEF G
<1>3. \A s \in SUBSET DOMAIN log : s \in G
  BY <1>1, <1>2, Subsets
<1> QED
  BY <1>3 DEF G

---------------------------------------------------------------------------
(* The live row.                                                           *)

\* All that was recorded before the last event.
Earlier(s) == { s[i] : i \in 1 .. Len(s) - 1 }

\* The row is what calm events make of the call; and what any event makes of that.
LiveInv ==
  /\ row.originated
  /\ Calm(Recorded(log)) => Projects(row, Recorded(log))
  /\ log # <<>> /\ Calm(Earlier(log)) =>
       \E c : Projects(c, Earlier(log)) /\ row = ApplyEvent(c, log[Len(log)])

LEMMA NothingProjected ==
  ASSUME NEW c, c = [NewCall EXCEPT !.originated = TRUE, !.status = "DIALING"]
  PROVE  Projects(c, {})
<1>1. c \in Call
  BY DEF NewCall, Call, Statuses, Times, NoTime
<1>2. /\ c.answered = NoTime /\ c.started = NoTime /\ c.ended = NoTime /\ c.duration = NoTime
      /\ ~c.played /\ ~c.ack /\ ~c.optedOut /\ c.originated /\ c.status = "DIALING"
      /\ c.cause = NoCause
  BY DEF NewCall
<1>3. FactsAgree(c, {})
  BY <1>2 DEF FactsAgree, PlayedIsLogged, KeypressIsLogged, TimesAreEarliest, EarliestOf
<1> QED
  BY <1>1, <1>2, <1>3 DEF Projects, Lasted

LEMMA LiveStep ==
  ASSUME TypeOK, LiveInv, NEW e \in Events, Append_(e)
  PROVE  LiveInv'
<1>1. e \in Event /\ row \in Call /\ log \in Seq(Event) /\ Recorded(log) \in SUBSET Event
  BY EventsAssumption DEF TypeOK, Recorded
<1>2. row' = ApplyEvent(row, e) /\ log' = Append(log, e)
  BY DEF Append_
<1>3. Recorded(log') = Recorded(log) \cup {e}
  BY <1>1, <1>2, RecordedAppend
<1>4. Earlier(log') = Recorded(log) /\ log'[Len(log')] = e
  BY <1>1, <1>2 DEF Earlier, Recorded
<1>5. Calm(Recorded(log) \cup {e}) => Calm(Recorded(log))
  BY DEF Calm
<1>6. row'.originated
  BY <1>1, <1>2, OtherColumns DEF LiveInv
<1>7. Calm(Recorded(log')) => Projects(row', Recorded(log'))
  BY <1>1, <1>2, <1>3, <1>5, ProjectsStep DEF LiveInv
<1>8. Calm(Earlier(log')) => \E c : Projects(c, Earlier(log')) /\ row' = ApplyEvent(c, log'[Len(log')])
  BY <1>2, <1>4 DEF LiveInv
<1> QED
  BY <1>6, <1>7, <1>8 DEF LiveInv

\* Replay ends where the stream did: with the destruction of the channel, on what calm
\* events make of the call, in either order.
LEMMA EndsAgree == TypeOK /\ LiveInv => ReplayAgreesOnceEnded
<1> SUFFICES ASSUME TypeOK, LiveInv, WellEnded PROVE Rebuild = row
  BY DEF ReplayAgreesOnceEnded
<1> DEFINE n == Len(log)
           early == 1 .. n - 1
<1>1. n \in Nat \ {0} /\ DOMAIN log = 1 .. n /\ n \in DOMAIN log /\ log # <<>>
  BY DEF TypeOK, WellEnded
<1>2. \A j \in DOMAIN log : log[j].at <= log[n].at /\ log[j].at \in Nat
  <2>1. \A j \in DOMAIN log : log[j] \in Event
    BY DEF TypeOK
  <2> QED
    BY <2>1 DEF WellEnded, Event
<1>3. log[n].kind = "ChannelDestroyed"
  BY DEF WellEnded
<1>4. early \subseteq DOMAIN log /\ DOMAIN log \ {n} = early
  BY <1>1
<1>5. Earlier(log) = EventsAt(early)
  BY DEF Earlier, EventsAt
<1>6. Calm(EventsAt(early))
  <2>1. \A i \in early : i \in DOMAIN log /\ i # n
    BY <1>4
  <2>2. \A i \in early : log[i].kind \notin {"AmdResult", "ChannelDestroyed"}
    BY <1>1, <1>3, <2>1 DEF WellEnded
  <2>3. ASSUME NEW i \in early, NEW j \in early, log[i].kind = log[j].kind,
               log[i].kind \in {"StasisStart", "StasisEnd"}
        PROVE  i = j
    BY <2>1, <2>3 DEF WellEnded
  <2> HIDE DEF early
  <2> QED
    BY <2>2, <2>3 DEF Calm, EventsAt
<1>7. PICK c : Projects(c, EventsAt(early)) /\ row = ApplyEvent(c, log[n])
  BY <1>1, <1>5, <1>6 DEF LiveInv
<1>8. Projects(Reset, {}) /\ Reset \in Call
  <2>1. Reset = [NewCall EXCEPT !.originated = TRUE, !.status = "DIALING"]
    <3>1. row.originated = TRUE
      BY DEF LiveInv, TypeOK, Call
    <3> QED
      BY <3>1 DEF Reset
  <2> QED
    BY <2>1, NothingProjected DEF Projects
<1>9. PICK r \in [SUBSET DOMAIN log -> Call] :
        FoldOf(r, DOMAIN log, Reset, Applied, Order) /\ Rebuild = r[DOMAIN log]
  BY <1>8, RebuildIsFold
<1>10. IsFiniteSet(DOMAIN log) /\ Picks(Order, DOMAIN log)
  BY <1>8, RebuildIsFold
<1>11. Order[DOMAIN log] = n
  <2> DEFINE m == Latest(DOMAIN log)
  <2>1. m \in DOMAIN log /\ \A j \in DOMAIN log \ {m} : Before(j, m)
    BY <1>1, LatestExists
  <2>2. m = n
    <3> HIDE DEF m
    <3> SUFFICES ASSUME m # n PROVE FALSE
      OBVIOUS
    <3>1. Before(n, m)
      BY <1>1, <2>1
    <3> QED
      BY <1>1, <1>2, <2>1, <3>1 DEF Before
  <2> QED
    BY <2>2 DEF Order
<1>12. Rebuild = ApplyEvent(r[early], log[n])
  <2> HIDE DEF n, early
  <2>1. Rebuild = Applied[n][r[early]]
    BY <1>1, <1>4, <1>9, <1>11 DEF FoldOf
  <2> QED
    BY <1>1, <1>4, <2>1 DEF Applied
<1>13. Projects(r[early], EventsAt(early))
  BY <1>4, <1>6, <1>8, <1>9, <1>10, ReplayProjects
<1>14. r[early] = c
  <2>1. EventsAt(early) \in SUBSET Event
    BY <1>4 DEF EventsAt, TypeOK
  <2> QED
    BY <1>7, <1>13, <2>1, ProjectsUnique
<1> QED
  BY <1>7, <1>12, <1>14

\* Replaying the log in the order of time gives the live row of a call that ended well,
\* whatever the events, however many, and in whatever order they arrived before the last.
THEOREM ReplayAgrees == Spec => []ReplayAgreesOnceEnded
<1>1. Init => LiveInv
  <2> SUFFICES ASSUME Init PROVE LiveInv
    OBVIOUS
  <2>1. Recorded(log) = {} /\ log = <<>>
    BY DEF Init, Recorded
  <2>2. row = [NewCall EXCEPT !.originated = TRUE, !.status = "DIALING"]
    BY DEF Init, NewCall
  <2>3. Projects(row, {}) /\ row.originated
    BY <2>2, NothingProjected DEF Projects
  <2> QED
    BY <2>1, <2>3 DEF LiveInv
<1>2. TypeOK /\ LiveInv /\ [Ingest]_vars => LiveInv'
  <2> SUFFICES ASSUME TypeOK, LiveInv, [Ingest]_vars PROVE LiveInv'
    OBVIOUS
  <2>1. CASE UNCHANGED vars
    <3>1. row' = row /\ log' = log
      BY <2>1 DEF vars
    <3>2. Recorded(log') = Recorded(log) /\ Earlier(log') = Earlier(log)
      BY <3>1
    <3>3. /\ row'.originated
          /\ Calm(Recorded(log')) => Projects(row', Recorded(log'))
          /\ log' # <<>> /\ Calm(Earlier(log')) =>
               \E c : Projects(c, Earlier(log')) /\ row' = ApplyEvent(c, log'[Len(log')])
      BY <3>1, <3>2 DEF LiveInv
    <3> QED
      BY <3>3 DEF LiveInv
  <2> QED
    BY <2>1, LiveStep DEF Ingest, Ignore
<1> QED
  BY <1>1, <1>2, EndsAgree, TypeCorrect, PTL DEF Spec
=============================================================================
