----------------------------- MODULE EventLog -----------------------------
(***************************************************************************)
(* `call_events` and the `calls` row projected from it, for one dialled    *)
(* call, under the weakest environment calls/projection.py allows: "events *)
(* arrive late, duplicated, out of order, or never at all".  Any event of  *)
(* Events may be ingested at any moment, any number of times.              *)
(***************************************************************************)
EXTENDS Projection, Sequences, Folds

CONSTANTS Events,      \* the events that may arrive
          MaxEvents    \* bound: how many of them are recorded

ASSUME EventsAssumption == Events \subseteq Event

VARIABLES row,  \* the Call
          log   \* its CallEvents, in the order they were received

vars == <<row, log>>

---------------------------------------------------------------------------
Recorded(s) == { s[i] : i \in DOMAIN s }

Init == /\ row = [NewCall EXCEPT !.status = "DIALING", !.originated = TRUE]
        /\ log = <<>>

\* record_event, then apply_event: append, then project.
Append_(e) == /\ ~Duplicate(Recorded(log), e)
              /\ Len(log) < MaxEvents
              /\ log' = Append(log, e)
              /\ row' = ApplyEvent(row, e)

\* record_event found the key: the log and the row stay as they are.
Ignore(e) == Duplicate(Recorded(log), e) /\ UNCHANGED vars

Ingest == \E e \in Events : Append_(e) \/ Ignore(e)

Spec == Init /\ [][Ingest]_vars

---------------------------------------------------------------------------
(* Replay.                                                                 *)

\* rebuild(): the events in the order of (occurred_at, received_at), folded into a row
\* whose projected columns have been reset.
Before(i, j) == log[i].at < log[j].at \/ (log[i].at = log[j].at /\ i < j)

Latest(s) == CHOOSE i \in s : \A j \in s \ {i} : Before(j, i)

Reset == [NewCall EXCEPT !.originated = row.originated,
                         !.status = IF row.originated THEN "DIALING" ELSE "SCHEDULED"]

\* The fold of a set of events applies the latest of them to the fold of the rest.
Rebuild == MapThenFoldSet(LAMBDA i, c : ApplyEvent(c, log[i]), Reset,
                          LAMBDA i : i, Latest, DOMAIN log)

---------------------------------------------------------------------------
TypeOK == row \in Call /\ log \in Seq(Event)

\* The three delivery facts and the timestamps are a function of the set of
\* recorded events: whatever order they came in, and however often, the row says
\* played, acknowledged, opted out, answered and ended exactly when the log does
\* (projection.py "set separately and never derived from one another").
FactsAreTheLog == FactsAgree(row, Recorded(log))

\* An unanswered outcome is never claimed without the events that support it: UNKNOWN
\* only from the reconciler, MACHINE only from AMD, BUSY only from cause 17, and every
\* terminal outcome only from a channel that was destroyed before any answer of it had
\* been recorded (_finalise, _CAUSE_STATUS).  ANSWERED is not among them: a destroyed
\* channel with cause 16 gives it to a row no StasisStart was recorded for, which
\* projection.py:62 ("only if we saw an answer") and 195-197 ("never answered") rule
\* out.  What is certain of an answer is row.answered (FactsAreTheLog), not the status.
OutcomeHasEvidence ==
  /\ row.status = "UNKNOWN" => \E e \in Recorded(log) : e.from = "RECONCILER"
  /\ row.status = "ANSWERED_MACHINE" => \E e \in Recorded(log) : e.value = "MACHINE"
  /\ row.status = "BUSY" => \E e \in Recorded(log) : e.cause = "USER_BUSY"
  /\ row.status \in Terminal =>
       \E i \in DOMAIN log : /\ log[i].kind = "ChannelDestroyed"
                             /\ \A j \in 1 .. i - 1 : log[j].kind # "StasisStart"

\* "Status advances through the lattice and never reopens": no event lowers the
\* rank of the status, and once a terminal outcome is recorded no later event,
\* however contradictory, replaces it.
ForwardOnly == [][ /\ Rank(row'.status) >= Rank(row.status)
                   /\ row.status \in Terminal => row'.status = row.status ]_vars

\* "A call is rebuilt identically by replaying its event log": replaying the log
\* in time order gives the row that the live stream produced.
ReplayReproducesRow == Rebuild = row

\* What does hold of replay: when the channel's destruction is the last thing both to
\* happen and to arrive, no call started, ended or was destroyed twice, and AMD did not
\* speak, then the order in which everything else arrived does not matter.
WellEnded ==
  /\ \E i \in DOMAIN log : /\ log[i].kind = "ChannelDestroyed"
                           /\ i = Len(log)
                           /\ \A j \in DOMAIN log : log[j].at <= log[i].at
  /\ \A k \in {"StasisStart", "StasisEnd", "ChannelDestroyed"} :
       \A i, j \in DOMAIN log : log[i].kind = k /\ log[j].kind = k => i = j
  /\ ~ \E i \in DOMAIN log : log[i].kind = "AmdResult"

ReplayAgreesOnceEnded == WellEnded => Rebuild = row
===========================================================================
