-------------------------- MODULE Contacts_proofs --------------------------
(***************************************************************************)
(* Proofs about who is contacted, how often and with what: messages,       *)
(* campaigns, recordings, the ladder and the limits every call passes, for *)
(* any number of workers, hooks, clerks, debtors, campaigns and takes, and *)
(* any rate and limits.                                                    *)
(*                                                                         *)
(* Each part has an inductive invariant over the variables of its          *)
(* component, kept by the steps of the component; a step of BackOffice is  *)
(* one of them or leaves these variables alone (MessagingPart,             *)
(* CampaignsPart, AudioPart, PolicyPart, ThrottlePart). The constants are  *)
(* those of BackOffice with what it assumes of them.                       *)
(***************************************************************************)
EXTENDS BackOffice, FiniteSetTheorems, TLAPS

---------------------------------------------------------------------------
(* Messages.                                                               *)

\* A worker that got past the unique constraint and has not stored the answer.
InHand == {"inserted", "queued", "guarded", "accepted", "rejected"}

\* One worker at most has got past the unique constraint and not finished, and until it
\* stores what the provider said the row is as it was queued.
Sole == \A w \in Hands : sending[w] \in InHand =>
          /\ \A v \in Hands : sending[v] \in InHand => v = w
          /\ sending[w] = "inserted" => message = Msg!NoMessage /\ handed = 0
          /\ sending[w] # "inserted" => message = Msg!Queued
          /\ sending[w] \in {"queued", "guarded", "rejected"} => handed = 0

\* No report is known of a message that was not stored as accepted.
NotYet == message = Msg!NoMessage \/ ~message.accepted => log = {} /\ \A h \in Hands : hook[h] = Msg!NoReport

\* What a handler read of the row is a fact of it still.
Behind == \A h \in Hands : hook[h] # Msg!NoReport =>
            LET row == hook[h].row IN
            /\ row \in Msg!MessageRow /\ row.accepted /\ row.sent /\ hook[h].report \in Msg!MessageEvent
            /\ row.delivered => message.delivered
            /\ row.read => message.read
            /\ row.failed => message.failed

\* What a hook holds: a report with the row it read, or nothing.
HookType == hook \in [Hands -> [report : Msg!MessageEvent \cup {Msg!NoReport.report},
                                row : Msg!MessageRow \cup {Msg!NoMessage}]]

\* What is proved together.
MessageInv == Msg!TypeOK /\ HookType /\ Sole /\ NotYet /\ Behind /\ Msg!HandedOverOnce /\ Msg!ReportsAreKept

---------------------------------------------------------------------------
\* A message without a row, and the row of a queued one, are well formed.
LEMMA Rows ==
  /\ Msg!Queued \in Msg!MessageRow /\ ~Msg!Queued.accepted /\ Msg!NoMessage \notin Msg!MessageRow
  /\ Msg!NoMessage # Msg!Queued
BY DEF Msg!Queued, Msg!NoMessage, Msg!MessageRow, Msg!MessageStatus

\* Nothing is queued, and nobody sends.
LEMMA InitMessage == Msg!Init => MessageInv
<1> SUFFICES ASSUME Msg!Init PROVE MessageInv
  OBVIOUS
<1>1. Msg!TypeOK /\ HookType
  BY DEF Msg!Init, Msg!TypeOK, HookType, Msg!NoReport, Msg!MessageEvent
<1>2. Sole /\ NotYet /\ Behind
  BY DEF Msg!Init, Sole, InHand, NotYet, Behind
<1>3. Msg!HandedOverOnce /\ Msg!ReportsAreKept
  BY DEF Msg!Init, Msg!HandedOverOnce, Msg!ReportsAreKept
<1> QED BY <1>1, <1>2, <1>3 DEF MessageInv

\* A worker that has not the row in hand, and does not get it, changes nothing of it.
LEMMA IdleStep ==
  ASSUME MessageInv, NEW w \in Hands, Msg!Look(w) \/ Msg!Die(w)
  PROVE  MessageInv'
<1>1. PICK to \in {"looked", "refused", "dead"} : sending' = [sending EXCEPT ![w] = to]
  BY DEF Msg!Look, Msg!Die, Msg!Go
<1>2. UNCHANGED <<message, log, hook, claimed, redisUp, handed, outrun>>
  BY DEF Msg!Look, Msg!Die
<1>3. Msg!TypeOK' /\ HookType'
  BY <1>1, <1>2 DEF MessageInv, Msg!TypeOK, HookType
<1>4. Sole'
  BY <1>1, <1>2 DEF MessageInv, Msg!TypeOK, Sole, InHand
<1>5. NotYet' /\ Behind' /\ Msg!HandedOverOnce' /\ Msg!ReportsAreKept'
  BY <1>2 DEF MessageInv, NotYet, Behind, Msg!HandedOverOnce, Msg!ReportsAreKept, Msg!Reported
<1> QED BY <1>3, <1>4, <1>5 DEF MessageInv

\* The row goes from hand to hand: it is inserted, guarded, handed over.
LEMMA SendStep ==
  ASSUME MessageInv, NEW w \in Hands, Msg!Insert(w) \/ Msg!Guard(w) \/ Msg!HandOver(w)
  PROVE  MessageInv'
<1>1. UNCHANGED <<message, log, hook, redisUp, outrun>>
  BY DEF Msg!Insert, Msg!Guard, Msg!HandOver
<1>2. PICK to \in {"inserted", "guarded", "accepted", "rejected", "refused"} :
        sending' = [sending EXCEPT ![w] = to]
  BY DEF Msg!Insert, Msg!Guard, Msg!HandOver, Msg!Go
<1>3. CASE Msg!Insert(w)
  <2>1. /\ \A v \in Hands : sending[v] # "inserted"
        /\ UNCHANGED <<claimed, handed>>
        /\ sending' = [sending EXCEPT ![w] = IF message = Msg!NoMessage THEN "inserted" ELSE "refused"]
    BY <1>3 DEF Msg!Insert, Msg!Go
  <2>2. message = Msg!NoMessage => handed = 0 /\ \A v \in Hands : sending[v] \notin InHand
    BY <2>1, Rows DEF MessageInv, Msg!TypeOK, Msg!HandedOverOnce, Sole, InHand
  <2>3. Sole'
    BY <1>1, <2>1, <2>2 DEF MessageInv, Msg!TypeOK, Sole, InHand
  <2>4. Msg!TypeOK' /\ HookType'
    BY <1>1, <1>2, <2>1 DEF MessageInv, Msg!TypeOK, HookType
  <2>5. NotYet' /\ Behind' /\ Msg!HandedOverOnce' /\ Msg!ReportsAreKept'
    BY <1>1, <2>1 DEF MessageInv, NotYet, Behind, Msg!HandedOverOnce, Msg!ReportsAreKept,
                      Msg!Reported
  <2> QED BY <2>3, <2>4, <2>5 DEF MessageInv
<1>4. CASE Msg!Guard(w) \/ Msg!HandOver(w)
  <2>1. /\ sending[w] \in {"queued", "guarded"} /\ claimed' \in BOOLEAN
        /\ to # "inserted" /\ handed' = IF to = "accepted" THEN handed + 1 ELSE handed
    <3>1. CASE Msg!Guard(w)
      <4>1. sending[w] = "queued" /\ UNCHANGED handed /\ claimed' \in BOOLEAN
        BY <3>1 DEF Msg!Guard, Msg!Go, MessageInv, Msg!TypeOK
      <4>2. sending'[w] \in {"refused", "guarded"}
        BY <3>1 DEF Msg!Guard, Msg!Go, MessageInv, Msg!TypeOK
      <4> QED BY <1>2, <4>1, <4>2 DEF MessageInv, Msg!TypeOK
    <3>2. CASE Msg!HandOver(w)
      <4>1. PICK t \in {"accepted", "rejected", "refused"} :
              Msg!Go(w, "guarded", t) /\ handed' = handed + (IF t = "accepted" THEN 1 ELSE 0)
        BY <3>2 DEF Msg!HandOver
      <4>2. t = to /\ sending[w] = "guarded"
        BY <1>2, <4>1 DEF Msg!Go, MessageInv, Msg!TypeOK
      <4>3. UNCHANGED claimed
        BY <3>2 DEF Msg!HandOver
      <4> QED BY <4>1, <4>2, <4>3 DEF MessageInv, Msg!TypeOK
    <3> QED BY <1>4, <3>1, <3>2
  <2>2. handed = 0 /\ message = Msg!Queued /\ \A v \in Hands : sending[v] \in InHand => v = w
    BY <2>1 DEF MessageInv, Sole, InHand
  <2>3. /\ Msg!TypeOK' /\ HookType'
    BY <1>1, <1>2, <2>1 DEF MessageInv, Msg!TypeOK, HookType
  <2>4. Sole'
    BY <1>1, <1>2, <2>1, <2>2 DEF MessageInv, Msg!TypeOK, Sole, InHand
  <2>5. Msg!HandedOverOnce'
    BY <1>1, <2>1, <2>2, Rows DEF Msg!HandedOverOnce
  <2>6. NotYet' /\ Behind' /\ Msg!ReportsAreKept'
    BY <1>1 DEF MessageInv, NotYet, Behind, Msg!ReportsAreKept, Msg!Reported
  <2> QED BY <2>3, <2>4, <2>5, <2>6 DEF MessageInv
<1> QED BY <1>3, <1>4

\* The row is committed, as queued or with what the provider said: no report is known yet.
LEMMA WriteStep ==
  ASSUME MessageInv, NEW w \in Hands, Msg!CommitQueued(w) \/ Msg!NoProvider(w) \/ Msg!Store(w)
  PROVE  MessageInv'
<1>1. UNCHANGED <<log, hook, claimed, redisUp, handed, outrun>>
  BY DEF Msg!CommitQueued, Msg!NoProvider, Msg!Store
<1>2. /\ sending[w] \in {"inserted", "queued", "accepted", "rejected"}
      /\ sending' = [sending EXCEPT ![w] = IF sending[w] = "inserted" THEN "queued" ELSE "done"]
      /\ message' = IF sending[w] = "inserted" THEN Msg!Queued
                    ELSE IF sending[w] = "accepted"
                    THEN [message EXCEPT !.status = "SENT", !.accepted = TRUE, !.sent = TRUE]
                    ELSE [message EXCEPT !.status = "FAILED", !.failed = TRUE]
  BY DEF Msg!CommitQueued, Msg!NoProvider, Msg!Store, Msg!Go
<1>3. /\ \A v \in Hands : sending[v] \in InHand => v = w
      /\ sending[w] = "inserted" => message = Msg!NoMessage /\ handed = 0
      /\ sending[w] # "inserted" => message = Msg!Queued
  BY <1>2 DEF MessageInv, Sole, InHand
<1>4. /\ message' \in Msg!MessageRow
      /\ message'.accepted <=> sending[w] = "accepted"
      /\ message'.accepted => /\ message'.sent /\ message'.status = "SENT" /\ ~message'.delivered
                              /\ ~message'.read /\ ~message'.failed
  <2>1. CASE sending[w] = "inserted"
    BY <1>2, <2>1, Rows
  <2>2. CASE sending[w] = "accepted"
    <3>1. message' = [Msg!Queued EXCEPT !.status = "SENT", !.accepted = TRUE, !.sent = TRUE]
      BY <1>2, <1>3, <2>2
    <3> QED BY <2>2, <3>1 DEF Msg!Queued, Msg!MessageRow, Msg!MessageStatus
  <2>3. CASE sending[w] \in {"queued", "rejected"}
    <3>1. message' = [Msg!Queued EXCEPT !.status = "FAILED", !.failed = TRUE]
      BY <1>2, <1>3, <2>3
    <3> QED BY <2>3, <3>1 DEF Msg!Queued, Msg!MessageRow, Msg!MessageStatus
  <2> QED BY <1>2, <2>1, <2>2, <2>3
<1>5. log = {} /\ \A h \in Hands : hook[h] = Msg!NoReport
  BY <1>3, Rows DEF MessageInv, NotYet
<1>6. Msg!TypeOK' /\ HookType'
  BY <1>1, <1>2, <1>4 DEF MessageInv, Msg!TypeOK, HookType
<1>7. Sole'
  BY <1>1, <1>2, <1>3 DEF MessageInv, Msg!TypeOK, Sole, InHand
<1>8. NotYet' /\ Behind'
  BY <1>1, <1>5 DEF NotYet, Behind
<1>9. Msg!HandedOverOnce'
  BY <1>1, <1>4, Rows DEF MessageInv, Msg!HandedOverOnce
<1>10. Msg!ReportsAreKept'
  BY <1>1, <1>4, <1>5 DEF Msg!ReportsAreKept, Msg!Reported
<1> QED BY <1>6, <1>7, <1>8, <1>9, <1>10 DEF MessageInv

\* A handler takes a report, or loses it; Redis comes and goes.
LEMMA ReportStep ==
  ASSUME MessageInv,
         Msg!Redis \/ (\E h \in Hands : Msg!Receive(h) \/ Msg!Lose(h)) \/ UNCHANGED Msg!mvars
  PROVE  MessageInv'
<1>1. UNCHANGED <<message, log, sending, handed, outrun>>
  BY DEF Msg!Redis, Msg!Receive, Msg!Lose, Msg!mvars
<1>2. claimed' \in BOOLEAN /\ redisUp' \in BOOLEAN
  BY DEF Msg!Redis, Msg!Receive, Msg!Lose, Msg!mvars, MessageInv, Msg!TypeOK
<1>3. \/ UNCHANGED hook
      \/ \E h \in Hands : hook' = [hook EXCEPT ![h] = Msg!NoReport]
      \/ /\ message \in Msg!MessageRow /\ message.accepted
         /\ \E h \in Hands, r \in Msg!MessageEvent :
              hook' = [hook EXCEPT ![h] = [report |-> r, row |-> message]]
  BY ReportsOfProvider DEF Msg!Redis, Msg!Receive, Msg!Lose, Msg!mvars, MessageInv, Msg!TypeOK
<1>4. Msg!TypeOK' /\ Sole' /\ Msg!HandedOverOnce' /\ Msg!ReportsAreKept'
  BY <1>1, <1>2 DEF MessageInv, Msg!TypeOK, Sole, Msg!HandedOverOnce, Msg!ReportsAreKept,
                    Msg!Reported
<1>5. HookType'
  <2>1. Msg!NoReport \in [report : Msg!MessageEvent \cup {Msg!NoReport.report}, row : Msg!MessageRow \cup {Msg!NoMessage}]
    BY DEF Msg!NoReport
  <2> QED BY <1>3, <2>1 DEF MessageInv, HookType
<1>6. NotYet'
  BY <1>1, <1>3, Rows DEF MessageInv, NotYet, HookType
<1>7. Behind'
  <2> SUFFICES ASSUME NEW g \in Hands, hook'[g] # Msg!NoReport
      PROVE  LET row == hook'[g].row IN
             /\ row \in Msg!MessageRow /\ row.accepted /\ row.sent /\ hook'[g].report \in Msg!MessageEvent
             /\ row.delivered => message.delivered
             /\ row.read => message.read
             /\ row.failed => message.failed
    BY <1>1 DEF Behind
  <2>1. CASE hook'[g] = hook[g]
    BY <2>1 DEF MessageInv, Behind
  <2>2. CASE hook'[g] # hook[g]
    <3>1. message \in Msg!MessageRow /\ message.accepted
          /\ \E r \in Msg!MessageEvent : hook'[g] = [report |-> r, row |-> message]
      BY <1>3, <2>2 DEF MessageInv, HookType
    <3>2. message # Msg!NoMessage
      BY <3>1, Rows
    <3>3. message.sent
      BY <3>1, <3>2 DEF MessageInv, Msg!ReportsAreKept
    <3> QED BY <3>1, <3>3
  <2> QED BY <2>1, <2>2
<1> QED BY <1>4, <1>5, <1>6, <1>7 DEF MessageInv

\* What a report makes of a row of an accepted message.
LEMMA ProjectedRow ==
  ASSUME NEW m \in Msg!MessageRow, NEW type \in {"sent", "delivered", "read", "failed"}
  PROVE  LET n == Msg!Projected(m, type) IN
         /\ n \in Msg!MessageRow /\ (n.accepted <=> m.accepted) /\ (m.sent => n.sent)
         /\ n.delivered <=> m.delivered \/ type = "delivered"
         /\ n.read <=> m.read \/ type = "read"
         /\ n.failed <=> m.failed \/ type = "failed"
         /\ n.status = IF Msg!MessageRank[Msg!EventStatus[type]] >= Msg!MessageRank[m.status]
                       THEN Msg!EventStatus[type] ELSE m.status
<1> DEFINE s == IF Msg!MessageRank[Msg!EventStatus[type]] >= Msg!MessageRank[m.status]
                THEN Msg!EventStatus[type] ELSE m.status
           n == [ m EXCEPT !.status = s,
                           !.sent = @ \/ type = "sent",
                           !.delivered = @ \/ type = "delivered",
                           !.read = @ \/ type = "read",
                           !.failed = @ \/ type = "failed" ]
<1>1. Msg!Projected(m, type) = n
  BY DEF Msg!Projected, Msg!MessageRow
<1>2. s \in Msg!MessageStatus
  BY DEF Msg!EventStatus, Msg!MessageRow, Msg!MessageStatus
<1> HIDE DEF s
<1>3. n \in Msg!MessageRow
  BY <1>2 DEF Msg!MessageRow
<1>4. n.status = s /\ (n.accepted <=> m.accepted)
  BY DEF Msg!MessageRow
<1>5. n.sent <=> m.sent \/ type = "sent"
  BY DEF Msg!MessageRow
<1>6. n.delivered <=> m.delivered \/ type = "delivered"
  BY DEF Msg!MessageRow
<1>7. n.read <=> m.read \/ type = "read"
  BY DEF Msg!MessageRow
<1>8. n.failed <=> m.failed \/ type = "failed"
  BY DEF Msg!MessageRow
<1> HIDE DEF n
<1> QED BY <1>1, <1>3, <1>4, <1>5, <1>6, <1>7, <1>8 DEF s

\* A report is projected on the row as the handler read it, and the columns that change are
\* written: the fact it states is added and none is lost.
LEMMA IngestStep ==
  ASSUME MessageInv, NEW h \in Hands, Msg!Ingest(h)
  PROVE  MessageInv'
<1> DEFINE r == hook[h].report
           old == hook[h].row
           new == Msg!Projected(old, r.type)
<1>1. /\ hook[h] # Msg!NoReport /\ hook' = [hook EXCEPT ![h] = Msg!NoReport]
      /\ UNCHANGED <<sending, claimed, redisUp, handed>>
  BY DEF Msg!Ingest
<1>2. /\ old \in Msg!MessageRow /\ old.accepted /\ old.sent /\ r \in Msg!MessageEvent
      /\ old.delivered => message.delivered
      /\ old.read => message.read
      /\ old.failed => message.failed
  BY <1>1 DEF MessageInv, Behind
<1>3. /\ message \in Msg!MessageRow /\ message.accepted /\ message # Msg!NoMessage /\ message # Msg!Queued
  BY <1>1, Rows DEF MessageInv, NotYet, Msg!TypeOK
<1>4. HookType'
  <2>1. Msg!NoReport \in [report : Msg!MessageEvent \cup {Msg!NoReport.report}, row : Msg!MessageRow \cup {Msg!NoMessage}]
    BY DEF Msg!NoReport
  <2> QED BY <1>1, <2>1 DEF MessageInv, HookType
<1>5. CASE r \in log
  <2>1. UNCHANGED <<message, log, outrun>>
    BY <1>5 DEF Msg!Ingest
  <2>2. Msg!TypeOK' /\ Sole' /\ Msg!HandedOverOnce' /\ Msg!ReportsAreKept'
    BY <1>1, <2>1 DEF MessageInv, Msg!TypeOK, Sole, Msg!HandedOverOnce, Msg!ReportsAreKept,
                      Msg!Reported
  <2>3. NotYet' /\ Behind'
    BY <1>1, <1>3, <2>1 DEF MessageInv, NotYet, Behind, HookType
  <2> QED BY <1>4, <2>2, <2>3 DEF MessageInv
<1>6. CASE r \notin log
  <2>1. /\ log' = log \cup {r} /\ message' = Msg!WriteBack(message, old, new)
        /\ outrun' = (outrun \/ old.status # message.status)
    BY <1>6 DEF Msg!Ingest
  <2>2. /\ new \in Msg!MessageRow /\ new.accepted /\ new.sent
        /\ new.delivered <=> old.delivered \/ r.type = "delivered"
        /\ new.read <=> old.read \/ r.type = "read"
        /\ new.failed <=> old.failed \/ r.type = "failed"
        /\ new.status = IF Msg!MessageRank[Msg!EventStatus[r.type]] >= Msg!MessageRank[old.status]
                        THEN Msg!EventStatus[r.type] ELSE old.status
    <3>1. r.type \in {"sent", "delivered", "read", "failed"}
      BY <1>2 DEF Msg!MessageEvent
    <3> HIDE DEF r, old
    <3> QED BY <1>2, <3>1, ProjectedRow
  <2> HIDE DEF r, old, new
  <2>3. /\ message' \in Msg!MessageRow /\ message'.accepted
        /\ message'.sent <=> message.sent
        /\ message'.delivered <=> message.delivered \/ r.type = "delivered"
        /\ message'.read <=> message.read \/ r.type = "read"
        /\ message'.failed <=> message.failed \/ r.type = "failed"
        /\ message'.status = IF new.status = old.status THEN message.status ELSE new.status
    BY <1>2, <1>3, <2>1, <2>2 DEF Msg!WriteBack, Msg!MessageRow
  <2>4. Msg!TypeOK'
    BY <1>1, <1>2, <2>1, <2>3 DEF MessageInv, Msg!TypeOK
  <2>5. Sole'
    BY <1>1, <1>3, <2>3, Rows DEF MessageInv, Sole
  <2>6. NotYet' /\ Msg!HandedOverOnce'
    BY <1>1, <2>3, Rows DEF MessageInv, NotYet, Msg!HandedOverOnce
  <2>7. Behind'
    BY <1>1, <2>3 DEF MessageInv, Behind, HookType
  <2>8. Msg!ReportsAreKept'
    <3>1. /\ message.sent
          /\ message.delivered <=> Msg!Reported("delivered")
          /\ message.read <=> Msg!Reported("read")
          /\ message.failed <=> Msg!Reported("failed")
          /\ \/ outrun
             \/ /\ \A q \in log : Msg!MessageRank[message.status] >= Msg!MessageRank[Msg!EventStatus[q.type]]
                /\ message.status = "SENT" \/ \E q \in log : message.status = Msg!EventStatus[q.type]
      BY <1>3 DEF MessageInv, Msg!ReportsAreKept
    <3>2. \A type : Msg!Reported(type)' <=> Msg!Reported(type) \/ r.type = type
      BY <2>1 DEF Msg!Reported
    <3>3. /\ message'.sent
          /\ message'.delivered <=> Msg!Reported("delivered")'
          /\ message'.read <=> Msg!Reported("read")'
          /\ message'.failed <=> Msg!Reported("failed")'
      BY <2>3, <3>1, <3>2
    <3>4. ASSUME ~outrun'
          PROVE  /\ \A q \in log' : Msg!MessageRank[message'.status] >= Msg!MessageRank[Msg!EventStatus[q.type]]
                 /\ message'.status = "SENT" \/ \E q \in log' : message'.status = Msg!EventStatus[q.type]
      <4>1. ~outrun /\ old.status = message.status
        BY <2>1, <3>4
      <4>2. message'.status = IF Msg!MessageRank[Msg!EventStatus[r.type]] >= Msg!MessageRank[message.status]
                              THEN Msg!EventStatus[r.type] ELSE message.status
        BY <2>2, <2>3, <4>1
      <4>3. /\ \A q \in log \cup {r} : Msg!EventStatus[q.type] \in Msg!MessageStatus
            /\ message.status \in Msg!MessageStatus
            /\ \A s \in Msg!MessageStatus : Msg!MessageRank[s] \in Nat
        BY <1>2, <1>3 DEF MessageInv, Msg!TypeOK, Msg!MessageRow, Msg!MessageEvent,
                          Msg!EventStatus, Msg!MessageStatus,
                          Msg!MessageRank
      <4> QED BY <2>1, <3>1, <4>1, <4>2, <4>3
    <3> QED BY <3>3, <3>4 DEF Msg!ReportsAreKept, Msg!Reported
  <2> QED BY <1>4, <2>4, <2>5, <2>6, <2>7, <2>8 DEF MessageInv
<1> QED BY <1>5, <1>6

\* Messaging moves or is at rest.
LEMMA MessagingPart == Spec => Msg!Spec
<1>1. Init => Msg!Init
  BY DEF Init
<1>2. [Next]_vars => [Msg!Next]_(Msg!mvars)
  BY DEF Next, vars, AtRest, mvars, Msg!mvars
<1> QED BY <1>1, <1>2, PTL DEF Spec, Msg!Spec

\* The invariant holds throughout.
LEMMA MessagesKept == Spec => []MessageInv
<1>1. MessageInv /\ [Msg!Next]_(Msg!mvars) => MessageInv'
  BY IdleStep, SendStep, WriteStep, ReportStep, IngestStep DEF Msg!Next
<1> QED BY InitMessage, <1>1, MessagingPart, PTL DEF Msg!Spec

\* A message reaches a provider at most once, whoever computes its key and whatever Redis
\* does, and never without its committed row (comms/service.py:7-11).
THEOREM SentOnce == Spec => []HandedOverOnce
<1>1. MessageInv => HandedOverOnce
  BY DEF MessageInv, HandedOverOnce
<1> QED BY <1>1, MessagesKept, PTL

\* The delivery facts of an accepted message are those of the reports in its log, in whatever
\* order and however many at a time they came (comms/service.py:160-231).
THEOREM FactsOfReports == Spec => []ReportsAreKept
<1>1. MessageInv => ReportsAreKept
  BY DEF MessageInv, ReportsAreKept
<1> QED BY <1>1, MessagesKept, PTL

---------------------------------------------------------------------------
(* Campaigns.                                                              *)

\* What a session of the campaigns is at.
Work == [op : {"none", "enrol", "start", "pause", "complete"}, drive : Drives \cup {Cam!NoWork.drive},
         debtors : SUBSET Debtors, seeds : SUBSET Debtors, done : BOOLEAN]

\* An open operation is one of a campaign there is.
WorkType == /\ work \in [Hands -> Work]
            /\ \A s \in Hands : work[s].op # "none" => work[s].drive \in Drives

\* No debtor is the active target of two campaigns.
Alone == \A d, e \in Drives, b \in Debtors :
           target[d][b] = "active" /\ target[e][b] = "active" => d = e

\* An enrolment that does not schedule a debtor saw him on the schedule, where he stays
\* unless the scheduler lets him go.
SeedsSuffice == \A s \in Hands :
                  work[s].op = "enrol" => work[s].debtors \subseteq due \cup dropped \cup work[s].seeds

\* What is proved together.
EnrolInv == Cam!TypeOK /\ WorkType /\ Alone /\ SeedsSuffice /\ Cam!EnrolledIsScheduled

---------------------------------------------------------------------------
\* Campaigns counts as everybody does.
LEMMA CampaignsCount == ASSUME NEW S PROVE Cam!Cardinality(S) = Cardinality(S)
BY DEF Cam!Cardinality, Cardinality

\* A session that does nothing is well formed.
LEMMA NoWorkType == Cam!NoWork \in Work /\ Cam!NoWork.op = "none"
BY DEF Cam!NoWork, Work

\* No targets, and no session at work.
LEMMA InitEnrol == Cam!Init => EnrolInv
BY NoWorkType DEF Cam!Init, EnrolInv, Cam!TypeOK, WorkType, Alone, SeedsSuffice,
                  Cam!EnrolledIsScheduled, Cam!Owned,
                  Cam!Active, Cam!CampaignStatus, Cam!CampaignTarget

\* An operation reads what it needs and opens.
LEMMA OpenWorkStep ==
  ASSUME EnrolInv, NEW s \in Hands, NEW d \in Drives,
         Cam!Enrol(s, d) \/ Cam!Start(s, d) \/ Cam!Pause(s, d) \/ Cam!Complete(s, d)
  PROVE  EnrolInv'
<1>1. PICK w \in Work : /\ work' = [work EXCEPT ![s] = w] /\ w.drive = d
                        /\ w.op = "enrol" => w.debtors \subseteq due \cup w.seeds
  <2>1. Cam!Active(d) \subseteq Debtors /\ owing \subseteq Debtors
    BY DEF Cam!Active, EnrolInv, Cam!TypeOK
  <2>2. CASE Cam!Enrol(s, d)
    <3> DEFINE w == [op |-> "enrol", drive |-> d, debtors |-> owing \ Cam!Owned,
                     seeds |-> (owing \ Cam!Owned) \ due, done |-> FALSE]
    <3>1. w \in Work /\ work' = [work EXCEPT ![s] = w]
      BY <2>1, <2>2 DEF Cam!Enrol, Cam!Open, Work
    <3> QED BY <3>1
  <2>3. CASE Cam!Start(s, d)
    <3> DEFINE w == [op |-> "start", drive |-> d, debtors |-> {}, seeds |-> Cam!Active(d) \ due,
                     done |-> drive[d] # "ACTIVE"]
    <3>1. w \in Work /\ work' = [work EXCEPT ![s] = w]
      BY <2>1, <2>3 DEF Cam!Start, Cam!Open, Work
    <3> QED BY <3>1
  <2>4. CASE Cam!Pause(s, d)
    <3> DEFINE w == [op |-> "pause", drive |-> d, debtors |-> {}, seeds |-> {},
                     done |-> drive[d] # "PAUSED"]
    <3>1. w \in Work /\ work' = [work EXCEPT ![s] = w]
      BY <2>4 DEF Cam!Pause, Cam!Open, Work
    <3> QED BY <3>1
  <2>5. CASE Cam!Complete(s, d)
    <3> DEFINE w == [op |-> "complete", drive |-> d, debtors |-> Cam!Finished(d), seeds |-> {},
                     done |-> drive[d] = "ACTIVE" /\ Cam!Active(d) = {}]
    <3>1. w \in Work /\ work' = [work EXCEPT ![s] = w]
      BY <2>1, <2>5 DEF Cam!Complete, Cam!Open, Work, Cam!Finished
    <3> QED BY <3>1
  <2> QED BY <2>2, <2>3, <2>4, <2>5
<1>2. UNCHANGED <<drive, target, due, owing, dropped>>
  BY DEF Cam!Enrol, Cam!Start, Cam!Pause, Cam!Complete, Cam!Open
<1>3. Cam!TypeOK' /\ Alone' /\ Cam!EnrolledIsScheduled'
  BY <1>2 DEF EnrolInv, Cam!TypeOK, Alone, Cam!EnrolledIsScheduled, Cam!Owned, Cam!Active
<1>4. WorkType'
  BY <1>1 DEF EnrolInv, WorkType
<1>5. SeedsSuffice'
  BY <1>1, <1>2 DEF EnrolInv, WorkType, SeedsSuffice
<1> QED BY <1>3, <1>4, <1>5 DEF EnrolInv

\* Closing an operation, with a schedule that only grows but for what the scheduler drops.
LEMMA CloseKeeps ==
  ASSUME EnrolInv, NEW s \in Hands, Cam!Close(s), due \cup dropped \subseteq due' \cup dropped'
  PROVE  WorkType' /\ SeedsSuffice'
<1>1. work' = [work EXCEPT ![s] = Cam!NoWork] /\ work \in [Hands -> Work]
  BY DEF Cam!Close, EnrolInv, WorkType
<1>2. WorkType'
  BY <1>1, NoWorkType DEF EnrolInv, WorkType
<1>3. SeedsSuffice'
  <2> SUFFICES ASSUME NEW t \in Hands, work'[t].op = "enrol"
      PROVE  work'[t].debtors \subseteq due' \cup dropped' \cup work'[t].seeds
    BY DEF SeedsSuffice
  <2>1. t # s /\ work'[t] = work[t]
    BY <1>1, NoWorkType
  <2> QED BY <2>1 DEF EnrolInv, SeedsSuffice
<1> QED BY <1>2, <1>3

\* An enrolment commits, or meets the unique indexes.
LEMMA CommitEnrolStep ==
  ASSUME EnrolInv, NEW s \in Hands, Cam!CommitEnrol(s)
  PROVE  EnrolInv'
<1> DEFINE w == work[s]
<1>1. /\ w.op = "enrol" /\ Cam!Close(s) /\ UNCHANGED <<drive, owing>>
      /\ w \in Work /\ w.drive \in Drives /\ w.debtors \subseteq Debtors /\ w.seeds \subseteq Debtors
      /\ w.debtors \subseteq due \cup dropped \cup w.seeds
  BY DEF Cam!CommitEnrol, EnrolInv, WorkType, Work, SeedsSuffice
<1>2. CASE Cam!Conflict(w)
  <2>1. UNCHANGED <<target, due, dropped>>
    BY <1>2 DEF Cam!CommitEnrol
  <2>2. Cam!TypeOK' /\ Alone' /\ Cam!EnrolledIsScheduled'
    BY <1>1, <2>1 DEF EnrolInv, Cam!TypeOK, Alone, Cam!EnrolledIsScheduled, Cam!Owned, Cam!Active
  <2> QED BY <1>1, <2>1, <2>2, CloseKeeps DEF EnrolInv
<1>3. CASE ~Cam!Conflict(w)
  <2>1. /\ target' = [target EXCEPT ![w.drive] =
               [b \in Debtors |-> IF b \in w.debtors THEN "active" ELSE @[b]]]
        /\ due' = due \cup w.seeds /\ dropped' = dropped \ w.seeds
    BY <1>3 DEF Cam!CommitEnrol
  <2>2. \A b \in w.debtors, d \in Drives : target[d][b] # "active"
    BY <1>1, <1>3 DEF Cam!Conflict, Cam!Owned, Cam!Active
  <2>3. w.drive \in Drives
    BY <1>1
  <2> HIDE DEF w
  <2>4. \A d \in Drives, b \in Debtors :
          target'[d][b] = IF d = w.drive /\ b \in w.debtors THEN "active" ELSE target[d][b]
    BY <2>1, <2>3 DEF EnrolInv, Cam!TypeOK
  <2>5. Cam!TypeOK'
    BY <1>1, <2>1, <2>3 DEF EnrolInv, Cam!TypeOK, Cam!CampaignTarget
  <2>6. Alone'
    BY <2>2, <2>4 DEF EnrolInv, Alone
  <2>7. Cam!EnrolledIsScheduled'
    BY <1>1, <2>1, <2>4 DEF EnrolInv, Cam!EnrolledIsScheduled, Cam!Owned, Cam!Active
  <2> QED BY <1>1, <2>1, <2>5, <2>6, <2>7, CloseKeeps DEF EnrolInv
<1> QED BY <1>2, <1>3

\* A campaign starts, is paused, or lets targets go.
LEMMA CommitOtherStep ==
  ASSUME EnrolInv, NEW s \in Hands, Cam!CommitStatus(s) \/ Cam!CommitComplete(s)
  PROVE  EnrolInv'
<1> DEFINE w == work[s]
<1>1. w \in Work /\ w.drive \in Drives /\ w.seeds \subseteq Debtors
  BY DEF Cam!CommitStatus, Cam!CommitComplete, EnrolInv, WorkType, Work
<1>2. CASE Cam!CommitStatus(s)
  <2>1. /\ Cam!Close(s) /\ UNCHANGED <<target, owing>>
        /\ due' = due \cup w.seeds /\ dropped' = dropped \ w.seeds
        /\ drive' \in [Drives -> Cam!CampaignStatus \cup {"none"}]
    BY <1>2 DEF Cam!CommitStatus, EnrolInv, Cam!TypeOK, Cam!CampaignStatus
  <2> HIDE DEF w
  <2>2. Cam!TypeOK' /\ Alone' /\ Cam!EnrolledIsScheduled'
    BY <1>1, <2>1 DEF EnrolInv, Cam!TypeOK, Alone, Cam!EnrolledIsScheduled, Cam!Owned, Cam!Active
  <2> QED BY <2>1, <2>2, CloseKeeps DEF EnrolInv
<1>3. CASE Cam!CommitComplete(s)
  <2>1. /\ Cam!Close(s) /\ UNCHANGED <<due, owing, dropped>>
        /\ target' = [target EXCEPT ![w.drive] =
             [b \in Debtors |-> IF b \in w.debtors THEN "inactive" ELSE @[b]]]
        /\ drive' \in [Drives -> Cam!CampaignStatus \cup {"none"}]
    BY <1>3 DEF Cam!CommitComplete, EnrolInv, Cam!TypeOK, Cam!CampaignStatus
  <2> HIDE DEF w
  <2>2. \A d \in Drives, b \in Debtors : target'[d][b] \in {"inactive", target[d][b]}
    BY <1>1, <2>1 DEF EnrolInv, Cam!TypeOK
  <2>3. Cam!TypeOK'
    BY <1>1, <2>1 DEF EnrolInv, Cam!TypeOK, Cam!CampaignTarget
  <2>4. Alone' /\ Cam!EnrolledIsScheduled'
    BY <2>1, <2>2 DEF EnrolInv, Alone, Cam!EnrolledIsScheduled, Cam!Owned, Cam!Active
  <2> QED BY <2>1, <2>3, <2>4, CloseKeeps DEF EnrolInv
<1> QED BY <1>2, <1>3

\* A campaign is created, the scheduler lets a debtor go, an invoice falls due.
LEMMA OutsideWorkStep ==
  ASSUME EnrolInv,
         (\E d \in Drives : Cam!Create(d)) \/ (\E b \in Debtors : Cam!Drop(b) \/ Cam!Owe(b)) \/ UNCHANGED Cam!cvars
  PROVE  EnrolInv'
<1>1. /\ UNCHANGED <<target, work>> /\ due' \cup dropped' = due \cup dropped
      /\ due' \subseteq Debtors /\ dropped' \subseteq Debtors /\ owing' \subseteq Debtors
  BY DEF Cam!Create, Cam!Drop, Cam!Owe, Cam!Claimable, Cam!cvars, EnrolInv, Cam!TypeOK
<1>2. drive' \in [Drives -> Cam!CampaignStatus \cup {"none"}]
  BY DEF Cam!Create, Cam!Drop, Cam!Owe, Cam!cvars, EnrolInv, Cam!TypeOK, Cam!CampaignStatus
<1> QED BY <1>1, <1>2 DEF EnrolInv, Cam!TypeOK, WorkType, Alone, SeedsSuffice,
                          Cam!EnrolledIsScheduled,
                          Cam!Owned, Cam!Active

\* Campaigns move or are at rest.
LEMMA CampaignsPart == Spec => Cam!Spec
<1>1. Init => Cam!Init
  BY DEF Init
<1>2. [Next]_vars => [Cam!Next]_(Cam!cvars)
  BY DEF Next, vars, AtRest, cvars, Cam!cvars
<1> QED BY <1>1, <1>2, PTL DEF Spec, Cam!Spec

\* The invariant holds throughout.
LEMMA EnrolKept == Spec => []EnrolInv
<1>1. EnrolInv /\ [Cam!Next]_(Cam!cvars) => EnrolInv'
  BY OpenWorkStep, CommitEnrolStep, CommitOtherStep, OutsideWorkStep DEF Cam!Next
<1> QED BY InitEnrol, <1>1, CampaignsPart, PTL DEF Cam!Spec

\* However enrolments overlap, a debtor is the active target of one campaign at most.
THEOREM OneCampaignEach == Spec => []OneCampaign
<1>1. EnrolInv => Cam!OneCampaign
  <2> SUFFICES ASSUME EnrolInv, NEW b \in Debtors
      PROVE  Cardinality({ d \in Drives : b \in Cam!Active(d) }) <= 1
    BY CampaignsCount DEF Cam!OneCampaign
  <2> DEFINE D == { d \in Drives : b \in Cam!Active(d) }
  <2>1. \A d, e \in D : d = e
    BY DEF EnrolInv, Alone, Cam!Active
  <2> HIDE DEF D
  <2>2. CASE D = {}
    <3>1. Cardinality(D) = 0
      BY <2>2, FS_EmptySet
    <3> QED BY <3>1 DEF D
  <2>3. CASE D # {}
    <3>1. PICK d : D = {d}
      BY <2>1, <2>3
    <3>2. Cardinality(D) = 1
      BY <3>1, FS_Singleton
    <3> QED BY <3>2 DEF D
  <2> QED BY <2>2, <2>3
<1>2. Cam!OneCampaign => OneCampaign
  BY DEF OneCampaign
<1> QED BY <1>1, <1>2, EnrolKept, PTL

\* Whoever is the target of a campaign is on the schedule, or was let go by the scheduler.
THEOREM EnrolledAreScheduled == Spec => []EnrolledIsScheduled
<1>1. EnrolInv => EnrolledIsScheduled
  BY DEF EnrolInv, EnrolledIsScheduled
<1> QED BY <1>1, EnrolKept, PTL

---------------------------------------------------------------------------
(* Recordings.                                                             *)

\* How far a worker is with a recording.
Stages == {"away", "claiming", "synthesising", "putting", "ready", "staging", "staged"}
Rendered == {"ready", "staging", "staged"}
Task == [at : Stages, asset : Aud!Asset, pcm : {Aud!Absent} \cup Aud!Takes]

\* A row that is READY has its take; whoever writes the row is past claiming it.
Recordings ==
  /\ task \in [Hands -> Task] /\ asset \in Aud!Asset
  /\ takes \in 0 .. MaxTakes /\ store \in {Aud!Absent} \cup Aud!Takes
  /\ {sln, alaw} \subseteq {Aud!Absent, Aud!Truncated} \cup Aud!Takes /\ writer \in Hands \cup {Nobody}
  /\ asset.status = "READY" => asset.take \in Aud!Takes
  /\ \A w \in Hands :
       /\ task[w].at \in Rendered => task[w].asset.status = "READY"
       /\ task[w].at \in {"putting"} \cup Rendered => task[w].asset.take \in Aud!Takes
       /\ writer = w => task[w].at \in {"synthesising", "putting"} \cup Rendered
       /\ task[w].at = "staging" => task[w].pcm \in Aud!Takes
       /\ task[w].at \in {"synthesising", "putting"} => writer = w

\* Unless two rendered at once, whoever renders is alone, and the row is not READY; everybody
\* else has loaded the row as it is; and the store holds what the row, or the renderer, says.
Rendering(w) == writer = w \/ task[w].at = "claiming"
\* A rendering that is under way is the only one of its asset.
SoleRender ==
  ~shared =>
    /\ \A w \in Hands : Rendering(w) => /\ asset.status # "READY"
                                        /\ \A v \in Hands \ {w} : task[v].at = "away"
    /\ \A w \in Hands : task[w].at \in Rendered /\ writer # w => task[w].asset = asset
    /\ \A w \in Hands : task[w].at = "staging" => task[w].pcm = task[w].asset.take
    /\ asset.status = "READY" => store = asset.take
    /\ \A w \in Hands : writer = w /\ task[w].at \in {"putting"} \cup Rendered
                          => store = task[w].asset.take

\* Then a whole file on the box is the take of the row, or the one its renderer has staged.
Boxed ==
  ~shared /\ ~stray => \A f \in {sln, alaw} \cap Aud!Takes :
    \/ asset.status = "READY" /\ f = asset.take
    \/ \E w \in Hands : writer = w /\ task[w].at \in {"staging", "staged"} /\ f = task[w].asset.take

\* What is proved together.
AudioInv == Recordings /\ SoleRender /\ Boxed /\ Aud!PlayedAsRecorded

\* No asset, no file, no call.
LEMMA InitAudio == Aud!Init => AudioInv
<1> SUFFICES ASSUME Aud!Init PROVE AudioInv
  OBVIOUS
<1>1. /\ asset = Aud!Away.asset /\ store = Aud!Absent /\ sln = Aud!Absent /\ alaw = Aud!Absent /\ takes = 0
      /\ task = [w \in Hands |-> Aud!Away] /\ writer = Nobody /\ placed = {}
  BY DEF Aud!Init
<1>2. Aud!Away \in Task /\ Aud!Away.at = "away" /\ Aud!Away.asset.status = "none"
      /\ Aud!Away.asset \in Aud!Asset
  BY DEF Aud!Away, Task, Stages, Aud!Asset
<1>3. \A w \in Hands : task[w] = Aud!Away
  BY <1>1
<1>4. task \in [Hands -> Task] /\ takes \in 0 .. MaxTakes
  BY <1>1, <1>2, BoundAssumption
<1>5. Recordings
  BY <1>1, <1>2, <1>3, <1>4, NobodyIsNobody DEF Recordings, Rendered
<1>6. sln \notin Aud!Takes /\ alaw \notin Aud!Takes
  BY <1>1 DEF Aud!Takes, Aud!Absent
<1>7. SoleRender /\ Boxed
  BY <1>1, <1>2, <1>3, <1>6, NobodyIsNobody DEF SoleRender, Rendering, Boxed
<1>8. Aud!PlayedAsRecorded
  BY <1>1 DEF Aud!PlayedAsRecorded
<1> QED BY <1>5, <1>7, <1>8 DEF AudioInv

\* The turn of one worker, that leaves the others.
LEMMA WorkerTurn ==
  ASSUME Recordings, NEW w \in Hands, NEW t \in Task, Aud!Turn(w, t)
  PROVE  /\ task' \in [Hands -> Task]
         /\ \A v \in Hands : task'[v] = IF v = w THEN t ELSE task[v]
BY DEF Recordings, Aud!Turn

\* A worker who is away has nothing in hand.
LEMMA AwayTask == Aud!Away \in Task /\ Aud!Away.at = "away"
BY DEF Aud!Away, Task, Stages, Aud!Asset

\* A worker looks the asset up.
LEMMA LookUpStep ==
  ASSUME AudioInv, NEW w \in Hands, Aud!LookUp(w)
  PROVE  AudioInv'
<1> DEFINE t == [Aud!Away EXCEPT !.at = IF asset.status = "READY" THEN "ready" ELSE "claiming",
                          !.asset = asset]
<1>1. /\ task[w].at = "away" /\ Aud!Turn(w, t)
      /\ shared' = (shared \/ \E v \in Hands \ {w} : writer = v \/ task[v].at = "claiming")
      /\ UNCHANGED <<asset, store, sln, alaw, takes, writer, placed, stray>>
  BY DEF Aud!LookUp, Aud!At
<1>2. t \in Task /\ t.asset = asset
      /\ t.at = IF asset.status = "READY" THEN "ready" ELSE "claiming"
  <2>1. asset \in Aud!Asset
    BY DEF AudioInv, Recordings
  <2> QED BY <2>1 DEF Task, Stages, Aud!Away
<1> HIDE DEF t
<1>3. task' \in [Hands -> Task] /\ \A v \in Hands : task'[v] = IF v = w THEN t ELSE task[v]
  BY <1>1, <1>2, WorkerTurn DEF AudioInv
<1>4. writer # w
  BY <1>1 DEF AudioInv, Recordings, Rendered
<1>5. Recordings'
  BY <1>1, <1>2, <1>3, <1>4 DEF AudioInv, Recordings, Rendered
<1>6. SoleRender'
  <2> SUFFICES ASSUME ~shared' PROVE SoleRender'
    BY DEF SoleRender
  <2>1. ~shared /\ \A v \in Hands : ~Rendering(v)
    BY <1>1, <1>4 DEF Rendering
  <2>2. \A v \in Hands : task[v].at \in Rendered => asset.status = "READY"
    BY <2>1 DEF AudioInv, SoleRender, Recordings, Rendering
  <2>3. \A v \in Hands : asset.status # "READY" => task[v].at = "away"
    BY <2>1, <2>2 DEF AudioInv, Recordings, Rendering, Task, Stages, Rendered
  <2> QED BY <1>1, <1>2, <1>3, <1>4, <2>1, <2>3 DEF AudioInv, SoleRender, Rendering
<1>7. Boxed'
  BY <1>1, <1>3, <1>4 DEF AudioInv, Boxed
<1>8. Aud!PlayedAsRecorded'
  BY <1>1 DEF AudioInv, Aud!PlayedAsRecorded
<1> QED BY <1>5, <1>6, <1>7, <1>8 DEF AudioInv

\* The row is claimed, and rendered: nobody else has it, unless two render at once.
LEMMA ClaimStep ==
  ASSUME AudioInv, NEW w \in Hands, Aud!Claim(w)
  PROVE  AudioInv'
<1>1. /\ task[w].at = "claiming" /\ writer = Nobody
      /\ UNCHANGED <<asset, store, sln, alaw, takes, placed, shared, stray>>
  BY DEF Aud!Claim, Aud!At
<1>2. Aud!PlayedAsRecorded'
  BY <1>1 DEF AudioInv, Aud!PlayedAsRecorded
<1>3. task[w] \in Task /\ \A v \in Hands : writer # v
  BY <1>1, NobodyIsNobody DEF AudioInv, Recordings
<1>4. CASE Aud!Turn(w, Aud!Away) /\ UNCHANGED writer
  <2>1. task' \in [Hands -> Task] /\ \A v \in Hands : task'[v] = IF v = w THEN Aud!Away ELSE task[v]
    BY <1>4, AwayTask, WorkerTurn DEF AudioInv
  <2>2. Recordings'
    BY <1>1, <1>3, <1>4, <2>1, AwayTask DEF AudioInv, Recordings, Rendered
  <2>3. SoleRender'
    BY <1>1, <1>3, <1>4, <2>1, AwayTask DEF AudioInv, SoleRender, Rendering, Rendered
  <2>4. Boxed'
    BY <1>1, <1>3 DEF AudioInv, Boxed
  <2> QED BY <1>2, <2>2, <2>3, <2>4 DEF AudioInv
<1>5. CASE writer' = w /\ Aud!Turn(w, [task[w] EXCEPT !.at = "synthesising", !.asset.status = "PENDING"])
  <2> DEFINE p == [task[w].asset EXCEPT !.status = "PENDING"]
             t == [task[w] EXCEPT !.at = "synthesising", !.asset = p]
  <2>1. p \in Aud!Asset
    BY <1>3 DEF Task, Aud!Asset
  <2>2. Aud!Turn(w, t)
    BY <1>3, <1>5 DEF Task
  <2> HIDE DEF p
  <2>3. t \in Task /\ t.at = "synthesising"
    BY <1>3, <2>1 DEF Task, Stages
  <2> HIDE DEF t
  <2>4. task' \in [Hands -> Task] /\ \A v \in Hands : task'[v] = IF v = w THEN t ELSE task[v]
    BY <2>2, <2>3, WorkerTurn DEF AudioInv
  <2>5. Recordings'
    BY <1>1, <1>3, <1>5, <2>3, <2>4 DEF AudioInv, Recordings, Rendered
  <2>6. SoleRender'
    BY <1>1, <1>3, <1>5, <2>3, <2>4 DEF AudioInv, SoleRender, Rendering, Rendered
  <2>7. Boxed'
    BY <1>1, <1>3 DEF AudioInv, Boxed
  <2> QED BY <1>2, <2>5, <2>6, <2>7 DEF AudioInv
<1> QED BY <1>4, <1>5 DEF Aud!Claim

\* A synthesis makes a take that nobody has.
LEMMA SynthesiseStep ==
  ASSUME AudioInv, NEW w \in Hands, Aud!Synthesise(w)
  PROVE  AudioInv'
<1> DEFINE p == [task[w].asset EXCEPT !.take = takes + 1]
           t == [task[w] EXCEPT !.at = "putting", !.asset = p]
<1>1. /\ task[w].at = "synthesising" /\ takes < MaxTakes /\ takes' = takes + 1 /\ store' = takes + 1
      /\ UNCHANGED <<asset, sln, alaw, writer, placed, shared, stray>>
  BY DEF Aud!Synthesise, Aud!At
<1>2. task[w] \in Task /\ writer = w /\ takes \in 0 .. MaxTakes
  BY <1>1 DEF AudioInv, Recordings
<1>3. Aud!Turn(w, t)
  BY <1>2 DEF Aud!Synthesise, Task
<1>4. takes + 1 \in Aud!Takes /\ takes' \in 0 .. MaxTakes
  BY <1>1, <1>2, BoundAssumption DEF Aud!Takes
<1>5. p \in Aud!Asset /\ p.take = takes + 1
  BY <1>2, <1>4 DEF Task, Aud!Asset
<1> HIDE DEF p
<1>6. t \in Task /\ t.at = "putting" /\ t.asset = p
  BY <1>2, <1>5 DEF Task, Stages
<1> HIDE DEF t
<1>7. task' \in [Hands -> Task] /\ \A v \in Hands : task'[v] = IF v = w THEN t ELSE task[v]
  BY <1>3, <1>6, WorkerTurn DEF AudioInv
<1>8. Recordings'
  BY <1>1, <1>2, <1>4, <1>5, <1>6, <1>7 DEF AudioInv, Recordings, Rendered
<1>9. SoleRender'
  <2>1. ~shared => asset.status # "READY" /\ \A v \in Hands \ {w} : task[v].at = "away"
    BY <1>2 DEF AudioInv, SoleRender, Rendering
  <2> QED BY <1>1, <1>2, <1>5, <1>6, <1>7, <2>1 DEF AudioInv, SoleRender, Rendering
<1>10. Boxed'
  BY <1>1, <1>2, <1>6, <1>7 DEF AudioInv, Boxed
<1>11. Aud!PlayedAsRecorded'
  BY <1>1 DEF AudioInv, Aud!PlayedAsRecorded
<1> QED BY <1>8, <1>9, <1>10, <1>11 DEF AudioInv

\* The second copy is put, and the row in the session says READY.
LEMMA ReadyStep ==
  ASSUME AudioInv, NEW w \in Hands, Aud!Ready(w)
  PROVE  AudioInv'
<1> DEFINE p == [task[w].asset EXCEPT !.status = "READY"]
           t == [task[w] EXCEPT !.at = "ready", !.asset = p]
<1>1. /\ task[w].at = "putting" /\ UNCHANGED <<asset, store, sln, alaw, takes, writer, placed, shared, stray>>
  BY DEF Aud!Ready, Aud!At
<1>2. task[w] \in Task /\ writer = w /\ task[w].asset.take \in Aud!Takes
  BY <1>1 DEF AudioInv, Recordings
<1>3. Aud!Turn(w, t)
  BY <1>2 DEF Aud!Ready, Task
<1>4. p \in Aud!Asset /\ p.take = task[w].asset.take /\ p.status = "READY"
  BY <1>2 DEF Task, Aud!Asset
<1> HIDE DEF p
<1>5. t \in Task /\ t.at = "ready" /\ t.asset = p
  BY <1>2, <1>4 DEF Task, Stages
<1> HIDE DEF t
<1>6. task' \in [Hands -> Task] /\ \A v \in Hands : task'[v] = IF v = w THEN t ELSE task[v]
  BY <1>3, <1>5, WorkerTurn DEF AudioInv
<1>7. Recordings'
  BY <1>1, <1>2, <1>4, <1>5, <1>6 DEF AudioInv, Recordings, Rendered
<1>8. SoleRender'
  BY <1>1, <1>2, <1>4, <1>5, <1>6 DEF AudioInv, SoleRender, Rendering
<1>9. Boxed'
  BY <1>1, <1>2, <1>5, <1>6 DEF AudioInv, Boxed
<1>10. Aud!PlayedAsRecorded'
  BY <1>1 DEF AudioInv, Aud!PlayedAsRecorded
<1> QED BY <1>7, <1>8, <1>9, <1>10 DEF AudioInv

\* Nothing has been placed while somebody renders alone.
LEMMA NothingPlaced ==
  ASSUME AudioInv, NEW w \in Hands, writer = w, ~shared
  PROVE  placed = {}
BY DEF AudioInv, SoleRender, Rendering, Aud!PlayedAsRecorded

\* A rendering fails, and the asset says so.
LEMMA RenderFailsStep ==
  ASSUME AudioInv, NEW w \in Hands, Aud!RenderFails(w)
  PROVE  AudioInv'
<1>1. /\ task[w].at \in {"synthesising", "putting"} /\ Aud!Turn(w, Aud!Away) /\ Aud!Releases(w)
      /\ asset' = [task[w].asset EXCEPT !.status = "FAILED", !.take = asset.take]
      /\ UNCHANGED <<store, sln, alaw, takes, placed, shared, stray>>
  BY DEF Aud!RenderFails
<1>2. task[w] \in Task /\ asset \in Aud!Asset /\ writer = w
  BY <1>1 DEF AudioInv, Recordings
<1>3. asset' \in Aud!Asset /\ asset'.status = "FAILED"
  <2> DEFINE m == [task[w].asset EXCEPT !.status = "FAILED"]
  <2>1. m \in Aud!Asset /\ m.status = "FAILED"
    BY <1>2 DEF Task, Aud!Asset
  <2>2. asset' = [m EXCEPT !.take = asset.take]
    BY <1>1
  <2> HIDE DEF m
  <2> QED BY <1>2, <2>1, <2>2 DEF Aud!Asset
<1>4. writer' = Nobody /\ \A v \in Hands : writer' # v
  BY <1>1, <1>2, NobodyIsNobody DEF Aud!Releases
<1>5. task' \in [Hands -> Task] /\ \A v \in Hands : task'[v] = IF v = w THEN Aud!Away ELSE task[v]
  BY <1>1, AwayTask, WorkerTurn DEF AudioInv
<1>6. Recordings'
  BY <1>1, <1>2, <1>3, <1>4, <1>5, AwayTask DEF AudioInv, Recordings, Rendered
<1>7. SoleRender'
  <2>1. ~shared => \A v \in Hands : task'[v].at = "away"
    BY <1>2, <1>5, AwayTask DEF AudioInv, SoleRender, Rendering
  <2> QED BY <1>1, <1>3, <1>4, <2>1 DEF SoleRender, Rendering, Rendered
<1>8. Boxed'
  <2>1. ~shared /\ ~stray => sln \notin Aud!Takes /\ alaw \notin Aud!Takes
    BY <1>1, <1>2 DEF AudioInv, Boxed, SoleRender, Rendering
  <2> QED BY <1>1, <2>1 DEF Boxed
<1>9. Aud!PlayedAsRecorded'
  BY <1>1, <1>2, NothingPlaced DEF AudioInv, Aud!PlayedAsRecorded
<1> QED BY <1>6, <1>7, <1>8, <1>9 DEF AudioInv

\* A whole file has a size, and nothing else has.
LEMMA WholeFiles ==
  ASSUME NEW f
  PROVE  /\ f \in Aud!Takes => Aud!Size(f) # 0
         /\ f \notin Aud!Takes => Aud!Size(f) = 0
<1>1. ASSUME f \in Aud!Takes PROVE Aud!Size(f) # 0
  <2>1. f \in Int
    BY <1>1 DEF Aud!Takes
  <2>2. Aud!Size(f) = (f % 2) + 1
    BY <1>1 DEF Aud!Size
  <2> QED BY <2>1, <2>2
<1> QED BY <1>1 DEF Aud!Size

\* What the store holds is written to the box, unless it seems to be there: first the .sln.
LEMMA StageStep ==
  ASSUME AudioInv, NEW w \in Hands, Aud!Stage(w)
  PROVE  AudioInv'
<1> DEFINE a == task[w].asset
           t == [task[w] EXCEPT !.at = "staged"]
           u == [task[w] EXCEPT !.at = "staging", !.pcm = store]
<1>1. /\ task[w].at = "ready" /\ store # Aud!Absent
      /\ UNCHANGED <<asset, store, alaw, takes, writer, placed, shared, stray>>
      /\ \/ Aud!IsStaged(a) /\ Aud!Turn(w, t) /\ sln' = sln
         \/ ~Aud!IsStaged(a) /\ Aud!Turn(w, u) /\ sln' = store
  BY DEF Aud!Stage, Aud!At, Aud!Goto
<1>2. task[w] \in Task /\ store \in Aud!Takes /\ a.status = "READY" /\ a.take \in Aud!Takes
  BY <1>1 DEF AudioInv, Recordings, Rendered
<1>3. /\ t \in Task /\ t.at = "staged" /\ t.asset = a
      /\ u \in Task /\ u.at = "staging" /\ u.asset = a /\ u.pcm = store
  BY <1>2 DEF Task, Stages
<1> HIDE DEF t, u
<1>4. PICK z \in {t, u} : Aud!Turn(w, z)
  BY <1>1
<1>5. /\ z \in Task /\ z.at \in {"staging", "staged"} /\ z.asset = a
      /\ z.at = "staging" => z.pcm = store
  BY <1>3
<1>6. task' \in [Hands -> Task] /\ \A v \in Hands : task'[v] = IF v = w THEN z ELSE task[v]
  BY <1>4, <1>5, WorkerTurn DEF AudioInv
<1>7. Recordings'
  BY <1>1, <1>2, <1>5, <1>6 DEF AudioInv, Recordings, Rendered
<1>8. ~shared => store = a.take
  BY <1>1, <1>2 DEF AudioInv, SoleRender, Rendered
<1>9. SoleRender'
  BY <1>1, <1>5, <1>6, <1>8 DEF AudioInv, SoleRender, Rendering, Rendered
<1>10. Boxed'
  <2> SUFFICES ASSUME ~shared, ~stray, NEW f \in {sln', alaw'} \cap Aud!Takes
      PROVE  \/ asset.status = "READY" /\ f = asset.take
             \/ \E v \in Hands : writer = v /\ task'[v].at \in {"staging", "staged"}
                                 /\ f = task'[v].asset.take
    BY <1>1 DEF Boxed
  <2>1. CASE f \in {sln, alaw}
    BY <1>1, <1>6, <2>1 DEF AudioInv, Boxed
  <2>2. CASE f = store
    <3>1. CASE writer = w
      BY <1>5, <1>6, <1>8, <2>2, <3>1
    <3>2. CASE writer # w
      <4>1. asset = a
        BY <1>1, <3>2 DEF AudioInv, SoleRender, Rendered
      <4> QED BY <1>2, <1>8, <2>2, <4>1
    <3> QED BY <3>1, <3>2
  <2> QED BY <1>1, <2>1, <2>2
<1>11. Aud!PlayedAsRecorded'
  BY <1>1 DEF AudioInv, Aud!PlayedAsRecorded
<1> QED BY <1>7, <1>9, <1>10, <1>11 DEF AudioInv

\* Then the .alaw, of the same reading.
LEMMA StageCopyStep ==
  ASSUME AudioInv, NEW w \in Hands, Aud!StageCopy(w)
  PROVE  AudioInv'
<1> DEFINE a == task[w].asset
           t == [task[w] EXCEPT !.at = "staged", !.pcm = Aud!Absent]
<1>1. /\ task[w].at = "staging" /\ alaw' = task[w].pcm /\ Aud!Turn(w, t)
      /\ UNCHANGED <<asset, store, sln, takes, writer, placed, shared, stray>>
  BY DEF Aud!StageCopy, Aud!At
<1>2. /\ task[w] \in Task /\ task[w].pcm \in Aud!Takes
      /\ a.status = "READY" /\ a.take \in Aud!Takes
  BY <1>1 DEF AudioInv, Recordings, Rendered
<1>3. t \in Task /\ t.at = "staged" /\ t.asset = a
  BY <1>2 DEF Task, Stages
<1> HIDE DEF t
<1>4. task' \in [Hands -> Task] /\ \A v \in Hands : task'[v] = IF v = w THEN t ELSE task[v]
  BY <1>1, <1>3, WorkerTurn DEF AudioInv
<1>5. Recordings'
  BY <1>1, <1>2, <1>3, <1>4 DEF AudioInv, Recordings, Rendered
<1>6. ~shared => task[w].pcm = a.take
  BY <1>1 DEF AudioInv, SoleRender
<1>7. SoleRender'
  BY <1>1, <1>3, <1>4 DEF AudioInv, SoleRender, Rendering, Rendered
<1>8. Boxed'
  <2> SUFFICES ASSUME ~shared, ~stray, NEW f \in {sln', alaw'} \cap Aud!Takes
      PROVE  \/ asset.status = "READY" /\ f = asset.take
             \/ \E v \in Hands : writer = v /\ task'[v].at \in {"staging", "staged"}
                                 /\ f = task'[v].asset.take
    BY <1>1 DEF Boxed
  <2>1. CASE f = sln
    BY <1>1, <1>3, <1>4, <2>1 DEF AudioInv, Boxed
  <2>2. CASE f = task[w].pcm
    <3>1. CASE writer = w
      BY <1>3, <1>4, <1>6, <2>2, <3>1
    <3>2. CASE writer # w
      <4>1. asset = a
        BY <1>1, <3>2 DEF AudioInv, SoleRender, Rendered
      <4> QED BY <1>2, <1>6, <2>2, <4>1
    <3> QED BY <3>1, <3>2
  <2> QED BY <1>1, <2>1, <2>2
<1>9. Aud!PlayedAsRecorded'
  BY <1>1 DEF AudioInv, Aud!PlayedAsRecorded
<1> QED BY <1>5, <1>7, <1>8, <1>9 DEF AudioInv

\* What passes the preflight is what will be heard.
LEMMA PreflightStep ==
  ASSUME AudioInv, NEW w \in Hands, Aud!Preflight(w)
  PROVE  AudioInv'
<1> DEFINE a == task[w].asset
           p == [recorded |-> a.take, checked |-> sln, heard |-> Aud!Heard,
                 doubtful |-> shared \/ stray \/ alaw = Aud!Truncated]
           kept == {q \in placed : q.recorded # a.take}
<1>1. /\ task[w].at = "staged" /\ Aud!Turn(w, Aud!Away) /\ Aud!Releases(w)
      /\ asset' = IF writer = w THEN a ELSE asset
      /\ placed' = IF Aud!IsStaged(a) THEN kept \cup {p} ELSE placed
      /\ UNCHANGED <<store, sln, alaw, takes, shared, stray>>
  BY DEF Aud!Preflight, Aud!At
<1>2. task[w] \in Task /\ a \in Aud!Asset /\ a.status = "READY" /\ a.take \in Aud!Takes
  BY <1>1 DEF AudioInv, Recordings, Task, Rendered
<1>3. a = [status |-> "READY", take |-> a.take]
  BY <1>2 DEF Aud!Asset
<1>4. /\ writer = w => writer' = Nobody
      /\ writer # w => writer' = writer
  BY <1>1 DEF Aud!Releases
<1>5. task' \in [Hands -> Task] /\ \A v \in Hands : task'[v] = IF v = w THEN Aud!Away ELSE task[v]
  BY <1>1, AwayTask, WorkerTurn DEF AudioInv
<1>6. ~shared =>
        /\ writer = w => store = a.take /\ placed = {} /\ \A v \in Hands \ {w} : task[v].at = "away"
        /\ writer # w => asset = a /\ \A v \in Hands : writer # v
  BY <1>1, NothingPlaced DEF AudioInv, SoleRender, Rendering, Rendered
<1>7. Aud!IsStaged(a) => sln \in Aud!Takes /\ Aud!Size(sln) = Aud!Size(a.take)
  BY <1>2, WholeFiles DEF Aud!IsStaged
<1>8. ~shared /\ ~stray => \A f \in {sln, alaw} \cap Aud!Takes : f = a.take
  BY <1>1, <1>6 DEF AudioInv, Boxed, SoleRender, Rendering
<1>9. ~shared => asset' = a
  BY <1>1, <1>6
<1> HIDE DEF a
<1>10. Recordings'
  BY <1>1, <1>2, <1>4, <1>5, AwayTask, NobodyIsNobody DEF AudioInv, Recordings, Rendered
<1>11. SoleRender'
  <2>1. CASE writer = w
    BY <1>1, <1>4, <1>5, <1>6, <1>9, <2>1, AwayTask, NobodyIsNobody DEF SoleRender, Rendering, Rendered
  <2>2. CASE writer # w
    BY <1>1, <1>4, <1>5, <1>6, <1>9, <2>2, AwayTask DEF AudioInv, SoleRender, Rendering, Rendered
  <2> QED BY <2>1, <2>2
<1>12. Boxed'
  BY <1>1, <1>2, <1>8, <1>9 DEF Boxed
<1>13. Aud!PlayedAsRecorded'
  <2> SUFFICES ASSUME NEW q \in placed'
      PROVE  /\ q.checked \in Aud!Takes /\ Aud!Size(q.checked) = Aud!Size(q.recorded)
             /\ ~q.doubtful => q.heard = q.recorded
             /\ ~shared => asset' = [status |-> "READY", take |-> q.recorded]
    BY <1>1 DEF Aud!PlayedAsRecorded
  <2>1. CASE q \in placed
    <3>1. /\ q.checked \in Aud!Takes /\ Aud!Size(q.checked) = Aud!Size(q.recorded)
          /\ ~q.doubtful => q.heard = q.recorded
          /\ ~shared => asset = [status |-> "READY", take |-> q.recorded]
      BY <2>1 DEF AudioInv, Aud!PlayedAsRecorded
    <3>2. ~shared => asset' = asset
      BY <1>1, <1>6, <2>1
    <3> QED BY <3>1, <3>2
  <2>2. CASE Aud!IsStaged(a) /\ q = p
    <3>1. /\ q.recorded = a.take /\ q.checked = sln /\ q.heard = Aud!Heard
          /\ q.doubtful = (shared \/ stray \/ alaw = Aud!Truncated)
      BY <2>2
    <3> HIDE DEF p
    <3>2. ~q.doubtful => q.heard = a.take
      <4> SUFFICES ASSUME ~shared, ~stray, alaw # Aud!Truncated PROVE Aud!Heard = a.take
        BY <3>1
      <4>1. alaw = Aud!Absent \/ alaw \in Aud!Takes
        BY DEF AudioInv, Recordings
      <4> QED BY <1>7, <1>8, <2>2, <4>1 DEF Aud!Heard
    <3> QED BY <1>3, <1>7, <1>9, <2>2, <3>1, <3>2
  <2> QED BY <1>1, <2>1, <2>2
<1> QED BY <1>10, <1>11, <1>12, <1>13 DEF AudioInv

\* A worker dies: its row rolls back, its files stay.
LEMMA DiesStep ==
  ASSUME AudioInv, NEW w \in Hands, Aud!Dies(w)
  PROVE  AudioInv'
<1>1. /\ Aud!Turn(w, Aud!Away) /\ Aud!Releases(w)
      /\ stray' = (stray \/ (task[w].at \in {"staging", "staged"} /\ writer = w))
      /\ UNCHANGED <<asset, store, sln, alaw, takes, placed, shared>>
  BY DEF Aud!Dies, Aud!At
<1>2. /\ writer = w => writer' = Nobody
      /\ writer # w => writer' = writer
  BY <1>1 DEF Aud!Releases
<1>3. task' \in [Hands -> Task] /\ \A v \in Hands : task'[v] = IF v = w THEN Aud!Away ELSE task[v]
  BY <1>1, AwayTask, WorkerTurn DEF AudioInv
<1>4. Recordings'
  BY <1>1, <1>2, <1>3, AwayTask, NobodyIsNobody DEF AudioInv, Recordings, Rendered
<1>5. SoleRender'
  BY <1>1, <1>2, <1>3, AwayTask, NobodyIsNobody DEF AudioInv, SoleRender, Rendering, Rendered
<1>6. Boxed'
  <2> SUFFICES ASSUME ~shared, ~stray', NEW f \in {sln, alaw} \cap Aud!Takes
      PROVE  \/ asset.status = "READY" /\ f = asset.take
             \/ \E v \in Hands : writer' = v /\ task'[v].at \in {"staging", "staged"}
                                 /\ f = task'[v].asset.take
    BY <1>1 DEF Boxed
  <2>1. ~stray /\ ~(task[w].at \in {"staging", "staged"} /\ writer = w)
    BY <1>1
  <2>2. \/ asset.status = "READY" /\ f = asset.take
        \/ \E v \in Hands : writer = v /\ task[v].at \in {"staging", "staged"}
                            /\ f = task[v].asset.take
    BY <2>1 DEF AudioInv, Boxed
  <2> QED BY <1>2, <1>3, <2>1, <2>2
<1>7. Aud!PlayedAsRecorded'
  BY <1>1 DEF AudioInv, Aud!PlayedAsRecorded
<1> QED BY <1>4, <1>5, <1>6, <1>7 DEF AudioInv

\* The box loses the file, or part of it.
LEMMA BoxFailsStep ==
  ASSUME AudioInv, Aud!BoxFails
  PROVE  AudioInv'
<1>1. /\ {sln', alaw'} \subseteq {sln, alaw, Aud!Absent, Aud!Truncated}
      /\ UNCHANGED <<asset, store, takes, task, writer, placed, shared, stray>>
  BY DEF Aud!BoxFails
<1>2. Aud!Absent \notin Aud!Takes /\ Aud!Truncated \notin Aud!Takes
  BY DEF Aud!Absent, Aud!Truncated, Aud!Takes
<1> QED BY <1>1, <1>2 DEF AudioInv, Recordings, SoleRender, Rendering, Boxed, Aud!PlayedAsRecorded

\* A behaviour of the whole is one of Audio.
LEMMA AudioPart == Spec => Aud!Spec
<1>1. Init => Aud!Init
  BY DEF Init
<1>2. [Next]_vars => [Aud!Next]_(Aud!uvars)
  BY DEF Next, vars, AtRest, uvars, Aud!uvars
<1> QED BY <1>1, <1>2, PTL DEF Spec, Aud!Spec

\* What is proved of recordings is true throughout.
LEMMA RecordingsKept == Spec => []AudioInv
<1>1. AudioInv /\ [Aud!Next]_(Aud!uvars) => AudioInv'
  <2> SUFFICES ASSUME AudioInv, [Aud!Next]_(Aud!uvars) PROVE AudioInv'
    OBVIOUS
  <2>1. CASE UNCHANGED Aud!uvars
    BY <2>1 DEF Aud!uvars, AudioInv, Recordings, SoleRender, Rendering, Boxed, Aud!PlayedAsRecorded
  <2>2. CASE Aud!Next
    BY <2>2, LookUpStep, ClaimStep, SynthesiseStep, ReadyStep, RenderFailsStep, StageStep, StageCopyStep,
       PreflightStep, DiesStep, BoxFailsStep DEF Aud!Next
  <2> QED BY <2>1, <2>2
<1> QED BY InitAudio, <1>1, AudioPart, PTL DEF Aud!Spec

\* Whatever fails on the way, a call is placed only with a whole .sln of the recorded size,
\* and plays the recorded take, from whichever file, unless two workers rendered the message
\* at once, one died between staging and commit or the box lost part of the .alaw: for any
\* number of workers and of takes (telephony/staging.py:47-76).
THEOREM RecordingsPlayed == Spec => []PlayedAsRecorded
<1>1. AudioInv => PlayedAsRecorded
  BY DEF AudioInv, PlayedAsRecorded
<1> QED BY <1>1, RecordingsKept, PTL

---------------------------------------------------------------------------
(* The ladder.                                                             *)

\* What a debtor owes on one account, with the ladder it is on.
Owe == [status : {"OVERDUE", "IN_DISPUTE", "SETTLED"}, big : BOOLEAN, due : Nat, level : {1, 2},
        entered : Nat, attempts : Nat, delivered : Nat, last : Int]

\* The ladder has counted no more calls than there were, and what is not on it stays at L1.
Counted ==
  /\ today \in Nat /\ owes \in [Debts -> Owe] /\ tried \in [Debts -> Nat]
  /\ reached \in [Debts -> Nat]
  /\ \A a \in Debts :
       /\ owes[a].attempts <= tried[a] /\ owes[a].delivered <= reached[a]
       /\ a \notin Laddered => owes[a].level = 1 /\ owes[a].attempts = 0

\* Nobody was called, and the ladders count nothing.
LEMMA InitLadder == Pol!Init => Counted
<1> SUFFICES ASSUME Pol!Init PROVE Counted
  OBVIOUS
<1> DEFINE o(a) == [status |-> "OVERDUE", big |-> TRUE, due |-> 0,
                    level |-> IF a \in AtL2 THEN 2 ELSE 1, entered |-> 0,
                    attempts |-> IF a \in AtL2 THEN MaxAttempts ELSE 0, delivered |-> 0,
                    last |-> Pol!Never]
<1>1. /\ today = 0 /\ owes = [a \in Debts |-> o(a)]
      /\ tried = [a \in Debts |-> owes[a].attempts] /\ reached = [a \in Debts |-> 0]
  BY DEF Pol!Init
<1>2. \A a \in Debts : /\ o(a) \in Owe /\ o(a).delivered = 0
                       /\ a \notin Laddered => o(a).level = 1 /\ o(a).attempts = 0
  BY LadderAssumption DEF Owe, Pol!Never
<1> HIDE DEF o
<1>3. \A a \in Debts : owes[a] = o(a) /\ tried[a] = o(a).attempts /\ reached[a] = 0
  BY <1>1
<1>4. owes \in [Debts -> Owe]
  BY <1>1, <1>2
<1>5. \A a \in Debts : o(a).attempts \in Nat
  BY <1>2 DEF Owe
<1>6. tried \in [Debts -> Nat]
  BY <1>1, <1>3, <1>5
<1> QED BY <1>1, <1>2, <1>3, <1>4, <1>5, <1>6 DEF Counted

\* One account changes: its counters and what they count.
Writes(a, o, n, k) ==
  /\ owes' = [owes EXCEPT ![a] = o] /\ tried' = [tried EXCEPT ![a] = n]
  /\ reached' = [reached EXCEPT ![a] = k] /\ UNCHANGED today

\* Counting one more on one ladder.
LEMMA LadderStep ==
  ASSUME Counted, NEW a \in Debts, NEW o \in Owe, NEW n \in Nat, NEW k \in Nat,
         Writes(a, o, n, k), o.attempts <= n, o.delivered <= k,
         a \notin Laddered => o.level = 1 /\ o.attempts = 0
  PROVE  Counted'
BY DEF Counted, Writes

\* A call ends, and is counted as what it was.
LEMMA CallEndsStep ==
  ASSUME Counted, Pol!CallEnds
  PROVE  Counted'
<1> DEFINE a == said.account
<1>1. PICK delivered \in BOOLEAN :
        /\ owes' = IF a \in Laddered
                   THEN [owes EXCEPT ![a] = [Pol!RecordAttempt(owes[a], delivered) EXCEPT !.last = today]]
                   ELSE owes
        /\ tried' = [tried EXCEPT ![a] = IF delivered THEN 0 ELSE tried[a] + 1]
        /\ reached' = [reached EXCEPT ![a] = IF delivered THEN reached[a] + 1 ELSE reached[a]]
        /\ UNCHANGED today
  BY DEF Pol!CallEnds
<1> HIDE DEF a
<1>2. CASE a \notin Debts
  BY <1>1, <1>2 DEF Counted
<1>3. CASE a \in Debts
  <2> DEFINE n == IF delivered THEN 0 ELSE tried[a] + 1
             k == IF delivered THEN reached[a] + 1 ELSE reached[a]
             r == Pol!RecordAttempt(owes[a], delivered)
             o == IF a \in Laddered THEN [r EXCEPT !.last = today] ELSE owes[a]
  <2>1. /\ owes[a] \in Owe /\ tried[a] \in Nat /\ reached[a] \in Nat /\ today \in Nat
        /\ owes[a].attempts <= tried[a] /\ owes[a].delivered <= reached[a]
        /\ a \notin Laddered => owes[a].level = 1 /\ owes[a].attempts = 0
    BY <1>3 DEF Counted
  <2>2. n \in Nat /\ k \in Nat /\ k >= reached[a]
    BY <2>1
  <2>3. /\ r \in Owe /\ r.attempts <= n /\ r.delivered <= k
    <3>1. CASE delivered
      <4> DEFINE m == [owes[a] EXCEPT !.attempts = 0]
      <4>1. m \in Owe /\ m.attempts = 0 /\ m.delivered = owes[a].delivered
        BY <2>1 DEF Owe
      <4>2. r = [m EXCEPT !.delivered = m.delivered + 1]
        BY <2>1, <3>1, <4>1 DEF Pol!RecordAttempt
      <4> HIDE DEF m, r
      <4>3. r \in Owe /\ r.attempts = 0 /\ r.delivered = owes[a].delivered + 1
        BY <4>1, <4>2 DEF Owe
      <4> QED BY <2>1, <3>1, <4>3 DEF Owe
    <3>2. CASE ~delivered
      <4>1. r = [owes[a] EXCEPT !.attempts = owes[a].attempts + 1]
        BY <3>2 DEF Pol!RecordAttempt
      <4> HIDE DEF r
      <4>2. r \in Owe /\ r.attempts = owes[a].attempts + 1 /\ r.delivered = owes[a].delivered
        BY <2>1, <4>1 DEF Owe
      <4> QED BY <2>1, <3>2, <4>2 DEF Owe
    <3> QED BY <3>1, <3>2
  <2> HIDE DEF r
  <2>4. [r EXCEPT !.last = today] \in Owe /\ [r EXCEPT !.last = today].attempts = r.attempts
        /\ [r EXCEPT !.last = today].delivered = r.delivered
    BY <2>1, <2>3 DEF Owe
  <2>5. CASE a \in Laddered
    <3>1. owes' = [owes EXCEPT ![a] = [r EXCEPT !.last = today]]
      BY <1>1, <2>5 DEF r
    <3> DEFINE e == [r EXCEPT !.last = today]
    <3>2. Writes(a, e, n, k)
      BY <1>1, <3>1 DEF Writes
    <3> HIDE DEF n, k
    <3>3. e \in Owe /\ e.attempts <= n /\ e.delivered <= k
      BY <2>3, <2>4
    <3> HIDE DEF e
    <3> QED BY <1>3, <2>2, <2>5, <3>2, <3>3, LadderStep
  <2>6. CASE a \notin Laddered
    <3>1. owes' = [owes EXCEPT ![a] = owes[a]]
      BY <1>1, <2>6 DEF Counted
    <3>2. Writes(a, owes[a], n, k)
      BY <1>1, <3>1 DEF Writes
    <3>3. owes[a].attempts <= n /\ owes[a].delivered <= k
      BY <2>1, <2>2, <2>6 DEF Owe
    <3> HIDE DEF n, k
    <3> QED BY <1>3, <2>1, <2>2, <2>6, <3>2, <3>3, LadderStep
  <2> QED BY <2>5, <2>6
<1> QED BY <1>2, <1>3

\* Payments and disputes leave the level; a payment starts the count again.
LEMMA OwedStep ==
  ASSUME Counted, NEW a \in Debts, Pol!PartPaid(a) \/ Pol!Disputed(a) \/ Pol!Cleared(a)
  PROVE  Counted'
<1>1. /\ owes[a] \in Owe /\ tried[a] \in Nat /\ reached[a] \in Nat
      /\ owes[a].attempts <= tried[a] /\ owes[a].delivered <= reached[a]
      /\ a \notin Laddered => owes[a].level = 1 /\ owes[a].attempts = 0
      /\ tried = [tried EXCEPT ![a] = tried[a]] /\ reached = [reached EXCEPT ![a] = reached[a]]
  BY DEF Counted
<1>2. CASE Pol!PartPaid(a)
  <2> DEFINE m == [owes[a] EXCEPT !.big = FALSE]
             n == [m EXCEPT !.attempts = 0]
             o == [n EXCEPT !.last = Pol!Never]
  <2>1. m \in Owe /\ m.delivered = owes[a].delivered /\ m.level = owes[a].level
    BY <1>1 DEF Owe
  <2>2. owes' = [owes EXCEPT ![a] = o] /\ tried' = [tried EXCEPT ![a] = 0] /\ UNCHANGED <<today, reached>>
    BY <1>2 DEF Pol!PartPaid, Pol!Write
  <2> HIDE DEF m
  <2>3. n \in Owe /\ n.delivered = owes[a].delivered /\ n.level = owes[a].level /\ n.attempts = 0
    BY <2>1 DEF Owe
  <2> HIDE DEF n
  <2>4. o \in Owe /\ o.delivered = owes[a].delivered /\ o.level = owes[a].level /\ o.attempts = 0
    BY <2>3 DEF Owe, Pol!Never
  <2>5. Writes(a, o, 0, reached[a])
    BY <1>1, <2>2 DEF Writes
  <2> HIDE DEF o
  <2>6. o.attempts <= 0 /\ o.delivered <= reached[a]
    BY <1>1, <2>4
  <2> QED BY <1>1, <2>4, <2>5, <2>6, LadderStep
<1>3. CASE Pol!Disputed(a) \/ Pol!Cleared(a)
  <2>1. PICK x \in {"OVERDUE", "IN_DISPUTE", "SETTLED"} :
          /\ owes' = [owes EXCEPT ![a] = [owes[a] EXCEPT !.status = x]]
          /\ UNCHANGED <<today, tried, reached>>
    BY <1>3 DEF Pol!Disputed, Pol!Cleared, Pol!Write
  <2> DEFINE o == [owes[a] EXCEPT !.status = x]
  <2>2. /\ o \in Owe /\ o.attempts = owes[a].attempts /\ o.delivered = owes[a].delivered
        /\ o.level = owes[a].level
    BY <1>1 DEF Owe
  <2>3. Writes(a, o, tried[a], reached[a])
    BY <1>1, <2>1 DEF Writes
  <2> HIDE DEF o
  <2>4. o.attempts <= tried[a] /\ o.delivered <= reached[a]
    BY <1>1, <2>2
  <2> QED BY <1>1, <2>2, <2>3, <2>4, LadderStep
<1> QED BY <1>2, <1>3

\* The first test is the one whose reason is given.
LEMMA FirstFires ==
  ASSUME NEW p \in BOOLEAN, NEW q, NEW r, NEW t
  PROVE  p => Pol!First(<< <<p, r>>, <<q, t>> >>) = r
<1> SUFFICES ASSUME p PROVE Pol!First(<< <<p, r>>, <<q, t>> >>) = r
  OBVIOUS
<1> DEFINE gates == << <<p, r>>, <<q, t>> >>
           fired == {i \in DOMAIN gates : gates[i][1]}
<1>1. DOMAIN gates = {1, 2}
  OBVIOUS
<1>2. 1 \in fired /\ fired \subseteq {1, 2}
  BY <1>1
<1>3. gates[1][2] = r
  OBVIOUS
<1>4. Pol!First(gates) = IF fired = {} THEN "none" ELSE gates[Pol!Min(fired)][2]
  BY DEF Pol!First
<1> HIDE DEF gates, fired
<1>5. Pol!Min(fired) = 1
  <2>1. \E x \in fired : \A y \in fired : x =< y
    BY <1>2
  <2>2. Pol!Min(fired) \in fired /\ \A y \in fired : Pol!Min(fired) =< y
    BY <2>1 DEF Pol!Min
  <2>3. Pol!Min(fired) \in {1, 2} /\ Pol!Min(fired) =< 1
    BY <1>2, <2>2
  <2> QED BY <2>3
<1> QED BY <1>2, <1>3, <1>4, <1>5 DEF gates

\* At the legal level the telephone is the only channel.
LEMMA LegalByVoice ==
  ASSUME NEW p
  PROVE  Pol!SelectChannel(p, 3).channel \in {"none", "VOICE"}
<1> DEFINE hasPhone == Pol!PhoneBlock(p) = "none"
           Rung(c) == Pol!First(<< <<c \notin p.channels \/ Pol!TemplatesFor(3, c) = {}, "skipped">>,
                                   <<c \in p.optedOut, "CHANNEL_OPTED_OUT">>,
                                   <<c \in Pol!PhoneChannels /\ ~hasPhone, "NO_CONTACT_ADDRESS">>,
                                   <<c = "EMAIL" /\ ~p.email, "NO_CONTACT_ADDRESS">> >>)
           rungs == [i \in DOMAIN Pol!Preference[3] |-> Rung(Pol!Preference[3][i])]
           usable == {i \in DOMAIN rungs : rungs[i] = "none"}
<1>1. Pol!Preference[3] = <<"VOICE">>
  BY DEF Pol!Preference
<1>2. usable \subseteq {1}
  BY <1>1
<1>3. usable # {} => Pol!SelectChannel(p, 3).channel = Pol!Preference[3][Pol!Min(usable)]
  BY DEF Pol!SelectChannel
<1>4. usable = {} => Pol!SelectChannel(p, 3).channel = "none"
  BY DEF Pol!SelectChannel
<1> HIDE DEF usable
<1>5. usable # {} => Pol!Min(usable) = 1
  <2> SUFFICES ASSUME usable # {} PROVE Pol!Min(usable) = 1
    OBVIOUS
  <2>1. usable = {1}
    BY <1>2
  <2>2. \E x \in usable : \A y \in usable : x =< y
    BY <2>1
  <2>3. Pol!Min(usable) \in usable
    BY <2>2 DEF Pol!Min
  <2> QED BY <2>1, <2>3
<1> QED BY <1>1, <1>3, <1>4, <1>5

\* A refusal allows nothing.
LEMMA BlocksRefuse == ASSUME NEW reason PROVE ~Pol!Block(reason).allowed
BY DEF Pol!Block, Pol!Blank

\* What is allowed on an account has passed its gates.
LEMMA AllowedOnAccount ==
  ASSUME NEW p, NEW a, NEW d \in Pol!ForAccount(p, a), d.allowed
  PROVE  LET l == Pol!DetermineLevel(a) IN
         /\ d.account = a /\ d.level = l.level /\ ~l.review
         /\ d.level = 3 => d.acked /\ d.approved
<1> DEFINE l == Pol!DetermineLevel(a)
           c == Pol!SelectChannel(p, l.level)
           Gate(t) == Pol!First(<< <<l.level = 3 /\ ~t.approved, "L3_TEMPLATE_NOT_APPROVED">>,
                                   <<c.channel = "SMS" /\ ~t.registered, "SMS_TEMPLATE_NOT_REGISTERED">> >>)
           said1(t) == [allowed |-> TRUE, reason |-> "none", account |-> a, level |-> l.level,
                        channel |-> c.channel, acked |-> l.level = 3 /\ c.channel = "VOICE",
                        approved |-> t.approved]
           dec(t) == IF Gate(t) # "none" THEN Pol!Block(Gate(t)) ELSE said1(t)
           why == IF Pol!PhoneBlock(p) # "none" /\ c.reason = "NO_CONTACT_ADDRESS"
                  THEN Pol!PhoneBlock(p) ELSE c.reason
<1>1. Pol!ForAccount(p, a) = IF l.review THEN {Pol!Block("L3_REQUIRES_PRIOR_CONTACT")}
        ELSE IF c.channel = "none" THEN {Pol!Block(why)}
        ELSE {dec(t) : t \in Pol!SelectTemplate(l.level, c.channel)}
  BY DEF Pol!ForAccount
<1>2. l.level = 3 => c.channel \in {"none", "VOICE"}
  BY LegalByVoice
<1> HIDE DEF l, c, why, dec
<1>3. ~l.review /\ c.channel # "none" /\ \E t : d = dec(t)
  BY <1>1, BlocksRefuse
<1>4. PICK t : d = dec(t)
  BY <1>3
<1>5. Gate(t) = "none" /\ d = said1(t)
  BY <1>4, BlocksRefuse DEF dec
<1>6. ~(l.level = 3 /\ ~t.approved)
  <2> DEFINE g == l.level = 3 /\ ~t.approved
             h == c.channel = "SMS" /\ ~t.registered
  <2>1. g \in BOOLEAN
    OBVIOUS
  <2>2. Gate(t) = Pol!First(<< <<g, "L3_TEMPLATE_NOT_APPROVED">>,
                               <<h, "SMS_TEMPLATE_NOT_REGISTERED">> >>)
    OBVIOUS
  <2> HIDE DEF g, h, Gate
  <2>3. g => Gate(t) = "L3_TEMPLATE_NOT_APPROVED"
    BY <2>1, <2>2, FirstFires
  <2> QED BY <1>5, <2>3 DEF g
<1>7. /\ d.account = a /\ d.level = l.level /\ d.acked = (l.level = 3 /\ c.channel = "VOICE")
      /\ d.approved = t.approved
  BY <1>5
<1> QED BY <1>2, <1>3, <1>6, <1>7 DEF l

\* A level above the one on record is earned.
LEMMA LevelEarned ==
  ASSUME Counted, NEW a \in Debts, ~Pol!DetermineLevel(a).review
  PROVE  LET l == Pol!DetermineLevel(a).level IN
         /\ l > owes[a].level =>
              /\ a \in Laddered /\ tried[a] >= MaxAttempts
              /\ today - owes[a].entered >= (IF l = 2 THEN L2After ELSE L3After)
         /\ l = 3 => reached[a] >= 1
<1> DEFINE o == owes[a]
           age == IF a \in Laddered THEN today - o.entered ELSE 0
           exhausted == o.attempts >= MaxAttempts
           ripe == o.level = 2 /\ age >= L3After /\ exhausted /\ o.big
           l == Pol!DetermineLevel(a).level
<1>1. /\ o \in Owe /\ tried[a] \in Nat /\ reached[a] \in Nat /\ today \in Nat
      /\ o.attempts <= tried[a] /\ o.delivered <= reached[a]
      /\ a \notin Laddered => o.level = 1 /\ o.attempts = 0
  BY DEF Counted
<1>2. l = CASE o.level = 1 -> IF age >= L2After /\ exhausted THEN 2 ELSE 1
            [] o.level = 2 -> IF ripe /\ o.delivered >= 1 THEN 3 ELSE 2
            [] OTHER -> 3
  BY DEF Pol!DetermineLevel
<1>3. MaxAttempts \in Nat \ {0} /\ L2After \in Nat /\ L3After \in Nat
  BY LadderAssumption
<1>4. /\ o.level \in {1, 2} /\ o.attempts \in Nat /\ o.delivered \in Nat /\ o.entered \in Nat
  BY <1>1 DEF Owe
<1>5. exhausted => a \in Laddered /\ tried[a] >= MaxAttempts
  BY <1>1, <1>3, <1>4
<1> HIDE DEF l, o
<1>6. CASE o.level = 1
  <2>1. l = IF age >= L2After /\ exhausted THEN 2 ELSE 1
    BY <1>2, <1>6
  <2> QED BY <1>5, <1>6, <2>1 DEF l, o
<1>7. CASE o.level = 2
  <2>1. l = IF ripe /\ o.delivered >= 1 THEN 3 ELSE 2
    BY <1>2, <1>7
  <2> QED BY <1>1, <1>4, <1>5, <1>7, <2>1 DEF l, o
<1> QED BY <1>4, <1>6, <1>7

\* A behaviour of the whole is one of Policy.
LEMMA PolicyPart == Spec => Pol!Spec
<1>1. Init => Pol!Init
  BY DEF Init
<1>2. [Next]_vars => [Pol!Next]_(Pol!pvars)
  BY DEF Next, vars, AtRest, pvars, Pol!pvars
<1> QED BY <1>1, <1>2, PTL DEF Spec, Pol!Spec

\* What a step may decide, as EarnedContact has it.
Earned ==
  \A a \in Debts : (said'.allowed /\ said'.account = a /\ ~said.allowed) =>
    /\ said'.level > owes[a].level =>
         /\ a \in Laddered /\ tried[a] >= MaxAttempts
         /\ today - owes[a].entered >= (IF said'.level = 2 THEN L2After ELSE L3After)
    /\ said'.level = 3 => reached[a] >= 1 /\ said'.acked /\ said'.approved

\* Only a decision allows something, and it allows what was earned.
LEMMA DecideEarns ==
  ASSUME Counted, Pol!Next
  PROVE  Earned
<1>1. CASE Pol!Decide
  <2>1. PICK p \in People : \E d \in Pol!Evaluate(p) : d.allowed /\ said' = d
    BY <1>1 DEF Pol!Decide
  <2>2. PICK d \in Pol!Evaluate(p) : d.allowed /\ said' = d
    BY <2>1
  <2>3. PICK b : d \in Pol!ForAccount(p, b)
    BY <2>2, BlocksRefuse DEF Pol!Evaluate
  <2>4. LET l == Pol!DetermineLevel(b) IN
        /\ d.account = b /\ d.level = l.level /\ ~l.review
        /\ d.level = 3 => d.acked /\ d.approved
    BY <2>2, <2>3, AllowedOnAccount
  <2> QED BY <2>2, <2>4, LevelEarned DEF Earned
<1>2. CASE ~Pol!Decide
  <2>1. said' = said \/ said' = Pol!Blank
    BY <1>2 DEF Pol!Next, Pol!CallEnds, Pol!MessageSent, Pol!NextDay, Pol!PartPaid, Pol!Disputed,
                Pol!Cleared, Pol!Write
  <2>2. ~Pol!Blank.allowed
    BY DEF Pol!Blank
  <2> QED BY <2>1, <2>2 DEF Earned
<1> QED BY <1>1, <1>2

\* The ladders' counts are right throughout.
LEMMA CountedKept == Spec => []Counted
<1>1. Counted /\ [Pol!Next]_(Pol!pvars) => Counted'
  <2> SUFFICES ASSUME Counted, [Pol!Next]_(Pol!pvars) PROVE Counted'
    OBVIOUS
  <2>1. CASE UNCHANGED <<today, owes, tried, reached>>
    BY <2>1 DEF Counted
  <2>2. CASE Pol!NextDay
    BY <2>2 DEF Pol!NextDay, Counted
  <2>3. UNCHANGED Pol!pvars \/ Pol!Decide \/ Pol!MessageSent
          => UNCHANGED <<today, owes, tried, reached>>
    BY DEF Pol!pvars, Pol!Decide, Pol!MessageSent
  <2> QED BY <2>1, <2>2, <2>3, CallEndsStep, OwedStep DEF Pol!Next
<1> QED BY InitLadder, <1>1, PolicyPart, PTL DEF Pol!Spec

\* A higher level is decided on only for an account that is on the ladder, has had its time
\* and as many calls in a row that reached nobody; and legal words are spoken only to someone
\* reached before, who pressed a key, and as approved: for any ladder (policy/engine.py).
THEOREM ContactEarned == Spec => EarnedContact
<1>1. Counted /\ [Pol!Next]_(Pol!pvars) => [Earned]_(Pol!pvars)
  BY DecideEarns
<1>2. Spec => [][Earned]_(Pol!pvars)
  BY <1>1, CountedKept, PolicyPart, PTL DEF Pol!Spec
<1> QED BY <1>2 DEF EarnedContact, Pol!EarnedContact, Earned

---------------------------------------------------------------------------
(* Limits: the rate.                                                       *)

\* What n ticks bring into the bucket, and what n calls take out of it.
Gained(n) == n * CallsPerSecond
Drawn(n) == n * Second

\* One more tick brings one tick's worth, one more call draws one token.
LEMMA GainedDrawn ==
  ASSUME NEW n \in Int
  PROVE  /\ Gained(n) \in Int /\ Gained(n + 1) = Gained(n) + CallsPerSecond /\ Gained(0) = 0
         /\ Drawn(n) \in Int /\ Drawn(n + 1) = Drawn(n) + Second /\ Drawn(0) = 0
         /\ n >= 0 => Gained(n) >= 0
<1>1. CallsPerSecond \in Nat /\ Second \in Nat
  BY LimitAssumption
<1> QED BY <1>1 DEF Gained, Drawn

\* What ticks bring adds up, and more of them bring no less.
LEMMA GainedAdds ==
  ASSUME NEW m \in Int, NEW n \in Int
  PROVE  Gained(m + n) = Gained(m) + Gained(n) /\ (m <= n => Gained(m) <= Gained(n))
<1>1. PICK c \in Nat : c = CallsPerSecond
  BY LimitAssumption
<1>2. Gained(m + n) = Gained(m) + Gained(n)
  BY <1>1 DEF Gained
<1>3. ASSUME m <= n PROVE Gained(m) <= Gained(n)
  <2>1. n - m \in Nat /\ n = m + (n - m)
    BY <1>3
  <2>2. Gained(n - m) >= 0 /\ Gained(n - m) \in Int /\ Gained(m) \in Int
    BY <2>1, GainedDrawn
  <2>3. Gained(n) = Gained(m) + Gained(n - m)
    BY <1>1, <2>1 DEF Gained
  <2> QED BY <2>2, <2>3
<1> QED BY <1>2, <1>3

\* What may have been let through from the beginning of tick a to the end of tick b.
Room(a, b) == Thr!Burst + Gained((b - a) + (late[b] - late[a - 1]))

\* What was let through since any tick, and what the bucket holds now, is within it.
Conserved ==
  \A a \in 0 .. ticks :
    Drawn(granted[ticks] - granted[a - 1]) + Thr!Refilled(ticks) <= Room(a, ticks)

\* The rate as RateHolds has it.
Rated == \A a, b \in 0 .. ticks : a <= b => Drawn(granted[b] - granted[a - 1]) <= Room(a, b)

\* The bucket's shape.
BucketTypes == /\ tokens \in 0 .. Thr!Burst /\ ticks \in 0 .. MaxTicks /\ ts \in 0 .. ticks
               /\ clocked \in [Hands -> 0 .. ticks \cup {Thr!Unread}]
               /\ granted \in [-1 .. MaxTicks -> Int] /\ late \in [-1 .. MaxTicks -> Int]

\* The inductive invariant of the bucket.
BucketInv == BucketTypes /\ Conserved /\ Rated

\* The parameters of the bucket are natural numbers.
LEMMA BurstWhole == Thr!Burst \in Nat /\ MaxTicks \in Nat /\ CallsPerSecond \in Nat /\ Second \in Nat
BY LimitAssumption, BoundAssumption DEF Thr!Burst

\* What the bucket holds at a time is between nothing and a burst, and is no more than what
\* it holds now.
LEMMA RefilledBurst ==
  ASSUME BucketTypes, NEW n \in Nat, n <= ticks
  PROVE  /\ Thr!Refilled(n) \in 0 .. Thr!Burst
         /\ Thr!Refilled(n) <= Thr!Refilled(ticks)
<1> DEFINE Since(t) == IF 0 >= t - ts THEN 0 ELSE t - ts
<1>1. /\ tokens \in Nat /\ ts \in Nat /\ ticks \in Nat
      /\ Since(n) \in Nat /\ Since(ticks) \in Nat /\ Since(n) <= Since(ticks)
  BY BurstWhole DEF BucketTypes
<1>2. \A t \in Nat : Thr!Refilled(t) = IF tokens + Gained(Since(t)) >= Thr!Burst THEN Thr!Burst
                                       ELSE tokens + Gained(Since(t))
  <2> SUFFICES ASSUME NEW t \in Nat
      PROVE  Thr!Refilled(t) = IF tokens + Gained(Since(t)) >= Thr!Burst THEN Thr!Burst
                               ELSE tokens + Gained(Since(t))
    OBVIOUS
  <2>1. Thr!Higher(0, t - ts) = Since(t) /\ Since(t) \in Int
    BY <1>1 DEF Thr!Higher
  <2>2. PICK g \in Int : g = Gained(Since(t)) /\ g = Thr!Higher(0, t - ts) * CallsPerSecond
    BY <2>1, GainedDrawn DEF Gained
  <2> QED BY <1>1, <2>2, BurstWhole DEF Thr!Refilled, Thr!Lower
<1> HIDE DEF Since
<1>3. PICK g \in Nat : g = Gained(Since(n))
  BY <1>1, GainedDrawn
<1>4. PICK h \in Nat : h = Gained(Since(ticks))
  BY <1>1, GainedDrawn
<1>5. g <= h
  BY <1>1, <1>3, <1>4, GainedAdds
<1> QED BY <1>1, <1>2, <1>3, <1>4, <1>5, BurstWhole

\* What it holds after a step is between nothing and a burst, too.
LEMMA RefilledNext == BucketTypes' => (Thr!Refilled(ticks) \in 0 .. Thr!Burst)'
<1>1. BucketTypes => Thr!Refilled(ticks) \in 0 .. Thr!Burst
  <2> SUFFICES ASSUME BucketTypes PROVE Thr!Refilled(ticks) \in 0 .. Thr!Burst
    OBVIOUS
  <2>1. ticks \in Nat /\ ticks <= ticks
    BY BurstWhole DEF BucketTypes
  <2> QED BY <2>1, RefilledBurst
<1> QED BY <1>1, PTL

\* What may have been let through is a number, as is what was.
LEMMA RoomWhole ==
  ASSUME BucketTypes, NEW a \in Int, 0 <= a, a <= MaxTicks + 1, NEW b \in Int, 0 <= b, b <= MaxTicks
  PROVE  /\ granted[b] - granted[a - 1] \in Int /\ Drawn(granted[b] - granted[a - 1]) \in Int
         /\ (b - a) + (late[b] - late[a - 1]) \in Int /\ Room(a, b) \in Int
<1>1. b \in -1 .. MaxTicks /\ a - 1 \in -1 .. MaxTicks
  BY BurstWhole
<1>2. /\ granted[b] \in Int /\ granted[a - 1] \in Int
      /\ late[b] \in Int /\ late[a - 1] \in Int
  BY <1>1 DEF BucketTypes
<1>3. granted[b] - granted[a - 1] \in Int /\ (b - a) + (late[b] - late[a - 1]) \in Int
  BY <1>2
<1>4. Drawn(granted[b] - granted[a - 1]) \in Int
  BY <1>3, GainedDrawn
<1>5. Gained((b - a) + (late[b] - late[a - 1])) \in Int
  BY <1>3, GainedDrawn
<1> QED BY <1>3, <1>4, <1>5, BurstWhole DEF Room

\* At the start the bucket is full and nothing was let through.
LEMMA InitBucket == Thr!Init => BucketInv
<1> SUFFICES ASSUME Thr!Init PROVE BucketInv
  OBVIOUS
<1>1. BucketTypes
  BY BurstWhole DEF Thr!Init, BucketTypes
<1>2. ticks = 0 /\ \A t \in -1 .. MaxTicks : granted[t] = 0 /\ late[t] = 0
  BY DEF Thr!Init
<1>3. ASSUME NEW a \in 0 .. ticks, NEW b \in 0 .. ticks
      PROVE  Drawn(granted[b] - granted[a - 1]) = 0 /\ Room(a, b) = Thr!Burst
  <2>1. a = 0 /\ b = 0 /\ 0 \in -1 .. MaxTicks /\ -1 \in -1 .. MaxTicks /\ a - 1 = -1
    BY <1>2, BurstWhole
  <2>2. granted[b] - granted[a - 1] = 0 /\ (b - a) + (late[b] - late[a - 1]) = 0
    BY <1>2, <2>1
  <2> QED BY <2>2, GainedDrawn, BurstWhole DEF Room
<1>4. Thr!Refilled(ticks) \in 0 .. Thr!Burst
  <2>1. 0 \in Nat /\ 0 <= ticks
    BY <1>2
  <2> QED BY <1>1, <1>2, <2>1, RefilledBurst
<1>5. 0 \in 0 .. ticks
  BY <1>2
<1>6. Conserved
  BY <1>2, <1>3, <1>4, BurstWhole DEF Conserved
<1>7. Rated
  BY <1>3, BurstWhole DEF Rated
<1> QED BY <1>1, <1>6, <1>7 DEF BucketInv

\* A stretch that does not end now ended before.
LEMMA Earlier ==
  ASSUME NEW m \in Nat, NEW n \in {m, m + 1}, NEW a \in 0 .. n, NEW b \in 0 .. n, a <= b, b # n
  PROVE  a \in 0 .. m /\ b \in 0 .. m /\ b \in -1 .. n - 1 /\ a - 1 \in -1 .. n - 1
OBVIOUS

\* A step of the bucket: a stretch that is over stays as it was, and one that ends now is
\* within what is conserved.
LEMMA RatedNext ==
  ASSUME BucketInv, BucketTypes', Conserved', ticks' \in {ticks, ticks + 1},
         \A t \in -1 .. ticks' - 1 : granted'[t] = granted[t] /\ late'[t] = late[t]
  PROVE  Rated'
<1> SUFFICES ASSUME NEW a \in 0 .. ticks', NEW b \in 0 .. ticks', a <= b
    PROVE  Drawn(granted'[b] - granted'[a - 1]) <= Room(a, b)'
  BY DEF Rated
<1>0. ticks' \in Nat /\ ticks \in Nat /\ ticks' <= MaxTicks
  BY BurstWhole DEF BucketInv, BucketTypes
<1>1. CASE b = ticks'
  <2>1. Drawn(granted'[b] - granted'[a - 1]) \in Int /\ Room(a, b)' \in Int
    <3>1. a \in Int /\ 0 <= a /\ a <= MaxTicks + 1 /\ b \in Int /\ 0 <= b /\ b <= MaxTicks
      BY <1>0, BurstWhole
    <3>2. granted'[b] \in Int /\ granted'[a - 1] \in Int /\ late'[b] \in Int /\ late'[a - 1] \in Int
      <4>1. b \in -1 .. MaxTicks /\ a - 1 \in -1 .. MaxTicks
        BY <3>1, BurstWhole
      <4> QED BY <4>1 DEF BucketTypes
    <3>3. granted'[b] - granted'[a - 1] \in Int /\ (b - a) + (late'[b] - late'[a - 1]) \in Int
      BY <3>1, <3>2
    <3>4. Drawn(granted'[b] - granted'[a - 1]) \in Int
      BY <3>3, GainedDrawn
    <3>5. Gained((b - a) + (late'[b] - late'[a - 1])) \in Int
      BY <3>3, GainedDrawn
    <3> QED BY <3>4, <3>5, BurstWhole DEF Room, Thr!Burst
  <2>2. Drawn(granted'[b] - granted'[a - 1]) + Thr!Refilled(ticks)' <= Room(a, b)'
    BY <1>1 DEF Conserved, Room
  <2>3. Thr!Refilled(ticks)' \in Nat
    BY RefilledNext, BurstWhole DEF Thr!Burst
  <2> QED BY <2>1, <2>2, <2>3
<1>2. CASE b # ticks'
  <2>1. /\ a \in 0 .. ticks /\ b \in 0 .. ticks /\ b \in -1 .. ticks' - 1
        /\ a - 1 \in -1 .. ticks' - 1
    BY <1>0, <1>2, Earlier
  <2>2. /\ granted'[b] = granted[b] /\ granted'[a - 1] = granted[a - 1]
        /\ late'[b] = late[b] /\ late'[a - 1] = late[a - 1]
    BY <2>1
  <2>3. Drawn(granted[b] - granted[a - 1]) <= Room(a, b)
    BY <2>1 DEF BucketInv, Rated
  <2> QED BY <2>2, <2>3 DEF Room, Thr!Burst
<1> QED BY <1>1, <1>2

\* The worker's reading changes nothing of the bucket.
LEMMA ReadClockStep ==
  ASSUME BucketInv, NEW w \in Hands, Thr!ReadClock(w)
  PROVE  BucketInv'
<1>1. UNCHANGED <<tokens, ts, ticks, granted, late>>
  BY DEF Thr!ReadClock
<1>2. clocked' \in [Hands -> 0 .. ticks \cup {Thr!Unread}]
  BY BurstWhole DEF BucketInv, BucketTypes, Thr!ReadClock
<1>3. BucketTypes'
  BY <1>1, <1>2 DEF BucketInv, BucketTypes, Thr!Burst, Thr!Unread
<1>4. Conserved' /\ Rated'
  BY <1>1 DEF BucketInv, Conserved, Rated, Room, Thr!Refilled, Thr!Burst, Thr!Lower, Thr!Higher
<1> QED BY <1>3, <1>4 DEF BucketInv

\* The script draws what it grants from what the bucket held at the time it was told, which is
\* no more than it holds now; what is refilled again is what it comes late by.
LEMMA AcquireRateStep ==
  ASSUME BucketInv, NEW w \in Hands, Thr!AcquireRate(w)
  PROVE  BucketInv'
<1> DEFINE full == Thr!Refilled(clocked[w])
           held == Thr!Refilled(ticks)
           d == IF full >= Second THEN 1 ELSE 0
<1>0. PICK now \in Nat : now = clocked[w] /\ now <= ticks
  BY BurstWhole DEF BucketInv, BucketTypes, Thr!AcquireRate, Thr!Unread
<1>1. full \in 0 .. Thr!Burst /\ held \in 0 .. Thr!Burst /\ full <= held
  <2>1. ticks \in Nat /\ ticks <= ticks
    BY BurstWhole DEF BucketInv, BucketTypes
  <2>2. Thr!Refilled(now) \in 0 .. Thr!Burst /\ Thr!Refilled(now) <= held
    BY <1>0, RefilledBurst DEF BucketInv
  <2>3. held \in 0 .. Thr!Burst
    BY <2>1, RefilledBurst DEF BucketInv
  <2> QED BY <1>0, <2>2, <2>3
<1>2. /\ ts' = now /\ ticks' = ticks /\ d \in {0, 1}
      /\ clocked' = [clocked EXCEPT ![w] = Thr!Unread]
      /\ late' = [late EXCEPT ![ticks] = @ + (ticks - now)]
      /\ tokens' = full - Drawn(d) /\ Drawn(0) = 0 /\ Drawn(1) = Second
      /\ granted' = IF d = 1 THEN [granted EXCEPT ![ticks] = @ + 1] ELSE granted
      /\ d = 1 => full >= Second
  <2>1. Drawn(0) = 0 /\ Drawn(1) = Second
    BY GainedDrawn, BurstWhole DEF Drawn
  <2> QED BY <1>0, <1>1, <2>1, BurstWhole DEF Thr!AcquireRate
<1> HIDE DEF d
<1>3. /\ ticks \in Nat /\ ticks \in -1 .. MaxTicks /\ granted \in [-1 .. MaxTicks -> Int]
      /\ late \in [-1 .. MaxTicks -> Int] /\ clocked \in [Hands -> 0 .. ticks \cup {Thr!Unread}]
  BY BurstWhole DEF BucketInv, BucketTypes
<1>4. /\ granted' \in [-1 .. MaxTicks -> Int] /\ granted'[ticks] = granted[ticks] + d
      /\ \A t \in -1 .. MaxTicks : t # ticks => granted'[t] = granted[t]
  BY <1>2, <1>3
<1>5. /\ late' \in [-1 .. MaxTicks -> Int] /\ late'[ticks] = late[ticks] + (ticks - now)
      /\ \A t \in -1 .. MaxTicks : t # ticks => late'[t] = late[t]
  BY <1>2, <1>3
<1> HIDE DEF full, held
<1>6. tokens' \in Nat /\ tokens' <= full
  BY <1>1, <1>2, BurstWhole
<1>7. BucketTypes'
  <2>1. tokens' \in 0 .. Thr!Burst
    BY <1>1, <1>6, BurstWhole
  <2>2. clocked' \in [Hands -> 0 .. ticks \cup {Thr!Unread}]
    BY <1>2, <1>3
  <2> QED BY <1>0, <1>2, <1>3, <1>4, <1>5, <2>1, <2>2
          DEF BucketInv, BucketTypes, Thr!Burst, Thr!Unread
<1>8. PICK g \in Nat : g = Gained(ticks - now)
  <2>1. ticks - now \in Int /\ ticks - now >= 0
    BY <1>0, <1>3
  <2> QED BY <2>1, GainedDrawn
<1>9. PICK after \in Int : after = Thr!Refilled(ticks)' /\ after <= tokens' + g
  <2>1. Thr!Higher(0, ticks - now) = ticks - now
    BY <1>0, <1>3 DEF Thr!Higher
  <2>2. Thr!Refilled(ticks)' = Thr!Lower(Thr!Burst, tokens' + g)
    BY <1>2, <1>8, <2>1 DEF Thr!Refilled, Thr!Burst, Gained, Thr!Lower, Thr!Higher
  <2>3. PICK held2 \in Int : held2 = tokens' + g
    BY <1>6, <1>8
  <2> QED BY <2>2, <2>3, BurstWhole DEF Thr!Lower
<1>10. ASSUME NEW a \in 0 .. ticks
       PROVE  Drawn(granted'[ticks] - granted'[a - 1]) + after <= Room(a, ticks)'
  <2>0. /\ a \in Int /\ 0 <= a /\ a <= MaxTicks + 1 /\ ticks \in Int /\ 0 <= ticks
        /\ ticks <= MaxTicks /\ a - 1 \in -1 .. MaxTicks /\ a - 1 # ticks
    BY <1>3, BurstWhole
  <2>1. PICK n \in Int : n = granted[ticks] - granted[a - 1]
    BY <2>0, RoomWhole DEF BucketInv
  <2>2. granted'[ticks] - granted'[a - 1] = n + d
    <3>1. granted[ticks] \in Int /\ granted[a - 1] \in Int
      BY <1>3, <2>0
    <3> QED BY <1>2, <1>4, <2>0, <2>1, <3>1
  <2>3. PICK r \in Int : r = Room(a, ticks)
    BY <2>0, RoomWhole DEF BucketInv
  <2>4. Drawn(n) + held <= r
    BY <2>1, <2>3 DEF BucketInv, Conserved, held
  <2>5. Drawn(n + d) = Drawn(n) + Drawn(d) /\ Drawn(n) \in Int /\ Drawn(d) \in Int
    <3>1. Drawn(n) \in Int /\ Drawn(n + 1) = Drawn(n) + Second
      BY GainedDrawn
    <3> QED BY <1>2, <2>1, <3>1, BurstWhole
  <2>6. Room(a, ticks)' = r + g
    <3>1. PICK m \in Int : m = (ticks - a) + (late[ticks] - late[a - 1])
      BY <2>0, RoomWhole DEF BucketInv
    <3>2. (ticks - a) + (late'[ticks] - late'[a - 1]) = m + (ticks - now)
      <4>1. late[ticks] \in Int /\ late[a - 1] \in Int
        BY <1>3, <2>0
      <4> QED BY <1>5, <2>0, <3>1, <4>1
    <3>3. ticks - now \in Int
      BY <1>3
    <3>4. Gained(m + (ticks - now)) = Gained(m) + g /\ Gained(m) \in Int
      BY <1>8, <3>3, GainedAdds, GainedDrawn
    <3> QED BY <1>2, <2>3, <3>1, <3>2, <3>4, BurstWhole DEF Room, Thr!Burst
  <2> QED BY <1>1, <1>2, <1>6, <1>9, <2>2, <2>4, <2>5, <2>6, BurstWhole
<1>11. Conserved'
  BY <1>2, <1>9, <1>10 DEF Conserved, Room, Thr!Refilled, Thr!Burst
<1>12. Rated'
  <2>1. \A t \in -1 .. ticks' - 1 : granted'[t] = granted[t] /\ late'[t] = late[t]
    BY <1>2, <1>3, <1>4, <1>5
  <2> QED BY <1>2, <1>7, <1>11, <2>1, RatedNext
<1> QED BY <1>7, <1>11, <1>12 DEF BucketInv

\* A tick refills what it adds to every stretch.
LEMMA TickStep ==
  ASSUME BucketInv, Thr!Tick
  PROVE  BucketInv'
<1>1. /\ ticks < MaxTicks /\ ticks' = ticks + 1 /\ UNCHANGED <<tokens, ts, clocked>>
      /\ granted' = [granted EXCEPT ![ticks + 1] = granted[ticks]]
      /\ late' = [late EXCEPT ![ticks + 1] = late[ticks]]
  BY DEF Thr!Tick
<1>2. /\ ticks \in Nat /\ ticks + 1 \in -1 .. MaxTicks /\ ticks \in -1 .. MaxTicks
      /\ granted \in [-1 .. MaxTicks -> Int] /\ late \in [-1 .. MaxTicks -> Int]
      /\ ts \in 0 .. ticks /\ tokens \in Nat /\ clocked \in [Hands -> 0 .. ticks \cup {Thr!Unread}]
  BY <1>1, BurstWhole DEF BucketInv, BucketTypes
<1>3. /\ granted' \in [-1 .. MaxTicks -> Int] /\ late' \in [-1 .. MaxTicks -> Int]
      /\ granted'[ticks'] = granted[ticks] /\ late'[ticks'] = late[ticks]
      /\ \A t \in -1 .. ticks : granted'[t] = granted[t] /\ late'[t] = late[t]
  BY <1>1, <1>2
<1>4. BucketTypes'
  <2>1. clocked' \in [Hands -> 0 .. ticks' \cup {Thr!Unread}]
    BY <1>1, <1>2
  <2> QED BY <1>1, <1>2, <1>3, <2>1, BurstWhole DEF BucketInv, BucketTypes, Thr!Burst, Thr!Unread
<1>5. PICK left \in Int : left = Thr!Refilled(ticks) /\ left <= Thr!Burst
  BY <1>2, BurstWhole, RefilledBurst DEF BucketInv
<1>6. PICK g \in Nat : g = Gained(ticks - ts)
  <2>1. ticks - ts \in Int /\ ticks - ts >= 0
    BY <1>2
  <2> QED BY <2>1, GainedDrawn
<1>7. left = Thr!Lower(Thr!Burst, tokens + g)
  <2>1. Thr!Higher(0, ticks - ts) = ticks - ts
    BY <1>2 DEF Thr!Higher
  <2> QED BY <1>5, <1>6, <2>1 DEF Thr!Refilled, Gained
<1>8. Thr!Refilled(ticks)' = Thr!Lower(Thr!Burst, tokens + (g + CallsPerSecond))
  <2>1. ticks - ts \in Int /\ ticks' - ts = (ticks - ts) + 1
    BY <1>1, <1>2
  <2>2. Gained(ticks' - ts) = g + CallsPerSecond
    BY <1>6, <2>1, GainedDrawn
  <2>3. Thr!Higher(0, ticks' - ts) = ticks' - ts
    BY <1>1, <1>2 DEF Thr!Higher
  <2> QED BY <1>1, <2>2, <2>3 DEF Thr!Refilled, Thr!Burst, Gained, Thr!Lower, Thr!Higher
<1>9. PICK next \in Nat : /\ next = Thr!Refilled(ticks)'
                          /\ next <= left + CallsPerSecond /\ next <= Thr!Burst
  BY <1>2, <1>7, <1>8, BurstWhole DEF Thr!Lower
<1>10. ASSUME NEW a \in 0 .. ticks'
       PROVE  Drawn(granted'[ticks'] - granted'[a - 1]) + next <= Room(a, ticks)'
  <2>1. CASE a = ticks'
    <3>1. a - 1 = ticks
      BY <1>1, <1>2, <2>1
    <3>2. granted'[ticks] = granted[ticks] /\ late'[ticks] = late[ticks]
      BY <1>2, <1>3
    <3>3. granted[ticks] \in Int /\ late[ticks] \in Int
      BY <1>2
    <3>4. /\ granted'[ticks'] - granted'[a - 1] = 0
          /\ (ticks' - a) + (late'[ticks'] - late'[a - 1]) = 0
      BY <1>1, <1>2, <1>3, <2>1, <3>1, <3>2, <3>3
    <3>5. Room(a, ticks)' = Thr!Burst
      BY <3>4, GainedDrawn, BurstWhole DEF Room, Thr!Burst
    <3> QED BY <1>9, <3>4, <3>5, GainedDrawn, BurstWhole
  <2>2. CASE a # ticks'
    <3>1. /\ a \in 0 .. ticks /\ a \in Int /\ a - 1 \in -1 .. ticks /\ 0 <= a /\ a <= MaxTicks + 1
          /\ ticks \in Int /\ 0 <= ticks /\ ticks <= MaxTicks
      <4>1. a \in Int /\ 0 <= a /\ a <= ticks
        BY <1>1, <1>2, <2>2
      <4> QED BY <1>1, <1>2, <4>1, BurstWhole
    <3>2. granted'[ticks'] - granted'[a - 1] = granted[ticks] - granted[a - 1]
      BY <1>3, <3>1
    <3>3. PICK n \in Int : n = Drawn(granted[ticks] - granted[a - 1])
      BY <3>1, RoomWhole DEF BucketInv
    <3>4. PICK r \in Int : r = Room(a, ticks)
      BY <3>1, RoomWhole DEF BucketInv
    <3>5. n + left <= r
      BY <1>5, <3>1, <3>3, <3>4 DEF BucketInv, Conserved
    <3>6. Room(a, ticks)' = r + CallsPerSecond
      <4>1. PICK m \in Int : m = (ticks - a) + (late[ticks] - late[a - 1])
        BY <3>1, RoomWhole DEF BucketInv
      <4>2. (ticks' - a) + (late'[ticks'] - late'[a - 1]) = m + 1
        <5>1. late[ticks] \in Int /\ late[a - 1] \in Int
          <6>1. a - 1 \in -1 .. MaxTicks
            BY <3>1, BurstWhole
          <6> QED BY <1>2, <6>1
        <5> QED BY <1>1, <1>2, <1>3, <3>1, <4>1, <5>1
      <4>3. Gained(m + 1) = Gained(m) + CallsPerSecond /\ Gained(m) \in Int
        BY GainedDrawn
      <4> QED BY <3>4, <4>1, <4>2, <4>3, BurstWhole DEF Room, Thr!Burst
    <3> QED BY <1>9, <3>2, <3>3, <3>5, <3>6, BurstWhole
  <2> QED BY <2>1, <2>2
<1>11. Conserved'
  BY <1>9, <1>10 DEF Conserved, Room, Thr!Refilled, Thr!Burst
<1>12. Rated'
  BY <1>1, <1>2, <1>3, <1>4, <1>11, RatedNext
<1> QED BY <1>4, <1>11, <1>12 DEF BucketInv

\* A behaviour of the whole is one of Throttle.
LEMMA ThrottlePart == Spec => Thr!Spec
<1>1. Init => Thr!Init
  BY DEF Init
<1>2. [Next]_vars => [Thr!Next]_(Thr!tvars)
  BY DEF Next, vars, AtRest, tvars, Thr!tvars
<1> QED BY <1>1, <1>2, PTL DEF Spec, Thr!Spec

\* What is proved of the bucket is true throughout.
LEMMA BucketKept == Spec => []BucketInv
<1>1. BucketInv /\ [Thr!Next]_(Thr!tvars) => BucketInv'
  <2> SUFFICES ASSUME BucketInv, [Thr!Next]_(Thr!tvars) PROVE BucketInv'
    OBVIOUS
  <2>1. CASE UNCHANGED Thr!tvars
    BY <2>1 DEF BucketInv, BucketTypes, Conserved, Rated, Room, Thr!tvars, Thr!Refilled, Thr!Burst,
       Thr!Lower, Thr!Higher, Thr!Unread
  <2> QED BY <2>1, ReadClockStep, AcquireRateStep, TickStep DEF Thr!Next
<1> QED BY InitBucket, <1>1, ThrottlePart, PTL DEF Thr!Spec

\* Over any stretch of time the bucket lets through no more than a full bucket, what was
\* refilled meanwhile and what its late scripts refilled again, for any rate, any number of
\* workers and any delay between a worker's clock and its script (scheduler/throttle.py:29-104).
THEOREM RateKept == Spec => []RateHolds
<1>1. BucketInv => RateHolds
  BY DEF BucketInv, Rated, Room, Drawn, Gained, RateHolds, Thr!RateHolds
<1> QED BY <1>1, BucketKept, PTL

---------------------------------------------------------------------------
(* Limits: the channels.                                                   *)

\* The workers that have passed a check and not yet counted their call, and those that
\* have passed both for one tenant.
InFlight == {w \in Hands : placing[w].at \in {"global", "both"}}
Placing(c) == {w \in Hands : placing[w].at = "both" /\ placing[w].tenant = c}

\* The counters' and the workers' shape.
PlacerTypes ==
  /\ channels \in Nat /\ tenantChannels \in [Companies -> Nat] /\ tenantLive \in [Companies -> Nat]
  /\ live \in Int /\ blind \in 0 .. MaxBlind
  /\ placing \in [Hands -> [at : {"idle", "global", "both"}, tenant : Companies]]

\* Even once everybody who has passed has counted, a limit is exceeded by less than the
\* number of workers and those who read blindly: whoever else passes saw it not reached.
Slots == /\ live <= channels
         /\ channels + Cardinality(InFlight) <= MaxConcurrent + Cardinality(Hands) - 1 + blind
         /\ \A c \in Companies :
              /\ tenantLive[c] <= tenantChannels[c]
              /\ tenantChannels[c] + Cardinality(Placing(c))
                   <= MaxConcurrentPerTenant + Cardinality(Hands) - 1 + blind

\* The inductive invariant of the counters.
SlotInv == PlacerTypes /\ Slots

\* The limits, the number of workers and the bound are natural numbers.
LEMMA SlotNumbers == /\ MaxConcurrent \in Nat \ {0} /\ MaxConcurrentPerTenant \in Nat \ {0}
                     /\ Cardinality(Hands) \in Nat /\ MaxBlind \in Nat
BY LimitAssumption, BoundAssumption, HandsAssumption, FS_CardinalityType

\* Some of the workers are no more than all of them.
LEMMA SomeHands ==
  ASSUME NEW S, S \subseteq Hands
  PROVE  IsFiniteSet(S) /\ Cardinality(S) \in Nat /\ Cardinality(S) <= Cardinality(Hands)
BY HandsAssumption, FS_Subset, FS_CardinalityType

\* One that leaves makes room.
LEMMA OneLeaves ==
  ASSUME NEW S, S \subseteq Hands, NEW w \in S
  PROVE  Cardinality(S \ {w}) = Cardinality(S) - 1
BY SomeHands, FS_RemoveElement

\* One that comes is one more at most.
LEMMA OneComes ==
  ASSUME NEW S, S \subseteq Hands, NEW w \in Hands, NEW T, T \subseteq S \cup {w}
  PROVE  Cardinality(T) <= Cardinality(S) + 1
<1>1. IsFiniteSet(S) /\ Cardinality(S) \in Nat
  BY SomeHands
<1>2. /\ IsFiniteSet(S \cup {w}) /\ Cardinality(S \cup {w}) \in Nat
      /\ Cardinality(S \cup {w}) <= Cardinality(S) + 1
  <2>1. CASE w \in S
    <3>1. S \cup {w} = S
      BY <2>1
    <3> QED BY <1>1, <3>1
  <2>2. CASE w \notin S
    BY <1>1, <2>2, FS_AddElement
  <2> QED BY <2>1, <2>2
<1>3. Cardinality(T) \in Nat /\ Cardinality(T) <= Cardinality(S \cup {w})
  BY <1>2, FS_Subset, FS_CardinalityType
<1> QED BY <1>1, <1>2, <1>3

\* At the start nothing is counted and nobody is about to be.
LEMMA InitSlots == Cha!Init => SlotInv
<1> SUFFICES ASSUME Cha!Init PROVE SlotInv
  OBVIOUS
<1>1. PlacerTypes
  BY SomeOfEach, SlotNumbers DEF Cha!Init, PlacerTypes, Cha!Idle
<1>2. InFlight = {} /\ \A c \in Companies : Placing(c) = {}
  BY DEF Cha!Init, InFlight, Placing, Cha!Idle
<1>3. Cardinality({}) = 0
  BY FS_EmptySet
<1>4. Cardinality(InFlight) = 0 /\ \A c \in Companies : Cardinality(Placing(c)) = 0
  BY <1>2, <1>3
<1>5. channels = 0 /\ live = 0 /\ blind = 0
      /\ \A c \in Companies : tenantChannels[c] = 0 /\ tenantLive[c] = 0
  BY DEF Cha!Init
<1> QED BY <1>1, <1>4, <1>5, SlotNumbers DEF SlotInv, Slots

\* Nobody who is about to count is worth more than one call: fewer of them, or the same,
\* while the counters do not grow.
LEMMA FewerInFlight ==
  ASSUME SlotInv, PlacerTypes', live' <= channels', channels' <= channels, blind' = blind,
         InFlight' \subseteq InFlight,
         \A c \in Companies : /\ tenantLive'[c] <= tenantChannels'[c]
                              /\ tenantChannels'[c] <= tenantChannels[c]
                              /\ Placing(c)' \subseteq Placing(c)
  PROVE  SlotInv'
<1>0. blind \in Nat
  BY SlotNumbers DEF SlotInv, PlacerTypes
<1>1. \A S, T : S \subseteq T /\ T \subseteq Hands =>
        /\ Cardinality(S) \in Nat /\ Cardinality(T) \in Nat /\ Cardinality(S) <= Cardinality(T)
  BY SomeHands, FS_Subset
<1>2. /\ Cardinality(InFlight') \in Nat /\ Cardinality(InFlight) \in Nat
      /\ Cardinality(InFlight') <= Cardinality(InFlight)
  BY <1>1 DEF InFlight
<1>3. channels' + Cardinality(InFlight') <= MaxConcurrent + Cardinality(Hands) - 1 + blind'
  BY <1>0, <1>2, SlotNumbers DEF SlotInv, Slots, PlacerTypes
<1>4. ASSUME NEW c \in Companies
      PROVE  tenantChannels'[c] + Cardinality(Placing(c)')
               <= MaxConcurrentPerTenant + Cardinality(Hands) - 1 + blind'
  <2>1. /\ Cardinality(Placing(c)') \in Nat /\ Cardinality(Placing(c)) \in Nat
        /\ Cardinality(Placing(c)') <= Cardinality(Placing(c))
    BY <1>1 DEF Placing
  <2>2. tenantChannels'[c] \in Nat /\ tenantChannels[c] \in Nat
    BY DEF SlotInv, PlacerTypes
  <2> QED BY <1>0, <2>1, <2>2, SlotNumbers DEF SlotInv, Slots
<1> QED BY <1>3, <1>4 DEF SlotInv, Slots

\* An idle worker.
LEMMA IdlePlacer == Cha!Idle.at = "idle" /\ Cha!Idle.tenant \in Companies
BY SomeOfEach DEF Cha!Idle

\* A call that ends, or a counter that expires, leaves no fewer slots.
LEMMA AsideStep ==
  ASSUME SlotInv, Cha!CallEnds \/ Cha!CounterExpires \/ UNCHANGED Cha!hvars
  PROVE  SlotInv'
<1>2. CASE Cha!CallEnds
  <2>1. PICK c \in Companies : /\ tenantLive[c] > 0 /\ live' = live - 1
                               /\ tenantLive' = [tenantLive EXCEPT ![c] = @ - 1]
                               /\ UNCHANGED <<channels, tenantChannels, blind, placing>>
    BY <1>2 DEF Cha!CallEnds
  <2>2. PlacerTypes' /\ live' <= live /\ \A d \in Companies : tenantLive'[d] <= tenantLive[d]
    BY <2>1 DEF SlotInv, PlacerTypes
  <2>3. live' <= channels' /\ \A d \in Companies : tenantLive'[d] <= tenantChannels'[d]
    BY <2>1, <2>2 DEF SlotInv, PlacerTypes, Slots
  <2>4. InFlight' = InFlight /\ \A d \in Companies : Placing(d)' = Placing(d)
    BY <2>1 DEF InFlight, Placing
  <2> QED BY <2>1, <2>2, <2>3, <2>4, FewerInFlight DEF SlotInv, PlacerTypes
<1>3. CASE Cha!CounterExpires
  <2>1. /\ UNCHANGED <<live, tenantLive, blind, placing>>
        /\ \/ \E c \in Companies : /\ tenantLive[c] = 0 /\ tenantChannels[c] > 0
                                   /\ tenantChannels' = [tenantChannels EXCEPT ![c] = 0]
                                   /\ UNCHANGED channels
           \/ /\ live = 0 /\ channels > 0 /\ channels' = 0
              /\ UNCHANGED tenantChannels
    BY <1>3 DEF Cha!CounterExpires
  <2>2. /\ PlacerTypes' /\ live' <= channels' /\ channels' <= channels
        /\ \A c \in Companies : /\ tenantLive'[c] <= tenantChannels'[c]
                                /\ tenantChannels'[c] <= tenantChannels[c]
    BY <2>1 DEF SlotInv, PlacerTypes, Slots
  <2>3. InFlight' = InFlight /\ \A d \in Companies : Placing(d)' = Placing(d)
    BY <2>1 DEF InFlight, Placing
  <2> QED BY <2>1, <2>2, <2>3, FewerInFlight
<1>4. CASE UNCHANGED Cha!hvars
  BY <1>4 DEF Cha!hvars, SlotInv, PlacerTypes, Slots, InFlight, Placing
<1> QED BY <1>2, <1>3, <1>4

\* A worker that goes on is one more of those that have passed a check, whichever it was.
LEMMA GoesOn ==
  ASSUME PlacerTypes, NEW w \in Hands, NEW c \in Companies, NEW at \in {"global", "both"},
         placing' = [placing EXCEPT ![w] = [at |-> at, tenant |-> c]]
  PROVE  /\ InFlight' \subseteq InFlight \cup {w} /\ InFlight' \subseteq Hands
         /\ placing[w].at # "idle" => InFlight' \subseteq InFlight
         /\ Placing(c)' \subseteq Placing(c) \cup {w} /\ Placing(c)' \subseteq Hands
         /\ at = "global" => Placing(c)' \subseteq Placing(c)
         /\ \A e \in Companies \ {c} : Placing(e)' \subseteq Placing(e)
<1>1. \A v \in Hands : placing'[v] = IF v = w THEN [at |-> at, tenant |-> c] ELSE placing[v]
  BY DEF PlacerTypes
<1>2. placing[w].at \in {"idle", "global", "both"}
  BY DEF PlacerTypes
<1> QED BY <1>1, <1>2 DEF InFlight, Placing

\* The read of a counter: whoever passes saw it below its limit, or saw nothing.
LEMMA CheckStep ==
  ASSUME SlotInv, NEW w \in Hands, Cha!ReadChannels(w) \/ Cha!ReadTenant(w)
  PROVE  SlotInv'
<1>0. blind \in Nat /\ blind <= MaxBlind /\ placing[w].tenant \in Companies
  BY SlotNumbers DEF SlotInv, PlacerTypes
<1>1. UNCHANGED <<channels, tenantChannels, live, tenantLive>>
  BY DEF Cha!ReadChannels, Cha!ReadTenant, Cha!Check
<1>2. \/ placing' = [placing EXCEPT ![w] = Cha!Idle] /\ UNCHANGED blind
      \/ \E c \in Companies :
           /\ placing[w].at = "idle"
           /\ \/ channels < MaxConcurrent /\ UNCHANGED blind
              \/ blind < MaxBlind /\ blind' = blind + 1
           /\ placing' = [placing EXCEPT ![w] = [at |-> "global", tenant |-> c]]
      \/ \E c \in Companies :
           /\ placing[w].at = "global"
           /\ \/ tenantChannels[c] < MaxConcurrentPerTenant /\ UNCHANGED blind
              \/ blind < MaxBlind /\ blind' = blind + 1
           /\ placing' = [placing EXCEPT ![w] = [at |-> "both", tenant |-> c]]
  BY <1>0 DEF Cha!ReadChannels, Cha!ReadTenant, Cha!Check
<1>3. CASE placing' = [placing EXCEPT ![w] = Cha!Idle] /\ UNCHANGED blind
  <2>1. InFlight' \subseteq InFlight /\ \A c \in Companies : Placing(c)' \subseteq Placing(c)
    BY <1>3, IdlePlacer DEF SlotInv, PlacerTypes, InFlight, Placing
  <2>2. PlacerTypes'
    BY <1>1, <1>3, IdlePlacer DEF SlotInv, PlacerTypes, Cha!Idle
  <2> QED BY <1>1, <1>3, <2>1, <2>2, FewerInFlight DEF SlotInv, Slots, PlacerTypes
<1>4. ASSUME NEW c \in Companies, NEW at \in {"global", "both"},
             placing' = [placing EXCEPT ![w] = [at |-> at, tenant |-> c]],
             at = "global" => placing[w].at = "idle", at = "both" => placing[w].at = "global",
             \/ /\ at = "global" => channels < MaxConcurrent
                /\ at = "both" => tenantChannels[c] < MaxConcurrentPerTenant
                /\ UNCHANGED blind
             \/ blind < MaxBlind /\ blind' = blind + 1
      PROVE  SlotInv'
  <2>0. PlacerTypes /\ InFlight \subseteq Hands /\ \A e \in Companies : Placing(e) \subseteq Hands
    BY DEF SlotInv, InFlight, Placing
  <2>1. PlacerTypes'
    <3>1. blind' \in 0 .. MaxBlind
      BY <1>0, <1>4, SlotNumbers
    <3>2. [at |-> at, tenant |-> c] \in [at : {"idle", "global", "both"}, tenant : Companies]
      OBVIOUS
    <3> QED BY <1>1, <1>4, <3>1, <3>2 DEF SlotInv, PlacerTypes
  <2>2. /\ InFlight' \subseteq InFlight \cup {w} /\ InFlight' \subseteq Hands
        /\ placing[w].at # "idle" => InFlight' \subseteq InFlight
        /\ Placing(c)' \subseteq Placing(c) \cup {w} /\ Placing(c)' \subseteq Hands
        /\ at = "global" => Placing(c)' \subseteq Placing(c)
        /\ \A e \in Companies \ {c} : Placing(e)' \subseteq Placing(e)
    BY <1>4, <2>0, GoesOn
  <2>3. \A S, T : S \subseteq T /\ T \subseteq Hands => Cardinality(S) <= Cardinality(T)
    BY SomeHands, FS_Subset
  <2>4. channels' + Cardinality(InFlight') <= MaxConcurrent + Cardinality(Hands) - 1 + blind'
    <3>1. PICK m, n \in Nat : /\ m = Cardinality(InFlight') /\ m <= Cardinality(Hands)
                              /\ n = Cardinality(InFlight) /\ m <= n + 1
                              /\ placing[w].at # "idle" => m <= n
      BY <2>0, <2>2, <2>3, SomeHands, OneComes
    <3>2. channels + n <= MaxConcurrent + Cardinality(Hands) - 1 + blind /\ channels \in Nat
      BY <3>1 DEF SlotInv, Slots, PlacerTypes
    <3>3. CASE blind' = blind + 1
      BY <1>0, <1>1, <3>1, <3>2, <3>3, SlotNumbers
    <3>4. CASE UNCHANGED blind /\ at = "global" /\ channels < MaxConcurrent
      BY <1>0, <1>1, <3>1, <3>2, <3>4, SlotNumbers
    <3>5. CASE UNCHANGED blind /\ at = "both"
      BY <1>0, <1>1, <1>4, <3>1, <3>2, <3>5, SlotNumbers
    <3> QED BY <1>4, <3>3, <3>4, <3>5
  <2>5. ASSUME NEW e \in Companies
        PROVE  tenantChannels'[e] + Cardinality(Placing(e)')
                 <= MaxConcurrentPerTenant + Cardinality(Hands) - 1 + blind'
    <3>0. Placing(e)' \subseteq Hands /\ Placing(e) \subseteq Hands
      BY DEF Placing
    <3>1. PICK m, n \in Nat : /\ m = Cardinality(Placing(e)') /\ m <= Cardinality(Hands)
                              /\ n = Cardinality(Placing(e))
      BY <3>0, SomeHands
    <3>2. /\ tenantChannels[e] + n <= MaxConcurrentPerTenant + Cardinality(Hands) - 1 + blind
          /\ tenantChannels[e] \in Nat
      BY <3>1 DEF SlotInv, Slots, PlacerTypes
    <3>3. CASE e # c \/ at = "global"
      <4>1. Placing(e)' \subseteq Placing(e)
        BY <2>2, <3>3
      <4>2. m <= n
        BY <2>3, <3>0, <3>1, <4>1
      <4>3. blind' \in Nat /\ blind <= blind'
        BY <1>0, <1>4
      <4> QED BY <1>0, <1>1, <3>1, <3>2, <4>2, <4>3, SlotNumbers
    <3>4. CASE e = c /\ blind' = blind + 1
      <4>1. m <= n + 1
        BY <2>2, <3>0, <3>1, <3>4, OneComes
      <4> QED BY <1>0, <1>1, <3>1, <3>2, <3>4, <4>1, SlotNumbers
    <3>5. CASE e = c /\ UNCHANGED blind /\ tenantChannels[e] < MaxConcurrentPerTenant
      BY <1>0, <1>1, <3>1, <3>2, <3>5, SlotNumbers
    <3> QED BY <1>4, <3>3, <3>4, <3>5
  <2> QED BY <1>1, <2>1, <2>4, <2>5 DEF SlotInv, Slots
<1> QED BY <1>2, <1>3, <1>4

\* A worker that goes idle is no longer among those that passed.
LEMMA GoesIdle ==
  ASSUME NEW w \in Hands, placing'[w].at = "idle",
         \A v \in Hands \ {w} : placing'[v] = placing[v]
  PROVE  InFlight' = InFlight \ {w} /\ \A c \in Companies : Placing(c)' = Placing(c) \ {w}
<1>1. InFlight' = InFlight \ {w}
  <2>1. InFlight' \subseteq InFlight \ {w}
    <3> SUFFICES ASSUME NEW v \in Hands, placing'[v].at \in {"global", "both"}
        PROVE  v # w /\ placing[v].at \in {"global", "both"}
      BY DEF InFlight
    <3>1. v # w
      OBVIOUS
    <3> QED BY <3>1
  <2>2. InFlight \ {w} \subseteq InFlight'
    <3> SUFFICES ASSUME NEW v \in Hands \ {w}, placing[v].at \in {"global", "both"}
        PROVE  placing'[v].at \in {"global", "both"}
      BY DEF InFlight
    <3> QED OBVIOUS
  <2> QED BY <2>1, <2>2
<1>2. ASSUME NEW c \in Companies PROVE Placing(c)' = Placing(c) \ {w}
  <2>1. Placing(c)' \subseteq Placing(c) \ {w}
    <3> SUFFICES ASSUME NEW v \in Hands, placing'[v].at = "both", placing'[v].tenant = c
        PROVE  v # w /\ placing[v].at = "both" /\ placing[v].tenant = c
      BY DEF Placing
    <3>1. v # w
      OBVIOUS
    <3> QED BY <3>1
  <2>2. Placing(c) \ {w} \subseteq Placing(c)'
    <3> SUFFICES ASSUME NEW v \in Hands \ {w}, placing[v].at = "both", placing[v].tenant = c
        PROVE  placing'[v].at = "both" /\ placing'[v].tenant = c
      BY DEF Placing
    <3> QED OBVIOUS
  <2> QED BY <2>1, <2>2
<1> QED BY <1>1, <1>2

\* A call that went ahead is counted, and comes up or does not: what was promised to it
\* becomes a slot that is taken.
LEMMA TakesSlot ==
  ASSUME SlotInv, NEW w \in Hands, NEW c \in Companies, NEW up \in {0, 1},
         placing[w].at = "both", c = placing[w].tenant,
         channels' = channels + 1, live' = live + up,
         tenantChannels' = [tenantChannels EXCEPT ![c] = @ + 1],
         tenantLive' = [tenantLive EXCEPT ![c] = @ + up],
         placing' = [placing EXCEPT ![w] = Cha!Idle], blind' = blind
  PROVE  SlotInv'
<1>0. blind \in Nat
  BY SlotNumbers DEF SlotInv, PlacerTypes
<1>2. w \in InFlight /\ w \in Placing(c) /\ InFlight \subseteq Hands /\ Placing(c) \subseteq Hands
  BY DEF InFlight, Placing
<1>3. PlacerTypes'
  BY IdlePlacer DEF SlotInv, PlacerTypes, Cha!Idle
<1>4. InFlight' = InFlight \ {w} /\ \A d \in Companies : Placing(d)' = Placing(d) \ {w}
  <2>1. placing'[w].at = "idle" /\ \A v \in Hands \ {w} : placing'[v] = placing[v]
    BY IdlePlacer DEF SlotInv, PlacerTypes
  <2> QED BY <2>1, GoesIdle
<1>5. /\ Cardinality(InFlight') = Cardinality(InFlight) - 1 /\ Cardinality(InFlight) \in Nat
      /\ Cardinality(Placing(c)') = Cardinality(Placing(c)) - 1 /\ Cardinality(Placing(c)) \in Nat
  BY <1>2, <1>4, OneLeaves, SomeHands
<1>6. /\ live' <= channels'
      /\ channels' + Cardinality(InFlight') <= MaxConcurrent + Cardinality(Hands) - 1 + blind'
  BY <1>0, <1>5, SlotNumbers DEF SlotInv, Slots, PlacerTypes
<1>7. ASSUME NEW d \in Companies
      PROVE  /\ tenantLive'[d] <= tenantChannels'[d]
             /\ tenantChannels'[d] + Cardinality(Placing(d)')
                  <= MaxConcurrentPerTenant + Cardinality(Hands) - 1 + blind'
  <2>1. tenantChannels[d] \in Nat /\ tenantLive[d] \in Nat
    BY DEF SlotInv, PlacerTypes
  <2>2. /\ tenantLive[d] <= tenantChannels[d]
        /\ tenantChannels[d] + Cardinality(Placing(d))
             <= MaxConcurrentPerTenant + Cardinality(Hands) - 1 + blind
    BY DEF SlotInv, Slots
  <2>3. CASE d = c
    <3>1. tenantChannels'[d] = tenantChannels[d] + 1 /\ tenantLive'[d] = tenantLive[d] + up
      BY <2>3 DEF SlotInv, PlacerTypes
    <3>2. Placing(d) = Placing(c) /\ Placing(d)' = Placing(c)'
      BY <2>3, <1>4
    <3> QED BY <1>0, <1>5, <2>1, <2>2, <3>1, <3>2, SlotNumbers
  <2>4. CASE d # c
    <3>1. tenantChannels'[d] = tenantChannels[d] /\ tenantLive'[d] = tenantLive[d]
      BY <2>4 DEF SlotInv, PlacerTypes
    <3>2. w \notin Placing(d)
      BY <2>4 DEF Placing
    <3>3. Placing(d)' = Placing(d)
      BY <1>4, <3>2
    <3> QED BY <2>2, <3>1, <3>3
  <2> QED BY <2>3, <2>4
<1> QED BY <1>3, <1>6, <1>7 DEF SlotInv, Slots

\* acquire_channel counts the call that is placed then.
LEMMA AcquireStep ==
  ASSUME SlotInv, NEW w \in Hands, Cha!AcquireChannel(w)
  PROVE  SlotInv'
<1>1. placing[w].tenant \in Companies
  BY DEF SlotInv, PlacerTypes
<1>2. 1 \in {0, 1}
  OBVIOUS
<1> QED BY <1>1, <1>2, TakesSlot DEF Cha!AcquireChannel

\* A call that is refused is counted all the same, or is not.
LEMMA RefuseStep ==
  ASSUME SlotInv, NEW w \in Hands, Cha!Refuse(w)
  PROVE  SlotInv'
<1>1. placing[w].tenant \in Companies /\ live \in Int /\ tenantLive \in [Companies -> Nat]
  BY DEF SlotInv, PlacerTypes
<1>2. /\ placing[w].at = "both" /\ placing' = [placing EXCEPT ![w] = Cha!Idle]
      /\ UNCHANGED <<live, tenantLive, blind>>
  BY DEF Cha!Refuse
<1>3. CASE UNCHANGED <<channels, tenantChannels>>
  <2>1. InFlight' \subseteq InFlight /\ \A c \in Companies : Placing(c)' \subseteq Placing(c)
    BY <1>2, IdlePlacer DEF SlotInv, PlacerTypes, InFlight, Placing
  <2>2. PlacerTypes'
    BY <1>2, <1>3, IdlePlacer DEF SlotInv, PlacerTypes, Cha!Idle
  <2> QED BY <1>2, <1>3, <2>1, <2>2, FewerInFlight DEF SlotInv, Slots, PlacerTypes
<1>4. CASE /\ channels' = channels + 1
           /\ tenantChannels' = [tenantChannels EXCEPT ![placing[w].tenant] = @ + 1]
  <2>1. /\ 0 \in {0, 1} /\ live' = live + 0
        /\ tenantLive' = [tenantLive EXCEPT ![placing[w].tenant] = @ + 0]
    BY <1>1, <1>2
  <2> QED BY <1>1, <1>2, <1>4, <2>1, TakesSlot
<1> QED BY <1>3, <1>4 DEF Cha!Refuse

\* A behaviour of the whole is one of Channels.
LEMMA ChannelsPart == Spec => Cha!Spec
<1>1. Init => Cha!Init
  BY DEF Init
<1>2. [Next]_vars => [Cha!Next]_(Cha!hvars)
  BY DEF Next, vars, AtRest, hvars, Cha!hvars
<1> QED BY <1>1, <1>2, PTL DEF Spec, Cha!Spec

\* What is proved of the counters is true throughout.
LEMMA SlotsKept == Spec => []SlotInv
<1>1. SlotInv /\ [Cha!Next]_(Cha!hvars) => SlotInv'
  BY AsideStep, CheckStep, AcquireStep, RefuseStep DEF Cha!Next
<1> QED BY InitSlots, <1>1, ChannelsPart, PTL DEF Cha!Spec

\* However the workers' reads and increments interleave, however many workers and tenants
\* there are, and however many reads fail: the calls that are up exceed a limit by less than
\* the number of workers, and one for each read that failed there (scheduler/throttle.py:113-139).
THEOREM LimitsHold == Spec => []ChannelsHold
<1>1. SlotInv => ChannelsHold
  <2> SUFFICES ASSUME SlotInv PROVE Cha!ChannelsHold
    BY DEF ChannelsHold
  <2>0. blind \in Nat
    BY SlotNumbers DEF SlotInv, PlacerTypes
  <2>1. \A S : S \subseteq Hands => Cardinality(S) \in Nat
    BY SomeHands
  <2>2. Cardinality(InFlight) \in Nat /\ \A c \in Companies : Cardinality(Placing(c)) \in Nat
    BY <2>1 DEF InFlight, Placing
  <2>3. channels <= MaxConcurrent + (Cardinality(Hands) - 1 + blind)
    BY <2>0, <2>2, SlotNumbers DEF SlotInv, Slots, PlacerTypes
  <2>4. ASSUME NEW c \in Companies
        PROVE  tenantChannels[c] <= MaxConcurrentPerTenant + (Cardinality(Hands) - 1 + blind)
    <3>1. tenantChannels[c] \in Nat
      BY DEF SlotInv, PlacerTypes
    <3> QED BY <2>0, <2>2, <3>1, SlotNumbers DEF SlotInv, Slots
  <2>5. Cha!Cardinality(Hands) = Cardinality(Hands)
    BY DEF Cha!Cardinality, Cardinality
  <2> QED BY <2>3, <2>4, <2>5 DEF SlotInv, Slots, Cha!ChannelsHold
<1> QED BY <1>1, SlotsKept, PTL

---------------------------------------------------------------------------
(* Types.                                                                  *)

\* The calls that are up, one by one.
Up == {p \in Companies \X Nat : 1 <= p[2] /\ p[2] <= tenantLive[p[1]]}

\* The calls that are up are those of the tenants, so that there is one when one ends.
Counting == IsFiniteSet(Up) /\ Cardinality(Up) = live

\* No call is up yet.
LEMMA InitCounting == Cha!Init => Counting
<1>1. Cha!Init => Up = {} /\ live = 0
  BY DEF Cha!Init, Up
<1> QED BY <1>1, FS_EmptySet DEF Counting

\* A call that starts is one more, and one that ends was there.
LEMMA CountingStep ==
  ASSUME PlacerTypes, Counting, [Cha!Next]_(Cha!hvars)
  PROVE  Counting'
<1>1. \A c \in Companies : tenantLive[c] \in Nat
  BY DEF PlacerTypes
<1>2. ASSUME NEW c \in Companies, live' = live + 1, tenantLive' = [tenantLive EXCEPT ![c] = @ + 1]
      PROVE  Counting'
  <2>1. PICK n \in Nat : n = tenantLive[c]
    BY <1>1
  <2>2. \A d \in Companies : tenantLive'[d] = IF d = c THEN n + 1 ELSE tenantLive[d]
    BY <1>2, <2>1 DEF PlacerTypes
  <2>3. Up' = Up \cup {<<c, n + 1>>} /\ <<c, n + 1>> \notin Up
    BY <1>1, <2>1, <2>2 DEF Up
  <2> QED BY <1>2, <2>3, FS_AddElement DEF Counting
<1>3. ASSUME NEW c \in Companies, tenantLive[c] > 0, live' = live - 1,
             tenantLive' = [tenantLive EXCEPT ![c] = @ - 1]
      PROVE  Counting'
  <2>1. PICK n \in Nat : n = tenantLive[c] /\ n > 0
    BY <1>1, <1>3
  <2>2. \A d \in Companies : tenantLive'[d] = IF d = c THEN n - 1 ELSE tenantLive[d]
    BY <1>3, <2>1 DEF PlacerTypes
  <2>3. Up' = Up \ {<<c, n>>} /\ <<c, n>> \in Up
    BY <1>1, <2>1, <2>2 DEF Up
  <2> QED BY <1>3, <2>3, FS_RemoveElement DEF Counting
<1>4. CASE UNCHANGED <<live, tenantLive>>
  BY <1>4 DEF Counting, Up
<1>5. ASSUME NEW w \in Hands, Cha!AcquireChannel(w)
      PROVE  Counting'
  BY <1>2, <1>5 DEF Cha!AcquireChannel, PlacerTypes
<1>6. CASE Cha!CallEnds
  BY <1>3, <1>6 DEF Cha!CallEnds
<1> QED
  BY <1>4, <1>5, <1>6 DEF Cha!Next, Cha!ReadChannels, Cha!ReadTenant, Cha!Check, Cha!Refuse,
     Cha!CounterExpires, Cha!hvars

\* The days are within their bound, and nobody was contacted in the future.
Dates == /\ today \in 0 .. MaxDay /\ spent \in [0 .. MaxDay -> Nat] /\ said.account \in Debts
         /\ \A a \in Debts : owes[a].last <= today /\ Pol!Never <= owes[a].last

\* Nothing has happened on the first day.
LEMMA InitDates == Pol!Init => Dates
BY BoundAssumption, SomeOfEach DEF Pol!Init, Dates, Pol!Blank, Pol!Never

\* A contact is dated today, and is about an account of the debtor's.
LEMMA DatesStep ==
  ASSUME Counted, Dates, [Pol!Next]_(Pol!pvars)
  PROVE  Dates'
<1>1. today \in Nat /\ MaxDay \in Nat /\ Pol!Never = -1 /\ Pol!Blank.account \in Debts
      /\ \A a \in Debts : owes[a] \in Owe
  BY BoundAssumption, SomeOfEach DEF Counted, Pol!Never, Pol!Blank
<1>2. CASE UNCHANGED Pol!pvars
  BY <1>2 DEF Pol!pvars, Dates
<1>3. CASE Pol!Decide
  <2>1. PICK p \in People : \E d \in Pol!Evaluate(p) : d.allowed /\ said' = d
    BY <1>3 DEF Pol!Decide
  <2>2. PICK d \in Pol!Evaluate(p) : d.allowed /\ said' = d
    BY <2>1
  <2>3. PICK b \in Debts : d \in Pol!ForAccount(p, b)
    BY <2>2, BlocksRefuse DEF Pol!Evaluate, Pol!Severest, Pol!Eligible
  <2>4. d.account = b
    BY <2>2, <2>3, AllowedOnAccount
  <2> QED BY <1>3, <2>2, <2>3, <2>4 DEF Dates, Pol!Decide
<1>4. CASE Pol!CallEnds
  <2>1. PICK delivered \in BOOLEAN, counts \in BOOLEAN :
          /\ spent' = [spent EXCEPT ![today] = @ + (IF counts THEN 1 ELSE 0)]
          /\ owes' = IF said.account \in Laddered
                     THEN [owes EXCEPT ![said.account] =
                             [Pol!RecordAttempt(owes[said.account], delivered) EXCEPT !.last = today]]
                     ELSE owes
    BY <1>4 DEF Pol!CallEnds
  <2>2. said' = Pol!Blank /\ today' = today
    BY <1>4 DEF Pol!CallEnds
  <2>3. spent' \in [0 .. MaxDay -> Nat]
    BY <2>1 DEF Dates
  <2>4. ASSUME NEW a \in Debts
        PROVE  owes'[a].last = today \/ owes'[a].last = owes[a].last
    <3>1. [Pol!RecordAttempt(owes[a], delivered) EXCEPT !.last = today].last = today
      BY <1>1 DEF Pol!RecordAttempt, Owe
    <3> QED BY <2>1, <3>1 DEF Counted
  <2>5. \A a \in Debts : owes'[a].last <= today' /\ Pol!Never <= owes'[a].last
    <3> SUFFICES ASSUME NEW a \in Debts PROVE owes'[a].last <= today /\ Pol!Never <= owes'[a].last
      BY <2>2
    <3> QED BY <1>1, <2>4 DEF Dates
  <2>6. today' \in 0 .. MaxDay /\ said'.account \in Debts
    BY <1>1, <2>2 DEF Dates
  <2> QED BY <2>3, <2>5, <2>6 DEF Dates
<1>5. CASE Pol!MessageSent
  BY <1>1, <1>5 DEF Pol!MessageSent, Dates
<1>6. CASE Pol!NextDay
  <2>1. \A a \in Debts : owes[a].last \in Int
    BY <1>1 DEF Owe
  <2> QED BY <1>1, <1>6, <2>1 DEF Pol!NextDay, Dates
<1>7. ASSUME NEW a \in Debts, Pol!PartPaid(a) \/ Pol!Disputed(a) \/ Pol!Cleared(a)
      PROVE  Dates'
  <2>1. UNCHANGED <<today, spent, said>>
    BY <1>7 DEF Pol!PartPaid, Pol!Disputed, Pol!Cleared, Pol!Write
  <2>2. PICK o : owes' = [owes EXCEPT ![a] = o] /\ (o.last = owes[a].last \/ o.last = Pol!Never)
    <3>1. CASE Pol!PartPaid(a)
      <4> DEFINE o == [owes[a] EXCEPT !.big = FALSE, !.attempts = 0, !.last = Pol!Never]
      <4>1. owes' = [owes EXCEPT ![a] = o]
        BY <3>1 DEF Pol!PartPaid, Pol!Write
      <4>2. o.last = Pol!Never
        BY <1>1 DEF Owe
      <4> HIDE DEF o
      <4> QED BY <4>1, <4>2
    <3>2. CASE Pol!Disputed(a)
      <4> DEFINE o == [owes[a] EXCEPT !.status = "IN_DISPUTE"]
      <4>1. owes' = [owes EXCEPT ![a] = o]
        BY <3>2 DEF Pol!Disputed, Pol!Write
      <4>2. o.last = owes[a].last
        BY <1>1 DEF Owe
      <4> HIDE DEF o
      <4> QED BY <4>1, <4>2
    <3>3. CASE Pol!Cleared(a)
      <4>1. PICK status \in {"OVERDUE", "SETTLED"} : Pol!Write(a, [owes[a] EXCEPT !.status = status])
        BY <3>3 DEF Pol!Cleared
      <4> DEFINE o == [owes[a] EXCEPT !.status = status]
      <4>2. owes' = [owes EXCEPT ![a] = o]
        BY <4>1 DEF Pol!Write
      <4>3. o.last = owes[a].last
        BY <1>1 DEF Owe
      <4> HIDE DEF o
      <4> QED BY <4>2, <4>3
    <3> QED BY <1>7, <3>1, <3>2, <3>3
  <2>3. \A b \in Debts : owes'[b].last = owes[b].last \/ owes'[b].last = Pol!Never
    BY <2>2 DEF Counted
  <2> QED BY <1>1, <2>1, <2>3 DEF Dates
<1> QED BY <1>2, <1>3, <1>4, <1>5, <1>6, <1>7 DEF Pol!Next

\* The messages, the limits, the campaigns, the ladders and the recordings keep their types.
LEMMA ContactsTyped ==
  Spec => []((Msg!TypeOK /\ Thr!TypeOK /\ Cha!TypeOK) /\ Cam!TypeOK /\ Pol!TypeOK /\ Aud!TypeOK)
<1>1. MessageInv => Msg!TypeOK
  BY DEF MessageInv
<1>2. EnrolInv => Cam!TypeOK
  BY DEF EnrolInv
<1>3. AudioInv => Aud!TypeOK
  BY DEF AudioInv, Recordings, Task, Aud!TypeOK
<1>4. /\ BucketInv => Thr!TypeOK
      /\ SlotInv /\ Counting => Cha!TypeOK
  <2>1. Counting => live \in Nat
    BY FS_CardinalityType DEF Counting
  <2> QED BY <2>1 DEF BucketInv, BucketTypes, SlotInv, PlacerTypes, Thr!TypeOK, Cha!TypeOK
<1>5. Counted /\ Dates => Pol!TypeOK
  BY BoundAssumption DEF Counted, Dates, Owe, Pol!TypeOK, Pol!Never
<1>6. Spec => []Counting
  <2>1. SlotInv => PlacerTypes
    BY DEF SlotInv
  <2> QED BY <2>1, InitCounting, CountingStep, SlotsKept, ChannelsPart, PTL DEF Cha!Spec
<1>7. Spec => []Dates
  BY InitDates, DatesStep, CountedKept, PolicyPart, PTL DEF Pol!Spec
<1> QED
  BY <1>1, <1>2, <1>3, <1>4, <1>5, <1>6, <1>7, MessagesKept, EnrolKept, RecordingsKept,
     BucketKept, SlotsKept, CountedKept, PTL
=============================================================================
