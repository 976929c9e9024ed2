----------------------------- MODULE Messaging -----------------------------
(***************************************************************************)
(* One outbound message: the workers that compute the same idempotency key *)
(* for it, the provider it is handed to, and the delivery reports that     *)
(* come back (comms/service.py, comms/base.py, models/comms.py).  The key  *)
(* names the time of its schedule, which the dispatcher sets to the tick's *)
(* own (dispatch.py:439-440): what a later tick sends again is another     *)
(* message, and none of this.  A report is ingested in a transaction of    *)
(* its own, which reads the row when it starts and writes the columns it   *)
(* changed.                                                                *)
(***************************************************************************)
EXTENDS Naturals

CONSTANTS Workers, Hooks,  \* the processes that send, and that ingest reports
          Reports          \* the reports of the provider: what they say, their dedupe key

VARIABLES
  message,     \* the committed row, or NoMessage
  log,         \* the committed message_events
  sending,     \* where each worker is
  hook,        \* the report each handler holds, with the row as it read it
  claimed, redisUp,  \* the in-flight key in Redis, and whether Redis answers
  handed,      \* how often a provider accepted the message
  outrun       \* history: a report was projected on a status that had changed since

mvars == <<message, log, sending, hook, claimed, redisUp, handed, outrun>>

MessageStatus == {"QUEUED", "SENT", "DELIVERED", "READ", "FAILED", "BLOCKED"}
MessageRow == [status : MessageStatus, accepted : BOOLEAN, sent : BOOLEAN,
               delivered : BOOLEAN, read : BOOLEAN, failed : BOOLEAN]
MessageEvent == [type : {"sent", "delivered", "read", "failed"}, key : Nat]

Queued == [status |-> "QUEUED", accepted |-> FALSE, sent |-> FALSE,
           delivered |-> FALSE, read |-> FALSE, failed |-> FALSE]
NoMessage == [Queued EXCEPT !.status = "NONE"]
NoReport == [report |-> [type |-> "none", key |-> 0], row |-> NoMessage]

Init == /\ message = NoMessage /\ log = {}
        /\ sending = [w \in Workers |-> "idle"] /\ hook = [h \in Hooks |-> NoReport]
        /\ claimed = FALSE /\ redisUp = TRUE /\ handed = 0 /\ outrun = FALSE

Go(w, from, to) == sending[w] = from /\ sending' = [sending EXCEPT ![w] = to]

---------------------------------------------------------------------------
(* Sending.                                                                *)

\* queue_message looks for the key: DuplicateSend if there is a row.
Look(w) == /\ Go(w, "idle", IF message = NoMessage THEN "looked" ELSE "refused")
           /\ UNCHANGED <<message, log, hook, claimed, redisUp, handed, outrun>>

\* Mutant: idempotency_key is not unique.
InsertAnyway(w) == /\ Go(w, "looked", "inserted")
                   /\ UNCHANGED <<message, log, hook, claimed, redisUp, handed, outrun>>

\* The INSERT waits for another one of the same key, and fails once that is committed.
Insert(w) == /\ \A v \in Workers : sending[v] # "inserted"
             /\ Go(w, "looked", IF message = NoMessage THEN "inserted" ELSE "refused")
             /\ UNCHANGED <<message, log, hook, claimed, redisUp, handed, outrun>>

CommitQueued(w) == /\ Go(w, "inserted", "queued") /\ message' = Queued
                   /\ UNCHANGED <<log, hook, claimed, redisUp, handed, outrun>>

\* No provider is configured for the channel.
NoProvider(w) == /\ Go(w, "queued", "done")
                 /\ message' = [message EXCEPT !.status = "FAILED", !.failed = TRUE]
                 /\ UNCHANGED <<log, hook, claimed, redisUp, handed, outrun>>

\* _redis_guard: SET NX, or leave it to the constraint if Redis does not answer.
Guard(w) == /\ Go(w, "queued", IF redisUp /\ claimed THEN "refused" ELSE "guarded")
            /\ claimed' = (claimed \/ redisUp)
            /\ UNCHANGED <<message, log, hook, redisUp, handed, outrun>>

\* provider.send accepts, rejects, or refuses to contact the address.  ContactBlocked is
\* raised after a flush only: the caller's rollback takes BLOCKED back.
HandOver(w) ==
  /\ \E to \in {"accepted", "rejected", "refused"} :
       Go(w, "guarded", to) /\ handed' = handed + (IF to = "accepted" THEN 1 ELSE 0)
  /\ UNCHANGED <<message, log, hook, claimed, redisUp, outrun>>

Store(w) ==
  /\ \/ /\ Go(w, "accepted", "done")
        /\ message' = [message EXCEPT !.status = "SENT", !.accepted = TRUE, !.sent = TRUE]
     \/ /\ Go(w, "rejected", "done")
        /\ message' = [message EXCEPT !.status = "FAILED", !.failed = TRUE]
  /\ UNCHANGED <<log, hook, claimed, redisUp, handed, outrun>>

\* The worker dies, or its transaction is rolled back.
Die(w) == /\ sending[w] \notin {"idle", "refused", "done", "dead"}
          /\ sending' = [sending EXCEPT ![w] = "dead"]
          /\ UNCHANGED <<message, log, hook, claimed, redisUp, handed, outrun>>

\* Redis goes away or comes back; a key expires.
Redis == /\ \/ redisUp' = ~redisUp /\ UNCHANGED claimed
            \/ claimed /\ claimed' = FALSE /\ UNCHANGED redisUp
         /\ UNCHANGED <<message, log, sending, hook, handed, outrun>>

---------------------------------------------------------------------------
(* Delivery reports.                                                       *)

EventStatus == [sent |-> "SENT", delivered |-> "DELIVERED", read |-> "READ", failed |-> "FAILED"]
MessageRank == [QUEUED |-> 0, SENT |-> 1, DELIVERED |-> 2, READ |-> 3, FAILED |-> 4, BLOCKED |-> 4]

\* Mutant: the last report that came in is the status.
LastReport(m, type) == [ m EXCEPT !.status = EventStatus[type],
                                  !.sent = @ \/ type = "sent",
                                  !.delivered = @ \/ type = "delivered",
                                  !.read = @ \/ type = "read",
                                  !.failed = @ \/ type = "failed" ]

\* What a report makes of the row it is applied to.
Projected(m, type) ==
  [ m EXCEPT !.status = IF MessageRank[EventStatus[type]] >= MessageRank[@]
                        THEN EventStatus[type] ELSE @,
             !.sent = @ \/ type = "sent",
             !.delivered = @ \/ type = "delivered",
             !.read = @ \/ type = "read",
             !.failed = @ \/ type = "failed" ]

\* The columns whose value changed are written.
WriteBack(now, old, new) ==
  [c \in DOMAIN now |-> IF new[c] = old[c] THEN now[c] ELSE new[c]]

\* A report comes in: find_by_provider_id finds a row once the hand-over is stored, and
\* a report that is in the log already is dropped.
Receive(h) ==
  /\ hook[h] = NoReport /\ handed > 0
  /\ message # NoMessage /\ message.accepted
  /\ \E r \in Reports \ log : hook' = [hook EXCEPT ![h] = [report |-> r, row |-> message]]
  /\ UNCHANGED <<message, log, sending, claimed, redisUp, handed, outrun>>

\* The event is appended and the row projected; the constraint refuses a second one.
Ingest(h) ==
  /\ hook[h] # NoReport
  /\ LET r == hook[h].report
         new == Projected(hook[h].row, r.type)
     IN IF r \in log THEN UNCHANGED <<message, log, outrun>>
        ELSE /\ log' = log \cup {r}
             /\ message' = WriteBack(message, hook[h].row, new)
             /\ outrun' = (outrun \/ hook[h].row.status # message.status)
  /\ hook' = [hook EXCEPT ![h] = NoReport]
  /\ UNCHANGED <<sending, claimed, redisUp, handed>>

Lose(h) == /\ hook[h] # NoReport /\ hook' = [hook EXCEPT ![h] = NoReport]
           /\ UNCHANGED <<message, log, sending, claimed, redisUp, handed, outrun>>

Next == \/ \E w \in Workers :
             \/ Look(w) \/ Insert(w) \/ CommitQueued(w) \/ NoProvider(w) \/ Guard(w)
             \/ HandOver(w) \/ Store(w) \/ Die(w)
        \/ \E h \in Hooks : Receive(h) \/ Ingest(h) \/ Lose(h)
        \/ Redis

Spec == Init /\ [][Next]_mvars

---------------------------------------------------------------------------
TypeOK == /\ message \in MessageRow \cup {NoMessage}
          /\ log \subseteq MessageEvent
          /\ sending \in [Workers -> {"idle", "looked", "inserted", "queued", "guarded",
                                      "accepted", "rejected", "refused", "done", "dead"}]
          /\ claimed \in BOOLEAN /\ redisUp \in BOOLEAN /\ outrun \in BOOLEAN
          /\ handed \in Nat

\* A message is handed to a provider at most once, by whichever of the workers that
\* computed its key, even while Redis is down or has forgotten the key, and never
\* without a committed row that says so (comms/service.py:7-11).
HandedOverOnce == handed <= 1 /\ (handed > 0 => message # NoMessage)

Reported(type) == \E r \in log : r.type = type

\* Sent, delivered and read are separate facts and each is exactly what the log of
\* reports says, in whatever order and however often the reports came.  The status is
\* the furthest of them, unless two reports overlapped: then the one that read the row
\* earlier may have put it back.
ReportsAreKept ==
  message # NoMessage /\ message.accepted =>
    /\ message.sent
    /\ message.delivered <=> Reported("delivered")
    /\ message.read <=> Reported("read")
    /\ message.failed <=> Reported("failed")
    /\ \/ outrun
       \/ /\ \A r \in log : MessageRank[message.status] >= MessageRank[EventStatus[r.type]]
          /\ message.status = "SENT" \/ \E r \in log : message.status = EventStatus[r.type]
=============================================================================
