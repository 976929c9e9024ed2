------------------------------ MODULE Dispatch ------------------------------
(***************************************************************************)
(* The scheduler: tick workers that claim a batch of due buyers and take   *)
(* each through the policy gates to a call or a message                    *)
(* (scheduler/tick.py, scheduler/dispatch.py).                             *)
(*                                                                         *)
(* Several workers share one database.  What keeps them apart is           *)
(*   - the row lock that due_buyers takes on its batch (FOR UPDATE SKIP    *)
(*     LOCKED) and that any write for a buyer takes too;                   *)
(*   - the advisory lock on the buyer that dispatch_buyer takes;           *)
(* and both end with the transaction, which a worker commits several times *)
(* in one tick.  A write is visible to the others when it is committed.    *)
(*                                                                         *)
(* A call and a message are both an attempt: they are queued, committed,   *)
(* handed over and followed up by the same steps.                          *)
(***************************************************************************)
EXTENDS Integers, Sequences, FiniteSets

CONSTANTS Workers, Buyers,
          NoWorker,
          Limits,      \* the caps: at most .cap attempts in any .span of time
          Gap,         \* campaign.min_hours_between_calls
          RetryAfterBlock, RetryThrottled,
          RetryDelays, \* what next_retry_delay may answer; NoTime: no number is left to dial
          Tracked,     \* buyers whose account has an EscalationState row
          BatchSize,   \* settings.scheduler_batch_size
          MaxTime,     \* bound: the clock stops here
          MaxChanges,  \* bound: how many withdrawals, settlements and pauses there are
          MaxReturned, \* bound: how many attempts a carrier fault gives back
          MaxFaults    \* bound: how many crashes and exceptions there are

ASSUME WorkersAssumption == NoWorker \notin Workers
ASSUME LimitsAssumption == Limits \subseteq [span : Nat, cap : Nat]
ASSUME TimesAssumption ==
  /\ {Gap, RetryAfterBlock, RetryThrottled} \subseteq Nat /\ RetryDelays \subseteq Nat \cup {-1}
  /\ BatchSize \in Nat /\ MaxTime \in Nat /\ MaxChanges \in Nat
  /\ MaxReturned \in Nat /\ MaxFaults \in Nat
ASSUME TrackedAssumption == Tracked \subseteq Buyers

VARIABLES
  clock,
  \* the committed database
  rows,         \* attempts: calls and messages that reached a transaction's end
  blocks,       \* buyers with a refusal on record: a BLOCKED call, which no cap counts
  nextAction,   \* Buyer.next_action_at
  withdrawn,    \* when the buyer's consent was withdrawn, if it was
  closed,       \* when the account was settled, disputed or written off, if it was
  lastContact,  \* EscalationState.last_contact_at
  active,       \* is the campaign ACTIVE?
  left,         \* buyers whose target is no longer active
  \* locks
  rowLock, advisory,
  \* the workers
  pc, batch, now, begun, seen, pendNext, pendBlocks, attempt,
  \* the world outside
  contacted,    \* attempts that reached the debtor, and when
  faults

db    == <<rows, blocks, nextAction, withdrawn, closed, lastContact, active, left>>
locks == <<rowLock, advisory>>
wvars == <<pc, batch, now, begun, seen, pendNext, pendBlocks, attempt>>
vars  == <<clock, db, locks, wvars, contacted, faults>>

NoTime == -1
Times == Nat \cup {NoTime}

\* A next_action_at that is to be set to None.
Cleared == -2

Withdrawn == { b \in Buyers : withdrawn[b] # NoTime }

\* What a session that has loaded nothing knows of the campaign and the buyers.
Unseen == [active |-> TRUE, withdrawn |-> {}]

---------------------------------------------------------------------------
Init ==
  /\ clock = 0
  /\ rows = {} /\ blocks = {} /\ active = TRUE /\ left = {}
  /\ withdrawn = [b \in Buyers |-> NoTime] /\ closed = [b \in Buyers |-> NoTime]
  /\ nextAction = [b \in Buyers |-> 0]
  /\ lastContact = [b \in Buyers |-> NoTime]
  /\ rowLock = [b \in Buyers |-> NoWorker]
  /\ advisory = [b \in Buyers |-> NoWorker]
  /\ pc = [w \in Workers |-> "idle"]
  /\ batch = [w \in Workers |-> <<>>]
  /\ now = [w \in Workers |-> 0]
  /\ begun = [w \in Workers |-> NoTime]
  /\ seen = [w \in Workers |-> Unseen]
  /\ pendNext = [w \in Workers |-> [b \in Buyers |-> NoTime]]
  /\ pendBlocks = [w \in Workers |-> {}]
  /\ attempt = [w \in Workers |-> 0]
  /\ contacted = {} /\ faults = 0

---------------------------------------------------------------------------
(* What the policy engine is told and what it says.                        *)

\* _attempts: the attempts of b since t that count.
Spent(b, t) == { r \in rows : r.buyer = b /\ r.at >= t /\ r.counts }

\* Mutant: the cap compared with > instead of >=.
OverCap(b, t) == \E l \in Limits : Cardinality(Spent(b, t - l.span)) > l.cap

CapReached(b, t) == \E l \in Limits : Cardinality(Spent(b, t - l.span)) >= l.cap

Cooling(b, t) == lastContact[b] # NoTime /\ t - lastContact[b] < Gap

\* Mutant: an account that is always chased.
AlwaysChaseable(b) == TRUE

\* The account is open for contact, as read from the database now.
Chaseable(b) == closed[b] = NoTime

\* evaluate, on the campaign and the buyer as this worker's session first loaded
\* them, and the account, the attempts and the last contact as committed now.
Refused(w, b) == \/ ~seen[w].active
                 \/ b \in seen[w].withdrawn
                 \/ ~Chaseable(b)
                 \/ CapReached(b, now[w])
                 \/ Cooling(b, now[w])

---------------------------------------------------------------------------
(* Transactions.                                                           *)

Current(w) == Head(batch[w])

Loaded == [active |-> active, withdrawn |-> Withdrawn]

Release(f, w) == [b \in Buyers |-> IF f[b] = w THEN NoWorker ELSE f[b]]

\* Row locks and advisory locks end with the transaction.
EndTransaction(w) == /\ rowLock' = Release(rowLock, w)
                     /\ advisory' = Release(advisory, w)
                     /\ begun' = [begun EXCEPT ![w] = NoTime]

Forget(w) == /\ pendNext' = [pendNext EXCEPT ![w] = [b \in Buyers |-> NoTime]]
             /\ pendBlocks' = [pendBlocks EXCEPT ![w] = {}]

\* The buyers' next_action_at once w's pending UPDATEs are committed.
Flushed(w) == [b \in Buyers |-> IF pendNext[w][b] = NoTime THEN nextAction[b]
                                ELSE IF pendNext[w][b] = Cleared THEN NoTime
                                ELSE pendNext[w][b]]

\* The rows that w's next flush updates and that it has not locked.
Unlocked(w) == { b \in Buyers : pendNext[w][b] # NoTime /\ rowLock[b] # w }

\* A flush or a commit ends when every row that it updates is locked.
Covered(w) == Unlocked(w) = {}

\* A write for buyer b waits for whoever holds its row.
Writable(w, b) == rowLock[b] \in {w, NoWorker}

Goto(w, label) == pc' = [pc EXCEPT ![w] = label]

\* On to the next buyer of the batch.
Advance(w) == /\ Goto(w, "next")
              /\ batch' = [batch EXCEPT ![w] = Tail(@)]

---------------------------------------------------------------------------
(* scheduler/tick.py: run_once.                                            *)

Due(b) == nextAction[b] # NoTime /\ nextAction[b] <= clock /\ b \notin left /\ active

\* ORDER BY next_action_at LIMIT n, of what no other worker has locked.
Claims == { s \in UNION { [1 .. n -> {b \in Buyers : Due(b) /\ rowLock[b] = NoWorker}]
                          : n \in 1 .. BatchSize } :
              /\ \A i, j \in DOMAIN s :
                   i < j => s[i] # s[j] /\ nextAction[s[i]] <= nextAction[s[j]]
              /\ \A b \in Buyers : Due(b) /\ rowLock[b] = NoWorker =>
                   \/ \E i \in DOMAIN s : s[i] = b
                   \/ Len(s) = BatchSize /\ nextAction[s[Len(s)]] <= nextAction[b] }

\* due_buyers: claim a batch and lock its rows.
Claim(w) ==
  /\ pc[w] = "idle"
  /\ \E s \in Claims :
       /\ batch' = [batch EXCEPT ![w] = s]
       /\ rowLock' = [b \in Buyers |-> IF \E i \in DOMAIN s : s[i] = b THEN w ELSE rowLock[b]]
  /\ now' = [now EXCEPT ![w] = clock]
  /\ begun' = [begun EXCEPT ![w] = clock]
  /\ seen' = [seen EXCEPT ![w] = Loaded]
  /\ Goto(w, "next")
  /\ UNCHANGED <<clock, db, advisory, pendNext, pendBlocks, attempt, contacted, faults>>

\* The locals of run_once and its session end with it.
EndTick(w) == /\ Goto(w, "idle")
              /\ batch' = [batch EXCEPT ![w] = <<>>]
              /\ now' = [now EXCEPT ![w] = 0]
              /\ seen' = [seen EXCEPT ![w] = Unseen]
              /\ attempt' = [attempt EXCEPT ![w] = 0]

\* A transaction begins if none is open.
Begin(w) == begun' = [begun EXCEPT ![w] = IF @ = NoTime THEN clock ELSE @]

\* campaign_for the next buyer of the batch.
FindCampaign(w) ==
  /\ pc[w] = "next" /\ batch[w] # <<>> /\ Current(w) \notin left
  /\ Begin(w)
  /\ Goto(w, "lock")
  /\ UNCHANGED <<clock, db, locks, batch, now, seen, pendNext, pendBlocks, attempt, contacted,
                 faults>>

\* A buyer that no campaign has any more is taken off the schedule. The session does not
\* flush by itself: the row is not written, nor locked, before somebody else's flush.
LetGo(w) ==
  /\ pc[w] = "next" /\ batch[w] # <<>> /\ Current(w) \in left
  /\ Begin(w)
  /\ pendNext' = [pendNext EXCEPT ![w][Current(w)] = Cleared]
  /\ Advance(w)
  /\ UNCHANGED <<clock, db, locks, now, seen, pendBlocks, attempt, contacted, faults>>

\* The end of run_once: commit what the last buyers left pending.
FinishTick(w) ==
  /\ pc[w] = "next" /\ batch[w] = <<>> /\ Covered(w)
  /\ nextAction' = Flushed(w)
  /\ blocks' = blocks \cup pendBlocks[w]
  /\ EndTransaction(w) /\ Forget(w) /\ EndTick(w)
  /\ UNCHANGED <<clock, rows, withdrawn, closed, lastContact, active, left, contacted, faults>>

\* An exception: the whole transaction is rolled back, with the refusals of the buyers
\* before this one, and the batch goes on.  The session reloads what it had loaded.
RollBack(w) ==
  /\ EndTransaction(w) /\ Forget(w)
  /\ Advance(w)
  /\ seen' = [seen EXCEPT ![w] = Loaded]
  /\ UNCHANGED <<clock, db, now, attempt, contacted>>

Raise(w) == /\ faults < MaxFaults /\ faults' = faults + 1
            /\ pc[w] \in {"decide", "act", "commit"}
            /\ RollBack(w)

\* The tick ends where it is: its locks go, what it had not committed is lost.
AbandonTick(w) == /\ EndTransaction(w) /\ Forget(w) /\ EndTick(w)
                  /\ UNCHANGED <<clock, db, contacted>>

\* The process dies.
Crash(w) == /\ faults < MaxFaults /\ faults' = faults + 1
            /\ pc[w] # "idle"
            /\ AbandonTick(w)

---------------------------------------------------------------------------
(* scheduler/dispatch.py: dispatch_buyer.                                  *)

\* lock_buyer: wait for the advisory lock.
LockBuyer(w) ==
  /\ pc[w] = "lock"
  /\ advisory[Current(w)] \in {w, NoWorker}
  /\ advisory' = [advisory EXCEPT ![Current(w)] = w]
  /\ Goto(w, "decide")
  /\ UNCHANGED <<clock, db, rowLock, batch, now, begun, seen, pendNext, pendBlocks, attempt,
                 contacted, faults>>

\* record_block: a BLOCKED row and a later next_action_at, flushed and not committed.
RecordBlock(w) ==
  LET b == Current(w) IN
  /\ Covered(w) /\ Writable(w, b)
  /\ rowLock' = [rowLock EXCEPT ![b] = w]
  /\ pendNext' = [pendNext EXCEPT ![w][b] = now[w] + RetryAfterBlock]
  /\ pendBlocks' = [pendBlocks EXCEPT ![w] = @ \cup {b}]
  /\ Advance(w)
  /\ UNCHANGED <<clock, db, advisory, now, begun, seen, attempt, contacted, faults>>

\* build_context and evaluate.
Refuse(w) == pc[w] = "decide" /\ Refused(w, Current(w)) /\ RecordBlock(w)

Allow(w) == /\ pc[w] = "decide" /\ ~Refused(w, Current(w))
            /\ Goto(w, "act")
            /\ UNCHANGED <<clock, db, locks, batch, now, begun, seen, pendNext, pendBlocks,
                           attempt, contacted, faults>>

\* The account is read again; a contact that is not allowlisted, or a caller id that
\* is not usable, is refused here too.
RefuseLate(w) == pc[w] = "act" /\ RecordBlock(w)

\* The message is rendered and staged; a throttle that is full defers the buyer.
Throttled(w) ==
  LET b == Current(w) IN
  /\ pc[w] = "act" /\ Chaseable(b)
  /\ Covered(w) /\ Writable(w, b)
  /\ rowLock' = [rowLock EXCEPT ![b] = w]
  /\ pendNext' = [pendNext EXCEPT ![w][b] = now[w] + RetryThrottled]
  /\ Advance(w)
  /\ UNCHANGED <<clock, db, advisory, now, begun, seen, pendBlocks, attempt, contacted, faults>>

\* Mutant: the debtor is contacted before the row is committed.
ContactFirst(w) ==
  /\ pc[w] = "act" /\ Chaseable(Current(w))
  /\ Goto(w, "commit")
  /\ contacted' = contacted \cup {[id |-> Cardinality(rows), buyer |-> Current(w), at |-> clock]}
  /\ UNCHANGED <<clock, db, locks, batch, now, begun, seen, pendNext, pendBlocks, attempt, faults>>

Prepare(w) == /\ pc[w] = "act" /\ Chaseable(Current(w))
              /\ Goto(w, "commit")
              /\ UNCHANGED <<clock, db, locks, batch, now, begun, seen, pendNext, pendBlocks,
                             attempt, contacted, faults>>

\* RenderFailed commits the FAILED asset first, which ends both locks, and records
\* the refusal in a transaction of its own.
RenderFailed(w) ==
  /\ pc[w] = "act" /\ Chaseable(Current(w)) /\ Covered(w)
  /\ nextAction' = Flushed(w)
  /\ blocks' = blocks \cup pendBlocks[w]
  /\ EndTransaction(w) /\ Forget(w)
  /\ Goto(w, "unready")
  /\ UNCHANGED <<clock, rows, withdrawn, closed, lastContact, active, left, batch, now, seen,
                 attempt, contacted, faults>>

RecordUnready(w) ==
  LET b == Current(w) IN
  /\ pc[w] = "unready" /\ Writable(w, b)
  /\ nextAction' = [nextAction EXCEPT ![b] = now[w] + RetryAfterBlock]
  /\ blocks' = blocks \cup {b}
  /\ Advance(w)
  /\ UNCHANGED <<clock, rows, withdrawn, closed, lastContact, active, left, locks, now, begun,
                 seen, pendNext, pendBlocks, attempt, contacted, faults>>

NewId == Cardinality(rows)

\* The row is inserted and committed with everything pending, before anyone is
\* contacted.  created_at is the time the transaction began.
CommitAttempt(w) ==
  LET b == Current(w) IN
  /\ pc[w] = "commit" /\ Covered(w) /\ Writable(w, b)
  /\ rows' = rows \cup {[id |-> NewId, buyer |-> b, at |-> begun[w], counts |-> TRUE,
                         again |-> FALSE]}
  /\ attempt' = [attempt EXCEPT ![w] = NewId]
  /\ nextAction' = Flushed(w)
  /\ blocks' = blocks \cup pendBlocks[w]
  /\ EndTransaction(w) /\ Forget(w)
  /\ Goto(w, "contact")
  /\ UNCHANGED <<clock, withdrawn, closed, lastContact, active, left, batch, now, seen,
                 contacted, faults>>

\* preflight refuses the staged file: the row is committed as BLOCKED.
PreflightBlocked(w) ==
  LET b == Current(w) IN
  /\ pc[w] = "commit" /\ Covered(w) /\ Writable(w, b)
  /\ nextAction' = [Flushed(w) EXCEPT ![b] = now[w] + RetryAfterBlock]
  /\ blocks' = blocks \cup pendBlocks[w] \cup {b}
  /\ EndTransaction(w) /\ Forget(w)
  /\ Advance(w)
  /\ UNCHANGED <<clock, rows, withdrawn, closed, lastContact, active, left, now, seen, attempt,
                 contacted, faults>>

\* originate or provider.send: the debtor is reached.
Contact(w) ==
  /\ pc[w] = "contact"
  /\ contacted' = contacted \cup {[id |-> attempt[w], buyer |-> Current(w), at |-> clock]}
  /\ Goto(w, "store")
  /\ UNCHANGED <<clock, db, locks, batch, now, begun, seen, pendNext, pendBlocks, attempt, faults>>

\* No ARI client, no provider, or the hand-over raised: the attempt is spent, and
\* next_action_at is what it was.  An exception makes the session reload.
NotHandedOver(w) ==
  /\ pc[w] = "contact"
  /\ Advance(w)
  /\ UNCHANGED seen \/ seen' = [seen EXCEPT ![w] = Loaded]
  /\ UNCHANGED <<clock, db, locks, now, begun, pendNext, pendBlocks, attempt,
                 contacted, faults>>

StoreNext(w) ==
  LET b == Current(w) IN
  /\ pc[w] = "store" /\ Writable(w, b)
  /\ nextAction' = [nextAction EXCEPT ![b] = now[w] + Gap]
  /\ Advance(w)
  /\ UNCHANGED <<clock, rows, blocks, withdrawn, closed, lastContact, active, left, locks, now,
                 begun, seen, pendNext, pendBlocks, attempt, contacted, faults>>

---------------------------------------------------------------------------
(* PostgreSQL's deadlock detector (external).                              *)

WaitsForRow(w) == \/ pc[w] = "next" /\ batch[w] = <<>>
                  \/ pc[w] = "decide" /\ Refused(w, Current(w))
                  \/ pc[w] \in {"act", "commit", "unready", "store"}

\* The rows a flush or a commit updates: what is pending, and that of the buyer in hand.
Wanted(w) == Unlocked(w) \cup (IF batch[w] = <<>> THEN {} ELSE {Current(w)})

\* A flush locks its rows one at a time, in no order that the workers agree on.
TakeRow(w) ==
  /\ WaitsForRow(w) /\ ~Covered(w)
  /\ \E b \in Wanted(w) : rowLock[b] = NoWorker /\ rowLock' = [rowLock EXCEPT ![b] = w]
  /\ UNCHANGED <<clock, db, advisory, wvars, contacted, faults>>

WaitsForAdvisory(w) == pc[w] = "lock"

WaitsFor(w, v) == \/ WaitsForRow(w) /\ \E b \in Wanted(w) : rowLock[b] = v
                  \/ WaitsForAdvisory(w) /\ advisory[Current(w)] = v

\* Mutant: no cycle is ever noticed.
NoVictim(w) == FALSE

\* w is on a cycle of workers, each waiting for the next.
Deadlocked(w) == \E S \in SUBSET Workers :
                   /\ w \in S
                   /\ \A v \in S : /\ \E u \in S \ {v} : WaitsFor(v, u)
                                   /\ \E u \in S \ {v} : WaitsFor(u, v)

\* The waiting statement raises: in dispatch_buyer that costs the buyer its turn, in the
\* commit of run_once the whole tick.
DeadlockVictim(w) == /\ Deadlocked(w) /\ UNCHANGED faults
                     /\ \/ batch[w] # <<>> /\ RollBack(w)
                        \/ batch[w] = <<>> /\ AbandonTick(w)

---------------------------------------------------------------------------
(* The rest of the system, between any two steps of the workers.           *)

\* counts_against_cap, assigned from the class of the last outcome.
Assigned(r, back) == [r EXCEPT !.counts = ~back, !.again = @ \/ (~back /\ ~r.counts)]

\* apply_outcome for an attempt that reached the debtor: next_action_at is set to a
\* retry delay, or to None if there is no number left to dial, and last_contact_at if the
\* account has an EscalationState. Whether the attempt counts is assigned anew: a carrier
\* fault gives it back, and a call that rings once more and is answered counts again.
ApplyOutcome(r) ==
  LET b == r.buyer IN
  /\ rowLock[b] = NoWorker
  /\ \E c \in contacted : c.id = r.id
  /\ \E d \in RetryDelays :
       nextAction' = [nextAction EXCEPT ![b] = IF d = NoTime THEN NoTime ELSE clock + d]
  /\ lastContact' = IF b \in Tracked THEN [lastContact EXCEPT ![b] = clock] ELSE lastContact
  /\ \E back \in BOOLEAN :
       /\ back /\ r.counts => Cardinality({ q \in rows : ~q.counts \/ q.again }) < MaxReturned
       /\ rows' = (rows \ {r}) \cup {Assigned(r, back)}
  /\ UNCHANGED <<clock, blocks, withdrawn, closed, active, left, locks, wvars, contacted, faults>>

\* Consent withdrawn, an account settled or disputed, the campaign paused.
Changes == Cardinality(Withdrawn) + Cardinality({ b \in Buyers : ~Chaseable(b) })
             + (IF active THEN 0 ELSE 1)

\* The consent is a column of the buyer's row and waits for its lock.
Withdraw(b) == /\ withdrawn[b] = NoTime /\ rowLock[b] = NoWorker
               /\ withdrawn' = [withdrawn EXCEPT ![b] = clock]
               /\ UNCHANGED <<clock, rows, blocks, nextAction, closed, lastContact, active,
                              left, locks, wvars, contacted, faults>>

Settle(b) == /\ closed[b] = NoTime /\ closed' = [closed EXCEPT ![b] = clock]
             /\ UNCHANGED <<clock, rows, blocks, nextAction, withdrawn, lastContact, active,
                            left, locks, wvars, contacted, faults>>

Pause == /\ active /\ active' = FALSE
         /\ UNCHANGED <<clock, rows, blocks, nextAction, withdrawn, closed, lastContact, left,
                        locks, wvars, contacted, faults>>

\* complete_if_done: a target whose accounts are closed, or that is off the schedule, is
\* active no longer. It waits for no lock on the buyer.
Complete(b) == /\ b \notin left /\ (~Chaseable(b) \/ nextAction[b] = NoTime)
               /\ left' = left \cup {b}
               /\ UNCHANGED <<clock, rows, blocks, nextAction, withdrawn, closed, lastContact,
                              active, locks, wvars, contacted, faults>>

Tick == /\ clock < MaxTime /\ clock' = clock + 1
        /\ UNCHANGED <<db, locks, wvars, contacted, faults>>

---------------------------------------------------------------------------
Step(w) == \/ Claim(w) \/ FindCampaign(w) \/ LetGo(w) \/ FinishTick(w)
           \/ LockBuyer(w) \/ TakeRow(w)
           \/ Refuse(w) \/ Allow(w) \/ RefuseLate(w) \/ Throttled(w) \/ Prepare(w)
           \/ RenderFailed(w) \/ RecordUnready(w)
           \/ CommitAttempt(w) \/ PreflightBlocked(w)
           \/ Contact(w) \/ NotHandedOver(w) \/ StoreNext(w)

Fault(w) == Raise(w) \/ Crash(w) \/ DeadlockVictim(w)

World == \/ \E r \in rows : ApplyOutcome(r)
         \/ Changes < MaxChanges /\ ((\E b \in Buyers : Withdraw(b) \/ Settle(b)) \/ Pause)
         \/ (\E b \in Buyers : Complete(b))
         \/ Tick

Next == (\E w \in Workers : Step(w) \/ Fault(w)) \/ World

Spec == Init /\ [][Next]_vars

\* run_forever goes on, and PostgreSQL's lock queues are first come, first served: a
\* worker that could proceed again and again does.  Nothing is assumed of the world.
FairSpec == Spec /\ \A w \in Workers : SF_vars(Step(w)) /\ WF_vars(DeadlockVictim(w))

---------------------------------------------------------------------------
\* again: history, that the attempt was given back and counts once more.
Attempt == [id : Nat, buyer : Buyers, at : Nat, counts : BOOLEAN, again : BOOLEAN]

TypeOK ==
  /\ clock \in Nat /\ faults \in 0 .. MaxFaults
  /\ rows \subseteq Attempt /\ blocks \subseteq Buyers
  /\ nextAction \in [Buyers -> Times] /\ lastContact \in [Buyers -> Times]
  /\ withdrawn \in [Buyers -> Times] /\ closed \in [Buyers -> Times]
  /\ active \in BOOLEAN /\ left \subseteq Buyers
  /\ rowLock \in [Buyers -> Workers \cup {NoWorker}]
  /\ advisory \in [Buyers -> Workers \cup {NoWorker}]
  /\ pc \in [Workers -> {"idle", "next", "lock", "decide", "act", "unready", "commit",
                         "contact", "store"}]
  /\ batch \in [Workers -> Seq(Buyers)]
  /\ now \in [Workers -> Nat] /\ begun \in [Workers -> Times]
  /\ seen \in [Workers -> [active : BOOLEAN, withdrawn : SUBSET Buyers]]
  /\ pendNext \in [Workers -> [Buyers -> Times \cup {Cleared}]]
  /\ pendBlocks \in [Workers -> SUBSET Buyers]
  /\ attempt \in [Workers -> Nat]
  /\ contacted \subseteq [id : Nat, buyer : Buyers, at : Nat]

\* However many workers tick, no window of a limit's span ever holds more counted
\* attempts on one debtor than the limit's cap (max_attempts_per_day and _per_week), but
\* for those that were given back and count once more: apply_outcome assigns
\* counts_against_cap both ways, so a call that rings again and is answered comes back
\* into a window whose slot another attempt may have taken by then.
CapRespected ==
  \A b \in Buyers, l \in Limits : \A t \in {r.at : r \in rows} :
    Cardinality({ r \in rows : /\ r.buyer = b /\ r.counts /\ ~r.again
                               /\ t <= r.at /\ r.at <= t + l.span }) <= l.cap

\* Seen from the debtors, nothing happens but what ContactBudget allows: an attempt is
\* booked within the caps before its one contact, and stays on record, through all the
\* commits, rollbacks and crashes of the workers.
Budget == INSTANCE ContactBudget WITH attempts <- rows

KeepsTheBudget == Budget!Spec

\* A debtor whose account was settled or disputed before the attempt's transaction
\* began is not contacted by it, however long ago the buyer was claimed.
ClosedNotContacted ==
  \A c \in contacted, r \in rows :
    c.id = r.id => closed[r.buyer] = NoTime \/ closed[r.buyer] >= r.at

\* Every tick comes to its end: no cycle of row locks and advisory locks stops a worker,
\* those that a flush takes for debtors the tick had let go included.
EveryTickEnds == \A w \in Workers : (pc[w] # "idle") ~> (pc[w] = "idle")

---------------------------------------------------------------------------
(* What the comments claim and the code does not do.                       *)

\* "Assemble everything the engine needs, read *now*": consent withdrawn before the
\* attempt's transaction began stops the attempt.
ConsentReadNow ==
  \A c \in contacted, r \in rows :
    c.id = r.id => withdrawn[r.buyer] = NoTime \/ withdrawn[r.buyer] >= r.at

\* "Cooldown is a property of the person": two contacts of one debtor are at least Gap
\* apart.
CooldownHeld ==
  \A c, d \in contacted : c.buyer = d.buyer /\ c # d => c.at - d.at >= Gap \/ d.at - c.at >= Gap
=============================================================================
