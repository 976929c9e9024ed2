-------------------------- MODULE Dispatch_proofs --------------------------
(***************************************************************************)
(* Dispatch keeps its promises for any number of workers, debtors and      *)
(* limits, whatever fails. TypesInv is the type invariant with what it     *)
(* needs to be inductive.                                                  *)
(*                                                                         *)
(* The caps: CapInv adds why a worker may rely on what it counted until it *)
(* commits, which is that it holds the debtor's advisory lock, and that    *)
(* what comes back into a window meanwhile is an attempt that counts       *)
(* again. The records: RecordInv adds why whoever is contacted has a row   *)
(* of their own, committed before, and an account that was open when the   *)
(* transaction began. Together they make it an implementation of           *)
(* ContactBudget.                                                          *)
(***************************************************************************)
EXTENDS Dispatch, FiniteSetTheorems, TLAPS

\* A worker that is handling a debtor has one.
BatchHeld == \A w \in Workers : pc[w] \notin {"idle", "next"} => batch[w] # <<>>

\* The tick's own time is never later than the transaction it works in.
ClockOrder ==
  \A w \in Workers : /\ now[w] <= clock
                     /\ begun[w] # NoTime => now[w] <= begun[w]
                     /\ pc[w] \in {"lock", "decide", "act", "commit"} => begun[w] # NoTime

TypesInv == TypeOK /\ IsFiniteSet(rows) /\ BatchHeld /\ ClockOrder

---------------------------------------------------------------------------
(* What ends a transaction and what ends a tick, typed.                    *)

LEMMA ReleaseType ==
  ASSUME NEW f \in [Buyers -> Workers \cup {NoWorker}], NEW w
  PROVE  Release(f, w) \in [Buyers -> Workers \cup {NoWorker}]
BY DEF Release

LEMMA FlushedType ==
  ASSUME TypeOK, NEW w \in Workers
  PROVE  Flushed(w) \in [Buyers -> Times]
BY DEF TypeOK, Flushed, Times, NoTime, Cleared

LEMMA CurrentType ==
  ASSUME TypesInv, NEW w \in Workers, batch[w] # <<>>
  PROVE  Current(w) \in Buyers /\ Tail(batch[w]) \in Seq(Buyers)
<1>1. batch[w] \in Seq(Buyers)
  BY DEF TypesInv, TypeOK
<1> QED BY <1>1 DEF Current

LEMMA NewIdType ==
  ASSUME TypesInv
  PROVE  NewId \in Nat
BY FS_CardinalityType DEF TypesInv, NewId

---------------------------------------------------------------------------
LEMMA InitTypes == Init => TypesInv
<1> SUFFICES ASSUME Init PROVE TypesInv
  OBVIOUS
<1>1. TypeOK
  BY TimesAssumption DEF Init, TypeOK, Times, NoTime, Unseen
<1>2. IsFiniteSet(rows)
  BY FS_EmptySet DEF Init
<1>3. BatchHeld /\ ClockOrder
  BY DEF Init, BatchHeld, ClockOrder, NoTime
<1> QED BY <1>1, <1>2, <1>3 DEF TypesInv

LEMMA StepTypes ==
  ASSUME TypesInv, NEW w \in Workers, Step(w)
  PROVE  TypesInv'
<1> USE TimesAssumption
<1>t. TypeOK /\ IsFiniteSet(rows) /\ BatchHeld /\ ClockOrder
  BY DEF TypesInv
<1>f. Flushed(w) \in [Buyers -> Times]
  BY <1>t, FlushedType
<1>r. /\ Release(rowLock, w) \in [Buyers -> Workers \cup {NoWorker}]
      /\ Release(advisory, w) \in [Buyers -> Workers \cup {NoWorker}]
  BY <1>t, ReleaseType DEF TypeOK
<1>c. pc[w] \notin {"idle", "next"} =>
        Current(w) \in Buyers /\ Tail(batch[w]) \in Seq(Buyers)
  BY <1>t, CurrentType DEF BatchHeld
<1>1. CASE Claim(w)
  <2>1. PICK s \in Claims : batch' = [batch EXCEPT ![w] = s]
    BY <1>1 DEF Claim
  <2>2. s \in Seq(Buyers)
    BY <2>1 DEF Claims
  <2> QED BY <1>t, <1>1, <2>1, <2>2
          DEF Claim, TypesInv, TypeOK, BatchHeld, ClockOrder, Times, NoTime, Goto, Loaded,
              Withdrawn, db
<1>2. CASE FinishTick(w)
  BY <1>t, <1>f, <1>r, <1>2
  DEF FinishTick, EndTransaction, EndTick, Forget, Goto, TypesInv, TypeOK, BatchHeld,
      ClockOrder, Times, NoTime, Unseen
<1>3. CASE LockBuyer(w)
  <2>1. TypeOK'
    BY <1>t, <1>c, <1>3 DEF LockBuyer, Goto, TypeOK, Times, NoTime, db
  <2>2. BatchHeld' /\ ClockOrder' /\ rows' = rows
    BY <1>t, <1>3 DEF LockBuyer, Goto, TypeOK, BatchHeld, ClockOrder, db
  <2> QED BY <1>t, <2>1, <2>2 DEF TypesInv
<1>14. CASE FindCampaign(w)
  <2>1. TypeOK'
    BY <1>t, <1>14 DEF FindCampaign, Begin, Goto, TypeOK, Times, NoTime, db, locks
  <2>2. BatchHeld' /\ rows' = rows
    BY <1>t, <1>14 DEF FindCampaign, Goto, TypeOK, BatchHeld, db
  <2>3. ClockOrder'
    BY <1>t, <1>14 DEF FindCampaign, Begin, Goto, TypeOK, ClockOrder, Times, NoTime
  <2> QED BY <1>t, <2>1, <2>2, <2>3 DEF TypesInv
<1>15. CASE LetGo(w)
  <2>1. Current(w) \in Buyers /\ Tail(batch[w]) \in Seq(Buyers)
    BY <1>15, CurrentType DEF LetGo
  <2>2. [pendNext EXCEPT ![w][Current(w)] = Cleared]
          \in [Workers -> [Buyers -> Times \cup {Cleared}]]
    BY <1>t, <2>1 DEF TypeOK
  <2>3. TypeOK'
    BY <1>t, <1>15, <2>1, <2>2 DEF LetGo, Begin, Advance, Goto, TypeOK, Times, NoTime, db, locks
  <2>4. BatchHeld' /\ rows' = rows
    BY <1>t, <1>15 DEF LetGo, Advance, Goto, TypeOK, BatchHeld, db
  <2>5. ClockOrder'
    BY <1>t, <1>15 DEF LetGo, Begin, Advance, Goto, TypeOK, ClockOrder, Times, NoTime
  <2> QED BY <1>t, <2>3, <2>4, <2>5 DEF TypesInv
<1>16. CASE TakeRow(w)
  <2>1. \E b \in Buyers : rowLock' = [rowLock EXCEPT ![b] = w]
    <3>1. WaitsForRow(w) => batch[w] = <<>> \/ pc[w] \notin {"idle", "next"}
      BY DEF WaitsForRow
    <3>2. Wanted(w) \subseteq Buyers
      BY <1>c, <1>16, <3>1 DEF TakeRow, Wanted, Unlocked
    <3> QED BY <1>16, <3>2 DEF TakeRow
  <2>2. UNCHANGED <<clock, db, advisory, wvars, contacted, faults>>
    BY <1>16 DEF TakeRow
  <2> QED BY <1>t, <2>1, <2>2 DEF TypesInv, TypeOK, BatchHeld, ClockOrder, db, wvars
<1>4. CASE Refuse(w) \/ RefuseLate(w)
  <2>1. Current(w) \in Buyers /\ RecordBlock(w)
    BY <1>c, <1>4 DEF Refuse, RefuseLate
  <2>2. now[w] + RetryAfterBlock \in Times /\ pendBlocks[w] \cup {Current(w)} \subseteq Buyers
    BY <1>t, <2>1 DEF TypeOK, Times
  <2>3. [pendNext EXCEPT ![w][Current(w)] = now[w] + RetryAfterBlock]
          \in [Workers -> [Buyers -> Times \cup {Cleared}]]
    BY <1>t, <2>1, <2>2 DEF TypeOK
  <2>4. TypeOK'
    BY <1>t, <1>c, <1>4, <2>1, <2>2, <2>3
    DEF Refuse, RefuseLate, RecordBlock, Advance, Goto, TypeOK, db
  <2>5. BatchHeld' /\ ClockOrder' /\ rows' = rows
    BY <1>t, <2>1
    DEF RecordBlock, Advance, Goto, TypeOK, BatchHeld, ClockOrder, Times, NoTime, db
  <2> QED BY <1>t, <2>4, <2>5 DEF TypesInv
<1>5. CASE Allow(w) \/ Prepare(w)
  BY <1>t, <1>5
  DEF Allow, Prepare, Goto, TypesInv, TypeOK, BatchHeld, ClockOrder, Times, NoTime, db, locks
<1>6. CASE Throttled(w)
  BY <1>t, <1>6, <1>c
  DEF Throttled, Advance, Goto, TypesInv, TypeOK, BatchHeld, ClockOrder, Times, NoTime, db
<1>7. CASE RenderFailed(w)
  BY <1>t, <1>f, <1>r, <1>7
  DEF RenderFailed, EndTransaction, Forget, Goto, TypesInv, TypeOK, BatchHeld,
      ClockOrder, Times, NoTime
<1>8. CASE RecordUnready(w)
  BY <1>t, <1>c, <1>8
  DEF RecordUnready, Advance, Goto, TypesInv, TypeOK, BatchHeld, ClockOrder, Times, NoTime, locks
<1>9. CASE CommitAttempt(w)
  <2>1. /\ NewId \in Nat /\ Current(w) \in Buyers /\ begun[w] \in Nat
    BY <1>t, <1>c, <1>9, NewIdType
    DEF CommitAttempt, TypesInv, TypeOK, ClockOrder, Times, NoTime
  <2>2. [id |-> NewId, buyer |-> Current(w), at |-> begun[w], counts |-> TRUE, again |-> FALSE]
          \in Attempt
    BY <2>1 DEF Attempt
  <2>3. IsFiniteSet(rows')
    BY <1>t, <1>9, FS_AddElement DEF CommitAttempt
  <2>4. TypeOK'
    BY <1>t, <1>f, <1>r, <1>9, <2>1, <2>2
    DEF CommitAttempt, EndTransaction, Forget, Goto, TypeOK, Times, NoTime
  <2>5. BatchHeld' /\ ClockOrder'
    BY <1>t, <1>9
    DEF CommitAttempt, EndTransaction, Goto, TypeOK, BatchHeld, ClockOrder, Times, NoTime
  <2> QED BY <2>3, <2>4, <2>5 DEF TypesInv
<1>10. CASE PreflightBlocked(w)
  <2>1. Current(w) \in Buyers /\ Tail(batch[w]) \in Seq(Buyers)
    BY <1>c, <1>10 DEF PreflightBlocked
  <2>2. [Flushed(w) EXCEPT ![Current(w)] = now[w] + RetryAfterBlock] \in [Buyers -> Times]
    BY <1>t, <1>f, <2>1 DEF TypeOK, Times
  <2>3. TypeOK'
    BY <1>t, <1>r, <1>10, <2>1, <2>2
    DEF PreflightBlocked, EndTransaction, Forget, Advance, Goto, TypeOK, Times, NoTime
  <2>4. BatchHeld' /\ ClockOrder' /\ rows' = rows
    BY <1>t, <1>10
    DEF PreflightBlocked, EndTransaction, Advance, Goto, TypeOK, BatchHeld, ClockOrder,
        Times, NoTime
  <2> QED BY <1>t, <2>3, <2>4 DEF TypesInv
<1>11. CASE Contact(w)
  BY <1>t, <1>c, <1>11
  DEF Contact, Goto, TypesInv, TypeOK, BatchHeld, ClockOrder, Times, NoTime, db, locks
<1>12. CASE NotHandedOver(w)
  <2>1. seen' \in [Workers -> [active : BOOLEAN, withdrawn : SUBSET Buyers]]
    <3>1. Loaded \in [active : BOOLEAN, withdrawn : SUBSET Buyers]
      BY <1>t DEF Loaded, Withdrawn, TypeOK
    <3> QED BY <1>t, <1>12, <3>1 DEF NotHandedOver, TypeOK
  <2>2. batch' \in [Workers -> Seq(Buyers)] /\ pc' = [pc EXCEPT ![w] = "next"]
    BY <1>t, <1>c, <1>12 DEF NotHandedOver, Advance, Goto, TypeOK
  <2>3. TypeOK'
    BY <1>t, <1>12, <2>1, <2>2 DEF NotHandedOver, Advance, Goto, TypeOK, db, locks
  <2>4. BatchHeld' /\ ClockOrder' /\ rows' = rows
    BY <1>t, <1>12
    DEF NotHandedOver, Advance, Goto, TypeOK, BatchHeld, ClockOrder, db
  <2> QED BY <1>t, <2>3, <2>4 DEF TypesInv
<1>13. CASE StoreNext(w)
  BY <1>t, <1>c, <1>13
  DEF StoreNext, Advance, Goto, TypesInv, TypeOK, BatchHeld, ClockOrder, Times, NoTime, locks
<1> QED BY <1>1, <1>2, <1>3, <1>4, <1>5, <1>6, <1>7, <1>8, <1>9, <1>10, <1>11, <1>12, <1>13,
            <1>14, <1>15, <1>16
        DEF Step

LEMMA FaultTypes ==
  ASSUME TypesInv, NEW w \in Workers, Fault(w)
  PROVE  TypesInv'
<1>t. TypeOK /\ IsFiniteSet(rows) /\ BatchHeld /\ ClockOrder
  BY DEF TypesInv
<1>n. faults < MaxFaults => faults + 1 \in 0 .. MaxFaults
  BY <1>t, TimesAssumption DEF TypeOK
<1>r. /\ Release(rowLock, w) \in [Buyers -> Workers \cup {NoWorker}]
      /\ Release(advisory, w) \in [Buyers -> Workers \cup {NoWorker}]
  BY <1>t, ReleaseType DEF TypeOK
<1>1. CASE AbandonTick(w) /\ faults' \in 0 .. MaxFaults
  <2>1. TypeOK'
    BY <1>t, <1>r, <1>1
    DEF AbandonTick, EndTransaction, EndTick, Forget, Goto, TypeOK, Times, NoTime, Unseen, db
  <2>2. BatchHeld' /\ ClockOrder' /\ rows' = rows
    BY <1>t, <1>1
    DEF AbandonTick, EndTransaction, EndTick, Goto, TypeOK, BatchHeld, ClockOrder, Times,
        NoTime, db
  <2> QED BY <1>t, <2>1, <2>2 DEF TypesInv
<1>2. CASE RollBack(w) /\ batch[w] # <<>> /\ faults' \in 0 .. MaxFaults
  <2>1. Tail(batch[w]) \in Seq(Buyers)
    BY <1>2, CurrentType
  <2>2. TypeOK'
    BY <1>t, <1>r, <1>2, <2>1
    DEF RollBack, EndTransaction, Forget, Advance, Goto, TypeOK, Times, NoTime, Loaded,
        Withdrawn, db
  <2>3. BatchHeld' /\ ClockOrder' /\ rows' = rows
    BY <1>t, <1>2
    DEF RollBack, EndTransaction, Advance, Goto, TypeOK, BatchHeld, ClockOrder, Times,
        NoTime, db
  <2> QED BY <1>t, <2>2, <2>3 DEF TypesInv
<1>3. Raise(w) => RollBack(w) /\ batch[w] # <<>> /\ faults' \in 0 .. MaxFaults
  <2>1. Raise(w) => pc[w] \notin {"idle", "next"} /\ RollBack(w)
    BY DEF Raise
  <2>2. Raise(w) => faults' \in 0 .. MaxFaults
    BY <1>n DEF Raise
  <2> QED BY <1>t, <2>1, <2>2 DEF BatchHeld
<1>4. DeadlockVictim(w) => /\ (RollBack(w) /\ batch[w] # <<>>) \/ AbandonTick(w)
                           /\ faults' \in 0 .. MaxFaults
  BY <1>t DEF DeadlockVictim, TypeOK
<1>5. Crash(w) => AbandonTick(w) /\ faults' \in 0 .. MaxFaults
  BY <1>n DEF Crash
<1> QED BY <1>1, <1>2, <1>3, <1>4, <1>5 DEF Fault

LEMMA WorldTypes ==
  ASSUME TypesInv, World
  PROVE  TypesInv'
<1> USE TimesAssumption
<1>t. TypeOK /\ IsFiniteSet(rows) /\ BatchHeld /\ ClockOrder
  BY DEF TypesInv
<1>1. ASSUME NEW r \in rows, ApplyOutcome(r)
      PROVE  TypesInv'
  <2>1. r.buyer \in Buyers /\ r \in Attempt
    BY <1>t DEF TypeOK, Attempt
  <2>2. PICK back \in BOOLEAN :
          rows' = (rows \ {r}) \cup {Assigned(r, back)}
    BY <1>1 DEF ApplyOutcome
  <2>3. Assigned(r, back) \in Attempt
    BY <2>1 DEF Attempt, Assigned
  <2>4. IsFiniteSet(rows')
    BY <1>t, <2>2, FS_AddElement, FS_RemoveElement
  <2>5. PICK d \in RetryDelays :
          nextAction' = [nextAction EXCEPT ![r.buyer] = IF d = NoTime THEN NoTime ELSE clock + d]
    BY <1>1 DEF ApplyOutcome
  <2>6. /\ nextAction' \in [Buyers -> Times] /\ lastContact' \in [Buyers -> Times]
        /\ rows' \subseteq Attempt
    <3>1. clock \in Times /\ (IF d = NoTime THEN NoTime ELSE clock + d) \in Times
      BY <1>t DEF TypeOK, Times, NoTime
    <3>2. nextAction' \in [Buyers -> Times]
      BY <1>t, <2>5, <3>1 DEF TypeOK
    <3>3. lastContact' \in [Buyers -> Times]
      BY <1>t, <1>1, <3>1 DEF ApplyOutcome, TypeOK
    <3>4. rows' \subseteq Attempt
      BY <1>t, <2>2, <2>3 DEF TypeOK
    <3> QED BY <3>2, <3>3, <3>4
  <2>8. TypeOK'
    BY <1>t, <1>1, <2>6 DEF ApplyOutcome, TypeOK, locks, wvars
  <2>7. BatchHeld' /\ ClockOrder'
    BY <1>t, <1>1 DEF ApplyOutcome, BatchHeld, ClockOrder, wvars
  <2> QED BY <2>4, <2>7, <2>8 DEF TypesInv
<1>2. ASSUME NEW b \in Buyers, Withdraw(b) \/ Settle(b)
      PROVE  TypesInv'
  <2>1. withdrawn' \in [Buyers -> Times] /\ closed' \in [Buyers -> Times]
    BY <1>t, <1>2 DEF Withdraw, Settle, TypeOK, Times
  <2>2. /\ UNCHANGED <<clock, rows, blocks, nextAction, lastContact, active, left, contacted>>
        /\ UNCHANGED <<locks, wvars, faults>>
    BY <1>2 DEF Withdraw, Settle
  <2>3. TypeOK'
    BY <1>t, <2>1, <2>2 DEF TypeOK, locks, wvars
  <2> QED BY <1>t, <2>2, <2>3 DEF TypesInv, BatchHeld, ClockOrder, wvars
<1>3. CASE Pause
  BY <1>t, <1>3 DEF Pause, TypesInv, TypeOK, BatchHeld, ClockOrder, locks, wvars
<1>4. CASE Tick
  BY <1>t, <1>4 DEF Tick, TypesInv, TypeOK, BatchHeld, ClockOrder, db, locks, wvars
<1>5. ASSUME NEW b \in Buyers, Complete(b)
      PROVE  TypesInv'
  BY <1>t, <1>5 DEF Complete, TypesInv, TypeOK, BatchHeld, ClockOrder, locks, wvars
<1> QED BY <1>1, <1>2, <1>3, <1>4, <1>5 DEF World

LEMMA StutterTypes ==
  ASSUME TypesInv, UNCHANGED vars
  PROVE  TypesInv'
BY DEF TypesInv, TypeOK, BatchHeld, ClockOrder, vars, db, locks, wvars

LEMMA TypesStable == Spec => []TypesInv
<1>1. TypesInv /\ [Next]_vars => TypesInv'
  BY StepTypes, FaultTypes, WorldTypes, StutterTypes DEF Next
<1> QED BY InitTypes, <1>1, PTL DEF Spec

\* The database, the locks and the workers keep their types (and the sets of rows stay
\* finite), for any number of workers and debtors.
THEOREM TypeCorrect == Spec => []TypeOK
<1>1. TypesInv => TypeOK
  BY DEF TypesInv
<1> QED BY TypesStable, <1>1, PTL
---------------------------------------------------------------------------
(* The caps.                                                               *)

\* The attempts that count and always have.
Kept == { r \in rows : r.counts /\ ~r.again }

\* Those on b that l counts together when they begin at t, ...
Window(b, l, t) == { r \in rows : /\ r.buyer = b /\ r.counts /\ ~r.again
                                 /\ t <= r.at /\ r.at <= t + l.span }

\* ... and those since t.
KeptSince(b, t) == { r \in Kept : r.buyer = b /\ r.at >= t }

\* A worker holds the debtor's advisory lock from before it counts until it commits, ...
Exclusive ==
  \A w \in Workers : pc[w] \in {"decide", "act", "commit"} => advisory[Current(w)] = w

\* ... and so what it counted is still below every cap when it commits.
HeadRoom == \A w \in Workers : pc[w] \in {"act", "commit"} =>
              \A l \in Limits : Cardinality(KeptSince(Current(w), now[w] - l.span)) < l.cap

\* CapRespected, of every window and not only of those that begin with an attempt.
Capped == \A b \in Buyers, l \in Limits, t \in Int : Cardinality(Window(b, l, t)) <= l.cap

CapInv == Exclusive /\ HeadRoom /\ Capped

LEMMA SmallerSet ==
  ASSUME NEW S, NEW T, IsFiniteSet(T), S \subseteq T
  PROVE  /\ IsFiniteSet(S) /\ Cardinality(S) \in Nat /\ Cardinality(T) \in Nat
         /\ Cardinality(S) <= Cardinality(T)
BY FS_Subset, FS_CardinalityType

LEMMA OneMore ==
  ASSUME NEW S, NEW x, IsFiniteSet(S)
  PROVE  /\ IsFiniteSet(S \cup {x}) /\ Cardinality(S \cup {x}) \in Nat
         /\ Cardinality(S \cup {x}) <= Cardinality(S) + 1
<1>1. Cardinality(S) \in Nat
  BY FS_CardinalityType
<1>2. /\ IsFiniteSet(S \cup {x})
      /\ Cardinality(S \cup {x}) = IF x \in S THEN Cardinality(S) ELSE Cardinality(S) + 1
  BY FS_AddElement
<1> QED BY <1>1, <1>2

\* When no row is added that is kept, what has been counted does not grow.
LEMMA FewerRows ==
  ASSUME TypesInv, Capped, NEW b \in Buyers,
         Kept' \subseteq Kept
  PROVE  /\ \A t \in Int : Cardinality(KeptSince(b, t)') \in Nat
                            /\ Cardinality(KeptSince(b, t)') <= Cardinality(KeptSince(b, t))
         /\ \A l \in Limits, t \in Int : Cardinality(Window(b, l, t)') <= l.cap
<1>0. IsFiniteSet(rows)
  BY DEF TypesInv
<1>1. ASSUME NEW t \in Int
      PROVE  /\ Cardinality(KeptSince(b, t)') \in Nat
             /\ Cardinality(KeptSince(b, t)') <= Cardinality(KeptSince(b, t))
  <2>1. KeptSince(b, t)' \subseteq KeptSince(b, t) /\ KeptSince(b, t) \subseteq rows
    BY DEF KeptSince, Kept
  <2> QED BY <1>0, <2>1, SmallerSet
<1>2. ASSUME NEW l \in Limits, NEW t \in Int
      PROVE  Cardinality(Window(b, l, t)') <= l.cap
  <2>1. Window(b, l, t)' \subseteq Window(b, l, t) /\ Window(b, l, t) \subseteq rows
    BY DEF Window, Kept
  <2>2. /\ Cardinality(Window(b, l, t)') \in Nat /\ Cardinality(Window(b, l, t)) \in Nat
        /\ Cardinality(Window(b, l, t)') <= Cardinality(Window(b, l, t))
    BY <1>0, <2>1, SmallerSet
  <2>3. Cardinality(Window(b, l, t)) <= l.cap /\ l.cap \in Nat
    BY LimitsAssumption DEF Capped
  <2> QED BY <2>2, <2>3
<1> QED BY <1>1, <1>2

\* A step that adds no row that is kept, and lets nobody through, keeps the caps, as long
\* as the locks of those who were let through are kept.
LEMMA QuietStep ==
  ASSUME TypesInv, CapInv,
         Kept' \subseteq Kept,
         \A w \in Workers : pc'[w] \in {"decide", "act", "commit"} =>
           /\ pc[w] \in {"decide", "act", "commit"} /\ (pc[w] = "decide" => pc'[w] = "decide")
           /\ batch'[w] = batch[w] /\ now'[w] = now[w]
           /\ \A b \in Buyers : advisory[b] = w => advisory'[b] = w
  PROVE  CapInv'
<1>1. Exclusive'
  <2> SUFFICES ASSUME NEW w \in Workers, pc'[w] \in {"decide", "act", "commit"}
      PROVE  advisory'[Current(w)'] = w
    BY DEF Exclusive
  <2>1. Current(w)' = Current(w) /\ Current(w) \in Buyers /\ advisory[Current(w)] = w
    BY CurrentType DEF Current, CapInv, Exclusive, TypesInv, BatchHeld
  <2> QED BY <2>1
<1>2. HeadRoom'
  <2> SUFFICES ASSUME NEW w \in Workers, pc'[w] \in {"act", "commit"}, NEW l \in Limits
      PROVE  Cardinality(KeptSince(Current(w), now[w] - l.span)') < l.cap
    BY DEF HeadRoom
  <2>1. Current(w)' = Current(w) /\ Current(w) \in Buyers /\ now'[w] = now[w]
    BY CurrentType DEF Current, TypesInv, BatchHeld
  <2>2. l.cap \in Nat /\ now[w] - l.span \in Int
    BY LimitsAssumption DEF TypesInv, TypeOK
  <2>3. Cardinality(KeptSince(Current(w), now[w] - l.span)) < l.cap
    BY DEF CapInv, HeadRoom
  <2>4. PICK b \in Buyers, t \in Int : b = Current(w) /\ t = now[w] - l.span
    BY <2>1, <2>2
  <2>5. b = Current(w)' /\ t = now'[w] - l.span
    BY <2>1, <2>4
  <2>6. /\ Cardinality(KeptSince(b, t)') \in Nat
        /\ Cardinality(KeptSince(b, t)') <= Cardinality(KeptSince(b, t))
        /\ Cardinality(KeptSince(b, t)) \in Nat
    <3>1. KeptSince(b, t) \subseteq rows
      BY DEF KeptSince, Kept
    <3>2. Cardinality(KeptSince(b, t)) \in Nat
      BY <3>1, SmallerSet DEF TypesInv
    <3> QED BY <3>2, FewerRows DEF CapInv
  <2>7. Cardinality(KeptSince(b, t)') < l.cap
    BY <2>2, <2>3, <2>4, <2>6
  <2> QED BY <2>5, <2>7 DEF KeptSince, Kept
<1>3. Capped'
  BY FewerRows DEF CapInv, Capped
<1> QED BY <1>1, <1>2, <1>3 DEF CapInv

LEMMA LockStep ==
  ASSUME TypesInv, CapInv, NEW w \in Workers, LockBuyer(w)
  PROVE  CapInv'
<1>1. Current(w) \in Buyers
  BY CurrentType DEF LockBuyer, TypesInv, BatchHeld
<1>2. /\ rows' = rows /\ batch' = batch /\ now' = now
      /\ pc' = [pc EXCEPT ![w] = "decide"] /\ advisory' = [advisory EXCEPT ![Current(w)] = w]
      /\ advisory[Current(w)] \in {w, NoWorker}
  BY DEF LockBuyer, Goto, db
<1>3. Exclusive'
  <2> SUFFICES ASSUME NEW v \in Workers, pc'[v] \in {"decide", "act", "commit"}
      PROVE  advisory'[Current(v)'] = v
    BY DEF Exclusive
  <2>1. Current(v)' = Current(v)
    BY <1>2 DEF Current
  <2>2. CASE v = w
    BY <1>1, <1>2, <2>1, <2>2 DEF TypesInv, TypeOK
  <2>3. CASE v # w
    <3>1. pc[v] \in {"decide", "act", "commit"}
      BY <1>2, <2>3 DEF TypesInv, TypeOK
    <3>2. advisory[Current(v)] = v /\ Current(v) \in Buyers
      BY <3>1, CurrentType DEF CapInv, Exclusive, TypesInv, BatchHeld
    <3>3. Current(v) # Current(w)
      BY <1>2, <2>3, <3>2, WorkersAssumption
    <3> QED BY <1>2, <2>1, <3>2, <3>3 DEF TypesInv, TypeOK
  <2> QED BY <2>2, <2>3
<1>4. HeadRoom'
  BY <1>2 DEF CapInv, HeadRoom, Current, KeptSince, Kept, TypesInv, TypeOK
<1>5. Capped'
  BY <1>2 DEF CapInv, Capped, Window
<1> QED BY <1>3, <1>4, <1>5 DEF CapInv

LEMMA AllowStep ==
  ASSUME TypesInv, CapInv, NEW w \in Workers, Allow(w)
  PROVE  CapInv'
<1>1. /\ rows' = rows /\ batch' = batch /\ now' = now /\ advisory' = advisory
      /\ pc[w] = "decide" /\ pc' = [pc EXCEPT ![w] = "act"]
  BY DEF Allow, Goto, db, locks
<1>2. Exclusive'
  BY <1>1 DEF CapInv, Exclusive, Current, TypesInv, TypeOK
<1>3. HeadRoom'
  <2> SUFFICES ASSUME NEW v \in Workers, pc'[v] \in {"act", "commit"}, NEW l \in Limits
      PROVE  Cardinality(KeptSince(Current(v), now[v] - l.span)) < l.cap
    BY <1>1 DEF HeadRoom, KeptSince, Kept, Current
  <2>1. CASE v = w
    <3> DEFINE All == Spent(Current(w), now[w] - l.span)
               Old == KeptSince(Current(w), now[w] - l.span)
    <3>1. ~(Cardinality(All) >= l.cap)
      BY DEF Allow, Refused, CapReached
    <3>2. All \subseteq rows /\ Old \subseteq All
      BY DEF Spent, KeptSince, Kept
    <3> HIDE DEF All, Old
    <3>3. IsFiniteSet(All) /\ Cardinality(All) \in Nat
      BY <3>2, SmallerSet DEF TypesInv
    <3>4. Cardinality(Old) \in Nat /\ Cardinality(Old) <= Cardinality(All)
      BY <3>2, <3>3, SmallerSet
    <3>5. Cardinality(Old) < l.cap
      BY <3>1, <3>3, <3>4, LimitsAssumption
    <3> QED BY <2>1, <3>5 DEF Old
  <2>2. CASE v # w
    BY <1>1, <2>2 DEF CapInv, HeadRoom, TypesInv, TypeOK
  <2> QED BY <2>1, <2>2
<1>4. Capped'
  BY <1>1 DEF CapInv, Capped, Window
<1> QED BY <1>2, <1>3, <1>4 DEF CapInv

\* The step that spends: a window that gains the new row holds nothing that the worker
\* did not count, because its transaction began no earlier than its tick.
LEMMA CommitStep ==
  ASSUME TypesInv, CapInv, NEW w \in Workers, CommitAttempt(w)
  PROVE  CapInv'
<1> DEFINE new == [id |-> NewId, buyer |-> Current(w), at |-> begun[w], counts |-> TRUE,
                  again |-> FALSE]
<1>1. /\ rows' = rows \cup {new} /\ batch' = batch /\ now' = now
      /\ pc[w] = "commit" /\ pc' = [pc EXCEPT ![w] = "contact"]
      /\ advisory' = Release(advisory, w)
  BY DEF CommitAttempt, Goto, EndTransaction
<1>2. /\ IsFiniteSet(rows) /\ Current(w) \in Buyers /\ now[w] \in Nat
      /\ begun[w] \in Nat /\ now[w] <= begun[w]
  BY <1>1, CurrentType DEF TypesInv, TypeOK, BatchHeld, ClockOrder, Times, NoTime
<1>3. new.buyer = Current(w) /\ new.at = begun[w]
  OBVIOUS
<1> HIDE DEF new
<1>4. ASSUME NEW v \in Workers, pc'[v] \in {"decide", "act", "commit"}
      PROVE  /\ pc[v] = pc'[v] /\ v # w /\ Current(v)' = Current(v) /\ Current(v) \in Buyers
             /\ advisory[Current(v)] = v /\ Current(v) # Current(w)
  <2>1. v # w /\ pc[v] = pc'[v]
    BY <1>1, <1>4 DEF TypesInv, TypeOK
  <2>2. Current(v) \in Buyers
    BY <1>4, <2>1, CurrentType DEF TypesInv, BatchHeld
  <2>3. advisory[Current(v)] = v /\ advisory[Current(w)] = w
    BY <1>1, <1>4, <2>1 DEF CapInv, Exclusive
  <2> QED BY <1>1, <2>1, <2>2, <2>3 DEF Current
<1>5. Exclusive'
  BY <1>1, <1>4 DEF Exclusive, Release
<1>6. HeadRoom'
  <2> SUFFICES ASSUME NEW v \in Workers, pc'[v] \in {"act", "commit"}, NEW l \in Limits
      PROVE  Cardinality(KeptSince(Current(v), now[v] - l.span)') < l.cap
    BY DEF HeadRoom
  <2>1. KeptSince(Current(v), now[v] - l.span)' = KeptSince(Current(v), now[v] - l.span)
    BY <1>1, <1>3, <1>4 DEF KeptSince, Kept
  <2> QED BY <1>4, <2>1 DEF CapInv, HeadRoom
<1>7. Capped'
  <2> SUFFICES ASSUME NEW b \in Buyers, NEW l \in Limits, NEW t \in Int
      PROVE  Cardinality(Window(b, l, t)') <= l.cap
    BY DEF Capped
  <2>1. l.span \in Nat /\ l.cap \in Nat
    BY LimitsAssumption
  <2>2. CASE b = Current(w) /\ t <= begun[w] /\ begun[w] <= t + l.span
    <3> DEFINE S == KeptSince(Current(w), now[w] - l.span)
    <3>1. IsFiniteSet(S) /\ Cardinality(S) \in Nat /\ Cardinality(S) < l.cap
      <4>1. S \subseteq rows
        BY DEF KeptSince, Kept
      <4>2. Cardinality(S) < l.cap
        BY <1>1 DEF CapInv, HeadRoom
      <4> HIDE DEF S
      <4> QED BY <1>2, <4>1, <4>2, SmallerSet
    <3>2. Window(b, l, t)' \subseteq S \cup {new}
      <4> SUFFICES ASSUME NEW r \in Window(b, l, t)', r # new
          PROVE  r \in S
        OBVIOUS
      <4>1. r \in Kept /\ r.buyer = Current(w) /\ t <= r.at
        BY <1>1, <2>2 DEF Window, Kept
      <4>2. r.at \in Nat
        BY <4>1 DEF TypesInv, TypeOK, Attempt, Kept
      <4>3. r.at >= now[w] - l.span
        BY <1>2, <2>1, <2>2, <4>1, <4>2
      <4> QED BY <4>1, <4>3 DEF KeptSince
    <3> HIDE DEF S
    <3>3. /\ IsFiniteSet(S \cup {new}) /\ Cardinality(S \cup {new}) \in Nat
          /\ Cardinality(S \cup {new}) <= Cardinality(S) + 1
      BY <3>1, OneMore
    <3>4. /\ Cardinality(Window(b, l, t)') \in Nat
          /\ Cardinality(Window(b, l, t)') <= Cardinality(S \cup {new})
      BY <3>2, <3>3, SmallerSet
    <3> QED BY <2>1, <3>1, <3>3, <3>4
  <2>3. CASE ~(b = Current(w) /\ t <= begun[w] /\ begun[w] <= t + l.span)
    <3>1. Window(b, l, t)' = Window(b, l, t)
      BY <1>1, <1>3, <2>3 DEF Window
    <3> QED BY <3>1 DEF CapInv, Capped
  <2> QED BY <2>2, <2>3
<1> QED BY <1>5, <1>6, <1>7 DEF CapInv

\* Every other step of a worker moves that worker alone, adds no row, and takes no
\* advisory lock that another worker holds.
LEMMA OtherWorkers ==
  ASSUME TypesInv, CapInv, NEW w \in Workers, rows' = rows,
         NEW l, pc' = [pc EXCEPT ![w] = l],
         l \notin {"decide", "act", "commit"} \/ (pc[w] = "act" /\ l = "commit"),
         \A v \in Workers \ {w} : batch'[v] = batch[v] /\ now'[v] = now[v],
         l = "commit" => batch'[w] = batch[w] /\ now'[w] = now[w] /\ advisory' = advisory,
         advisory' \in {advisory, Release(advisory, w)}
  PROVE  CapInv'
<1>1. ASSUME NEW v \in Workers, pc'[v] \in {"decide", "act", "commit"}
      PROVE  /\ pc[v] \in {"decide", "act", "commit"} /\ (pc[v] = "decide" => pc'[v] = "decide")
             /\ batch'[v] = batch[v] /\ now'[v] = now[v]
             /\ \A b \in Buyers : advisory[b] = v => advisory'[b] = v
  <2>1. CASE v = w
    BY <1>1, <2>1 DEF TypesInv, TypeOK
  <2>2. CASE v # w
    BY <1>1, <2>2 DEF TypesInv, TypeOK, Release
  <2> QED BY <2>1, <2>2
<1>2. Kept' \subseteq Kept
  BY DEF Kept
<1> QED BY <1>1, <1>2, QuietStep

LEMMA StepCap ==
  ASSUME TypesInv, CapInv, NEW w \in Workers, Step(w)
  PROVE  CapInv'
<1>1. CASE Claim(w)
  BY <1>1, OtherWorkers DEF Claim, Goto, db, TypesInv, TypeOK
<1>2. CASE FinishTick(w)
  BY <1>2, OtherWorkers DEF FinishTick, EndTransaction, EndTick, Goto, TypesInv, TypeOK
<1>3. CASE LockBuyer(w)
  BY <1>3, LockStep
<1>4. CASE Refuse(w) \/ RefuseLate(w)
  BY <1>4, OtherWorkers DEF Refuse, RefuseLate, RecordBlock, Advance, Goto, db, TypesInv, TypeOK
<1>5. CASE Allow(w)
  BY <1>5, AllowStep
<1>6. CASE Prepare(w)
  BY <1>6, OtherWorkers DEF Prepare, Goto, db, locks
<1>7. CASE Throttled(w)
  BY <1>7, OtherWorkers DEF Throttled, Advance, Goto, db, TypesInv, TypeOK
<1>8. CASE RenderFailed(w)
  BY <1>8, OtherWorkers DEF RenderFailed, EndTransaction, Goto
<1>9. CASE RecordUnready(w) \/ StoreNext(w)
  BY <1>9, OtherWorkers DEF RecordUnready, StoreNext, Advance, Goto, locks, TypesInv, TypeOK
<1>10. CASE CommitAttempt(w)
  BY <1>10, CommitStep
<1>11. CASE PreflightBlocked(w)
  BY <1>11, OtherWorkers DEF PreflightBlocked, EndTransaction, Advance, Goto, TypesInv, TypeOK
<1>12. CASE Contact(w) \/ NotHandedOver(w)
  BY <1>12, OtherWorkers DEF Contact, NotHandedOver, Advance, Goto, db, locks, TypesInv, TypeOK
<1>13. CASE FindCampaign(w) \/ LetGo(w)
  BY <1>13, OtherWorkers DEF FindCampaign, LetGo, Advance, Goto, db, locks, TypesInv, TypeOK
<1>14. CASE TakeRow(w)
  <2>1. UNCHANGED <<rows, pc, batch, now, advisory>>
    BY <1>14 DEF TakeRow, db, wvars
  <2> QED BY <2>1, QuietStep DEF Kept
<1> QED BY <1>1, <1>2, <1>3, <1>4, <1>5, <1>6, <1>7, <1>8, <1>9, <1>10, <1>11, <1>12, <1>13, <1>14
        DEF Step

LEMMA FaultCap ==
  ASSUME TypesInv, CapInv, NEW w \in Workers, Fault(w)
  PROVE  CapInv'
<1>1. CASE AbandonTick(w)
  BY <1>1, OtherWorkers DEF AbandonTick, EndTransaction, EndTick, Goto, db, TypesInv, TypeOK
<1>2. CASE RollBack(w)
  BY <1>2, OtherWorkers DEF RollBack, EndTransaction, Advance, Goto, db, TypesInv, TypeOK
<1> QED BY <1>1, <1>2 DEF Fault, Raise, Crash, DeadlockVictim

LEMMA WorldCap ==
  ASSUME TypesInv, CapInv, World \/ UNCHANGED vars
  PROVE  CapInv'
<1>1. UNCHANGED <<wvars, advisory>>
  BY DEF World, ApplyOutcome, Withdraw, Settle, Pause, Complete, Tick, vars, locks
<1>2. Kept' \subseteq Kept
  <2>1. ASSUME NEW r \in rows, ApplyOutcome(r)
        PROVE  Kept' \subseteq Kept
    <3>1. PICK back \in BOOLEAN : rows' = (rows \ {r}) \cup {Assigned(r, back)}
      BY <2>1 DEF ApplyOutcome
    <3>2. r \in Attempt
      BY DEF TypesInv, TypeOK
    <3>3. Assigned(r, back).counts /\ ~Assigned(r, back).again => Assigned(r, back) = r
      BY <3>2 DEF Assigned, Attempt
    <3> QED BY <2>1, <3>1, <3>3 DEF Kept
  <2>2. (\E r \in rows : ApplyOutcome(r)) \/ rows' = rows
    BY DEF World, Withdraw, Settle, Pause, Complete, Tick, vars, db
  <2> QED BY <2>1, <2>2 DEF Kept
<1> QED BY <1>1, <1>2, QuietStep DEF wvars

LEMMA CapInvAlways == Spec => []CapInv
<1>1. Init => CapInv
  <2> SUFFICES ASSUME Init PROVE CapInv
    OBVIOUS
  <2>1. Exclusive /\ HeadRoom
    BY DEF Init, Exclusive, HeadRoom
  <2>2. ASSUME NEW b \in Buyers, NEW l \in Limits, NEW t \in Int
        PROVE  Cardinality(Window(b, l, t)) <= l.cap
    <3>1. Window(b, l, t) = {}
      BY DEF Init, Window
    <3> QED BY <3>1, FS_EmptySet, LimitsAssumption
  <2> QED BY <2>1, <2>2 DEF CapInv, Capped
<1>2. TypesInv /\ CapInv /\ [Next]_vars => CapInv'
  BY StepCap, FaultCap, WorldCap DEF Next
<1> QED BY <1>1, <1>2, TypesStable, PTL DEF Spec

\* No window of a limit's span ever holds more counted attempts on one debtor than the
\* limit's cap (max_attempts_per_day, max_attempts_per_week), but for attempts that were
\* given back and count once more, for any number of tick workers, debtors and limits,
\* whatever crashes or is rolled back.
THEOREM CapsHold == Spec => []CapRespected
<1>1. TypesInv /\ CapInv => CapRespected
  <2> SUFFICES ASSUME TypesInv, CapInv, NEW b \in Buyers, NEW l \in Limits, NEW r \in rows
      PROVE  Cardinality({ q \in rows : /\ q.buyer = b /\ q.counts /\ ~q.again
                                        /\ r.at <= q.at /\ q.at <= r.at + l.span }) <= l.cap
    BY DEF CapRespected
  <2>1. r.at \in Int
    BY DEF TypesInv, TypeOK, Attempt
  <2> QED BY <2>1 DEF CapInv, Capped, Window
<1> QED BY <1>1, TypesStable, CapInvAlways, PTL

---------------------------------------------------------------------------
(* That nobody is contacted without a row of their own, nor once their     *)
(* account is closed.                                                      *)

\* A row keeps its id, and the next id is new.
OwnIds == /\ \A r, q \in rows : r.id = q.id => r = q
          /\ \A r \in rows : r.id < Cardinality(rows)

\* Nothing is dated later than now.
Dated == /\ \A r \in rows : r.at <= clock
         /\ \A w \in Workers : begun[w] <= clock

OpenSince(b, t) == closed[b] = NoTime \/ closed[b] >= t

\* An account that was open when it was read again stays open until the transaction began.
StillOpen == /\ \A r \in rows : OpenSince(r.buyer, r.at)
             /\ \A w \in Workers : pc[w] = "commit" => OpenSince(Current(w), begun[w])

\* Whoever is about to contact a debtor has a row for it, which nobody else has used or will.
HasRow(w) == /\ \E r \in rows : r.id = attempt[w] /\ r.buyer = Current(w)
             /\ \A c \in contacted : c.id # attempt[w]
             /\ \A v \in Workers \ {w} : pc[v] = "contact" => attempt[v] # attempt[w]

RowReady == \A w \in Workers : pc[w] = "contact" => HasRow(w)

\* Nobody is contacted without a committed row of their own to show for it, whatever
\* is rolled back and whoever dies.
ContactIsRecorded ==
  /\ \A c \in contacted : \E r \in rows : r.id = c.id /\ r.buyer = c.buyer
  /\ \A c, d \in contacted : c.id = d.id => c = d

RecordInv == OwnIds /\ Dated /\ StillOpen /\ RowReady /\ ContactIsRecorded

---------------------------------------------------------------------------
\* A step of one worker that leaves the rows and the contacts alone, and does not bring the
\* worker to a commit or a contact.
LEMMA QuietRecords ==
  ASSUME TypesInv, RecordInv, NEW w \in Workers,
         UNCHANGED <<rows, contacted, closed, clock>>,
         NEW l, l \notin {"commit", "contact"}, pc' = [pc EXCEPT ![w] = l],
         \A v \in Workers \ {w} : /\ batch'[v] = batch[v] /\ attempt'[v] = attempt[v]
                                  /\ begun'[v] = begun[v],
         begun'[w] <= clock
  PROVE  RecordInv'
<1>1. ASSUME NEW v \in Workers, pc'[v] \in {"commit", "contact"}
      PROVE  v # w /\ pc[v] = pc'[v]
  BY <1>1 DEF TypesInv, TypeOK
<1>2. OwnIds' /\ Dated' /\ ContactIsRecorded'
  BY DEF RecordInv, OwnIds, Dated, ContactIsRecorded
<1>3. StillOpen'
  BY <1>1 DEF RecordInv, StillOpen, OpenSince, Current
<1>4. RowReady'
  BY <1>1 DEF RecordInv, RowReady, HasRow, Current
<1> QED BY <1>2, <1>3, <1>4 DEF RecordInv

\* The account is read again right before the commit.
LEMMA PrepareRecords ==
  ASSUME TypesInv, RecordInv, NEW w \in Workers, Prepare(w)
  PROVE  RecordInv'
<1>1. /\ UNCHANGED <<rows, contacted, closed, clock, batch, attempt, begun>>
      /\ pc' = [pc EXCEPT ![w] = "commit"] /\ closed[Current(w)] = NoTime
  BY DEF Prepare, Goto, Chaseable, db
<1>2. OwnIds' /\ Dated' /\ ContactIsRecorded'
  BY <1>1 DEF RecordInv, OwnIds, Dated, ContactIsRecorded
<1>3. StillOpen'
  BY <1>1 DEF RecordInv, StillOpen, OpenSince, Current, TypesInv, TypeOK
<1>4. RowReady'
  BY <1>1 DEF RecordInv, RowReady, HasRow, Current, TypesInv, TypeOK
<1> QED BY <1>2, <1>3, <1>4 DEF RecordInv

\* The row gets an id that no row, and so no contact, has had.
LEMMA CommitRecords ==
  ASSUME TypesInv, RecordInv, NEW w \in Workers, CommitAttempt(w)
  PROVE  RecordInv'
<1> DEFINE new == [id |-> NewId, buyer |-> Current(w), at |-> begun[w], counts |-> TRUE,
                  again |-> FALSE]
<1>1. /\ rows' = rows \cup {new} /\ UNCHANGED <<contacted, closed, clock, batch>>
      /\ pc[w] = "commit" /\ pc' = [pc EXCEPT ![w] = "contact"]
      /\ attempt' = [attempt EXCEPT ![w] = NewId] /\ begun' = [begun EXCEPT ![w] = NoTime]
  BY DEF CommitAttempt, Goto, EndTransaction
<1>2. new.id = Cardinality(rows) /\ new.buyer = Current(w) /\ new.at = begun[w]
  BY DEF NewId
<1>3. /\ \A r \in rows : r \in Attempt /\ r.id < Cardinality(rows) /\ r.id # NewId
      /\ NewId = Cardinality(rows) /\ NewId \in Nat
  BY NewIdType DEF RecordInv, OwnIds, TypesInv, TypeOK, NewId, Attempt
<1> HIDE DEF new
<1>4. Cardinality(rows') = Cardinality(rows) + 1
  <2>1. new \notin rows
    BY <1>2, <1>3
  <2> QED BY <1>1, <2>1, FS_AddElement DEF TypesInv
<1>5. OwnIds'
  <2>1. \A r \in rows' : r.id < Cardinality(rows')
    BY <1>1, <1>2, <1>3, <1>4 DEF Attempt
  <2>2. \A r, q \in rows' : r.id = q.id => r = q
    BY <1>1, <1>2, <1>3 DEF RecordInv, OwnIds
  <2> QED BY <2>1, <2>2 DEF OwnIds
<1>6. Dated'
  BY <1>1, <1>2 DEF RecordInv, Dated, TypesInv, TypeOK, NoTime
<1>7. StillOpen'
  BY <1>1, <1>2 DEF RecordInv, StillOpen, OpenSince, Current, TypesInv, TypeOK
<1>8. \A c \in contacted : c.id # NewId
  BY <1>3 DEF RecordInv, ContactIsRecorded
<1>9. RowReady'
  <2> SUFFICES ASSUME NEW v \in Workers, pc'[v] = "contact" PROVE HasRow(v)'
    BY DEF RowReady
  <2>1. CASE v = w
    <3>1. attempt'[w] = NewId
      BY <1>1 DEF TypesInv, TypeOK
    <3>2. \A u \in Workers \ {w} : pc'[u] = "contact" => attempt'[u] # NewId
      BY <1>1, <1>3 DEF RecordInv, RowReady, HasRow, TypesInv, TypeOK
    <3> QED BY <1>1, <1>2, <1>3, <1>8, <2>1, <3>1, <3>2 DEF HasRow, Current
  <2>2. CASE v # w
    <3>1. pc[v] = "contact" /\ HasRow(v) /\ attempt'[v] = attempt[v]
      BY <1>1, <2>2 DEF RecordInv, RowReady, TypesInv, TypeOK
    <3>2. attempt[v] # NewId
      BY <1>3, <3>1 DEF HasRow
    <3> QED BY <1>1, <2>2, <3>1, <3>2 DEF HasRow, Current, TypesInv, TypeOK
  <2> QED BY <2>1, <2>2
<1>10. ContactIsRecorded'
  BY <1>1 DEF RecordInv, ContactIsRecorded
<1> QED BY <1>5, <1>6, <1>7, <1>9, <1>10 DEF RecordInv

\* The contact takes the row that was kept for it.
LEMMA ContactRecords ==
  ASSUME TypesInv, RecordInv, NEW w \in Workers, Contact(w)
  PROVE  RecordInv'
<1> DEFINE new == [id |-> attempt[w], buyer |-> Current(w), at |-> clock]
<1>1. /\ contacted' = contacted \cup {new}
      /\ UNCHANGED <<rows, closed, clock, batch, attempt, begun>>
      /\ pc[w] = "contact" /\ pc' = [pc EXCEPT ![w] = "store"]
  BY DEF Contact, Goto, db
<1>2. new.id = attempt[w] /\ new.buyer = Current(w)
  OBVIOUS
<1>3. HasRow(w)
  BY <1>1 DEF RecordInv, RowReady
<1> HIDE DEF new
<1>4. OwnIds' /\ Dated'
  BY <1>1 DEF RecordInv, OwnIds, Dated
<1>5. StillOpen'
  BY <1>1 DEF RecordInv, StillOpen, OpenSince, Current, TypesInv, TypeOK
<1>6. RowReady'
  <2> SUFFICES ASSUME NEW v \in Workers, pc'[v] = "contact" PROVE HasRow(v)'
    BY DEF RowReady
  <2>1. v # w /\ pc[v] = "contact" /\ HasRow(v)
    BY <1>1 DEF RecordInv, RowReady, TypesInv, TypeOK
  <2>2. attempt[v] # attempt[w]
    BY <1>1, <2>1 DEF HasRow
  <2> QED BY <1>1, <1>2, <2>1, <2>2 DEF HasRow, Current, TypesInv, TypeOK
<1>7. ContactIsRecorded'
  BY <1>1, <1>2, <1>3 DEF RecordInv, ContactIsRecorded, HasRow
<1> QED BY <1>4, <1>5, <1>6, <1>7 DEF RecordInv

LEMMA StepRecords ==
  ASSUME TypesInv, RecordInv, NEW w \in Workers, Step(w)
  PROVE  RecordInv'
<1>t. clock \in Nat /\ begun \in [Workers -> Times] /\ begun[w] <= clock /\ NoTime <= clock
  BY DEF TypesInv, TypeOK, RecordInv, Dated, NoTime
<1>1. CASE Claim(w)
  <2>1. /\ UNCHANGED <<rows, contacted, closed, clock, attempt>>
        /\ pc' = [pc EXCEPT ![w] = "next"] /\ begun' = [begun EXCEPT ![w] = clock]
        /\ \E s : batch' = [batch EXCEPT ![w] = s]
    BY <1>1 DEF Claim, Goto, db
  <2>2. begun'[w] <= clock /\ \A v \in Workers \ {w} : begun'[v] = begun[v] /\ batch'[v] = batch[v]
    BY <1>t, <2>1 DEF TypesInv, TypeOK
  <2> QED BY <2>1, <2>2, QuietRecords
<1>2. CASE FinishTick(w)
  BY <1>t, <1>2, QuietRecords DEF FinishTick, EndTransaction, EndTick, Goto, TypesInv, TypeOK
<1>3. CASE LockBuyer(w)
  BY <1>t, <1>3, QuietRecords DEF LockBuyer, Goto, db
<1>14. CASE FindCampaign(w) \/ LetGo(w)
  <2>1. /\ UNCHANGED <<rows, contacted, closed, clock, attempt>>
        /\ pc' = [pc EXCEPT ![w] = "lock"] \/ pc' = [pc EXCEPT ![w] = "next"]
        /\ begun' = [begun EXCEPT ![w] = IF @ = NoTime THEN clock ELSE @]
        /\ batch' = batch \/ batch' = [batch EXCEPT ![w] = Tail(@)]
    BY <1>14 DEF FindCampaign, LetGo, Begin, Advance, Goto, db
  <2>2. begun'[w] <= clock /\ \A v \in Workers \ {w} : begun'[v] = begun[v] /\ batch'[v] = batch[v]
    BY <1>t, <2>1 DEF TypesInv, TypeOK
  <2> QED BY <2>1, <2>2, QuietRecords
<1>15. CASE TakeRow(w)
  <2>1. UNCHANGED <<rows, contacted, closed, clock, pc, batch, attempt, begun>>
    BY <1>15 DEF TakeRow, db, wvars
  <2> QED BY <2>1 DEF RecordInv, OwnIds, Dated, StillOpen, OpenSince, RowReady, HasRow, Current,
                      ContactIsRecorded
<1>4. CASE Refuse(w) \/ RefuseLate(w)
  BY <1>t, <1>4, QuietRecords DEF Refuse, RefuseLate, RecordBlock, Advance, Goto, db, TypesInv,
                                  TypeOK
<1>5. CASE Allow(w)
  BY <1>t, <1>5, QuietRecords DEF Allow, Goto, db, TypesInv, TypeOK
<1>6. CASE Prepare(w)
  BY <1>6, PrepareRecords
<1>7. CASE Throttled(w)
  BY <1>t, <1>7, QuietRecords DEF Throttled, Advance, Goto, db, TypesInv, TypeOK
<1>8. CASE RenderFailed(w)
  BY <1>t, <1>8, QuietRecords DEF RenderFailed, EndTransaction, Goto, TypesInv, TypeOK
<1>9. CASE RecordUnready(w) \/ StoreNext(w)
  BY <1>t, <1>9, QuietRecords DEF RecordUnready, StoreNext, Advance, Goto, TypesInv, TypeOK
<1>10. CASE CommitAttempt(w)
  BY <1>10, CommitRecords
<1>11. CASE PreflightBlocked(w)
  BY <1>t, <1>11, QuietRecords DEF PreflightBlocked, EndTransaction, Advance, Goto, TypesInv, TypeOK
<1>12. CASE Contact(w)
  BY <1>12, ContactRecords
<1>13. CASE NotHandedOver(w)
  BY <1>t, <1>13, QuietRecords DEF NotHandedOver, Advance, Goto, db, TypesInv, TypeOK
<1> QED BY <1>1, <1>2, <1>3, <1>4, <1>5, <1>6, <1>7, <1>8, <1>9, <1>10, <1>11, <1>12, <1>13,
            <1>14, <1>15
        DEF Step

LEMMA FaultRecords ==
  ASSUME TypesInv, RecordInv, NEW w \in Workers, Fault(w)
  PROVE  RecordInv'
<1>t. clock \in Nat /\ begun \in [Workers -> Times] /\ NoTime <= clock
  BY DEF TypesInv, TypeOK, NoTime
<1>1. CASE AbandonTick(w)
  BY <1>t, <1>1, QuietRecords DEF AbandonTick, EndTransaction, EndTick, Goto, db, TypesInv, TypeOK
<1>2. CASE RollBack(w)
  BY <1>t, <1>2, QuietRecords DEF RollBack, EndTransaction, Advance, Goto, db, TypesInv, TypeOK
<1> QED BY <1>1, <1>2 DEF Fault, Raise, Crash, DeadlockVictim

\* An outcome rewrites a row under the id, the debtor and the date it has.
LEMMA OutcomeRecords ==
  ASSUME TypesInv, RecordInv, NEW r \in rows, ApplyOutcome(r)
  PROVE  RecordInv'
<1>1. PICK back \in BOOLEAN : rows' = (rows \ {r}) \cup {Assigned(r, back)}
  BY DEF ApplyOutcome
<1> DEFINE new == Assigned(r, back)
<1>2. r \in Attempt /\ new.id = r.id /\ new.buyer = r.buyer /\ new.at = r.at
  BY DEF TypesInv, TypeOK, Attempt, Assigned
<1>3. rows' = (rows \ {r}) \cup {new}
  BY <1>1
<1>4. UNCHANGED <<contacted, closed, clock, pc, batch, attempt, begun>>
  BY DEF ApplyOutcome, wvars
<1> HIDE DEF new
<1>5. Cardinality(rows') = Cardinality(rows)
  <2>1. IsFiniteSet(rows) /\ IsFiniteSet(rows \ {r}) /\ Cardinality(rows \ {r}) = Cardinality(rows) - 1
    BY FS_RemoveElement DEF TypesInv
  <2>2. new \notin rows \ {r}
    BY <1>2 DEF RecordInv, OwnIds
  <2>3. Cardinality((rows \ {r}) \cup {new}) = (Cardinality(rows) - 1) + 1
    BY <2>1, <2>2, FS_AddElement
  <2>4. Cardinality(rows) \in Nat
    BY <2>1, FS_CardinalityType
  <2> QED BY <1>3, <2>3, <2>4
<1>6. OwnIds'
  BY <1>2, <1>3, <1>5 DEF RecordInv, OwnIds
<1>7. Dated' /\ StillOpen'
  BY <1>2, <1>3, <1>4 DEF RecordInv, Dated, StillOpen, OpenSince, Current
<1>8. \A q \in rows : \E p \in rows' : p.id = q.id /\ p.buyer = q.buyer
  BY <1>2, <1>3
<1>9. RowReady'
  BY <1>4, <1>8 DEF RecordInv, RowReady, HasRow, Current
<1>10. ContactIsRecorded'
  BY <1>4, <1>8 DEF RecordInv, ContactIsRecorded
<1> QED BY <1>6, <1>7, <1>9, <1>10 DEF RecordInv

LEMMA WorldRecords ==
  ASSUME TypesInv, RecordInv, World \/ UNCHANGED vars
  PROVE  RecordInv'
<1>1. ASSUME NEW b \in Buyers, Settle(b)
      PROVE  RecordInv'
  <2>1. /\ closed' = [closed EXCEPT ![b] = clock] /\ closed[b] = NoTime
        /\ UNCHANGED <<rows, contacted, clock, pc, batch, attempt, begun>>
    BY <1>1 DEF Settle, wvars
  <2>2. \A q \in Buyers, t \in Int : OpenSince(q, t) /\ t <= clock => OpenSince(q, t)'
    BY <2>1 DEF OpenSince, TypesInv, TypeOK
  <2>3. ASSUME NEW r \in rows PROVE OpenSince(r.buyer, r.at)'
    <3>1. r.buyer \in Buyers /\ r.at \in Int /\ r.at <= clock
      BY DEF TypesInv, TypeOK, Attempt, RecordInv, Dated
    <3>2. OpenSince(r.buyer, r.at)
      BY DEF RecordInv, StillOpen
    <3> QED BY <2>1, <3>1, <3>2 DEF OpenSince, TypesInv, TypeOK
  <2>4. ASSUME NEW w \in Workers, pc[w] = "commit"
        PROVE  closed'[Current(w)] = NoTime \/ closed'[Current(w)] >= begun[w]
    <3>1. Current(w) \in Buyers
      BY <2>4, CurrentType DEF TypesInv, BatchHeld
    <3>2. begun[w] <= clock /\ OpenSince(Current(w), begun[w])
      BY <2>4 DEF RecordInv, Dated, StillOpen
    <3> QED BY <2>1, <3>1, <3>2 DEF OpenSince, TypesInv, TypeOK
  <2>5. StillOpen'
    BY <2>1, <2>3, <2>4 DEF StillOpen, OpenSince, Current
  <2>6. OwnIds' /\ Dated' /\ RowReady' /\ ContactIsRecorded'
    BY <2>1 DEF RecordInv, OwnIds, Dated, RowReady, HasRow, Current, ContactIsRecorded
  <2> QED BY <2>5, <2>6 DEF RecordInv
<1>2. CASE Tick
  <2>1. clock' = clock + 1 /\ UNCHANGED <<rows, contacted, closed, pc, batch, attempt, begun>>
    BY <1>2 DEF Tick, db, wvars
  <2>2. Dated'
    <3>1. \A r \in rows : r.at \in Int /\ r.at <= clock
      BY DEF RecordInv, Dated, TypesInv, TypeOK, Attempt
    <3>2. \A w \in Workers : begun[w] \in Int /\ begun[w] <= clock
      BY DEF RecordInv, Dated, TypesInv, TypeOK, Times, NoTime
    <3>3. clock \in Nat
      BY DEF TypesInv, TypeOK
    <3> QED BY <2>1, <3>1, <3>2, <3>3 DEF Dated
  <2> QED BY <2>1, <2>2 DEF RecordInv, OwnIds, StillOpen, OpenSince, RowReady, HasRow, Current,
                           ContactIsRecorded
<1>3. CASE (\E b \in Buyers : Withdraw(b) \/ Complete(b)) \/ Pause \/ UNCHANGED vars
  <2>1. UNCHANGED <<rows, contacted, closed, clock, pc, batch, attempt, begun>>
    BY <1>3 DEF Withdraw, Complete, Pause, vars, db, wvars
  <2> QED BY <2>1 DEF RecordInv, OwnIds, Dated, StillOpen, OpenSince, RowReady, HasRow, Current,
                      ContactIsRecorded
<1> QED BY <1>1, <1>2, <1>3, OutcomeRecords DEF World

LEMMA RecordsKept == Spec => []RecordInv
<1>1. Init => RecordInv
  BY FS_EmptySet DEF Init, RecordInv, OwnIds, Dated, StillOpen, RowReady, ContactIsRecorded, NoTime
<1>2. TypesInv /\ RecordInv /\ [Next]_vars => RecordInv'
  BY StepRecords, FaultRecords, WorldRecords DEF Next
<1> QED BY <1>1, <1>2, TypesStable, PTL DEF Spec

\* Nobody is contacted without a committed row of their own, whatever is rolled back and
\* whoever dies, for any number of workers and debtors.
THEOREM ContactsOnRecord == Spec => []ContactIsRecorded
<1>1. RecordInv => ContactIsRecorded
  BY DEF RecordInv
<1> QED BY <1>1, RecordsKept, PTL

\* No account that was settled or disputed before the attempt's transaction began is
\* contacted by that attempt, however the steps of workers and the rest interleave.
THEOREM NoContactOnceClosed == Spec => []ClosedNotContacted
<1>1. RecordInv => ClosedNotContacted
  BY DEF RecordInv, StillOpen, OpenSince, ClosedNotContacted
<1> QED BY <1>1, RecordsKept, PTL

---------------------------------------------------------------------------
(* That Dispatch implements ContactBudget.                                 *)

\* What a debtor can see.
Visible == <<rows, contacted, closed, clock>>

LEMMA SameCount == ASSUME NEW S PROVE Budget!Cardinality(S) = Cardinality(S)
BY DEF Budget!Cardinality, Cardinality

\* The row that is committed is new, in time and on an open account, and within the caps,
\* because all windows still are.
LEMMA CommitBooks ==
  ASSUME TypesInv, RecordInv, TypesInv', CapInv', NEW w \in Workers, CommitAttempt(w)
  PROVE  Budget!Book
<1>1. /\ UNCHANGED <<contacted, closed, clock>> /\ pc[w] = "commit"
      /\ rows' = rows \cup {[id |-> NewId, buyer |-> Current(w), at |-> begun[w], counts |-> TRUE,
                          again |-> FALSE]}
  BY DEF CommitAttempt
<1>2. PICK new \in rows' : /\ rows' = rows \cup {new}
                           /\ new.id = Cardinality(rows) /\ new.buyer = Current(w)
                           /\ new.at = begun[w] /\ new.counts /\ ~new.again
  <2> DEFINE row == [id |-> NewId, buyer |-> Current(w), at |-> begun[w], counts |-> TRUE,
                  again |-> FALSE]
  <2>1. row \in rows' /\ rows' = rows \cup {row}
    BY <1>1
  <2>2. /\ row.id = Cardinality(rows) /\ row.buyer = Current(w) /\ row.at = begun[w]
        /\ row.counts /\ ~row.again
    BY DEF NewId
  <2> QED BY <2>1, <2>2
<1>3. new.buyer \in Buyers
  BY <1>1, <1>2, CurrentType DEF TypesInv, BatchHeld
<1>4. new.id \notin Budget!Id(rows)
  <2>1. \A r \in rows : r.id \in Nat /\ r.id < Cardinality(rows)
    BY DEF RecordInv, OwnIds, TypesInv, TypeOK, Attempt
  <2> QED BY <1>2, <2>1 DEF Budget!Id
<1>5. new.at <= clock /\ (closed[new.buyer] = NoTime \/ closed[new.buyer] >= new.at)
  BY <1>1, <1>2 DEF RecordInv, Dated, StillOpen, OpenSince
<1>6. Budget!WithinCaps(new.buyer)'
  <2> SUFFICES ASSUME NEW l \in Limits, NEW first \in rows'
      PROVE  Cardinality({ a \in rows' : /\ a.buyer = new.buyer /\ a.counts /\ ~a.again
                                         /\ first.at <= a.at /\ a.at <= first.at + l.span })
               <= l.cap
    BY SameCount DEF Budget!WithinCaps
  <2>1. first.at \in Int
    BY DEF TypesInv, TypeOK, Attempt
  <2> QED BY <1>3, <2>1 DEF CapInv, Capped, Window
<1> QED BY <1>1, <1>2, <1>4, <1>5, <1>6 DEF Budget!Book

\* The contact uses the row that was kept for it.
LEMMA ContactReaches ==
  ASSUME RecordInv, NEW w \in Workers, Contact(w)
  PROVE  Budget!Reach
<1>1. /\ contacted' = contacted \cup {[id |-> attempt[w], buyer |-> Current(w), at |-> clock]}
      /\ UNCHANGED <<rows, closed, clock>> /\ HasRow(w)
  BY DEF Contact, db, RecordInv, RowReady
<1>2. PICK r \in rows : r.id = attempt[w] /\ r.buyer = Current(w)
  BY <1>1 DEF HasRow
<1> QED BY <1>1, <1>2 DEF HasRow, Budget!Reach, Budget!Id

\* All that an outcome may change of a row is that it stops counting or counts again.
LEMMA OutcomeGivesBack ==
  ASSUME TypesInv, NEW r \in rows, ApplyOutcome(r)
  PROVE  Budget!GiveBack \/ Budget!CountAgain \/ UNCHANGED Visible
<1>1. PICK back \in BOOLEAN : rows' = (rows \ {r}) \cup {Assigned(r, back)}
  BY DEF ApplyOutcome
<1>2. UNCHANGED <<contacted, closed, clock>> /\ \E c \in contacted : c.id = r.id
  BY DEF ApplyOutcome
<1>3. r \in Attempt
  BY DEF TypesInv, TypeOK
<1>4. CASE back
  <2>1. Assigned(r, back) = [r EXCEPT !.counts = FALSE]
    BY <1>3, <1>4 DEF Attempt, Assigned
  <2> QED BY <1>1, <1>2, <2>1 DEF Budget!GiveBack, Budget!Id
<1>5. CASE ~back /\ ~r.counts
  <2>1. Assigned(r, back) = [r EXCEPT !.counts = TRUE, !.again = TRUE]
    BY <1>3, <1>5 DEF Attempt, Assigned
  <2> QED BY <1>1, <1>2, <1>5, <2>1 DEF Budget!CountAgain, Budget!Id
<1>6. CASE ~back /\ r.counts
  <2>1. Assigned(r, back) = r
    BY <1>3, <1>6 DEF Attempt, Assigned
  <2> QED BY <1>1, <1>2, <2>1 DEF Visible
<1> QED BY <1>4, <1>5, <1>6

\* No other step of a worker is seen.
LEMMA StepIsBudgeted ==
  ASSUME TypesInv, RecordInv, TypesInv', CapInv', NEW w \in Workers, Step(w) \/ Fault(w)
  PROVE  Budget!Book \/ Budget!Reach \/ UNCHANGED Visible
<1>1. CASE Claim(w) \/ FinishTick(w) \/ LockBuyer(w) \/ Allow(w)
  BY <1>1 DEF Claim, FinishTick, LockBuyer, Allow, db, Visible
<1>8. CASE FindCampaign(w) \/ LetGo(w) \/ TakeRow(w)
  BY <1>8 DEF FindCampaign, LetGo, TakeRow, db, Visible
<1>2. CASE Refuse(w) \/ RefuseLate(w) \/ Throttled(w) \/ Prepare(w)
  BY <1>2 DEF Refuse, RefuseLate, RecordBlock, Throttled, Prepare, db, Visible
<1>3. CASE RenderFailed(w) \/ RecordUnready(w) \/ PreflightBlocked(w)
  BY <1>3 DEF RenderFailed, RecordUnready, PreflightBlocked, Visible
<1>4. CASE NotHandedOver(w) \/ StoreNext(w)
  BY <1>4 DEF NotHandedOver, StoreNext, db, Visible
<1>5. CASE Fault(w)
  BY <1>5 DEF Fault, Raise, Crash, DeadlockVictim, RollBack, AbandonTick, db, Visible
<1>6. CASE CommitAttempt(w)
  BY <1>6, CommitBooks
<1>7. CASE Contact(w)
  BY <1>7, ContactReaches
<1> QED BY <1>1, <1>2, <1>3, <1>4, <1>5, <1>6, <1>7, <1>8 DEF Step

LEMMA WorldIsBudgeted ==
  ASSUME TypesInv, World
  PROVE  \/ Budget!GiveBack \/ Budget!CountAgain \/ Budget!Close \/ Budget!Pass
         \/ UNCHANGED Visible
<1>1. ASSUME NEW b \in Buyers, Settle(b) PROVE Budget!Close
  BY <1>1 DEF Settle, Budget!Close
<1>2. CASE Tick
  BY <1>2 DEF Tick, db, Budget!Pass
<1>3. CASE (\E b \in Buyers : Withdraw(b) \/ Complete(b)) \/ Pause
  BY <1>3 DEF Withdraw, Complete, Pause, Visible
<1> QED BY <1>1, <1>2, <1>3, OutcomeGivesBack DEF World

\* Dispatch implements ContactBudget, for any number of workers, debtors and limits: what
\* a debtor can see is that attempts are booked within the caps and on open accounts
\* before anybody is contacted, are used once and stay on record, given back or counted
\* again, whatever is rolled back and whoever dies.
THEOREM BudgetIsKept == Spec => KeepsTheBudget
<1>1. Init => Budget!Init
  BY DEF Init, Budget!Init
<1>2. /\ TypesInv /\ RecordInv /\ TypesInv' /\ CapInv'
      /\ [Next]_vars
      => [Budget!Next]_<<rows, contacted, closed, clock>>
  <2>1. UNCHANGED vars => UNCHANGED Visible
    BY DEF vars, db, Visible
  <2> QED BY <2>1, StepIsBudgeted, WorldIsBudgeted DEF Next, Budget!Next, Visible
<1> QED BY <1>1, <1>2, TypesStable, CapInvAlways, RecordsKept, PTL
       DEF Spec, KeepsTheBudget, Budget!Spec
=============================================================================
