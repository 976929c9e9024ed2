--------------------------- MODULE Ledger_proofs ---------------------------
(***************************************************************************)
(* Proofs about Ledger, for any number of invoices, sessions and           *)
(* transactions and any amounts: the rows are well formed, two             *)
(* transactions never allocate from one balance, every invoice that no     *)
(* overtaken write touched agrees with its movements, and money is         *)
(* conserved: the ledger implements OnAccount.  And an uninstructed        *)
(* payment has exactly one plan (OnePlan), the one that the loop of        *)
(* plan_allocation computes (LoopIsThePlan).                               *)
(*                                                                         *)
(* What is allocated is a sum over the invoices.  The facts about such     *)
(* sums that the proofs need come from an induction over the finite        *)
(* subsets of the invoices, done as a least counterexample (Numbers,       *)
(* Sets), with the hypothesis given as the set of those it holds of.       *)
(***************************************************************************)
EXTENDS Ledger, FiniteSetTheorems, WellFoundedInduction, TLAPS

USE SessionsAssumption, AmountsAssumption

\* What a session has loaded of a live invoice was the row when less, or as much, was
\* settled of it; a cancelled one it has loaded is still cancelled.
Earlier(old, current, settled) ==
  IF old.status = "CANCELLED" THEN old.outstanding = 0 /\ current.status = "CANCELLED"
  ELSE /\ old.net - settled <= old.outstanding /\ old.outstanding <= old.net
       /\ old.status = StatusOf(old.net, old.outstanding)

Loaded(s, i) == before[s][i] # NotLoaded

Settled(i) == paid[i] + credited[i]

LoadedEarlier(s) ==
  \A i \in Invoices \ overtaken :
    Loaded(s, i) => Earlier(before[s][i], invoice[i], Settled(i))

\* A payment holds what it allocates from, and what it recomputed is still right.
Paying(s) ==
  \A i \in Invoices :
    /\ plan[s][i] > 0 => /\ lock[i] = s /\ pc[s] = "paid" /\ Loaded(s, i)
                         /\ after[s][i] = Recomputed(before[s][i], Settled(i) + plan[s][i])
    /\ pc[s] = "paid" /\ plan[s][i] = 0 => after[s][i] = NotLoaded

\* A credit note writes what it computed from the row and the sums it read.
Crediting(s) ==
  /\ pc[s] \in {"crediting", "credited"} => amount[s] > 0 /\ Loaded(s, target[s])
  /\ pc[s] = "credited" =>
       after[s][target[s]] = Recomputed(before[s][target[s]], summed[s] + amount[s])

\* What an amendment or a void makes of the row it loaded.
Amendment(old, new, settled) ==
  \/ new = [old EXCEPT !.status = "CANCELLED", !.outstanding = 0]
  \/ \E n \in Nets : new = Recomputed([old EXCEPT !.net = n], settled)

\* It read the row and the sums together.
Amending(s) ==
  pc[s] = "amending" =>
    /\ Loaded(s, target[s])
    /\ Amendment(before[s][target[s]], after[s][target[s]], summed[s])
    /\ target[s] \notin overtaken => Agrees(before[s][target[s]], summed[s])

Session(s) == LoadedEarlier(s) /\ Paying(s) /\ Crediting(s) /\ Amending(s)

LedgerInv == RowsOK /\ InvoiceAgrees /\ \A s \in Sessions : Session(s)

---------------------------------------------------------------------------
(* Rows.                                                                   *)

LEMMA RowFields ==
  ASSUME NEW r \in Row
  PROVE  /\ r.net \in Nat /\ r.outstanding \in Nat /\ r.status \in Statuses
         /\ r = [net |-> r.net, outstanding |-> r.outstanding, status |-> r.status]
         /\ r # NotLoaded
BY DEF Row, Statuses, NotLoaded

LEMMA RecomputedRow ==
  ASSUME NEW r \in Row, NEW settled \in Nat,
         r.status = "CANCELLED" \/ settled <= r.net
  PROVE  Recomputed(r, settled) \in Row
<1>1. CASE r.status = "CANCELLED"
  BY <1>1 DEF Recomputed, Row, Statuses
<1>2. CASE r.status # "CANCELLED"
  <2> DEFINE left == r.net - settled
  <2>1. left \in Nat /\ StatusOf(r.net, left) \in Statuses
    BY <1>2 DEF Row, StatusOf, Statuses
  <2>2. Recomputed(r, settled) = [r EXCEPT !.outstanding = left, !.status = StatusOf(r.net, left)]
    BY <1>2 DEF Recomputed
  <2> HIDE DEF left
  <2> QED BY <2>1, <2>2 DEF Row
<1> QED BY <1>1, <1>2

LEMMA MergedRow ==
  ASSUME NEW current \in Row, NEW old \in Row, NEW new \in Row
  PROVE  Merge(current, old, new) \in Row
BY DEF Merge, Row

\* More is settled of an invoice than when it was loaded: written as the columns that
\* differ, the row agrees.
LEMMA SettlingMore ==
  ASSUME NEW current \in Row, NEW old \in Row, NEW settled \in Nat, NEW x \in Nat \ {0},
         Agrees(current, settled), Earlier(old, current, settled),
         old.net = current.net,
         old.status = "CANCELLED" \/ current.status # "CANCELLED",
         Recomputed(old, settled + x) \in Row
  PROVE  Agrees(Merge(current, old, Recomputed(old, settled + x)), settled + x)
<1> DEFINE new == Recomputed(old, settled + x)
<1>1. CASE old.status = "CANCELLED"
  <2>1. new = old
    BY <1>1, RowFields DEF Recomputed, Earlier, Row
  <2>2. current.status = "CANCELLED" /\ current.outstanding = 0
    BY <1>1 DEF Earlier, Agrees
  <2> QED BY <2>1, <2>2 DEF Merge, Agrees
<1>2. CASE old.status # "CANCELLED"
  <2>1. /\ new.net = old.net /\ new.outstanding = old.net - (settled + x)
        /\ new.status = StatusOf(old.net, old.net - (settled + x))
    BY <1>2 DEF Recomputed, Row
  <2>2. /\ old.net \in Nat /\ old.outstanding \in Nat /\ new.outstanding \in Nat
        /\ current.outstanding = old.net - settled
        /\ current.status = StatusOf(old.net, old.net - settled)
        /\ old.net - settled <= old.outstanding /\ old.outstanding <= old.net
        /\ old.status = StatusOf(old.net, old.outstanding)
    BY <1>2, RowFields DEF Agrees, Earlier
  <2>3. new.outstanding # old.outstanding
    BY <2>1, <2>2
  <2>4. new.status = old.status => current.status = new.status
    BY <2>1, <2>2 DEF StatusOf
  <2>5. /\ Merge(current, old, new).net = old.net
        /\ Merge(current, old, new).outstanding = new.outstanding
        /\ Merge(current, old, new).status = new.status
    BY <2>1, <2>3, <2>4 DEF Merge
  <2>6. new.status # "CANCELLED"
    BY <2>1 DEF StatusOf
  <2> QED BY <2>1, <2>5, <2>6, <2>2 DEF Agrees
<1> QED BY <1>1, <1>2

\* An invoice that is as it was loaded becomes what was computed from it.
LEMMA MergeUnchanged ==
  ASSUME NEW old \in Row, NEW new \in Row
  PROVE  Merge(old, old, new) = new
BY DEF Merge, Row

\* Two rows of the same amount that agree with the same sums are one row.
LEMMA SameRow ==
  ASSUME NEW r \in Row, NEW t \in Row, NEW settled \in Nat, r.net = t.net,
         Agrees(r, settled), Agrees(t, settled),
         r.status = "CANCELLED" <=> t.status = "CANCELLED"
  PROVE  r = t
BY RowFields DEF Agrees

LEMMA EarlierNow ==
  ASSUME NEW r \in Row, NEW settled \in Nat, Agrees(r, settled)
  PROVE  Earlier(r, r, settled)
BY RowFields DEF Agrees, Earlier

---------------------------------------------------------------------------
(* What a transaction does to the others, and what is left of one that ended. *)

Same(t) == /\ pc'[t] = pc[t] /\ amount'[t] = amount[t] /\ target'[t] = target[t]
           /\ before'[t] = before[t] /\ after'[t] = after[t]
           /\ plan'[t] = plan[t] /\ summed'[t] = summed[t]

\* Nobody unsettles an invoice, writes one that t holds, or revives a cancelled one
\* without being overtaken.
Respects(t) ==
  /\ overtaken \subseteq overtaken'
  /\ \A i \in Invoices :
       /\ Settled(i) <= Settled(i)'
       /\ lock[i] = t => lock'[i] = t /\ Settled(i)' = Settled(i)
       /\ i \notin overtaken' /\ invoice[i].status = "CANCELLED"
            => invoice'[i].status = "CANCELLED"

LEMMA OthersStay ==
  ASSUME RowsOK, RowsOK', NEW t \in Sessions, Session(t), Same(t), Respects(t)
  PROVE  Session(t)'
<1>1. LoadedEarlier(t)'
  <2> SUFFICES ASSUME NEW i \in Invoices, i \notin overtaken', before[t][i] # NotLoaded
               PROVE  Earlier(before[t][i], invoice'[i], Settled(i)')
    BY DEF LoadedEarlier, Loaded, Same
  <2>1. Earlier(before[t][i], invoice[i], Settled(i))
    BY DEF Session, LoadedEarlier, Loaded, Respects
  <2>2. before[t][i] \in Row /\ Settled(i) \in Nat /\ Settled(i)' \in Nat
    BY DEF RowsOK, Settled
  <2>3. before[t][i].net \in Nat /\ before[t][i].outstanding \in Nat
    BY <2>2 DEF Row
  <2>4. Settled(i) <= Settled(i)'
    BY DEF Respects
  <2>5. invoice[i].status = "CANCELLED" => invoice'[i].status = "CANCELLED"
    BY DEF Respects
  <2> QED BY <2>1, <2>2, <2>3, <2>4, <2>5 DEF Earlier
<1>2. Paying(t)'
  BY DEF Session, Paying, Loaded, Same, Respects
<1>3. Crediting(t)'
  BY DEF Session, Crediting, Loaded, Same
<1>4. Amending(t)'
  <2>1. target[t] \in Invoices
    BY DEF RowsOK
  <2> QED BY <2>1 DEF Session, Amending, Loaded, Same, Respects
<1> QED BY <1>1, <1>2, <1>3, <1>4 DEF Session

LEMMA EndedSession ==
  ASSUME RowsOK, NEW s \in Sessions, End(s)
  PROVE  /\ Session(s)'
         /\ \A t \in Sessions \ {s} : Same(t) /\ \A i \in Invoices : lock[i] = t => lock'[i] = t
<1>1. pc'[s] = "idle" /\ before'[s] = NothingLoaded /\ plan'[s] = NoPlan
  BY DEF End, RowsOK
<1>2. Session(s)'
  BY <1>1 DEF Session, LoadedEarlier, Paying, Crediting, Amending, Loaded,
              NothingLoaded, NoPlan
<1>3. ASSUME NEW t \in Sessions \ {s}
      PROVE  Same(t) /\ \A i \in Invoices : lock[i] = t => lock'[i] = t
  BY <1>3 DEF End, RowsOK, Same
<1> QED BY <1>2, <1>3

LEMMA EndedRows ==
  ASSUME RowsOK, NEW s \in Sessions, End(s)
  PROVE  /\ lock' \in [Invoices -> Sessions \cup {NoSession}]
         /\ share' \in [Invoices -> SUBSET Sessions]
         /\ pc' \in [Sessions -> {"idle", "paying", "paid", "crediting", "credited", "amending"}]
         /\ receipt' \in [Sessions -> Receipts \cup {NoReceipt}]
         /\ amount' \in [Sessions -> Nat] /\ target' \in [Sessions -> Invoices]
         /\ before' \in [Sessions -> [Invoices -> Row \cup {NotLoaded}]]
         /\ after' \in [Sessions -> [Invoices -> Row \cup {NotLoaded}]]
         /\ plan' \in [Sessions -> [Invoices -> Nat]]
         /\ summed' \in [Sessions -> Nat]
<1>1. NothingLoaded \in [Invoices -> Row \cup {NotLoaded}] /\ NoPlan \in [Invoices -> Nat]
  BY DEF NothingLoaded, NoPlan
<1> QED BY <1>1 DEF End, RowsOK

---------------------------------------------------------------------------
(* A step that commits nothing.                                            *)

Others(s) == \A t \in Sessions \ {s} :
               Same(t) /\ \A i \in Invoices : lock[i] = t => lock'[i] = t

LEMMA NothingCommitted ==
  ASSUME LedgerInv, RowsOK', NEW s \in Sessions, Session(s)', Others(s),
         UNCHANGED <<db, overtaken>>
  PROVE  LedgerInv'
<1>1. InvoiceAgrees'
  BY DEF LedgerInv, InvoiceAgrees, db
<1>2. ASSUME NEW t \in Sessions PROVE Session(t)'
  <2>1. CASE t = s
    BY <2>1
  <2>2. CASE t # s
    <3>1. Respects(t)
      <4>1. ASSUME NEW i \in Invoices
            PROVE  Settled(i)' = Settled(i) /\ Settled(i) <= Settled(i)
        BY DEF Settled, db, LedgerInv, RowsOK
      <4> QED BY <4>1, <2>2 DEF Respects, Others, db
    <3> QED BY <2>2, <3>1, OthersStay DEF Others, LedgerInv
  <2> QED BY <2>1, <2>2
<1> QED BY <1>1, <1>2 DEF LedgerInv

LEMMA RecordPaymentInv ==
  ASSUME LedgerInv, NEW s \in Sessions, RecordPayment(s) PROVE LedgerInv'
<1>1. RowsOK'
  BY DEF LedgerInv, RowsOK, RecordPayment, Begin, db
<1>2. Others(s)
  BY DEF LedgerInv, RowsOK, RecordPayment, Begin, Others, Same
<1>3. pc[s] = "idle" /\ pc'[s] = "paying" /\ UNCHANGED <<db, before, after, plan, overtaken>>
  BY DEF LedgerInv, RowsOK, RecordPayment, Begin
<1>4. Session(s)'
  <2>1. Session(s)
    BY DEF LedgerInv
  <2>2. LoadedEarlier(s)'
    BY <1>3, <2>1 DEF Session, LoadedEarlier, Loaded, Settled, db
  <2>3. Paying(s)' /\ Crediting(s)' /\ Amending(s)'
    BY <1>3, <2>1 DEF Session, Paying, Crediting, Amending
  <2> QED BY <2>2, <2>3 DEF Session
<1> QED BY <1>1, <1>2, <1>3, <1>4, NothingCommitted

\* Loading an invoice: what was loaded is the row of now.
LEMMA LoadedNow ==
  ASSUME LedgerInv, NEW s \in Sessions, NEW i \in Invoices, Load(s, i), UNCHANGED <<db, overtaken>>
  PROVE  /\ LoadedEarlier(s)' /\ before'[s][i] = invoice[i] /\ invoice[i] \in Row
         /\ before' \in [Sessions -> [Invoices -> Row \cup {NotLoaded}]]
<1>1. before' \in [Sessions -> [Invoices -> Row \cup {NotLoaded}]]
  BY DEF LedgerInv, RowsOK, Load
<1>2. before'[s][i] = invoice[i] /\ invoice[i] \in Row
  BY DEF LedgerInv, RowsOK, Load
<1>3. ASSUME NEW j \in Invoices, j \notin overtaken, before'[s][j] # NotLoaded
      PROVE  Earlier(before'[s][j], invoice[j], Settled(j))
  <2>1. CASE j = i
    <3>1. Agrees(invoice[j], Settled(j)) /\ Settled(j) \in Nat
      BY <1>3 DEF LedgerInv, InvoiceAgrees, RowsOK, Settled
    <3> QED BY <2>1, <1>2, <3>1, EarlierNow
  <2>2. CASE j # i
    <3>1. before'[s][j] = before[s][j]
      BY <2>2 DEF Load, LedgerInv, RowsOK
    <3> QED BY <1>3, <3>1 DEF LedgerInv, Session, LoadedEarlier, Loaded
  <2> QED BY <2>1, <2>2
<1>4. LoadedEarlier(s)'
  BY <1>3 DEF LoadedEarlier, Loaded, Settled, db
<1> QED BY <1>1, <1>2, <1>4

LEMMA SyncPaymentInv ==
  ASSUME LedgerInv, NEW s \in Sessions, SyncPayment(s) PROVE LedgerInv'
<1>1. /\ pc[s] = "idle" /\ pc' = [pc EXCEPT ![s] = "paying"]
      /\ UNCHANGED <<db, lock, share, target, after, plan, summed, overtaken>>
      /\ amount' \in [Sessions -> Nat]
      /\ receipt' \in [Sessions -> Receipts \cup {NoReceipt}]
      /\ begun' \in 0 .. MaxTransactions
      /\ \A t \in Sessions \ {s} : amount'[t] = amount[t]
  BY DEF LedgerInv, RowsOK, SyncPayment, Begin
<1>2. before' = before \/ \E i \in Invoices : Load(s, i)
  BY DEF SyncPayment
<1>3. LoadedEarlier(s)' /\ before' \in [Sessions -> [Invoices -> Row \cup {NotLoaded}]]
  <2>1. CASE before' = before
    BY <1>1, <2>1 DEF LedgerInv, RowsOK, Session, LoadedEarlier, Loaded, Settled, db
  <2>2. CASE \E i \in Invoices : Load(s, i)
    BY <1>1, <2>2, LoadedNow
  <2> QED BY <1>2, <2>1, <2>2
<1>4. \A t \in Sessions \ {s} : before'[t] = before[t]
  BY <1>2 DEF Load, LedgerInv, RowsOK
<1>5. RowsOK'
  BY <1>1, <1>3 DEF LedgerInv, RowsOK, db
<1>6. Others(s)
  BY <1>1, <1>4 DEF LedgerInv, RowsOK, Others, Same
<1>7. Session(s)'
  BY <1>1, <1>3 DEF LedgerInv, RowsOK, Session, Paying, Crediting, Amending
<1> QED BY <1>1, <1>5, <1>6, <1>7, NothingCommitted

\* Every plan gives each invoice at most what is open of it.
LEMMA PlansAreShares ==
  ASSUME NEW a, NEW out, NEW instr, NEW f \in Plans(a, out, instr) PROVE f \in Shares(a, out)
BY DEF Plans, ByInstruction, OldestFirst

LEMMA ApplyInv ==
  ASSUME LedgerInv, NEW s \in Sessions, Apply(s) PROVE LedgerInv'
<1>1. PICK f \in Plans(amount[s], Outstanding(s), instructed[s]) :
        /\ plan' = [plan EXCEPT ![s] = f]
        /\ after' = [after EXCEPT ![s] =
             [i \in Invoices |-> IF f[i] > 0
                                 THEN Recomputed(SeenBy(s, i), paid[i] + credited[i] + f[i])
                                 ELSE NotLoaded]]
  BY DEF Apply
<1>2. /\ f \in [Invoices -> Nat]
      /\ \A i \in Invoices : f[i] > 0 =>
           i \in Billed /\ f[i] <= SeenBy(s, i).net - paid[i] - credited[i]
  <2>1. amount[s] \in Nat /\ f \in Shares(amount[s], Outstanding(s))
    BY <1>1, PlansAreShares DEF LedgerInv, RowsOK
  <2> QED BY <2>1 DEF Shares, Outstanding
<1>3. /\ pc[s] = "paying" /\ pc' = [pc EXCEPT ![s] = "paid"]
      /\ UNCHANGED <<db, share, amount, instructed, receipt, target, summed, overtaken, begun>>
      /\ lock' = [i \in Invoices |-> IF i \in Billed THEN s ELSE lock[i]]
      /\ before' = [before EXCEPT ![s] =
           [i \in Invoices |-> IF i \in Billed THEN SeenBy(s, i) ELSE @[i]]]
      /\ \A i \in Billed : lock[i] = NoSession
  BY DEF Apply, Lockable
<1>4. \A i \in Invoices : SeenBy(s, i) \in Row
  BY DEF SeenBy, LedgerInv, RowsOK
<1>5. ASSUME NEW i \in Invoices, f[i] > 0
      PROVE  Recomputed(SeenBy(s, i), paid[i] + credited[i] + f[i]) \in Row
  <2>1. SeenBy(s, i).net \in Nat /\ paid[i] \in Nat /\ credited[i] \in Nat /\ f[i] \in Nat
    BY <1>2, <1>4 DEF Row, LedgerInv, RowsOK
  <2>2. paid[i] + credited[i] + f[i] <= SeenBy(s, i).net
    BY <1>2, <1>5, <2>1
  <2> QED BY <2>1, <2>2, <1>4, RecomputedRow
<1>6. /\ before' \in [Sessions -> [Invoices -> Row \cup {NotLoaded}]]
      /\ after' \in [Sessions -> [Invoices -> Row \cup {NotLoaded}]]
      /\ plan' \in [Sessions -> [Invoices -> Nat]]
  <2>1. [i \in Invoices |-> IF i \in Billed THEN SeenBy(s, i) ELSE before[s][i]]
          \in [Invoices -> Row \cup {NotLoaded}]
    BY <1>4 DEF LedgerInv, RowsOK
  <2>2. [i \in Invoices |-> IF f[i] > 0
                            THEN Recomputed(SeenBy(s, i), paid[i] + credited[i] + f[i])
                            ELSE NotLoaded] \in [Invoices -> Row \cup {NotLoaded}]
    BY <1>5
  <2> QED BY <1>1, <1>2, <1>3, <2>1, <2>2 DEF LedgerInv, RowsOK
<1>7. RowsOK'
  BY <1>3, <1>6 DEF LedgerInv, RowsOK, db
<1>8. Others(s)
  BY <1>1, <1>3 DEF LedgerInv, RowsOK, Others, Same
<1>9. /\ \A i \in Invoices : before'[s][i] = IF i \in Billed THEN SeenBy(s, i) ELSE before[s][i]
      /\ \A i \in Invoices : after'[s][i] =
           IF f[i] > 0 THEN Recomputed(SeenBy(s, i), paid[i] + credited[i] + f[i]) ELSE NotLoaded
      /\ plan'[s] = f /\ pc'[s] = "paid"
  BY <1>1, <1>3 DEF LedgerInv, RowsOK
<1>10. LoadedEarlier(s)'
  <2> SUFFICES ASSUME NEW i \in Invoices, i \notin overtaken, before'[s][i] # NotLoaded
               PROVE  Earlier(before'[s][i], invoice[i], Settled(i))
    BY <1>3 DEF LoadedEarlier, Loaded, Settled, db
  <2>1. Agrees(invoice[i], Settled(i)) /\ Settled(i) \in Nat /\ invoice[i] \in Row
    BY DEF LedgerInv, InvoiceAgrees, RowsOK, Settled
  <2>2. before'[s][i] = before[s][i] \/ before'[s][i] = invoice[i]
    BY <1>9 DEF SeenBy
  <2>3. CASE before'[s][i] = before[s][i]
    BY <2>3 DEF LedgerInv, Session, LoadedEarlier, Loaded
  <2>4. CASE before'[s][i] = invoice[i]
    BY <2>1, <2>4, EarlierNow
  <2> QED BY <2>2, <2>3, <2>4
<1>11. Paying(s)'
  <2> SUFFICES ASSUME NEW i \in Invoices
               PROVE  /\ f[i] > 0 =>
                           /\ lock'[i] = s /\ before'[s][i] # NotLoaded
                           /\ after'[s][i] =
                                Recomputed(before'[s][i], paid[i] + credited[i] + f[i])
                      /\ f[i] = 0 => after'[s][i] = NotLoaded
    BY <1>3, <1>9 DEF Paying, Loaded, Settled, db
  <2>1. CASE f[i] > 0
    <3>1. i \in Billed /\ SeenBy(s, i) \in Row
      BY <1>2, <1>4, <2>1
    <3>2. SeenBy(s, i) # NotLoaded
      BY <3>1, RowFields
    <3> QED BY <1>2, <1>3, <1>9, <2>1, <3>1, <3>2
  <2>2. CASE ~(f[i] > 0)
    BY <1>9, <2>2
  <2> QED BY <2>1, <2>2
<1>12. Crediting(s)' /\ Amending(s)'
  BY <1>9 DEF Crediting, Amending
<1> QED BY <1>3, <1>7, <1>8, <1>10, <1>11, <1>12, NothingCommitted DEF Session

LEMMA StartNoteInv ==
  ASSUME LedgerInv, NEW s \in Sessions, StartNote(s) PROVE LedgerInv'
<1>1. PICK a \in Amounts, i \in Invoices :
        /\ Begin(s, "crediting", a) /\ target' = [target EXCEPT ![s] = i] /\ Load(s, i)
        /\ UNCHANGED <<db, lock, share, instructed, receipt, after, plan, summed, overtaken>>
  BY DEF StartNote
<1>2. /\ pc[s] = "idle" /\ pc' = [pc EXCEPT ![s] = "crediting"]
      /\ amount' = [amount EXCEPT ![s] = a] /\ begun' \in 0 .. MaxTransactions
  BY <1>1 DEF Begin, LedgerInv, RowsOK
<1>3. /\ LoadedEarlier(s)' /\ before'[s][i] = invoice[i] /\ invoice[i] \in Row
      /\ before' \in [Sessions -> [Invoices -> Row \cup {NotLoaded}]]
  BY <1>1, LoadedNow
<1>4. RowsOK'
  BY <1>1, <1>2, <1>3 DEF LedgerInv, RowsOK, db
<1>5. Others(s)
  BY <1>1, <1>2 DEF LedgerInv, RowsOK, Others, Same, Load
<1>6. Crediting(s)' /\ Amending(s)'
  <2>1. /\ pc'[s] = "crediting" /\ target'[s] = i /\ amount'[s] = a /\ a > 0
        /\ before'[s][i] # NotLoaded
    BY <1>1, <1>2, <1>3, RowFields DEF LedgerInv, RowsOK
  <2> QED BY <2>1 DEF Crediting, Amending, Loaded
<1>7. Paying(s)'
  BY <1>1, <1>2 DEF LedgerInv, RowsOK, Session, Paying
<1> QED BY <1>1, <1>3, <1>4, <1>5, <1>6, <1>7, NothingCommitted DEF Session

LEMMA InsertNoteInv ==
  ASSUME LedgerInv, NEW s \in Sessions, InsertNote(s) PROVE LedgerInv'
<1> DEFINE i == target[s]
           settled == paid[i] + credited[i] + amount[s]
<1>1. /\ pc[s] = "crediting" /\ pc' = [pc EXCEPT ![s] = "credited"]
      /\ settled <= before[s][i].net
      /\ share' = [share EXCEPT ![i] = @ \cup {s}]
      /\ after' = [after EXCEPT ![s][i] = Recomputed(before[s][i], settled)]
      /\ summed' = [summed EXCEPT ![s] = paid[i] + credited[i]]
      /\ UNCHANGED <<db, lock, amount, instructed, receipt, target, before, plan, overtaken, begun>>
  BY DEF InsertNote
<1>2. /\ i \in Invoices /\ amount[s] > 0 /\ before[s][i] # NotLoaded /\ before[s][i] \in Row
      /\ settled \in Nat /\ paid[i] + credited[i] \in Nat
  BY <1>1 DEF LedgerInv, RowsOK, Session, Crediting, Loaded
<1>3. Recomputed(before[s][i], settled) \in Row
  BY <1>1, <1>2, RecomputedRow
<1>4. RowsOK'
  <2> HIDE DEF settled, i
  <2>1. after' \in [Sessions -> [Invoices -> Row \cup {NotLoaded}]]
    BY <1>1, <1>2, <1>3 DEF LedgerInv, RowsOK
  <2>2. share' \in [Invoices -> SUBSET Sessions] /\ summed' \in [Sessions -> Nat]
    BY <1>1, <1>2 DEF LedgerInv, RowsOK
  <2> QED BY <1>1, <2>1, <2>2 DEF LedgerInv, RowsOK, db
<1>5. Others(s)
  BY <1>1 DEF LedgerInv, RowsOK, Others, Same
<1>6. /\ after'[s][i] = Recomputed(before[s][i], settled) /\ pc'[s] = "credited"
      /\ summed'[s] = paid[i] + credited[i]
  BY <1>1, <1>2 DEF LedgerInv, RowsOK
<1>7. Session(s)'
  <2>1. Session(s)
    BY DEF LedgerInv
  <2>2. LoadedEarlier(s)'
    BY <1>1, <2>1 DEF Session, LoadedEarlier, Loaded, Settled, db
  <2>3. Paying(s)'
    BY <1>1, <1>6, <2>1 DEF Session, Paying
  <2>4. Crediting(s)' /\ Amending(s)'
    BY <1>1, <1>2, <1>6 DEF Crediting, Amending, Loaded
  <2> QED BY <2>2, <2>3, <2>4 DEF Session
<1> QED BY <1>1, <1>4, <1>5, <1>7, NothingCommitted

\* Amendments and voids begin alike: with a row that is made of the one just loaded.
LEMMA AmendmentStarts ==
  ASSUME LedgerInv, NEW s \in Sessions, NEW i \in Invoices, NEW new \in Row,
         Begin(s, "amending", 0), target' = [target EXCEPT ![s] = i], Load(s, i),
         after' = [after EXCEPT ![s][i] = new],
         summed' = [summed EXCEPT ![s] = paid[i] + credited[i]],
         Amendment(invoice[i], new, paid[i] + credited[i]),
         UNCHANGED <<db, lock, share, instructed, receipt, plan, overtaken>>
  PROVE  LedgerInv'
<1>1. /\ pc[s] = "idle" /\ pc' = [pc EXCEPT ![s] = "amending"]
      /\ amount' = [amount EXCEPT ![s] = 0] /\ begun' \in 0 .. MaxTransactions
  BY DEF Begin, LedgerInv, RowsOK
<1>2. /\ LoadedEarlier(s)' /\ before'[s][i] = invoice[i] /\ invoice[i] \in Row
      /\ before' \in [Sessions -> [Invoices -> Row \cup {NotLoaded}]]
  BY LoadedNow
<1>3. RowsOK'
  <2>1. after' \in [Sessions -> [Invoices -> Row \cup {NotLoaded}]]
    BY DEF LedgerInv, RowsOK
  <2>2. summed' \in [Sessions -> Nat]
    BY DEF LedgerInv, RowsOK
  <2> QED BY <1>1, <1>2, <2>1, <2>2 DEF LedgerInv, RowsOK, db
<1>4. Others(s)
  BY <1>1 DEF LedgerInv, RowsOK, Others, Same, Load
<1>5. /\ target'[s] = i /\ after'[s][i] = new /\ summed'[s] = Settled(i) /\ pc'[s] = "amending"
      /\ before'[s][i] # NotLoaded
  BY <1>1, <1>2, RowFields DEF LedgerInv, RowsOK, Settled
<1>6. Amending(s)'
  <2>1. i \notin overtaken => Agrees(invoice[i], Settled(i))
    BY DEF LedgerInv, InvoiceAgrees, Settled
  <2>2. Amendment(invoice[i], new, Settled(i))
    BY DEF Settled
  <2> QED BY <1>2, <1>5, <2>1, <2>2 DEF Amending, Loaded
<1>7. Paying(s)' /\ Crediting(s)'
  BY <1>1, <1>5 DEF LedgerInv, RowsOK, Session, Paying, Crediting
<1> QED BY <1>2, <1>3, <1>4, <1>6, <1>7, NothingCommitted DEF Session

LEMMA AmendInv ==
  ASSUME LedgerInv, NEW s \in Sessions, Amend(s) PROVE LedgerInv'
<1>1. PICK i \in Invoices, n \in Nets :
        /\ invoice[i].status = "CANCELLED" \/ paid[i] + credited[i] <= n
        /\ Begin(s, "amending", 0) /\ target' = [target EXCEPT ![s] = i] /\ Load(s, i)
        /\ after' = [after EXCEPT ![s][i] =
             Recomputed([invoice[i] EXCEPT !.net = n], paid[i] + credited[i])]
        /\ summed' = [summed EXCEPT ![s] = paid[i] + credited[i]]
        /\ UNCHANGED <<db, lock, share, instructed, receipt, plan, overtaken>>
  BY DEF Amend
<1> DEFINE old == [invoice[i] EXCEPT !.net = n]
<1>2. /\ invoice[i] \in Row /\ n \in Nat /\ paid[i] + credited[i] \in Nat
  BY DEF LedgerInv, RowsOK
<1>3. old \in Row /\ old.net = n /\ old.status = invoice[i].status
  BY <1>2 DEF Row
<1>4. Recomputed(old, paid[i] + credited[i]) \in Row
  <2> HIDE DEF old
  <2> QED BY <1>1, <1>2, <1>3, RecomputedRow
<1>5. Amendment(invoice[i], Recomputed(old, paid[i] + credited[i]), paid[i] + credited[i])
  BY DEF Amendment
<1> HIDE DEF old
<1>6. after' = [after EXCEPT ![s][i] = Recomputed(old, paid[i] + credited[i])]
  BY <1>1 DEF old
<1> QED BY <1>1, <1>4, <1>5, <1>6, AmendmentStarts

LEMMA VoidInv ==
  ASSUME LedgerInv, NEW s \in Sessions, Void(s) PROVE LedgerInv'
<1>1. PICK i \in Invoices :
        /\ Begin(s, "amending", 0) /\ target' = [target EXCEPT ![s] = i] /\ Load(s, i)
        /\ after' = [after EXCEPT ![s][i] =
             [invoice[i] EXCEPT !.status = "CANCELLED", !.outstanding = 0]]
        /\ summed' = [summed EXCEPT ![s] = paid[i] + credited[i]]
        /\ UNCHANGED <<db, lock, share, instructed, receipt, plan, overtaken>>
  BY DEF Void
<1> DEFINE new == [invoice[i] EXCEPT !.status = "CANCELLED", !.outstanding = 0]
<1>2. invoice[i] \in Row
  BY DEF LedgerInv, RowsOK
<1>3. new \in Row
  BY <1>2 DEF Row, Statuses
<1>4. Amendment(invoice[i], new, paid[i] + credited[i])
  BY DEF Amendment
<1>5. after' = [after EXCEPT ![s][i] = new]
  BY <1>1
<1> HIDE DEF new
<1> QED BY <1>1, <1>3, <1>4, <1>5, AmendmentStarts

LEMMA RollBackInv ==
  ASSUME LedgerInv, NEW s \in Sessions, RollBack(s) PROVE LedgerInv'
<1>1. RowsOK /\ End(s) /\ UNCHANGED <<db, overtaken, begun>>
  BY DEF RollBack, LedgerInv
<1>2. RowsOK'
  BY <1>1, EndedRows DEF RowsOK, db
<1>3. Session(s)' /\ Others(s)
  BY <1>1, EndedSession DEF Others
<1> QED BY <1>1, <1>2, <1>3, NothingCommitted

---------------------------------------------------------------------------
(* A step that commits.                                                    *)

\* What a commit of s may do to an invoice: it is as it was, or more is settled of it,
\* it agrees, and it stays cancelled, or it was overtaken.
Moves(i) ==
  /\ Settled(i) <= Settled(i)'
  /\ i \notin overtaken' =>
       /\ Agrees(invoice'[i], Settled(i)')
       /\ invoice[i].status = "CANCELLED" => invoice'[i].status = "CANCELLED"

LEMMA Committed ==
  ASSUME LedgerInv, RowsOK', NEW s \in Sessions, End(s), overtaken \subseteq overtaken',
         \A i \in Invoices : Moves(i),
         \A i \in Invoices : lock[i] \in Sessions \ {s} => Settled(i)' = Settled(i)
  PROVE  LedgerInv'
<1>1. InvoiceAgrees'
  BY DEF InvoiceAgrees, Moves, Settled
<1>2. RowsOK /\ Session(s)' /\ Others(s)
  BY EndedSession DEF LedgerInv, Others
<1>3. ASSUME NEW t \in Sessions \ {s} PROVE Session(t)'
  <2>1. Respects(t)
    BY <1>2, <1>3 DEF Respects, Others, Moves
  <2> QED BY <1>2, <2>1, OthersStay DEF Others, LedgerInv
<1> QED BY <1>1, <1>2, <1>3 DEF LedgerInv

\* An invoice that a commit leaves alone.
LEMMA Untouched ==
  ASSUME LedgerInv, NEW i \in Invoices, overtaken \subseteq overtaken',
         invoice'[i] = invoice[i], Settled(i)' = Settled(i)
  PROVE  Moves(i)
<1>1. Settled(i) \in Nat /\ (i \notin overtaken => Agrees(invoice[i], Settled(i)))
  BY DEF LedgerInv, RowsOK, InvoiceAgrees, Settled
<1> QED BY <1>1 DEF Moves

\* An invoice of which a payment or a credit note settles x more.
LEMMA Settling ==
  ASSUME LedgerInv, NEW s \in Sessions, NEW i \in Invoices, NEW x \in Nat \ {0},
         overtaken \subseteq overtaken', Loaded(s, i), after[s][i] # NotLoaded,
         invoice'[i] = Written(s, i), Settled(i)' = Settled(i) + x,
         i \notin overtaken' =>
           ~Amended(s, i) /\ after[s][i] = Recomputed(before[s][i], Settled(i) + x)
  PROVE  Moves(i)
<1> DEFINE old == before[s][i]
           new == after[s][i]
<1>1. /\ old \in Row /\ new \in Row /\ invoice[i] \in Row /\ Settled(i) \in Nat
      /\ invoice'[i] = Merge(invoice[i], old, new)
  BY DEF LedgerInv, RowsOK, Settled, Loaded, Written
<1>2. ASSUME i \notin overtaken'
      PROVE  /\ Agrees(invoice'[i], Settled(i)')
             /\ invoice[i].status = "CANCELLED" => invoice'[i].status = "CANCELLED"
  <2>1. /\ Agrees(invoice[i], Settled(i)) /\ Earlier(old, invoice[i], Settled(i))
        /\ old.net = invoice[i].net
        /\ old.status = "CANCELLED" \/ invoice[i].status # "CANCELLED"
        /\ new = Recomputed(old, Settled(i) + x)
    BY <1>2 DEF LedgerInv, InvoiceAgrees, Session, LoadedEarlier, Amended, Settled
  <2>2. Agrees(invoice'[i], Settled(i)')
    <3> HIDE DEF old, new
    <3> QED BY <1>1, <2>1, SettlingMore
  <2>3. ASSUME invoice[i].status = "CANCELLED" PROVE invoice'[i].status = "CANCELLED"
    <3>1. old.status = "CANCELLED"
      BY <2>1, <2>3
    <3>2. new.status = "CANCELLED"
      BY <1>1, <2>1, <3>1 DEF Recomputed, Row
    <3> QED BY <1>1, <2>3, <3>1, <3>2 DEF Merge
  <2> QED BY <2>2, <2>3
<1>3. Settled(i) <= Settled(i)'
  BY <1>1
<1> QED BY <1>2, <1>3 DEF Moves

LEMMA CommitPaymentInv ==
  ASSUME LedgerInv, NEW s \in Sessions, CommitPayment(s) PROVE LedgerInv'
<1>1. /\ pc[s] = "paid" /\ End(s)
      /\ invoice' = [i \in Invoices |-> Written(s, i)]
      /\ paid' = [i \in Invoices |-> paid[i] + plan[s][i]] /\ UNCHANGED <<credited, begun>>
      /\ received' = received + amount[s]
      /\ banked' = [r \in Receipts |-> IF receipt[s] = r THEN banked[r] + 1 ELSE banked[r]]
      /\ overtaken' = overtaken \cup { i \in Invoices : plan[s][i] > 0 /\ Amended(s, i) }
  BY DEF CommitPayment
<1>2. RowsOK /\ Session(s)
  BY DEF LedgerInv
<1>3. ASSUME NEW i \in Invoices
      PROVE  /\ plan[s][i] \in Nat /\ Settled(i) \in Nat
             /\ Settled(i)' = Settled(i) + plan[s][i]
             /\ plan[s][i] = 0 => after[s][i] = NotLoaded
             /\ plan[s][i] > 0 =>
                  /\ lock[i] = s /\ Loaded(s, i) /\ after[s][i] # NotLoaded
                  /\ after[s][i] = Recomputed(before[s][i], Settled(i) + plan[s][i])
  <2>1. plan[s][i] \in Nat /\ paid[i] \in Nat /\ credited[i] \in Nat
    BY <1>2 DEF RowsOK
  <2>2. Settled(i)' = Settled(i) + plan[s][i]
    BY <1>1, <2>1 DEF Settled
  <2>3. ASSUME plan[s][i] > 0 PROVE after[s][i] # NotLoaded
    <3>1. before[s][i] \in Row /\ after[s][i] = Recomputed(before[s][i], Settled(i) + plan[s][i])
      BY <1>2, <2>3 DEF RowsOK, Session, Paying, Loaded
    <3>2. after[s][i].status # "NONE"
      BY <3>1 DEF Recomputed, Row, Statuses, StatusOf
    <3> QED BY <3>2 DEF NotLoaded
  <2> QED BY <1>1, <1>2, <2>1, <2>2, <2>3 DEF Session, Paying, Settled
<1>4. invoice' \in [Invoices -> Row]
  <2>1. ASSUME NEW i \in Invoices PROVE Written(s, i) \in Row
    <3>1. CASE after[s][i] = NotLoaded
      BY <1>2, <3>1 DEF Written, RowsOK
    <3>2. CASE after[s][i] # NotLoaded
      <4>1. before[s][i] \in Row /\ after[s][i] \in Row /\ invoice[i] \in Row
        BY <1>2, <1>3, <3>2 DEF RowsOK, Loaded
      <4> QED BY <3>2, <4>1, MergedRow DEF Written
    <3> QED BY <3>1, <3>2
  <2> QED BY <1>1, <2>1
<1>5. RowsOK'
  <2>1. paid' \in [Invoices -> Nat] /\ received' \in Nat /\ banked' \in [Receipts -> Nat]
    BY <1>1, <1>2 DEF RowsOK
  <2>2. overtaken' \subseteq Invoices
    BY <1>1, <1>2 DEF RowsOK
  <2> QED BY <1>1, <1>2, <1>4, <2>1, <2>2, EndedRows DEF RowsOK
<1>6. ASSUME NEW i \in Invoices PROVE Moves(i)
  <2>1. CASE plan[s][i] = 0
    <3>1. invoice'[i] = invoice[i] /\ Settled(i)' = Settled(i)
      BY <1>1, <1>3, <2>1 DEF Written
    <3> QED BY <1>1, <3>1, Untouched
  <2>2. CASE plan[s][i] > 0
    <3>1. /\ i \notin overtaken' => ~Amended(s, i)
          /\ invoice'[i] = Written(s, i) /\ overtaken \subseteq overtaken'
      BY <1>1, <2>2
    <3> QED BY <1>3, <2>2, <3>1, Settling
  <2> QED BY <1>3, <2>1, <2>2
<1>7. \A i \in Invoices : lock[i] \in Sessions \ {s} => Settled(i)' = Settled(i)
  BY <1>3
<1> QED BY <1>1, <1>5, <1>6, <1>7, Committed

LEMMA CommitNoteInv ==
  ASSUME LedgerInv, NEW s \in Sessions, CommitNote(s) PROVE LedgerInv'
<1>0. PICK i \in Invoices : i = target[s]
  BY DEF LedgerInv, RowsOK
<1>1. /\ pc[s] = "credited" /\ lock[i] = NoSession /\ End(s)
      /\ invoice' = [invoice EXCEPT ![i] = Written(s, i)]
      /\ credited' = [credited EXCEPT ![i] = @ + amount[s]]
      /\ overtaken' = overtaken \cup Overtaken(s, i)
      /\ UNCHANGED <<paid, received, onAccount, banked, begun>>
  BY <1>0 DEF CommitNote
<1>2. RowsOK /\ Session(s) /\ amount[s] \in Nat \ {0}
  BY <1>1 DEF LedgerInv, RowsOK, Session, Crediting
<1>3. /\ before[s][i] \in Row /\ Loaded(s, i)
      /\ after[s][i] = Recomputed(before[s][i], summed[s] + amount[s])
  BY <1>0, <1>1, <1>2 DEF RowsOK, Session, Crediting, Loaded
<1>4. after[s][i] \in Row /\ after[s][i] # NotLoaded
  <2>1. after[s][i].status # "NONE"
    BY <1>3 DEF Recomputed, Row, Statuses, StatusOf
  <2>2. after[s][i] # NotLoaded
    BY <2>1 DEF NotLoaded
  <2> QED BY <1>2, <2>2 DEF RowsOK
<1>5. Written(s, i) \in Row
  <2>1. invoice[i] \in Row
    BY <1>2 DEF RowsOK
  <2> QED BY <1>3, <1>4, <2>1, MergedRow DEF Written
<1>6. overtaken \subseteq overtaken' /\ overtaken' \subseteq Invoices
  BY <1>1, <1>2 DEF Overtaken, RowsOK
<1>7. RowsOK'
  <2>1. credited' \in [Invoices -> Nat] /\ invoice' \in [Invoices -> Row]
    BY <1>1, <1>2, <1>5 DEF RowsOK
  <2> QED BY <1>1, <1>2, <1>6, <2>1, EndedRows DEF RowsOK
<1>8. Settled(i)' = Settled(i) + amount[s] /\ Settled(i) \in Nat
  BY <1>1, <1>2 DEF Settled, RowsOK
<1>9. ASSUME NEW j \in Invoices, j # i PROVE invoice'[j] = invoice[j] /\ Settled(j)' = Settled(j)
  BY <1>1, <1>2, <1>9 DEF Settled, RowsOK
<1>10. ASSUME NEW j \in Invoices PROVE Moves(j)
  <2>1. CASE j = i
    <3>1. i \notin overtaken' => ~Amended(s, i) /\ summed[s] = Settled(i)
      BY <1>1 DEF Overtaken, Settled
    <3>2. invoice'[i] = Written(s, i)
      BY <1>1, <1>2 DEF RowsOK
    <3> QED BY <1>2, <1>3, <1>4, <1>6, <1>8, <2>1, <3>1, <3>2, Settling
  <2>2. CASE j # i
    BY <1>6, <1>9, <2>2, Untouched
  <2> QED BY <2>1, <2>2
<1>11. \A j \in Invoices : lock[j] \in Sessions \ {s} => Settled(j)' = Settled(j)
  BY <1>1, <1>9
<1> QED BY <1>1, <1>6, <1>7, <1>10, <1>11, Committed

\* What an amendment makes of a row agrees with the sums it was made from, and is
\* cancelled if the row was.
LEMMA AmendmentAgrees ==
  ASSUME NEW old \in Row, NEW settled \in Nat, NEW new \in Row, Amendment(old, new, settled)
  PROVE  Agrees(new, settled) /\ (old.status = "CANCELLED" => new.status = "CANCELLED")
<1>1. CASE new = [old EXCEPT !.status = "CANCELLED", !.outstanding = 0]
  BY <1>1 DEF Agrees, Row
<1>2. CASE \E n \in Nets : new = Recomputed([old EXCEPT !.net = n], settled)
  <2>1. PICK n \in Nets : new = Recomputed([old EXCEPT !.net = n], settled)
    BY <1>2
  <2> DEFINE row == [old EXCEPT !.net = n]
  <2>2. row \in Row /\ row.status = old.status
    BY DEF Row
  <2> HIDE DEF row
  <2>3. new = Recomputed(row, settled)
    BY <2>1 DEF row
  <2>4. CASE row.status = "CANCELLED"
    <3>1. new = [row EXCEPT !.outstanding = 0]
      BY <2>3, <2>4 DEF Recomputed
    <3> QED BY <2>2, <2>4, <3>1 DEF Agrees, Row
  <2>5. CASE row.status # "CANCELLED"
    <3>1. /\ new.net = row.net /\ new.outstanding = row.net - settled
          /\ new.status = StatusOf(row.net, row.net - settled)
      BY <2>2, <2>3, <2>5 DEF Recomputed, Row
    <3> QED BY <2>2, <2>5, <3>1 DEF Agrees, StatusOf
  <2> QED BY <2>4, <2>5
<1> QED BY <1>1, <1>2 DEF Amendment

LEMMA CommitAmendmentInv ==
  ASSUME LedgerInv, NEW s \in Sessions, CommitAmendment(s) PROVE LedgerInv'
<1> DEFINE i == target[s]
           old == before[s][i]
           new == after[s][i]
<1>1. /\ pc[s] = "amending" /\ End(s)
      /\ invoice' = [invoice EXCEPT ![i] = Written(s, i)]
      /\ overtaken' = overtaken \cup Overtaken(s, i)
      /\ UNCHANGED <<paid, credited, received, onAccount, banked, begun>>
  BY DEF CommitAmendment
<1>2. /\ RowsOK /\ i \in Invoices /\ summed[s] \in Nat /\ invoice[i] \in Row
      /\ old \in Row /\ Loaded(s, i) /\ Amendment(old, new, summed[s])
      /\ i \notin overtaken => Agrees(old, summed[s])
  BY <1>1 DEF LedgerInv, RowsOK, Session, Amending, Loaded
<1>3. new \in Row /\ new # NotLoaded
  <2> HIDE DEF old
  <2>1. new.status # "NONE"
    BY <1>2 DEF Amendment, Recomputed, Row, Statuses, StatusOf
  <2>2. new # NotLoaded
    BY <2>1 DEF NotLoaded
  <2> QED BY <1>2, <2>2 DEF RowsOK
<1>4. Written(s, i) = Merge(invoice[i], old, new) /\ Written(s, i) \in Row
  BY <1>2, <1>3, MergedRow DEF Written
<1>5. overtaken \subseteq overtaken' /\ overtaken' \subseteq Invoices
  BY <1>1, <1>2 DEF Overtaken, RowsOK
<1>6. RowsOK'
  <2>1. invoice' \in [Invoices -> Row]
    BY <1>1, <1>2, <1>4 DEF RowsOK
  <2> QED BY <1>1, <1>2, <1>5, <2>1, EndedRows DEF RowsOK
<1>7. \A j \in Invoices : Settled(j)' = Settled(j) /\ Settled(j) \in Nat
  BY <1>1, <1>2 DEF Settled, RowsOK
<1>8. ASSUME NEW j \in Invoices PROVE Moves(j)
  <2>1. CASE j = i /\ i \notin overtaken'
    <3>1. /\ ~Amended(s, i) /\ summed[s] = Settled(i) /\ i \notin overtaken
      BY <1>1, <2>1 DEF Overtaken, Settled
    <3>2. /\ Agrees(invoice[i], Settled(i)) /\ Earlier(old, invoice[i], Settled(i))
          /\ old.net = invoice[i].net
          /\ old.status = "CANCELLED" \/ invoice[i].status # "CANCELLED"
      BY <1>2, <3>1 DEF LedgerInv, InvoiceAgrees, Session, LoadedEarlier, Amended, Settled
    <3>3. old.status = "CANCELLED" <=> invoice[i].status = "CANCELLED"
      BY <3>2 DEF Earlier
    <3>4. invoice[i] = old
      <4> HIDE DEF old, i
      <4> QED BY <1>2, <3>1, <3>2, <3>3, SameRow
    <3>5. invoice'[i] = new
      <4>1. invoice'[i] = Merge(old, old, new)
        BY <1>1, <1>2, <1>4, <3>4 DEF RowsOK
      <4> HIDE DEF old, new
      <4> QED BY <1>2, <1>3, <4>1, MergeUnchanged
    <3>6. /\ Agrees(new, Settled(i))
          /\ old.status = "CANCELLED" => new.status = "CANCELLED"
      <4> HIDE DEF old, new
      <4> QED BY <1>2, <1>3, <3>1, AmendmentAgrees
    <3> QED BY <1>2, <1>7, <2>1, <3>4, <3>5, <3>6 DEF Moves
  <2>2. CASE i \in overtaken' /\ j = i
    BY <1>2, <1>7, <2>2 DEF Moves
  <2>3. CASE j # i
    <3>1. invoice'[j] = invoice[j]
      BY <1>1, <1>2, <2>3 DEF RowsOK
    <3> QED BY <1>5, <1>7, <3>1, Untouched
  <2> QED BY <2>1, <2>2, <2>3
<1> QED BY <1>1, <1>5, <1>6, <1>7, <1>8, Committed

---------------------------------------------------------------------------
(* Sums over a finite set.                                                 *)

\* The element that a fold takes first; what a fold is, step by step, for the subsets of S.
Taken(s) == CHOOSE x \in s : TRUE
Folded(r, f, S) ==
  r = [s \in SUBSET S |-> IF s = {} THEN 0 ELSE f[Taken(s)] + r[s \ {Taken(s)}]]

\* The sum of a function is such a fold.
LEMMA SumIsFolded ==
  ASSUME NEW f PROVE SumFunction(f) = (CHOOSE r : Folded(r, f, DOMAIN f))[DOMAIN f]
BY DEF SumFunction, SumFunctionOnSet, FoldFunctionOnSet, MapThenFoldSet, Folded, Taken

\* A set of numbers with 0 that has with every number the next one has them all.
LEMMA Numbers ==
  ASSUME NEW N, 0 \in N, \A n \in Nat : n \in N => n + 1 \in N
  PROVE  Nat \subseteq N
<1> SUFFICES ASSUME Nat \ N # {} PROVE FALSE
  OBVIOUS
<1>1. PICK m \in Nat \ N : \A n \in Nat \ N : ~ (<<n, m>> \in OpToRel(<, Nat))
  BY WFMin, NatLessThanWellFounded
<1>2. \A n \in Nat \ N : ~ (n < m)
  BY <1>1 DEF OpToRel
<1>3. m # 0 /\ m - 1 \in Nat /\ m - 1 < m
  OBVIOUS
<1>4. m - 1 \in N
  BY <1>2, <1>3
<1>5. (m - 1) + 1 \in N
  BY <1>3, <1>4
<1> QED BY <1>5

\* r is the fold of the subsets of S with g, from base on, the element first[s] of s last.
FoldOf(r, S, base, g, first) ==
  \A s \in SUBSET S : r[s] = IF s = {} THEN base ELSE g[first[s]][r[s \ {first[s]}]]

\* first picks an element of every subset of S that has one.
Picks(first, S) == \A s \in SUBSET S : s # {} => first[s] \in s

\* What holds of the empty set, and of a set once it holds without one of its elements,
\* holds of every subset of a finite set.
LEMMA Subsets ==
  ASSUME NEW S, IsFiniteSet(S), NEW first, Picks(first, S), NEW G, {} \in G,
         \A s \in SUBSET S : s # {} /\ s \ {first[s]} \in G => s \in G
  PROVE  \A s \in SUBSET S : s \in G
<1> DEFINE N == {n \in Nat : \A s \in SUBSET S : Cardinality(s) = n => s \in G}
<1>1. \A s \in SUBSET S : IsFiniteSet(s) /\ Cardinality(s) \in Nat
  BY FS_Subset, FS_CardinalityType
<1>2. 0 \in N
  BY <1>1, FS_EmptySet
<1>3. ASSUME NEW n \in Nat, n \in N PROVE n + 1 \in N
  <2>1. ASSUME NEW s \in SUBSET S, Cardinality(s) = n + 1 PROVE s \in G
    <3>1. s # {}
      <4> SUFFICES ASSUME s = {} PROVE FALSE
        OBVIOUS
      <4>1. Cardinality(s) = 0
        BY FS_EmptySet
      <4> QED
        BY <2>1, <4>1
    <3>2. first[s] \in s
      BY <3>1 DEF Picks
    <3>3. Cardinality(s \ {first[s]}) = n
      <4> DEFINE x == first[s]
      <4>1. Cardinality(s \ {x}) = Cardinality(s) - 1
        <5> HIDE DEF x
        <5>1. x \in s
          BY <3>2 DEF x
        <5> QED
          BY <1>1, <5>1, FS_RemoveElement
      <4> QED
        BY <2>1, <4>1
    <3>4. s \ {first[s]} \in G
      BY <1>3, <3>3
    <3> QED
      BY <3>1, <3>4
  <2> QED
    BY <2>1
<1>4. Nat \subseteq N
  <2> HIDE DEF N
  <2> QED
    BY <1>2, <1>3, Numbers
<1> QED
  BY <1>1, <1>4

\* Every fold exists: the folds of n elements give those of n + 1.
LEMMA FoldExists ==
  ASSUME NEW S, IsFiniteSet(S), NEW first, Picks(first, S),
         NEW V, NEW base \in V, NEW g \in [S -> [V -> V]]
  PROVE  \E r \in [SUBSET S -> V] : FoldOf(r, S, base, g, first)
<1> DEFINE Step(r, s) == IF s = {} THEN base ELSE g[first[s]][r[s \ {first[s]}]]
           Good(r, n) == \A s \in SUBSET S : Cardinality(s) <= n => r[s] = Step(r, s)
           N == {n \in Nat : \E r \in [SUBSET S -> V] : Good(r, n)}
<1>1. \A s \in SUBSET S : IsFiniteSet(s) /\ Cardinality(s) \in Nat
  BY FS_Subset, FS_CardinalityType
<1>2. \A s \in SUBSET S : s # {} => first[s] \in s /\ first[s] \in S /\ s \ {first[s]} \in SUBSET S
  BY DEF Picks
<1>3. ASSUME NEW r \in [SUBSET S -> V], NEW s \in SUBSET S PROVE Step(r, s) \in V
  BY <1>2
<1>4. 0 \in N
  <2> DEFINE r == [s \in SUBSET S |-> base]
  <2>1. \A s \in SUBSET S : Cardinality(s) <= 0 => s = {}
    BY <1>1, FS_EmptySet
  <2>2. r \in [SUBSET S -> V] /\ Good(r, 0)
    BY <2>1
  <2> HIDE DEF r, Good
  <2> QED
    BY <2>2
<1>5. ASSUME NEW n \in Nat, n \in N PROVE n + 1 \in N
  <2>1. PICK r \in [SUBSET S -> V] : Good(r, n)
    BY <1>5
  <2> DEFINE q == [s \in SUBSET S |-> Step(r, s)]
  <2>2. q \in [SUBSET S -> V]
    <3> HIDE DEF Step
    <3> QED
      BY <1>3
  <2>3. ASSUME NEW s \in SUBSET S, Cardinality(s) <= n + 1 PROVE q[s] = Step(q, s)
    <3>1. CASE s = {}
      BY <3>1
    <3>2. CASE s # {}
      <4> DEFINE t == s \ {first[s]}
      <4>1. t \in SUBSET S /\ first[s] \in s
        BY <1>2, <3>2
      <4>2. Cardinality(t) <= n
        <5>1. PICK x \in s : x = first[s]
          BY <4>1
        <5>2. Cardinality(s \ {x}) = Cardinality(s) - 1
          BY <1>1, FS_RemoveElement
        <5> QED
          BY <1>1, <2>3, <5>1, <5>2
      <4>3. q[t] = r[t]
        <5> HIDE DEF Step, t
        <5> QED
          BY <2>1, <4>1, <4>2
      <4>4. q[s] = g[first[s]][r[t]] /\ Step(q, s) = g[first[s]][q[t]]
        BY <3>2
      <4> QED
        BY <4>3, <4>4
    <3> QED
      BY <3>1, <3>2
  <2>4. Good(q, n + 1)
    <3> HIDE DEF q, Step
    <3> QED
      BY <2>3
  <2> HIDE DEF q, Good
  <2> QED
    BY <2>2, <2>4
<1>6. Nat \subseteq N
  <2> HIDE DEF N
  <2> QED
    BY <1>4, <1>5, Numbers
<1>7. Cardinality(S) \in N /\ \A s \in SUBSET S : Cardinality(s) <= Cardinality(S)
  BY <1>1, <1>6, FS_Subset
<1>8. PICK r \in [SUBSET S -> V] : \A s \in SUBSET S : r[s] = Step(r, s)
  BY <1>7
<1> QED
  BY <1>8 DEF FoldOf
\* The same for the element that a sum takes.
LEMMA Sets ==
  ASSUME NEW S, IsFiniteSet(S), NEW G, {} \in G,
         \A s \in SUBSET S : s # {} /\ s \ {Taken(s)} \in G => s \in G
  PROVE  \A s \in SUBSET S : s \in G
<1> DEFINE first == [s \in SUBSET S |-> Taken(s)]
<1>1. \A s \in SUBSET S : first[s] = Taken(s)
  OBVIOUS
<1>2. Picks(first, S)
  BY <1>1 DEF Picks, Taken
<1> HIDE DEF first
<1> QED BY <1>1, <1>2, Subsets

\* Sums of f over the subsets of S: without an element, and with one more.
Sums(p, f, S) ==
  /\ p \in [SUBSET S -> Int] /\ p[{}] = 0
  /\ \A s \in SUBSET S : s # {} => Taken(s) \in s /\ p[s] = f[Taken(s)] + p[s \ {Taken(s)}]

\* There are sums over all the subsets.
LEMMA SumsExist ==
  ASSUME NEW S, IsFiniteSet(S), NEW f \in [S -> Int]
  PROVE  \E r : Folded(r, f, S)
<1>0. 0 \in Int
  OBVIOUS
<1> DEFINE first == [s \in SUBSET S |-> Taken(s)]
           add == [x \in S |-> [n \in Int |-> f[x] + n]]
<1>1. Picks(first, S) /\ add \in [S -> [Int -> Int]]
  BY DEF Picks, Taken
<1>2. \A s \in SUBSET S : first[s] = Taken(s)
  OBVIOUS
<1>3. \A x \in S, n \in Int : add[x][n] = f[x] + n
  OBVIOUS
<1> HIDE DEF first, add
<1>4. PICK r \in [SUBSET S -> Int] : FoldOf(r, S, 0, add, first)
  BY <1>0, <1>1, FoldExists
<1>5. ASSUME NEW s \in SUBSET S
      PROVE  r[s] = IF s = {} THEN 0 ELSE f[Taken(s)] + r[s \ {Taken(s)}]
  <2>1. CASE s = {}
    BY <1>4, <2>1 DEF FoldOf
  <2>2. CASE s # {}
    <3>1. Taken(s) \in S /\ s \ {Taken(s)} \in SUBSET S
      BY <1>1, <1>2, <2>2 DEF Picks
    <3>2. r[s] = add[Taken(s)][r[s \ {Taken(s)}]]
      BY <1>2, <1>4, <2>2 DEF FoldOf
    <3> QED BY <1>3, <2>2, <3>1, <3>2
  <2> QED BY <2>1, <2>2
<1>6. Folded(r, f, S)
  BY <1>5 DEF Folded
<1> QED BY <1>6

\* The sum of a function is the sum over its whole domain of sums over its subsets.
LEMMA SumOf ==
  ASSUME NEW S, IsFiniteSet(S), NEW f \in [S -> Int]
  PROVE  \E p : Sums(p, f, S) /\ SumFunction(f) = p[S]
<1> DEFINE p == CHOOSE r : Folded(r, f, S)
<1>1. SumFunction(f) = p[S]
  BY SumIsFolded
<1>0. Folded(p, f, S)
  BY SumsExist
<1> HIDE DEF p
<1>2. p = [s \in SUBSET S |-> IF s = {} THEN 0 ELSE f[Taken(s)] + p[s \ {Taken(s)}]]
  BY <1>0 DEF Folded
<1>3. \A s \in SUBSET S : s # {} =>
        Taken(s) \in s /\ f[Taken(s)] \in Int /\ p[s] = f[Taken(s)] + p[s \ {Taken(s)}]
  BY <1>2 DEF Taken
<1>4. p[{}] = 0
  BY <1>2
<1> DEFINE G == {s \in SUBSET S : p[s] \in Int}
<1>5. {} \in G
  BY <1>4
<1>6. ASSUME NEW s \in SUBSET S, s # {}, s \ {Taken(s)} \in G PROVE s \in G
  <2> DEFINE t == s \ {Taken(s)}
  <2>1. p[t] \in Int /\ f[Taken(s)] \in Int /\ p[s] = f[Taken(s)] + p[t]
    BY <1>3, <1>6
  <2> HIDE DEF t
  <2> QED BY <2>1
<1>7. \A s \in SUBSET S : s \in G
  <2> HIDE DEF G
  <2> QED BY <1>5, <1>6, Sets
<1>8. p \in [SUBSET S -> Int]
  BY <1>2, <1>7
<1> QED BY <1>1, <1>3, <1>4, <1>8 DEF Sums

\* Sums are added element by element.
LEMMA SumAdds ==
  ASSUME NEW S, IsFiniteSet(S), NEW f \in [S -> Int], NEW g \in [S -> Int],
         NEW h \in [S -> Int], \A i \in S : h[i] = f[i] + g[i]
  PROVE  SumFunction(h) = SumFunction(f) + SumFunction(g)
<1>1. PICK p, q, r : /\ Sums(p, f, S) /\ SumFunction(f) = p[S]
                     /\ Sums(q, g, S) /\ SumFunction(g) = q[S]
                     /\ Sums(r, h, S) /\ SumFunction(h) = r[S]
  BY SumOf
<1> DEFINE G == {s \in SUBSET S : r[s] = p[s] + q[s]}
<1>2. {} \in G
  BY <1>1 DEF Sums
<1>3. ASSUME NEW s \in SUBSET S, s # {}, s \ {Taken(s)} \in G PROVE s \in G
  <2> DEFINE x == Taken(s)
             t == s \ {x}
  <2>1. x \in S /\ t \in SUBSET S /\ r[t] = p[t] + q[t]
    BY <1>1, <1>3 DEF Sums
  <2>2. p[s] = f[x] + p[t] /\ q[s] = g[x] + q[t] /\ r[s] = h[x] + r[t]
    BY <1>1, <1>3 DEF Sums
  <2>3. p[t] \in Int /\ q[t] \in Int /\ f[x] \in Int /\ g[x] \in Int /\ h[x] = f[x] + g[x]
    BY <1>1, <2>1 DEF Sums
  <2> HIDE DEF x, t
  <2> QED BY <2>1, <2>2, <2>3
<1>4. \A s \in SUBSET S : s \in G
  <2> HIDE DEF G
  <2> QED BY <1>2, <1>3, Sets
<1> QED BY <1>1, <1>4

\* A sum of numbers from zero is one.
LEMMA SumCounts ==
  ASSUME NEW S, IsFiniteSet(S), NEW f \in [S -> Nat]
  PROVE  SumFunction(f) \in Nat
<1>1. PICK p : Sums(p, f, S) /\ SumFunction(f) = p[S]
  BY SumOf
<1> DEFINE G == {s \in SUBSET S : p[s] \in Nat}
<1>2. {} \in G
  BY <1>1 DEF Sums
<1>3. ASSUME NEW s \in SUBSET S, s # {}, s \ {Taken(s)} \in G PROVE s \in G
  BY <1>1, <1>3 DEF Sums
<1>4. \A s \in SUBSET S : s \in G
  <2> HIDE DEF G
  <2> QED BY <1>2, <1>3, Sets
<1> QED BY <1>1, <1>4

\* The sum of what is nothing but at one place is what is there.
LEMMA SumOfOne ==
  ASSUME NEW S, IsFiniteSet(S), NEW f \in [S -> Int], NEW j \in S,
         \A i \in S : i # j => f[i] = 0
  PROVE  SumFunction(f) = f[j]
<1>1. PICK p : Sums(p, f, S) /\ SumFunction(f) = p[S]
  BY SumOf
<1> DEFINE G == {s \in SUBSET S : p[s] = IF j \in s THEN f[j] ELSE 0}
<1>2. {} \in G
  BY <1>1 DEF Sums
<1>3. ASSUME NEW s \in SUBSET S, s # {}, s \ {Taken(s)} \in G PROVE s \in G
  <2> DEFINE x == Taken(s)
             t == s \ {x}
  <2>1. /\ x \in s /\ p[t] = (IF j \in t THEN f[j] ELSE 0) /\ p[s] = f[x] + p[t] /\ f[x] \in Int
    BY <1>1, <1>3 DEF Sums
  <2>2. CASE x = j
    BY <2>1, <2>2
  <2>3. CASE x # j
    <3>1. f[x] = 0 /\ (j \in t <=> j \in s)
      BY <2>1, <2>3
    <3> QED BY <2>1, <3>1
  <2> QED BY <2>2, <2>3
<1>4. \A s \in SUBSET S : s \in G
  <2> HIDE DEF G
  <2> QED BY <1>2, <1>3, Sets
<1> QED BY <1>1, <1>4

---------------------------------------------------------------------------
(* Money.                                                                  *)

\* A payment is of something, and allocates no more than that.
Funded(s) == /\ pc[s] \in {"paying", "paid"} => amount[s] > 0
             /\ pc[s] = "paid" => SumFunction(plan[s]) <= amount[s]

\* What is proved of money, beside LedgerInv.
MoneyInv == onAccount \in Nat /\ \A s \in Sessions : Funded(s)

\* No plan allocates more than there is, whichever way it was made.
LEMMA PlansWithin ==
  ASSUME NEW a \in Nat, NEW D \in SUBSET Invoices, NEW out \in [D -> Int], NEW instr,
         NEW f \in Plans(a, out, instr)
  PROVE  SumFunction(f) <= a
<1>1. f \in Shares(a, out) /\ IsFiniteSet(Invoices)
  BY PlansAreShares, InvoicesAssumption
<1>2. f \in [Invoices -> Int]
  BY <1>1 DEF Shares
<1>3. CASE f \in ByInstruction(a, out, instr)
  BY <1>3 DEF ByInstruction
<1>4. CASE \E i \in Exact(a, out) : \A j \in Invoices : f[j] = IF j = i THEN a ELSE 0
  <2>1. PICK i \in Exact(a, out) : \A j \in Invoices : f[j] = IF j = i THEN a ELSE 0
    BY <1>4
  <2>2. i \in Invoices
    BY DEF Exact
  <2>3. SumFunction(f) = f[i]
    BY <1>1, <1>2, <2>1, <2>2, SumOfOne
  <2> QED BY <2>1, <2>2, <2>3
<1>5. CASE f \in OldestFirst(a, out)
  <2>1. Open(out) \in [D -> Nat]
    BY DEF Open
  <2>2. IsFiniteSet(D)
    BY <1>1, FS_Subset
  <2>3. SumFunction(Open(out)) \in Nat
    BY <2>1, <2>2, SumCounts
  <2>4. SumFunction(f) = Capped(a, SumFunction(Open(out)))
    BY <1>5 DEF OldestFirst
  <2> QED BY <2>3, <2>4 DEF Capped
<1> QED BY <1>3, <1>4, <1>5 DEF Plans

\* Nothing was received.
LEMMA InitMoney == Init => MoneyInv /\ Money!Init
<1> SUFFICES ASSUME Init PROVE MoneyInv /\ Money!Init
  OBVIOUS
<1>1. MoneyInv
  BY DEF Init, MoneyInv, Funded
<1>2. PICK p : Sums(p, paid, Invoices) /\ SumFunction(paid) = p[Invoices]
  BY SumOf, InvoicesAssumption DEF Init, NoPlan
<1> DEFINE G == {t \in SUBSET Invoices : p[t] = 0}
<1>3. {} \in G
  BY <1>2 DEF Sums
<1>4. ASSUME NEW t \in SUBSET Invoices, t # {}, t \ {Taken(t)} \in G PROVE t \in G
  <2>1. Taken(t) \in t /\ p[t \ {Taken(t)}] = 0 /\ p[t] = paid[Taken(t)] + p[t \ {Taken(t)}]
    BY <1>2, <1>4 DEF Sums
  <2>2. paid[Taken(t)] = 0
    BY <2>1 DEF Init, NoPlan
  <2> QED BY <2>1, <2>2
<1>5. \A t \in SUBSET Invoices : t \in G
  <2> HIDE DEF G
  <2> QED BY <1>3, <1>4, Sets, InvoicesAssumption
<1>6. SumFunction(paid) = 0
  BY <1>2, <1>5
<1> QED BY <1>1, <1>6 DEF Money!Init, Init

\* A step leaves the payments of the other sessions as they are, and commits nothing unless
\* it is the commit of one.
LEMMA MoneyElsewhere ==
  ASSUME RowsOK, MoneyInv, NEW s \in Sessions, Funded(s)', UNCHANGED onAccount,
         \A t \in Sessions \ {s} : Same(t)
  PROVE  MoneyInv'
<1>1. ASSUME NEW t \in Sessions \ {s} PROVE Funded(t)'
  BY <1>1 DEF MoneyInv, Funded, Same
<1> QED BY <1>1 DEF MoneyInv

\* What a session is doing decides what it owes to its amount.
LEMMA NotPaying ==
  ASSUME NEW s \in Sessions, pc'[s] \notin {"paying", "paid"} PROVE Funded(s)'
BY DEF Funded

\* A plan is made.
LEMMA ApplyFunds ==
  ASSUME LedgerInv, MoneyInv, NEW s \in Sessions, Apply(s) PROVE MoneyInv'
<1>1. PICK f \in Plans(amount[s], Outstanding(s), instructed[s]) : plan' = [plan EXCEPT ![s] = f]
  BY DEF Apply
<1>2. RowsOK /\ pc[s] = "paying" /\ amount[s] \in Nat
      /\ pc' = [pc EXCEPT ![s] = "paid"] /\ UNCHANGED <<amount, onAccount>>
  BY DEF Apply, LedgerInv, RowsOK, db
<1>3. Outstanding(s) \in [Billed -> Int] /\ Billed \in SUBSET Invoices
  <2>1. \A i \in Billed : SeenBy(s, i).net \in Int /\ paid[i] \in Int /\ credited[i] \in Int
    BY <1>2 DEF SeenBy, RowsOK, Row, Billed
  <2> QED BY <2>1 DEF Outstanding, Billed
<1>4. SumFunction(f) <= amount[s]
  BY <1>2, <1>3, PlansWithin
<1>5. plan'[s] = f /\ pc'[s] = "paid" /\ amount'[s] > 0 /\ amount'[s] = amount[s]
  BY <1>1, <1>2 DEF RowsOK, MoneyInv, Funded
<1>6. ASSUME NEW t \in Sessions \ {s} PROVE Funded(t)'
  <2>1. pc'[t] = pc[t] /\ amount'[t] = amount[t] /\ plan'[t] = plan[t]
    BY <1>1, <1>2, <1>6 DEF RowsOK
  <2> QED BY <2>1 DEF MoneyInv, Funded
<1>7. Funded(s)'
  BY <1>4, <1>5 DEF Funded
<1> QED BY <1>2, <1>6, <1>7 DEF MoneyInv

\* A payment is committed: what it allocated is applied, and the rest is on account.
LEMMA CommitMoney ==
  ASSUME LedgerInv, MoneyInv, NEW s \in Sessions, CommitPayment(s)
  PROVE  MoneyInv' /\ Money!Receive
<1>1. /\ RowsOK /\ pc[s] = "paid" /\ End(s)
      /\ paid' = [i \in Invoices |-> paid[i] + plan[s][i]]
      /\ received' = received + amount[s]
      /\ onAccount' = onAccount + (amount[s] - SumFunction(plan[s]))
  BY DEF CommitPayment, LedgerInv
<1> DEFINE a == amount[s]
           n == SumFunction(plan[s])
<1>2. /\ paid \in [Invoices -> Nat] /\ plan[s] \in [Invoices -> Nat] /\ IsFiniteSet(Invoices)
      /\ a \in Nat /\ a > 0 /\ n <= a /\ received \in Nat /\ onAccount \in Nat
  BY <1>1, InvoicesAssumption DEF RowsOK, MoneyInv, Funded
<1>3. n \in Nat
  BY <1>2, SumCounts
<1>4. SumFunction(paid') = SumFunction(paid) + n
  <2>1. paid' \in [Invoices -> Int] /\ paid \in [Invoices -> Int] /\ plan[s] \in [Invoices -> Int]
        /\ \A i \in Invoices : paid'[i] = paid[i] + plan[s][i]
    BY <1>1, <1>2
  <2> QED BY <1>2, <2>1, SumAdds
<1>5. MoneyInv'
  <2>1. \A t \in Sessions \ {s} : Same(t)
    BY <1>1, EndedSession
  <2>2. pc'[s] = "idle"
    BY <1>1 DEF End, RowsOK
  <2>3. onAccount' \in Nat
    <3> HIDE DEF a, n
    <3>1. onAccount' = onAccount + (a - n)
      BY <1>1 DEF a, n
    <3> QED BY <1>2, <1>3, <3>1
  <2>4. ASSUME NEW t \in Sessions PROVE Funded(t)'
    <3>1. CASE t = s
      BY <2>2, <3>1, NotPaying
    <3>2. CASE t # s
      BY <2>1, <3>2 DEF MoneyInv, Funded, Same
    <3> QED BY <3>1, <3>2
  <2> QED BY <2>3, <2>4 DEF MoneyInv
<1>6. Money!Receive
  <2> HIDE DEF a, n
  <2>1. received' = received + a /\ onAccount' = onAccount + (a - n)
    BY <1>1 DEF a, n
  <2>2. received' - received = a /\ received' > received /\ n \in 0 .. a /\ a - n \in 0 .. a
        /\ received' = received + n + (a - n)
    BY <1>2, <1>3, <2>1
  <2> QED BY <1>4, <2>1, <2>2 DEF Money!Receive
<1> QED BY <1>5, <1>6

\* Any step is the arrival of a payment, or moves no money.
LEMMA MoneyStep ==
  ASSUME LedgerInv, MoneyInv, [Next]_vars
  PROVE  MoneyInv' /\ [Money!Receive]_<<received, SumFunction(paid), onAccount>>
<1>1. RowsOK
  BY DEF LedgerInv
<1>2. ASSUME NEW s \in Sessions, RecordPayment(s) \/ SyncPayment(s)
      PROVE  MoneyInv' /\ UNCHANGED <<received, paid, onAccount>>
  <2>1. PICK a \in Amounts : Begin(s, "paying", a)
    BY <1>2 DEF RecordPayment, SyncPayment
  <2>2. UNCHANGED <<received, paid, onAccount, plan>>
    BY <1>2 DEF RecordPayment, SyncPayment, db
  <2>3. /\ pc'[s] = "paying" /\ amount'[s] = a /\ a > 0
        /\ \A t \in Sessions \ {s} : pc'[t] = pc[t] /\ amount'[t] = amount[t]
    BY <1>1, <2>1 DEF Begin, RowsOK
  <2>4. \A t \in Sessions : Funded(t)'
    BY <2>2, <2>3 DEF MoneyInv, Funded
  <2> QED BY <2>2, <2>4 DEF MoneyInv
<1>3. ASSUME NEW s \in Sessions, Apply(s) PROVE MoneyInv' /\ UNCHANGED <<received, paid, onAccount>>
  BY <1>3, ApplyFunds DEF Apply, db
<1>4. ASSUME NEW s \in Sessions, StartNote(s) \/ InsertNote(s) \/ Amend(s) \/ Void(s)
      PROVE  MoneyInv' /\ UNCHANGED <<received, paid, onAccount>>
  <2>1. /\ UNCHANGED <<received, paid, onAccount, plan>>
        /\ pc'[s] \notin {"paying", "paid"}
        /\ \A t \in Sessions \ {s} : pc'[t] = pc[t] /\ amount'[t] = amount[t]
    BY <1>1, <1>4 DEF StartNote, InsertNote, Amend, Void, Begin, RowsOK, db
  <2>2. \A t \in Sessions : Funded(t)'
    BY <2>1 DEF MoneyInv, Funded
  <2> QED BY <2>1, <2>2 DEF MoneyInv
<1>5. ASSUME NEW s \in Sessions, CommitNote(s) \/ CommitAmendment(s) \/ RollBack(s)
      PROVE  MoneyInv' /\ UNCHANGED <<received, paid, onAccount>>
  <2>1. End(s) /\ UNCHANGED <<received, paid, onAccount>>
    BY <1>5 DEF CommitNote, CommitAmendment, RollBack, db
  <2>2. pc'[s] = "idle" /\ \A t \in Sessions \ {s} : Same(t)
    BY <1>1, <2>1, EndedSession DEF End, RowsOK
  <2>3. Funded(s)'
    BY <2>2, NotPaying
  <2> QED BY <1>1, <2>1, <2>2, <2>3, MoneyElsewhere
<1>6. ASSUME NEW s \in Sessions, CommitPayment(s) PROVE MoneyInv' /\ Money!Receive
  BY <1>6, CommitMoney
<1>7. CASE UNCHANGED vars
  BY <1>7 DEF vars, txn, db, MoneyInv, Funded
<1> QED BY <1>2, <1>3, <1>4, <1>5, <1>6, <1>7 DEF Next, vars, db

---------------------------------------------------------------------------
(* The theorems.                                                           *)

LEMMA LedgerInvInit == Init => LedgerInv
<1> SUFFICES ASSUME Init PROVE LedgerInv
  OBVIOUS
<1>1. RowsOK
  <2>1. PICK n \in [Invoices -> Nets] : invoice = [i \in Invoices |-> New(n[i])]
    BY DEF Init
  <2>2. \A i \in Invoices : New(n[i]) \in Row
    BY DEF New, Row, Statuses
  <2>3. invoice \in [Invoices -> Row]
    BY <2>1, <2>2
  <2>4. (CHOOSE i \in Invoices : TRUE) \in Invoices
    BY InvoicesAssumption
  <2> QED BY <2>3, <2>4 DEF Init, RowsOK, NoPlan, NothingLoaded
<1>2. InvoiceAgrees
  <2>1. PICK n \in [Invoices -> Nets] : invoice = [i \in Invoices |-> New(n[i])]
    BY DEF Init
  <2> SUFFICES ASSUME NEW i \in Invoices PROVE Agrees(invoice[i], paid[i] + credited[i])
    BY DEF InvoiceAgrees
  <2>2. paid[i] = 0 /\ credited[i] = 0
    BY DEF Init, NoPlan
  <2>3. n[i] \in Nat \ {0} /\ invoice[i] = New(n[i])
    BY <2>1
  <2> QED BY <2>2, <2>3 DEF Agrees, New, StatusOf
<1>3. ASSUME NEW s \in Sessions PROVE Session(s)
  BY DEF Init, Session, LoadedEarlier, Loaded, Paying, Crediting, Amending,
         NothingLoaded, NoPlan
<1> QED BY <1>1, <1>2, <1>3 DEF LedgerInv

LEMMA LedgerInvStep == LedgerInv /\ [Next]_vars => LedgerInv'
<1> SUFFICES ASSUME LedgerInv, [Next]_vars PROVE LedgerInv'
  OBVIOUS
<1>1. ASSUME NEW s \in Sessions, RecordPayment(s) PROVE LedgerInv'
  BY <1>1, RecordPaymentInv
<1>2. ASSUME NEW s \in Sessions, SyncPayment(s) PROVE LedgerInv'
  BY <1>2, SyncPaymentInv
<1>3. ASSUME NEW s \in Sessions, Apply(s) PROVE LedgerInv'
  BY <1>3, ApplyInv
<1>4. ASSUME NEW s \in Sessions, CommitPayment(s) PROVE LedgerInv'
  BY <1>4, CommitPaymentInv
<1>5. ASSUME NEW s \in Sessions, StartNote(s) PROVE LedgerInv'
  BY <1>5, StartNoteInv
<1>6. ASSUME NEW s \in Sessions, InsertNote(s) PROVE LedgerInv'
  BY <1>6, InsertNoteInv
<1>7. ASSUME NEW s \in Sessions, CommitNote(s) PROVE LedgerInv'
  BY <1>7, CommitNoteInv
<1>8. ASSUME NEW s \in Sessions, Amend(s) PROVE LedgerInv'
  BY <1>8, AmendInv
<1>9. ASSUME NEW s \in Sessions, Void(s) PROVE LedgerInv'
  BY <1>9, VoidInv
<1>10. ASSUME NEW s \in Sessions, CommitAmendment(s) PROVE LedgerInv'
  BY <1>10, CommitAmendmentInv
<1>11. ASSUME NEW s \in Sessions, RollBack(s) PROVE LedgerInv'
  BY <1>11, RollBackInv
<1>12. CASE UNCHANGED vars
  BY <1>12 DEF vars, db, txn, LedgerInv, RowsOK, InvoiceAgrees, Session, LoadedEarlier,
               Loaded, Settled, Paying, Crediting, Amending
<1> QED BY <1>1, <1>2, <1>3, <1>4, <1>5, <1>6, <1>7, <1>8, <1>9, <1>10, <1>11, <1>12
       DEF Next

LEMMA LedgerInvAlways == Spec => []LedgerInv
BY LedgerInvInit, LedgerInvStep, PTL DEF Spec

\* The sums of the payments, beside the invoices.
LEMMA MoneyInvAlways == Spec => [](LedgerInv /\ MoneyInv)
<1>1. Init => LedgerInv /\ MoneyInv
  BY LedgerInvInit, InitMoney
<1>2. (LedgerInv /\ MoneyInv) /\ [Next]_vars => (LedgerInv /\ MoneyInv)'
  BY LedgerInvStep, MoneyStep
<1> QED BY <1>1, <1>2, PTL DEF Spec

\* The rows stay well formed: no invoice is ever settled below nothing, no transaction
\* holds a row it could not have loaded, and no more is allocated than was received.
THEOREM TypeCorrect == Spec => []TypeOK
<1>1. LedgerInv /\ MoneyInv => TypeOK
  BY DEF LedgerInv, MoneyInv, TypeOK
<1> QED BY <1>1, MoneyInvAlways, PTL

\* Money is conserved, whatever transactions overlap: the ledger implements OnAccount, in
\* which what arrives is applied or on account, and nothing moves afterwards.
THEOREM MoneyIsConserved == Spec => MoneyConserved
<1>1. Init => Money!Init
  BY InitMoney
<1>2. LedgerInv /\ MoneyInv /\ [Next]_vars
        => [Money!Receive]_<<received, SumFunction(paid), onAccount>>
  BY MoneyStep
<1> QED BY <1>1, <1>2, MoneyInvAlways, PTL DEF Spec, MoneyConserved, Money!Spec

\* What every invoice says is open is what was neither paid nor credited, unless a
\* transaction wrote it from what had changed since it was read.
THEOREM InvoicesAgree == Spec => []InvoiceAgrees
<1>1. LedgerInv => InvoiceAgrees
  BY DEF LedgerInv
<1> QED BY <1>1, LedgerInvAlways, PTL

\* Two transactions never hold uncommitted allocations of one invoice: whoever
\* allocates holds its lock (Paying), and a lock has one holder.
THEOREM AllocatesAlone == Spec => []OneAllocator
<1>1. LedgerInv => OneAllocator
  BY DEF LedgerInv, Session, Paying, OneAllocator
<1> QED BY <1>1, LedgerInvAlways, PTL


---------------------------------------------------------------------------
(* The plan of a payment.                                                  *)

\* The element taken first may be any.
LEMMA AnyFirst ==
  ASSUME NEW S, IsFiniteSet(S), NEW f \in [S -> Int], NEW p, Sums(p, f, S)
  PROVE  \A s \in SUBSET S : \A x \in s : p[s] = f[x] + p[s \ {x}]
<1> DEFINE Holds(s) == \A x \in s : p[s] = f[x] + p[s \ {x}]
           N == {n \in Nat : \A s \in SUBSET S : Cardinality(s) = n => Holds(s)}
<1>1. \A s \in SUBSET S : IsFiniteSet(s) /\ Cardinality(s) \in Nat
  BY FS_Subset, FS_CardinalityType
<1>2. 0 \in N
  BY <1>1, FS_EmptySet
<1>3. ASSUME NEW n \in Nat, n \in N PROVE n + 1 \in N
  <2>1. ASSUME NEW s \in SUBSET S, Cardinality(s) = n + 1, NEW x \in s
        PROVE  p[s] = f[x] + p[s \ {x}]
    <3> DEFINE y == Taken(s)
               t == (s \ {y}) \ {x}
    <3>1. y \in s /\ p[s] = f[y] + p[s \ {y}]
      BY DEF Sums
    <3>2. CASE x = y
      BY <3>1, <3>2
    <3>3. CASE x # y
      <4>1. Cardinality(s \ {y}) = n /\ Cardinality(s \ {x}) = n
        BY <1>1, <2>1, <3>1, FS_RemoveElement
      <4>2. x \in s \ {y} /\ y \in s \ {x} /\ t = (s \ {x}) \ {y}
        BY <3>1, <3>3
      <4>3. p[s \ {y}] = f[x] + p[t] /\ p[s \ {x}] = f[y] + p[t]
        BY <1>3, <4>1, <4>2
      <4>4. f[x] \in Int /\ f[y] \in Int /\ p[t] \in Int
        BY <3>1 DEF Sums
      <4> QED BY <3>1, <4>3, <4>4
    <3> QED BY <3>2, <3>3
  <2> QED BY <2>1
<1>4. Nat \subseteq N
  <2> HIDE DEF N
  <2> QED BY <1>2, <1>3, Numbers
<1> QED BY <1>1, <1>4

\* Zeros do not count.
LEMMA SumExtends ==
  ASSUME NEW T, IsFiniteSet(T), NEW S \in SUBSET T, NEW f \in [T -> Int], NEW g \in [S -> Int],
         \A i \in T : f[i] = IF i \in S THEN g[i] ELSE 0
  PROVE  SumFunction(f) = SumFunction(g)
<1>1. IsFiniteSet(S)
  BY FS_Subset
<1>2. PICK p, q : /\ Sums(p, f, T) /\ SumFunction(f) = p[T]
                  /\ Sums(q, g, S) /\ SumFunction(g) = q[S]
  BY <1>1, SumOf
<1> DEFINE G == {s \in SUBSET T : p[s] = q[s \cap S]}
<1>3. {} \in G
  BY <1>2 DEF Sums
<1>4. ASSUME NEW s \in SUBSET T, s # {}, s \ {Taken(s)} \in G PROVE s \in G
  <2> DEFINE x == Taken(s)
             u == s \cap S
  <2>1. x \in s /\ p[s] = f[x] + p[s \ {x}] /\ p[s \ {x}] = q[(s \ {x}) \cap S]
    BY <1>2, <1>4 DEF Sums
  <2>2. CASE x \in S
    <3>1. x \in u /\ u \in SUBSET S /\ (s \ {x}) \cap S = u \ {x} /\ f[x] = g[x]
      BY <2>1, <2>2
    <3>2. q[u] = g[x] + q[u \ {x}]
      BY <1>1, <1>2, <3>1, AnyFirst
    <3> QED BY <2>1, <3>1, <3>2
  <2>3. CASE x \notin S
    <3>1. (s \ {x}) \cap S = u /\ f[x] = 0 /\ q[u] \in Int
      BY <1>2, <2>1, <2>3 DEF Sums
    <3> QED BY <2>1, <3>1
  <2> QED BY <2>2, <2>3
<1>5. \A s \in SUBSET T : s \in G
  <2> HIDE DEF G
  <2> QED BY <1>3, <1>4, Sets
<1>6. T \cap S = S
  OBVIOUS
<1> QED BY <1>2, <1>5, <1>6

\* What is nowhere less, and more at one place, adds up to more.
LEMMA SumGrows ==
  ASSUME NEW S, IsFiniteSet(S), NEW f \in [S -> Int], NEW g \in [S -> Int],
         \A i \in S : f[i] <= g[i], NEW j \in S, f[j] < g[j]
  PROVE  SumFunction(f) < SumFunction(g)
<1> DEFINE e == [i \in S |-> IF i = j THEN 1 ELSE 0]
           d == [i \in S |-> g[i] - f[i] - e[i]]
           h == [i \in S |-> f[i] + e[i]]
<1>1. e \in [S -> Int] /\ d \in [S -> Nat] /\ h \in [S -> Int]
  OBVIOUS
<1>2. SumFunction(e) = 1
  <2>1. e[j] = 1 /\ \A i \in S : i # j => e[i] = 0
    OBVIOUS
  <2> HIDE DEF e
  <2> QED BY <1>1, <2>1, SumOfOne
<1>3. (\A i \in S : h[i] = f[i] + e[i]) /\ (\A i \in S : g[i] = h[i] + d[i])
  OBVIOUS
<1> HIDE DEF e, d, h
<1>4. d \in [S -> Int]
  BY <1>1
<1>5. SumFunction(h) = SumFunction(f) + SumFunction(e)
  BY <1>1, <1>3, SumAdds
<1>6. SumFunction(g) = SumFunction(h) + SumFunction(d)
  BY <1>1, <1>3, <1>4, SumAdds
<1>7. SumFunction(d) \in Nat
  BY <1>1, SumCounts
<1>8. SumFunction(f) \in Int
  <2>1. PICK p : Sums(p, f, S) /\ SumFunction(f) = p[S]
    BY SumOf
  <2> QED BY <2>1 DEF Sums
<1> QED BY <1>2, <1>5, <1>6, <1>7, <1>8

\* What is open adds up to an amount.
LEMMA OpenAmounts ==
  ASSUME NEW D \in SUBSET Invoices, NEW out \in [D -> Int]
  PROVE  /\ Open(out) \in [D -> Nat] /\ SumFunction(Open(out)) \in Nat
         /\ \A i \in D : Open(out)[i] > 0 => Open(out)[i] = out[i]
<1>1. Open(out) \in [D -> Nat] /\ \A i \in D : Open(out)[i] > 0 => Open(out)[i] = out[i]
  BY DEF Open
<1>2. IsFiniteSet(D)
  BY FS_Subset, InvoicesAssumption
<1> QED BY <1>1, <1>2, SumCounts

\* f allocates a over what is open of the invoices D, oldest first: a younger invoice has
\* nothing of it until all older ones are settled.
Oldest(f, a, D, open) ==
  /\ f \in [Invoices -> Int]
  /\ \A i \in Invoices \ D : f[i] = 0
  /\ \A i \in D : f[i] \in 0 .. a /\ f[i] <= open[i]
  /\ \A i, j \in D : f[i] > 0 /\ DueOrder[j] < DueOrder[i] => f[j] = open[j]
  /\ SumFunction(f) = Capped(a, SumFunction(open))

\* That is what a plan does.
LEMMA OldestPlan ==
  ASSUME NEW a \in Nat, NEW D \in SUBSET Invoices, NEW out \in [D -> Int],
         NEW f \in OldestFirst(a, out)
  PROVE  Oldest(f, a, D, Open(out))
<1>1. /\ f \in [Invoices -> 0 .. a]
      /\ \A i \in Invoices : f[i] > 0 => i \in D /\ f[i] <= out[i]
  BY DEF OldestFirst, Shares
<1>2. \A i \in Invoices \ D : f[i] = 0
  BY <1>1
<1>3. \A i \in D : f[i] \in 0 .. a /\ f[i] <= Open(out)[i]
  BY <1>1 DEF Open
<1>4. /\ \A i, j \in D : f[i] > 0 /\ DueOrder[j] < DueOrder[i] => f[j] = Open(out)[j]
      /\ SumFunction(f) = Capped(a, SumFunction(Open(out)))
  BY DEF OldestFirst
<1>5. f \in [Invoices -> Int]
  BY <1>1
<1> QED BY <1>2, <1>3, <1>4, <1>5 DEF Oldest

\* A larger payment leaves no invoice with less.
LEMMA LargerPayment ==
  ASSUME NEW a \in Nat, NEW b \in Nat, a <= b,
         NEW D \in SUBSET Invoices, NEW out \in [D -> Int],
         NEW f \in OldestFirst(a, out), NEW g \in OldestFirst(b, out), NEW i \in Invoices
  PROVE  f[i] <= g[i]
<1> DEFINE open == Open(out)
<1>0. Oldest(f, a, D, open) /\ Oldest(g, b, D, open)
  BY OldestPlan
<1> SUFFICES ASSUME g[i] < f[i] PROVE FALSE
  BY <1>0 DEF Oldest
<1> HIDE DEF open
<1>1. /\ f \in [Invoices -> Int] /\ g \in [Invoices -> Int]
      /\ \A j \in Invoices \ D : f[j] = 0 /\ g[j] = 0
      /\ \A j \in D : /\ f[j] \in 0 .. a /\ f[j] <= open[j]
                     /\ g[j] \in 0 .. b /\ g[j] <= open[j]
      /\ SumFunction(f) = Capped(a, SumFunction(open))
      /\ SumFunction(g) = Capped(b, SumFunction(open))
  BY <1>0 DEF Oldest
<1>2. /\ \A k, j \in D : f[k] > 0 /\ DueOrder[j] < DueOrder[k] => f[j] = open[j]
      /\ \A k, j \in D : g[k] > 0 /\ DueOrder[j] < DueOrder[k] => g[j] = open[j]
  BY <1>0 DEF Oldest
<1>3. open \in [D -> Nat] /\ SumFunction(open) \in Nat
  BY OpenAmounts DEF open
<1>4. i \in D /\ f[i] > 0 /\ g[i] < open[i]
  BY <1>1, <1>3
<1>5. ASSUME NEW j \in Invoices PROVE g[j] <= f[j]
  <2>1. CASE j \notin D
    BY <1>1, <2>1
  <2>2. CASE j \in D /\ DueOrder[j] < DueOrder[i]
    BY <1>1, <1>2, <1>3, <1>4, <2>2
  <2>3. CASE j \in D /\ DueOrder[i] < DueOrder[j]
    <3>1. ~(g[j] > 0)
      BY <1>1, <1>2, <1>3, <1>4, <2>3
    <3> QED BY <1>1, <2>3, <3>1
  <2>4. CASE j \in D /\ DueOrder[j] = DueOrder[i]
    <3>1. j = i
      BY <1>4, <2>4, OrderAssumption DEF IsInjective
    <3> QED BY <1>1, <1>4, <3>1
  <2> QED BY <1>4, <2>1, <2>2, <2>3, <2>4, OrderAssumption
<1>6. SumFunction(g) < SumFunction(f)
  BY <1>1, <1>5, SumGrows, InvoicesAssumption
<1> QED BY <1>1, <1>3, <1>6 DEF Capped

\* While not everything that is open is paid, there is an oldest invoice that is not.
LEMMA OldestUnpaid ==
  ASSUME NEW a \in Nat, NEW D \in SUBSET Invoices, NEW out \in [D -> Int],
         NEW f \in OldestFirst(a, out), a < SumFunction(Open(out))
  PROVE  \E i \in D : /\ f[i] < Open(out)[i]
                      /\ \A j \in D : DueOrder[j] < DueOrder[i] => f[j] = Open(out)[j]
<1> DEFINE open == Open(out)
           U == {i \in D : f[i] < open[i]}
           N == {DueOrder[i] : i \in U}
<1>0. Oldest(f, a, D, open)
  BY OldestPlan
<1>1. open \in [D -> Nat] /\ SumFunction(open) \in Nat
  BY OpenAmounts
<1> HIDE DEF open
<1>2. /\ f \in [Invoices -> Int]
      /\ \A i \in Invoices \ D : f[i] = 0
      /\ \A i \in D : f[i] <= open[i]
      /\ SumFunction(f) = Capped(a, SumFunction(open))
  BY <1>0 DEF Oldest
<1>3. U # {}
  <2> SUFFICES ASSUME U = {} PROVE FALSE
    OBVIOUS
  <2>1. \A i \in Invoices : f[i] = IF i \in D THEN open[i] ELSE 0
    BY <1>1, <1>2
  <2>2. open \in [D -> Int]
    BY <1>1
  <2>3. SumFunction(f) = SumFunction(open)
    BY <1>2, <2>1, <2>2, SumExtends, InvoicesAssumption
  <2> QED BY <1>1, <1>2, <2>3 DEF Capped, open
<1>4. N \in SUBSET Nat /\ N # {}
  BY <1>3, OrderAssumption
<1>5. PICK m \in N : \A n \in N : ~ (<<n, m>> \in OpToRel(<, Nat))
  <2> HIDE DEF N
  <2> QED BY <1>4, WFMin, NatLessThanWellFounded
<1>6. \A n \in N : ~ (n < m)
  BY <1>4, <1>5 DEF OpToRel
<1>7. PICK i \in U : m = DueOrder[i]
  OBVIOUS
<1>8. ASSUME NEW j \in D, DueOrder[j] < DueOrder[i] PROVE f[j] = open[j]
  <2>1. j \notin U
    BY <1>6, <1>7, <1>8
  <2> QED BY <1>1, <1>2, <2>1
<1> QED BY <1>7, <1>8 DEF open

\* With one more to allocate there is a plan: one more for the oldest invoice that is not
\* paid.
LEMMA OneMore ==
  ASSUME NEW a \in Nat, NEW D \in SUBSET Invoices, NEW out \in [D -> Int],
         NEW f \in OldestFirst(a, out)
  PROVE  \E g : g \in OldestFirst(a + 1, out)
<1> DEFINE open == Open(out)
<1>0. Oldest(f, a, D, open)
  BY OldestPlan
<1>1. open \in [D -> Nat] /\ SumFunction(open) \in Nat
        /\ \A i \in D : open[i] > 0 => open[i] = out[i]
  BY OpenAmounts
<1> HIDE DEF open
<1>2. /\ f \in [Invoices -> Int]
      /\ \A i \in Invoices \ D : f[i] = 0
      /\ \A i \in D : f[i] \in 0 .. a /\ f[i] <= open[i]
      /\ \A i, j \in D : f[i] > 0 /\ DueOrder[j] < DueOrder[i] => f[j] = open[j]
      /\ SumFunction(f) = Capped(a, SumFunction(open))
  BY <1>0 DEF Oldest
<1>3. CASE SumFunction(open) <= a
  <2>1. f \in Shares(a + 1, out)
    <3>1. f \in Shares(a, out)
      BY DEF OldestFirst
    <3> QED BY <3>1 DEF Shares
  <2>2. SumFunction(f) = Capped(a + 1, SumFunction(open))
    BY <1>1, <1>2, <1>3 DEF Capped
  <2> QED BY <1>2, <2>1, <2>2 DEF OldestFirst, open
<1>4. CASE a < SumFunction(open)
  <2>1. PICK i \in D : /\ f[i] < open[i]
                       /\ \A j \in D : DueOrder[j] < DueOrder[i] => f[j] = open[j]
    BY <1>4, OldestUnpaid DEF open
  <2> DEFINE e == [j \in Invoices |-> IF j = i THEN 1 ELSE 0]
             g == [j \in Invoices |-> f[j] + e[j]]
  <2>2. \A j \in Invoices : g[j] = IF j = i THEN f[j] + 1 ELSE f[j]
    BY <1>2
  <2>3. g \in [Invoices -> 0 .. a + 1]
    <3>1. \A j \in Invoices : f[j] \in 0 .. a
      BY <1>2
    <3> QED BY <2>2, <3>1
  <2>4. SumFunction(g) = a + 1
    <3>1. e \in [Invoices -> Int] /\ g \in [Invoices -> Int]
          /\ \A j \in Invoices : g[j] = f[j] + e[j]
      BY <1>2
    <3>2. e[i] = 1 /\ \A j \in Invoices : j # i => e[j] = 0
      OBVIOUS
    <3> HIDE DEF e, g
    <3>3. SumFunction(e) = 1
      BY <3>1, <3>2, SumOfOne, InvoicesAssumption
    <3>4. SumFunction(g) = SumFunction(f) + SumFunction(e)
      BY <1>2, <3>1, SumAdds, InvoicesAssumption
    <3>5. SumFunction(f) = a
      BY <1>1, <1>2, <1>4 DEF Capped
    <3> QED BY <3>3, <3>4, <3>5
  <2> HIDE DEF g
  <2>5. g \in Shares(a + 1, out)
    <3>1. ASSUME NEW j \in Invoices, g[j] > 0 PROVE j \in D /\ g[j] <= out[j]
      <4>1. j \in D /\ g[j] <= open[j]
        BY <1>1, <1>2, <2>1, <2>2, <3>1
      <4> QED BY <1>1, <2>3, <3>1, <4>1
    <3> QED BY <2>3, <3>1 DEF Shares
  <2>6. ASSUME NEW k \in D, NEW j \in D, g[k] > 0, DueOrder[j] < DueOrder[k]
        PROVE  g[j] = open[j]
    <3>1. f[j] = open[j]
      BY <1>2, <2>1, <2>2, <2>6
    <3>2. j # i
      BY <1>1, <2>1, <3>1
    <3> QED BY <2>2, <3>1, <3>2
  <2>7. SumFunction(g) = Capped(a + 1, SumFunction(open))
    BY <1>1, <1>4, <2>4 DEF Capped
  <2> QED BY <2>5, <2>6, <2>7 DEF OldestFirst, open
<1> QED BY <1>1, <1>3, <1>4

\* Every amount has a plan, oldest first.
LEMMA OldestFirstExists ==
  ASSUME NEW D \in SUBSET Invoices, NEW out \in [D -> Int]
  PROVE  \A a \in Nat : \E f : f \in OldestFirst(a, out)
<1> DEFINE N == {a \in Nat : \E f : f \in OldestFirst(a, out)}
<1>1. 0 \in N
  <2>1. NoPlan \in [Invoices -> Int] /\ \A i \in Invoices : NoPlan[i] = 0
    BY DEF NoPlan
  <2>2. SumFunction(NoPlan) = 0
    BY <2>1, SumOfOne, InvoicesAssumption
  <2>3. NoPlan \in Shares(0, out)
    BY <2>1 DEF Shares, NoPlan
  <2>4. SumFunction(Open(out)) \in Nat
    BY OpenAmounts
  <2>5. SumFunction(NoPlan) = Capped(0, SumFunction(Open(out)))
    BY <2>2, <2>4 DEF Capped
  <2>6. NoPlan \in OldestFirst(0, out)
    BY <2>1, <2>3, <2>5 DEF OldestFirst
  <2> QED BY <2>6
<1>2. ASSUME NEW a \in Nat, a \in N PROVE a + 1 \in N
  BY <1>2, OneMore
<1>3. Nat \subseteq N
  <2> HIDE DEF N
  <2> QED BY <1>1, <1>2, Numbers
<1> QED BY <1>3

\* An uninstructed payment has exactly one plan, as plan_allocation returns one: all to
\* the invoice that is open for just this amount if there is only one, and else from the
\* oldest on; and then a larger payment leaves no invoice with less
\* (trade/allocation.py:84-141).
THEOREM OnePlan ==
  ASSUME NEW a \in Nat, NEW D \in SUBSET Invoices, NEW out \in [D -> Int]
  PROVE  /\ \E f : Plans(a, out, Nothing) = {f}
         /\ \E f : OldestFirst(a, out) = {f}
         /\ \A b \in Nat : \A f \in OldestFirst(a, out), g \in OldestFirst(b, out), i \in Invoices :
              a <= b => f[i] <= g[i]
<1>1. \A b \in Nat : \A f \in OldestFirst(a, out), g \in OldestFirst(b, out), i \in Invoices :
        a <= b => f[i] <= g[i]
  BY LargerPayment
<1>2. \E f : OldestFirst(a, out) = {f}
  <2>1. PICK f : f \in OldestFirst(a, out)
    BY OldestFirstExists
  <2>2. ASSUME NEW g \in OldestFirst(a, out) PROVE g = f
    <3>1. f \in [Invoices -> Int] /\ g \in [Invoices -> Int]
      BY <2>1, OldestPlan DEF Oldest
    <3>2. \A i \in Invoices : f[i] <= g[i] /\ g[i] <= f[i]
      BY <1>1, <2>1
    <3>3. \A i \in Invoices : f[i] = g[i]
      BY <3>1, <3>2
    <3> QED BY <3>1, <3>3
  <2> QED BY <2>1, <2>2
<1>3. \E f : Plans(a, out, Nothing) = {f}
  <2>1. CASE \E i \in Exact(a, out) : Exact(a, out) = {i}
    <3>1. PICK i : Exact(a, out) = {i}
      BY <2>1
    <3> DEFINE f == [j \in Invoices |-> IF j \in Exact(a, out) THEN a ELSE 0]
    <3>2. i \in D /\ out[i] = a
      BY <3>1 DEF Exact
    <3>3. f \in Shares(a, out)
      BY <3>1, <3>2 DEF Shares
    <3>4. \A g \in Shares(a, out) :
            (\A j \in Invoices : g[j] = IF j \in Exact(a, out) THEN a ELSE 0) <=> g = f
      BY DEF Shares
    <3>5. Plans(a, out, Nothing)
            = { g \in Shares(a, out) :
                  \A j \in Invoices : g[j] = IF j \in Exact(a, out) THEN a ELSE 0 }
      BY <2>1 DEF Plans
    <3> HIDE DEF f
    <3>6. Plans(a, out, Nothing) = {f}
      BY <3>3, <3>4, <3>5
    <3> QED BY <3>6
  <2>2. CASE ~ \E i \in Exact(a, out) : Exact(a, out) = {i}
    BY <1>2, <2>2 DEF Plans
  <2> QED BY <2>1, <2>2
<1> QED BY <1>1, <1>2, <1>3

---------------------------------------------------------------------------
(* The loop.                                                               *)

\* What is nowhere less does not add up to less.
LEMMA SumMonotone ==
  ASSUME NEW S, IsFiniteSet(S), NEW f \in [S -> Nat], NEW g \in [S -> Nat],
         \A i \in S : f[i] <= g[i]
  PROVE  SumFunction(f) <= SumFunction(g)
<1> DEFINE d == [i \in S |-> g[i] - f[i]]
<1>1. d \in [S -> Nat] /\ \A i \in S : g[i] = f[i] + d[i]
  OBVIOUS
<1> HIDE DEF d
<1>2. d \in [S -> Int] /\ f \in [S -> Int] /\ g \in [S -> Int]
  BY <1>1
<1>3. SumFunction(g) = SumFunction(f) + SumFunction(d)
  BY <1>1, <1>2, SumAdds
<1>4. SumFunction(f) \in Nat /\ SumFunction(d) \in Nat
  BY <1>1, SumCounts
<1> QED BY <1>3, <1>4

\* What the loop has once it has been through the invoices s: what is left of a, and what
\* each of s was given; while something is left, all of it.
Progress == [left : Nat, f : [Invoices -> Nat]]

Through(v, s, a, out) ==
  /\ v.left + SumFunction(v.f) = a
  /\ \A i \in Invoices \ s : v.f[i] = 0
  /\ \A i \in s : v.f[i] <= a /\ v.f[i] <= out[i]
  /\ \A i, j \in s : v.f[i] > 0 /\ DueOrder[j] < DueOrder[i] => v.f[j] = out[j]
  /\ v.left > 0 => \A i \in s : v.f[i] = out[i]

\* One round, with the invoice x.
Round(v, x, out) == [left |-> v.left - Capped(v.left, out[x]),
                     f |-> [v.f EXCEPT ![x] = Capped(v.left, out[x])]]

LEMMA LatestExists ==
  ASSUME NEW s \in SUBSET Invoices, s # {}
  PROVE  LatestDue(s) \in s /\ \A j \in s : DueOrder[j] <= DueOrder[LatestDue(s)]
<1>0. IsFiniteSet(s) /\ IsFiniteSet(Invoices)
  BY FS_Subset, InvoicesAssumption
<1> DEFINE G == {t \in SUBSET Invoices :
                   t # {} => \E i \in t : \A j \in t : DueOrder[j] <= DueOrder[i]}
<1>1. {} \in G
  OBVIOUS
<1>2. ASSUME NEW t \in SUBSET Invoices, t # {}, t \ {Taken(t)} \in G PROVE t \in G
  <2> DEFINE u == t \ {Taken(t)}
  <2>1. Taken(t) \in t
    BY <1>2 DEF Taken
  <2>2. \A j \in t : DueOrder[j] \in Nat
    BY OrderAssumption
  <2>3. CASE u = {}
    <3>1. \A j \in t : j = Taken(t)
      BY <2>3
    <3>2. \A j \in t : DueOrder[j] <= DueOrder[Taken(t)]
      BY <2>1, <2>2, <3>1
    <3> QED BY <2>1, <3>2
  <2>4. CASE u # {}
    <3>1. PICK i \in u : \A j \in u : DueOrder[j] <= DueOrder[i]
      BY <1>2, <2>4
    <3>2. PICK k \in t : /\ k = i \/ k = Taken(t)
                         /\ DueOrder[i] <= DueOrder[k] /\ DueOrder[Taken(t)] <= DueOrder[k]
      BY <2>1, <2>2, <3>1
    <3>3. ASSUME NEW j \in t PROVE DueOrder[j] <= DueOrder[k]
      <4>1. CASE j = Taken(t)
        BY <3>2, <4>1
      <4>2. CASE j # Taken(t)
        <5>1. j \in u
          BY <4>2
        <5>2. DueOrder[j] <= DueOrder[i]
          BY <3>1, <5>1
        <5>3. DueOrder[j] \in Nat /\ DueOrder[i] \in Nat /\ DueOrder[k] \in Nat
          BY <2>2
        <5> QED BY <3>2, <5>2, <5>3
      <4> QED BY <4>1, <4>2
    <3> QED BY <3>3
  <2> QED BY <2>3, <2>4
<1>3. \A t \in SUBSET Invoices : t \in G
  <2> HIDE DEF G
  <2> QED BY <1>0, <1>1, <1>2, Sets
<1>4. PICK i \in s : \A j \in s : DueOrder[j] <= DueOrder[i]
  BY <1>3
<1> QED BY <1>4 DEF LatestDue

LEMMA RoundGoesThrough ==
  ASSUME NEW a \in Nat, NEW s \in SUBSET Invoices, NEW out, \A i \in s : out[i] \in Nat \ {0},
         NEW x \in s, \A j \in s : DueOrder[j] <= DueOrder[x],
         NEW v \in Progress, Through(v, s \ {x}, a, out)
  PROVE  Round(v, x, out) \in Progress /\ Through(Round(v, x, out), s, a, out)
<1> DEFINE w == Round(v, x, out)
           take == Capped(v.left, out[x])
           e == [j \in Invoices |-> IF j = x THEN take ELSE 0]
<1>1. v.left \in Nat /\ v.f \in [Invoices -> Nat] /\ out[x] \in Nat \ {0} /\ x \in Invoices
  BY DEF Progress
<1>2. take \in Nat /\ take <= v.left /\ take <= out[x] /\ (v.left > out[x] => take = out[x])
        /\ (v.left <= out[x] => take = v.left)
  BY <1>1 DEF Capped
<1>3. w.left = v.left - take /\ w.f = [v.f EXCEPT ![x] = take]
  BY DEF Round
<1> HIDE DEF take, w
<1>4. w.left \in Nat /\ w.f \in [Invoices -> Nat]
  BY <1>1, <1>2, <1>3
<1>5. w.f[x] = take /\ v.f[x] = 0 /\ \A j \in Invoices \ {x} : w.f[j] = v.f[j]
  BY <1>1, <1>3 DEF Through
<1>6. w \in Progress
  <2>1. w = [left |-> w.left, f |-> w.f]
    BY DEF w, Round
  <2> QED BY <1>4, <2>1 DEF Progress
<1>7. SumFunction(w.f) = SumFunction(v.f) + take
  <2>1. e \in [Invoices -> Int] /\ e[x] = take /\ \A j \in Invoices : j # x => e[j] = 0
    BY <1>1, <1>2
  <2>2. \A j \in Invoices : w.f[j] = v.f[j] + e[j]
    BY <1>1, <1>2, <1>5
  <2> HIDE DEF e
  <2>3. SumFunction(e) = take
    BY <1>1, <2>1, SumOfOne, InvoicesAssumption
  <2>4. v.f \in [Invoices -> Int] /\ w.f \in [Invoices -> Int]
    BY <1>1, <1>4
  <2> QED BY <2>1, <2>2, <2>3, <2>4, SumAdds, InvoicesAssumption
<1>8. SumFunction(v.f) \in Nat /\ v.left + SumFunction(v.f) = a
  BY <1>1, SumCounts, InvoicesAssumption DEF Through
<1>9. w.left + SumFunction(w.f) = a
  BY <1>1, <1>2, <1>3, <1>7, <1>8
<1>10. \A i \in Invoices \ s : w.f[i] = 0
  BY <1>5 DEF Through
<1>11. ASSUME NEW i \in s PROVE w.f[i] <= a /\ w.f[i] <= out[i]
  <2>1. CASE i = x
    BY <1>1, <1>2, <1>5, <1>8, <2>1
  <2>2. CASE i # x
    BY <1>5, <2>2 DEF Through
  <2> QED BY <2>1, <2>2
<1>12. ASSUME v.left > 0, NEW j \in s, j # x PROVE w.f[j] = out[j]
  BY <1>5, <1>12 DEF Through
<1>13. ASSUME NEW i \in s, NEW j \in s, w.f[i] > 0, DueOrder[j] < DueOrder[i]
       PROVE  w.f[j] = out[j]
  <2>1. DueOrder[i] \in Nat /\ DueOrder[j] \in Nat /\ DueOrder[x] \in Nat
    BY OrderAssumption
  <2>2. j # x
    BY <1>13, <2>1
  <2>3. CASE i = x
    <3>1. v.left > 0
      BY <1>1, <1>2, <1>5, <1>13, <2>3
    <3> QED BY <1>12, <2>2, <3>1
  <2>4. CASE i # x
    BY <1>5, <1>13, <2>2, <2>4 DEF Through
  <2> QED BY <2>3, <2>4
<1>14. ASSUME w.left > 0, NEW i \in s PROVE w.f[i] = out[i]
  <2>1. v.left > out[x]
    BY <1>1, <1>2, <1>3, <1>14
  <2>2. v.left > 0 /\ take = out[x]
    BY <1>1, <1>2, <2>1
  <2> QED BY <1>5, <1>12, <2>2
<1>15. Through(w, s, a, out)
  BY <1>9, <1>10, <1>11, <1>13, <1>14 DEF Through
<1> QED BY <1>6, <1>15 DEF w

\* What the loop ends with is a plan, oldest first.
LEMMA ThroughAll ==
  ASSUME NEW a \in Nat, NEW D \in SUBSET Invoices, NEW out \in [D -> Int], NEW v \in Progress,
         Through(v, {i \in D : out[i] > 0}, a, out)
  PROVE  v.f \in OldestFirst(a, out)
<1> DEFINE S == {i \in D : out[i] > 0}
           open == Open(out)
           full == [i \in Invoices |-> IF i \in D THEN open[i] ELSE 0]
<1>1. v.left \in Nat /\ v.f \in [Invoices -> Nat]
  BY DEF Progress
<1>2. /\ v.left + SumFunction(v.f) = a
      /\ \A i \in Invoices \ S : v.f[i] = 0
      /\ \A i \in S : v.f[i] <= a /\ v.f[i] <= out[i]
      /\ \A i, j \in S : v.f[i] > 0 /\ DueOrder[j] < DueOrder[i] => v.f[j] = out[j]
      /\ v.left > 0 => \A i \in S : v.f[i] = out[i]
  BY DEF Through
<1>3. /\ open \in [D -> Nat] /\ SumFunction(open) \in Nat
      /\ \A i \in S : open[i] = out[i]
      /\ \A i \in D \ S : open[i] = 0
  <2>1. open \in [D -> Nat] /\ SumFunction(open) \in Nat
    BY OpenAmounts
  <2> QED BY <2>1 DEF Open
<1> HIDE DEF open
<1>4. full \in [Invoices -> Nat] /\ \A i \in Invoices : full[i] = IF i \in D THEN open[i] ELSE 0
  BY <1>3
<1> HIDE DEF full
<1>5. SumFunction(full) = SumFunction(open)
  <2>1. full \in [Invoices -> Int] /\ open \in [D -> Int]
    BY <1>3, <1>4
  <2> QED BY <1>4, <2>1, SumExtends, InvoicesAssumption
<1>6. SumFunction(v.f) \in Nat
  BY <1>1, SumCounts, InvoicesAssumption
<1>7. \A i \in Invoices : v.f[i] <= full[i]
  BY <1>1, <1>2, <1>3, <1>4
<1>8. SumFunction(v.f) = Capped(a, SumFunction(open))
  <2>1. CASE v.left = 0
    <3>1. SumFunction(v.f) = a
      BY <1>2, <1>6, <2>1
    <3>2. SumFunction(v.f) <= SumFunction(full)
      BY <1>1, <1>4, <1>7, SumMonotone, InvoicesAssumption
    <3> QED BY <1>3, <1>5, <3>1, <3>2 DEF Capped
  <2>2. CASE v.left > 0
    <3>1. \A i \in Invoices : v.f[i] = full[i]
      BY <1>2, <1>3, <1>4, <2>2
    <3>2. v.f = full
      BY <1>1, <1>4, <3>1
    <3>3. SumFunction(v.f) < a
      BY <1>1, <1>2, <1>6, <2>2
    <3> QED BY <1>3, <1>5, <1>6, <3>2, <3>3 DEF Capped
  <2> QED BY <1>1, <2>1, <2>2
<1>9. v.f \in Shares(a, out)
  <2>1. ASSUME NEW i \in Invoices PROVE v.f[i] \in 0 .. a
    BY <1>1, <1>2
  <2>2. ASSUME NEW i \in Invoices, v.f[i] > 0 PROVE i \in D /\ v.f[i] <= out[i]
    BY <1>2, <2>2
  <2>3. v.f \in [Invoices -> 0 .. a]
    BY <1>1, <2>1
  <2> QED BY <2>2, <2>3 DEF Shares
<1>10. ASSUME NEW i \in D, NEW j \in D, v.f[i] > 0, DueOrder[j] < DueOrder[i]
       PROVE  v.f[j] = open[j]
  <2>1. i \in S
    BY <1>2, <1>10
  <2>2. CASE j \in S
    BY <1>2, <1>3, <1>10, <2>1, <2>2
  <2>3. CASE j \notin S
    BY <1>2, <1>3, <2>3
  <2> QED BY <2>2, <2>3
<1> QED BY <1>8, <1>9, <1>10 DEF OldestFirst, open

\* The fold that the loop is.
LEMMA LoopIsFold ==
  ASSUME NEW a \in Nat, NEW D \in SUBSET Invoices, NEW out \in [D -> Int]
  PROVE  \E v \in Progress : /\ AllocateOldestFirst(a, out) = v.f
                             /\ Through(v, {i \in D : out[i] > 0}, a, out)
<1> DEFINE S == {i \in D : out[i] > 0}
           base == [left |-> a, f |-> NoPlan]
           Steps(r) == r = [s \in SUBSET S |->
                              IF s = {} THEN base
                              ELSE Round(r[s \ {LatestDue(s)}], LatestDue(s), out)]
           first == [s \in SUBSET S |-> LatestDue(s)]
           g == [x \in S |-> [v \in Progress |-> IF Round(v, x, out) \in Progress
                                                 THEN Round(v, x, out) ELSE v]]
<1>1. IsFiniteSet(S) /\ \A s \in SUBSET S : s \in SUBSET Invoices
  BY FS_Subset, InvoicesAssumption
<1>2. /\ \A s \in SUBSET S : first[s] = LatestDue(s)
      /\ \A s \in SUBSET S : s # {} => LatestDue(s) \in s
                                       /\ \A j \in s : DueOrder[j] <= DueOrder[LatestDue(s)]
      /\ Picks(first, S)
  BY <1>1, LatestExists DEF Picks
<1>3. base \in Progress
  BY DEF Progress, NoPlan
<1>4. g \in [S -> [Progress -> Progress]]
  OBVIOUS
<1>5. \A x \in S, v \in Progress : Round(v, x, out) \in Progress => g[x][v] = Round(v, x, out)
  OBVIOUS
<1>6. AllocateOldestFirst(a, out) = (CHOOSE r : Steps(r))[S].f
  BY DEF AllocateOldestFirst, MapThenFoldSet, Round
<1> HIDE DEF base, first, g
<1>7. PICK q \in [SUBSET S -> Progress] : FoldOf(q, S, base, g, first)
  <2> HIDE DEF S
  <2> QED BY <1>1, <1>2, <1>3, <1>4, FoldExists
<1>8. \A x \in S : out[x] \in Nat \ {0}
  OBVIOUS
<1>9. ASSUME NEW r, \A s \in SUBSET S : s # {} /\ r[s \ {LatestDue(s)}] \in Progress
                       /\ Through(r[s \ {LatestDue(s)}], s \ {LatestDue(s)}, a, out)
                     => r[s] = Round(r[s \ {LatestDue(s)}], LatestDue(s), out),
             r[{}] = base
      PROVE  \A s \in SUBSET S : r[s] \in Progress /\ Through(r[s], s, a, out)
  <2> DEFINE G == {s \in SUBSET S : r[s] \in Progress /\ Through(r[s], s, a, out)}
  <2>1. {} \in G
    <3>1. base.left = a /\ base.f = NoPlan
      BY DEF base
    <3>2. NoPlan \in [Invoices -> Int] /\ \A i \in Invoices : NoPlan[i] = 0
      BY DEF NoPlan
    <3>3. SumFunction(NoPlan) = 0
      BY <3>2, SumOfOne, InvoicesAssumption
    <3>4. Through(base, {}, a, out)
      BY <3>1, <3>2, <3>3 DEF Through
    <3> QED BY <1>3, <1>9, <3>4
  <2>2. ASSUME NEW s \in SUBSET S, s # {}, s \ {first[s]} \in G PROVE s \in G
    <3>1. PICK x \in s : x = LatestDue(s)
      BY <1>2, <2>2
    <3>2. r[s \ {x}] \in Progress /\ Through(r[s \ {x}], s \ {x}, a, out)
      BY <1>2, <2>2, <3>1
    <3>3. r[s] = Round(r[s \ {x}], x, out)
      BY <1>9, <2>2, <3>1, <3>2
    <3>4. \A i \in s : out[i] \in Nat \ {0}
      BY <1>8
    <3>5. \A j \in s : DueOrder[j] <= DueOrder[x]
      BY <1>2, <2>2, <3>1
    <3>6. s \in SUBSET Invoices
      BY <1>1
    <3> HIDE DEF S
    <3>7. Round(r[s \ {x}], x, out) \in Progress /\ Through(Round(r[s \ {x}], x, out), s, a, out)
      BY <3>2, <3>4, <3>5, <3>6, RoundGoesThrough
    <3> QED BY <3>3, <3>7
  <2>3. \A s \in SUBSET S : s \in G
    <3> HIDE DEF G, S
    <3> QED BY <1>1, <1>2, <2>1, <2>2, Subsets
  <2> QED BY <2>3
<1>10. \A s \in SUBSET S : s # {} => /\ s \ {LatestDue(s)} \in SUBSET S /\ LatestDue(s) \in S
                                     /\ q[s] = g[LatestDue(s)][q[s \ {LatestDue(s)}]]
  BY <1>2, <1>7 DEF FoldOf
<1>11. q[{}] = base
  BY <1>7 DEF FoldOf
<1>12. ASSUME NEW s \in SUBSET S, s # {},
              Through(q[s \ {LatestDue(s)}], s \ {LatestDue(s)}, a, out)
       PROVE  q[s] = Round(q[s \ {LatestDue(s)}], LatestDue(s), out)
  <2>1. PICK x \in s : x = LatestDue(s)
    BY <1>2, <1>12
  <2>2. q[s \ {x}] \in Progress /\ q[s] = g[x][q[s \ {x}]]
    BY <1>10, <1>12, <2>1
  <2>3. Round(q[s \ {x}], x, out) \in Progress
    <3>1. \A i \in s : out[i] \in Nat \ {0}
      BY <1>8
    <3>2. \A j \in s : DueOrder[j] <= DueOrder[x]
      BY <1>2, <1>12, <2>1
    <3> QED BY <1>1, <1>12, <2>1, <2>2, <3>1, <3>2, RoundGoesThrough
  <2> QED BY <1>5, <2>1, <2>2, <2>3
<1>13. \A s \in SUBSET S : q[s] \in Progress /\ Through(q[s], s, a, out)
  BY <1>9, <1>11, <1>12
<1>14. Steps(q)
  <2>1. ASSUME NEW s \in SUBSET S
        PROVE  q[s] = IF s = {} THEN base
                      ELSE Round(q[s \ {LatestDue(s)}], LatestDue(s), out)
    BY <1>10, <1>11, <1>12, <1>13
  <2> HIDE DEF S
  <2> QED BY <1>7, <2>1
<1> DEFINE p == CHOOSE r : Steps(r)
<1>15. Steps(p)
  <2> HIDE DEF Steps
  <2> QED BY <1>14
<1>16. PICK r : r = p /\ Steps(r)
  BY <1>15
<1>17. \A s \in SUBSET S : r[s] = IF s = {} THEN base
                                  ELSE Round(r[s \ {LatestDue(s)}], LatestDue(s), out)
  <2> HIDE DEF S, p
  <2> QED BY <1>16
<1>18. \A s \in SUBSET S : r[s] \in Progress /\ Through(r[s], s, a, out)
  <2> HIDE DEF S, p, Steps
  <2>1. r[{}] = base
    BY <1>17
  <2> QED BY <1>9, <1>17, <2>1
<1> HIDE DEF p, S, Steps
<1> QED BY <1>6, <1>16, <1>18 DEF p, S

\* The loop computes the one plan: from the oldest open invoice on, each is given what it
\* is open for or what is left (trade/allocation.py:131-141).
THEOREM LoopIsThePlan == Spec => []PlanIsTheLoop
<1>1. LedgerInv => PlanIsTheLoop
  <2> SUFFICES ASSUME LedgerInv, NEW s \in Sessions
               PROVE  LET out == Outstanding(s) IN
                      \A a \in 0 .. SumFunction(Open(out)) + 1 :
                        /\ OldestFirst(a, out) = {AllocateOldestFirst(a, out)}
                        /\ \A i \in Invoices :
                             AllocateOldestFirst(a, out)[i] <= AllocateOldestFirst(a + 1, out)[i]
    BY DEF PlanIsTheLoop
  <2> DEFINE out == Outstanding(s)
  <2>1. Billed \in SUBSET Invoices
    BY DEF Billed
  <2>2. out \in [Billed -> Int]
    <3>1. \A i \in Billed : /\ SeenBy(s, i) \in Row /\ paid[i] \in Nat /\ credited[i] \in Nat
                            /\ SeenBy(s, i).net \in Nat
      BY <2>1, RowFields DEF SeenBy, LedgerInv, RowsOK
    <3> QED BY <3>1 DEF Outstanding
  <2> HIDE DEF out
  <2>3. \A a \in Nat : AllocateOldestFirst(a, out) \in OldestFirst(a, out)
    <3> SUFFICES ASSUME NEW a \in Nat PROVE AllocateOldestFirst(a, out) \in OldestFirst(a, out)
      OBVIOUS
    <3>1. PICK v \in Progress : /\ AllocateOldestFirst(a, out) = v.f
                                /\ Through(v, {i \in Billed : out[i] > 0}, a, out)
      BY <2>1, <2>2, LoopIsFold
    <3> QED BY <2>1, <2>2, <3>1, ThroughAll
  <2>4. ASSUME NEW a \in 0 .. SumFunction(Open(out)) + 1
        PROVE  /\ OldestFirst(a, out) = {AllocateOldestFirst(a, out)}
               /\ \A i \in Invoices :
                    AllocateOldestFirst(a, out)[i] <= AllocateOldestFirst(a + 1, out)[i]
    <3>1. a \in Nat /\ a + 1 \in Nat /\ a <= a + 1
      BY <2>1, <2>2, OpenAmounts
    <3>2. \E f : OldestFirst(a, out) = {f}
      BY <2>1, <2>2, <3>1, OnePlan
    <3>3. OldestFirst(a, out) = {AllocateOldestFirst(a, out)}
      BY <2>3, <3>1, <3>2
    <3>4. \A i \in Invoices : AllocateOldestFirst(a, out)[i] <= AllocateOldestFirst(a + 1, out)[i]
      BY <2>1, <2>2, <2>3, <3>1, LargerPayment
    <3> QED BY <3>3, <3>4
  <2> QED BY <2>4 DEF out
<1> QED BY <1>1, LedgerInvAlways, PTL
===========================================================================
