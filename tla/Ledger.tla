------------------------------- MODULE Ledger -------------------------------
(***************************************************************************)
(* The invoices of one buyer under overlapping transactions:               *)
(*   - a payment recorded through the API, with or without instructions,   *)
(*     and one fetched from the ERP, which may quote an invoice            *)
(*     (api/routes.py, ingestion/reconcile.py, trade/allocation.py);       *)
(*   - a credit note (trade/allocation.py);                                *)
(*   - an invoice amended or voided in the ERP (ingestion/reconcile.py).   *)
(*                                                                         *)
(* Transactions are READ COMMITTED: a statement reads what is committed    *)
(* when it starts.  A payment locks the invoices it may touch FOR UPDATE.  *)
(* Inserting a credit note takes a key-share lock on its invoice, which    *)
(* conflicts with FOR UPDATE and not with other key-share locks; an UPDATE *)
(* waits for a FOR UPDATE lock too.  The others lock nothing they read.    *)
(*                                                                         *)
(* The sums the code takes over payment_allocations and credit_notes are   *)
(* kept as running totals of the committed rows.                           *)
(***************************************************************************)
EXTENDS Integers, FiniteSets, Functions

CONSTANTS Invoices,
          DueOrder,       \* position of an invoice in (due_date, issue_date, number)
          Sessions, NoSession,
          Amounts,        \* what a payment or a credit note may amount to
          Nets,           \* what an invoice may amount to
          Receipts, NoReceipt,  \* the payments the ERP knows, by external_ref
          MaxTransactions \* bound: how many transactions begin

ASSUME SessionsAssumption == NoSession \notin Sessions /\ NoReceipt \notin Receipts
ASSUME AmountsAssumption ==
  /\ Amounts \subseteq Nat \ {0} /\ Nets \subseteq Nat \ {0} /\ MaxTransactions \in Nat
ASSUME InvoicesAssumption == Invoices # {} /\ IsFiniteSet(Invoices)
ASSUME OrderAssumption == DueOrder \in [Invoices -> Nat] /\ IsInjective(DueOrder)

VARIABLES
  invoice,    \* the committed invoices
  paid,       \* committed allocations, summed by invoice
  credited,   \* committed credit notes, summed by invoice
  received, onAccount,  \* committed payments: what came in, what is unallocated
  banked,     \* how many committed payments carry the receipt
  lock,       \* the transaction that holds the invoice FOR UPDATE
  share,      \* the transactions that hold it FOR KEY SHARE
  pc, amount, instructed, receipt, target,  \* what a transaction is about
  before,     \* the invoices its session has loaded
  after,      \* what they become
  plan,       \* its uncommitted allocations
  summed,     \* what it read as settled of its target
  overtaken,  \* history: invoices written after what was read of them had changed
  begun       \* how many transactions began

txn  == <<pc, amount, instructed, receipt, target, before, after, plan, summed>>
db   == <<invoice, paid, credited, received, onAccount, banked>>
vars == <<db, lock, share, txn, overtaken, begun>>

---------------------------------------------------------------------------
Statuses == {"OPEN", "PART_PAID", "PAID", "CANCELLED"}
Row == [net : Nat, outstanding : Nat, status : Statuses]
NotLoaded == [net |-> 0, outstanding |-> 0, status |-> "NONE"]

NoPlan == [i \in Invoices |-> 0]
Nothing == [i \in {} |-> 0]
NothingLoaded == [i \in Invoices |-> NotLoaded]

New(n) == [net |-> n, outstanding |-> n, status |-> "OPEN"]

Init == /\ \E n \in [Invoices -> Nets] : invoice = [i \in Invoices |-> New(n[i])]
        /\ paid = NoPlan /\ credited = NoPlan /\ received = 0 /\ onAccount = 0
        /\ banked = [r \in Receipts |-> 0]
        /\ lock = [i \in Invoices |-> NoSession] /\ share = [i \in Invoices |-> {}]
        /\ pc = [s \in Sessions |-> "idle"]
        /\ amount = [s \in Sessions |-> 0]
        /\ instructed = [s \in Sessions |-> Nothing]
        /\ receipt = [s \in Sessions |-> NoReceipt]
        /\ target = [s \in Sessions |-> CHOOSE i \in Invoices : TRUE]
        /\ before = [s \in Sessions |-> NothingLoaded]
        /\ after = [s \in Sessions |-> NothingLoaded]
        /\ plan = [s \in Sessions |-> NoPlan]
        /\ summed = [s \in Sessions |-> 0]
        /\ overtaken = {} /\ begun = 0

---------------------------------------------------------------------------
(* trade/allocation.py, the pure half.                                     *)

Capped(x, y) == IF x <= y THEN x ELSE y

\* What is open of each invoice whose reference says how much is outstanding.
Open(out) == [i \in DOMAIN out |-> IF out[i] > 0 THEN out[i] ELSE 0]

Shares(a, out) == { f \in [Invoices -> 0 .. a] :
                      \A i \in Invoices : f[i] > 0 => i \in DOMAIN out /\ f[i] <= out[i] }

\* The user's explicit intent, refused as a whole if any part of it cannot be done.
ByInstruction(a, out, instr) ==
  { f \in Shares(a, out) :
      /\ \A i \in DOMAIN instr : instr[i] > 0
      /\ \A i \in Invoices : f[i] = IF i \in DOMAIN instr THEN instr[i] ELSE 0
      /\ SumFunction(f) <= a }

\* Oldest first: an invoice is touched only if every older one is settled by it, and
\* nothing is kept back while something is open.
OldestFirst(a, out) ==
  { f \in Shares(a, out) :
      /\ \A i, j \in DOMAIN out : f[i] > 0 /\ DueOrder[j] < DueOrder[i] => f[j] = Open(out)[j]
      /\ SumFunction(f) = Capped(a, SumFunction(Open(out))) }

\* The loop: from the oldest open invoice on, take what is left or what is open.
LatestDue(s) == CHOOSE i \in s : \A j \in s : DueOrder[j] <= DueOrder[i]

\* Mutant: the newest invoice first.
NewestFirst(a, out) ==
  LET EarliestDue(s) == CHOOSE i \in s : \A j \in s : DueOrder[i] <= DueOrder[j]
      Allocate(i, acc) == LET take == Capped(acc.left, out[i])
                          IN  [left |-> acc.left - take, f |-> [acc.f EXCEPT ![i] = take]]
  IN MapThenFoldSet(Allocate, [left |-> a, f |-> NoPlan], LAMBDA i : i, EarliestDue,
                    { i \in DOMAIN out : out[i] > 0 }).f

AllocateOldestFirst(a, out) ==
  LET Allocate(i, acc) == LET take == Capped(acc.left, out[i])
                          IN  [left |-> acc.left - take, f |-> [acc.f EXCEPT ![i] = take]]
  IN MapThenFoldSet(Allocate, [left |-> a, f |-> NoPlan], LAMBDA i : i, LatestDue,
                    { i \in DOMAIN out : out[i] > 0 }).f

Exact(a, out) == { i \in DOMAIN out : out[i] = a }

\* Mutant: the instructions taken as they are, without looking at what is open.
TrustInstructions(a, out, instr) ==
  IF instr # Nothing
  THEN { f \in [Invoices -> 0 .. a] :
           \A i \in Invoices : f[i] = IF i \in DOMAIN instr THEN instr[i] ELSE 0 }
  ELSE OldestFirst(a, out)

\* plan_allocation: the one allocation of a over the references out, or none if it is
\* refused.
Plans(a, out, instr) ==
  IF instr # Nothing THEN ByInstruction(a, out, instr)
  ELSE IF \E i \in Exact(a, out) : Exact(a, out) = {i}
       THEN { f \in Shares(a, out) : \A i \in Invoices : f[i] = IF i \in Exact(a, out) THEN a ELSE 0 }
       ELSE OldestFirst(a, out)

StatusOf(net, outstanding) == IF outstanding = 0 THEN "PAID"
                              ELSE IF outstanding < net THEN "PART_PAID" ELSE "OPEN"

\* recompute_invoice, of a row as loaded and what is settled of it.
Recomputed(r, settled) ==
  IF r.status = "CANCELLED" THEN [r EXCEPT !.outstanding = 0]
  ELSE [r EXCEPT !.outstanding = r.net - settled, !.status = StatusOf(r.net, r.net - settled)]

---------------------------------------------------------------------------
(* The session.                                                            *)

\* An UPDATE names the columns whose value differs from the one that was loaded.
Merge(current, old, new) ==
  [ net         |-> IF new.net = old.net THEN current.net ELSE new.net,
    outstanding |-> IF new.outstanding = old.outstanding THEN current.outstanding
                    ELSE new.outstanding,
    status      |-> IF new.status = old.status THEN current.status ELSE new.status ]

\* The row of i once the transaction has written it.
Written(s, i) == IF after[s][i] = NotLoaded THEN invoice[i]
                 ELSE Merge(invoice[i], before[s][i], after[s][i])

\* The check constraints of the table.
Checked(s) == \A i \in Invoices : /\ 0 <= Written(s, i).outstanding
                                  /\ Written(s, i).outstanding <= Written(s, i).net

\* The end of a transaction, committed or not: its locks and its objects go.
End(s) == /\ pc' = [pc EXCEPT ![s] = "idle"]
          /\ lock' = [i \in Invoices |-> IF lock[i] = s THEN NoSession ELSE lock[i]]
          /\ share' = [i \in Invoices |-> share[i] \ {s}]
          /\ amount' = [amount EXCEPT ![s] = 0]
          /\ instructed' = [instructed EXCEPT ![s] = Nothing]
          /\ receipt' = [receipt EXCEPT ![s] = NoReceipt]
          /\ before' = [before EXCEPT ![s] = NothingLoaded]
          /\ after' = [after EXCEPT ![s] = NothingLoaded]
          /\ plan' = [plan EXCEPT ![s] = NoPlan]
          /\ summed' = [summed EXCEPT ![s] = 0]
          /\ UNCHANGED target

\* An exception at any point, or the death of the process.
RollBack(s) == pc[s] # "idle" /\ End(s) /\ UNCHANGED <<db, overtaken, begun>>

Begin(s, label, a) == /\ pc[s] = "idle" /\ begun < MaxTransactions
                      /\ begun' = begun + 1
                      /\ pc' = [pc EXCEPT ![s] = label]
                      /\ amount' = [amount EXCEPT ![s] = a]

Load(s, i) == before' = [before EXCEPT ![s][i] = invoice[i]]

\* Another transaction has amended or voided the invoice since s loaded it.
Amended(s, i) == \/ before[s][i].net # invoice[i].net
                 \/ before[s][i].status # "CANCELLED" /\ invoice[i].status = "CANCELLED"

\* An unlocked write of the target, from a row or from sums that have changed since.
Overtaken(s, i) == IF Amended(s, i) \/ summed[s] # paid[i] + credited[i] THEN {i} ELSE {}

---------------------------------------------------------------------------
(* Payments.                                                               *)

\* POST /payments, with the instructions of the request or with none.
RecordPayment(s) ==
  \E a \in Amounts, S \in SUBSET Invoices :
    /\ Begin(s, "paying", a)
    /\ \E f \in [S -> Amounts] : instructed' = [instructed EXCEPT ![s] = f]
    /\ UNCHANGED <<db, lock, share, receipt, target, before, after, plan, summed, overtaken>>

\* sync_payments: a receipt that no payment carries yet is inserted.  If it quotes an
\* invoice, that is read, and its balance taken for what there is to pay of it, before
\* anything is locked.
SyncPayment(s) ==
  \E a \in Amounts, r \in Receipts :
    /\ Begin(s, "paying", a)
    /\ banked[r] = 0
    /\ receipt' = [receipt EXCEPT ![s] = r]
    /\ \/ UNCHANGED <<instructed, before>>
       \/ \E i \in Invoices :
            /\ instructed' = [instructed EXCEPT ![s] =
                 [j \in {i} |-> Capped(a, invoice[i].outstanding)]]
            /\ Load(s, i)
    /\ UNCHANGED <<db, lock, share, target, after, plan, summed, overtaken>>

\* The invoices invoice_refs selects.
Billed == { i \in Invoices : invoice[i].status # "CANCELLED" }

\* A session that has an invoice loaded keeps it as it was.
SeenBy(s, i) == IF before[s][i] = NotLoaded THEN invoice[i] ELSE before[s][i]

Outstanding(s) == [i \in Billed |-> SeenBy(s, i).net - paid[i] - credited[i]]

\* Mutant: the balances are read and nothing is locked.
Unlocked(s) == TRUE

\* SELECT ... FOR UPDATE has every row it wants.
Lockable(s) == \A i \in Billed : lock[i] = NoSession /\ share[i] = {}

\* apply_payment: lock, plan, insert the allocations, recompute what they touch.
Apply(s) ==
  /\ pc[s] = "paying"
  /\ Lockable(s)
  /\ lock' = [i \in Invoices |-> IF i \in Billed THEN s ELSE lock[i]]
  /\ before' = [before EXCEPT ![s] = [i \in Invoices |-> IF i \in Billed THEN SeenBy(s, i) ELSE @[i]]]
  /\ \E f \in Plans(amount[s], Outstanding(s), instructed[s]) :
       /\ plan' = [plan EXCEPT ![s] = f]
       /\ after' = [after EXCEPT ![s] =
            [i \in Invoices |-> IF f[i] > 0
                                THEN Recomputed(SeenBy(s, i), paid[i] + credited[i] + f[i])
                                ELSE NotLoaded]]
  /\ pc' = [pc EXCEPT ![s] = "paid"]
  /\ UNCHANGED <<db, share, amount, instructed, receipt, target, summed, overtaken, begun>>

CommitPayment(s) ==
  /\ pc[s] = "paid" /\ Checked(s)
  /\ invoice' = [i \in Invoices |-> Written(s, i)]
  /\ paid' = [i \in Invoices |-> paid[i] + plan[s][i]]
  /\ received' = received + amount[s]
  /\ onAccount' = onAccount + (amount[s] - SumFunction(plan[s]))
  /\ banked' = [r \in Receipts |-> IF receipt[s] = r THEN banked[r] + 1 ELSE banked[r]]
  /\ overtaken' = overtaken \cup { i \in Invoices : plan[s][i] > 0 /\ Amended(s, i) }
  /\ End(s)
  /\ UNCHANGED <<credited, begun>>

---------------------------------------------------------------------------
(* Credit notes, amendments and voids.                                     *)

\* apply_credit_note: the invoice is loaded ...
StartNote(s) ==
  \E a \in Amounts, i \in Invoices :
    /\ Begin(s, "crediting", a)
    /\ target' = [target EXCEPT ![s] = i]
    /\ Load(s, i)
    /\ UNCHANGED <<db, lock, share, instructed, receipt, after, plan, summed, overtaken>>

\* ... the note is inserted, and refused if it is more than what is left.
InsertNote(s) ==
  LET i == target[s]
      settled == paid[i] + credited[i] + amount[s]
  IN /\ pc[s] = "crediting" /\ lock[i] = NoSession
     /\ settled <= before[s][i].net
     /\ share' = [share EXCEPT ![i] = @ \cup {s}]
     /\ after' = [after EXCEPT ![s][i] = Recomputed(before[s][i], settled)]
     /\ summed' = [summed EXCEPT ![s] = paid[i] + credited[i]]
     /\ pc' = [pc EXCEPT ![s] = "credited"]
     /\ UNCHANGED <<db, lock, amount, instructed, receipt, target, before, plan, overtaken, begun>>

CommitNote(s) ==
  LET i == target[s] IN
  /\ pc[s] = "credited" /\ lock[i] = NoSession /\ Checked(s)
  /\ invoice' = [invoice EXCEPT ![i] = Written(s, i)]
  /\ credited' = [credited EXCEPT ![i] = @ + amount[s]]
  /\ overtaken' = overtaken \cup Overtaken(s, i)
  /\ End(s)
  /\ UNCHANGED <<paid, received, onAccount, banked, begun>>

\* sync_invoices meets another amount: it reads the invoice and the sums, and refuses
\* an amount that is already over-settled.  An invoice under active recovery is left
\* to a human, and nothing happens.
Amend(s) ==
  \E i \in Invoices, n \in Nets :
    /\ n # invoice[i].net
    /\ invoice[i].status = "CANCELLED" \/ paid[i] + credited[i] <= n
    /\ Begin(s, "amending", 0)
    /\ target' = [target EXCEPT ![s] = i]
    /\ Load(s, i)
    /\ after' = [after EXCEPT ![s][i] =
         Recomputed([invoice[i] EXCEPT !.net = n], paid[i] + credited[i])]
    /\ summed' = [summed EXCEPT ![s] = paid[i] + credited[i]]
    /\ UNCHANGED <<db, lock, share, instructed, receipt, plan, overtaken>>

\* sync_invoices meets a voided invoice.
Void(s) ==
  \E i \in Invoices :
    /\ Begin(s, "amending", 0)
    /\ target' = [target EXCEPT ![s] = i]
    /\ Load(s, i)
    /\ after' = [after EXCEPT ![s][i] =
         [invoice[i] EXCEPT !.status = "CANCELLED", !.outstanding = 0]]
    /\ summed' = [summed EXCEPT ![s] = paid[i] + credited[i]]
    /\ UNCHANGED <<db, lock, share, instructed, receipt, plan, overtaken>>

CommitAmendment(s) ==
  LET i == target[s] IN
  /\ pc[s] = "amending" /\ lock[i] = NoSession /\ Checked(s)
  /\ invoice' = [invoice EXCEPT ![i] = Written(s, i)]
  /\ overtaken' = overtaken \cup Overtaken(s, i)
  /\ End(s)
  /\ UNCHANGED <<paid, credited, received, onAccount, banked, begun>>

---------------------------------------------------------------------------
Next == \E s \in Sessions :
          \/ RecordPayment(s) \/ SyncPayment(s) \/ Apply(s) \/ CommitPayment(s)
          \/ StartNote(s) \/ InsertNote(s) \/ CommitNote(s)
          \/ Amend(s) \/ Void(s) \/ CommitAmendment(s)
          \/ RollBack(s)

Spec == Init /\ [][Next]_vars

---------------------------------------------------------------------------
RowsOK ==
  /\ invoice \in [Invoices -> Row]
  /\ paid \in [Invoices -> Nat] /\ credited \in [Invoices -> Nat]
  /\ received \in Nat /\ banked \in [Receipts -> Nat]
  /\ lock \in [Invoices -> Sessions \cup {NoSession}]
  /\ share \in [Invoices -> SUBSET Sessions]
  /\ pc \in [Sessions -> {"idle", "paying", "paid", "crediting", "credited", "amending"}]
  /\ receipt \in [Sessions -> Receipts \cup {NoReceipt}]
  /\ amount \in [Sessions -> Nat] /\ target \in [Sessions -> Invoices]
  /\ before \in [Sessions -> [Invoices -> Row \cup {NotLoaded}]]
  /\ after \in [Sessions -> [Invoices -> Row \cup {NotLoaded}]]
  /\ plan \in [Sessions -> [Invoices -> Nat]]
  /\ summed \in [Sessions -> Nat]
  /\ overtaken \subseteq Invoices /\ begun \in 0 .. MaxTransactions

TypeOK == RowsOK /\ onAccount \in Nat

\* The row r of an invoice says what is open when settled has been paid or credited.
Agrees(r, settled) ==
  IF r.status = "CANCELLED" THEN r.outstanding = 0
  ELSE /\ r.outstanding = r.net - settled
       /\ r.status = StatusOf(r.net, r.outstanding)

\* What an invoice says is open is what was neither paid nor credited, nothing of a
\* cancelled one, and never less than nothing, however many payments, credit notes,
\* amendments and voids overlap and whatever balance an ERP payment quoted: unless a
\* transaction wrote it from a row or from sums that had changed since it read them.
\* Payments never do so for the sums, because they lock before they read them.
InvoiceAgrees ==
  \A i \in Invoices \ overtaken : Agrees(invoice[i], paid[i] + credited[i])

\* Money is conserved by every transaction: what was received is what was applied to
\* invoices and what is on account, even where invoices were over-settled.
Money == INSTANCE OnAccount WITH applied <- SumFunction(paid)

MoneyConserved == Money!Spec

\* Two transactions never allocate from the same balance: uncommitted allocations of
\* an invoice belong to the one transaction that holds it.
OneAllocator ==
  \A s, t \in Sessions, i \in Invoices : plan[s][i] > 0 /\ plan[t][i] > 0 => s = t

\* Whatever is open, an uninstructed payment has exactly one plan, oldest first, it is
\* the one the loop computes, and a larger payment never leaves an invoice with less.
PlanIsTheLoop ==
  \A s \in Sessions :
    LET out == Outstanding(s) IN
    \A a \in 0 .. SumFunction(Open(out)) + 1 :
      /\ OldestFirst(a, out) = {AllocateOldestFirst(a, out)}
      /\ \A i \in Invoices : AllocateOldestFirst(a, out)[i] <= AllocateOldestFirst(a + 1, out)[i]

\* "The same receipt fetched twice must not be banked twice" (ingestion/reconcile.py),
\* with two syncs that overlap, which trade/allocation.py calls the normal case.
BankedOnce == \A r \in Receipts : banked[r] <= 1
=============================================================================
