------------------------------ MODULE Accounts ------------------------------
(***************************************************************************)
(* What recovery knows of one invoice: its account and the state of its    *)
(* ladder (trade/accounts.py), brought into line by payments, by the ERP   *)
(* (ingestion/reconcile.py) and by people who raise and clear disputes     *)
(* (api/routes.py).  Transactions overlap: each loads the invoice, then    *)
(* the account with its ladder, and writes the columns it changed when it  *)
(* commits.  Ledger has the invoice itself in full; here it is what is     *)
(* billed, what is open and whether it was cancelled.                      *)
(***************************************************************************)
EXTENDS Integers

CONSTANTS Bookkeepers,  \* the sessions
          NoBookkeeper,
          MaxNet,       \* bound: what the invoice may amount to
          MaxActs       \* bound: how many transactions begin

VARIABLES
  bill, account, ladder,  \* the committed rows
  past,                   \* whether the due date is over
  holder,                 \* who holds the invoice FOR UPDATE
  act,                    \* the open transaction of each session
  disputed,               \* history: a dispute was raised, and not cleared or voided since
  outpaced,               \* history: a transaction overlapped one that takes no lock
  acts

avars == <<bill, account, ladder, past, holder, act, disputed, outpaced, acts>>

Bill == [net : 1 .. MaxNet, open : 0 .. MaxNet, cancelled : BOOLEAN]
AccountStatus == {"CURRENT", "OVERDUE", "IN_DISPUTE", "SETTLED", "WRITTEN_OFF"}
Account == [exists : BOOLEAN, open : 0 .. MaxNet, status : AccountStatus, reason : BOOLEAN]
Ladder == [exists : BOOLEAN, level : 1 .. 3, attempts : 0 .. 1, contacted : BOOLEAN,
           review : BOOLEAN]

NewAccount(b) == [exists |-> TRUE, open |-> b.open, status |-> "OVERDUE", reason |-> FALSE]
NoAccount == [exists |-> FALSE, open |-> 0, status |-> "OVERDUE", reason |-> FALSE]
NoLadder == [exists |-> FALSE, level |-> 1, attempts |-> 0, contacted |-> FALSE, review |-> FALSE]

\* A transaction: what it has loaded, and what that becomes once it is ready to commit.
NoAct(b) == [op |-> "none", ready |-> FALSE, raced |-> FALSE, bill |-> b, bill1 |-> b, account |-> NoAccount,
             account1 |-> NoAccount, ladder |-> NoLadder, ladder1 |-> NoLadder]
Blank == [net |-> 1, open |-> 0, cancelled |-> FALSE]

---------------------------------------------------------------------------
(* trade/accounts.py.                                                      *)

\* Mutant: a payment or an amendment lifts a dispute.
SyncedAnyway(a, l, b) ==
  LET was == IF a.exists THEN a ELSE NewAccount(b)
      status == IF b.open = 0 THEN "SETTLED" ELSE IF past THEN "OVERDUE" ELSE "CURRENT"
  IN [account |-> [was EXCEPT !.open = b.open, !.status = status],
      ladder |-> IF status = "SETTLED" THEN [l EXCEPT !.review = FALSE] ELSE l]

\* sync_account_from_invoice, with _stop_ladder and _reset_cadence: what becomes of the
\* account and of its ladder.
Synced(a, l, b) ==
  LET was == IF a.exists THEN a ELSE NewAccount(b)
      status == IF was.status = "IN_DISPUTE" THEN "IN_DISPUTE"
                ELSE IF b.open = 0 THEN "SETTLED" ELSE IF past THEN "OVERDUE" ELSE "CURRENT"
  IN [account |-> [was EXCEPT !.open = b.open, !.status = status],
      ladder |-> IF ~l.exists \/ status = "IN_DISPUTE" THEN l
                 ELSE IF status = "SETTLED" THEN [l EXCEPT !.review = FALSE]
                 ELSE IF b.open < was.open THEN [l EXCEPT !.attempts = 0, !.contacted = FALSE]
                 ELSE l]

\* _under_active_recovery.
UnderActiveRecovery(a, l) == /\ a.exists /\ a.status \notin {"SETTLED", "WRITTEN_OFF"}
                             /\ l.exists /\ (l.level # 1 \/ l.attempts > 0)

\* raise_dispute and clear_dispute.
Raised(a) == [a EXCEPT !.status = "IN_DISPUTE", !.reason = TRUE]
Cleared(a) == IF a.status # "IN_DISPUTE" THEN a
              ELSE [a EXCEPT !.status = IF a.open > 0 THEN "OVERDUE" ELSE "SETTLED", !.reason = FALSE]

\* create_invoice, and create_buyer with an amount: the account comes with the invoice.
\* One that comes from a file has none yet.
NewBill == [net |-> MaxNet, open |-> MaxNet, cancelled |-> FALSE]
Entered == Synced(NoAccount, NoLadder, NewBill).account

Init == /\ bill = NewBill /\ past = FALSE /\ account \in {NoAccount, Entered} /\ ladder = NoLadder
        /\ holder = NoBookkeeper /\ act = [s \in Bookkeepers |-> NoAct(Blank)]
        /\ disputed = FALSE /\ outpaced = FALSE /\ acts = 0

---------------------------------------------------------------------------
(* Transactions.                                                           *)

Start(s, op, b) ==
  /\ act[s].op = "none" /\ acts < MaxActs /\ acts' = acts + 1
  /\ act' = [act EXCEPT ![s] = [NoAct(bill) EXCEPT !.op = op, !.bill1 = b]]
  /\ UNCHANGED <<bill, account, ladder, past, disputed, outpaced>>

\* Mutant: the invoices of the buyer are read and not locked.
ReadInvoices(s) == UNCHANGED holder

\* invoice_refs with FOR UPDATE.
LockInvoices(s) == holder = NoBookkeeper /\ holder' = s

\* record_payment, and the payments of the ERP: what the plan gives this invoice.
Pay(s) == /\ ~bill.cancelled /\ LockInvoices(s)
          /\ \E a \in 1 .. MaxNet :
               a <= bill.open /\ Start(s, "pay", [bill EXCEPT !.open = @ - a])

\* sync_invoices, for an invoice that exists: recomputed, or taken out of the ledger.
Amend(s) == /\ \E n \in (1 .. MaxNet) \ {bill.net} :
                 Start(s, "amend", [bill EXCEPT !.net = n,
                   !.open = IF bill.cancelled THEN 0 ELSE @ + n - bill.net])
            /\ UNCHANGED holder
Void(s) == Start(s, "void", [bill EXCEPT !.open = 0, !.cancelled = TRUE]) /\ UNCHANGED holder

Dispute(s) == account.exists /\ Start(s, "dispute", bill) /\ UNCHANGED holder
Clear(s) == account.exists /\ Start(s, "clear", bill) /\ UNCHANGED holder

\* What a transaction makes of the account and the ladder as it finds them.
Outcome(t) ==
  CASE t.op = "pay" -> Synced(account, ladder, t.bill1)
    [] t.op = "amend" ->
         IF UnderActiveRecovery(account, ladder)
         THEN [account |-> account, ladder |-> [ladder EXCEPT !.review = TRUE]]
         ELSE Synced(account, ladder, t.bill1)
    [] t.op = "void" ->
         [account |-> IF account.exists THEN [account EXCEPT !.status = "WRITTEN_OFF"] ELSE account,
          ladder |-> ladder]
    [] t.op = "dispute" ->
         [account |-> Raised(account),
          ladder |-> IF ladder.exists THEN [ladder EXCEPT !.review = TRUE] ELSE ladder]
    [] t.op = "clear" -> [account |-> Cleared(account), ladder |-> ladder]

Project(s) ==
  LET t == act[s]
      to == Outcome(t)
      flagged == t.op = "amend" /\ UnderActiveRecovery(account, ladder)
  IN /\ t.op # "none" /\ ~t.ready
     /\ act' = [act EXCEPT ![s] =
          [t EXCEPT !.ready = TRUE, !.bill1 = IF flagged THEN t.bill ELSE @,
                    !.account = account, !.account1 = to.account,
                    !.ladder = ladder, !.ladder1 = to.ladder]]
     /\ UNCHANGED <<bill, account, ladder, past, holder, disputed, outpaced, acts>>

\* The columns that changed are written.
WriteBack(now, old, new) == [c \in DOMAIN now |-> IF new[c] = old[c] THEN now[c] ELSE new[c]]

Release(s) == holder' = IF holder = s THEN NoBookkeeper ELSE holder

\* It may end a dispute: it is about that, or it has not seen it.
EndsDispute(t) == t.op \in {"clear", "void"} \/ t.account.status # "IN_DISPUTE"

\* An UPDATE of the invoice waits for whoever holds it; an account is inserted once.
Commit(s) ==
  LET t == act[s]
      b == WriteBack(bill, t.bill, t.bill1)
      inserts == ~t.account.exists /\ t.account1.exists
  IN /\ t.ready
     /\ t.bill1 = t.bill \/ holder \in {s, NoBookkeeper}
     /\ Release(s)
     /\ act' = [r \in Bookkeepers |->
          IF r = s THEN NoAct(Blank)
          ELSE [act[r] EXCEPT !.raced = @ \/ (act[r].op # "none" /\ {t.op, act[r].op} # {"pay"})]]
     /\ IF b.open \notin 0 .. b.net \/ (inserts /\ account.exists)
        THEN UNCHANGED <<bill, account, ladder, disputed, outpaced>>
        ELSE /\ bill' = b
             /\ account' = WriteBack(account, t.account, t.account1)
             /\ ladder' = WriteBack(ladder, t.ladder, t.ladder1)
             /\ disputed' = (account'.status = "IN_DISPUTE" \/ (disputed /\ ~EndsDispute(t)))
             /\ outpaced' = (outpaced \/ (t.raced /\ t.op # "dispute"))
     /\ UNCHANGED <<past, acts>>

RollBack(s) == /\ act[s].op # "none" /\ Release(s)
               /\ act' = [act EXCEPT ![s] = NoAct(Blank)]
               /\ UNCHANGED <<bill, account, ladder, past, disputed, outpaced, acts>>

---------------------------------------------------------------------------
(* Meanwhile.                                                              *)

FallsDue == /\ ~past /\ past' = TRUE
            /\ UNCHANGED <<bill, account, ladder, holder, act, disputed, outpaced, acts>>

\* ensure_escalation_state, which has no caller in app/.
EnsureEscalation == /\ account.exists /\ ~ladder.exists
                    /\ ladder' = [NoLadder EXCEPT !.exists = TRUE]
                    /\ UNCHANGED <<bill, account, past, holder, act, disputed, outpaced, acts>>

\* A call was answered, or the debtor climbs a rung.
Contact == /\ ladder.exists /\ account.status = "OVERDUE"
           /\ \/ ladder' = [ladder EXCEPT !.attempts = 1, !.contacted = TRUE]
              \/ ladder.level = 1 /\ ladder' = [ladder EXCEPT !.level = 2, !.attempts = 0]
           /\ UNCHANGED <<bill, account, past, holder, act, disputed, outpaced, acts>>

Next == \/ \E s \in Bookkeepers : \/ Pay(s) \/ Amend(s) \/ Void(s) \/ Dispute(s) \/ Clear(s)
                                  \/ Project(s) \/ Commit(s) \/ RollBack(s)
        \/ FallsDue \/ EnsureEscalation \/ Contact

Spec == Init /\ [][Next]_avars

---------------------------------------------------------------------------
TypeOK == /\ bill \in Bill /\ account \in Account /\ ladder \in Ladder
          /\ past \in BOOLEAN /\ holder \in Bookkeepers \cup {NoBookkeeper}
          /\ acts \in 0 .. MaxActs

\* A dispute outranks what the ledger says: no payment and no amendment lifts it, unless
\* they had read the account before it was raised; only clearing it does, and the ERP
\* voiding the invoice (trade/accounts.py:69-72).
DisputeHeld == disputed => account.status = "IN_DISPUTE"

\* Once an invoice has an account, the two agree on what is open, and recovery of it is
\* over exactly when nothing is, however payments overlap: the lock of a payment covers
\* its account too.  What takes no lock must not overlap; a voided invoice keeps its last account figure.
AccountFollows ==
  account.exists /\ ~outpaced /\ account.status # "WRITTEN_OFF" /\ ~bill.cancelled =>
    /\ account.open = bill.open
    /\ account.status = "SETTLED" => bill.open = 0
    /\ bill.open = 0 => account.status \in {"SETTLED", "IN_DISPUTE"}
=============================================================================
