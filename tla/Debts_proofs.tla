---------------------------- MODULE Debts_proofs ----------------------------
(***************************************************************************)
(* Proofs about the debts themselves, for any number of bookkeepers, files *)
(* and operations, any amounts, any thresholds and any passing of days. A  *)
(* published listing is of something owed because whatever the ledger does *)
(* not know yet was paid after it was last reconciled (Late), and because  *)
(* nothing is published of which the debtor was not told (Told).           *)
(*                                                                         *)
(* A dispute is held, and the account follows its invoice, because of what *)
(* an overlapping transaction holds between its read and its write: what   *)
(* it read differs from what is there only as far as somebody else has     *)
(* written since (Fresh), what it will write follows from what it read     *)
(* (Decided), and a payment has the lock of the invoice (Locked).          *)
(*                                                                         *)
(* A file takes effect once because a transaction that has introduced a    *)
(* party has its code reserved (Reserved), introduces everything its rows  *)
(* introduce (Following), and so cannot commit what is there (Effects).    *)
(*                                                                         *)
(* At the end the types of all thirteen components are put together.       *)
(***************************************************************************)
EXTENDS Contacts_proofs, Companies_proofs, SequenceTheorems

---------------------------------------------------------------------------
(* Registry.                                                               *)

\* A notice was made for somebody who had been reached, and is out when a debt is public.
Told == /\ notice.status # "none" => debt.reached
        /\ Reg!Public => notice.status = "DISPATCHED"

\* What the ledger does not know yet was paid since it was reconciled.
Late == /\ debt.owed # debt.booked => debt.paid >= debt.reconciled
        /\ debt.owed <= debt.booked /\ debt.paid <= day /\ debt.reconciled <= day

\* What is proved together.
RegistryInv == Reg!TypeOK /\ Told /\ Late /\ Reg!ListedIsOwed

\* A debt starts owed and booked in full, unannounced and unlisted.
LEMMA InitRegistry == Reg!Init => RegistryInv
<1> SUFFICES ASSUME Reg!Init PROVE RegistryInv
  OBVIOUS
<1>1. PICK i, e \in BOOLEAN :
        debt = [owed |-> MaxOwed, paid |-> -1, booked |-> MaxOwed, payment |-> -1,
                reconciled |-> -1, status |-> "OVERDUE", disputed |-> FALSE,
                reached |-> FALSE, acknowledged |-> -1, invoice |-> i, entity |-> e]
  BY DEF Reg!Init, Reg!Never
<1>2. day = 0 /\ notice = Reg!NoNotice /\ listing = Reg!NoListing
  BY DEF Reg!Init
<1>3. MaxOwed \in Nat /\ MaxDay \in Nat /\ Response \in Nat
  BY RegistryAssumption, BoundAssumption
<1>4. debt \in Reg!Debt
  BY <1>1, <1>3 DEF Reg!Debt, Reg!Day, Reg!Never
<1>5. notice \in Reg!Notice /\ listing \in Reg!Listing
  BY <1>2, <1>3 DEF Reg!Notice, Reg!Listing, Reg!Day, Reg!Never, Reg!NoNotice, Reg!NoListing
<1>6. Reg!TypeOK
  BY <1>2, <1>3, <1>4, <1>5 DEF Reg!TypeOK
<1>7. Told /\ Reg!ListedIsOwed
  BY <1>2 DEF Told, Reg!ListedIsOwed, Reg!Public, Reg!NoNotice, Reg!NoListing
<1>8. Late
  BY <1>1, <1>2, <1>3 DEF Late
<1> QED BY <1>6, <1>7, <1>8 DEF RegistryInv

\* The debt changes, and nothing that is public depends on what changed.
LEMMA DebtStep ==
  ASSUME RegistryInv, Reg!Pay \/ Reg!Clear \/ Reg!Reach \/ Reg!Acknowledge
  PROVE  RegistryInv'
<1>1. /\ UNCHANGED <<day, notice, listing>> /\ debt \in Reg!Debt /\ day \in 0 .. MaxDay
      /\ MaxDay \in Nat /\ MaxOwed \in Nat
  BY BoundAssumption, RegistryAssumption
     DEF Reg!Pay, Reg!Clear, Reg!Reach, Reg!Acknowledge, RegistryInv, Reg!TypeOK
<1>2. /\ debt' \in Reg!Debt /\ debt'.disputed = debt.disputed /\ debt'.entity = debt.entity
      /\ debt'.booked = debt.booked /\ debt'.reconciled = debt.reconciled
      /\ debt.reached => debt'.reached
      /\ debt.status = "OVERDUE" => debt'.status = "OVERDUE"
      /\ \/ debt'.owed = debt.owed /\ debt'.paid = debt.paid
         \/ debt'.owed <= debt.owed /\ debt'.paid = day
  <2>1. CASE Reg!Pay
    <3>1. PICK n \in 1 .. debt.owed : debt' = [debt EXCEPT !.owed = @ - n, !.paid = day]
      BY <2>1 DEF Reg!Pay
    <3>2. debt.owed \in 0 .. MaxOwed /\ debt.owed - n \in 0 .. MaxOwed /\ day \in Reg!Day
      BY <1>1 DEF Reg!Debt, Reg!Day, Reg!Never
    <3>3. debt' \in Reg!Debt
      BY <1>1, <3>1, <3>2 DEF Reg!Debt
    <3>4. /\ debt'.disputed = debt.disputed /\ debt'.entity = debt.entity
          /\ debt'.booked = debt.booked /\ debt'.reconciled = debt.reconciled
          /\ debt'.reached = debt.reached /\ debt'.status = debt.status
          /\ debt'.owed = debt.owed - n /\ debt'.paid = day
      BY <1>1, <3>1 DEF Reg!Debt
    <3>5. debt.owed - n <= debt.owed
      BY <1>1 DEF Reg!Debt
    <3> QED BY <3>3, <3>4, <3>5
  <2>2. CASE Reg!Clear
    BY <1>1, <2>2 DEF Reg!Clear, Reg!Debt
  <2>3. CASE Reg!Reach
    BY <1>1, <2>3 DEF Reg!Reach, Reg!Debt
  <2>4. CASE Reg!Acknowledge
    <3>1. day \in Reg!Day
      BY <1>1 DEF Reg!Day, Reg!Never
    <3> QED BY <1>1, <2>4, <3>1 DEF Reg!Acknowledge, Reg!Debt
  <2> QED BY <2>1, <2>2, <2>3, <2>4
<1>3. Reg!TypeOK' /\ Told' /\ Reg!ListedIsOwed'
  BY <1>1, <1>2 DEF RegistryInv, Reg!TypeOK, Told, Reg!ListedIsOwed, Reg!Public
<1>4. Late'
  BY <1>1, <1>2 DEF RegistryInv, Late, Reg!Debt, Reg!Day, Reg!Never
<1> QED BY <1>3, <1>4 DEF RegistryInv

\* What is learnt of the debt takes the listing down, when that is a reason to.
LEMMA UnlistStep ==
  ASSUME RegistryInv, Reg!Reconcile \/ Reg!Dispute \/ Reg!Challenge \/ Reg!Withdraw
  PROVE  RegistryInv'
<1>1. /\ UNCHANGED <<day, notice>> /\ debt \in Reg!Debt /\ day \in 0 .. MaxDay
      /\ listing \in Reg!Listing /\ MaxDay \in Nat /\ MaxOwed \in Nat
  BY BoundAssumption, RegistryAssumption
     DEF Reg!Reconcile, Reg!Dispute, Reg!Challenge, Reg!Withdraw, RegistryInv, Reg!TypeOK
<1>2. \/ UNCHANGED listing
      \/ \E s \in {"DISPUTED", "DELISTED"} : listing' = [listing EXCEPT !.status = s]
  BY DEF Reg!Reconcile, Reg!Dispute, Reg!Challenge, Reg!Withdraw, Reg!Unlist
<1>3. listing' \in Reg!Listing /\ (Reg!Public' => Reg!Public /\ UNCHANGED listing)
  BY <1>1, <1>2 DEF Reg!Listing, Reg!Public
<1>4. /\ debt' \in Reg!Debt /\ debt'.owed = debt.owed /\ debt'.paid = debt.paid
      /\ debt'.reached = debt.reached
      /\ \/ debt'.booked = debt.booked /\ debt'.reconciled = debt.reconciled
         \/ debt'.booked = debt.owed /\ debt'.reconciled = day
      /\ Reg!Public' => /\ debt'.entity = debt.entity /\ debt'.disputed = debt.disputed
                        /\ debt.status = "OVERDUE" => debt'.status = "OVERDUE"
                        /\ debt.booked > 0 => debt'.booked > 0
  <2>1. CASE Reg!Reconcile
    <3>1. day \in Reg!Day
      BY <1>1 DEF Reg!Day, Reg!Never
    <3>2. /\ debt' \in Reg!Debt /\ debt'.owed = debt.owed /\ debt'.paid = debt.paid
          /\ debt'.reached = debt.reached /\ debt'.entity = debt.entity
          /\ debt'.disputed = debt.disputed
          /\ debt'.booked = debt.owed /\ debt'.reconciled = day
          /\ debt.owed # 0 => debt'.status = debt.status
      BY <1>1, <2>1, <3>1 DEF Reg!Reconcile, Reg!Debt
    <3>3. debt.owed = 0 => ~Reg!Public'
      BY <1>1, <2>1 DEF Reg!Reconcile, Reg!Unlist, Reg!ShouldDelist, Reg!Public, Reg!Listing
    <3>4. debt.owed \in 0 .. MaxOwed
      BY <1>1 DEF Reg!Debt
    <3> QED BY <1>1, <3>2, <3>3, <3>4
  <2>2. CASE Reg!Dispute
    <3>1. ~Reg!Public'
      BY <1>1, <2>2 DEF Reg!Dispute, Reg!Unlist, Reg!ShouldDelist, Reg!Public, Reg!Listing
    <3> QED BY <1>1, <2>2, <3>1 DEF Reg!Dispute, Reg!Debt
  <2>3. CASE Reg!Challenge
    <3>1. ~Reg!Public'
      BY <1>1, <2>3 DEF Reg!Challenge, Reg!Unlist, Reg!ShouldDelist, Reg!Public, Reg!Listing
    <3> QED BY <1>1, <2>3, <3>1 DEF Reg!Challenge, Reg!Debt
  <2>4. CASE Reg!Withdraw
    BY <1>1, <2>4 DEF Reg!Withdraw
  <2> QED BY <2>1, <2>2, <2>3, <2>4
<1>5. Reg!TypeOK' /\ Told'
  BY <1>1, <1>3, <1>4 DEF RegistryInv, Reg!TypeOK, Told
<1>6. Reg!ListedIsOwed'
  BY <1>1, <1>3, <1>4 DEF RegistryInv, Reg!ListedIsOwed
<1>7. Late'
  BY <1>1, <1>4 DEF RegistryInv, Late, Reg!Debt, Reg!Day, Reg!Never
<1> QED BY <1>5, <1>6, <1>7 DEF RegistryInv

\* A notice is drafted for somebody who was reached, goes out, is proved and answered.
LEMMA NoticeStep ==
  ASSUME RegistryInv, Reg!Draft \/ Reg!Dispatch \/ Reg!Prove \/ Reg!Respond
  PROVE  RegistryInv'
<1>1. /\ UNCHANGED <<day, debt, listing>> /\ notice \in Reg!Notice /\ day \in 0 .. MaxDay
      /\ MaxDay \in Nat /\ Response \in Nat
  BY BoundAssumption, RegistryAssumption
     DEF Reg!Draft, Reg!Dispatch, Reg!Prove, Reg!Respond, RegistryInv, Reg!TypeOK
<1>2. /\ notice' \in Reg!Notice
      /\ notice'.status # "none" => notice.status # "none" \/ debt.reached
      /\ notice.status = "DISPATCHED" =>
           /\ notice'.status = "DISPATCHED" /\ notice'.deadline = notice.deadline
           /\ notice.proof => notice'.proof
  <2>1. CASE Reg!Draft
    <3>1. debt.reached
      BY <2>1 DEF Reg!Draft, Reg!Assess
    <3> QED BY <1>1, <2>1, <3>1 DEF Reg!Draft, Reg!Notice
  <2>2. CASE Reg!Dispatch
    <3>1. day + Response \in -1 .. MaxDay + Response
      BY <1>1
    <3> QED BY <1>1, <2>2, <3>1 DEF Reg!Dispatch, Reg!Notice, Reg!Never
  <2>3. CASE Reg!Prove
    BY <1>1, <2>3 DEF Reg!Prove, Reg!Notice
  <2>4. CASE Reg!Respond
    BY <1>1, <2>4 DEF Reg!Respond, Reg!Notice
  <2> QED BY <2>1, <2>2, <2>3, <2>4
<1>3. Reg!TypeOK' /\ Told' /\ Late'
  BY <1>1, <1>2 DEF RegistryInv, Reg!TypeOK, Told, Late, Reg!Public
<1>4. Reg!ListedIsOwed'
  BY <1>1, <1>2 DEF RegistryInv, Told, Reg!ListedIsOwed, Reg!Public
<1> QED BY <1>3, <1>4 DEF RegistryInv

\* A listing is proposed, signed and published: then every gate was open.
LEMMA ListingStep ==
  ASSUME RegistryInv, Reg!Propose \/ Reg!SignOff \/ Reg!Publish
  PROVE  RegistryInv'
<1>1. /\ UNCHANGED <<day, debt, notice>> /\ debt \in Reg!Debt /\ day \in 0 .. MaxDay
      /\ listing \in Reg!Listing /\ MaxDay \in Nat /\ MaxOwed \in Nat /\ Recency \in Nat
      /\ Minimum \in Nat \ {0}
  BY BoundAssumption, RegistryAssumption
     DEF Reg!Propose, Reg!SignOff, Reg!Publish, RegistryInv, Reg!TypeOK
<1>2. CASE Reg!Propose \/ Reg!SignOff
  <2>1. listing' \in Reg!Listing /\ ~Reg!Public'
    <3>1. CASE Reg!Propose
      <4>1. Reg!NoListing \in Reg!Listing
        BY <1>1 DEF Reg!NoListing, Reg!Listing, Reg!Day, Reg!Never
      <4> QED BY <3>1, <4>1 DEF Reg!Propose, Reg!Public, Reg!Listing
    <3>2. CASE Reg!SignOff
      BY <1>1, <3>2 DEF Reg!SignOff, Reg!Public, Reg!Listing
    <3> QED BY <1>2, <3>1, <3>2
  <2> QED BY <1>1, <2>1 DEF RegistryInv, Reg!TypeOK, Told, Late, Reg!ListedIsOwed
<1>3. CASE Reg!Publish
  <2>1. Reg!Evaluate /\ listing' = [listing EXCEPT !.status = "PUBLISHED", !.on = day,
                                                   !.owed = debt.owed, !.paid = debt.paid]
    BY <1>3 DEF Reg!Publish
  <2>2. day \in Reg!Day /\ debt.paid \in Reg!Day /\ debt.owed \in 0 .. MaxOwed
        /\ debt.booked \in 0 .. MaxOwed /\ debt.reconciled \in Reg!Day
    BY <1>1 DEF Reg!Debt, Reg!Day, Reg!Never
  <2>3. /\ listing' \in Reg!Listing /\ listing'.on = day /\ listing'.owed = debt.owed
        /\ listing'.paid = debt.paid
    BY <1>1, <2>1, <2>2 DEF Reg!Listing
  <2>4. /\ debt.reached /\ debt.entity /\ ~debt.disputed /\ debt.status = "OVERDUE"
        /\ debt.booked >= Minimum /\ notice.proof /\ notice.status = "DISPATCHED"
        /\ day > notice.deadline /\ day - debt.reconciled <= Recency
    BY <2>1 DEF Reg!Evaluate, RegistryInv, Told
  <2>5. debt.owed < Minimum => day - debt.paid <= Recency
    BY <1>1, <2>2, <2>4 DEF RegistryInv, Late, Reg!Day, Reg!Never
  <2>6. Reg!ListedIsOwed'
    BY <1>1, <2>2, <2>3, <2>4, <2>5 DEF Reg!ListedIsOwed
  <2> QED BY <1>1, <2>3, <2>4, <2>6 DEF RegistryInv, Reg!TypeOK, Told, Late
<1> QED BY <1>2, <1>3

\* A day passes, and nothing becomes younger.
LEMMA DayStep == ASSUME RegistryInv, Reg!NextDay PROVE RegistryInv'
<1>1. /\ UNCHANGED <<debt, notice, listing>> /\ day' = day + 1 /\ day' \in 0 .. MaxDay
      /\ day \in 0 .. MaxDay /\ debt \in Reg!Debt /\ MaxDay \in Nat
  BY BoundAssumption DEF Reg!NextDay, RegistryInv, Reg!TypeOK
<1> QED BY <1>1 DEF RegistryInv, Reg!TypeOK, Told, Late, Reg!ListedIsOwed, Reg!Public, Reg!Debt,
                    Reg!Day, Reg!Never

\* The registry moves or is at rest.
LEMMA RegistryPart == Spec => Reg!Spec
<1>1. Init => Reg!Init
  BY DEF Init
<1>2. [Next]_vars => [Reg!Next]_(Reg!gvars)
  BY DEF Next, vars, AtRest, gvars, Reg!gvars
<1> QED BY <1>1, <1>2, PTL DEF Spec, Reg!Spec

\* The registry keeps its invariant.
LEMMA RegistryKept == Spec => []RegistryInv
<1>1. RegistryInv /\ [Reg!Next]_(Reg!gvars) => RegistryInv'
  <2> SUFFICES ASSUME RegistryInv, [Reg!Next]_(Reg!gvars) PROVE RegistryInv'
    OBVIOUS
  <2>1. CASE UNCHANGED Reg!gvars
    BY <2>1 DEF Reg!gvars, RegistryInv, Reg!TypeOK, Told, Late, Reg!ListedIsOwed, Reg!Public
  <2> QED BY <2>1, DebtStep, UnlistStep, NoticeStep, ListingStep, DayStep DEF Reg!Next
<1> QED BY InitRegistry, <1>1, RegistryPart, PTL DEF Reg!Spec

\* Whoever is published was reached, was given notice and time to answer, never disputed the
\* debt, and owed it on that day unless he paid since the ledger was reconciled: for any
\* thresholds (registry/eligibility.py).
THEOREM ListedOwes == Spec => []ListedIsOwed
<1>1. RegistryInv => ListedIsOwed
  BY DEF RegistryInv, ListedIsOwed
<1> QED BY <1>1, RegistryKept, PTL

---------------------------------------------------------------------------
(* Accounts.                                                               *)

\* What a transaction may be about to write: an amount that the commit may yet refuse.
RawBill == [net : 1 .. MaxNet, open : Int, cancelled : BOOLEAN]
RawAccount == [exists : BOOLEAN, open : Int, status : Acc!AccountStatus, reason : BOOLEAN]
Act == [op : {"none", "pay", "amend", "void", "dispute", "clear"}, ready : BOOLEAN,
        raced : BOOLEAN, bill : Acc!Bill, bill1 : RawBill, account : Acc!Account,
        account1 : RawAccount, ladder : Acc!Ladder, ladder1 : Acc!Ladder]

\* Recovery is over exactly when nothing is open.
Agrees(a, b) == /\ a.open = b.open
                /\ a.status = "SETTLED" => b.open = 0
                /\ b.open = 0 => a.status \in {"SETTLED", "IN_DISPUTE"}

\* What a transaction has loaded: accounts are never deleted, nor a void taken back.
Loaded(t, a, b) ==
  /\ t.op = "void" => t.bill1.cancelled
  /\ t.op # "void" => t.bill1.cancelled = t.bill.cancelled
  /\ t.op \in {"dispute", "clear"} => t.bill1 = t.bill /\ a.exists
  /\ t.bill.cancelled => b.cancelled
  /\ t.account.exists => a.exists
  /\ ~t.account.exists => t.account = Acc!NoAccount
  /\ t.account.status = "WRITTEN_OFF" => b.cancelled

\* What it is about to write.
Decided(t) ==
  /\ t.op # "none"
  /\ ~t.account1.exists => t.account1 = t.account
  /\ t.account.exists => t.account1.exists
  /\ t.op \notin {"clear", "void"} /\ t.account.status = "IN_DISPUTE"
       => t.account1.status = "IN_DISPUTE"
  /\ t.op # "void" /\ t.account1.status = "WRITTEN_OFF" => t.account.status = "WRITTEN_OFF"
  /\ t.account1.open \in {t.account.open, t.bill1.open}
  /\ t.op \in {"pay", "amend"} => \/ t.bill1 = t.bill /\ t.account1 = t.account
                                  \/ t.account1.exists /\ Agrees(t.account1, t.bill1)
  /\ t.op = "dispute" => t.account.exists /\ t.account1 = Acc!Raised(t.account)
  /\ t.op = "clear" => t.account.exists /\ t.account1 = Acc!Cleared(t.account)

\* Every transaction under way loaded the rows, or has also decided what to write.
Acts == /\ act \in [Hands -> Act]
        /\ \A s \in Hands : Loaded(act[s], account, bill) /\ (act[s].ready => Decided(act[s]))

\* A payment holds the invoice, so that payments do not overlap; and whoever overlapped
\* nobody has read what is still there.
Locked == \A s \in Hands : act[s].op = "pay" => holder = s
\* Unless somebody wrote since (raced), what was loaded is what is there.
Fresh == \A s \in Hands : act[s].op # "none" /\ ~act[s].raced =>
           act[s].bill = bill /\ (act[s].ready => act[s].account = account)

\* Nothing is known of an account there is not, and one is written off with its invoice.
Entries == /\ ~account.exists => account = Acc!NoAccount
           /\ account.status = "WRITTEN_OFF" => bill.cancelled

\* What is proved together.
AccountInv == /\ Acc!TypeOK /\ Acts /\ Locked /\ Fresh /\ Entries
              /\ Acc!DisputeHeld /\ Acc!AccountFollows

---------------------------------------------------------------------------
\* The bounds are numbers.
LEMMA Nets == MaxNet \in Nat /\ MaxNet >= 1 /\ MaxActs \in Nat
BY BoundAssumption

\* A transaction that has not begun, and an account that is not there, are well formed.
LEMMA Blanks == /\ Acc!NoAct(Acc!Blank) \in Act /\ Acc!NoAccount \in Acc!Account
                /\ Acc!NoLadder \in Acc!Ladder /\ Acc!Account \subseteq RawAccount
                /\ Acc!Bill \subseteq RawBill
BY Nets DEF Acc!NoAct, Acc!Blank, Act, Acc!NoAccount, Acc!Account, Acc!NoLadder, Acc!Ladder,
            Acc!AccountStatus, Acc!Bill, RawBill, RawAccount

\* Only the columns that changed are written.
LEMMA WrittenAccount ==
  ASSUME NEW now \in Acc!Account, NEW old \in Acc!Account, NEW new \in RawAccount
  PROVE  Acc!WriteBack(now, old, new) =
           [exists |-> IF new.exists = old.exists THEN now.exists ELSE new.exists,
            open |-> IF new.open = old.open THEN now.open ELSE new.open,
            status |-> IF new.status = old.status THEN now.status ELSE new.status,
            reason |-> IF new.reason = old.reason THEN now.reason ELSE new.reason]
BY DEF Acc!WriteBack, Acc!Account, RawAccount

\* Only changed columns are written: what was not changed keeps its committed value.
LEMMA WrittenColumns ==
  ASSUME NEW now \in Acc!Account, NEW old \in Acc!Account, NEW new \in RawAccount,
         NEW a, a = Acc!WriteBack(now, old, new)
  PROVE  /\ a.exists = IF new.exists = old.exists THEN now.exists ELSE new.exists
         /\ a.open = IF new.open = old.open THEN now.open ELSE new.open
         /\ a.status = IF new.status = old.status THEN now.status ELSE new.status
BY WrittenAccount

\* The same of an invoice.
LEMMA WrittenBill ==
  ASSUME NEW now \in Acc!Bill, NEW old \in Acc!Bill, NEW new \in RawBill
  PROVE  Acc!WriteBack(now, old, new) =
           [net |-> IF new.net = old.net THEN now.net ELSE new.net,
            open |-> IF new.open = old.open THEN now.open ELSE new.open,
            cancelled |-> IF new.cancelled = old.cancelled THEN now.cancelled ELSE new.cancelled]
BY DEF Acc!WriteBack, Acc!Bill, RawBill

\* The same of a ladder.
LEMMA WrittenLadder ==
  ASSUME NEW now \in Acc!Ladder, NEW old \in Acc!Ladder, NEW new \in Acc!Ladder
  PROVE  Acc!WriteBack(now, old, new) \in Acc!Ladder
<1>1. Acc!WriteBack(now, old, new) =
        [exists |-> IF new.exists = old.exists THEN now.exists ELSE new.exists,
         level |-> IF new.level = old.level THEN now.level ELSE new.level,
         attempts |-> IF new.attempts = old.attempts THEN now.attempts ELSE new.attempts,
         contacted |-> IF new.contacted = old.contacted THEN now.contacted ELSE new.contacted,
         review |-> IF new.review = old.review THEN now.review ELSE new.review]
  BY DEF Acc!WriteBack, Acc!Ladder
<1> QED BY <1>1 DEF Acc!Ladder

\* What synchronising makes of an account agrees with the invoice, and lifts no dispute.
LEMMA SyncedAccount ==
  ASSUME NEW a \in Acc!Account, NEW l \in Acc!Ladder, NEW b \in RawBill, past \in BOOLEAN,
         ~a.exists => a = Acc!NoAccount
  PROVE  LET r == Acc!Synced(a, l, b) IN
         /\ r.account \in RawAccount /\ r.ladder \in Acc!Ladder
         /\ r.account.exists /\ Agrees(r.account, b)
         /\ a.status = "IN_DISPUTE" => r.account.status = "IN_DISPUTE"
         /\ r.account.status # "WRITTEN_OFF"
<1> DEFINE was == IF a.exists THEN a ELSE Acc!NewAccount(b)
           status == IF was.status = "IN_DISPUTE" THEN "IN_DISPUTE"
                     ELSE IF b.open = 0 THEN "SETTLED" ELSE IF past THEN "OVERDUE" ELSE "CURRENT"
           r == Acc!Synced(a, l, b)
<1>1. was \in RawAccount /\ was.exists /\ (a.status = "IN_DISPUTE" => was.status = "IN_DISPUTE")
  BY DEF Acc!NewAccount, RawAccount, RawBill, Acc!Account, Acc!AccountStatus, Acc!NoAccount
<1>2. r.account = [was EXCEPT !.open = b.open, !.status = status]
  BY DEF Acc!Synced
<1>3. r.ladder \in Acc!Ladder
  <2>1. [l EXCEPT !.review = FALSE] \in Acc!Ladder
    BY DEF Acc!Ladder
  <2>2. [l EXCEPT !.attempts = 0, !.contacted = FALSE] \in Acc!Ladder
    <3> DEFINE m == [l EXCEPT !.attempts = 0]
    <3>1. m \in Acc!Ladder
      BY DEF Acc!Ladder
    <3> HIDE DEF m
    <3>2. [m EXCEPT !.contacted = FALSE] \in Acc!Ladder
      BY <3>1 DEF Acc!Ladder
    <3> QED BY <3>2 DEF m
  <2> QED BY <2>1, <2>2 DEF Acc!Synced
<1> HIDE DEF was, r
<1>4. status \in Acc!AccountStatus
  BY DEF Acc!AccountStatus
<1>5. /\ r.account \in RawAccount /\ r.account.exists /\ r.account.open = b.open
      /\ r.account.status = status
  BY <1>1, <1>2, <1>4 DEF RawAccount, RawBill
<1>6. /\ status # "WRITTEN_OFF"
      /\ status = "SETTLED" => b.open = 0
      /\ b.open = 0 => status \in {"SETTLED", "IN_DISPUTE"}
      /\ a.status = "IN_DISPUTE" => status = "IN_DISPUTE"
  BY <1>1
<1> HIDE DEF status
<1>7. Agrees(r.account, b)
  BY <1>5, <1>6 DEF Agrees
<1> QED BY <1>3, <1>5, <1>6, <1>7 DEF r

\* A session with no transaction has loaded nothing.
LEMMA BlankLoaded ==
  ASSUME NEW a, NEW b
  PROVE  /\ Loaded(Acc!NoAct(Acc!Blank), a, b) /\ ~Acc!NoAct(Acc!Blank).ready
         /\ Acc!NoAct(Acc!Blank).op = "none"
<1>1. Acc!NoAct(Acc!Blank)
        = [op |-> "none", ready |-> FALSE, raced |-> FALSE, bill |-> Acc!Blank,
           bill1 |-> Acc!Blank, account |-> Acc!NoAccount, account1 |-> Acc!NoAccount,
           ladder |-> Acc!NoLadder, ladder1 |-> Acc!NoLadder]
  BY DEF Acc!NoAct
<1>2. ~Acc!Blank.cancelled /\ ~Acc!NoAccount.exists /\ Acc!NoAccount.status = "OVERDUE"
  BY DEF Acc!Blank, Acc!NoAccount
<1> QED BY <1>1, <1>2 DEF Loaded

\* Nothing is under way, and the account agrees with its invoice or is not there.
LEMMA InitAccounts == Acc!Init => AccountInv
<1> SUFFICES ASSUME Acc!Init PROVE AccountInv
  OBVIOUS
<1>1. /\ bill = Acc!NewBill /\ past = FALSE /\ account \in {Acc!NoAccount, Acc!Entered}
      /\ ladder = Acc!NoLadder /\ holder = Nobody
      /\ act = [s \in Hands |-> Acc!NoAct(Acc!Blank)]
      /\ disputed = FALSE /\ outpaced = FALSE /\ acts = 0
  BY DEF Acc!Init
<1>2. bill \in Acc!Bill /\ bill.open = MaxNet
  BY <1>1, Nets DEF Acc!NewBill, Acc!Bill
<1>3. Acc!Entered \in Acc!Account /\ Acc!Entered.exists /\ Acc!Entered.open = MaxNet
      /\ Acc!Entered.status = "CURRENT"
  <2>1. ~Acc!NoAccount.exists
    BY DEF Acc!NoAccount
  <2>2. Acc!NewBill.open = MaxNet /\ MaxNet # 0
    BY Nets DEF Acc!NewBill
  <2> DEFINE n == Acc!NewAccount(Acc!NewBill)
             m == [n EXCEPT !.open = MaxNet]
  <2>3. n \in Acc!Account /\ n.exists /\ n.status = "OVERDUE"
    BY <2>2, Nets DEF Acc!NewAccount, Acc!Account, Acc!AccountStatus
  <2>4. Acc!Entered = [m EXCEPT !.status = "CURRENT"]
    BY <1>1, <2>1, <2>2, <2>3 DEF Acc!Entered, Acc!Synced
  <2> HIDE DEF n
  <2>5. m \in Acc!Account /\ m.exists /\ m.open = MaxNet
    BY <2>3, Nets DEF Acc!Account
  <2> HIDE DEF m
  <2> QED BY <2>4, <2>5 DEF Acc!Account, Acc!AccountStatus
<1>4. account \in Acc!Account /\ Entries /\ account.status # "WRITTEN_OFF"
  <2>1. CASE account = Acc!NoAccount
    BY <2>1, Blanks DEF Acc!NoAccount, Entries
  <2>2. CASE account = Acc!Entered
    BY <1>3, <2>2 DEF Entries
  <2> QED BY <1>1, <2>1, <2>2
<1>5. account.exists => account.open = bill.open /\ account.status = "CURRENT" /\ bill.open # 0
  BY <1>1, <1>2, <1>3, Nets DEF Acc!NoAccount
<1>6. Acc!TypeOK
  <2>1. acts \in 0 .. MaxActs
    BY <1>1, Nets
  <2>2. past \in BOOLEAN /\ holder \in Hands \cup {Nobody}
    BY <1>1
  <2> QED BY <1>1, <1>2, <1>4, <2>1, <2>2, Blanks DEF Acc!TypeOK
<1>7. \A s \in Hands : /\ act[s] = Acc!NoAct(Acc!Blank) /\ act[s] \in Act
                       /\ Loaded(act[s], account, bill) /\ ~act[s].ready /\ act[s].op = "none"
  <2> SUFFICES ASSUME NEW s \in Hands
      PROVE  /\ act[s] = Acc!NoAct(Acc!Blank) /\ act[s] \in Act
             /\ Loaded(act[s], account, bill) /\ ~act[s].ready /\ act[s].op = "none"
    OBVIOUS
  <2>1. act[s] = Acc!NoAct(Acc!Blank)
    BY <1>1
  <2> QED BY <2>1, Blanks, BlankLoaded
<1>8. Acts /\ Locked /\ Fresh
  BY <1>1, <1>7 DEF Acts, Locked, Fresh
<1>9. Acc!DisputeHeld /\ Acc!AccountFollows
  BY <1>1, <1>5 DEF Acc!DisputeHeld, Acc!AccountFollows
<1> QED BY <1>4, <1>6, <1>8, <1>9 DEF AccountInv

\* A transaction starts: it has loaded the invoice, and a payment has locked it.
LEMMA StartStep ==
  ASSUME AccountInv, NEW s \in Hands,
         Acc!Pay(s) \/ Acc!Amend(s) \/ Acc!Void(s) \/ Acc!Dispute(s) \/ Acc!Clear(s)
  PROVE  AccountInv'
<1>1. /\ UNCHANGED <<bill, account, ladder, past, disputed, outpaced>> /\ acts' = acts + 1
      /\ act[s].op = "none" /\ acts < MaxActs
  BY DEF Acc!Pay, Acc!Amend, Acc!Void, Acc!Dispute, Acc!Clear, Acc!Start
<1>2. bill \in Acc!Bill /\ acts \in 0 .. MaxActs
  BY DEF AccountInv, Acc!TypeOK
<1>3. PICK op \in {"pay", "amend", "void", "dispute", "clear"}, b \in RawBill :
        /\ act' = [act EXCEPT ![s] = [Acc!NoAct(bill) EXCEPT !.op = op, !.bill1 = b]]
        /\ op = "void" => b.cancelled
        /\ op # "void" => b.cancelled = bill.cancelled
        /\ op \in {"dispute", "clear"} => b = bill /\ account.exists
        /\ op = "pay" => holder = Nobody /\ holder' = s
        /\ op # "pay" => UNCHANGED holder
  <2>1. CASE Acc!Pay(s)
    <3>1. PICK a \in 1 .. MaxNet : a <= bill.open /\ Acc!Start(s, "pay", [bill EXCEPT !.open = @ - a])
      BY <2>1 DEF Acc!Pay
    <3>2. [bill EXCEPT !.open = @ - a] \in RawBill
      BY <1>2, <3>1, Nets DEF Acc!Bill, RawBill
    <3>3. [bill EXCEPT !.open = @ - a].cancelled = bill.cancelled
      BY <1>2 DEF Acc!Bill
    <3> QED BY <2>1, <3>1, <3>2, <3>3 DEF Acc!Pay, Acc!Start, Acc!LockInvoices
  <2>2. CASE Acc!Amend(s)
    <3>1. PICK n \in 1 .. MaxNet : Acc!Start(s, "amend", [bill EXCEPT !.net = n,
                   !.open = IF bill.cancelled THEN 0 ELSE @ + n - bill.net])
      BY <2>2 DEF Acc!Amend
    <3> DEFINE o == IF bill.cancelled THEN 0 ELSE bill.open + n - bill.net
               b == [bill EXCEPT !.net = n, !.open = o]
    <3>2. o \in Int
      BY <1>2, Nets DEF Acc!Bill
    <3>3. b \in RawBill /\ b.cancelled = bill.cancelled
      BY <1>2, <3>2 DEF Acc!Bill, RawBill
    <3>4. Acc!Start(s, "amend", b)
      BY <3>1
    <3> HIDE DEF b
    <3> QED BY <2>2, <3>3, <3>4 DEF Acc!Amend, Acc!Start
  <2>3. CASE Acc!Void(s)
    <3>1. [bill EXCEPT !.open = 0, !.cancelled = TRUE] \in RawBill
      <4> DEFINE v == [bill EXCEPT !.open = 0]
      <4>1. v \in RawBill
        BY <1>2 DEF Acc!Bill, RawBill
      <4> HIDE DEF v
      <4>2. [v EXCEPT !.cancelled = TRUE] \in RawBill
        BY <4>1 DEF RawBill
      <4> QED BY <4>2 DEF v
    <3>2. [bill EXCEPT !.open = 0, !.cancelled = TRUE].cancelled = TRUE
      BY <1>2 DEF Acc!Bill
    <3> QED BY <2>3, <3>1, <3>2 DEF Acc!Void, Acc!Start
  <2>4. CASE Acc!Dispute(s)
    BY <1>2, <2>4, Blanks DEF Acc!Dispute, Acc!Start
  <2>5. CASE Acc!Clear(s)
    BY <1>2, <2>5, Blanks DEF Acc!Clear, Acc!Start
  <2> QED BY <2>1, <2>2, <2>3, <2>4, <2>5
<1> DEFINE t == [Acc!NoAct(bill) EXCEPT !.op = op, !.bill1 = b]
<1>4. /\ t \in Act /\ t.op = op /\ ~t.ready /\ ~t.raced /\ t.bill = bill /\ t.bill1 = b
      /\ t.account = Acc!NoAccount
  <2> DEFINE n == Acc!NoAct(bill)
             u == [n EXCEPT !.op = op]
  <2>1. /\ n \in Act /\ ~n.ready /\ ~n.raced /\ n.bill = bill /\ n.account = Acc!NoAccount
    BY <1>2, Blanks DEF Acc!NoAct, Act
  <2>2. t = [u EXCEPT !.bill1 = b]
    OBVIOUS
  <2> HIDE DEF n, t
  <2>3. u \in Act /\ u.op = op /\ ~u.ready /\ ~u.raced /\ u.bill = bill /\ u.account = Acc!NoAccount
    BY <2>1 DEF Act
  <2> HIDE DEF u
  <2> QED BY <2>2, <2>3 DEF Act
<1>6. Loaded(t, account, bill) /\ ~t.ready /\ t.op = op /\ t.bill = bill
  <2>1. ~Acc!NoAccount.exists /\ Acc!NoAccount.status = "OVERDUE"
    BY DEF Acc!NoAccount
  <2> HIDE DEF t
  <2> QED BY <1>3, <1>4, <2>1 DEF Loaded
<1>7. act \in [Hands -> Act] /\ act' = [act EXCEPT ![s] = t]
  BY <1>3 DEF AccountInv, Acts
<1> HIDE DEF t
<1>8. act' \in [Hands -> Act] /\ \A r \in Hands : act'[r] = IF r = s THEN t ELSE act[r]
  BY <1>4, <1>7
<1>9. \A r \in Hands : Loaded(act'[r], account', bill') /\ (act'[r].ready => Decided(act'[r]))
  BY <1>1, <1>6, <1>8 DEF AccountInv, Acts
<1>10. Acts'
  BY <1>8, <1>9 DEF Acts, Loaded, Decided
<1>11. Locked' /\ holder' \in Hands \cup {Nobody}
  BY <1>3, <1>6, <1>8, NobodyIsNobody DEF AccountInv, Locked, Acc!TypeOK
<1>12. Fresh'
  BY <1>1, <1>6, <1>8 DEF AccountInv, Fresh
<1>13. Acc!TypeOK'
  BY <1>1, <1>2, <1>11, Nets DEF AccountInv, Acc!TypeOK
<1>14. Entries' /\ Acc!DisputeHeld' /\ Acc!AccountFollows'
  BY <1>1 DEF AccountInv, Entries, Acc!DisputeHeld, Acc!AccountFollows
<1> QED BY <1>10, <1>11, <1>12, <1>13, <1>14 DEF AccountInv

\* Raising a dispute and clearing one leave the amount, and the account, alone.
LEMMA RaisedAccount ==
  ASSUME NEW a \in RawAccount
  PROVE  LET r == Acc!Raised(a) IN
         /\ r \in RawAccount /\ r.exists = a.exists /\ r.open = a.open /\ r.status = "IN_DISPUTE"
<1> DEFINE m == [a EXCEPT !.status = "IN_DISPUTE"]
<1>1. m \in RawAccount /\ m.exists = a.exists /\ m.open = a.open /\ m.status = "IN_DISPUTE"
  BY DEF RawAccount, Acc!AccountStatus
<1>2. Acc!Raised(a) = [m EXCEPT !.reason = TRUE]
  BY DEF Acc!Raised
<1> HIDE DEF m
<1> QED BY <1>1, <1>2 DEF RawAccount

\* What clear_dispute makes of an account.
LEMMA ClearedAccount ==
  ASSUME NEW a \in RawAccount
  PROVE  LET r == Acc!Cleared(a) IN
         /\ r \in RawAccount /\ r.exists = a.exists /\ r.open = a.open
         /\ a.status # "IN_DISPUTE" => r = a
         /\ a.status = "IN_DISPUTE" =>
              r.status = IF a.open > 0 THEN "OVERDUE" ELSE "SETTLED"
<1> DEFINE to == IF a.open > 0 THEN "OVERDUE" ELSE "SETTLED"
           m == [a EXCEPT !.status = to]
<1>1. to \in Acc!AccountStatus
  BY DEF Acc!AccountStatus
<1>2. Acc!Cleared(a) = IF a.status # "IN_DISPUTE" THEN a ELSE [m EXCEPT !.reason = FALSE]
  BY DEF Acc!Cleared
<1> HIDE DEF to
<1>3. m \in RawAccount /\ m.exists = a.exists /\ m.open = a.open /\ m.status = to
  BY <1>1 DEF RawAccount
<1> HIDE DEF m
<1>4. LET n == [m EXCEPT !.reason = FALSE] IN
      n \in RawAccount /\ n.exists = a.exists /\ n.open = a.open /\ n.status = to
  BY <1>3 DEF RawAccount
<1> QED BY <1>2, <1>4 DEF to

\* What a transaction becomes once it has loaded the account and decided.
Ready(t, b, a, a1, l, l1) ==
  [t EXCEPT !.ready = TRUE, !.bill1 = b, !.account = a, !.account1 = a1, !.ladder = l,
            !.ladder1 = l1]

\* A transaction that has projected its invoice on the account is decided.
LEMMA Readied ==
  ASSUME NEW t \in Act, NEW b \in RawBill, NEW a \in Acc!Account, NEW a1 \in RawAccount,
         NEW l \in Acc!Ladder, NEW l1 \in Acc!Ladder
  PROVE  LET u == Ready(t, b, a, a1, l, l1) IN
         /\ u \in Act /\ u.op = t.op /\ u.ready /\ u.raced = t.raced /\ u.bill = t.bill
         /\ u.bill1 = b /\ u.account = a /\ u.account1 = a1
<1> DEFINE u1 == [t EXCEPT !.ready = TRUE]
           u2 == [u1 EXCEPT !.bill1 = b]
           u3 == [u2 EXCEPT !.account = a]
           u4 == [u3 EXCEPT !.account1 = a1]
           u5 == [u4 EXCEPT !.ladder = l]
           u6 == [u5 EXCEPT !.ladder1 = l1]
<1>1. u1 \in Act /\ u1.op = t.op /\ u1.ready /\ u1.raced = t.raced /\ u1.bill = t.bill
  BY DEF Act
<1> HIDE DEF u1
<1>2. u2 \in Act /\ u2.op = t.op /\ u2.ready /\ u2.raced = t.raced /\ u2.bill = t.bill
      /\ u2.bill1 = b
  BY <1>1 DEF Act
<1> HIDE DEF u2
<1>3. u3 \in Act /\ u3.op = t.op /\ u3.ready /\ u3.raced = t.raced /\ u3.bill = t.bill
      /\ u3.bill1 = b /\ u3.account = a
  BY <1>2 DEF Act
<1> HIDE DEF u3
<1>4. u4 \in Act /\ u4.op = t.op /\ u4.ready /\ u4.raced = t.raced /\ u4.bill = t.bill
      /\ u4.bill1 = b /\ u4.account = a /\ u4.account1 = a1
  BY <1>3 DEF Act
<1> HIDE DEF u4
<1>5. u5 \in Act /\ u5.op = t.op /\ u5.ready /\ u5.raced = t.raced /\ u5.bill = t.bill
      /\ u5.bill1 = b /\ u5.account = a /\ u5.account1 = a1
  BY <1>4 DEF Act
<1> HIDE DEF u5
<1>6. u6 \in Act /\ u6.op = t.op /\ u6.ready /\ u6.raced = t.raced /\ u6.bill = t.bill
      /\ u6.bill1 = b /\ u6.account = a /\ u6.account1 = a1
  BY <1>5 DEF Act
<1>7. Ready(t, b, a, a1, l, l1) = u6
  BY DEF Ready, u1, u2, u3, u4, u5
<1> HIDE DEF u6
<1> QED BY <1>6, <1>7

\* What each transaction makes of the account and of its ladder.
LEMMA Outcomes ==
  ASSUME AccountInv, NEW s \in Hands, act[s].op # "none",
         NEW to, to = Acc!Outcome(act[s])
  PROVE  LET t == act[s]
             flagged == t.op = "amend" /\ Acc!UnderActiveRecovery(account, ladder) IN
         /\ to.account \in RawAccount /\ to.ladder \in Acc!Ladder
         /\ ~to.account.exists => to.account = account
         /\ account.exists => to.account.exists
         /\ t.op \notin {"clear", "void"} /\ account.status = "IN_DISPUTE"
              => to.account.status = "IN_DISPUTE"
         /\ t.op # "void" /\ to.account.status = "WRITTEN_OFF" => account.status = "WRITTEN_OFF"
         /\ to.account.open \in {account.open, t.bill1.open}
         /\ flagged => to.account = account
         /\ t.op \in {"pay", "amend"} /\ ~flagged
              => to.account.exists /\ Agrees(to.account, t.bill1)
         /\ t.op = "dispute" => account.exists /\ to.account = Acc!Raised(account)
         /\ t.op = "clear" => account.exists /\ to.account = Acc!Cleared(account)
<1> DEFINE t == act[s]
           flagged == t.op = "amend" /\ Acc!UnderActiveRecovery(account, ladder)
<1>1. t \in Act /\ t.op # "none" /\ (t.op \in {"dispute", "clear"} => account.exists)
  BY DEF AccountInv, Acts, Loaded
<1>2. /\ account \in Acc!Account /\ ladder \in Acc!Ladder /\ past \in BOOLEAN
      /\ ~account.exists => account = Acc!NoAccount
  BY DEF AccountInv, Acc!TypeOK, Entries
<1>3. t.bill1 \in RawBill /\ t.op \in {"pay", "amend", "void", "dispute", "clear"}
  BY <1>1 DEF Act
<1>4. account \in RawAccount
  BY <1>2, Blanks
<1>5. [ladder EXCEPT !.review = TRUE] \in Acc!Ladder
  BY <1>2 DEF Acc!Ladder
<1> HIDE DEF t
<1>6. CASE t.op = "pay" \/ (t.op = "amend" /\ ~flagged)
  <2>1. to = Acc!Synced(account, ladder, t.bill1)
    BY <1>6 DEF Acc!Outcome, t
  <2> QED BY <1>2, <1>3, <1>6, <2>1, SyncedAccount DEF Agrees, t
<1>7. CASE flagged
  <2>1. to = [account |-> account, ladder |-> [ladder EXCEPT !.review = TRUE]]
    BY <1>7 DEF Acc!Outcome, t
  <2>2. to.account = account /\ to.ladder = [ladder EXCEPT !.review = TRUE]
    BY <2>1
  <2> QED BY <1>4, <1>5, <1>7, <2>2 DEF t
<1>8. CASE t.op = "void"
  <2>1. to = [account |-> IF account.exists THEN [account EXCEPT !.status = "WRITTEN_OFF"]
                          ELSE account,
              ladder |-> ladder]
    BY <1>8 DEF Acc!Outcome, t
  <2>2. to.account = (IF account.exists THEN [account EXCEPT !.status = "WRITTEN_OFF"] ELSE account)
        /\ to.ladder = ladder
    BY <2>1
  <2>3. LET w == [account EXCEPT !.status = "WRITTEN_OFF"] IN
        w \in RawAccount /\ w.exists = account.exists /\ w.open = account.open
    BY <1>4 DEF RawAccount, Acc!AccountStatus
  <2> QED BY <1>2, <1>4, <1>8, <2>2, <2>3 DEF t
<1>9. CASE t.op = "dispute"
  <2>1. to = [account |-> Acc!Raised(account),
              ladder |-> IF ladder.exists THEN [ladder EXCEPT !.review = TRUE] ELSE ladder]
    BY <1>9 DEF Acc!Outcome, t
  <2>2. to.account = Acc!Raised(account) /\ to.ladder \in Acc!Ladder
    BY <1>2, <1>5, <2>1
  <2>3. to.account \in RawAccount /\ to.account.exists = account.exists
        /\ to.account.open = account.open /\ to.account.status = "IN_DISPUTE"
    BY <1>4, <2>2, RaisedAccount
  <2> QED BY <1>1, <1>9, <2>2, <2>3 DEF t
<1>10. CASE t.op = "clear"
  <2>1. to = [account |-> Acc!Cleared(account), ladder |-> ladder]
    BY <1>10 DEF Acc!Outcome, t
  <2>2. to.account = Acc!Cleared(account) /\ to.ladder \in Acc!Ladder
    BY <1>2, <2>1
  <2>3. /\ to.account \in RawAccount /\ to.account.exists = account.exists
        /\ to.account.open = account.open
        /\ to.account.status = "WRITTEN_OFF" => account.status = "WRITTEN_OFF"
    BY <1>4, <2>2, ClearedAccount
  <2> QED BY <1>1, <1>10, <2>2, <2>3 DEF t
<1> QED BY <1>3, <1>6, <1>7, <1>8, <1>9, <1>10

\* A transaction is ready to commit.
LEMMA ProjectStep ==
  ASSUME AccountInv, NEW s \in Hands, Acc!Project(s)
  PROVE  AccountInv'
<1> DEFINE t == act[s]
           to == Acc!Outcome(t)
           flagged == t.op = "amend" /\ Acc!UnderActiveRecovery(account, ladder)
           b == IF flagged THEN t.bill ELSE t.bill1
           u == [t EXCEPT !.ready = TRUE, !.bill1 = b, !.account = account,
                          !.account1 = to.account, !.ladder = ladder, !.ladder1 = to.ladder]
<1>1. /\ UNCHANGED <<bill, account, ladder, past, holder, disputed, outpaced, acts>>
      /\ t.op # "none" /\ act' = [act EXCEPT ![s] = u]
  BY DEF Acc!Project
<1>2. /\ t \in Act /\ act \in [Hands -> Act] /\ Loaded(t, account, bill)
      /\ t.bill \in RawBill /\ t.bill1 \in RawBill
  BY Blanks DEF AccountInv, Acts, Act
<1>3. /\ account \in Acc!Account /\ ladder \in Acc!Ladder
      /\ ~account.exists => account = Acc!NoAccount
      /\ account.status = "WRITTEN_OFF" => bill.cancelled
  BY DEF AccountInv, Acc!TypeOK, Entries
<1>4. /\ to.account \in RawAccount /\ to.ladder \in Acc!Ladder
      /\ ~to.account.exists => to.account = account
      /\ account.exists => to.account.exists
      /\ t.op \notin {"clear", "void"} /\ account.status = "IN_DISPUTE"
           => to.account.status = "IN_DISPUTE"
      /\ t.op # "void" /\ to.account.status = "WRITTEN_OFF" => account.status = "WRITTEN_OFF"
      /\ to.account.open \in {account.open, t.bill1.open}
      /\ flagged => to.account = account
      /\ t.op \in {"pay", "amend"} /\ ~flagged
           => to.account.exists /\ Agrees(to.account, t.bill1)
      /\ t.op = "dispute" => account.exists /\ to.account = Acc!Raised(account)
      /\ t.op = "clear" => account.exists /\ to.account = Acc!Cleared(account)
  BY <1>1, Outcomes
<1>5. b \in RawBill
  BY <1>2
<1>6. /\ u \in Act /\ u.op = t.op /\ u.ready /\ u.raced = t.raced /\ u.bill = t.bill
      /\ u.bill1 = b /\ u.account = account /\ u.account1 = to.account
  <2> HIDE DEF b, to, t, flagged
  <2>1. /\ t \in Act /\ b \in RawBill /\ account \in Acc!Account /\ to.account \in RawAccount
        /\ ladder \in Acc!Ladder /\ to.ladder \in Acc!Ladder
    BY <1>2, <1>3, <1>4, <1>5
  <2>2. u = Ready(t, b, account, to.account, ladder, to.ladder)
    BY DEF Ready
  <2> HIDE DEF u
  <2> QED BY <2>1, <2>2, Readied
<1> HIDE DEF u, to
<1>7. Loaded(u, account, bill)
  BY <1>2, <1>3, <1>6 DEF Loaded
<1>8. Decided(u)
  BY <1>1, <1>4, <1>6 DEF Decided
<1> HIDE DEF b, flagged
<1>9. act' \in [Hands -> Act] /\ \A r \in Hands : act'[r] = IF r = s THEN u ELSE act[r]
  BY <1>1, <1>2, <1>6
<1>10. \A r \in Hands : Loaded(act'[r], account', bill') /\ (act'[r].ready => Decided(act'[r]))
  BY <1>1, <1>7, <1>8, <1>9 DEF AccountInv, Acts
<1>11. Acts'
  BY <1>9, <1>10 DEF Acts, Loaded, Decided
<1>12. Locked' /\ Fresh'
  BY <1>1, <1>6, <1>9 DEF AccountInv, Locked, Fresh
<1>13. Acc!TypeOK' /\ Entries' /\ Acc!DisputeHeld' /\ Acc!AccountFollows'
  BY <1>1 DEF AccountInv, Acc!TypeOK, Entries, Acc!DisputeHeld, Acc!AccountFollows
<1> QED BY <1>11, <1>12, <1>13 DEF AccountInv

\* Whoever commits has loaded what was there, and decided on it.
LEMMA Committing ==
  ASSUME AccountInv, NEW s \in Hands, act[s].ready
  PROVE  LET t == act[s] IN
         /\ t \in Act /\ Loaded(t, account, bill) /\ Decided(t)
         /\ t.bill \in Acc!Bill /\ t.bill1 \in RawBill /\ t.account \in Acc!Account
         /\ t.account1 \in RawAccount /\ t.ladder \in Acc!Ladder /\ t.ladder1 \in Acc!Ladder
BY DEF AccountInv, Acts, Act

\* What is written: an account is not deleted, nor a void taken back.
LEMMA WrittenRows ==
  ASSUME AccountInv, NEW s \in Hands, act[s].ready,
         NEW b, b = Acc!WriteBack(bill, act[s].bill, act[s].bill1),
         NEW a, a = Acc!WriteBack(account, act[s].account, act[s].account1),
         b.open \in 0 .. b.net
  PROVE  /\ b \in Acc!Bill /\ a \in Acc!Account
         /\ bill.cancelled => b.cancelled
         /\ act[s].op = "void" => b.cancelled
         /\ account.exists => a.exists
         /\ ~a.exists => a = Acc!NoAccount
         /\ a.status = "WRITTEN_OFF" => b.cancelled
<1> DEFINE t == act[s]
<1>1. /\ bill \in Acc!Bill /\ account \in Acc!Account
      /\ ~account.exists => account = Acc!NoAccount
      /\ account.status = "WRITTEN_OFF" => bill.cancelled
  BY DEF AccountInv, Acc!TypeOK, Entries
<1>2. /\ Loaded(t, account, bill) /\ Decided(t) /\ t.bill \in Acc!Bill /\ t.bill1 \in RawBill
      /\ t.account \in Acc!Account /\ t.account1 \in RawAccount
  BY Committing
<1> HIDE DEF t
<1>3. b = [net |-> IF t.bill1.net = t.bill.net THEN bill.net ELSE t.bill1.net,
           open |-> IF t.bill1.open = t.bill.open THEN bill.open ELSE t.bill1.open,
           cancelled |-> IF t.bill1.cancelled = t.bill.cancelled THEN bill.cancelled
                         ELSE t.bill1.cancelled]
  BY <1>1, <1>2, WrittenBill DEF t
<1>4. /\ b.net = IF t.bill1.net = t.bill.net THEN bill.net ELSE t.bill1.net
      /\ b.open = IF t.bill1.open = t.bill.open THEN bill.open ELSE t.bill1.open
      /\ b.cancelled = IF t.bill1.cancelled = t.bill.cancelled THEN bill.cancelled
                       ELSE t.bill1.cancelled
  BY <1>3
<1>5. b.net \in 1 .. MaxNet /\ b.cancelled \in BOOLEAN
  BY <1>1, <1>2, <1>4 DEF Acc!Bill, RawBill
<1>6. b.open \in 0 .. MaxNet
  BY <1>5, Nets
<1>7. b \in Acc!Bill
  BY <1>3, <1>4, <1>5, <1>6 DEF Acc!Bill
<1>8. /\ bill.cancelled => b.cancelled
      /\ t.op = "void" => b.cancelled
  BY <1>1, <1>2, <1>4 DEF Loaded, Acc!Bill, RawBill
<1>9. a = [exists |-> IF t.account1.exists = t.account.exists THEN account.exists
                      ELSE t.account1.exists,
           open |-> IF t.account1.open = t.account.open THEN account.open ELSE t.account1.open,
           status |-> IF t.account1.status = t.account.status THEN account.status
                      ELSE t.account1.status,
           reason |-> IF t.account1.reason = t.account.reason THEN account.reason
                      ELSE t.account1.reason]
  BY <1>1, <1>2, WrittenAccount DEF t
<1>10. /\ a.exists = IF t.account1.exists = t.account.exists THEN account.exists
                     ELSE t.account1.exists
       /\ a.open = IF t.account1.open = t.account.open THEN account.open ELSE t.account1.open
       /\ a.status = IF t.account1.status = t.account.status THEN account.status
                     ELSE t.account1.status
       /\ a.reason = IF t.account1.reason = t.account.reason THEN account.reason
                     ELSE t.account1.reason
  BY <1>9
<1>11. a.open \in 0 .. MaxNet
  <2>1. account.open \in 0 .. MaxNet /\ t.bill.open \in 0 .. MaxNet
    BY <1>1, <1>2 DEF Acc!Account, Acc!Bill
  <2>2. t.account1.open # t.account.open => t.account1.open = t.bill1.open
    BY <1>2 DEF Decided
  <2>3. t.bill1.open \in 0 .. MaxNet
    BY <1>4, <1>6, <2>1
  <2> QED BY <1>10, <2>1, <2>2, <2>3
<1>12. a.exists \in BOOLEAN /\ a.status \in Acc!AccountStatus /\ a.reason \in BOOLEAN
  BY <1>1, <1>2, <1>10 DEF Acc!Account, RawAccount
<1>13. a \in Acc!Account
  BY <1>9, <1>10, <1>11, <1>12 DEF Acc!Account
<1>14. account.exists => a.exists
  BY <1>1, <1>2, <1>10 DEF Decided, Acc!Account, RawAccount
<1>15. ~a.exists => a = Acc!NoAccount
  <2> SUFFICES ASSUME ~a.exists PROVE a = Acc!NoAccount
    OBVIOUS
  <2>1. ~account.exists /\ ~t.account1.exists
    BY <1>1, <1>2, <1>10, <1>14 DEF Decided, Loaded, Acc!Account, RawAccount
  <2>2. t.account1 = t.account
    BY <1>2, <2>1 DEF Decided
  <2>3. a = [exists |-> account.exists, open |-> account.open, status |-> account.status,
             reason |-> account.reason]
    BY <1>9, <2>2
  <2>4. account = Acc!NoAccount
    BY <1>1, <2>1
  <2> QED BY <2>3, <2>4 DEF Acc!NoAccount
<1>16. a.status = "WRITTEN_OFF" => b.cancelled
  BY <1>1, <1>2, <1>8, <1>10 DEF Decided
<1> QED BY <1>7, <1>8, <1>13, <1>14, <1>15, <1>16 DEF t

\* A commit that nobody unlocked overlapped leaves the account in agreement with the invoice:
\* it writes what it decided on what is still there.
LEMMA FollowsWritten ==
  ASSUME AccountInv, NEW s \in Hands, act[s].ready,
         NEW b, b = Acc!WriteBack(bill, act[s].bill, act[s].bill1),
         NEW a, a = Acc!WriteBack(account, act[s].account, act[s].account1),
         b.open \in 0 .. b.net, ~outpaced, act[s].raced => act[s].op = "dispute",
         a.exists = TRUE, a.status # "WRITTEN_OFF", b.cancelled = FALSE
  PROVE  Agrees(a, b)
<1> DEFINE t == act[s]
<1>1. /\ bill \in Acc!Bill /\ account \in Acc!Account
      /\ account.status = "WRITTEN_OFF" => bill.cancelled
      /\ account.exists /\ account.status # "WRITTEN_OFF" /\ ~bill.cancelled => Agrees(account, bill)
  BY DEF AccountInv, Acc!TypeOK, Entries, Acc!AccountFollows, Agrees
<1>2. /\ t \in Act /\ Loaded(t, account, bill) /\ Decided(t)
      /\ t.bill \in Acc!Bill /\ t.bill1 \in RawBill
      /\ t.account \in Acc!Account /\ t.account1 \in RawAccount
  BY Committing
<1>3. ~bill.cancelled /\ t.op # "void"
  BY WrittenRows
<1>4. t.op \in {"pay", "amend", "dispute", "clear"}
  BY <1>2, <1>3 DEF Act, Decided
<1>5. t.raced => t.op = "dispute"
  OBVIOUS
<1>6. ~t.raced => t.bill = bill /\ t.account = account
  BY <1>2 DEF AccountInv, Fresh, Decided
<1> HIDE DEF t
<1>7. b = [net |-> IF t.bill1.net = t.bill.net THEN bill.net ELSE t.bill1.net,
           open |-> IF t.bill1.open = t.bill.open THEN bill.open ELSE t.bill1.open,
           cancelled |-> IF t.bill1.cancelled = t.bill.cancelled THEN bill.cancelled
                         ELSE t.bill1.cancelled]
  BY <1>1, <1>2, WrittenBill DEF t
<1>8. b.open = IF t.bill1.open = t.bill.open THEN bill.open ELSE t.bill1.open
  BY <1>7
<1>9. /\ a.exists = IF t.account1.exists = t.account.exists THEN account.exists
                    ELSE t.account1.exists
      /\ a.open = IF t.account1.open = t.account.open THEN account.open ELSE t.account1.open
      /\ a.status = IF t.account1.status = t.account.status THEN account.status
                    ELSE t.account1.status
  BY <1>1, <1>2, WrittenColumns DEF t
<1>10. CASE t.op = "dispute"
  <2>1. /\ t.bill1 = t.bill /\ account.exists /\ t.account1 = Acc!Raised(t.account)
    BY <1>2, <1>10 DEF Loaded, Decided
  <2>2. b.open = bill.open
    BY <1>8, <2>1
  <2>3. t.account1.open = t.account.open /\ t.account1.status = "IN_DISPUTE"
    BY <1>2, <2>1, RaisedAccount, Blanks
  <2>4. a.open = account.open /\ a.status \in {account.status, "IN_DISPUTE"}
    BY <1>9, <2>3
  <2> QED BY <1>1, <1>3, <2>1, <2>2, <2>4 DEF Agrees
<1>11. CASE t.op \in {"pay", "amend", "clear"}
  <2>1. t.bill = bill /\ t.account = account
    BY <1>5, <1>6, <1>11
  <2>2. b.open = t.bill1.open /\ a.open = t.account1.open /\ a.status = t.account1.status
        /\ a.exists = t.account1.exists
    BY <1>8, <1>9, <2>1
  <2>3. CASE t.op \in {"pay", "amend"} /\ Agrees(t.account1, t.bill1)
    BY <2>2, <2>3 DEF Agrees
  <2>4. CASE t.bill1 = t.bill /\ t.account1 = t.account
    BY <1>1, <1>3, <2>1, <2>2, <2>4 DEF Agrees
  <2>5. CASE t.op = "clear"
    <3>1. t.bill1 = bill /\ account.exists /\ t.account1 = Acc!Cleared(account)
      BY <1>2, <2>1, <2>5 DEF Loaded, Decided
    <3>2. account.open = bill.open /\ account.open \in 0 .. MaxNet /\ Agrees(account, bill)
      BY <1>1, <1>3, <3>1 DEF Agrees, Acc!Account
    <3>3. t.account1.open = account.open
      BY <1>1, <3>1, ClearedAccount, Blanks
    <3>4. /\ account.status # "IN_DISPUTE" => t.account1.status = account.status
          /\ account.status = "IN_DISPUTE" =>
               t.account1.status = IF account.open > 0 THEN "OVERDUE" ELSE "SETTLED"
      BY <1>1, <3>1, ClearedAccount, Blanks
    <3> QED BY <2>2, <3>1, <3>2, <3>3, <3>4, Nets DEF Agrees
  <2> QED BY <1>2, <1>11, <2>3, <2>4, <2>5 DEF Decided
<1> QED BY <1>4, <1>10, <1>11

\* A transaction ends, and others go on: whoever holds the invoice goes on holding it.
LEMMA Released ==
  ASSUME AccountInv, NEW s \in Hands, Acc!Release(s)
  PROVE  /\ holder' \in Hands \cup {Nobody}
         /\ \A r \in Hands \ {s} : act[r].op = "pay" => holder' = r
BY DEF AccountInv, Acc!TypeOK, Locked, Acc!Release

\* A transaction commits: two payments never do so one over the other.
LEMMA CommitStep ==
  ASSUME AccountInv, NEW s \in Hands, Acc!Commit(s)
  PROVE  AccountInv'
<1> DEFINE t == act[s]
           b == Acc!WriteBack(bill, t.bill, t.bill1)
           a == Acc!WriteBack(account, t.account, t.account1)
           l == Acc!WriteBack(ladder, t.ladder, t.ladder1)
           rest(r) == [act[r] EXCEPT !.raced = @ \/ (act[r].op # "none" /\ {t.op, act[r].op} # {"pay"})]
<1>1. /\ t.ready /\ Acc!Release(s) /\ UNCHANGED <<past, acts>>
      /\ act' = [r \in Hands |-> IF r = s THEN Acc!NoAct(Acc!Blank) ELSE rest(r)]
  BY DEF Acc!Commit
<1>2. \/ UNCHANGED <<bill, account, ladder, disputed, outpaced>>
      \/ /\ b.open \in 0 .. b.net /\ bill' = b /\ account' = a /\ ladder' = l
         /\ disputed' = (account'.status = "IN_DISPUTE" \/ (disputed /\ ~Acc!EndsDispute(t)))
         /\ outpaced' = (outpaced \/ (t.raced /\ t.op # "dispute"))
  BY DEF Acc!Commit
<1>3. /\ t \in Act /\ Loaded(t, account, bill) /\ Decided(t)
      /\ t.bill \in Acc!Bill /\ t.bill1 \in RawBill /\ t.account \in Acc!Account
      /\ t.account1 \in RawAccount /\ t.ladder \in Acc!Ladder /\ t.ladder1 \in Acc!Ladder
  BY <1>1, Committing
<1>4. /\ bill \in Acc!Bill /\ account \in Acc!Account /\ ladder \in Acc!Ladder
      /\ act \in [Hands -> Act]
      /\ \A r \in Hands : Loaded(act[r], account, bill) /\ (act[r].ready => Decided(act[r]))
  BY DEF AccountInv, Acc!TypeOK, Acts
<1>5. /\ bill' \in Acc!Bill /\ account' \in Acc!Account /\ ladder' \in Acc!Ladder
      /\ bill.cancelled => bill'.cancelled
      /\ account.exists => account'.exists
      /\ ~account'.exists => account' = Acc!NoAccount
      /\ account'.status = "WRITTEN_OFF" => bill'.cancelled
  <2>1. CASE UNCHANGED <<bill, account, ladder>>
    BY <1>4, <2>1 DEF AccountInv, Entries
  <2>2. CASE b.open \in 0 .. b.net /\ bill' = b /\ account' = a /\ ladder' = l
    <3>1. l \in Acc!Ladder
      BY <1>3, <1>4, WrittenLadder
    <3>2. /\ b \in Acc!Bill /\ a \in Acc!Account
          /\ bill.cancelled => b.cancelled
          /\ account.exists => a.exists
          /\ ~a.exists => a = Acc!NoAccount
          /\ a.status = "WRITTEN_OFF" => b.cancelled
      BY <1>1, <2>2, WrittenRows
    <3> HIDE DEF a, b, l
    <3> QED BY <2>2, <3>1, <3>2
  <2> HIDE DEF a, b, l
  <2> QED BY <1>2, <2>1, <2>2
<1>6. \A r \in Hands \ {s} :
        /\ rest(r) \in Act /\ rest(r).op = act[r].op /\ rest(r).ready = act[r].ready
        /\ rest(r).bill = act[r].bill /\ rest(r).bill1 = act[r].bill1
        /\ rest(r).account = act[r].account /\ rest(r).account1 = act[r].account1
        /\ ~rest(r).raced /\ act[r].op # "none"
             => ~act[r].raced /\ {t.op, act[r].op} = {"pay"}
  BY <1>4 DEF Act
<1> HIDE DEF rest, a, b, l
<1>7. /\ act' \in [Hands -> Act]
      /\ act'[s] = Acc!NoAct(Acc!Blank)
      /\ \A r \in Hands \ {s} : act'[r] = rest(r)
  BY <1>1, <1>6, Blanks
<1>8. \A r \in Hands : Loaded(act'[r], account', bill') /\ (act'[r].ready => Decided(act'[r]))
  <2> SUFFICES ASSUME NEW r \in Hands \ {s}
      PROVE  Loaded(act'[r], account', bill') /\ (act'[r].ready => Decided(act'[r]))
    BY <1>7, BlankLoaded
  <2>1. act'[r] = rest(r) /\ Loaded(act[r], account, bill) /\ (act[r].ready => Decided(act[r]))
    BY <1>4, <1>7
  <2>2. Loaded(act'[r], account', bill')
    BY <1>5, <1>6, <2>1 DEF Loaded
  <2>3. act'[r].ready => Decided(act'[r])
    BY <1>6, <2>1 DEF Decided
  <2> QED BY <2>2, <2>3
<1>9. Acts'
  BY <1>7, <1>8 DEF Acts, Loaded, Decided
<1>10. Locked'
  BY <1>1, <1>6, <1>7, Released, BlankLoaded DEF Locked
<1>11. Fresh'
  <2> SUFFICES ASSUME NEW r \in Hands, act'[r].op # "none", ~act'[r].raced PROVE FALSE
    BY DEF Fresh
  <2>1. r # s
    BY <1>7, BlankLoaded
  <2>2. {t.op, act[r].op} = {"pay"}
    BY <1>6, <1>7, <2>1
  <2>3. t.op = "pay" /\ act[r].op = "pay"
    BY <2>2
  <2> QED BY <2>1, <2>3 DEF AccountInv, Locked
<1>12. Acc!TypeOK' /\ Entries'
  BY <1>1, <1>5, Released DEF AccountInv, Acc!TypeOK, Entries
<1>13. Acc!DisputeHeld'
  <2>1. CASE UNCHANGED <<bill, account, ladder, disputed, outpaced>>
    BY <2>1 DEF AccountInv, Acc!DisputeHeld
  <2>2. CASE account' = a /\ disputed' = (account'.status = "IN_DISPUTE"
                                          \/ (disputed /\ ~Acc!EndsDispute(t)))
    <3> SUFFICES ASSUME disputed, ~Acc!EndsDispute(t) PROVE account'.status = "IN_DISPUTE"
      BY <2>2 DEF Acc!DisputeHeld
    <3>1. account.status = "IN_DISPUTE"
      BY DEF AccountInv, Acc!DisputeHeld
    <3>2. t.account.status = "IN_DISPUTE" /\ t.account1.status = "IN_DISPUTE"
      BY <1>3 DEF Acc!EndsDispute, Decided
    <3>3. account'.status = IF t.account1.status = t.account.status THEN account.status
                            ELSE t.account1.status
      BY <1>3, <1>4, <2>2, WrittenAccount DEF a
    <3> QED BY <3>1, <3>2, <3>3
  <2> QED BY <1>2, <2>1, <2>2
<1>14. Acc!AccountFollows'
  <2>1. CASE UNCHANGED <<bill, account, ladder, disputed, outpaced>>
    BY <2>1 DEF AccountInv, Acc!AccountFollows
  <2>2. CASE /\ b.open \in 0 .. b.net /\ bill' = b /\ account' = a
             /\ outpaced' = (outpaced \/ (t.raced /\ t.op # "dispute"))
    <3> SUFFICES ASSUME a.exists, ~outpaced, t.raced => t.op = "dispute",
                        a.status # "WRITTEN_OFF", ~b.cancelled
        PROVE  Agrees(a, b)
      BY <2>2 DEF Acc!AccountFollows, Agrees
    <3>1. a \in Acc!Account /\ b \in Acc!Bill
      BY <1>5, <2>2
    <3>2. a.exists = TRUE /\ b.cancelled = FALSE
      BY <3>1 DEF Acc!Account, Acc!Bill
    <3> QED BY <1>1, <2>2, <3>2, FollowsWritten DEF a, b
  <2> QED BY <1>2, <2>1, <2>2
<1> QED BY <1>9, <1>10, <1>11, <1>12, <1>13, <1>14 DEF AccountInv

\* A transaction is rolled back, and leaves what there was.
LEMMA RollBackStep ==
  ASSUME AccountInv, NEW s \in Hands, Acc!RollBack(s)
  PROVE  AccountInv'
<1>1. /\ UNCHANGED <<bill, account, ladder, past, disputed, outpaced, acts>> /\ Acc!Release(s)
      /\ act' = [act EXCEPT ![s] = Acc!NoAct(Acc!Blank)]
  BY DEF Acc!RollBack
<1>2. /\ act' \in [Hands -> Act] /\ act'[s] = Acc!NoAct(Acc!Blank)
      /\ \A r \in Hands \ {s} : act'[r] = act[r]
  BY <1>1, Blanks DEF AccountInv, Acts
<1>3. \A r \in Hands : Loaded(act'[r], account', bill') /\ (act'[r].ready => Decided(act'[r]))
  BY <1>1, <1>2, BlankLoaded DEF AccountInv, Acts
<1>4. Acts'
  BY <1>2, <1>3 DEF Acts, Loaded, Decided
<1>5. Locked' /\ holder' \in Hands \cup {Nobody}
  BY <1>1, <1>2, Released, BlankLoaded DEF Locked
<1>6. Fresh'
  BY <1>1, <1>2, BlankLoaded DEF AccountInv, Fresh
<1>7. Acc!TypeOK' /\ Entries' /\ Acc!DisputeHeld' /\ Acc!AccountFollows'
  BY <1>1, <1>5 DEF AccountInv, Acc!TypeOK, Entries, Acc!DisputeHeld, Acc!AccountFollows
<1> QED BY <1>4, <1>5, <1>6, <1>7 DEF AccountInv

\* Time passes, a ladder is made, and a debtor is contacted: only the ladder and the date move.
LEMMA MeanwhileStep ==
  ASSUME AccountInv, Acc!FallsDue \/ Acc!EnsureEscalation \/ Acc!Contact
  PROVE  AccountInv'
<1>1. UNCHANGED <<bill, account, holder, act, disputed, outpaced, acts>>
  BY DEF Acc!FallsDue, Acc!EnsureEscalation, Acc!Contact
<1>2. ladder \in Acc!Ladder /\ past \in BOOLEAN
  BY DEF AccountInv, Acc!TypeOK
<1>3. past' \in BOOLEAN
  BY <1>2 DEF Acc!FallsDue, Acc!EnsureEscalation, Acc!Contact
<1>4. ladder' \in Acc!Ladder
  <2>1. CASE Acc!FallsDue
    BY <1>2, <2>1 DEF Acc!FallsDue
  <2>2. CASE Acc!EnsureEscalation
    BY <2>2, Blanks DEF Acc!EnsureEscalation, Acc!Ladder
  <2>3. CASE Acc!Contact
    <3>1. \/ ladder' = [ladder EXCEPT !.attempts = 1, !.contacted = TRUE]
          \/ ladder' = [ladder EXCEPT !.level = 2, !.attempts = 0]
      BY <2>3 DEF Acc!Contact
    <3> DEFINE m == [ladder EXCEPT !.attempts = 1]
               n == [ladder EXCEPT !.level = 2]
    <3>2. m \in Acc!Ladder /\ n \in Acc!Ladder
      BY <1>2 DEF Acc!Ladder
    <3>3. ladder' = [m EXCEPT !.contacted = TRUE] \/ ladder' = [n EXCEPT !.attempts = 0]
      BY <3>1
    <3> HIDE DEF m, n
    <3>4. [m EXCEPT !.contacted = TRUE] \in Acc!Ladder
      BY <3>2 DEF Acc!Ladder
    <3>5. [n EXCEPT !.attempts = 0] \in Acc!Ladder
      BY <3>2 DEF Acc!Ladder
    <3> QED BY <3>3, <3>4, <3>5
  <2> QED BY <2>1, <2>2, <2>3
<1>5. Acc!TypeOK'
  BY <1>1, <1>3, <1>4 DEF AccountInv, Acc!TypeOK
<1>6. Acts' /\ Locked' /\ Fresh' /\ Entries' /\ Acc!DisputeHeld' /\ Acc!AccountFollows'
  BY <1>1 DEF AccountInv, Acts, Loaded, Decided, Locked, Fresh, Entries, Acc!DisputeHeld,
              Acc!AccountFollows
<1> QED BY <1>5, <1>6 DEF AccountInv

\* A behaviour of the whole is one of Accounts.
LEMMA AccountsPart == Spec => Acc!Spec
<1>1. Init => Acc!Init
  BY DEF Init
<1>2. [Next]_vars => [Acc!Next]_(Acc!avars)
  BY DEF Next, vars, AtRest, avars, Acc!avars
<1> QED BY <1>1, <1>2, PTL DEF Spec, Acc!Spec

\* The invariant holds throughout.
LEMMA AccountsKept == Spec => []AccountInv
<1>1. AccountInv /\ [Acc!Next]_(Acc!avars) => AccountInv'
  <2> SUFFICES ASSUME AccountInv, [Acc!Next]_(Acc!avars) PROVE AccountInv'
    OBVIOUS
  <2>1. CASE UNCHANGED Acc!avars
    BY <2>1 DEF Acc!avars, AccountInv, Acc!TypeOK, Acts, Loaded, Decided, Locked, Fresh, Entries,
                Acc!DisputeHeld, Acc!AccountFollows
  <2>2. CASE Acc!Next
    BY <2>2, StartStep, ProjectStep, CommitStep, RollBackStep, MeanwhileStep DEF Acc!Next
  <2> QED BY <2>1, <2>2
<1> QED BY InitAccounts, <1>1, AccountsPart, PTL DEF Acc!Spec

\* However many transactions overlap, a dispute is lifted by clearing it, by voiding the
\* invoice, or by one that had read the account before it was raised (trade/accounts.py:69-72).
THEOREM DisputesStand == Spec => []DisputeHeld
<1>1. AccountInv => DisputeHeld
  BY DEF AccountInv, DisputeHeld
<1> QED BY <1>1, AccountsKept, PTL

\* An account and its invoice agree, for any amounts and any number of overlapping payments,
\* as long as none overlaps what takes no lock (trade/accounts.py:30-105).
THEOREM AccountsFollow == Spec => []AccountFollows
<1>1. AccountInv => AccountFollows
  BY DEF AccountInv, AccountFollows
<1> QED BY <1>1, AccountsKept, PTL

---------------------------------------------------------------------------
(* Imports.                                                                *)

\* Debtors, and rows of a file.
Detail == {l.details : l \in Lines}
Buyer == [who : {l.who : l \in Lines}, coded : BOOLEAN, details : Detail]
Row == [line : Lines, action : {"CREATE", "UPDATE", "UNCHANGED", "REJECT", "SYNC"}, buyer : Nat]

\* A transaction that applies rows.
Transaction ==
  [op : {"none", "commit", "sync"}, file : Papers \cup {"none"}, rows : Seq(Row), left : SUBSET Nat,
   fresh : Seq(Buyer), details : SUBSET [buyer : Nat, details : Detail],
   flushed : Seq(Imp!Numbers), added : Seq(Imp!Numbers)]

\* A row that creates fits nobody.
Creating(q) == \A i \in DOMAIN q : q[i].action = "CREATE" => q[i].buyer = 0

\* What the database and the transactions hold.
ImportTypes ==
  /\ buyers \in Seq(Buyer) /\ invoices \in [Imp!Numbers -> {"none", "imported"}]
  /\ batch \in [Papers -> [status : Imp!ImportStatus, rows : Seq(Row)]]
  /\ import \in [Hands -> Transaction] /\ applied \in [Papers -> Nat]
  /\ \A f \in Papers : Creating(batch[f].rows)
  /\ \A s \in Hands : import[s].left \subseteq DOMAIN import[s].rows

\* A code is that of one debtor of p, and not that of one of p and another of q.
OneEach(p) == \A i, j \in DOMAIN p : p[i].coded /\ p[j].coded /\ p[i].who = p[j].who => i = j
Apart(p, q) == \A i \in DOMAIN p, j \in DOMAIN q : p[i].coded /\ q[j].coded => p[i].who # q[j].who

\* Whoever inserts a debtor with a code has it reserved until the transaction ends.
Reserved ==
  /\ OneEach(buyers)
  /\ \A s \in Hands : OneEach(import[s].fresh) /\ Apart(buyers, import[s].fresh)
  /\ \A s, r \in Hands : s # r => Apart(import[s].fresh, import[r].fresh)

\* What a line introduces is among these debtors, and its invoice in the database or about to be.
Introduced(p, l) == \E i \in DOMAIN p : p[i].who = l.who /\ p[i].coded = l.coded
Held(t, n) == invoices[n] # "none" \/ Imp!In(t.flushed, n) \/ Imp!In(t.added, n)

\* A commit has introduced what the rows that it is done with introduce.
Follows(t) ==
  t.op = "commit" =>
    /\ t.file \in Papers /\ batch[t.file].status \in {"PREVIEWED", "COMMITTED"}
    /\ t.rows = batch[t.file].rows
    /\ \A i \in DOMAIN t.rows \ t.left : t.rows[i].action = "CREATE" =>
         /\ Introduced(t.fresh, t.rows[i].line)
         /\ t.rows[i].line.number # "none" => Held(t, t.rows[i].line.number)
Following == \A s \in Hands : Follows(import[s])

\* What a file introduces is there once it was committed.
Effects == \A f \in Papers :
  /\ applied[f] > 0 =>
       /\ batch[f].status = "COMMITTED"
       /\ \A l \in Imp!Creates(f) : /\ Introduced(buyers, l)
                                    /\ l.number # "none" => invoices[l.number] # "none"
  /\ (\E l \in Imp!Creates(f) : l.coded) => applied[f] <= 1

\* What is proved together.
ImportInv == ImportTypes /\ Reserved /\ Following /\ Effects

\* A set of numbers has a least one.
LEMMA Least ==
  ASSUME NEW S, S \subseteq Nat, S # {}
  PROVE  \E m \in S : \A n \in S : m <= n
<1>1. PICK m \in S : \A n \in S : ~ (<<n, m>> \in OpToRel(<, Nat))
  BY WFMin, NatLessThanWellFounded
<1>2. \A n \in S : ~ (n < m)
  BY <1>1 DEF OpToRel
<1> QED BY <1>2

\* A sequence whose members are changed is a sequence.
LEMMA MapSeq ==
  ASSUME NEW S, NEW q \in Seq(S), NEW f \in [DOMAIN q -> S]
  PROVE  f \in Seq(S) /\ Len(f) = Len(q)
BY LenProperties

\* A sequence with one more at its end.
LEMMA AppendTo ==
  ASSUME NEW S, NEW q \in Seq(S), NEW e \in S
  PROVE  /\ Append(q, e) \in Seq(S) /\ DOMAIN Append(q, e) = 1 .. Len(q) + 1
         /\ DOMAIN q = 1 .. Len(q) /\ Len(q) \in Nat
         /\ \A i \in DOMAIN q : Append(q, e)[i] = q[i]
         /\ Append(q, e)[Len(q) + 1] = e
BY LenProperties, AppendProperties

\* Nothing is there, and nothing under way.
LEMMA InitImports == Imp!Init => ImportInv
<1> SUFFICES ASSUME Imp!Init PROVE ImportInv
  OBVIOUS
<1>1. Imp!NoImport \in Transaction /\ Imp!NoImport.fresh = <<>> /\ Imp!NoImport.left = {}
      /\ Imp!NoImport.op = "none"
  BY EmptySeq DEF Imp!NoImport, Transaction
<1>2. ImportTypes
  BY <1>1, EmptySeq DEF Imp!Init, ImportTypes, Creating, Imp!ImportStatus
<1>3. Reserved
  BY <1>1 DEF Imp!Init, Reserved, OneEach, Apart
<1>4. Following /\ Effects
  BY <1>1 DEF Imp!Init, Following, Follows, Effects
<1> QED BY <1>2, <1>3, <1>4 DEF ImportInv

\* A transaction moves on, or away, and nothing else.
LEMMA Turn ==
  ASSUME ImportInv, NEW s \in Hands, NEW u \in Transaction, import' = [import EXCEPT ![s] = u],
         UNCHANGED <<buyers, invoices, batch, applied>>, u.left \subseteq DOMAIN u.rows,
         OneEach(u.fresh), Apart(buyers, u.fresh),
         \A r \in Hands \ {s} : Apart(u.fresh, import[r].fresh),
         Follows(u)
  PROVE  ImportInv'
<1>1. \A r \in Hands : import'[r] = IF r = s THEN u ELSE import[r]
  BY DEF ImportInv, ImportTypes
<1>2. ImportTypes'
  BY <1>1 DEF ImportInv, ImportTypes, Creating
<1>3. \A r \in Hands \ {s} : Apart(import[r].fresh, u.fresh)
  BY DEF Apart
<1>4. Reserved'
  <2>1. OneEach(buyers') /\ \A r \in Hands : OneEach(import'[r].fresh) /\ Apart(buyers', import'[r].fresh)
    BY <1>1 DEF ImportInv, Reserved
  <2>2. \A q, r \in Hands : q # r => Apart(import'[q].fresh, import'[r].fresh)
    BY <1>1, <1>3 DEF ImportInv, Reserved
  <2> QED BY <2>1, <2>2 DEF Reserved, OneEach, Apart
<1>5. Following'
  BY <1>1 DEF ImportInv, Following, Follows, Held
<1>6. Effects'
  BY DEF ImportInv, Effects, Imp!Creates, Introduced
<1> QED BY <1>2, <1>4, <1>5, <1>6 DEF ImportInv

\* A transaction that is over, or that has just begun, has introduced nothing.
LEMMA NothingFresh == \A q : Apart(q, <<>>) /\ Apart(<<>>, q) /\ OneEach(<<>>)
BY DEF Apart, OneEach

\* A transaction that is over.
LEMMA BlankImport ==
  /\ Imp!NoImport \in Transaction /\ Imp!NoImport.fresh = <<>> /\ Imp!NoImport.left = {}
  /\ Imp!NoImport.op = "none" /\ Follows(Imp!NoImport)
BY EmptySeq DEF Imp!NoImport, Transaction, Follows

\* A transaction is rolled back.
LEMMA FailStep ==
  ASSUME ImportInv, NEW s \in Hands, import' = [import EXCEPT ![s] = Imp!NoImport],
         UNCHANGED <<buyers, invoices, batch, applied>>
  PROVE  ImportInv'
BY Turn, BlankImport, NothingFresh

\* What a line is staged as.
LEMMA ClassifiedRow ==
  ASSUME ImportInv, NEW l \in Lines
  PROVE  LET r == Imp!Classify(l) IN r \in Row /\ (r.action = "CREATE" => r.buyer = 0)
<1>1. \A b \in DOMAIN buyers : b \in Nat
  BY LenProperties DEF ImportInv, ImportTypes
<1>2. Imp!ByCode(l.who) \subseteq DOMAIN buyers /\ Imp!ByNameAndPhone(l.who) \subseteq DOMAIN buyers
  BY DEF Imp!ByCode, Imp!ByNameAndPhone
<1>3. \A a \in {"CREATE", "UPDATE", "UNCHANGED", "REJECT", "SYNC"}, b \in Nat :
        /\ Imp!Staged(l, a, b) \in Row /\ Imp!Staged(l, a, b).action = a
        /\ Imp!Staged(l, a, b).buyer = b
  BY DEF Imp!Staged, Row
<1>4. \A b \in Nat : Imp!Compared(l, b) \in Row /\ Imp!Compared(l, b).action # "CREATE"
  BY <1>3 DEF Imp!Compared
<1> DEFINE found == IF l.coded THEN Imp!ByCode(l.who) ELSE Imp!ByNameAndPhone(l.who)
<1>5. found # {} => (CHOOSE b \in found : TRUE) \in Nat
  BY <1>1, <1>2
<1>6. \/ Imp!Classify(l) = Imp!Staged(l, "REJECT", 0)
      \/ Imp!Classify(l) = Imp!Staged(l, "CREATE", 0)
      \/ found # {} /\ Imp!Classify(l) = Imp!Compared(l, CHOOSE b \in found : TRUE)
  BY DEF Imp!Classify
<1> HIDE DEF found
<1> QED BY <1>3, <1>4, <1>5, <1>6

\* A line is staged, or the file shown: nobody commits it yet.
LEMMA StagingStep ==
  ASSUME ImportInv, NEW f \in Papers, Imp!StageRow(f) \/ Imp!Preview(f)
  PROVE  ImportInv'
<1>1. /\ batch[f].status \in {"NONE", "PENDING"}
      /\ UNCHANGED <<buyers, invoices, import, applied>>
      /\ \E st \in Imp!ImportStatus, q \in Seq(Row) :
           Creating(q) /\ batch' = [batch EXCEPT ![f] = [status |-> st, rows |-> q]]
  <2>1. CASE Imp!StageRow(f)
    <3>1. PICK l \in Lines :
            batch' = [batch EXCEPT ![f] = [status |-> "PENDING",
                                           rows |-> Append(@.rows, Imp!Classify(l))]]
      BY <2>1 DEF Imp!StageRow
    <3> DEFINE r == Imp!Classify(l)
               q == batch[f].rows
    <3>2. r \in Row /\ (r.action = "CREATE" => r.buyer = 0)
      BY ClassifiedRow
    <3>3. q \in Seq(Row) /\ Creating(q)
      BY DEF ImportInv, ImportTypes
    <3> HIDE DEF r
    <3>4. Append(q, r) \in Seq(Row) /\ Creating(Append(q, r))
      BY <3>2, <3>3, AppendTo DEF Creating
    <3>5. batch' = [batch EXCEPT ![f] = [status |-> "PENDING", rows |-> Append(q, r)]]
      BY <3>1 DEF r, ImportInv, ImportTypes
    <3> QED BY <2>1, <3>4, <3>5 DEF Imp!StageRow, Imp!ImportStatus
  <2>2. CASE Imp!Preview(f)
    <3>1. batch' = [batch EXCEPT ![f] = [status |-> "PREVIEWED", rows |-> batch[f].rows]]
      <4>1. batch[f] \in [status : Imp!ImportStatus, rows : Seq(Row)]
        BY DEF ImportInv, ImportTypes
      <4>2. [batch[f] EXCEPT !.status = "PREVIEWED"] = [status |-> "PREVIEWED", rows |-> batch[f].rows]
        BY <4>1
      <4>3. batch' = [batch EXCEPT ![f] = [batch[f] EXCEPT !.status = "PREVIEWED"]]
        BY <2>2 DEF Imp!Preview
      <4> QED BY <4>2, <4>3
    <3>2. batch[f].rows \in Seq(Row) /\ Creating(batch[f].rows)
      BY DEF ImportInv, ImportTypes
    <3> QED BY <2>2, <3>1, <3>2 DEF Imp!Preview, Imp!ImportStatus
  <2> QED BY <2>1, <2>2
<1>2. \A g \in Papers \ {f} : batch'[g] = batch[g]
  BY <1>1 DEF ImportInv, ImportTypes
<1>3. ImportTypes'
  BY <1>1 DEF ImportInv, ImportTypes, Creating
<1>4. Reserved'
  BY <1>1 DEF ImportInv, Reserved, OneEach, Apart
<1>5. \A s \in Hands : import[s].op = "commit" => import[s].file \in Papers \ {f}
  BY <1>1 DEF ImportInv, Following, Follows
<1>6. Following'
  BY <1>1, <1>2, <1>5 DEF ImportInv, Following, Follows, Held
<1>7. applied[f] = 0
  <2>1. applied[f] \in Nat /\ (applied[f] > 0 => batch[f].status = "COMMITTED")
    BY DEF ImportInv, ImportTypes, Effects
  <2> QED BY <1>1, <2>1
<1>8. ASSUME NEW g \in Papers \ {f} PROVE Imp!Creates(g)' = Imp!Creates(g)
  BY <1>2 DEF Imp!Creates
<1>9. Effects'
  BY <1>1, <1>2, <1>7, <1>8 DEF ImportInv, Effects, Introduced
<1> QED BY <1>3, <1>4, <1>6, <1>9 DEF ImportInv

\* A transaction begins with nothing introduced and all of its rows to apply.
LEMMA BeginStep ==
  ASSUME ImportInv, NEW s \in Hands, Imp!BeginSync(s) \/ \E f \in Papers : Imp!BeginCommit(s, f)
  PROVE  ImportInv'
<1>1. CASE Imp!BeginSync(s)
  <2>1. PICK l \in Lines :
          import' = [import EXCEPT ![s] = [Imp!NoImport EXCEPT !.op = "sync",
                       !.rows = <<Imp!Staged(l, "SYNC", 0)>>, !.left = {1}]]
    BY <1>1 DEF Imp!BeginSync
  <2> DEFINE q == <<Imp!Staged(l, "SYNC", 0)>>
  <2>2. Imp!Staged(l, "SYNC", 0) \in Row
    BY DEF Imp!Staged, Row
  <2>3. q \in Seq(Row) /\ DOMAIN q = {1}
    BY <2>2
  <2>4. import' = [import EXCEPT ![s] = [Imp!NoImport EXCEPT !.op = "sync", !.rows = q, !.left = {1}]]
    BY <2>1
  <2> HIDE DEF q
  <2> DEFINE u == [Imp!NoImport EXCEPT !.op = "sync", !.rows = q, !.left = {1}]
  <2>5. u \in Transaction /\ u.left \subseteq DOMAIN u.rows /\ u.fresh = <<>> /\ u.op = "sync"
    <3>1. {1} \in SUBSET Nat
      OBVIOUS
    <3>2. u \in Transaction
      BY <2>3, <3>1, BlankImport DEF Transaction
    <3>3. u.left = {1} /\ u.rows = q /\ u.fresh = Imp!NoImport.fresh /\ u.op = "sync"
      BY BlankImport DEF Transaction
    <3> QED BY <2>3, <3>2, <3>3, BlankImport
  <2> HIDE DEF u
  <2>6. Follows(u)
    BY <2>5 DEF Follows
  <2>7. import' = [import EXCEPT ![s] = u] /\ UNCHANGED <<buyers, invoices, batch, applied>>
    BY <1>1, <2>4 DEF u, Imp!BeginSync
  <2> QED BY <2>5, <2>6, <2>7, NothingFresh, Turn
<1>2. ASSUME NEW f \in Papers, Imp!BeginCommit(s, f) PROVE ImportInv'
  <2> DEFINE q == batch[f].rows
             left == {i \in DOMAIN q : q[i].action \in {"CREATE", "UPDATE"}}
             u == [Imp!NoImport EXCEPT !.op = "commit", !.file = f, !.rows = q, !.left = left]
  <2>1. import' = [import EXCEPT ![s] = u] /\ batch[f].status = "PREVIEWED"
        /\ UNCHANGED <<buyers, invoices, batch, applied>>
    BY <1>2 DEF Imp!BeginCommit, Imp!Committable
  <2>2. q \in Seq(Row) /\ DOMAIN q \subseteq Nat
    BY LenProperties DEF ImportInv, ImportTypes
  <2>3. /\ u \in Transaction /\ u.left \subseteq DOMAIN u.rows /\ u.fresh = <<>>
        /\ u.op = "commit" /\ u.file = f /\ u.rows = q /\ u.left = left
    BY <2>2, BlankImport DEF Transaction, Imp!NoImport
  <2>4. Follows(u)
    <3>1. \A i \in DOMAIN q \ left : q[i].action # "CREATE"
      OBVIOUS
    <3> HIDE DEF left, u
    <3> QED BY <2>1, <2>3, <3>1 DEF Follows
  <2> HIDE DEF u
  <2> QED BY <2>1, <2>3, <2>4, NothingFresh, Turn
<1> QED BY <1>1, <1>2

\* What a transaction keeps as it goes on: its rows, and what it holds.
Same(t, u) == u.op = t.op /\ u.file = t.file /\ u.rows = t.rows
Holding(t, u) == \A n \in Imp!Numbers : Held(t, n) => Held(u, n)

\* The row that is next is one of those left.
LEMMA NextOne ==
  ASSUME NEW t \in Transaction, t.left # {}
  PROVE  Imp!NextRow(t) \in t.left
<1>1. t.left \subseteq Nat
  BY DEF Transaction
<1> QED BY <1>1, Least DEF Imp!NextRow

\* One row less is left.
LEMMA FinishedKeeps ==
  ASSUME NEW t \in Transaction
  PROVE  LET u == Imp!Finished(t) IN
         /\ u \in Transaction /\ Same(t, u) /\ u.left = t.left \ {Imp!NextRow(t)}
         /\ u.fresh = t.fresh /\ u.added = t.added /\ u.flushed = t.flushed
         /\ Holding(t, u)
BY DEF Imp!Finished, Transaction, Same, Holding, Held

\* The members of p, then those of q, and nothing else, are in c.
Joined(c, p, q) ==
  /\ \A i \in DOMAIN p : i \in DOMAIN c /\ c[i] = p[i]
  /\ \A i \in DOMAIN q : i + Len(p) \in DOMAIN c /\ c[i + Len(p)] = q[i]
  /\ \A k \in DOMAIN c : \/ k \in DOMAIN p /\ c[k] = p[k]
                         \/ k - Len(p) \in DOMAIN q /\ k \in Nat /\ c[k] = q[k - Len(p)]

\* What two sequences one after the other hold.
LEMMA Both ==
  ASSUME NEW S, NEW p \in Seq(S), NEW q \in Seq(S)
  PROVE  p \o q \in Seq(S) /\ Len(p) \in Nat /\ Joined(p \o q, p, q)
<1> DEFINE m == Len(p)
           n == Len(q)
           c == p \o q
<1>1. m \in Nat /\ n \in Nat /\ DOMAIN p = 1 .. m /\ DOMAIN q = 1 .. n
  BY LenProperties
<1>2. /\ c \in Seq(S) /\ Len(c) = m + n
      /\ \A i \in 1 .. m + n : c[i] = IF i <= m THEN p[i] ELSE q[i - m]
  BY ConcatProperties
<1>3. DOMAIN c = 1 .. m + n
  BY <1>2, LenProperties
<1> HIDE DEF m, n, c
<1>4. ASSUME NEW i \in DOMAIN p PROVE i \in DOMAIN c /\ c[i] = p[i]
  BY <1>1, <1>2, <1>3
<1>5. ASSUME NEW i \in DOMAIN q PROVE i + m \in DOMAIN c /\ c[i + m] = q[i]
  <2>1. i \in 1 .. n /\ i + m \in 1 .. m + n /\ ~(i + m <= m) /\ (i + m) - m = i
    BY <1>1
  <2> QED BY <2>1, <1>2, <1>3
<1>6. ASSUME NEW k \in DOMAIN c
      PROVE  \/ k \in DOMAIN p /\ c[k] = p[k]
             \/ k - m \in DOMAIN q /\ k \in Nat /\ c[k] = q[k - m]
  <2>1. k \in 1 .. m + n
    BY <1>3
  <2>2. k \in Nat /\ (k <= m => k \in 1 .. m) /\ (~(k <= m) => k - m \in 1 .. n)
    BY <1>1, <2>1
  <2> QED BY <1>1, <1>2, <2>1, <2>2
<1> QED BY <1>1, <1>2, <1>4, <1>5, <1>6 DEF c, m, Joined

\* What is flushed is held as before.
LEMMA FlushedKeeps ==
  ASSUME NEW t \in Transaction
  PROVE  LET u == Imp!Flushed(t) IN
         /\ u \in Transaction /\ Same(t, u) /\ u.left = t.left /\ u.fresh = t.fresh
         /\ Holding(t, u)
<1> DEFINE q == t.flushed \o t.added
<1>1. t.flushed \in Seq(Imp!Numbers) /\ t.added \in Seq(Imp!Numbers)
  BY DEF Transaction
<1>2. /\ q \in Seq(Imp!Numbers)
      /\ \A n : Imp!In(t.flushed, n) \/ Imp!In(t.added, n) => Imp!In(q, n)
  <2>1. q \in Seq(Imp!Numbers) /\ Joined(q, t.flushed, t.added)
    BY <1>1, Both
  <2> HIDE DEF q
  <2> QED BY <2>1 DEF Imp!In, Joined
<1> HIDE DEF q
<1>3. <<>> \in Seq(Imp!Numbers)
  BY EmptySeq
<1> DEFINE u == [t EXCEPT !.flushed = q, !.added = <<>>]
<1>4. Imp!Flushed(t) = u
  BY DEF Imp!Flushed, q
<1>5. /\ u \in Transaction /\ u.op = t.op /\ u.file = t.file /\ u.rows = t.rows /\ u.left = t.left
      /\ u.fresh = t.fresh /\ u.flushed = q
  BY <1>2, <1>3 DEF Transaction
<1> QED BY <1>2, <1>4, <1>5 DEF Same, Holding, Held

\* The invoice of a line is held once the line is done.
LEMMA InvoiceKeeps ==
  ASSUME ImportInv, NEW t \in Transaction, NEW l \in Lines
  PROVE  LET u == Imp!WithInvoice(t, l) IN
         /\ u \in Transaction /\ Same(t, u) /\ u.left = t.left /\ u.fresh = t.fresh
         /\ Holding(t, u) /\ (l.number # "none" => Held(u, l.number))
<1>1. CASE l.number = "none" \/ invoices[l.number] # "none" \/ Imp!In(t.flushed, l.number)
  BY <1>1 DEF Imp!WithInvoice, Same, Holding, Held
<1>2. CASE ~(l.number = "none" \/ invoices[l.number] # "none" \/ Imp!In(t.flushed, l.number))
  <2> DEFINE q == Append(t.added, l.number)
             u == [t EXCEPT !.added = q]
  <2>1. l.number \in Imp!Numbers /\ t.added \in Seq(Imp!Numbers)
    BY <1>2 DEF Imp!Numbers, Transaction
  <2>2. /\ q \in Seq(Imp!Numbers) /\ Imp!In(q, l.number)
        /\ \A n : Imp!In(t.added, n) => Imp!In(q, n)
    <3>1. /\ q \in Seq(Imp!Numbers) /\ DOMAIN q = 1 .. Len(t.added) + 1 /\ Len(t.added) \in Nat
          /\ DOMAIN t.added = 1 .. Len(t.added)
          /\ \A i \in DOMAIN t.added : q[i] = t.added[i]
          /\ q[Len(t.added) + 1] = l.number
      BY <2>1, AppendTo
    <3> HIDE DEF q
    <3>2. Len(t.added) + 1 \in DOMAIN q /\ DOMAIN t.added \subseteq DOMAIN q
      BY <3>1
    <3> QED BY <3>1, <3>2 DEF Imp!In
  <2>3. Imp!WithInvoice(t, l) = u
    BY <1>2 DEF Imp!WithInvoice
  <2> HIDE DEF q
  <2>4. /\ u \in Transaction /\ u.op = t.op /\ u.file = t.file /\ u.rows = t.rows /\ u.left = t.left
        /\ u.fresh = t.fresh /\ u.flushed = t.flushed /\ u.added = q
    BY <2>2 DEF Transaction
  <2> QED BY <2>2, <2>3, <2>4 DEF Same, Holding, Held
<1> QED BY <1>1, <1>2

\* What is noted of a debtor introduces nobody.
LEMMA NotedKeeps ==
  ASSUME NEW t \in Transaction, NEW b \in Nat, NEW d \in Detail
  PROVE  LET u == Imp!Noted(t, b, d) IN
         /\ u \in Transaction /\ Same(t, u) /\ u.left = t.left /\ u.fresh = t.fresh
         /\ Holding(t, u)
<1> DEFINE q == {v \in t.details : v.buyer # b} \cup {[buyer |-> b, details |-> d]}
           u == [t EXCEPT !.details = q]
<1>1. q \in SUBSET [buyer : Nat, details : Detail]
  BY DEF Transaction
<1>2. Imp!Noted(t, b, d) = u
  BY DEF Imp!Noted
<1> HIDE DEF q
<1>3. /\ u \in Transaction /\ u.op = t.op /\ u.file = t.file /\ u.rows = t.rows /\ u.left = t.left
      /\ u.fresh = t.fresh /\ u.flushed = t.flushed /\ u.added = t.added
  BY <1>1 DEF Transaction
<1> QED BY <1>2, <1>3 DEF Same, Holding, Held

\* A row is done once what it introduces is, and its invoice.
LEMMA RowDone ==
  ASSUME ImportInv, NEW s \in Hands, NEW u \in Transaction, NEW i \in import[s].left,
         Same(import[s], u), u.left = import[s].left \ {i}, Holding(import[s], u),
         \A l \in Lines : Introduced(import[s].fresh, l) => Introduced(u.fresh, l),
         LET row == import[s].rows[i] IN
         /\ row.action = "CREATE" /\ import[s].op = "commit" => Introduced(u.fresh, row.line)
         /\ row.line.number # "none" => Held(u, row.line.number)
  PROVE  Follows(u) /\ u.left \subseteq DOMAIN u.rows
<1> DEFINE t == import[s]
<1>1. /\ t \in Transaction /\ t.left \subseteq DOMAIN t.rows /\ Follows(t)
  BY DEF ImportInv, ImportTypes, Following
<1>2. \A j \in DOMAIN t.rows : t.rows[j].line \in Lines
  <2>1. t.rows \in Seq(Row)
    BY <1>1 DEF Transaction
  <2>2. \A j \in DOMAIN t.rows : t.rows[j] \in Row
    BY <2>1, LenProperties
  <2> QED BY <2>2 DEF Row
<1>3. \A j \in DOMAIN t.rows : t.rows[j].line.number # "none" => t.rows[j].line.number \in Imp!Numbers
  BY <1>2 DEF Imp!Numbers
<1> HIDE DEF t
<1>4. /\ Same(t, u) /\ Holding(t, u) /\ u.left = t.left \ {i} /\ i \in t.left
      /\ \A l \in Lines : Introduced(t.fresh, l) => Introduced(u.fresh, l)
      /\ t.rows[i].action = "CREATE" /\ t.op = "commit" => Introduced(u.fresh, t.rows[i].line)
      /\ t.rows[i].line.number # "none" => Held(u, t.rows[i].line.number)
  BY DEF t
<1>5. ASSUME u.op = "commit", NEW j \in DOMAIN u.rows \ u.left, u.rows[j].action = "CREATE"
      PROVE  /\ Introduced(u.fresh, u.rows[j].line)
             /\ u.rows[j].line.number # "none" => Held(u, u.rows[j].line.number)
  <2>1. u.rows = t.rows /\ t.op = "commit" /\ j \in DOMAIN t.rows /\ (j \notin t.left \/ j = i)
    BY <1>4, <1>5 DEF Same
  <2>2. CASE j = i
    BY <1>4, <1>5, <2>1, <2>2
  <2>3. CASE j \notin t.left
    <3>1. /\ Introduced(t.fresh, t.rows[j].line)
          /\ t.rows[j].line.number # "none" => Held(t, t.rows[j].line.number)
      BY <1>1, <1>5, <2>1, <2>3 DEF Follows
    <3> QED BY <1>2, <1>3, <1>4, <2>1, <3>1 DEF Holding
  <2> QED BY <2>1, <2>2, <2>3
<1> QED BY <1>1, <1>4, <1>5 DEF Follows, Same

\* A debtor with a code that nobody has, committed or in hand, joins those in hand.
LEMMA Joins ==
  ASSUME ImportInv, NEW s \in Hands, NEW new \in Buyer,
         new.coded => /\ Imp!ByCode(new.who) = {} /\ new.who \notin Imp!Codes(import[s])
                      /\ \A r \in Hands \ {s} : new.who \notin Imp!Codes(import[r])
  PROVE  LET p == Append(import[s].fresh, new) IN
         /\ p \in Seq(Buyer) /\ OneEach(p) /\ Apart(buyers, p)
         /\ \A r \in Hands \ {s} : Apart(p, import[r].fresh)
         /\ Introduced(p, new) /\ \A l : Introduced(import[s].fresh, l) => Introduced(p, l)
<1> DEFINE q == import[s].fresh
           p == Append(q, new)
           n == Len(q) + 1
<1>1. /\ q \in Seq(Buyer) /\ OneEach(q) /\ Apart(buyers, q)
      /\ \A r \in Hands \ {s} : Apart(q, import[r].fresh)
  BY DEF ImportInv, ImportTypes, Reserved, Transaction
<1>2. new.coded =>
        /\ \A b \in DOMAIN buyers : buyers[b].coded => buyers[b].who # new.who
        /\ \A r \in Hands : \A i \in DOMAIN import[r].fresh :
             import[r].fresh[i].coded => import[r].fresh[i].who # new.who
  BY DEF Imp!ByCode, Imp!Codes
<1>3. /\ p \in Seq(Buyer) /\ DOMAIN p = DOMAIN q \cup {n} /\ n \notin DOMAIN q
      /\ p[n] = new /\ \A i \in DOMAIN q : p[i] = q[i]
  <2>1. /\ p \in Seq(Buyer) /\ DOMAIN p = 1 .. n /\ DOMAIN q = 1 .. Len(q) /\ Len(q) \in Nat
        /\ \A i \in DOMAIN q : p[i] = q[i]
        /\ p[n] = new
    BY <1>1, AppendTo
  <2>2. DOMAIN p = DOMAIN q \cup {n} /\ n \notin DOMAIN q
    BY <2>1
  <2> QED BY <2>1, <2>2
<1>4. new.coded => \A i \in DOMAIN q : q[i].coded => q[i].who # new.who
  BY <1>2
<1> HIDE DEF p, q, n
<1>5. OneEach(p)
  BY <1>1, <1>3, <1>4 DEF OneEach
<1>6. Apart(buyers, p)
  BY <1>1, <1>2, <1>3 DEF Apart
<1>7. \A r \in Hands \ {s} : Apart(p, import[r].fresh)
  BY <1>1, <1>2, <1>3 DEF Apart
<1>8. Introduced(p, new) /\ \A l : Introduced(q, l) => Introduced(p, l)
  BY <1>3 DEF Introduced
<1> QED BY <1>3, <1>5, <1>6, <1>7, <1>8 DEF p, q

\* A row of a transaction is applied.
LEMMA ApplyStep ==
  ASSUME ImportInv, NEW s \in Hands, Imp!ApplyRow(s)
  PROVE  ImportInv'
<1> DEFINE t == import[s]
           i == Imp!NextRow(t)
           row == t.rows[i]
           who == row.line.who
           found == IF row.action = "SYNC" THEN Imp!ByCode(who) ELSE {row.buyer} \ {0}
           new == [who |-> who, coded |-> row.line.coded, details |-> row.line.details]
           v == Imp!Flushed(Imp!Finished(t))
           w == [v EXCEPT !.fresh = Append(@, new)]
           b == CHOOSE c \in found : TRUE
           n == Imp!Noted(Imp!Finished(t), b, row.line.details)
<1>1. /\ t.left # {} /\ UNCHANGED <<buyers, invoices, batch, applied>>
      /\ \/ /\ found = {} /\ (row.line.coded => ~Imp!WaitsForCode(s, who))
            /\ \/ /\ row.line.coded => Imp!CodeFree(t, who)
                  /\ import' = [import EXCEPT ![s] = Imp!WithInvoice(w, row.line)]
               \/ import' = [import EXCEPT ![s] = Imp!NoImport]
         \/ found # {} /\ import' = [import EXCEPT ![s] = Imp!WithInvoice(n, row.line)]
  BY DEF Imp!ApplyRow
<1>2. t \in Transaction /\ i \in t.left /\ i \in DOMAIN t.rows
  <2>1. t \in Transaction /\ t.left \subseteq DOMAIN t.rows
    BY DEF ImportInv, ImportTypes
  <2> QED BY <1>1, <2>1, NextOne
<1>3. row \in Row /\ row.line \in Lines /\ row.line.coded \in BOOLEAN /\ new \in Buyer
  <2>1. t.rows \in Seq(Row)
    BY <1>2 DEF Transaction
  <2>2. \A j \in DOMAIN t.rows : t.rows[j] \in Row
    BY <2>1, LenProperties
  <2>3. row \in Row /\ row.line \in Lines
    BY <1>2, <2>2 DEF Row
  <2> QED BY <2>3, LinesAssumption DEF Buyer, Detail
<1>4. ASSUME import' = [import EXCEPT ![s] = Imp!NoImport] PROVE ImportInv'
  BY <1>1, <1>4, FailStep
<1>5. ASSUME row.line.coded => ~Imp!WaitsForCode(s, who), row.line.coded => Imp!CodeFree(t, who),
             import' = [import EXCEPT ![s] = Imp!WithInvoice(w, row.line)]
      PROVE  ImportInv'
  <2> DEFINE p == Append(t.fresh, new)
             u == Imp!WithInvoice(w, row.line)
  <2>1. /\ p \in Seq(Buyer) /\ OneEach(p) /\ Apart(buyers, p)
        /\ \A r \in Hands \ {s} : Apart(p, import[r].fresh)
        /\ Introduced(p, new) /\ \A l : Introduced(t.fresh, l) => Introduced(p, l)
    <3>1. new.who = who /\ new.coded = row.line.coded
      OBVIOUS
    <3>2. new.coded => /\ Imp!ByCode(new.who) = {} /\ new.who \notin Imp!Codes(import[s])
                       /\ \A r \in Hands \ {s} : new.who \notin Imp!Codes(import[r])
      BY <1>5, <3>1 DEF Imp!WaitsForCode, Imp!Others, Imp!CodeFree
    <3> HIDE DEF new
    <3> QED BY <1>3, <3>2, Joins
  <2>2. /\ v \in Transaction /\ Same(t, v) /\ v.left = t.left \ {i} /\ v.fresh = t.fresh
        /\ Holding(t, v)
    <3>1. /\ Imp!Finished(t) \in Transaction /\ Same(t, Imp!Finished(t)) /\ Holding(t, Imp!Finished(t))
          /\ Imp!Finished(t).left = t.left \ {i} /\ Imp!Finished(t).fresh = t.fresh
      BY <1>2, FinishedKeeps
    <3>2. /\ v \in Transaction /\ Same(Imp!Finished(t), v) /\ v.left = Imp!Finished(t).left
          /\ v.fresh = Imp!Finished(t).fresh /\ Holding(Imp!Finished(t), v)
      BY <3>1, FlushedKeeps
    <3> QED BY <3>1, <3>2 DEF Same, Holding
  <2> HIDE DEF v
  <2>3. w = [v EXCEPT !.fresh = p]
    BY <2>2
  <2> HIDE DEF p
  <2>4. /\ w \in Transaction /\ Same(t, w) /\ w.left = t.left \ {i} /\ w.fresh = p
        /\ Holding(t, w)
    BY <2>1, <2>2, <2>3 DEF Transaction, Same, Holding, Held
  <2> HIDE DEF w
  <2>5. /\ u \in Transaction /\ Same(w, u) /\ u.left = w.left /\ u.fresh = w.fresh
        /\ Holding(w, u) /\ (row.line.number # "none" => Held(u, row.line.number))
    BY <1>3, <2>4, InvoiceKeeps
  <2> HIDE DEF u
  <2>6. Same(t, u) /\ Holding(t, u) /\ u.left = t.left \ {i} /\ u.fresh = p
    BY <2>4, <2>5 DEF Same, Holding
  <2>7. Introduced(u.fresh, row.line)
    BY <2>1, <2>6 DEF Introduced
  <2>8. Follows(u) /\ u.left \subseteq DOMAIN u.rows
    BY <1>2, <2>1, <2>5, <2>6, <2>7, RowDone
  <2> QED BY <1>1, <1>5, <2>1, <2>5, <2>6, <2>8, Turn DEF u
<1>6. ASSUME found # {}, import' = [import EXCEPT ![s] = Imp!WithInvoice(n, row.line)]
      PROVE  ImportInv'
  <2> DEFINE u == Imp!WithInvoice(n, row.line)
  <2>1. b \in Nat /\ row.line.details \in Detail
    <3>1. Imp!ByCode(who) \subseteq Nat
      BY LenProperties DEF Imp!ByCode, ImportInv, ImportTypes
    <3>2. found \subseteq Nat
      BY <1>3, <3>1 DEF Row
    <3> QED BY <1>3, <1>6, <3>2 DEF Detail
  <2>2. ~(row.action = "CREATE" /\ t.op = "commit")
    <3> SUFFICES ASSUME row.action = "CREATE", t.op = "commit" PROVE FALSE
      OBVIOUS
    <3>1. t.file \in Papers /\ t.rows = batch[t.file].rows
      BY DEF ImportInv, Following, Follows
    <3>2. row.buyer = 0
      BY <1>2, <3>1 DEF ImportInv, ImportTypes, Creating
    <3> QED BY <1>6, <3>2
  <2>3. /\ n \in Transaction /\ Same(t, n) /\ n.left = t.left \ {i} /\ n.fresh = t.fresh
        /\ Holding(t, n)
    <3>1. /\ Imp!Finished(t) \in Transaction /\ Same(t, Imp!Finished(t)) /\ Holding(t, Imp!Finished(t))
          /\ Imp!Finished(t).left = t.left \ {i} /\ Imp!Finished(t).fresh = t.fresh
      BY <1>2, FinishedKeeps
    <3>2. /\ n \in Transaction /\ Same(Imp!Finished(t), n) /\ n.left = Imp!Finished(t).left
          /\ n.fresh = Imp!Finished(t).fresh /\ Holding(Imp!Finished(t), n)
      <4> HIDE DEF b
      <4> QED BY <2>1, <3>1, NotedKeeps
    <3> QED BY <3>1, <3>2 DEF Same, Holding
  <2> HIDE DEF n
  <2>4. /\ u \in Transaction /\ Same(n, u) /\ u.left = n.left /\ u.fresh = n.fresh
        /\ Holding(n, u) /\ (row.line.number # "none" => Held(u, row.line.number))
    BY <1>3, <2>3, InvoiceKeeps
  <2> HIDE DEF u
  <2>5. Same(t, u) /\ Holding(t, u) /\ u.left = t.left \ {i} /\ u.fresh = t.fresh
    BY <2>3, <2>4 DEF Same, Holding
  <2>6. Follows(u) /\ u.left \subseteq DOMAIN u.rows
    BY <1>2, <2>2, <2>4, <2>5, RowDone
  <2>7. /\ OneEach(t.fresh) /\ Apart(buyers, t.fresh)
        /\ \A r \in Hands \ {s} : Apart(t.fresh, import[r].fresh)
    BY DEF ImportInv, Reserved
  <2> QED BY <1>1, <1>6, <2>4, <2>5, <2>6, <2>7, Turn DEF u
<1> QED BY <1>1, <1>4, <1>5, <1>6

\* What a transaction leaves of the debtors it updates: who they are.
LEMMA UpdatedBuyers ==
  ASSUME ImportInv, NEW s \in Hands
  PROVE  LET m == [b \in DOMAIN buyers |-> Imp!Updated(import[s], b)] IN
         /\ m \in Seq(Buyer) /\ DOMAIN m = DOMAIN buyers
         /\ \A b \in DOMAIN buyers : m[b].who = buyers[b].who /\ m[b].coded = buyers[b].coded
<1> DEFINE t == import[s]
           m == [b \in DOMAIN buyers |-> Imp!Updated(t, b)]
<1>1. t \in Transaction /\ buyers \in Seq(Buyer)
  BY DEF ImportInv, ImportTypes
<1>2. ASSUME NEW b \in DOMAIN buyers
      PROVE  /\ Imp!Updated(t, b) \in Buyer /\ Imp!Updated(t, b).who = buyers[b].who
             /\ Imp!Updated(t, b).coded = buyers[b].coded
  <2>1. buyers[b] \in Buyer
    BY <1>1, LenProperties
  <2>2. \A d \in Detail : LET c == [buyers[b] EXCEPT !.details = d] IN
                          c \in Buyer /\ c.who = buyers[b].who /\ c.coded = buyers[b].coded
    BY <2>1 DEF Buyer
  <2>3. \A u \in t.details : u.details \in Detail
    BY <1>1 DEF Transaction
  <2> HIDE DEF t
  <2>4. (\E u \in t.details : u.buyer = b) =>
          (CHOOSE u \in t.details : u.buyer = b).details \in Detail
    BY <2>3
  <2> QED BY <2>1, <2>2, <2>4 DEF Imp!Updated
<1>3. m \in [DOMAIN buyers -> Buyer]
  BY <1>2
<1> QED BY <1>1, <1>2, <1>3, MapSeq

\* A transaction commits.
LEMMA CommitImportStep ==
  ASSUME ImportInv, NEW s \in Hands, Imp!Commit(s)
  PROVE  ImportInv'
<1> DEFINE t == import[s]
           m == [b \in DOMAIN buyers |-> Imp!Updated(t, b)]
<1>1. CASE UNCHANGED <<buyers, invoices, batch, applied>>
  BY <1>1, FailStep DEF Imp!Commit
<1>2. CASE ~UNCHANGED <<buyers, invoices, batch, applied>>
  <2>1. /\ t.op # "none" /\ t.left = {} /\ import' = [import EXCEPT ![s] = Imp!NoImport]
        /\ buyers' = m \o t.fresh
        /\ invoices' = [n \in Imp!Numbers |->
             IF Imp!In(t.flushed \o t.added, n) THEN "imported" ELSE invoices[n]]
        /\ \/ t.op = "sync" /\ UNCHANGED <<batch, applied>>
           \/ /\ t.op # "sync" /\ batch' = [batch EXCEPT ![t.file].status = "COMMITTED"]
              /\ applied' = [applied EXCEPT ![t.file] = @ + 1]
    BY <1>2 DEF Imp!Commit
  <2>2. /\ t \in Transaction /\ t.fresh \in Seq(Buyer) /\ OneEach(t.fresh) /\ Apart(buyers, t.fresh)
        /\ OneEach(buyers) /\ Follows(t)
    BY DEF ImportInv, ImportTypes, Reserved, Following, Transaction
  <2>3. /\ m \in Seq(Buyer) /\ DOMAIN m = DOMAIN buyers
        /\ \A b \in DOMAIN buyers : m[b].who = buyers[b].who /\ m[b].coded = buyers[b].coded
    BY UpdatedBuyers
  <2> HIDE DEF m
  <2>4. /\ OneEach(m) /\ Apart(m, t.fresh)
        /\ \A r \in Hands : Apart(m, import[r].fresh)
        /\ \A l : Introduced(buyers, l) => Introduced(m, l)
    BY <2>2, <2>3 DEF OneEach, Apart, Introduced, ImportInv, Reserved
  <2> DEFINE p == m \o t.fresh
             k == Len(m)
  <2>4a. p \in Seq(Buyer) /\ k \in Nat /\ Joined(p, m, t.fresh)
    BY <2>2, <2>3, Both
  <2> HIDE DEF p
  <2>5. /\ p \in Seq(Buyer) /\ k \in Nat
        /\ \A i \in DOMAIN m : i \in DOMAIN p /\ p[i] = m[i]
        /\ \A i \in DOMAIN t.fresh : i + k \in DOMAIN p /\ p[i + k] = t.fresh[i]
        /\ \A j \in DOMAIN p : \/ j \in DOMAIN m /\ p[j] = m[j]
                               \/ j - k \in DOMAIN t.fresh /\ j \in Nat /\ p[j] = t.fresh[j - k]
    BY <2>4a DEF Joined
  <2> HIDE DEF k
  <2>6. /\ \A l : Introduced(buyers, l) => Introduced(p, l)
        /\ \A l : Introduced(t.fresh, l) => Introduced(p, l)
    BY <2>4, <2>5 DEF Introduced
  <2>7. OneEach(p)
    <3> SUFFICES ASSUME NEW i \in DOMAIN p, NEW j \in DOMAIN p,
                        p[i].coded, p[j].coded, p[i].who = p[j].who
        PROVE  i = j
      BY DEF OneEach
    <3>1. CASE i \in DOMAIN m /\ p[i] = m[i] /\ j \in DOMAIN m /\ p[j] = m[j]
      BY <2>4, <3>1 DEF OneEach
    <3>2. CASE /\ i - k \in DOMAIN t.fresh /\ i \in Nat /\ p[i] = t.fresh[i - k]
               /\ j - k \in DOMAIN t.fresh /\ j \in Nat /\ p[j] = t.fresh[j - k]
      <4>1. i - k = j - k
        BY <2>2, <3>2 DEF OneEach
      <4> QED BY <2>5, <3>2, <4>1
    <3>3. CASE \/ /\ i \in DOMAIN m /\ p[i] = m[i]
                  /\ j - k \in DOMAIN t.fresh /\ p[j] = t.fresh[j - k]
               \/ /\ j \in DOMAIN m /\ p[j] = m[j]
                  /\ i - k \in DOMAIN t.fresh /\ p[i] = t.fresh[i - k]
      BY <2>4, <3>3 DEF Apart
    <3> QED BY <2>5, <3>1, <3>2, <3>3
  <2>8. \A r \in Hands \ {s} : Apart(p, import[r].fresh)
    <3>1. \A r \in Hands \ {s} : Apart(t.fresh, import[r].fresh)
      BY DEF ImportInv, Reserved
    <3> QED BY <2>4, <2>5, <3>1 DEF Apart
  <2>9. \A r \in Hands : import'[r] = IF r = s THEN Imp!NoImport ELSE import[r]
    BY <2>1 DEF ImportInv, ImportTypes
  <2>10. /\ invoices' \in [Imp!Numbers -> {"none", "imported"}]
         /\ \A n \in Imp!Numbers : invoices[n] # "none" => invoices'[n] # "none"
         /\ \A n \in Imp!Numbers : Held(t, n) => invoices'[n] # "none"
    <3>1. \A n : Imp!In(t.flushed, n) \/ Imp!In(t.added, n) => Imp!In(t.flushed \o t.added, n)
      <4>1. /\ t.flushed \in Seq(Imp!Numbers) /\ t.added \in Seq(Imp!Numbers)
        BY <2>2 DEF Transaction
      <4> DEFINE q == t.flushed \o t.added
      <4>2. Joined(q, t.flushed, t.added)
        BY <4>1, Both
      <4> HIDE DEF q
      <4>3. \A n : Imp!In(t.flushed, n) \/ Imp!In(t.added, n) => Imp!In(q, n)
        BY <4>2 DEF Imp!In, Joined
      <4> QED BY <4>3 DEF q
    <3>2. invoices \in [Imp!Numbers -> {"none", "imported"}]
      BY DEF ImportInv, ImportTypes
    <3> QED BY <2>1, <3>1, <3>2 DEF Held
  <2>11. /\ \A f \in Papers : batch'[f].rows = batch[f].rows /\ Imp!Creates(f)' = Imp!Creates(f)
         /\ \A f \in Papers : batch[f].status = "COMMITTED" => batch'[f].status = "COMMITTED"
         /\ \A f \in Papers : batch[f].status \in {"PREVIEWED", "COMMITTED"}
                               => batch'[f].status \in {"PREVIEWED", "COMMITTED"}
         /\ batch' \in [Papers -> [status : Imp!ImportStatus, rows : Seq(Row)]]
         /\ applied' \in [Papers -> Nat]
    <3>1. /\ batch \in [Papers -> [status : Imp!ImportStatus, rows : Seq(Row)]]
          /\ applied \in [Papers -> Nat]
      BY DEF ImportInv, ImportTypes
    <3>1a. t.op # "sync" => t.file \in Papers
      BY <2>1, <2>2 DEF Follows, Transaction
    <3>1b. ASSUME t.op # "sync"
          PROVE  /\ \A f \in Papers : /\ batch'[f].rows = batch[f].rows
                                   /\ batch'[f].status \in {batch[f].status, "COMMITTED"}
                 /\ batch' \in [Papers -> [status : Imp!ImportStatus, rows : Seq(Row)]]
                 /\ applied' \in [Papers -> Nat]
      <4>1. PICK g \in Papers : g = t.file
        BY <3>1a, <3>1b
      <4> DEFINE c == [batch[g] EXCEPT !.status = "COMMITTED"]
      <4>2. /\ c \in [status : Imp!ImportStatus, rows : Seq(Row)] /\ c.rows = batch[g].rows
            /\ c.status = "COMMITTED"
        BY <3>1 DEF Imp!ImportStatus
      <4>3. batch' = [batch EXCEPT ![g] = c] /\ applied' = [applied EXCEPT ![g] = @ + 1]
        BY <2>1, <3>1b, <4>1
      <4> HIDE DEF c
      <4> QED BY <3>1, <4>2, <4>3
    <3>1c. ASSUME t.op = "sync"
          PROVE  /\ \A f \in Papers : /\ batch'[f].rows = batch[f].rows
                                   /\ batch'[f].status \in {batch[f].status, "COMMITTED"}
                 /\ batch' \in [Papers -> [status : Imp!ImportStatus, rows : Seq(Row)]]
                 /\ applied' \in [Papers -> Nat]
      BY <2>1, <3>1, <3>1c
    <3>2. \A f \in Papers : /\ batch'[f].rows = batch[f].rows
                            /\ batch'[f].status \in {batch[f].status, "COMMITTED"}
      BY <3>1b, <3>1c
    <3>3. /\ batch' \in [Papers -> [status : Imp!ImportStatus, rows : Seq(Row)]]
          /\ applied' \in [Papers -> Nat]
      BY <3>1b, <3>1c
    <3> QED BY <3>2, <3>3 DEF Imp!Creates
  <2>12. ImportTypes'
    <3>1. import' \in [Hands -> Transaction]
      BY <2>1, BlankImport DEF ImportInv, ImportTypes
    <3>2. \A r \in Hands : import'[r].left \subseteq DOMAIN import'[r].rows
      BY <2>9, BlankImport DEF ImportInv, ImportTypes
    <3>3. \A f \in Papers : Creating(batch'[f].rows)
      BY <2>11 DEF ImportInv, ImportTypes
    <3>4. buyers' \in Seq(Buyer)
      BY <2>1, <2>5 DEF p
    <3> QED BY <2>10, <2>11, <3>1, <3>2, <3>3, <3>4 DEF ImportTypes, Creating
  <2>13. buyers' = p
    BY <2>1 DEF p
  <2>14. Reserved'
    <3>1. OneEach(buyers') /\ \A r \in Hands : OneEach(import'[r].fresh) /\ Apart(buyers', import'[r].fresh)
      BY <2>7, <2>8, <2>9, <2>13, BlankImport, NothingFresh DEF ImportInv, Reserved
    <3>2. \A q, r \in Hands : q # r => Apart(import'[q].fresh, import'[r].fresh)
      BY <2>9, BlankImport, NothingFresh DEF ImportInv, Reserved
    <3> QED BY <3>1, <3>2 DEF Reserved, OneEach, Apart
  <2>15. \A f \in Papers : \A l \in Imp!Creates(f) :
           l \in Lines /\ (l.number # "none" => l.number \in Imp!Numbers)
    <3>1. \A f \in Papers : \A i \in DOMAIN batch[f].rows : batch[f].rows[i].line \in Lines
      <4> SUFFICES ASSUME NEW f \in Papers, NEW i \in DOMAIN batch[f].rows
          PROVE  batch[f].rows[i].line \in Lines
        OBVIOUS
      <4>1. batch[f].rows \in Seq(Row)
        BY DEF ImportInv, ImportTypes
      <4>2. batch[f].rows[i] \in Row
        BY <4>1, LenProperties
      <4> QED BY <4>2 DEF Row
    <3>2. \A l \in Lines : l.number # "none" => l.number \in Imp!Numbers
      BY DEF Imp!Numbers
    <3> QED BY <3>1, <3>2 DEF Imp!Creates
  <2>16. Following'
    <3> SUFFICES ASSUME NEW r \in Hands PROVE Follows(import[r])'
      BY DEF Following
    <3>1. CASE r = s
      BY <2>9, <3>1, BlankImport DEF Follows
    <3>2. CASE r # s
      <4>1. import'[r] = import[r] /\ Follows(import[r])
        BY <2>9, <3>2 DEF ImportInv, Following
      <4> SUFFICES ASSUME import[r].op = "commit"
          PROVE  Follows(import[r])'
        BY <4>1 DEF Follows
      <4>2. /\ import[r].file \in Papers
            /\ batch'[import[r].file].status \in {"PREVIEWED", "COMMITTED"}
            /\ import[r].rows = batch'[import[r].file].rows
        BY <2>11, <4>1 DEF Follows
      <4>3. ASSUME NEW i \in DOMAIN import[r].rows \ import[r].left, import[r].rows[i].action = "CREATE",
                   import[r].rows[i].line.number # "none"
            PROVE  Held(import[r], import[r].rows[i].line.number)'
        <5> DEFINE n == import[r].rows[i].line.number
        <5>1. Held(import[r], n) /\ n \in Imp!Numbers
          <6>1. Held(import[r], n)
            BY <4>1, <4>3 DEF Follows
          <6>2. import[r].rows[i].line \in Imp!Creates(import[r].file)
            BY <2>11, <4>2, <4>3 DEF Imp!Creates
          <6> QED BY <2>15, <4>2, <4>3, <6>1, <6>2
        <5> QED BY <2>10, <4>1, <5>1 DEF Held
      <4> QED BY <4>1, <4>2, <4>3 DEF Follows
    <3> QED BY <3>1, <3>2
  <2>17. ASSUME NEW f \in Papers, t.op = "commit", f = t.file
         PROVE  /\ \A l \in Imp!Creates(f) : /\ Introduced(t.fresh, l)
                                             /\ l.number # "none" => invoices'[l.number] # "none"
                /\ (\E l \in Imp!Creates(f) : l.coded) => applied[f] = 0
    <3>1. ASSUME NEW l \in Imp!Creates(f)
          PROVE  Introduced(t.fresh, l) /\ (l.number # "none" => Held(t, l.number))
      <4>1. PICK i \in DOMAIN batch[f].rows : batch[f].rows[i].action = "CREATE" /\ l = batch[f].rows[i].line
        BY DEF Imp!Creates
      <4>2. i \in DOMAIN t.rows \ t.left /\ t.rows = batch[f].rows
        BY <2>1, <2>2, <2>17, <4>1 DEF Follows
      <4> QED BY <2>2, <2>17, <4>1, <4>2 DEF Follows
    <3>2. ASSUME NEW l \in Imp!Creates(f), l.coded PROVE applied[f] = 0
      <4>1. ~Introduced(buyers, l)
        <5> SUFFICES ASSUME NEW b \in DOMAIN buyers, buyers[b].who = l.who, buyers[b].coded = l.coded
            PROVE  FALSE
          BY DEF Introduced
        <5>1. PICK i \in DOMAIN t.fresh : t.fresh[i].who = l.who /\ t.fresh[i].coded = l.coded
          BY <3>1 DEF Introduced
        <5>2. l.coded = TRUE
          BY <2>15, <3>2, LinesAssumption
        <5>3. buyers[b].coded /\ t.fresh[i].coded
          BY <5>1, <5>2
        <5> QED BY <2>2, <5>1, <5>3 DEF Apart
      <4>2. applied[f] \in Nat /\ (applied[f] > 0 => Introduced(buyers, l))
        BY DEF ImportInv, ImportTypes, Effects
      <4> QED BY <4>1, <4>2
    <3> QED BY <2>10, <2>15, <3>1, <3>2
  <2>18. Effects'
    <3> SUFFICES ASSUME NEW f \in Papers
        PROVE  /\ applied'[f] > 0 =>
                    /\ batch'[f].status = "COMMITTED"
                    /\ \A l \in Imp!Creates(f) : /\ Introduced(buyers', l)
                                                 /\ l.number # "none" => invoices'[l.number] # "none"
               /\ (\E l \in Imp!Creates(f) : l.coded) => applied'[f] <= 1
      BY <2>11 DEF Effects, Introduced
    <3>1. CASE t.op = "commit" /\ f = t.file
      <4>1. batch'[f].status = "COMMITTED" /\ applied'[f] = applied[f] + 1
        BY <2>1, <3>1 DEF ImportInv, ImportTypes
      <4> QED BY <2>6, <2>13, <2>17, <3>1, <4>1
    <3>2. CASE ~(t.op = "commit" /\ f = t.file)
      <4>1. applied'[f] = applied[f] /\ batch'[f].status = batch[f].status
        BY <2>1, <2>2, <3>2 DEF ImportInv, ImportTypes, Transaction
      <4> QED BY <2>6, <2>10, <2>13, <2>15, <4>1 DEF ImportInv, Effects
    <3> QED BY <3>1, <3>2
  <2> QED BY <2>12, <2>14, <2>16, <2>18 DEF ImportInv
<1> QED BY <1>1, <1>2

\* A behaviour of the whole is one of Imports.
LEMMA ImportsPart == Spec => Imp!Spec
<1>1. Init => Imp!Init
  BY DEF Init
<1>2. [Next]_vars => [Imp!Next]_(Imp!fvars)
  BY DEF Next, vars, AtRest, fvars, Imp!fvars
<1> QED BY <1>1, <1>2, PTL DEF Spec, Imp!Spec

\* The files, the debtors and the transactions keep their invariant.
LEMMA ImportsKept == Spec => []ImportInv
<1>1. ImportInv /\ [Imp!Next]_(Imp!fvars) => ImportInv'
  <2> SUFFICES ASSUME ImportInv, [Imp!Next]_(Imp!fvars) PROVE ImportInv'
    OBVIOUS
  <2>1. CASE UNCHANGED Imp!fvars
    BY <2>1 DEF Imp!fvars, ImportInv, ImportTypes, Creating, Reserved, OneEach, Apart, Following,
                Follows, Held, Introduced, Effects, Imp!Creates
  <2>2. ASSUME NEW s \in Hands, Imp!Fail(s) PROVE ImportInv'
    BY <2>2, FailStep DEF Imp!Fail
  <2> QED BY <2>1, <2>2, StagingStep, BeginStep, ApplyStep, CommitImportStep DEF Imp!Next
<1> QED BY InitImports, <1>1, ImportsPart, PTL DEF Imp!Spec

\* For any number of files, sessions, lines and debtors, however staging, commits of one file
\* and syncs overlap: a party with a code is one debtor, and a file that introduces one takes
\* effect once, with all of its lines (ingestion/csv_import.py).
THEOREM ImportedOnce == Spec => []AppliedOnce
<1>1. ImportInv => AppliedOnce
  BY DEF ImportInv, Reserved, OneEach, Effects, Introduced, AppliedOnce, Imp!AppliedOnce
<1> QED BY <1>1, ImportsKept, PTL

---------------------------------------------------------------------------
(* Types.                                                                  *)

\* No file is longer than a file may be.
Fits == \A f \in Papers : Len(batch[f].rows) <= MaxLines

LEMMA FitsStep ==
  ASSUME ImportTypes, Fits, [Imp!Next]_(Imp!fvars)
  PROVE  Fits'
<1>1. ASSUME NEW f \in Papers, NEW st, batch' = [batch EXCEPT ![f].status = st] PROVE Fits'
  <2>1. \A g \in Papers : batch'[g].rows = batch[g].rows
    BY <1>1 DEF ImportTypes
  <2> QED BY <2>1 DEF Fits
<1>2. CASE UNCHANGED batch
  BY <1>2 DEF Fits
<1>3. ASSUME NEW f \in Papers, Imp!StageRow(f) PROVE Fits'
  <2>1. PICK r : batch' = [batch EXCEPT ![f] = [status |-> "PENDING",
                                                rows |-> Append(batch[f].rows, r)]]
    BY <1>3 DEF Imp!StageRow, ImportTypes
  <2>2. batch[f].rows \in Seq(Row) /\ Len(batch[f].rows) < MaxLines
    BY <1>3 DEF Imp!StageRow, ImportTypes
  <2>3. Len(Append(batch[f].rows, r)) = Len(batch[f].rows) + 1 /\ Len(batch[f].rows) \in Nat
    BY <2>2, LenProperties, AppendProperties
  <2>4. Len(Append(batch[f].rows, r)) <= MaxLines
    BY <2>2, <2>3, BoundAssumption
  <2>5. batch'[f].rows = Append(batch[f].rows, r) /\ \A g \in Papers \ {f} : batch'[g] = batch[g]
    BY <2>1 DEF ImportTypes
  <2> QED BY <2>4, <2>5 DEF Fits
<1>4. ASSUME NEW f \in Papers, Imp!Preview(f) PROVE Fits'
  BY <1>1, <1>4 DEF Imp!Preview
<1>5. ASSUME NEW s \in Hands, Imp!Commit(s) PROVE Fits'
  <2>1. CASE UNCHANGED batch
    BY <1>2, <2>1
  <2>2. CASE ~UNCHANGED batch
    <3>1. batch' = [batch EXCEPT ![import[s].file].status = "COMMITTED"]
      BY <1>5, <2>2 DEF Imp!Commit
    <3>2. \A g \in Papers : batch'[g].rows = batch[g].rows
      BY <3>1 DEF ImportTypes
    <3> QED BY <3>2 DEF Fits
  <2> QED BY <2>1, <2>2
<1>6. UNCHANGED batch \/ (\E f \in Papers : Imp!StageRow(f) \/ Imp!Preview(f))
      \/ (\E s \in Hands : Imp!Commit(s))
  BY DEF Imp!Next, Imp!fvars, Imp!BeginCommit, Imp!BeginSync, Imp!ApplyRow, Imp!Fail
<1> QED BY <1>2, <1>3, <1>4, <1>5, <1>6

\* What every part stores stays what its columns hold, for any number of workers, sessions,
\* companies, files and debts: no status outside its enumeration, no counter below zero or over
\* the bound its guards keep, no date that has not come, no score out of its scale.
THEOREM TypesKept == Spec => []TypeOK
<1>1. RegistryInv => Reg!TypeOK
  BY DEF RegistryInv
<1>2. AccountInv => Acc!TypeOK
  BY DEF AccountInv
<1>3. ImportInv /\ Fits => Imp!TypeOK
  <2> SUFFICES ASSUME ImportInv, Fits PROVE Imp!TypeOK
    OBVIOUS
  <2>1. ASSUME NEW b \in DOMAIN buyers PROVE buyers[b].coded \in BOOLEAN
    <3>1. buyers[b] \in Buyer
      BY DEF ImportInv, ImportTypes
    <3> QED BY <3>1 DEF Buyer
  <2> QED BY <2>1 DEF ImportInv, ImportTypes, Fits, Imp!TypeOK
<1>4. Imp!Init => Fits
  BY EmptySeq, BoundAssumption DEF Imp!Init, Fits
<1>5. ImportInv => ImportTypes
  BY DEF ImportInv
<1>6. Spec => []Fits
  BY <1>4, <1>5, FitsStep, ImportsKept, ImportsPart, PTL DEF Imp!Spec
<1>7. (Msg!TypeOK /\ Thr!TypeOK /\ Cha!TypeOK) /\ Cam!TypeOK /\ Pol!TypeOK /\ Aud!TypeOK
      /\ (Ten!TypeOK /\ Ide!TypeOK) /\ Cre!TypeOK /\ Res!TypeOK
      /\ Imp!TypeOK /\ Acc!TypeOK /\ Reg!TypeOK => TypeOK
  BY DEF TypeOK
<1> QED
  BY <1>1, <1>2, <1>3, <1>6, <1>7, ContactsTyped, CompaniesTyped, RegistryKept, AccountsKept,
     ImportsKept, PTL
=============================================================================
