------------------------------ MODULE Registry ------------------------------
(***************************************************************************)
(* From an overdue debt to a published one: whether it justifies a legal   *)
(* notice (legal/prelegal.py), whether it may be listed and what takes it  *)
(* down (registry/eligibility.py).  The three decisions are functions that *)
(* nothing in app/ calls yet.  The steps around them are external: the     *)
(* life that models/legal.py and models/registry.py give a notice and a    *)
(* listing, over a debt whose payments reach the ledger late.              *)
(***************************************************************************)
EXTENDS Integers, FiniteSets, FiniteSetsExt

CONSTANTS MaxOwed, Minimum, Floor, Cost,             \* amounts: the thresholds are part of the inputs
          Limitation, Response, Recency, NoPayment,  \* spans of days
          MaxDay                                     \* bound: the days that pass

VARIABLES
  today,
  debt,     \* what is owed, and what the ledger and the account say of it
  notice,   \* legal_notices
  listing   \* registry_listings

gvars == <<today, debt, notice, listing>>

Never == -1
Day == Never .. MaxDay
Debt == [owed : 0 .. MaxOwed, paid : Day,                   \* the truth
         booked : 0 .. MaxOwed, payment : Day, reconciled : Day,  \* the ledger
         status : {"OVERDUE", "IN_DISPUTE", "SETTLED"}, disputed : BOOLEAN, reached : BOOLEAN,
         acknowledged : Day, invoice : BOOLEAN, entity : BOOLEAN]
Notice == [status : {"none", "DRAFT", "DISPATCHED"}, proof : BOOLEAN, deadline : Never .. MaxDay + Response,
           responded : BOOLEAN]
Listing == [status : {"none", "PROPOSED", "PUBLISHED", "DISPUTED", "DELISTED"}, signed : BOOLEAN,
            on : Day, owed : 0 .. MaxOwed, paid : Day]  \* history: when it was published, and the truth then

NoNotice == [status |-> "none", proof |-> FALSE, deadline |-> Never, responded |-> FALSE]
NoListing == [status |-> "none", signed |-> FALSE, on |-> Never, owed |-> 0, paid |-> Never]

Init == /\ today = 0 /\ notice = NoNotice /\ listing = NoListing
        /\ \E invoice, entity \in BOOLEAN :
             debt = [owed |-> MaxOwed, paid |-> Never, booked |-> MaxOwed, payment |-> Never,
                     reconciled |-> Never, status |-> "OVERDUE", disputed |-> FALSE,
                     reached |-> FALSE, acknowledged |-> Never, invoice |-> invoice,
                     entity |-> entity]

---------------------------------------------------------------------------
(* The decisions.                                                          *)

\* limitation_expiry: the debt fell due on day 0; a payment or an acknowledgement
\* starts the period again.
LimitationExpiry == Max({0, debt.acknowledged, debt.payment}) + Limitation

\* assess: what costs more than it recovers is written off, whatever else stands in the
\* way; a lapsed claim is for a human.
Assess ==
  LET expired == today > LimitationExpiry
  IN IF debt.booked < Floor \/ debt.booked <= Cost THEN "RECOMMEND_WRITE_OFF"
     ELSE IF expired THEN "ROUTE_TO_HUMAN"
     ELSE IF debt.status # "OVERDUE" \/ ~debt.reached \/ ~debt.invoice THEN "NOT_READY"
     ELSE "RECOMMEND_NOTICE"

\* Mutant: the response period of the notice does not have to be over.
EvaluateEarly ==
  /\ debt.status = "OVERDUE" /\ ~debt.disputed /\ debt.booked >= Minimum
  /\ notice.status = "DISPATCHED" /\ notice.proof /\ ~notice.responded
  /\ debt.entity /\ debt.reconciled # Never /\ today - debt.reconciled <= Recency
  /\ debt.payment = Never \/ today - debt.payment > NoPayment
  /\ listing.signed

\* evaluate: all the gates, every one required.
Evaluate ==
  /\ debt.status = "OVERDUE"
  /\ ~debt.disputed
  /\ debt.booked >= Minimum
  /\ notice.status = "DISPATCHED" /\ notice.proof
  /\ ~notice.responded /\ notice.deadline # Never /\ today > notice.deadline
  /\ debt.entity
  /\ debt.reconciled # Never /\ today - debt.reconciled <= Recency
  /\ debt.payment = Never \/ today - debt.payment > NoPayment
  /\ listing.signed

\* should_delist: any reason removes the listing.
ShouldDelist(why) ==
  IF why \cap {"paid_in_full", "ledger_shows_settled"} # {} THEN "PAID"
  ELSE IF "dispute_raised" \in why THEN "DISPUTED"
  ELSE IF "entity_challenged" \in why THEN "ENTITY_CHALLENGED"
  ELSE IF "listing_party_withdrew" \in why THEN "WITHDRAWN" ELSE "none"

---------------------------------------------------------------------------
(* The debt and its ledger.                                                *)

Public == listing.status = "PUBLISHED"

\* What becomes of the listing when something is known of the debt.
Unlist(why) ==
  listing' = IF Public /\ ShouldDelist(why) # "none"
             THEN [listing EXCEPT !.status =
                     IF ShouldDelist(why) = "DISPUTED" THEN "DISPUTED" ELSE "DELISTED"]
             ELSE listing

\* The debtor pays: nobody here knows yet.
Pay == /\ \E n \in 1 .. debt.owed : debt' = [debt EXCEPT !.owed = @ - n, !.paid = today]
       /\ UNCHANGED <<today, notice, listing>>

Reconcile ==
  /\ debt' = [debt EXCEPT !.booked = debt.owed, !.reconciled = today, !.payment = debt.paid,
                          !.status = IF @ = "OVERDUE" /\ debt.owed = 0 THEN "SETTLED" ELSE @]
  /\ Unlist(IF debt.owed = 0 THEN {"ledger_shows_settled"} ELSE {})
  /\ UNCHANGED <<today, notice>>

Dispute == /\ debt' = [debt EXCEPT !.status = "IN_DISPUTE", !.disputed = TRUE]
           /\ Unlist({"dispute_raised"}) /\ UNCHANGED <<today, notice>>
Clear == /\ debt.status = "IN_DISPUTE"
         /\ debt' = [debt EXCEPT !.status = IF debt.booked > 0 THEN "OVERDUE" ELSE "SETTLED"]
         /\ UNCHANGED <<today, notice, listing>>

Reach == /\ ~debt.reached /\ debt' = [debt EXCEPT !.reached = TRUE]
         /\ UNCHANGED <<today, notice, listing>>
Acknowledge == /\ debt' = [debt EXCEPT !.acknowledged = today]
               /\ UNCHANGED <<today, notice, listing>>

Challenge == /\ debt.entity /\ debt' = [debt EXCEPT !.entity = FALSE]
             /\ Unlist({"entity_challenged"}) /\ UNCHANGED <<today, notice>>
Withdraw == /\ Public /\ Unlist({"listing_party_withdrew"})
            /\ UNCHANGED <<today, debt, notice>>

NextDay == /\ today < MaxDay /\ today' = today + 1 /\ UNCHANGED <<debt, notice, listing>>

---------------------------------------------------------------------------
(* The notice and the listing.                                             *)

Draft == /\ notice.status = "none" /\ Assess = "RECOMMEND_NOTICE"
         /\ notice' = [notice EXCEPT !.status = "DRAFT"] /\ UNCHANGED <<today, debt, listing>>
Dispatch == /\ notice.status = "DRAFT"
            /\ notice' = [notice EXCEPT !.status = "DISPATCHED", !.deadline = today + Response]
            /\ UNCHANGED <<today, debt, listing>>
Prove == /\ notice.status = "DISPATCHED" /\ notice' = [notice EXCEPT !.proof = TRUE]
         /\ UNCHANGED <<today, debt, listing>>
Respond == /\ notice.proof /\ notice' = [notice EXCEPT !.responded = TRUE]
           /\ UNCHANGED <<today, debt, listing>>

Propose == /\ listing.status \in {"none", "DISPUTED", "DELISTED"}
           /\ listing' = [NoListing EXCEPT !.status = "PROPOSED"] /\ UNCHANGED <<today, debt, notice>>
SignOff == /\ listing.status = "PROPOSED" /\ listing' = [listing EXCEPT !.signed = TRUE]
           /\ UNCHANGED <<today, debt, notice>>
Publish == /\ listing.status = "PROPOSED" /\ Evaluate
           /\ listing' = [listing EXCEPT !.status = "PUBLISHED", !.on = today,
                                         !.owed = debt.owed, !.paid = debt.paid]
           /\ UNCHANGED <<today, debt, notice>>

Next == \/ Pay \/ Reconcile \/ Dispute \/ Clear \/ Reach \/ Acknowledge \/ Challenge \/ Withdraw
        \/ NextDay \/ Draft \/ Dispatch \/ Prove \/ Respond \/ Propose \/ SignOff \/ Publish

Spec == Init /\ [][Next]_gvars

---------------------------------------------------------------------------
TypeOK == today \in 0 .. MaxDay /\ debt \in Debt /\ notice \in Notice /\ listing \in Listing

\* Whoever is published as owing money was reached, was told by a notice and had the time
\* to answer; has never disputed the debt, which the ledger shows unpaid; and did owe it on
\* the day it was published, unless it was paid in the week before (eligibility.py:1-18, 28).
ListedIsOwed ==
  Public => /\ debt.reached /\ debt.entity /\ ~debt.disputed
            /\ debt.status = "OVERDUE" /\ debt.booked > 0
            /\ notice.proof /\ listing.on > notice.deadline
            /\ listing.owed < Minimum => listing.on - listing.paid <= Recency
=============================================================================
