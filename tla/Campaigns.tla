----------------------------- MODULE Campaigns -----------------------------
(***************************************************************************)
(* Campaigns and the debtors they own (scheduler/campaign.py, the campaign *)
(* routes of api/routes.py, models/recovery.py), in overlapping            *)
(* transactions.  An operation reads what is committed when it starts and  *)
(* writes when it commits; an enrolment that meets the unique indexes then *)
(* is rolled back as a whole.  complete_if_done and resume have no caller  *)
(* in app/: an operator runs them.                                         *)
(***************************************************************************)
EXTENDS Naturals, FiniteSets

CONSTANTS Drives,   \* the campaigns
          Debtors,  \* the buyers
          Clerks    \* the sessions

VARIABLES
  drive,     \* the status of each campaign, or "none"
  target,    \* the campaign_targets row of each campaign and debtor
  due,       \* the debtors whose next_action_at is set
  owing,     \* the debtors with an overdue account
  work,      \* the open operation of each session
  dropped    \* history: the debtors whose schedule the scheduler has cleared since

cvars == <<drive, target, due, owing, work, dropped>>

CampaignStatus == {"DRAFT", "ACTIVE", "PAUSED", "COMPLETED"}
CampaignTarget == {"none", "active", "inactive"}

NoWork == [op |-> "none", drive |-> CHOOSE d \in Drives : TRUE, debtors |-> {}, seeds |-> {},
           done |-> FALSE]

Init == /\ drive = [d \in Drives |-> "none"]
        /\ target = [d \in Drives |-> [b \in Debtors |-> "none"]]
        /\ due = {} /\ owing = {} /\ dropped = {}
        /\ work = [s \in Clerks |-> NoWork]

Open(s, op, d, debtors, seeds, done) ==
  /\ work[s] = NoWork /\ drive[d] # "none"
  /\ work' = [work EXCEPT ![s] = [op |-> op, drive |-> d, debtors |-> debtors,
                                  seeds |-> seeds, done |-> done]]
  /\ UNCHANGED <<drive, target, due, owing, dropped>>

Close(s) == work' = [work EXCEPT ![s] = NoWork]

Active(d) == { b \in Debtors : target[d][b] = "active" }
Owned == UNION { Active(d) : d \in Drives }

---------------------------------------------------------------------------
\* create_campaign.
Create(d) == /\ drive[d] = "none" /\ drive' = [drive EXCEPT ![d] = "DRAFT"]
             /\ UNCHANGED <<target, due, owing, work, dropped>>

\* Mutant: every eligible debtor is scheduled to be enrolled, none to be contacted.
EnrolUnscheduled(s, d) == Open(s, "enrol", d, owing \ Owned, {}, FALSE)

\* enrol, of eligible_buyers: those no campaign owns, in whatever state the campaign is.
Enrol(s, d) == Open(s, "enrol", d, owing \ Owned, (owing \ Owned) \ due, FALSE)

\* start, and resume.
Start(s, d) == /\ drive[d] # "COMPLETED"
               /\ Open(s, "start", d, {}, Active(d) \ due, drive[d] # "ACTIVE")

Pause(s, d) == Open(s, "pause", d, {}, {}, drive[d] # "PAUSED")

\* complete_if_done: the targets that owe nothing or are not scheduled any more are let
\* go.  What remains is counted before that is flushed (sessions do not autoflush): an
\* active campaign is completed by the call that finds no active target.
Finished(d) == Active(d) \ (owing \cap due)
Complete(s, d) ==
  Open(s, "complete", d, Finished(d), {}, drive[d] = "ACTIVE" /\ Active(d) = {})

---------------------------------------------------------------------------
\* Mutant: only the constraint on campaign and debtor.
ConflictInDrive(w) == \E b \in w.debtors : target[w.drive][b] # "none"

\* The unique indexes: one active target by debtor, one target by campaign and debtor.
Conflict(w) == \E b \in w.debtors : b \in Owned \/ target[w.drive][b] # "none"

CommitEnrol(s) ==
  LET w == work[s] IN
  /\ w.op = "enrol" /\ Close(s)
  /\ IF Conflict(w) THEN UNCHANGED <<target, due, dropped>>
     ELSE /\ target' = [target EXCEPT ![w.drive] =
               [b \in Debtors |-> IF b \in w.debtors THEN "active" ELSE @[b]]]
          /\ due' = due \cup w.seeds /\ dropped' = dropped \ w.seeds
  /\ UNCHANGED <<drive, owing>>

CommitStatus(s) ==
  LET w == work[s]
      to == IF w.op = "start" THEN "ACTIVE" ELSE "PAUSED"
  IN /\ w.op \in {"start", "pause"} /\ Close(s)
     /\ drive' = [drive EXCEPT ![w.drive] = IF w.done THEN to ELSE @]
     /\ due' = due \cup w.seeds /\ dropped' = dropped \ w.seeds
     /\ UNCHANGED <<target, owing>>

CommitComplete(s) ==
  LET w == work[s] IN
  /\ w.op = "complete" /\ Close(s)
  /\ target' = [target EXCEPT ![w.drive] =
       [b \in Debtors |-> IF b \in w.debtors THEN "inactive" ELSE @[b]]]
  /\ drive' = [drive EXCEPT ![w.drive] = IF w.done THEN "COMPLETED" ELSE @]
  /\ UNCHANGED <<due, owing, dropped>>

---------------------------------------------------------------------------
(* The scheduler and the ledger, as far as campaigns see them.             *)

\* due_buyers: scheduled, and the target of an active campaign.
Claimable == { b \in due : \E d \in Drives : drive[d] = "ACTIVE" /\ b \in Active(d) }

\* A decision that leaves nothing to do, or no campaign any more, clears the schedule.
Drop(b) == /\ b \in Claimable
           /\ due' = due \ {b} /\ dropped' = dropped \cup {b}
           /\ UNCHANGED <<drive, target, owing, work>>

\* An invoice falls due, or is settled.
Owe(b) == /\ owing' = IF b \in owing THEN owing \ {b} ELSE owing \cup {b}
          /\ UNCHANGED <<drive, target, due, work, dropped>>

Next == \/ \E d \in Drives : Create(d)
        \/ \E s \in Clerks, d \in Drives : Enrol(s, d) \/ Start(s, d) \/ Pause(s, d) \/ Complete(s, d)
        \/ \E s \in Clerks : CommitEnrol(s) \/ CommitStatus(s) \/ CommitComplete(s)
        \/ \E b \in Debtors : Drop(b) \/ Owe(b)

Spec == Init /\ [][Next]_cvars

---------------------------------------------------------------------------
TypeOK == /\ drive \in [Drives -> CampaignStatus \cup {"none"}]
          /\ target \in [Drives -> [Debtors -> CampaignTarget]]
          /\ due \subseteq Debtors /\ owing \subseteq Debtors /\ dropped \subseteq Debtors

\* However enrolments overlap, a debtor is the active target of one campaign at most, so
\* that caps stay a rule and campaign_for finds one row (scheduler/tick.py:62-67).
OneCampaign == \A b \in Debtors : Cardinality({ d \in Drives : b \in Active(d) }) <= 1

\* A target of a campaign is either scheduled or the scheduler itself let it go since:
\* neither enrolling into a running campaign, nor starting it, nor an operation that
\* overlaps them leaves a debtor enrolled whom no tick will ever reach.
EnrolledIsScheduled == Owned \subseteq due \cup dropped
=============================================================================
