----------------------------- MODULE BackOffice -----------------------------
(***************************************************************************)
(* The components around the calls, checked side by side: every behaviour  *)
(* is one of a single component, with the others at rest, so that one run  *)
(* explores them all and their states add up instead of multiplying.  The  *)
(* variables and the actions are those of the modules; the small sets they *)
(* are checked with are in MCBackOffice.                                   *)
(***************************************************************************)
EXTENDS Integers, FiniteSets

CONSTANTS
  Hands,      \* the workers, sessions, requests and hooks: as many of each kind
  Papers,     \* the uploaded files, and the pooled connections
  Nobody,     \* no session, no connection, no company, no assessment ...
  Companies, Tables, Emails, Subjects, Keys,
  Drives, Debtors, Checks,
  Reports, Lines, Templates, People,
  Debts, Laddered, AtL2, Forms, Behaviours, Approvals,
  Entity, Found,
  CallsPerSecond, MaxConcurrent, MaxConcurrentPerTenant, Second,  \* throttle.py
  L1After, L2After, L3After, MaxAttempts, Gap, PerDay, PerWeek,   \* EscalationPolicy, Campaign
  Minimum, Floor, Cost, Limitation, Response, Recency, NoPayment, \* registry and legal thresholds
  \* Bounds.
  MaxTicks, MaxBlind, MaxLines, MaxNet, MaxActs, MaxDay, MaxCalls, MaxSettled, MaxArrears, WorstDays,
  MaxTakes, MaxRecords, MaxOwed

VARIABLES part,
  message, log, sending, hook, claimed, redisUp, handed, outrun,
  tokens, ts, ticks, clocked, granted, late,
  channels, tenantChannels, live, tenantLive, blind, placing,
  drive, target, due, owing, work, dropped,
  isolated, created, bypasses, session, setting, seen,
  founder, member, key, request,
  buyers, invoices, batch, import, applied,
  bill, account, ladder, past, holder, act, disputed, outpaced, acts,
  today, owes, spent, said, tried, reached,
  books, desk, assessed, decided, audited, first, overlapped, lost,
  asset, store, sln, alaw, takes, task, writer, placed, shared, stray,
  records,
  day, debt, notice, listing

\* Those of each component.
mvars == <<message, log, sending, hook, claimed, redisUp, handed, outrun>>
tvars == <<tokens, ts, ticks, clocked, granted, late>>
hvars == <<channels, tenantChannels, live, tenantLive, blind, placing>>
cvars == <<drive, target, due, owing, work, dropped>>
dvars == <<isolated, created, bypasses, session, setting, seen>>
ivars == <<founder, member, key, request>>
fvars == <<buyers, invoices, batch, import, applied>>
avars == <<bill, account, ladder, past, holder, act, disputed, outpaced, acts>>
pvars == <<today, owes, spent, said, tried, reached>>
kvars == <<books, desk, assessed, decided, audited, first, overlapped, lost>>
gvars == <<day, debt, notice, listing>>
uvars == <<asset, store, sln, alaw, takes, task, writer, placed, shared, stray>>

---------------------------------------------------------------------------
(* The components.                                                         *)

Msg == INSTANCE Messaging WITH Workers <- Hands, Hooks <- Hands
Thr == INSTANCE Throttle WITH Placers <- Hands
Cha == INSTANCE Channels WITH Placers <- Hands, Tenants <- Companies
Cam == INSTANCE Campaigns WITH Clerks <- Hands
Ten == INSTANCE Tenancy WITH NoCompany <- Nobody, Sessions <- Hands,
         Connections <- Papers, NoConnection <- Nobody
Ide == INSTANCE Identity WITH Tenants <- Companies, NoSubject <- Nobody, Requests <- Hands
Imp == INSTANCE Imports WITH Files <- Papers, Importers <- Hands
Acc == INSTANCE Accounts WITH Bookkeepers <- Hands, NoBookkeeper <- Nobody
Pol == INSTANCE Policy
Cre == INSTANCE Credit WITH Officers <- Hands, NoCheck <- Nobody, MaxOwed <- MaxArrears
Aud == INSTANCE Audio WITH Speakers <- Hands, NoSpeaker <- Nobody
Res == INSTANCE Resolution
Reg == INSTANCE Registry WITH today <- day

---------------------------------------------------------------------------
(* What is assumed of the inputs.                                          *)

\* Nobody is none of those who might be somebody.
ASSUME NobodyIsNobody == Nobody \notin Hands \cup Papers \cup Companies \cup Subjects \cup Checks

\* There are as many workers as were started.
ASSUME HandsAssumption == IsFiniteSet(Hands)

\* There is a company, an email to found it with, and a debt; an application that may be
\* filled in, and something that is known of how a buyer behaves.
ASSUME SomeOfEach == Companies # {} /\ Emails # {} /\ Debts # {} /\ Forms # {} /\ Behaviours # {}

\* Applications and behaviours are what the columns hold (api/schemas.py:57-75).
ASSUME FormsAssumption == Forms \subseteq Cre!Form /\ Behaviours \subseteq Cre!Behaviour

\* A line has a code or has none, and can be read or cannot (csv_import.py:97-129).
ASSUME LinesAssumption == \A l \in Lines : l.coded \in BOOLEAN /\ l.readable \in BOOLEAN

\* A report is of one of the kinds that EventStatus knows.
ASSUME ReportsOfProvider == Reports \subseteq Msg!MessageEvent

\* An approved limit is an amount (api/routes.py:734-738).
ASSUME ApprovalsAreAmounts == Approvals \subseteq Nat

\* Debts at L2 are on the ladder; no rung is free (engine.py:122-130).
ASSUME LadderAssumption == /\ AtL2 \subseteq Laddered /\ Laddered \subseteq Debts
                           /\ MaxAttempts \in Nat \ {0} /\ {L1After, L2After, L3After} \subseteq Nat

\* Amounts and spans of days; nothing is published for nothing (eligibility.py:23-26).
ASSUME RegistryAssumption == /\ Minimum \in Nat \ {0}
                             /\ {MaxOwed, Floor, Cost, Limitation, Response, Recency, NoPayment} \subseteq Nat

\* A name and an address are finitely many words (resolution.py:115-147).
ASSUME NamesAreWords == \A r \in {Entity} \cup Found : IsFiniteSet(r.name) /\ IsFiniteSet(r.address)

\* Limits let somebody through, and the bounds some of it happen.
ASSUME LimitAssumption ==
  {CallsPerSecond, MaxConcurrent, MaxConcurrentPerTenant, Second} \subseteq Nat \ {0}
ASSUME BoundAssumption ==
  /\ {MaxTicks, MaxBlind, MaxLines, MaxActs, MaxDay, MaxCalls, MaxSettled, MaxTakes, MaxRecords} \subseteq Nat
  /\ {MaxNet, MaxArrears} \subseteq Nat \ {0}
  /\ WorstDays \subseteq Nat /\ IsFiniteSet(WorstDays) /\ 0 \in WorstDays

---------------------------------------------------------------------------
Parts == {"messaging", "throttle", "channels", "campaigns", "tenancy", "identity", "imports",
          "accounts", "policy", "credit", "audio", "resolution", "registry"}

Init == /\ part \in Parts
        /\ Msg!Init /\ Thr!Init /\ Cha!Init /\ Cam!Init /\ Ten!Init /\ Ide!Init
        /\ Imp!Init /\ Acc!Init /\ Pol!Init /\ Cre!Init /\ Aud!Init /\ Res!Init /\ Reg!Init
        \* What is at rest starts in one way.
        /\ part # "accounts" => ~account.exists
        /\ part # "registry" => debt.invoice /\ debt.entity

\* Everything but the part that moves.
AtRest == /\ UNCHANGED part
          /\ IF part = "messaging" THEN TRUE ELSE UNCHANGED mvars
          /\ IF part = "throttle" THEN TRUE ELSE UNCHANGED tvars
          /\ IF part = "channels" THEN TRUE ELSE UNCHANGED hvars
          /\ IF part = "campaigns" THEN TRUE ELSE UNCHANGED cvars
          /\ IF part = "tenancy" THEN TRUE ELSE UNCHANGED dvars
          /\ IF part = "identity" THEN TRUE ELSE UNCHANGED ivars
          /\ IF part = "imports" THEN TRUE ELSE UNCHANGED fvars
          /\ IF part = "accounts" THEN TRUE ELSE UNCHANGED avars
          /\ IF part = "policy" THEN TRUE ELSE UNCHANGED pvars
          /\ IF part = "credit" THEN TRUE ELSE UNCHANGED kvars
          /\ IF part = "audio" THEN TRUE ELSE UNCHANGED uvars
          /\ IF part = "resolution" THEN TRUE ELSE UNCHANGED records
          /\ IF part = "registry" THEN TRUE ELSE UNCHANGED gvars

Next == \/ part = "messaging" /\ Msg!Next /\ AtRest
        \/ part = "throttle" /\ Thr!Next /\ AtRest
        \/ part = "channels" /\ Cha!Next /\ AtRest
        \/ part = "campaigns" /\ Cam!Next /\ AtRest
        \/ part = "tenancy" /\ Ten!Next /\ AtRest
        \/ part = "identity" /\ Ide!Next /\ AtRest
        \/ part = "imports" /\ Imp!Next /\ AtRest
        \/ part = "accounts" /\ Acc!Next /\ AtRest
        \/ part = "policy" /\ Pol!Next /\ AtRest
        \/ part = "credit" /\ Cre!Next /\ AtRest
        \/ part = "audio" /\ Aud!Next /\ AtRest
        \/ part = "resolution" /\ Res!Next /\ AtRest
        \/ part = "registry" /\ Reg!Next /\ AtRest

vars == <<part, mvars, tvars, hvars, cvars, dvars, ivars, fvars, avars,
          pvars, kvars, uvars, records, gvars>>

Spec == Init /\ [][Next]_vars

---------------------------------------------------------------------------
(* What the run checks, stated in the modules.                             *)

\* Every component's variables keep their types.
TypeOK == /\ part = "messaging" => Msg!TypeOK
          /\ part = "throttle" => Thr!TypeOK
          /\ part = "channels" => Cha!TypeOK
          /\ part = "campaigns" => Cam!TypeOK
          /\ part = "tenancy" => Ten!TypeOK
          /\ part = "identity" => Ide!TypeOK
          /\ part = "imports" => Imp!TypeOK
          /\ part = "accounts" => Acc!TypeOK
          /\ part = "policy" => Pol!TypeOK
          /\ part = "credit" => Cre!TypeOK
          /\ part = "audio" => Aud!TypeOK
          /\ part = "resolution" => Res!TypeOK
          /\ part = "registry" => Reg!TypeOK

\* A message reaches a provider once (comms/service.py:7-11).
HandedOverOnce == part = "messaging" => Msg!HandedOverOnce
\* Delivery facts are what the reports say, in any order (comms/service.py:160-231).
ReportsAreKept == part = "messaging" => Msg!ReportsAreKept
\* The bucket's rate holds over every stretch of time, but for what late scripts add
\* (scheduler/throttle.py:29-104).
RateHolds == part = "throttle" => Thr!RateHolds
\* The channel limits hold, up to the workers that count at once and the reads that fail
\* (scheduler/throttle.py:113-139).
ChannelsHold == part = "channels" => Cha!ChannelsHold
\* A debtor is chased by one campaign at a time (scheduler/campaign.py, tick.py:62-67).
OneCampaign == part = "campaigns" => Cam!OneCampaign
\* Whoever is enrolled in a campaign is on the schedule (scheduler/campaign.py:70-103).
EnrolledIsScheduled == part = "campaigns" => Cam!EnrolledIsScheduled
\* A session sees the rows of its own company only (db.py:7-11).
OwnRowsOnly == part = "tenancy" => Ten!OwnRowsOnly
\* An identity has one account, and a company its founder (api/routes.py:141-238).
OneAccount == part = "identity" => Ide!OneAccount
\* A file takes effect once, whole or not at all (ingestion/csv_import.py).
AppliedOnce == part = "imports" => Imp!AppliedOnce
\* A dispute is not lifted by what the ledger does (trade/accounts.py:69-72).
DisputeHeld == part = "accounts" => Acc!DisputeHeld
\* An account follows its invoice (trade/accounts.py:30-105).
AccountFollows == part = "accounts" => Acc!AccountFollows
\* The next level, and legal content above all, is earned (policy/engine.py:200-253).
EarnedContact == Pol!EarnedContact
\* Arrears buy no credit, and unverified figures no more than verified ones
\* (intelligence/creditworthiness.py:205-277).
SafeAdvice == part = "credit" => Cre!SafeAdvice
\* A decision on credit is recorded once, and audited (api/routes.py:709-762).
DecisionStands == part = "credit" => Cre!DecisionStands
\* A call plays the take that its asset records (render/service.py, telephony/staging.py).
PlayedAsRecorded == part = "audio" => Aud!PlayedAsRecorded
\* The record attached to a company is not an accident of order (company/resolution.py:250-288).
MatchStands == part = "resolution" => Res!MatchStands
\* Nobody is published as owing what is not owed, or unwarned (registry/eligibility.py).
ListedIsOwed == part = "registry" => Reg!ListedIsOwed
=============================================================================
