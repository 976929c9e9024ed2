# Formal models of ChaanBean

TLA+ models, TLC runs and TLAPS proofs for the recovery platform in `src/backend/app`:
a scheduler that decides whom to call or message about an overdue invoice, the telephony
that makes the call, and the database rows that say what happened. Paths below are relative
to `src/backend/app` unless they start with another directory.

## 1. The system

### Processes and what they share

| process | entry | state it owns | what it shares |
|---|---|---|---|
| scheduler worker, one or more | `worker.py`, `scheduler/tick.py` | one session per tick: the claimed batch, objects it loaded, pending writes | PostgreSQL rows, row locks, advisory locks; Redis counters; ARI over HTTP |
| event consumer, one | `telephony/events.py` | a websocket and what is unread in it | `calls`, `call_events`, `buyers`, `escalation_states` |
| HTTP API | `main.py`, `api/routes.py` | a tenant session per request | every table |
| ERP sync | `ingestion/reconcile.py` | a session | invoices, payments, accounts |
| Asterisk, carrier, debtor | external | channels, CDRs | raise events, answer HTTP |

The processes talk only through the database, Redis and Asterisk. Nothing orders the steps of
two of them except database locks, and no ARI event is ever replayed.

### Components

| component | state | operations | what makes it hard | what makes it correct |
|---|---|---|---|---|
| event log and projection (`calls/projection.py`) | `call_events` (append only, unique key), the `calls` row | `record_event`, `apply_event`, `ingest`, `rebuild` | events late, twice, out of order, never | facts are a function of the log; the status only advances; nothing is claimed without evidence |
| event consumer (`telephony/events.py`) | the websocket | `handle`, `on_reconnect`, `run` | drops, restarts, errors in a handler | missed ends are closed; the L3 gate; an opt-out reaches the buyer |
| flow and ARI client (`telephony/flow.py`, `ari.py`) | none | `preflight`, `originate`, `on_*`, `play`, `hangup` | POST without an answer, 409, a row changed meanwhile | nobody is called without a row |
| reconciler (`calls/reconciler.py`) | none | `reconnect_diff`, `reconcile_call`, `resolve_from_cdr`, `sweep` | the list of channels is older than the rows | every call is closed, with evidence |
| outcomes (`calls/outcomes.py`) | buyer, phone, escalation state | `apply_outcome` | applied once per event | counters, cap flag, opt-out and dead numbers agree with the call |
| scheduler (`scheduler/tick.py`, `dispatch.py`) | `calls`, `messages`, `next_action_at` | `run_once`, `dispatch_buyer` | several workers, several commits per tick, rollbacks, crashes, stale objects | caps, a row before a contact, no contact after a settlement, every tick ends |
| policy engine (`policy/engine.py`) | none (pure) | `evaluate`, `determine_level`, `classify_attempt`, `next_retry_delay` | many gates in an order | no default-allow path |
| throttle (`scheduler/throttle.py`) | Redis token bucket and counters | `acquire_rate`, `acquire_channel`, `release_channel` | check, then increment; nobody releases | never above the carrier's limits; slots come back |
| campaigns (`scheduler/campaign.py`) | `campaigns`, `campaign_targets` | `enrol`, `start`, `pause`, `resume`, `complete_if_done` | two campaigns, one buyer | one active target per buyer |
| ledger (`trade/allocation.py`) | invoices, payments, allocations, credit notes | `plan_allocation`, `apply_payment`, `apply_credit_note`, `recompute_invoice` | concurrent transactions on one invoice | money is conserved; no invoice is over-settled |
| recovery accounts (`trade/accounts.py`) | `credit_accounts`, `escalation_states` | `sync_account_from_invoice`, `raise_dispute`, `clear_dispute` | follows the ledger while the scheduler reads it | a settled or disputed account is not chased |
| messaging (`comms/service.py`) | `messages`, `message_events`, Redis guard | `queue_message`, `send`, `ingest_event` | duplicates, late delivery reports | one message per key; the status only advances |
| ERP and CSV ingestion (`ingestion/`) | raw records, invoices, payments | `sync_parties`, `sync_invoices`, `sync_payments`, CSV import | overlapping runs, amended and voided invoices | idempotent on the source's identity |
| rendering, speech, staging (`render/`, `tts/`, `telephony/staging.py`, `storage/`) | `audio_assets`, files | `ensure_audio`, `stage`, `is_staged` | a half-written file on a live call | a call plays the approved words or is not made |
| tenancy (`db.py`) | the tenant of a session | `tenant_session`, `admin_session`, `set_tenant` | the setting dies with each transaction | a session sees its tenant's rows, in every transaction |
| identity and audit (`identity/`, `api/routes.py`) | companies, users, keys, `audit_log` | register, invite, first sign-in, keys, permissions, login | three ways to become a user overlap | an identity has one account, a company its founder |
| company resolution (`company/`) | none (pure) | `resolve`, `best_match` | sources answer in any order, records nearly fit | the match is not an accident of the order |
| credit intelligence (`intelligence/`, `api/routes.py`) | `credit_checks`, `audit_log` | scorecards, assess, decide | the ledger moves between two reads; decision and audit are two transactions | arrears buy no credit; a decision stands |
| registry and legal (`registry/`, `legal/`) | notices, listings | `assess`, `evaluate`, `should_delist` | decided on a ledger that lags behind the payments | nobody is published as owing what is not owed |
| court records and tracing (`legal/matching.py`, `tracing/`) | their tables | matching, a loop over sources | none: sequential, confirmed by a human | |
| API, portal, reports, statements | none of their own | request handlers, queries | | |

`PROJECT.json` lists each with its status, and under `hazards` the lines of the code that
are hard to test.

## 2. The modules

```
Projection          pure: folding one event into a call        calls/projection.py
    Projection_proofs        lemmas about one event
  EventLog          the row and its log under any event stream; rebuild()
    MCEventLog      small vocabulary
    EventLog_proofs
  CallLifecycle     one call: worker, Asterisk, debtor, consumer, reconciler, outcomes
    CallLifecycle_proofs
ContactBudget       abstract: booked within the caps, then contacted, once
  Dispatch          implements it: tick workers, transactions, locks, the rest of the system
    MCDispatch      small limits, symmetry
    Dispatch_proofs
OnAccount           abstract: money that came in is applied or on account
  Ledger            implements it: payments, credit notes, amendments of one buyer's invoices
    MCLedger        invoices in order
    Ledger_proofs
BackOffice          composes the thirteen below, for one run
  MCBackOffice      its small sets
  Policy            the engine and the ladders it reads        policy/engine.py
  Throttle          token bucket                               scheduler/throttle.py
  Channels          channel counters                           scheduler/throttle.py
  Campaigns         campaigns and their targets                scheduler/campaign.py
  Messaging         one message and its delivery reports       comms/service.py
  Audio             an asset, the store and the box            render/, telephony/staging.py
    Contacts_proofs          of these six
  Accounts          the account and the ladder of one invoice  trade/accounts.py
  Imports           files and syncs that bring debtors         ingestion/
  Registry          from a debt to a published listing         legal/, registry/
    Debts_proofs             of these three, and the types of all thirteen
  Tenancy           sessions, transactions, connections        db.py
  Identity          registration, invitation, sign-in, keys    api/routes.py, identity/
  Credit            assessment and decision                    intelligence/, api/routes.py
    Companies_proofs         of these three
  Resolution        which record is the company                company/resolution.py
```

**Projection** has `ApplyEvent` (`apply_event`), `Advance` (`_advance`, the status lattice),
`Finalise` (`_finalise`), `Key` and `Duplicate` (the dedupe key and the unique constraint).
A call is a record of its projected columns; a timestamp is a natural number, NULL is
`NoTime`; the Q.850 causes are kept by the class `_CAUSE_STATUS` and `classify_attempt` put
them in.

**EventLog** is the log and the row under the weakest environment the code allows: any event
of `Events`, at any time, again and again. It is what the projection promises whatever
telephony does. `Rebuild` is `rebuild`: reset, sort by time of occurrence, fold.

**CallLifecycle** composes the projection with everyone who touches one call after its row
was committed. Its state is the committed row and log, the outcome columns
`apply_outcome` writes, the worker's progress through `originate`, the channel and the line
in Asterisk, the frames in the websocket, and the reconnect diff. One action is one
transaction or one request: `Post`, `PostUncertain`, `PostRefused`,
`ResolveAfterUncertainty`, `Store` (the worker), `Handle` (one frame: ingest, drive the
call, apply the outcome), `Drop`, `Reconnect`, `Restart`, `ListChannels`, `ReconnectDiff`,
and, external, `Answer`, `RingOut`, `Press`, `PlaybackEnds`, `DebtorHangsUp`. A request that
`Handle` sends may fail, and the failure is swallowed (`Play`, `Drive`). A hangup ends what is
being played, and Asterisk may report that as a `PlaybackFinished` before or after the
`StasisEnd` (`Leaving`): the code takes it for the end of the message. `Store` writes
over whatever the consumer has written since, because the worker's copy of the row is the
one it committed. The list of channels and the reading of calls in flight are two steps,
because nothing keeps the world still between them.

**Dispatch** is the scheduler around any number of buyers. What is committed (`rows`,
`nextAction`, ...) is separate from what a worker's transaction holds pending
(`pendNext`, `pendBlocks`), from what its session has loaded (`seen`), and from what really
happened (`contacted`). A worker's `pc` follows `dispatch_buyer`: claim, lock, decide, act,
commit, contact, store. Each `session.commit()` and `session.rollback()` of the code is an
`EndTransaction`, which releases both kinds of lock. `created_at` is the time at which the
inserting transaction began, as PostgreSQL's `now()` has it, and that is what the caps count.
`World` is the other processes: outcomes of calls, withdrawals, settlements, a pause, targets
that a campaign lets go of, time. An outcome assigns whether its attempt counts, both ways
(`calls/outcomes.py:46`): a call that is given back, rings once more and is answered counts
again, which `again` keeps as history. A buyer whom no campaign has any more when the loop comes
to him has his schedule cleared (`LetGo`, `tick.py:84-86`), in a session that does not flush by
itself: if a rollback has ended the locks of the batch by then, the write is pending without
one, and is locked row by row at the next flush or commit (`Unlocked`, `TakeRow`, `Covered`).
`ContactBudget` is what all this comes to for a debtor: attempts are booked within the caps
and on an account that is open at the date they are booked under, a contact uses up one of
them, and an attempt stays on record. Its attempts are the committed rows (`Budget` in
`Dispatch` is the mapping), so a step of it is the commit that inserts a row, or the request
that follows.

**Ledger** is the invoices of one buyer under overlapping transactions. `invoice`, `paid`,
`credited`, `banked` and the totals are what is committed; `before`, `after`, `plan` and
`summed` are what a transaction has loaded, what it will write, what it allocates and which
sums it read. A payment is `RecordPayment` (`POST /payments`) or `SyncPayment`
(`sync_payments`), then `Apply` (`apply_payment`: lock, read the sums, plan, recompute) and
`CommitPayment`. A credit note is `StartNote`, `InsertNote`, `CommitNote`; an invoice that the
ERP reports with another amount or as voided is `Amend` or `Void`, then `CommitAmendment`.
`RollBack` is any exception or crash. Two things decide what can go wrong, and both are in the
model: the session does not reload what it has loaded, not even for `SELECT ... FOR UPDATE`
(`SeenBy`), and an UPDATE names only the columns that differ from what was loaded (`Merge`).
The sums are kept as running totals of committed rows. `Plans` describes the plan by what it
is; `AllocateOldestFirst` is the loop of `plan_allocation` beside it. Nothing in `app/` assigns
WRITTEN_OFF to an invoice, so that status is left out; an invoice under active recovery is
not amended, which is the step not taken; `apply_credit_note` and the syncs are called from
the tests only, so far. `OnAccount` is what the ledger promises of money.

**BackOffice** composes the components around the calls. They share rows with one another
through the database, but each is correct by what happens between two of *its own* workers,
sessions or requests, and that is what its module holds; what it needs of another component
is an action of its own (in `Accounts`, `Amend` stands for the ERP and `Pay` for the ledger). A
behaviour of `BackOffice` is one of a single component with the others at rest, so that the
state spaces add up and one run has them all. Its CONSTANTS are the inputs and bounds of all
thirteen, with what is assumed of them as named assumptions; `MCBackOffice` and `BackOffice.cfg`
give them small values. The thirteen:

- **Policy**: `evaluate` gate by gate, with `determine_level` and the choice of account,
  phone, channel and template, in a world where calls end answered or not, a debtor pays in
  part, disputes and is cleared, and days pass. `Dispatch` has the transactions around the
  engine and a short form of its gates; here the engine is whole and the transactions are not.
- **Throttle**: the worker reads the clock (`ReadClock`, line 104), and the bucket's script is one
  step later (`AcquireRate`), over scaled integers, with the time it was told: an older one is
  stored like any other (line 65), which puts the bucket's time back. `granted` and `late` are
  history: how many calls the bucket has let through by each tick, and by how many ticks its
  scripts have come late in all, so that a difference of two is what happened between them.
- **Channels**: the two counters as the code has them, `ReadChannels`, `ReadTenant`, then
  `AcquireChannel` or `Refuse`; calls that end without giving their slot back, and counters that
  expire. A read that fails counts as 0 (`_count`): `blind` is how often that let a worker past
  a limit it had reached. `live` and `tenantLive` are the calls that really run.
- **Campaigns**: every operation reads when it starts and writes when it commits, against the two
  unique indexes. `Drop` is the scheduler's letting a debtor go, `Owe` a debt that is settled
  or arises.
- **Messaging**: one idempotency key, the workers that computed it, and the hooks. The dispatcher
  puts the time of its tick into the key, with attempt 1 (`dispatch.py:439-440`), so a later tick has
  another key and sends another message: the model is of one key. `queue_message`
  is `Look`, `Insert`, `CommitQueued`; `send` is `Guard`, `HandOver`, `Store`. A hook reads the
  row in `Receive` and writes the columns it changed in `Ingest`; `Lose` and `Redis` are the
  faults.
- **Accounts**: a transaction loads the invoice, then the account and its ladder (`Project`),
  and writes what it changed (`Commit`). Payments lock, what people and the ERP do does
  not. `outpaced` is history: a write that was decided on an older row.
- **Imports**: `StageRow` decides on what is committed by then, `ApplyRow` trusts it later: a
  transaction has the rows of its file and the set of those it has left to do. The
  unique constraints stop what staging missed, at the flush that meets them. An ERP sync of
  the same parties runs beside it.
- **Tenancy**: sessions of the application, of an administrator and without a tenant on pooled
  connections. The setting is local to the transaction; `seen` is what the last query saw.
- **Identity**: three requests that create or link a user, each of which looks first and commits
  later, and the life of an API key with the roles it carries.
- **Credit**: a check reads the ledger in two statements (`CountSettled`, `ReadOpen`) while it
  moves, stores what the two scorecards make of it, and audits in a second transaction; a
  decision does the same.
- **Audio**: every synthesis is a take of its own. Rows commit or roll back, the store and the box do
  neither. The box has two files, written one after the other (`Stage`, `StageCopy`): `is_staged`
  compares the size of the `.sln`, and Asterisk plays the `.alaw` (`Heard`; the codec is pinned in
  `asterisk/conf/pjsip.conf:30-33`). `Dies` is a crash between any two steps, the two writes
  included; `BoxFails` loses either file or cuts it short.
- **Resolution**: `resolve` and `best_match` over records that arrive one by one, in any order.
  Python's stable sort is described by what it puts first (`Ahead`, `Foremost`): no other place
  of the sorted list is read.
- **Registry**: `assess`, `evaluate` and `should_delist` as functions, in the life the status
  columns name, over a debt whose payments reach the ledger when somebody reconciles it.

What the models assume of their environment:

- the scheduler's database role sees the rows. `worker.py` opens `SessionLocal` without a
  tenant, so under the row-level security of `db.py` with the application role it would see
  none;
- the database's clock is not behind the `now` the worker took before its first statement;
- playback events carry the channel `handle` looks up;
- sessions keep what they loaded across commits (`expire_on_commit=False`) and lose it on
  rollback. `RollBack` reloads for the next buyer of the batch at once, which is when the loop
  reads it; with batches longer than two the code would reload later buyers later;
- `SELECT ... FOR UPDATE` gets all its rows at once: PostgreSQL locks them one by one, and two
  payments that lock in another order end in its deadlock detector, which is a `RollBack`;
- inserting a credit note or an allocation takes a key-share lock on its invoice, as foreign
  keys do in PostgreSQL; it conflicts with FOR UPDATE only;
- in `Dispatch` there is one campaign, and every buyer begins as an active target of it. Several
  campaigns are in `Campaigns`;
- in `Throttle` the workers have one clock, and the bucket is not lost: by the time Redis expires it it
  would be full. In `Channels` a counter is lost by expiry only;
- in `Tenancy` row-level security does what PostgreSQL says of it.

## 3. The runs

| run | checks | bounds and why they are enough |
|---|---|---|
| `event_log` | `FactsAreTheLog`, `OutcomeHasEvidence` (of every unanswered outcome), `ForwardOnly`, `ReplayAgreesOnceEnded` | four events out of 30: three timestamps order any three events in every way, each kind and each way to end is there, and a fourth arrives against them |
| `call_lifecycle` | what the row says against what happened on the line (`DeliveredWasPlayed` and the others); the opt-out; the gate; the reconnect diff | one retry, one drop, two unread frames: enough for a second ring, for a lost answer, end or opt-out, and for a stored row to overtake two events. Levels L1 and L3; a call that rings out with a free or a dead cause |
| `dispatch` | `CapRespected`, `ClosedNotContacted`, and `KeepsTheBudget`: the scheduler implements `ContactBudget` | two workers, one debtor, three instants, caps 1 in an instant and 2 in three, one fault, one change, one attempt given back or counted again: the cap is reached, and a window slides over it |
| `dispatch_ticks` | `EveryTickEnds` | two workers with batches of two debtors: the smallest instance in which a cycle of a row lock and an advisory lock arises. A cycle of row locks alone, at the commit that ends two ticks, needs two schedules cleared without a lock in each and a third debtor; the proofs cover that step, this run does not reach it |
| `ledger` | `InvoiceAgrees`, `OneAllocator`, `PlanIsTheLoop`, and `MoneyConserved`: the ledger implements `OnAccount` | two invoices of 1 or 2, two sessions, three transactions of 1 or 2: a payment covers one invoice exactly, part of one, both, or more than there is, and a third transaction follows two that overlapped |
| `back_office` | one or two properties of each of its components, below | per component: two workers, sessions or requests, so that any two operations overlap; two companies, campaigns, files or debts where one could be taken for the other; three days or ticks, or three acts, so that something may happen between two that belong together; two failed reads of a counter (`MaxBlind`), one for each of them |

The properties of `back_office`, each about the hazard its module is there for:

| component | property | what could go wrong |
|---|---|---|
| Messaging | `HandedOverOnce`, `ReportsAreKept` | two workers hand one message over while Redis is down; reports out of order overwrite a fact |
| Throttle | `RateHolds` | the rate is exceeded across a boundary, or by more than the late scripts explain |
| Channels | `ChannelsHold` | workers pass the last slot together (by less than their number), or past a failed read (by one each) |
| Campaigns | `OneCampaign`, `EnrolledIsScheduled` | overlapping enrolments give a debtor two active targets; an enrolled debtor never becomes due |
| Tenancy | `OwnRowsOnly` | the second transaction of a session, or a reused connection, has the wrong tenant |
| Identity | `OneAccount` | register, invite and first sign-in of one identity overlap |
| Imports | `AppliedOnce` | a file committed twice, or long after it was staged, or half |
| Accounts | `DisputeHeld`, `AccountFollows` | a payment lifts a dispute; account and invoice drift apart |
| Policy | `EarnedContact` | a level, above all the legal one, that the debtor's history does not justify |
| Credit | `SafeAdvice`, `DecisionStands` | arrears that escape both reads of a moving ledger; a decision replaced, or audited as another |
| Audio | `PlayedAsRecorded` | a call plays a file of a transaction that rolled back, one of two that a crash has parted, or half a file |
| Resolution | `MatchStands` | the source that answers first decides which company it is |
| Registry | `ListedIsOwed` | a debt is published that was paid, disputed or never announced |

Where a property has an exception (`outrun`, `outpaced`, `overlapped`, `shared`, `stray`, `again`,
`cut`, `late`, `blind`, "in the week before"), the exception is what the code really leaves open, stated as narrowly
as TLC lets it hold; section 7 says what happens in it.

Symmetry is used in `dispatch` (workers and buyers), `ledger` (sessions) and `back_office`
(the two of each kind, files), which have no liveness property. The runs do not check deadlock where
the system, or the bound on it, rightly stops: when time is up and nothing is due, the call is over,
no more transactions begin, or the days and operations of a component are used up.

**Fairness.** `CallLifecycle` assumes weak fairness of the consumer's own loop (read a frame,
reconnect, finish the diff), which is one thread that runs on; nothing is assumed of the
worker, the carrier or the debtor. `Dispatch` assumes strong fairness of each worker's steps:
`run_forever` catches every exception and goes on, and PostgreSQL serves lock waiters first
come, first served, so a worker that waits for a lock that is released again and again gets
it. It assumes weak fairness of the deadlock detector. Faults are not fair.

**Runs that must find a violation**, each a sentence of the repository that the code does not
keep; `PROJECT.json` quotes the lines:

| run | sentence | what happens |
|---|---|---|
| `replay_reproduces_row` | a call is rebuilt identically by replaying its event log | the hangup is ingested before the answer it ended |
| `every_call_closes` | closed by the reconciler rather than left mid-flight forever | the reconnect diff fails; no process runs the sweeper |
| `one_attempt_per_call` | a call is one attempt | the outcome is applied at every event after the answer |
| `consent_read_now` | everything the engine needs, read *now* | consent is the value of the claim |
| `banked_once` | the same receipt fetched twice must not be banked twice | two syncs overlap, neither sees the other's payment; no constraint on `external_ref` |
| `cooldown_held` | cooldown is a property of the person | without an escalation state no contact is recorded |

What does hold beside them is in the passing runs: replay agrees once the end of a call came
last (`ReplayAgreesOnceEnded`), a missed end is closed unless the consumer did not look
(`MissedEndIsClosed`), an attempt that was given back stays given back
(`CountsNeverRestored`), and a *settled* account is really read now (`ClosedNotContacted`).

Every property of a passing run has a mutant, an operator beside the one it replaces, that breaks it.

## 4. The proofs

Eight modules. TLC checked every invariant below before it was proved, as an invariant of
the run of its module. In each, a part on the initial states, a lemma per action and the
temporal theorem follow one another.

`Projection_proofs`, for every call and every event: `_advance` goes forward (`AdvanceForward`),
one more event keeps the facts those of the log (`FactsStep`), one more event leaves the
outcome explained by the log (`ApplyExplained`). The next two modules rest on them.

`EventLog_proofs`, for any set of events and any length of the stream:

- `TypeCorrect`: the row is always a call; the duration is never negative.
- `StatusForwardOnly`: from the type invariant, one lemma per way an event can advance the
  status.
- `FactsFromLog`: the facts and timestamps are those of the set of recorded events. The
  invariant is inductive together with the type invariant; the argument is that `Earliest`
  of a minimum and a new element is the minimum of the larger set, and that the other facts
  only grow.
- `OutcomeFromEvidence`: from an invariant (`Explains`) that says of every unanswered outcome which
  recorded event explains it, and of the others that a channel was destroyed before any recorded
  answer. The status ANSWERED is not among them (section 7). The proof unfolds what a single event can do to the status; the
  Boolean parts are steps of their own, because no backend does both.
- `ReplayAgrees`: replaying the log of a call that ended well, in the order of time, gives the row
  the stream gave. While nothing has been decided on the line (`Calm`) the recorded events alone say
  what the row is (`Projects`), so two orders of them make one row (`ProjectsStep`,
  `ProjectsUnique`); the live stream (`LiveInv`) and the replay (`ReplayProjects`) both come to it
  and then to the destruction of the channel. That the replay's fold is what its recursion says
  (`FoldExists`, `RebuildIsFold`) is an induction over finite sets.

The types of `EventLog` are proved and no longer run: the duration is the only part of them
that could be wrong.

`CallLifecycle_proofs`, for any level, causes, retries, drops, restarts and backlog, whatever
fails and in whatever order the worker, the consumer and the reconnect diff write the row:

- `TypeCorrect`. That the number of rings is bounded needs how many posts the worker has made
  (`Rung`).
- `FactsKept`: `FactsAreTheLog` in the composition, by `FactsStep`. `Store` is the step at which
  it could fail, because the worker writes over what the consumer has written.
- `OptOutsHonoured`: every event that leaves the row terminal takes an opt-out on record to the buyer.
  An answered row is terminal unless the worker has stored DIALING over it (`Settled`), so an
  opt-out that has not reached the buyer was recorded after that, or on a row whose answer was
  missed.
- `NothingUnasked`: every keypress that is in the websocket or on the row was pressed (`Keys`):
  that is all the L3 gate reads.
- `DeliveriesPlayed`: below L3 what is queued is the message, and every playback that the row or a
  frame says ended was heard to its end or cut by a hangup (`Played`).
- `FreeAttemptsUnanswered` and `CountsStayFree`. Until the first ring is over nothing can speak of
  an answer (`Quiet`); after a single ring that the carrier refused for congestion nobody
  answered and nothing is to come that says anything else (`RungOut`). Hence whatever
  order the frames are read in, the attempt stays the free one that it was.

`Dispatch_proofs`, for any number of workers and buyers, any limits, gaps and batch size:

- `TypeCorrect`, through `TypesInv`: the types, that the set of attempts is finite, that a worker
  past the claim has a current buyer (`BatchHeld`), and that a tick's `now` is not after the
  start of its open transaction (`ClockOrder`).
- `CapsHold`: the caps hold. `CapRespected` is not inductive: a worker that has decided, and
  has not inserted, could break it. `CapInv` adds that whoever is between deciding and
  committing holds the advisory lock and nobody else does (`Exclusive`), and that for such a
  worker every limit has room for one more in the window that ends at its `now`, counting
  everything dated since (`HeadRoom`). The step that inserts uses the room; every other step
  leaves the worker's count alone, because only the holder of the lock inserts for that buyer;
  an outcome takes attempts out of the count, or counts one again that is out of it by `again`. The
  order of `now` and the transaction's
  start matters: an attempt is counted against the cap with a date not before the window it
  was decided for.
- `ContactsOnRecord` and `NoContactOnceClosed` from one invariant, `RecordInv`. A contact refers to
  its row by id, so ids are unique and smaller than the next one (`OwnIds`); nothing is dated in
  the future (`Dated`); an account that was open when it was read again was open until the
  transaction began (`StillOpen`), which rests on `now()` being the start of the
  transaction; and whoever is about to contact has a row of their own that nobody has used
  (`RowReady`). The last is why the worker's crash and somebody else's rollback do no harm.
- `BudgetIsKept`: `Dispatch` implements `ContactBudget`. From the invariants above: the commit of a
  prepared row is a `Book` (its date is no later than now, its id new, the caps hold with
  it, the account was open at that date), a request to a provider or to Asterisk is a `Reach` of a
  row nobody has used, an outcome is a `GiveBack`, a `CountAgain` or a stutter, and a step of
  anybody else is one of the world's or a stutter.

`Ledger_proofs`, for any invoices, sessions, amounts and number of transactions:

- `InvoicesAgree`: every invoice that no overtaken write touched agrees with its movements.
  `overtaken` is history: a commit adds an invoice when the row or the sums its transaction had
  read of it have changed. The invariant (`LedgerInv`) adds what a session holds: what it has
  loaded of a live invoice was the row when less was settled (`LoadedEarlier`); a payment
  holds the lock of all it allocates from, and its recomputed rows are still right
  (`Paying`); a credit note and an amendment write what follows from what they read
  (`Crediting`, `Amending`). That an UPDATE of changed columns only gives the right row is
  lemma `SettlingMore`: a column that is left out is one whose new value the row already has.
- `AllocatesAlone`, from the same invariant: whoever allocates holds the lock.
- `TypeCorrect`: all of the type invariant; `MoneyIsConserved`: the ledger implements `OnAccount`,
  where a step receives money, applies some of it and leaves the rest on account, and all that was
  ever received is one or the other. Every commit of a payment is one such step and every other
  step a stutter, whatever transactions overlap. The invariant (`MoneyInv`, beside `LedgerInv`):
  a payment is of something and its plan allocates no more than that (`Funded`), whichever of
  its three forms the plan has (`PlansWithin`). The running totals are sums over the
  invoices, which are assumed to be finitely many (`InvoicesAssumption`). That a sum is what its recursion
  says (`SumsExist`, `SumOf`), of natural numbers is one (`SumCounts`), and adds up (`SumAdds`)
  needs induction over finite sets: the library's theorems take an operator, so it is done by a least
  counterexample, with the hypothesis as a set of subsets (`Numbers`, `Sets`).
- `OnePlan`: whatever is open, an uninstructed payment has exactly one plan, and oldest first a
  larger one leaves no invoice with less. The model describes the plan by what it satisfies, where the
  code runs a loop: this shows that the description leaves no choice and that `Apply` is never
  without a plan. At most one: if a larger payment left an invoice with less, all older ones would
  be settled by both and all younger ones have nothing from the larger, and the sums would be
  wrong (`LargerPayment`, `SumGrows`). At least one: the oldest unpaid invoice takes one more
  (`OldestUnpaid`, `OneMore`).
- `LoopIsThePlan`: the loop of `plan_allocation`, a fold from the oldest open invoice to the youngest,
  ends with a plan, so it ends with the plan. The fold is taken apart like the sums are (`FoldExists`);
  after any part of the invoices the money is either gone or all of these are settled, and
  what it has allocated is a plan of what it has spent (`Progress`, `Through`, `Round`).

The components of `back_office` are proved for any number of everything, from the named
assumptions of `BackOffice`: nobody is not somebody (`NobodyIsNobody`); there are finitely
many hands, and at least one company, email, debt, form of application and behaviour of a buyer
(`HandsAssumption`, `SomeOfEach`); a line has
a code or none and is readable or not (`LinesAssumption`); an application has the fields of its
schema, and what is known of a buyer is days and a percentage (`FormsAssumption`); reports are
of kinds the projection knows (`ReportsOfProvider`); names and addresses are finite sets of words (`NamesAreWords`); approvals are amounts, the rungs and thresholds are numbers of
days, limits are positive (`ApprovalsAreAmounts`, `LadderAssumption`, `RegistryAssumption`,
`LimitAssumption`); and the bounds are numbers, the days a buyer may have been late finitely many
with 0 among them (`BoundAssumption`). Each of the parts below has
an invariant over its component's variables only; a step of `BackOffice` is one of the
component's or leaves them alone.

`Contacts_proofs`, of who is contacted, how often and with what:

- `SentOnce` and `FactsOfReports`, from `MessageInv`. One worker at most is past the unique
  constraint (`Sole`): that, and not the guard in Redis, is what makes the hand-over happen once.
  What a hook read is never ahead of the row (`Behind`), so writing the changed columns loses no
  fact; and there are no reports of what was not accepted (`NotYet`).
- `OneCampaignEach` and `EnrolledAreScheduled`, from `EnrolInv`. Two active targets cannot be
  committed, whatever was read (`Alone`); and an enrolment that does not schedule a debtor saw
  him scheduled, where he is still unless the scheduler let him go (`SeedsSuffice`).
- `RecordingsPlayed`, from `AudioInv`: the row of an asset names a take that was put in the store
  (`Recordings`), one speaker at most is rendering it (`SoleRender`), and whatever whole file the box
  has, of either kind, is the take that the row names or that its writer is about to commit,
  unless a transaction was lost (`Boxed`).
- `ContactEarned`, an action property: a contact is at a level that the history of its
  account justifies. The invariant (`Counted`) ties the ladder's columns to the calls that
  were made; the rest is about one evaluation of the engine: of two gates that hold the first
  gives the reason (`FirstFires`), a legal contact is by voice (`LegalByVoice`), a decision
  that allows one is about the account and the level that passed the gates
  (`AllowedOnAccount`), and `determine_level` gives no rung above the one on record that the
  history does not justify (`LevelEarned`).
- `RateKept`, from `BucketInv`: what was let through since any tick, with what the bucket would hold
  now, came out of a full bucket, what was refilled since, and what late scripts have refilled
  twice (`Conserved`, within `Room`): a script that is late by a tick puts the bucket's time back
  by a tick at most. This is the bound for every window, rate and burst.
- `LimitsHold`, from `SlotInv`: a worker that has passed a check and not yet counted its call is
  counted as having done so, and even then the counter is over its limit by less than the
  number of workers and of the reads that failed at it, because whoever else passed last saw it
  not reached (`Slots`).

`Companies_proofs`, of tenants, users and credit decisions:

- `TenantsApart`, from `TenantInv`. A connection belongs to one session at most (`OneOwner`), and
  its setting is that session's tenant or, while nobody has it, empty (`Bound`).
- `OneAccountEach`, from `IdentityInv`. The constraints are tested at the commit, so all that has
  to be known of a request is that the user a sign-in links was there (`Pending`); then a
  subject is one user's (`OneSubject`) and a founder stays (`Founded`).
- `DecisionsStand`, from `CreditInv`. Where no two decisions overlapped, whoever is
  deciding is alone and the assessment is undecided (`DecidesAlone`), and whoever has decided is about to
  audit what is recorded (`Due`); so a recorded decision has its entry, or somebody is about to
  write it (`Audited`).
- `ArrearsBuyNothing`, from `AdviceInv`. While a check has not read the open accounts, a buyer who
  was in arrears all along is in arrears now; afterwards what was read says so (`Careful`), and
  arrears block the assessment whatever the score. This is the part of `SafeAdvice` that the
  order of the statements could break.
- `AdviceIsSafe`: all of `SafeAdvice`. An unverified turnover buys three fifths of what it would
  buy verified, but it weighs half in the score, and where it is worth less than the rest of the
  evidence the score is the higher for it. The track record is always part of that rest
  (`OtherEvidence`), so something of weight twelve at least counts beside the turnover and the
  higher score is less than five thirds of the other (`HalfWeighed`); the discounts are the same,
  and an offer that is not greater leaves no more after the arrears, the request and the rounding
  (`OfferGrows`, `LeftGrows`). What is stored was computed from a form that asks for something
  (`AdvisedInv`).
- `MatchesStand`: a clear match is ahead of every other record of its tier by the margin, and no
  record of another tier comes between two of one (`Between`); if there is one it is the answer
  (`ClearMatch`), and without one, below an identifier, there is none (`NoClearMatch`). Both are
  said of the records and not of their order, so another order has the same answer
  (`SameAnswer`); and an identifier is not outvoted (`IdentifierMatches`). What the engine makes of
  one record is bounded first: percents, verdicts, ranks (`Percent`, `Verdicts`, `Ranks`).

`Debts_proofs`, of the debts themselves:

- `ListedOwes`, from `RegistryInv`: what the ledger does not know yet was paid since it was
  last reconciled (`Late`), and nothing is public of which the debtor was not told (`Told`).
- `DisputesStand` and `AccountsFollow`, from `AccountInv`. What a transaction read differs from what
  is there only as far as somebody has written since (`Fresh`); what it will write follows
  from what it read (part of `Acts`); a payment has the lock of the invoice (`Locked`). So a write
  that was not outpaced puts back no status it did not decide on.
- `ImportedOnce`, from `ImportInv`. A transaction that has introduced a party with a code has
  the code reserved until it ends (`Reserved`, the unique constraint); when it ends it has introduced
  whatever its rows introduce (`Following`); so a second commit of a file whose parties have
  codes cannot go through (`Effects`), although no lock is taken and the status of the file is read
  before. The rows are applied in order of their position; that there is a least one left is
  `Least`, from the well-foundedness of the numbers.
- `TypesKept`: the type invariant of the thirteen components, from their invariants above and from what
  these leave out. Neither count of live calls goes below zero: the calls that are up are one set,
  counted by company, with as many members as the global counter says (`Up`, `Counting`), so where a
  company has a call to end there is one to end in all. An account was last contacted today, before,
  or never (`Dates`, with `Counted`); the ledger that a credit check reads has a
  worst delay because finitely many days have a greatest (`CreditTypes`, `Greatest`); no file is longer
  than staging lets it become (`Fits`). The module extends the other two for this theorem.

**Only model-checked.** The liveness properties `MissedEndIsClosed` and `EveryTickEnds`, which
are outside the reach of the prover. Every invariant that a passing run checks is a theorem. One
of them says less of the code than it seems to: in `Credit` the value of a factor is a whole
percent, and a score hundredths of one as in the code. The code's values are quotients, and a buyer
whose evidence is all but nothing (a score of a fiftieth of a percent or less) could be rounded
the other way; the limit of such a buyer is rounded down to nothing unless the turnover is
hundreds of millions, and a limit far beyond it was asked for.

## 5. The plan

Done: the core (calls, scheduler, ledger), the thirteen components of `back_office`, and the
proofs above. Left, in this order:

1. The remaining handlers that change state: templates and their approval, the phones of a
   buyer, the company's profile. With them, the concurrent insert of a profile.
2. `next_retry_delay` and the caps by channel in `Policy`, once `build_context` fills them.

## 6. What is not modelled

- Wording, number formatting, speech synthesis, A-law conversion, layout of statements and
  reports, request parsing, HTTP clients of providers, the pages of the portal: no state that
  another part depends on.
- Court records (`legal/matching.py`) and tracing (`tracing/sources.py`): sequential functions that propose
  links for a human to confirm; the matching of names they share is in `Resolution`.
- Login, passwords, one-time codes and tokens: `Identity` has who becomes a user and what keys and
  roles allow, not how a request proves who it is.
- Ageing, reports and statements: read-only queries.
- The telephony stub, the demo and the seed data: test doubles and samples.
- The stale sweeper of the reconciler is not an actor, because no process calls it
  (`every_call_closes`).
- PostgreSQL, Redis and Asterisk are external: their locks, transactions, counters and channels
  are modelled as the code uses them.

## 7. What was met on the way

Things a reader of the code should know that no run is about: most are where a
property of section 3 has its exception.

**Ladder and policy.** Nothing in `app/` writes `EscalationState.level`, and
`ensure_escalation_state` has no caller. A call delivered at level 2 resets the attempts, and
the next decision is level 1 again, although `determine_level` (`policy/engine.py:206`) says
that it never descends. Messages do not count on the ladder and set no `last_contact_at`.
Disputing the most severe account may turn a refusal into an allowed contact about the next one,
and opting out of SMS may do so where its template is unregistered. A level-3 template in the
exact language that is not approved hides an approved one in another language.

**Calls without callers.** Only the tests call `complete_if_done`, `resume`, `clear_dispute`,
`ensure_escalation_state`, `apply_credit_note`, `release_channel`, `request_otp`, `verify_otp`,
`create_api_key`, `revoke`, `ingest_event`, company resolution and the decisions of registry
and legal.

**Campaigns.** A session does not autoflush, so the `remaining` that `complete_if_done` counts
does not see its own deactivations. `pause` works on a completed campaign, and `start` then makes it
active. `enrol` accepts a completed campaign. Enrolling a buyer who has an inactive target in the
same campaign meets the unique constraint, and the whole enrolment rolls back.

**Calls.** A channel that is destroyed with cause 16 gives ANSWERED to a row no `StasisStart` was
recorded for, because `_CAUSE_STATUS` maps the cause before `_finalise` looks for an answer;
`calls/projection.py:62` ("only if we saw an answer") and 195-197 say otherwise.
`OutcomeHasEvidence` therefore claims nothing of ANSWERED; what is certain of an answer is
`row.answered`. A message that a hangup cuts is recorded as delivered if Asterisk reports its
playback finished, which `models/voice.py:39` rules out. At L3 the end of the prompt counts as the
end of the message. An opt-out pressed after the worker has stored DIALING over the answer, or
after an answer that was missed, reaches the buyer when the call ends and not before, so that
another attempt may come first. A keypress of an earlier ring still opens the gate at a later one of
the same call: `NothingBeforeKeypress` is about the call. A call that was given back and is answered
when it rings again counts again, and may by then be one more than the cap. `telephony/events.py:126-128` drops
events without a top-level `channel`, as PlaybackFinished would be if Asterisk names the channel in
`playback.target_uri` only: the models assume that it has one.

**Scheduler.** `next_action_at = None` for a buyer without a campaign (`tick.py:84-86`) may be written
long after the row was locked: after a rollback in the same batch it replaces a schedule that
somebody else has committed, and nothing takes the buyer up again. A rollback for one buyer loses
the refusals of those before it in the batch. A message that failed after its commit is another
message at the next tick, since its key has the time in it.

**Accounts.** CURRENT does not become OVERDUE by itself. A payment that read the account before a
dispute was raised may overwrite it, and so does a void. Amendments and the clearing of a dispute
take no lock. Imported invoices get no account.

**Imports.** A row that finds its party unchanged is skipped, with the new invoice it brings. Two
rows of a party without a code create it twice. An invoice number that occurs twice in a file
fails its commit.

**Messages.** A refusal of `send` (`ContactBlocked`) is flushed and not committed, and a rollback
loses it. Two reports that overlap may put the status back, though never a fact.

**Throttle.** With a burst as large as the rate, up to twice the rate passes in one second,
although `scheduler/throttle.py:39-40` says the limit holds over any window; and a worker that reads the
clock and is overtaken before its script runs puts the bucket's time back, so that an interval is
refilled twice. `RateHolds` states the bound that does hold. The channel counters do not fail closed,
as `throttle.py:15-18` has it: a read that fails counts as 0, and if the increments work then the
call is placed past the limit.

**Audio.** `is_staged` compares the size only, and of the `.sln` only, although the `.alaw` beside it is
what is heard: one that is cut short, or of an earlier take, passes what `telephony/staging.py:3-9`
calls a policy gate. An asset that is READY is never rendered again, so a
size that differs blocks its calls for good. `dispatch_buyer` does not catch `RenderError`.

**Credit.** The audit entry is written in a second transaction. Two decisions that overlap
overwrite each other. An account that is settled between the two reads is counted in neither. The
existing exposure has no effect on the limit.

**Identity and tenancy.** Under row-level security an invitation cannot see a user of another
company with the same email. When `ensure_roles` fails, the transaction of `rls` is lost
although it printed that it was applied.

**Resolution.** A contradiction of states alone is no veto, although a comment
(`company/resolution.py:200`) says so, and neither is one of PANs within a state. Two unknown
states count as equal, so that a name alone may reach NAME_STRONG. Two sources that agree
without an identifier cancel each other as ambiguous.

**Registry.** A listing keeps its amount after a part payment or when the reconciliation is
old: `should_delist` has no reason for either. `evaluate` has no limitation gate, so a debt that
is time-barred may be listed. A listing that was withdrawn may be proposed again.

**Roles and profiles.** A template's author should not approve it (docstring), but one user may
hold both roles. `company_profiles` has no unique constraint: two concurrent first writes leave
two rows, and every later read raises.
