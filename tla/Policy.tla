------------------------------- MODULE Policy -------------------------------
(***************************************************************************)
(* The policy engine in full (policy/engine.py): the gates in their order, *)
(* the account, the level, the channel and the template it settles on; and *)
(* what comes back to the ladders it reads: outcomes of calls              *)
(* (calls/outcomes.py), part payments and disputes (trade/accounts.py).    *)
(* Dispatch has the transactions around it and its own short form of the   *)
(* gates.  A day is the unit of time; the phones, the addresses and the    *)
(* calendar of the moment are one of People.                               *)
(***************************************************************************)
EXTENDS Integers, Sequences, FiniteSets, FiniteSetsExt

CONSTANTS Debts,      \* the accounts of one buyer
          Laddered,   \* those of them with a row of escalation_states ...
          AtL2,       \* ... and those whose row starts at L2, as seed.py makes them
          Templates, People,
          L1After, L2After, L3After, MaxAttempts,  \* EscalationPolicy
          Gap, PerDay, PerWeek,                    \* Campaign: cooldown and caps
          MaxDay, MaxCalls  \* bounds: the days that pass, the calls that end

VARIABLES today, owes, spent, said,
          tried,    \* history: calls since somebody was reached, or paid
          reached   \* history: calls on this account that were delivered

pvars == <<today, owes, spent, said, tried, reached>>

Never == -1
Decision == [allowed : BOOLEAN, reason : STRING, account : Debts, level : 1 .. 3,
             channel : STRING, acked : BOOLEAN, approved : BOOLEAN]
Blank == [allowed |-> FALSE, reason |-> "none", account |-> CHOOSE a \in Debts : TRUE, level |-> 1,
          channel |-> "none", acked |-> FALSE, approved |-> FALSE]
Block(reason) == [Blank EXCEPT !.reason = reason]

Init == /\ today = 0 /\ spent = [d \in 0 .. MaxDay |-> 0] /\ said = Blank
        /\ owes = [a \in Debts |->
             [status |-> "OVERDUE", big |-> TRUE, due |-> 0, level |-> IF a \in AtL2 THEN 2 ELSE 1,
              entered |-> 0, attempts |-> IF a \in AtL2 THEN MaxAttempts ELSE 0,
              delivered |-> 0, last |-> Never]]
        /\ tried = [a \in Debts |-> owes[a].attempts] /\ reached = [a \in Debts |-> 0]

---------------------------------------------------------------------------
(* Selection.                                                              *)

\* The reason of the first test that fires; "none" when none does.
First(gates) ==
  LET fired == {i \in DOMAIN gates : gates[i][1]}
  IN IF fired = {} THEN "none" ELSE gates[Min(fired)][2]

DetermineLevel(a) ==
  LET o == owes[a]
      age == IF a \in Laddered THEN today - o.entered ELSE 0
      exhausted == o.attempts >= MaxAttempts
      ripe == o.level = 2 /\ age >= L3After /\ exhausted /\ o.big
  IN [level |-> CASE o.level = 1 -> IF age >= L2After /\ exhausted THEN 2 ELSE 1
                  [] o.level = 2 -> IF ripe /\ o.delivered >= 1 THEN 3 ELSE 2
                  [] OTHER -> 3,
      review |-> ripe /\ o.delivered < 1]

Eligible == {a \in Debts : owes[a].status = "OVERDUE" /\ today - owes[a].due >= L1After}

\* Level first, then age, then size; the sort leaves equals in the order they were read in.
Severity(a) == owes[a].level * 100 + (today - owes[a].due) * 10 + (IF owes[a].big THEN 1 ELSE 0)
Severest == {a \in Eligible : \A b \in Eligible : Severity(b) <= Severity(a)}

ClosedStatuses == {"SETTLED", "WRITTEN_OFF"}
AccountBlock ==
  LET statuses == {owes[a].status : a \in Debts}
  IN First(<< <<Eligible # {}, "none">>,
              <<"IN_DISPUTE" \in statuses /\ statuses \subseteq ClosedStatuses \cup {"IN_DISPUTE"},
                "ACCOUNT_IN_DISPUTE">>,
              <<statuses \subseteq ClosedStatuses, "ACCOUNT_CLOSED">>,
              <<TRUE, "ACCOUNT_NOT_OVERDUE">> >>)

PhoneBlock(p) ==
  LET valid == {x \in p.phones : x.valid}
      dnd == {x.dnd : x \in valid}
  IN First(<< <<valid = {}, "NO_VALID_PHONE">>,
              <<\E x \in valid : x.dnd = "CLEAR" /\ x.fresh, "none">>,
              <<dnd = {"REGISTERED"}, "DND_REGISTERED">>,
              <<"UNKNOWN" \in dnd, "DND_UNKNOWN">>,
              <<TRUE, "DND_CHECK_STALE">> >>)

Preference == << <<"SMS", "WHATSAPP", "EMAIL", "VOICE">>,
                 <<"VOICE", "WHATSAPP", "SMS", "EMAIL">>,
                 <<"VOICE">> >>
PhoneChannels == {"VOICE", "SMS", "WHATSAPP"}
TemplatesFor(level, channel) == {t \in Templates : t.level = level /\ t.channel = channel}

\* The first rung of the level that can be used, or why there is none.
SelectChannel(p, level) ==
  LET hasPhone == PhoneBlock(p) = "none"
      Rung(c) == First(<< <<c \notin p.channels \/ TemplatesFor(level, c) = {}, "skipped">>,
                          <<c \in p.optedOut, "CHANNEL_OPTED_OUT">>,
                          <<c \in PhoneChannels /\ ~hasPhone, "NO_CONTACT_ADDRESS">>,
                          <<c = "EMAIL" /\ ~p.email, "NO_CONTACT_ADDRESS">> >>)
      rungs == [i \in DOMAIN Preference[level] |-> Rung(Preference[level][i])]
      usable == {i \in DOMAIN rungs : rungs[i] = "none"}
      saw == {rungs[i] : i \in DOMAIN rungs}
  IN IF usable # {} THEN [channel |-> Preference[level][Min(usable)], reason |-> "none"]
     ELSE [channel |-> "none",
           reason |-> First(<< <<"CHANNEL_OPTED_OUT" \in saw, "CHANNEL_OPTED_OUT">>,
                               <<"NO_CONTACT_ADDRESS" \in saw, "NO_CONTACT_ADDRESS">>,
                               <<TRUE, "NO_TEMPLATE_FOR_LEVEL">> >>)]

\* The buyer's language where there is one, and approved words where there are any; which
\* of several such templates is first depends on the query.
SelectTemplate(level, channel) ==
  LET all == TemplatesFor(level, channel)
      exact == {t \in all : t.exact}
      candidates == IF exact # {} THEN exact ELSE all
      approved == {t \in candidates : t.approved}
  IN IF approved # {} THEN approved ELSE candidates

---------------------------------------------------------------------------
(* The decision.                                                           *)

\* attempts_today and attempts_this_week: what counts against the caps since `days` ago.
Attempts(days) == MapThenSumSet(LAMBDA d : spent[d], {d \in 0 .. today : d > today - days})
LastContact == Max({owes[a].last : a \in Debts})

\* Every gate before the ladder, in the order that makes the recorded reason the most
\* meaningful true one.
Gates(p) ==
  << <<~p.active, "CAMPAIGN_NOT_ACTIVE">>,
     <<p.withdrawn, "CONSENT_WITHDRAWN">>,
     <<p.suppressed, "BUYER_SUPPRESSED">>,
     <<Eligible = {}, AccountBlock>>,
     <<p.calendar # "open", p.calendar>>,
     <<Attempts(1) >= PerDay, "DAILY_CAP_REACHED">>,
     <<Attempts(7) >= PerWeek, "WEEKLY_CAP_REACHED">>,
     <<LastContact # Never /\ today - LastContact < Gap, "COOLDOWN_ACTIVE">> >>

\* What is decided about the account that was selected.
ForAccount(p, a) ==
  LET l == DetermineLevel(a)
      c == SelectChannel(p, l.level)
      Template(t) == First(<< <<l.level = 3 /\ ~t.approved, "L3_TEMPLATE_NOT_APPROVED">>,
                              <<c.channel = "SMS" /\ ~t.registered, "SMS_TEMPLATE_NOT_REGISTERED">> >>)
  IN IF l.review THEN {Block("L3_REQUIRES_PRIOR_CONTACT")}
     ELSE IF c.channel = "none"
     THEN {Block(IF PhoneBlock(p) # "none" /\ c.reason = "NO_CONTACT_ADDRESS"
                 THEN PhoneBlock(p) ELSE c.reason)}
     ELSE {IF Template(t) # "none" THEN Block(Template(t))
           ELSE [allowed |-> TRUE, reason |-> "none", account |-> a, level |-> l.level,
                 channel |-> c.channel, acked |-> l.level = 3 /\ c.channel = "VOICE",
                 approved |-> t.approved] : t \in SelectTemplate(l.level, c.channel)}

\* evaluate: the decisions it may come to.
Evaluate(p) == IF First(Gates(p)) # "none" THEN {Block(First(Gates(p)))}
               ELSE UNION {ForAccount(p, a) : a \in Severest}

---------------------------------------------------------------------------
(* What happens to the debtor.                                             *)

\* A refusal leaves nothing the engine reads later: its row is Dispatch's.
Decide == /\ ~said.allowed
          /\ \E p \in People : \E d \in Evaluate(p) : d.allowed /\ said' = d
          /\ UNCHANGED <<today, owes, spent, tried, reached>>

\* Mutant: a delivered call is one more attempt.
OneMore(o, delivered) ==
  [o EXCEPT !.attempts = @ + 1, !.delivered = IF delivered THEN @ + 1 ELSE @]

\* record_attempt: reaching somebody starts the count again.
RecordAttempt(o, delivered) ==
  IF delivered THEN [o EXCEPT !.attempts = 0, !.delivered = @ + 1]
  ELSE [o EXCEPT !.attempts = @ + 1]

Calls == MapThenSumSet(LAMBDA d : spent[d], 0 .. MaxDay)

\* The call ends.  What the carrier failed at is free of the caps, and is counted on the
\* ladder all the same.
CallEnds ==
  LET a == said.account IN
  /\ said.allowed /\ said.channel = "VOICE" /\ Calls < MaxCalls
  /\ \E delivered, counts \in BOOLEAN :
       /\ delivered => counts
       /\ spent' = [spent EXCEPT ![today] = @ + (IF counts THEN 1 ELSE 0)]
       /\ owes' = IF a \in Laddered
                  THEN [owes EXCEPT ![a] = [RecordAttempt(@, delivered) EXCEPT !.last = today]]
                  ELSE owes
       /\ tried' = [tried EXCEPT ![a] = IF delivered THEN 0 ELSE @ + 1]
       /\ reached' = [reached EXCEPT ![a] = IF delivered THEN @ + 1 ELSE @]
  /\ said' = Blank /\ UNCHANGED today

\* A message leaves the ladder as it is, the cooldown with it.
MessageSent == /\ said.allowed /\ said.channel # "VOICE" /\ Calls < MaxCalls
               /\ spent' = [spent EXCEPT ![today] = @ + 1]
               /\ said' = Blank /\ UNCHANGED <<today, owes, tried, reached>>

Write(a, o) == /\ owes' = [owes EXCEPT ![a] = o]
               /\ UNCHANGED <<today, spent, said, reached>>

\* _reset_cadence: the counter softens, the level and the deliveries stay.
PartPaid(a) == /\ owes[a].status = "OVERDUE" /\ owes[a].big
               /\ Write(a, [owes[a] EXCEPT !.big = FALSE, !.attempts = 0, !.last = Never])
               /\ tried' = [tried EXCEPT ![a] = 0]

Disputed(a) == /\ owes[a].status = "OVERDUE"
               /\ Write(a, [owes[a] EXCEPT !.status = "IN_DISPUTE"]) /\ UNCHANGED tried
Cleared(a) == /\ owes[a].status = "IN_DISPUTE"
              /\ \E status \in {"OVERDUE", "SETTLED"} : Write(a, [owes[a] EXCEPT !.status = status])
              /\ UNCHANGED tried

NextDay == /\ ~said.allowed /\ today < MaxDay /\ today' = today + 1
           /\ UNCHANGED <<owes, spent, said, tried, reached>>

Next == Decide \/ CallEnds \/ MessageSent \/ NextDay
        \/ \E a \in Debts : PartPaid(a) \/ Disputed(a) \/ Cleared(a)

Spec == Init /\ [][Next]_pvars

---------------------------------------------------------------------------
TypeOK == /\ today \in 0 .. MaxDay /\ spent \in [0 .. MaxDay -> Nat] /\ said.account \in Debts
          /\ \A a \in Debts : /\ owes[a].attempts >= 0 /\ owes[a].last \in Never .. today
                              /\ tried[a] >= 0 /\ reached[a] >= 0

\* No rung of the ladder is skipped or bought with calls that were answered: a level above
\* the one on record needs the time at that level and as many calls in a row that reached
\* nobody, with no payment among them; and the legal level moreover somebody reached at
\* the level below it, a keypress and approved words (engine.py:200-253, 432-436).
EarnedContact ==
  [][\A a \in Debts : (said'.allowed /\ said'.account = a /\ ~said.allowed) =>
       /\ said'.level > owes[a].level =>
            /\ a \in Laddered /\ tried[a] >= MaxAttempts
            /\ today - owes[a].entered >= (IF said'.level = 2 THEN L2After ELSE L3After)
       /\ said'.level = 3 => reached[a] >= 1 /\ said'.acked /\ said'.approved]_pvars
=============================================================================
