------------------------------- MODULE Credit -------------------------------
(***************************************************************************)
(* Credit checks (api/routes.py): what the ledger says of a buyer, read in *)
(* two statements while it moves; the risk score and the assessment made   *)
(* of it (intelligence/scoring.py, creditworthiness.py); the decision a    *)
(* person records afterwards; and the audit entries, each written in a     *)
(* transaction after the one it tells of.  Money is counted in hundreds of *)
(* rupees, rates in whole percents and scores in hundredths of one, which  *)
(* is what the code rounds them to.                                        *)
(***************************************************************************)
EXTENDS Integers, FiniteSets, FiniteSetsExt

CONSTANTS Officers,    \* the requests
          Checks,      \* the assessments
          NoCheck,
          Forms,       \* the applications that are filled in
          Behaviours,  \* what payment_behaviours may hold of the buyer
          Approvals,   \* the limits a person may approve
          MaxSettled, MaxOwed, WorstDays  \* bounds of the ledger

VARIABLES books,     \* the buyer's accounts: settled, overdue amount, worst days past due
          desk,      \* what each request has read, and where it is
          assessed, decided, audited,  \* the rows of credit_assessments and of audit_logs
          first,     \* history: the decision recorded first
          overlapped, lost  \* history: decisions that overlapped, requests that died

kvars == <<books, desk, assessed, decided, audited, first, overlapped, lost>>

Unknown == -1

\* What is declared, and what is known of how the buyer behaves.  An amount may be typed
\* with a minus, or in the brackets of an accountant.
Form == [requested : Int, turnover : Int, years : Nat \cup {Unknown}, other : Int,
         references : Nat, gst : {"yes", "no", "unsaid"}, verified : BOOLEAN]
Behaviour == [days : Int, kept : 0 .. 100 \cup {Unknown}]

Facts == [settled : 0 .. MaxSettled, overdue : 0 .. MaxOwed, worst : WorstDays, behaviour : Behaviours]
NoFacts == [settled |-> 0, overdue |-> 0, worst |-> 0, behaviour |-> CHOOSE b \in Behaviours : TRUE]
Free == [at |-> "free", form |-> CHOOSE f \in Forms : TRUE, facts |-> NoFacts, check |-> NoCheck,
         limit |-> Unknown, arrears |-> FALSE]
NoRow == [exists |-> FALSE, form |-> Free.form, facts |-> NoFacts, arrears |-> FALSE,
          limit |-> 0, advice |-> "REFER"]

Init == /\ books = [settled |-> 0, overdue |-> 1, worst |-> Max(WorstDays)]
        /\ desk = [o \in Officers |-> Free]
        /\ assessed = [c \in Checks |-> NoRow] /\ decided = [c \in Checks |-> Unknown]
        /\ audited = {} /\ first = [c \in Checks |-> Unknown]
        /\ overlapped = {} /\ lost = {}

---------------------------------------------------------------------------
(* The two engines.                                                        *)

Clamp(v) == Max({0, Min({100, v})})
Factor(applies, value, weight) ==
  IF applies THEN [points |-> Clamp(value) * weight, weight |-> weight] ELSE [points |-> 0, weight |-> 0]
With(f, g) == [points |-> f.points + g.points, weight |-> f.weight + g.weight]
\* round(..., 2)
Score(f) == (200 * f.points + f.weight) \div (2 * f.weight)

\* score_buyer on the inputs its caller has: 0 is safe, the full score the highest risk.
RiskScore(facts) ==
  Score(With(Factor(facts.behaviour.days # Unknown, ((facts.behaviour.days - 30) * 100) \div 90, 18),
             With(Factor(facts.behaviour.kept # Unknown, 100 - facts.behaviour.kept, 16),
                  Factor(TRUE, (facts.worst * 100) \div 180, 15))))
Band(score) == IF score < 2500 THEN "LOW" ELSE IF score < 5000 THEN "MODERATE"
               ELSE IF score < 7500 THEN "ELEVATED" ELSE "HIGH"
Risk(facts) == IF facts.settled > 0 \/ facts.overdue > 0 \/ facts.worst > 0
               THEN Band(RiskScore(facts)) ELSE "none"

\* The evidence of the ledger: recovery risk, track record, payment speed and promises.
Ledgered(facts) ==
  With(With(Factor(Risk(facts) # "none", (10000 - RiskScore(facts)) \div 100, 30),
            Factor(TRUE, (facts.settled * 100) \div 12, 12)),
       With(Factor(facts.behaviour.days # Unknown, 100 - ((facts.behaviour.days - 15) * 100) \div 75, 10),
            Factor(facts.behaviour.kept # Unknown, facts.behaviour.kept, 8)))

\* What is declared: years of trading, references, registration, and the exposure in months.
Declared(form, facts) ==
  LET exposure == facts.overdue + form.other IN
  With(With(Factor(form.years # Unknown, form.years * 20, 10),
            Factor(form.references > 0, (form.references * 100) \div 3, 6)),
       With(Factor(form.gst # "unsaid", IF form.gst = "yes" THEN 100 ELSE 0, 6),
            Factor(form.turnover # 0 /\ exposure # 0,
                   100 - (exposure * 1200) \div Max({form.turnover * 3, 1}), 10)))

\* The turnover, beside the limit: unverified, it weighs half.
Cover(form) == Factor(form.turnover # 0, (form.turnover * 25) \div (12 * Max({form.requested, 1})),
                      IF form.verified THEN 14 ELSE 7)

\* The evidence for the buyer: 0 is weak.
Strength(form, facts) == Score(With(Cover(form), With(Ledgered(facts), Declared(form, facts))))

\* Facts a score may not average away.
Blocked(form, facts) == \/ facts.overdue > 0 \/ facts.worst >= 90
                        \/ Risk(facts) = "HIGH" \/ form.requested <= 0

RiskTenths == [LOW |-> 10, MODERATE |-> 6, ELEVATED |-> 3, HIGH |-> 0, none |-> 10]
VintageTenths(years) == IF years = Unknown THEN 7 ELSE IF years < 1 THEN 5
                        ELSE IF years < 3 THEN 8 ELSE 10
Rounding == 10

\* The ceiling before the blockers: a quarter of a month's turnover, three fifths of it when
\* nobody verified it, discounted.
Offered(form, facts) ==
  (((form.turnover * (IF form.verified THEN 5 ELSE 3) * Strength(form, facts)) \div 240)
     * (RiskTenths[Risk(facts)] * VintageTenths(form.years))) \div 1000000
Ceiling(form, facts) ==
  LET kept == Min({Max({0, Offered(form, facts) - facts.overdue}), form.requested})
  IN IF form.turnover = 0 \/ form.requested <= 0 THEN 0 ELSE kept - (kept % Rounding)

Recommended(score) == IF score >= 7000 THEN "STRONG" ELSE IF score >= 5000 THEN "ACCEPTABLE"
                      ELSE IF score >= 3000 THEN "CAUTION" ELSE "REFER"

\* Mutant: arrears cap the recommendation, and not the limit.
AdviceOnly(form, facts) ==
  [limit |-> Ceiling(form, facts),
   advice |-> IF Blocked(form, facts) THEN "REFER" ELSE Recommended(Strength(form, facts))]

\* assess.
Assess(form, facts) ==
  IF Blocked(form, facts) THEN [limit |-> 0, advice |-> "REFER"]
  ELSE [limit |-> Ceiling(form, facts), advice |-> Recommended(Strength(form, facts))]

---------------------------------------------------------------------------
(* The ledger moves.                                                       *)

\* While a request is open, is the buyer in arrears all the time?
Watched(b) == [o \in Officers |-> [desk[o] EXCEPT !.arrears = @ /\ b.overdue > 0]]

Moves(b) == /\ books' = b /\ desk' = Watched(b)
            /\ UNCHANGED <<assessed, decided, audited, first, overlapped, lost>>

FallsDue == \E days \in WorstDays : /\ days >= books.worst /\ books.overdue < MaxOwed
                                    /\ Moves([books EXCEPT !.overdue = @ + 1, !.worst = days])
Settled == /\ books.overdue > 0 /\ books.settled < MaxSettled
           /\ Moves([settled |-> books.settled + 1, overdue |-> 0, worst |-> 0])

---------------------------------------------------------------------------
(* The requests.                                                           *)

At(o, step) == desk[o].at = step
Turn(o, d) == desk' = [desk EXCEPT ![o] = d]

\* A limit of zero or less is refused before anything is read.
AskForCheck(o, f) ==
  /\ At(o, "free") /\ f.requested > 0 /\ \E c \in Checks : ~assessed[c].exists
  /\ Turn(o, [Free EXCEPT !.at = "asked", !.form = f, !.arrears = books.overdue > 0])
  /\ UNCHANGED <<books, assessed, decided, audited, first, overlapped, lost>>

\* _ledger_facts: the settled accounts are counted, then the others are read.
CountSettled(o) ==
  /\ At(o, "asked")
  /\ Turn(o, [desk[o] EXCEPT !.at = "counted", !.facts.settled = books.settled])
  /\ UNCHANGED <<books, assessed, decided, audited, first, overlapped, lost>>
ReadOpen(o) ==
  /\ At(o, "counted")
  /\ \E b \in Behaviours :
       Turn(o, [desk[o] EXCEPT !.at = "read", !.facts.overdue = books.overdue,
                               !.facts.worst = books.worst, !.facts.behaviour = b])
  /\ UNCHANGED <<books, assessed, decided, audited, first, overlapped, lost>>

StoreCheck(o) ==
  LET d == desk[o]
      a == Assess(d.form, d.facts)
  IN /\ At(o, "read")
     /\ \E c \in Checks :
          /\ ~assessed[c].exists
          /\ assessed' = [assessed EXCEPT ![c] =
               [exists |-> TRUE, form |-> d.form, facts |-> d.facts, arrears |-> d.arrears,
                limit |-> a.limit, advice |-> a.advice]]
          /\ Turn(o, [Free EXCEPT !.at = "stored", !.check = c])
     /\ UNCHANGED <<books, decided, audited, first, overlapped, lost>>

AuditCheck(o) == /\ At(o, "stored") /\ Turn(o, Free)
                 /\ audited' = audited \cup {<<desk[o].check, "assessed", Unknown>>}
                 /\ UNCHANGED <<books, assessed, decided, first, overlapped, lost>>

\* Two decisions on one assessment that are open together.
Overlaps(o, c) == \E p \in Officers \ {o} : At(p, "deciding") /\ desk[p].check = c

Deciding(o, c, limit) ==
  /\ Turn(o, [Free EXCEPT !.at = "deciding", !.check = c, !.limit = limit])
  /\ overlapped' = IF Overlaps(o, c) THEN overlapped \cup {c} ELSE overlapped
  /\ UNCHANGED <<books, assessed, decided, audited, first, lost>>

\* Mutant: an assessment may be decided again.
OpenAgain(o) == At(o, "free") /\ \E c \in Checks, l \in Approvals :
                  assessed[c].exists /\ Deciding(o, c, l)

\* decide_credit_limit reads the row, and refuses one that has been decided ...
OpenDecision(o) == At(o, "free") /\ \E c \in Checks, l \in Approvals :
                     assessed[c].exists /\ decided[c] = Unknown /\ Deciding(o, c, l)

\* ... and writes it: the UPDATE has no condition.
StoreDecision(o) ==
  LET c == desk[o].check
      l == desk[o].limit
  IN /\ At(o, "deciding") /\ Turn(o, [desk[o] EXCEPT !.at = "decided"])
     /\ decided' = [decided EXCEPT ![c] = l]
     /\ first' = [first EXCEPT ![c] = IF @ = Unknown THEN l ELSE @]
     /\ UNCHANGED <<books, assessed, audited, overlapped, lost>>

AuditDecision(o) == /\ At(o, "decided") /\ Turn(o, Free)
                    /\ audited' = audited \cup {<<desk[o].check, "decided", desk[o].limit>>}
                    /\ UNCHANGED <<books, assessed, decided, first, overlapped, lost>>

\* The request dies; what it committed stays.
Dies(o) == /\ ~At(o, "free") /\ Turn(o, Free)
           /\ lost' = IF desk[o].at \in {"stored", "decided"} THEN lost \cup {desk[o].check} ELSE lost
           /\ UNCHANGED <<books, assessed, decided, audited, first, overlapped>>

Next == \/ FallsDue \/ Settled
        \/ \E o \in Officers :
             \/ \E f \in Forms : AskForCheck(o, f)
             \/ CountSettled(o) \/ ReadOpen(o) \/ StoreCheck(o) \/ AuditCheck(o)
             \/ OpenDecision(o) \/ StoreDecision(o) \/ AuditDecision(o) \/ Dies(o)

Spec == Init /\ [][Next]_kvars

---------------------------------------------------------------------------
TypeOK == /\ books.settled \in 0 .. MaxSettled /\ books.overdue \in 0 .. MaxOwed
          /\ \A o \in Officers : desk[o].form \in Forms /\ desk[o].facts \in Facts
          /\ \A c \in Checks : /\ assessed[c].advice \in {"STRONG", "ACCEPTABLE", "CAUTION", "REFER"}
                               /\ {decided[c], first[c]} \subseteq Approvals \cup {Unknown}
          /\ overlapped \cup lost \subseteq Checks

\* Someone who was in arrears all through the check is offered nothing, however the ledger
\* moved between its statements; nobody is offered more than was asked for; and a turnover
\* nobody verified never buys more than the same figure verified would, although it weighs
\* less in the score (creditworthiness.py:175-181, 226-271).
SafeAdvice ==
  \A c \in Checks : LET r == assessed[c] IN r.exists =>
    /\ r.arrears => r.limit = 0 /\ r.advice = "REFER"
    /\ r.limit <= r.form.requested
    /\ r.limit <= Assess([r.form EXCEPT !.verified = TRUE], r.facts).limit

\* A recorded decision is not replaced, except by one that overlapped it; and what is
\* recorded and what is audited agree, unless the request died between the two
\* (routes.py:731-761).
DecisionStands ==
  \A c \in Checks :
    /\ c \notin overlapped => decided[c] = first[c]
    /\ decided[c] # Unknown /\ c \notin lost =>
         \/ <<c, "decided", decided[c]>> \in audited
         \/ \E o \in Officers : desk[o].at = "decided" /\ desk[o].check = c
    /\ \A l \in Approvals : <<c, "decided", l>> \in audited /\ c \notin overlapped => decided[c] = l
=============================================================================
