--------------------------- MODULE ContactBudget ---------------------------
(***************************************************************************)
(* What the scheduler promises to debtors: every attempt to reach one is   *)
(* booked before anybody is contacted, within the caps and on an account   *)
(* that was open at the date it is booked under; one attempt is one        *)
(* contact at most; and what was booked stays on record. An attempt that   *)
(* was given back may count again, past the caps: nothing looks at them    *)
(* then. Dispatch implements this, whatever workers overlap and whatever   *)
(* fails.                                                                  *)
(***************************************************************************)
EXTENDS Integers, FiniteSets

CONSTANTS Buyers, Limits, NoTime

VARIABLES attempts, contacted, closed, clock

Init == /\ attempts = {} /\ contacted = {} /\ clock = 0
        /\ closed = [b \in Buyers |-> NoTime]

Id(s) == {x.id : x \in s}

\* No window of a limit holds more than its cap of b's attempts, as booked.
WithinCaps(b) ==
  \A l \in Limits : \A t \in { a.at : a \in attempts } :
    Cardinality({ a \in attempts : /\ a.buyer = b /\ a.counts /\ ~a.again
                                   /\ t <= a.at /\ a.at <= t + l.span }) <= l.cap

\* A new attempt, dated no later than now.
Book == /\ \E a \in attempts' :
             /\ attempts' = attempts \cup {a}
             /\ a.id \notin Id(attempts) /\ a.counts /\ ~a.again /\ a.at <= clock
             /\ closed[a.buyer] = NoTime \/ closed[a.buyer] >= a.at
             /\ WithinCaps(a.buyer)'
        /\ UNCHANGED <<contacted, closed, clock>>

\* An attempt on record is used up, now.
Reach == /\ \E a \in attempts :
              /\ a.id \notin Id(contacted)
              /\ contacted' = contacted \cup {[id |-> a.id, buyer |-> a.buyer, at |-> clock]}
         /\ UNCHANGED <<attempts, closed, clock>>

\* A carrier fault: an attempt that was handed over does not count after all.
GiveBack == /\ \E a \in attempts :
                 /\ a.id \in Id(contacted)
                 /\ attempts' = (attempts \ {a}) \cup {[a EXCEPT !.counts = FALSE]}
            /\ UNCHANGED <<contacted, closed, clock>>

\* It was answered after all.
CountAgain == /\ \E a \in attempts :
                   /\ a.id \in Id(contacted) /\ ~a.counts
                   /\ attempts' = (attempts \ {a})
                                  \cup {[a EXCEPT !.counts = TRUE, !.again = TRUE]}
              /\ UNCHANGED <<contacted, closed, clock>>

Close == /\ \E b \in Buyers : closed[b] = NoTime /\ closed' = [closed EXCEPT ![b] = clock]
         /\ UNCHANGED <<attempts, contacted, clock>>

Pass == clock' = clock + 1 /\ UNCHANGED <<attempts, contacted, closed>>

Next == Book \/ Reach \/ GiveBack \/ CountAgain \/ Close \/ Pass

Spec == Init /\ [][Next]_<<attempts, contacted, closed, clock>>
===========================================================================
