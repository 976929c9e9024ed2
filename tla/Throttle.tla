------------------------------ MODULE Throttle ------------------------------
(***************************************************************************)
(* The first limit every call passes (scheduler/throttle.py): a token      *)
(* bucket, refilled and drawn on in one atomic script that is told the     *)
(* time its worker read before.  Time is counted in ticks, Second of them  *)
(* to the second, and a token in as many parts, so that a tick brings      *)
(* CallsPerSecond parts.  The workers read one clock.  Channels is the     *)
(* second limit, which shares nothing with this one.                       *)
(***************************************************************************)
EXTENDS Integers

CONSTANTS Placers, CallsPerSecond, Second,
          MaxTicks  \* bound: how long the clock runs

VARIABLES tokens, ts, ticks,  \* the bucket as last stored, and the clock
          clocked,            \* the time each worker read and has not passed on yet
          granted,            \* history: the calls the bucket had let through by the end of each tick
          late                \* history: by how many ticks its scripts came late by then, in all

tvars == <<tokens, ts, ticks, clocked, granted, late>>

Burst == CallsPerSecond * Second
Unread == -1

Init == /\ tokens = Burst /\ ts = 0 /\ ticks = 0
        /\ clocked = [w \in Placers |-> Unread]
        /\ granted = [t \in -1 .. MaxTicks |-> 0] /\ late = [t \in -1 .. MaxTicks |-> 0]

Lower(x, y) == IF x <= y THEN x ELSE y
Higher(x, y) == IF x >= y THEN x ELSE y

\* Mutant: a fixed window, full again in every second, whenever the last call was.
FixedWindow(now) == IF now \div Second # ts \div Second THEN Burst ELSE tokens
\* Mutant: the refill is not capped.
Uncapped(now) == tokens + Higher(0, now - ts) * CallsPerSecond

\* What the bucket holds at that time: nothing is taken back if it is before the last one.
Refilled(now) == Lower(Burst, tokens + Higher(0, now - ts) * CallsPerSecond)

\* acquire_rate: the worker reads the clock ...
ReadClock(w) == /\ clocked[w] = Unread
                /\ clocked' = [clocked EXCEPT ![w] = ticks]
                /\ UNCHANGED <<tokens, ts, ticks, granted, late>>

\* ... and the script refills, checks, draws and keeps that time, whatever scripts ran
\* meanwhile.
AcquireRate(w) ==
  LET now == clocked[w] IN
  /\ now # Unread
  /\ clocked' = [clocked EXCEPT ![w] = Unread]
  /\ ts' = now
  /\ late' = [late EXCEPT ![ticks] = @ + (ticks - now)]
  /\ IF Refilled(now) >= Second
     THEN tokens' = Refilled(now) - Second /\ granted' = [granted EXCEPT ![ticks] = @ + 1]
     ELSE tokens' = Refilled(now) /\ UNCHANGED granted
  /\ UNCHANGED ticks

Tick == /\ ticks < MaxTicks /\ ticks' = ticks + 1
        /\ granted' = [granted EXCEPT ![ticks + 1] = granted[ticks]]
        /\ late' = [late EXCEPT ![ticks + 1] = late[ticks]]
        /\ UNCHANGED <<tokens, ts, clocked>>

Next == (\E w \in Placers : ReadClock(w) \/ AcquireRate(w)) \/ Tick

Spec == Init /\ [][Next]_tvars

---------------------------------------------------------------------------
TypeOK == /\ tokens \in 0 .. Burst /\ ts \in 0 .. ticks /\ ticks \in 0 .. MaxTicks
          /\ clocked \in [Placers -> 0 .. ticks \cup {Unread}]

\* Over any stretch of time, aligned to a second or not, the bucket lets through no more
\* than a second's allowance, what was refilled meanwhile, and as much again as its scripts
\* came late. "The limit holds across any window" (scheduler/throttle.py:39-40) but for
\* those: a worker reads the clock before its script runs (line 104), and a script that is
\* overtaken puts the bucket's time back (line 65), so that an interval is refilled twice.
RateHolds ==
  \A a, b \in 0 .. ticks : a <= b =>
    (granted[b] - granted[a - 1]) * Second
      <= Burst + ((b - a) + (late[b] - late[a - 1])) * CallsPerSecond
=============================================================================
