------------------------------ MODULE Channels ------------------------------
(***************************************************************************)
(* The second limit every call passes (scheduler/throttle.py): two         *)
(* counters of channels, of all calls and of the tenant's, read one after  *)
(* the other and then incremented.  A read that fails finds 0.             *)
(***************************************************************************)
EXTENDS Integers, FiniteSets

CONSTANTS Placers, Tenants, MaxConcurrent, MaxConcurrentPerTenant,
          MaxBlind  \* bound: how often a read that fails lets a worker past a limit

VARIABLES channels, tenantChannels,  \* the counters, global and by tenant
          live, tenantLive,          \* the calls that are up, in all and of each tenant
          blind,                     \* history: how often a failed read let a worker past a limit
          placing                    \* where each worker is, and for which tenant

hvars == <<channels, tenantChannels, live, tenantLive, blind, placing>>

Idle == [at |-> "idle", tenant |-> CHOOSE c \in Tenants : TRUE]

Init == /\ channels = 0 /\ tenantChannels = [c \in Tenants |-> 0]
        /\ live = 0 /\ tenantLive = [c \in Tenants |-> 0] /\ blind = 0
        /\ placing = [w \in Placers |-> Idle]

\* acquire_channel refuses at a limit, and goes on if there is room, or if there seems to
\* be because the read failed ...
Check(w, count, limit, next) ==
  /\ \/ count >= limit /\ placing' = [placing EXCEPT ![w] = Idle] /\ UNCHANGED blind
     \/ count < limit /\ placing' = [placing EXCEPT ![w] = next] /\ UNCHANGED blind
     \/ /\ count >= limit /\ blind < MaxBlind /\ blind' = blind + 1
        /\ placing' = [placing EXCEPT ![w] = next]
  /\ UNCHANGED <<channels, tenantChannels, live, tenantLive>>

ReadChannels(w) ==
  /\ placing[w].at = "idle"
  /\ \E c \in Tenants : Check(w, channels, MaxConcurrent, [at |-> "global", tenant |-> c])

ReadTenant(w) ==
  LET c == placing[w].tenant IN
  /\ placing[w].at = "global"
  /\ Check(w, tenantChannels[c], MaxConcurrentPerTenant, [at |-> "both", tenant |-> c])

\* Mutant: the tenant's counter is not incremented.
CountGlobally(w) ==
  LET c == placing[w].tenant IN
  /\ placing[w].at = "both"
  /\ channels' = channels + 1
  /\ live' = live + 1 /\ tenantLive' = [tenantLive EXCEPT ![c] = @ + 1]
  /\ placing' = [placing EXCEPT ![w] = Idle]
  /\ UNCHANGED <<tenantChannels, blind>>

\* ... and increments both, in one transaction, for the call that is placed then.
AcquireChannel(w) ==
  LET c == placing[w].tenant IN
  /\ placing[w].at = "both"
  /\ channels' = channels + 1
  /\ tenantChannels' = [tenantChannels EXCEPT ![c] = @ + 1]
  /\ live' = live + 1 /\ tenantLive' = [tenantLive EXCEPT ![c] = @ + 1]
  /\ placing' = [placing EXCEPT ![w] = Idle]
  /\ UNCHANGED blind

\* The increments fail, or were made and the answer is lost: no call is placed.
Refuse(w) ==
  LET c == placing[w].tenant IN
  /\ placing[w].at = "both"
  /\ placing' = [placing EXCEPT ![w] = Idle]
  /\ \/ UNCHANGED <<channels, tenantChannels>>
     \/ /\ channels' = channels + 1
        /\ tenantChannels' = [tenantChannels EXCEPT ![c] = @ + 1]
  /\ UNCHANGED <<live, tenantLive, blind>>

\* A call ends.  Nothing calls release_channel: its slot stays taken.
CallEnds == /\ \E c \in Tenants : /\ tenantLive[c] > 0 /\ live' = live - 1
                                   /\ tenantLive' = [tenantLive EXCEPT ![c] = @ - 1]
            /\ UNCHANGED <<channels, tenantChannels, blind, placing>>

\* A counter that no call has touched for an hour expires: by then those calls are over.
CounterExpires ==
  /\ \/ \E c \in Tenants : /\ tenantLive[c] = 0 /\ tenantChannels[c] > 0
                           /\ tenantChannels' = [tenantChannels EXCEPT ![c] = 0]
                           /\ UNCHANGED channels
     \/ /\ live = 0 /\ channels > 0 /\ channels' = 0
        /\ UNCHANGED tenantChannels
  /\ UNCHANGED <<live, tenantLive, blind, placing>>

Next == \/ \E w \in Placers : \/ ReadChannels(w) \/ ReadTenant(w)
                               \/ AcquireChannel(w) \/ Refuse(w)
        \/ CallEnds \/ CounterExpires

Spec == Init /\ [][Next]_hvars

---------------------------------------------------------------------------
TypeOK == /\ channels \in Nat /\ tenantChannels \in [Tenants -> Nat]
          /\ live \in Nat /\ tenantLive \in [Tenants -> Nat] /\ blind \in 0 .. MaxBlind
          /\ placing \in [Placers -> [at : {"idle", "global", "both"}, tenant : Tenants]]

\* However the workers' reads and increments interleave, the calls that are up exceed a
\* limit by less than the number of workers, because no slot is ever given back early (a
\* call holds one as long as it lasts, and (the leak) until the counter expires); and by
\* one more for every read that fails at a limit: "fails closed" (throttle.py:15-18) is
\* not what _count does, which finds 0 then (lines 113-117).
ChannelsHold ==
  LET slack == Cardinality(Placers) - 1 + blind
  IN /\ live <= channels /\ channels <= MaxConcurrent + slack
     /\ \A c \in Tenants : /\ tenantLive[c] <= tenantChannels[c]
                           /\ tenantChannels[c] <= MaxConcurrentPerTenant + slack
=============================================================================
