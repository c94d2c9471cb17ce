--------------------------- MODULE DependencyHealth ---------------------------
(***************************************************************************)
(* DependencyHealthMetricsService (metrics/dependency-health-metrics       *)
(* .service.ts): two interval timers, one pinging PostgreSQL and one       *)
(* Redis, each setting its gauge (app_database_up, app_redis_up) to what   *)
(* the ping found.  A timer does not wait for its previous ping, so pings  *)
(* overlap, and a slow one may be answered after a later one.              *)
(***************************************************************************)
EXTENDS Naturals, Sequences, SequencesExt

CONSTANT MaxPings  \* bound: pings to one dependency under way

ASSUME PingAssumption == MaxPings \in Nat \ {0}

Dependency == {"database", "redis"}

VARIABLES
  up,      \* Dependency -> it answers
  pings,   \* Dependency -> its pings under way, oldest first: "sent", or what
           \* they found, "ok" or "failed"
  gauge,   \* Dependency -> setDatabaseUp's, setRedisUp's last value
  timers   \* the interval timers run

probes == <<pings, gauge, timers>>
dvars == <<up, pings, gauge, timers>>

Found(b) == IF b THEN "ok" ELSE "failed"
Ping(q) == Append(q, "sent")

\* onModuleInit: one ping to each at once, then the intervals.
StartProbes ==
  /\ ~timers
  /\ timers' = TRUE
  /\ pings' = [d \in Dependency |-> Ping(pings[d])]
  /\ UNCHANGED <<up, gauge>>

\* The interval of d fires.
Fire(d) ==
  /\ timers
  /\ Len(pings[d]) < MaxPings
  /\ pings' = [pings EXCEPT ![d] = Ping(pings[d])]
  /\ UNCHANGED <<up, gauge, timers>>

\* The i-th ping gets to d, or fails to.
Reach(d, i) ==
  /\ pings[d][i] = "sent"
  /\ pings' = [pings EXCEPT ![d][i] = Found(up[d])]
  /\ UNCHANGED <<up, gauge, timers>>

\* Variant of Settle: a failed ping leaves the gauge as it is.
SettleGood(d, i) ==
  /\ pings[d][i] # "sent"
  /\ pings' = [pings EXCEPT ![d] = RemoveAt(pings[d], i)]
  /\ gauge' = [gauge EXCEPT ![d] = gauge[d] \/ pings[d][i] = "ok"]
  /\ UNCHANGED <<up, timers>>

\* Its await settles, in any order with the others.
Settle(d, i) ==
  /\ pings[d][i] # "sent"
  /\ pings' = [pings EXCEPT ![d] = RemoveAt(pings[d], i)]
  /\ gauge' = [gauge EXCEPT ![d] = (pings[d][i] = "ok")]
  /\ UNCHANGED <<up, timers>>

\* onModuleDestroy: no more pings; those under way settle.
StopProbes ==
  /\ timers' = FALSE
  /\ UNCHANGED <<up, pings, gauge>>

\* The dependency goes down or comes back.
Change(d) ==
  /\ up' = [up EXCEPT ![d] = ~up[d]]
  /\ UNCHANGED probes

DInit ==
  /\ up = [d \in Dependency |-> TRUE]
  /\ pings = [d \in Dependency |-> <<>>]
  /\ gauge = [d \in Dependency |-> FALSE]
  /\ timers = FALSE

Answer(d) == \E i \in 1..Len(pings[d]) : Reach(d, i) \/ Settle(d, i)

=============================================================================
