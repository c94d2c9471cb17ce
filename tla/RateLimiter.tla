------------------------------ MODULE RateLimiter ------------------------------
(***************************************************************************)
(* Rate limiting of one client: the global ThrottlerGuard asks, for each   *)
(* named throttler in turn, RedisThrottlerStorageService.increment, which  *)
(* keeps a hit counter and a block flag in Redis.  Every Redis command is  *)
(* an await, so requests of the client interleave between the commands of  *)
(* one increment, and each command can fail or lose its reply by itself.   *)
(***************************************************************************)
EXTENDS Integers, FiniteSets

CONSTANTS
  Route,      \* the handlers (part of every throttler key)
  Req,        \* request slots: bounds how many requests overlap
  Limit,      \* Key -> requests per window: @Throttle's, else the throttler's
  Ttl,        \* Key -> ticks a window lasts
  Block,      \* Key -> ticks a block lasts
  MaxClock,   \* bound: last tick of the modelled time
  MaxHits     \* bound: INCRs on one counter

Throttler == {"default", "auth"}
Key == Route \X Throttler

ASSUME LimitAssumption ==
  /\ Limit \in [Key -> Nat]
  /\ Ttl \in [Key -> Nat \ {0}]
  /\ Block \in [Key -> Nat]
  /\ MaxClock \in Nat /\ MaxHits \in Nat

VARIABLES
  clock,    \* ticks of Redis' clock, finer than a window
  hits,     \* Key -> value of throttle:<name>:<key>:hits, 0 when missing
  expires,  \* Key -> tick that counter is dropped, 0 when it has no TTL
  blocked,  \* Key -> tick throttle:<name>:<key>:block is dropped, 0 when missing
  pc,       \* Req -> the command the request waits for
  route,    \* Req -> its handler
  stage,    \* Req -> the throttler being asked
  total,    \* Req -> totalHits of the running increment
  log,      \* history: Key -> the INCRs within the limit: <<tick, reply>>
  touched,  \* history: Key -> tick of the last INCR or PEXPIRE
  lost      \* history: Key -> the counter lost its PEXPIRE to a failure

redis == <<hits, expires, blocked>>
locals == <<pc, route, stage, total>>
history == <<log, touched, lost>>
vars == <<clock, hits, expires, blocked, pc, route, stage, total,
          log, touched, lost>>

Waiting == {"block", "report", "hit", "expire", "count", "setblock"}
\* Waits of a request that found no block on the key it is asking about.
Past == {"hit", "expire", "count", "setblock"}

KeyOf(r) == <<route[r], stage[r]>>
PastBlock(k) == {r \in Req : KeyOf(r) = k /\ pc[r] \in Past}
\* A PEXPIRE for k is under way.
Expiring(k) == \E r \in Req : KeyOf(r) = k /\ pc[r] = "expire"

Longer(a, b) == IF a >= b THEN a ELSE b
\* Variants of the three tests: one request too many passes the limit, no
\* counter is given a TTL, and a block is not looked at.
OverLimitByOne(k, n) == n > Limit[k] + 1
NeverFirst(n) == n = 0
BlockIgnored(k) == FALSE

OverLimit(k, n) == n > Limit[k]
FirstHit(n) == n = 1
IsBlocked(k) == blocked[k] > clock

Goto(r, where) == pc' = [pc EXCEPT ![r] = where]
\* The request leaves the guard: on to its handler, or answered 429 or 500.
Finish(r) == /\ Goto(r, "idle")
             /\ stage' = [stage EXCEPT ![r] = "default"]
             /\ total' = [total EXCEPT ![r] = 0]
             /\ UNCHANGED route

----------------------------------------------------------------------------
\* The guard: one increment per throttler, the first refusal wins

\* A request for a handler that is not exempted by SkipThrottle.
Arrive(r, h) ==
  /\ pc[r] = "idle"
  /\ Goto(r, "block")
  /\ route' = [route EXCEPT ![r] = h]
  /\ UNCHANGED <<clock, redis, stage, total, history>>

\* Variant of After: the second throttler is looked up under a wrong name.
AfterMisnamed == "Auth"
\* The throttler asked after "default".
After == "auth"

\* The increment answered "not blocked": ask the next throttler or go on.
Pass(r) ==
  \/ /\ stage[r] = "default"
     /\ stage' = [stage EXCEPT ![r] = After]
     /\ total' = [total EXCEPT ![r] = 0]
     /\ Goto(r, "block")
     /\ UNCHANGED route
  \/ /\ stage[r] = "auth"
     /\ Finish(r)

----------------------------------------------------------------------------
\* increment, one action per Redis command

\* PTTL of the block key.
BlockTtl(r) ==
  /\ pc[r] = "block"
  /\ Goto(r, IF IsBlocked(KeyOf(r)) THEN "report" ELSE "hit")
  /\ UNCHANGED <<clock, redis, route, stage, total, history>>

\* The reads that only fill in the headers of the 429.
Report(r) ==
  /\ pc[r] = "report"
  /\ Finish(r)
  /\ UNCHANGED <<clock, redis, history>>

\* What INCR does to the counter k.
Count(k) ==
  /\ hits[k] < MaxHits
  /\ hits' = [hits EXCEPT ![k] = @ + 1]
  /\ touched' = [touched EXCEPT ![k] = clock]
  /\ UNCHANGED <<clock, expires, blocked>>

Increment(r) ==
  LET k == KeyOf(r)
      n == hits[k] + 1 IN
  /\ pc[r] = "hit"
  /\ Count(k)
  /\ total' = [total EXCEPT ![r] = n]
  /\ Goto(r, IF FirstHit(n) THEN "expire" ELSE "count")
  /\ log' = IF OverLimit(k, n) THEN log
            ELSE [log EXCEPT ![k] = @ \cup {<<clock, n>>}]
  /\ UNCHANGED <<route, stage, lost>>

\* INCR takes effect and its reply is lost; the socket client sends it again
\* (maxRetriesPerRequest), or the request fails.
IncrementUnacknowledged(r) ==
  LET k == KeyOf(r) IN
  /\ pc[r] = "hit"
  /\ Count(k)
  /\ lost' = [lost EXCEPT ![k] = @ \/ hits[k] = 0]
  /\ UNCHANGED <<locals, log>>

\* What PEXPIRE does: nothing when the counter is gone.
SetExpiry(k) ==
  /\ IF hits[k] > 0
     THEN /\ expires' = [expires EXCEPT ![k] = clock + Ttl[k]]
          /\ touched' = [touched EXCEPT ![k] = clock]
          /\ lost' = [lost EXCEPT ![k] = FALSE]
     ELSE UNCHANGED <<expires, touched, lost>>
  /\ UNCHANGED <<clock, hits, blocked, log>>

Expire(r) ==
  /\ pc[r] = "expire"
  /\ SetExpiry(KeyOf(r))
  /\ Goto(r, "count")
  /\ UNCHANGED <<route, stage, total>>

ExpireUnacknowledged(r) ==
  /\ pc[r] = "expire"
  /\ SetExpiry(KeyOf(r))
  /\ UNCHANGED locals

\* PTTL of the counter, then the comparison with the limit.
Compare(r) ==
  /\ pc[r] = "count"
  /\ \/ /\ OverLimit(KeyOf(r), total[r])
        /\ Goto(r, "setblock")
        /\ UNCHANGED <<route, stage, total>>
     \/ /\ ~OverLimit(KeyOf(r), total[r])
        /\ Pass(r)
  /\ UNCHANGED <<clock, redis, history>>

\* SET block EX max(ceil(blockDuration / 1000), 1).
Blocking(r) ==
  blocked' = [blocked EXCEPT ![KeyOf(r)] = clock + Longer(Block[KeyOf(r)], 1)]

SetBlock(r) ==
  /\ pc[r] = "setblock"
  /\ Blocking(r)
  /\ Goto(r, "report")
  /\ UNCHANGED <<clock, hits, expires, route, stage, total, history>>

SetBlockUnacknowledged(r) ==
  /\ pc[r] = "setblock"
  /\ Blocking(r)
  /\ UNCHANGED <<clock, hits, expires, locals, history>>

\* A command rejects: the guard throws and the request is answered 500.
Fail(r) ==
  /\ pc[r] \in Waiting
  /\ lost' = [lost EXCEPT ![KeyOf(r)] =
       @ \/ (pc[r] = "expire" /\ expires[KeyOf(r)] = 0)]
  /\ Finish(r)
  /\ UNCHANGED <<clock, redis, log, touched>>

\* Redis drops what has run out by the next tick.
Lapsed(k) == expires[k] # 0 /\ expires[k] <= clock + 1
Tick ==
  /\ clock < MaxClock
  /\ clock' = clock + 1
  /\ hits' = [k \in Key |-> IF Lapsed(k) THEN 0 ELSE hits[k]]
  /\ expires' = [k \in Key |-> IF Lapsed(k) THEN 0 ELSE expires[k]]
  /\ lost' = [k \in Key |-> lost[k] /\ ~Lapsed(k)]
  /\ blocked' = [k \in Key |-> IF blocked[k] <= clock + 1 THEN 0 ELSE blocked[k]]
  /\ UNCHANGED <<locals, log, touched>>

----------------------------------------------------------------------------
Init ==
  /\ clock = 0
  /\ hits = [k \in Key |-> 0]
  /\ expires = [k \in Key |-> 0]
  /\ blocked = [k \in Key |-> 0]
  /\ pc = [r \in Req |-> "idle"]
  /\ route \in [Req -> Route]
  /\ stage = [r \in Req |-> "default"]
  /\ total = [r \in Req |-> 0]
  /\ log = [k \in Key |-> {}]
  /\ touched = [k \in Key |-> 0]
  /\ lost = [k \in Key |-> FALSE]

Proceed(r) == \/ BlockTtl(r) \/ Report(r) \/ Increment(r) \/ Expire(r)
              \/ Compare(r) \/ SetBlock(r)
Disturb(r) == \/ IncrementUnacknowledged(r) \/ ExpireUnacknowledged(r)
              \/ SetBlockUnacknowledged(r) \/ Fail(r)

Next ==
  \/ \E r \in Req : (\E h \in Route : Arrive(r, h)) \/ Proceed(r) \/ Disturb(r)
  \/ Tick

Spec == Init /\ [][Next]_vars

----------------------------------------------------------------------------
\* Properties

\* The variables hold what they are declared to hold.
TypeOK ==
  /\ clock \in 0..MaxClock
  /\ hits \in [Key -> Nat]
  /\ expires \in [Key -> Nat]
  /\ blocked \in [Key -> Nat]
  /\ pc \in [Req -> Waiting \cup {"idle"}]
  /\ route \in [Req -> Route]
  /\ stage \in [Req -> Throttler]
  /\ total \in [Req -> Nat]
  /\ log \in [Key -> SUBSET ((0..MaxClock) \X Nat)]
  /\ touched \in [Key -> Nat]
  /\ lost \in [Key -> BOOLEAN]

\* INCRs on k that were within the limit, in the ticks from..to.  No two have
\* the same tick and reply: a counter only starts again with a later tick.
Within(k, from, to) == {i \in log[k] : i[1] \in from..to}

\* In any stretch of one window's length at most twice the limit get past a
\* counter, in whatever order the commands of overlapping requests, their
\* failures and the expiry of the counter fall (increment 36-44).
WindowBound ==
  \A k \in Key, c \in 0..MaxClock :
    Cardinality(Within(k, c, c + Ttl[k] - 1)) <= 2 * Limit[k]

\* A counter nobody touches is gone after one window, so the client starts
\* afresh, unless a failure took its PEXPIRE away (increment 38-40).
CountersFade ==
  \A k \in Key : hits[k] > 0 =>
    lost[k] \/ Expiring(k) \/ clock < touched[k] + Ttl[k]

\* While a block stands and no request that read the key before it is left,
\* nothing is counted or let past on that key (increment 25-34).
BlockFreezesCounter ==
  [][\A k \in Key :
       (blocked[k] > clock /\ blocked'[k] > clock' /\ PastBlock(k) = {})
         => PastBlock(k)' = {} /\ hits'[k] <= hits[k]]_vars

\* "Too many requests. Please try again later.": a counter nobody touches is
\* gone after one window, whatever failed.
LaterIsPossible ==
  \A k \in Key : hits[k] > 0 =>
    Expiring(k) \/ clock < touched[k] + Ttl[k]

=============================================================================
