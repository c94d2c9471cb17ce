--------------------------- MODULE RateLimiterProofs ---------------------------
(***************************************************************************)
(* Theorems about RateLimiter, for any routes, limits, windows and blocks  *)
(* and any number of overlapping requests of the client.                   *)
(***************************************************************************)
EXTENDS RateLimiter, FiniteSetTheorems, FunctionTheorems, TLAPS

\* Why counters fade: a counter that exists either runs out within a window
\* of the last command on it, or its PEXPIRE is still to come, or was lost.
Fades(k) ==
  /\ touched[k] <= clock
  /\ hits[k] = 0 => expires[k] = 0
  /\ expires[k] # 0 => clock < expires[k] /\ expires[k] <= touched[k] + Ttl[k]
  /\ (hits[k] > 0 /\ expires[k] = 0) => lost[k] \/ Expiring(k)

Fading == \A k \in Key : Fades(k)

Inv == TypeOK /\ Fading

LEMMA KeyTyped == ASSUME TypeOK, NEW r \in Req PROVE KeyOf(r) \in Key
BY DEF TypeOK, KeyOf, Key

\* A step of r to where keeps every other request on its key.
LEMMA StillExpiring ==
  ASSUME TypeOK, NEW r \in Req, NEW k \in Key, Expiring(k), pc[r] # "expire",
         NEW where, pc' = [pc EXCEPT ![r] = where],
         \A q \in Req \ {r} : route'[q] = route[q] /\ stage'[q] = stage[q]
  PROVE  Expiring(k)'
<1>1. PICK q \in Req : KeyOf(q) = k /\ pc[q] = "expire"
  BY DEF Expiring
<1>2. q # r
  BY <1>1
<1>3. pc'[q] = "expire" /\ route'[q] = route[q] /\ stage'[q] = stage[q]
  BY <1>1, <1>2 DEF TypeOK
<1>4. KeyOf(q)' = k
  BY <1>1, <1>3 DEF KeyOf
<1> QED
  BY <1>3, <1>4 DEF Expiring

LEMMA InvInit == Init => Inv
<1> SUFFICES ASSUME Init PROVE Inv
  OBVIOUS
<1>1. TypeOK
  BY LimitAssumption DEF Init, TypeOK, Throttler
<1>2. Fading
  BY DEF Init, Fading, Fades
<1> QED
  BY <1>1, <1>2 DEF Inv

----------------------------------------------------------------------------
(* Types *)

LEMMA TypeStep ==
  ASSUME TypeOK, [Next]_vars
  PROVE  TypeOK'
<1> USE LimitAssumption
<1>1. CASE UNCHANGED vars
  BY <1>1 DEF TypeOK, vars
<1>2. CASE Tick
  <2>1. clock' \in 0..MaxClock
    BY <1>2 DEF Tick, TypeOK
  <2>2. /\ hits' \in [Key -> Nat] /\ expires' \in [Key -> Nat]
        /\ lost' \in [Key -> BOOLEAN] /\ blocked' \in [Key -> Nat]
    BY <1>2 DEF Tick, TypeOK
  <2> QED
    BY <1>2, <2>1, <2>2 DEF Tick, TypeOK, locals
<1>3. ASSUME NEW r \in Req, NEW h \in Route, Arrive(r, h)
      PROVE TypeOK'
  BY <1>3 DEF Arrive, TypeOK, Waiting, Goto, redis, history
<1>4. ASSUME NEW r \in Req, Proceed(r) \/ Disturb(r)
      PROVE TypeOK'
  <2> DEFINE k == KeyOf(r)
  <2>0. k \in Key
    BY KeyTyped
  <2> HIDE DEF k
  <2>1. CASE BlockTtl(r)
    BY <2>1 DEF BlockTtl, TypeOK, Waiting, Goto, redis, history
  <2>2. CASE Report(r)
    BY <2>2 DEF Report, Finish, TypeOK, Waiting, Goto, redis, history, Throttler
  <2>3. CASE Increment(r)
    <3>1. /\ hits' = [hits EXCEPT ![k] = hits[k] + 1]
          /\ touched' = [touched EXCEPT ![k] = clock]
          /\ total' = [total EXCEPT ![r] = hits[k] + 1]
      BY <2>3 DEF Increment, Count, k
    <3>2. log' = log \/ log' = [log EXCEPT ![k] = log[k] \cup {<<clock, hits[k] + 1>>}]
      BY <2>3 DEF Increment, k
    <3>3. log' \in [Key -> SUBSET ((0..MaxClock) \X Nat)]
      <4>1. log[k] \cup {<<clock, hits[k] + 1>>} \in SUBSET ((0..MaxClock) \X Nat)
        BY <2>0 DEF TypeOK
      <4> QED
        BY <2>0, <3>2, <4>1 DEF TypeOK
    <3>4. pc' \in [Req -> Waiting \cup {"idle"}]
      BY <2>3 DEF Increment, Goto, TypeOK, Waiting
    <3>5. UNCHANGED <<clock, expires, blocked, route, stage, lost>>
      BY <2>3 DEF Increment, Count
    <3>6. hits[k] + 1 \in Nat /\ clock \in Nat
      BY <2>0 DEF TypeOK
    <3>7. /\ hits' \in [Key -> Nat] /\ touched' \in [Key -> Nat]
          /\ total' \in [Req -> Nat]
      BY <2>0, <3>1, <3>6 DEF TypeOK
    <3> QED
      BY <3>3, <3>4, <3>5, <3>7 DEF TypeOK
  <2>4. CASE IncrementUnacknowledged(r)
    <3>1. /\ hits' = [hits EXCEPT ![k] = hits[k] + 1]
          /\ touched' = [touched EXCEPT ![k] = clock]
          /\ lost' = [lost EXCEPT ![k] = lost[k] \/ hits[k] = 0]
          /\ UNCHANGED <<clock, expires, blocked, locals, log>>
      BY <2>4 DEF IncrementUnacknowledged, Count, k
    <3>2. hits[k] + 1 \in Nat /\ clock \in Nat
      BY <2>0 DEF TypeOK
    <3>3. hits' \in [Key -> Nat] /\ touched' \in [Key -> Nat]
      BY <2>0, <3>1, <3>2 DEF TypeOK
    <3>4. lost' \in [Key -> BOOLEAN]
      BY <2>0, <3>1 DEF TypeOK
    <3> QED
      BY <3>1, <3>3, <3>4 DEF TypeOK, locals
  <2>5. CASE Expire(r) \/ ExpireUnacknowledged(r)
    <3>1. SetExpiry(k) /\ UNCHANGED <<route, stage, total>>
      BY <2>5 DEF Expire, ExpireUnacknowledged, locals, k
    <3>2. /\ expires' \in [Key -> Nat] /\ touched' \in [Key -> Nat]
          /\ lost' \in [Key -> BOOLEAN]
      <4>1. clock + Ttl[k] \in Nat /\ clock \in Nat
        BY <2>0 DEF TypeOK
      <4>2. CASE hits[k] > 0
        BY <2>0, <3>1, <4>1, <4>2 DEF SetExpiry, TypeOK
      <4>3. CASE ~(hits[k] > 0)
        BY <3>1, <4>3 DEF SetExpiry, TypeOK
      <4> QED
        BY <4>2, <4>3
    <3>3. pc' \in [Req -> Waiting \cup {"idle"}]
      BY <2>5 DEF Expire, ExpireUnacknowledged, Goto, TypeOK, Waiting, locals
    <3> QED
      BY <3>1, <3>2, <3>3 DEF SetExpiry, TypeOK
  <2>6. CASE Compare(r)
    <3>1. /\ pc' \in [Req -> Waiting \cup {"idle"}]
          /\ stage' \in [Req -> Throttler] /\ total' \in [Req -> Nat]
          /\ UNCHANGED route
      <4>1. CASE Pass(r)
        <5>1. CASE stage[r] = "default"
          <6>1. /\ pc' = [pc EXCEPT ![r] = "block"]
                /\ stage' = [stage EXCEPT ![r] = "auth"]
                /\ total' = [total EXCEPT ![r] = 0] /\ UNCHANGED route
            BY <4>1, <5>1 DEF Pass, Goto, After
          <6>2. pc' \in [Req -> Waiting \cup {"idle"}]
            BY <6>1 DEF TypeOK, Waiting
          <6>3. stage' \in [Req -> Throttler]
            BY <6>1 DEF TypeOK, Throttler
          <6> QED
            BY <6>1, <6>2, <6>3 DEF TypeOK
        <5>2. CASE stage[r] = "auth"
          <6>1. Finish(r)
            BY <4>1, <5>2 DEF Pass
          <6> QED
            BY <6>1 DEF Finish, TypeOK, Goto, Throttler
        <5> QED
          BY <4>1, <5>1, <5>2 DEF Pass
      <4>2. CASE Goto(r, "setblock") /\ UNCHANGED <<route, stage, total>>
        BY <4>2 DEF TypeOK, Waiting, Goto
      <4> QED
        BY <2>6, <4>1, <4>2 DEF Compare
    <3> QED
      BY <2>6, <3>1 DEF Compare, TypeOK, redis, history
  <2>7. CASE SetBlock(r) \/ SetBlockUnacknowledged(r)
    <3>1. blocked' = [blocked EXCEPT ![k] = clock + Longer(Block[k], 1)]
      BY <2>7 DEF SetBlock, SetBlockUnacknowledged, Blocking, k
    <3>2. blocked' \in [Key -> Nat]
      BY <2>0, <3>1 DEF TypeOK, Longer
    <3>3. pc' \in [Req -> Waiting \cup {"idle"}]
      BY <2>7 DEF SetBlock, SetBlockUnacknowledged, Goto, TypeOK, Waiting, locals
    <3> QED
      BY <2>7, <3>2, <3>3 DEF SetBlock, SetBlockUnacknowledged, TypeOK, locals, history
  <2>8. CASE Fail(r)
    BY <2>0, <2>8 DEF Fail, Finish, TypeOK, Goto, redis, Throttler, k
  <2> QED
    BY <1>4, <2>1, <2>2, <2>3, <2>4, <2>5, <2>6, <2>7, <2>8 DEF Proceed, Disturb
<1> QED
  BY <1>1, <1>2, <1>3, <1>4 DEF Next

\* The client's variables hold what they are declared to hold.
THEOREM LimiterTypeCorrect == Spec => []TypeOK
<1>1. Init => TypeOK
  BY InvInit DEF Inv
<1>2. TypeOK /\ [Next]_vars => TypeOK'
  BY TypeStep
<1> QED
  BY <1>1, <1>2, PTL DEF Spec

----------------------------------------------------------------------------
(* Counters fade *)

LEMMA FadingStep ==
  ASSUME TypeOK, Fading, [Next]_vars
  PROVE  Fading'
<1> USE LimitAssumption
<1> SUFFICES ASSUME NEW k \in Key PROVE Fades(k)'
  BY DEF Fading
<1>0. Fades(k)
  BY DEF Fading
<1>t. /\ clock \in Nat /\ hits[k] \in Nat /\ expires[k] \in Nat
      /\ touched[k] \in Nat /\ lost[k] \in BOOLEAN
      /\ Ttl[k] \in Nat /\ Ttl[k] > 0
  BY DEF TypeOK
<1>1. CASE UNCHANGED vars
  BY <1>0, <1>1 DEF vars, Fades, Expiring, KeyOf
<1>2. CASE Tick
  <2>1. Expiring(k)' = Expiring(k)
    BY <1>2 DEF Tick, locals, Expiring, KeyOf
  <2> QED
    BY <1>0, <1>2, <1>t, <2>1 DEF Tick, Lapsed, Fades
<1>3. ASSUME NEW r \in Req, NEW h \in Route, Arrive(r, h)
      PROVE Fades(k)'
  <2>1. Expiring(k) => Expiring(k)'
    <3>1. pc[r] # "expire" /\ pc' = [pc EXCEPT ![r] = "block"]
      BY <1>3 DEF Arrive, Goto
    <3>2. \A q \in Req \ {r} : route'[q] = route[q] /\ stage'[q] = stage[q]
      BY <1>3 DEF Arrive, TypeOK
    <3> QED
      BY <3>1, <3>2, StillExpiring
  <2> QED
    BY <1>0, <1>3, <2>1 DEF Arrive, redis, history, Fades
<1>4. ASSUME NEW r \in Req, Proceed(r) \/ Disturb(r)
      PROVE Fades(k)'
  <2> DEFINE own == KeyOf(r)
  <2>0. own \in Key
    BY KeyTyped
  <2>k. Expiring(k) => Expiring(k)' \/ (own = k /\ pc[r] = "expire")
    <3> SUFFICES ASSUME Expiring(k), ~(own = k /\ pc[r] = "expire")
                 PROVE  Expiring(k)'
      OBVIOUS
    <3>1. PICK q \in Req : KeyOf(q) = k /\ pc[q] = "expire"
      BY DEF Expiring
    <3>2. q # r
      BY <3>1
    <3>3. pc'[q] = pc[q] /\ route'[q] = route[q] /\ stage'[q] = stage[q]
      BY <1>4, <3>2
         DEF Proceed, Disturb, BlockTtl, Report, Increment, IncrementUnacknowledged,
             Expire, ExpireUnacknowledged, Compare, Pass, SetBlock,
             SetBlockUnacknowledged, Fail, Goto, Finish, TypeOK, locals
    <3> QED
      BY <3>1, <3>3 DEF Expiring, KeyOf
  <2> HIDE DEF own
  <2>1. CASE BlockTtl(r) \/ Report(r) \/ Compare(r)
    BY <1>0, <2>1, <2>k DEF BlockTtl, Report, Compare, redis, history, Fades
  <2>2. CASE Increment(r)
    <3>1. /\ hits' = [hits EXCEPT ![own] = hits[own] + 1]
          /\ touched' = [touched EXCEPT ![own] = clock]
          /\ UNCHANGED <<clock, expires, lost>>
      BY <2>2 DEF Increment, Count, own
    <3>2. CASE own = k
      <4>1. hits[k] = 0 => Expiring(k)'
        <5>1. hits[k] = 0 => pc'[r] = "expire"
          BY <2>2, <3>2, <1>t DEF Increment, FirstHit, Goto, TypeOK, own
        <5>2. KeyOf(r)' = k
          BY <2>2, <3>2 DEF Increment, KeyOf, own
        <5> QED
          BY <5>1, <5>2 DEF Expiring
      <4>2. pc[r] # "expire"
        BY <2>2 DEF Increment
      <4>3. hits'[k] = hits[k] + 1 /\ touched'[k] = clock
        BY <2>0, <3>1, <3>2 DEF TypeOK
      <4> QED
        BY <1>0, <1>t, <2>k, <3>1, <4>1, <4>2, <4>3 DEF Fades
    <3>3. CASE own # k
      <4>1. hits'[k] = hits[k] /\ touched'[k] = touched[k]
        BY <3>1, <3>3 DEF TypeOK
      <4> QED
        BY <1>0, <2>k, <3>1, <3>3, <4>1 DEF Fades
    <3> QED
      BY <3>2, <3>3
  <2>3. CASE IncrementUnacknowledged(r)
    <3>1. /\ hits' = [hits EXCEPT ![own] = hits[own] + 1]
          /\ touched' = [touched EXCEPT ![own] = clock]
          /\ lost' = [lost EXCEPT ![own] = lost[own] \/ hits[own] = 0]
          /\ UNCHANGED <<clock, expires>>
      BY <2>3 DEF IncrementUnacknowledged, Count, own
    <3>2. pc[r] # "expire"
      BY <2>3 DEF IncrementUnacknowledged
    <3>3. CASE own = k
      <4>1. hits'[k] = hits[k] + 1 /\ touched'[k] = clock
        BY <2>0, <3>1, <3>3 DEF TypeOK
      <4>2. lost[k] \/ hits[k] = 0 => lost'[k]
        BY <2>0, <3>1, <3>3 DEF TypeOK
      <4> QED
        BY <1>0, <1>t, <2>k, <3>1, <3>2, <4>1, <4>2 DEF Fades
    <3>4. CASE own # k
      <4>1. hits'[k] = hits[k] /\ touched'[k] = touched[k] /\ lost'[k] = lost[k]
        BY <3>1, <3>4 DEF TypeOK
      <4> QED
        BY <1>0, <2>k, <3>1, <3>2, <4>1 DEF Fades
    <3> QED
      BY <3>3, <3>4
  <2>4. CASE Expire(r) \/ ExpireUnacknowledged(r)
    <3>1. SetExpiry(own)
      BY <2>4 DEF Expire, ExpireUnacknowledged, own
    <3>2. CASE own = k
      <4>1. CASE hits[k] > 0
        <5>1. expires'[k] = clock + Ttl[k] /\ touched'[k] = clock
          BY <2>0, <3>1, <3>2, <4>1 DEF SetExpiry, TypeOK
        <5> QED
          BY <1>t, <3>1, <4>1, <5>1 DEF SetExpiry, Fades
      <4>2. CASE hits[k] = 0
        BY <1>0, <1>t, <3>1, <3>2, <4>2 DEF SetExpiry, Fades
      <4> QED
        BY <1>t, <4>1, <4>2
    <3>3. CASE own # k
      <4>1. /\ expires'[k] = expires[k] /\ touched'[k] = touched[k]
            /\ lost'[k] = lost[k]
        BY <3>1, <3>3 DEF SetExpiry, TypeOK
      <4> QED
        BY <1>0, <2>k, <3>1, <3>3, <4>1 DEF SetExpiry, Fades
    <3> QED
      BY <3>2, <3>3
  <2>5. CASE SetBlock(r) \/ SetBlockUnacknowledged(r)
    BY <1>0, <2>5, <2>k DEF SetBlock, SetBlockUnacknowledged, history, Fades
  <2>6. CASE Fail(r)
    <3>1. /\ UNCHANGED <<clock, hits, expires, touched>>
          /\ lost' = [lost EXCEPT ![own] =
                        lost[own] \/ (pc[r] = "expire" /\ expires[own] = 0)]
      BY <2>6 DEF Fail, redis, own
    <3>2. lost[k] => lost'[k]
      BY <2>0, <3>1 DEF TypeOK
    <3>3. (own = k /\ pc[r] = "expire" /\ expires[k] = 0) => lost'[k]
      BY <2>0, <3>1 DEF TypeOK
    <3> QED
      BY <1>0, <2>k, <3>1, <3>2, <3>3 DEF Fades
  <2> QED
    BY <1>4, <2>1, <2>2, <2>3, <2>4, <2>5, <2>6 DEF Proceed, Disturb
<1> QED
  BY <1>1, <1>2, <1>3, <1>4 DEF Next

\* A counter that no failure robbed of its PEXPIRE is gone one window after
\* the last command on it.
THEOREM CountersRunOut == Spec => []CountersFade
<1>1. Init => Inv
  BY InvInit
<1>2. Inv /\ [Next]_vars => Inv'
  BY TypeStep, FadingStep DEF Inv
<1>3. Inv => CountersFade
  <2> SUFFICES ASSUME Inv, NEW k \in Key, hits[k] > 0
               PROVE  lost[k] \/ Expiring(k) \/ clock < touched[k] + Ttl[k]
    BY DEF CountersFade
  <2>1. Fades(k)
    BY DEF Inv, Fading
  <2>2. /\ clock \in Nat /\ expires[k] \in Nat /\ touched[k] \in Nat
        /\ Ttl[k] \in Nat
    BY LimitAssumption DEF Inv, TypeOK
  <2> QED
    BY <2>1, <2>2 DEF Fades
<1> QED
  BY <1>1, <1>2, <1>3, PTL DEF Spec

----------------------------------------------------------------------------
(* A block freezes its counter *)

LEMMA FreezeStep ==
  ASSUME TypeOK, [Next]_vars, NEW k \in Key,
         blocked[k] > clock, PastBlock(k) = {}
  PROVE  PastBlock(k)' = {} /\ hits'[k] <= hits[k]
<1>0. \A q \in Req : pc[q] \in Past => KeyOf(q) # k
  BY DEF PastBlock
<1>t. hits[k] \in Nat
  BY DEF TypeOK
<1> SUFFICES (\A q \in Req : pc'[q] \in Past => KeyOf(q)' # k) /\ hits'[k] <= hits[k]
  BY DEF PastBlock
<1>1. CASE UNCHANGED vars
  BY <1>0, <1>1, <1>t DEF vars, KeyOf
<1>2. CASE Tick
  BY <1>0, <1>2, <1>t DEF Tick, KeyOf, locals
<1>3. ASSUME NEW r \in Req, NEW h \in Route, Arrive(r, h)
      PROVE (\A q \in Req : pc'[q] \in Past => KeyOf(q)' # k) /\ hits'[k] <= hits[k]
  <2>1. \A q \in Req \ {r} : /\ pc'[q] = pc[q]
                             /\ route'[q] = route[q] /\ stage'[q] = stage[q]
    BY <1>3 DEF Arrive, Goto, TypeOK
  <2>2. pc'[r] \notin Past
    BY <1>3 DEF Arrive, Goto, TypeOK, Past
  <2> QED
    BY <1>0, <1>3, <1>t, <2>1, <2>2 DEF Arrive, redis, KeyOf
<1>4. ASSUME NEW r \in Req, Proceed(r) \/ Disturb(r)
      PROVE (\A q \in Req : pc'[q] \in Past => KeyOf(q)' # k) /\ hits'[k] <= hits[k]
  <2>1. \A q \in Req \ {r} : /\ pc'[q] = pc[q]
                             /\ route'[q] = route[q] /\ stage'[q] = stage[q]
    BY <1>4 DEF Proceed, Disturb, BlockTtl, Report, Increment, IncrementUnacknowledged,
             Expire, ExpireUnacknowledged, Compare, Pass, SetBlock,
             SetBlockUnacknowledged, Fail, Goto, Finish, TypeOK, locals
  <2>2. \A q \in Req \ {r} : pc'[q] \in Past => KeyOf(q)' # k
    BY <1>0, <2>1 DEF KeyOf
  <2>3. pc'[r] \in Past => KeyOf(r)' = KeyOf(r) /\ (pc[r] \in Past \/ BlockTtl(r))
    BY <1>4 DEF Proceed, Disturb, BlockTtl, Report, Increment, IncrementUnacknowledged,
             Expire, ExpireUnacknowledged, Compare, Pass, SetBlock, Past,
             SetBlockUnacknowledged, Fail, Goto, Finish, TypeOK, locals, KeyOf
  <2>4. (pc'[r] \in Past /\ BlockTtl(r)) => KeyOf(r) # k
    BY DEF BlockTtl, Goto, Past, TypeOK, IsBlocked
  <2>5. hits'[k] <= hits[k]
    <3>1. hits' = hits \/ (KeyOf(r) # k /\ Count(KeyOf(r)))
      BY <1>0, <1>4
         DEF Proceed, Disturb, BlockTtl, Report, Increment, IncrementUnacknowledged,
             Expire, ExpireUnacknowledged, Compare, SetBlock, SetExpiry, Past,
             SetBlockUnacknowledged, Fail, redis
    <3> QED
      BY <3>1, <1>t DEF Count, TypeOK
  <2> QED
    BY <1>0, <2>2, <2>3, <2>4, <2>5
<1> QED
  BY <1>1, <1>2, <1>3, <1>4 DEF Next

\* While a block stands, once the requests that read the key before it are
\* gone, the key counts and admits nothing.
THEOREM BlocksHold == Spec => BlockFreezesCounter
<1>1. TypeOK /\ [Next]_vars =>
        [\A k \in Key :
           (blocked[k] > clock /\ blocked'[k] > clock' /\ PastBlock(k) = {})
             => PastBlock(k)' = {} /\ hits'[k] <= hits[k]]_vars
  BY FreezeStep
<1> QED
  BY <1>1, LimiterTypeCorrect, PTL DEF Spec, BlockFreezesCounter

----------------------------------------------------------------------------
(* Twice the limit in one window's length *)

\* No two replies are the same: they come from one life of the counter.
Distinct(S) == \A g, h \in S : g[2] = h[2] => g = h

\* What is logged is past, and within the limit.
Logged(k) == \A h \in log[k] : h \in (0..clock) \X (1..Limit[k])

\* The present life of the counter k began in tick f; a counter that is
\* missing begins now.  The last window before f saw one life at most.
Since(k, f) ==
  /\ f <= clock
  /\ hits[k] = 0 => f = clock
  /\ expires[k] # 0 => f + Ttl[k] <= expires[k]
  /\ Distinct({h \in log[k] : f <= h[1]})
  /\ \A h \in log[k] : f <= h[1] => h[2] <= hits[k]
  /\ Distinct({h \in log[k] : f - Ttl[k] < h[1] /\ h[1] < f})

\* The window from c on saw two lives at most.
TwoLives(k, c) ==
  \E f \in Nat : /\ Distinct({h \in Within(k, c, c + Ttl[k] - 1) : h[1] < f})
                 /\ Distinct({h \in Within(k, c, c + Ttl[k] - 1) : f <= h[1]})

Lives == \A k \in Key : /\ Logged(k)
                        /\ \E f \in Nat : Since(k, f)
                        /\ \A c \in Nat : TwoLives(k, c)

LEMMA LivesInit == Init => Lives
<1> SUFFICES ASSUME Init, NEW k \in Key
             PROVE  Logged(k) /\ Since(k, 0) /\ \A c \in Nat : TwoLives(k, c)
  BY DEF Lives
<1>1. log[k] = {} /\ clock = 0 /\ hits[k] = 0 /\ expires[k] = 0
  BY DEF Init
<1>2. Logged(k) /\ Since(k, 0)
  BY <1>1 DEF Logged, Since, Distinct
<1>3. \A c \in Nat : TwoLives(k, c)
  BY <1>1 DEF TwoLives, Within, Distinct
<1> QED BY <1>2, <1>3

\* The commands change a key in one of three ways.
LEMMA KeyStep ==
  ASSUME TypeOK, NEW k \in Key, NEW r \in Req, Proceed(r) \/ Disturb(r)
  PROVE  /\ clock' = clock
         /\ \/ hits'[k] = hits[k] /\ expires'[k] = expires[k] /\ log'[k] = log[k]
            \/ /\ hits'[k] = hits[k] + 1 /\ expires'[k] = expires[k]
               /\ \/ log'[k] = log[k]
                  \/ /\ ~OverLimit(k, hits[k] + 1)
                     /\ log'[k] = log[k] \cup {<<clock, hits[k] + 1>>}
            \/ /\ hits'[k] = hits[k] /\ log'[k] = log[k] /\ hits[k] > 0
               /\ expires'[k] = clock + Ttl[k]
<1> DEFINE own == KeyOf(r)
<1>0. own \in Key
  BY KeyTyped
<1> HIDE DEF own
<1>1. CASE BlockTtl(r) \/ Report(r) \/ Compare(r) \/ SetBlock(r)
           \/ SetBlockUnacknowledged(r) \/ Fail(r)
  BY <1>1 DEF BlockTtl, Report, Compare, SetBlock, SetBlockUnacknowledged, Fail, redis, history
<1>2. CASE Increment(r)
  <2>1. /\ hits' = [hits EXCEPT ![own] = hits[own] + 1]
        /\ UNCHANGED <<clock, expires>>
        /\ \/ log' = log
           \/ /\ ~OverLimit(own, hits[own] + 1)
              /\ log' = [log EXCEPT ![own] = log[own] \cup {<<clock, hits[own] + 1>>}]
    BY <1>2 DEF Increment, Count, own
  <2> QED BY <1>0, <2>1 DEF TypeOK
<1>3. CASE IncrementUnacknowledged(r)
  <2>1. /\ hits' = [hits EXCEPT ![own] = hits[own] + 1]
        /\ UNCHANGED <<clock, expires, log>>
    BY <1>3 DEF IncrementUnacknowledged, Count, own
  <2> QED BY <1>0, <2>1 DEF TypeOK
<1>4. CASE Expire(r) \/ ExpireUnacknowledged(r)
  <2>1. /\ UNCHANGED <<clock, hits, log>>
        /\ \/ hits[own] > 0 /\ expires' = [expires EXCEPT ![own] = clock + Ttl[own]]
           \/ expires' = expires
    BY <1>4 DEF Expire, ExpireUnacknowledged, SetExpiry, own
  <2> QED BY <1>0, <2>1 DEF TypeOK
<1> QED BY <1>1, <1>2, <1>3, <1>4 DEF Proceed, Disturb

\* A reply within the limit is added to the present life.
LEMMA LivesIncrement ==
  ASSUME TypeOK, NEW k \in Key, Logged(k), NEW f \in Nat, Since(k, f),
         \A c \in Nat : TwoLives(k, c),
         clock' = clock, expires'[k] = expires[k], hits'[k] = hits[k] + 1,
         ~OverLimit(k, hits[k] + 1), log'[k] = log[k] \cup {<<clock, hits[k] + 1>>}
  PROVE  Logged(k)' /\ Since(k, f)' /\ \A c \in Nat : TwoLives(k, c)'
<1> DEFINE new == <<clock, hits[k] + 1>>
<1>t. /\ clock \in Nat /\ hits[k] \in Nat /\ expires[k] \in Nat /\ Limit[k] \in Nat
      /\ Ttl[k] \in Nat /\ Ttl[k] > 0 /\ new[1] = clock /\ new[2] = hits[k] + 1
      /\ \A h \in log[k] : h[1] \in Nat /\ h[2] \in Nat /\ h[1] <= clock
  BY LimitAssumption DEF TypeOK, Logged
<1>1. Logged(k)'
  BY <1>t DEF Logged, OverLimit
<1>2. Distinct({h \in log'[k] : f <= h[1]})
      /\ \A h \in log'[k] : f <= h[1] => h[2] <= hits'[k]
  BY <1>t DEF Since, Distinct
<1>3. \A h \in log'[k] : h[1] < f => h \in log[k]
  BY <1>t DEF Since
<1>4. Distinct({h \in log'[k] : f - Ttl[k] < h[1] /\ h[1] < f})
  BY <1>3 DEF Since, Distinct
<1>5. Since(k, f)'
  BY <1>t, <1>2, <1>4 DEF Since
<1>6. ASSUME NEW c \in Nat
      PROVE  TwoLives(k, c)'
  <2>1. CASE clock \in c..(c + Ttl[k] - 1)
    <3>1. \A h \in log'[k] : (c <= h[1] /\ h[1] < f) => (f - Ttl[k] < h[1] /\ h[1] < f)
      BY <1>t, <1>3, <2>1 DEF Since
    <3>2. Distinct({h \in Within(k, c, c + Ttl[k] - 1)' : h[1] < f})
      BY <1>t, <1>3, <1>4, <3>1 DEF Distinct, Within
    <3>3. Distinct({h \in Within(k, c, c + Ttl[k] - 1)' : f <= h[1]})
      BY <1>2 DEF Distinct, Within
    <3> QED BY <3>2, <3>3 DEF TwoLives
  <2>2. CASE clock \notin c..(c + Ttl[k] - 1)
    <3>1. Within(k, c, c + Ttl[k] - 1)' = Within(k, c, c + Ttl[k] - 1)
      BY <1>t, <2>2 DEF Within
    <3> QED BY <3>1 DEF TwoLives
  <2> QED BY <2>1, <2>2
<1> QED BY <1>1, <1>5, <1>6

\* A life ends a window after it began, at the earliest.
LEMMA LivesTick ==
  ASSUME TypeOK, Fading, NEW k \in Key, Logged(k), NEW f \in Nat, Since(k, f), Tick
  PROVE  Logged(k)' /\ \E g \in Nat : Since(k, g)'
<1>t. /\ clock \in Nat /\ hits[k] \in Nat /\ expires[k] \in Nat /\ Limit[k] \in Nat
      /\ Ttl[k] \in Nat /\ Ttl[k] > 0 /\ log' = log /\ clock' = clock + 1
      /\ \A h \in log[k] : h[1] \in Nat /\ h[2] \in Nat /\ h[1] <= clock /\ h[2] > 0
      /\ hits[k] = 0 => expires[k] = 0
  BY LimitAssumption DEF TypeOK, Logged, Tick, Fading, Fades
<1>1. Logged(k)'
  BY <1>t DEF Logged
<1>2. CASE hits[k] > 0 /\ ~Lapsed(k)
  <2>1. hits'[k] = hits[k] /\ expires'[k] = expires[k]
    BY <1>2 DEF Tick
  <2>2. Since(k, f)'
    BY <1>t, <1>2, <2>1 DEF Since
  <2> QED BY <1>1, <2>2
<1>3. CASE hits[k] = 0 \/ Lapsed(k)
  <2>1. hits'[k] = 0 /\ expires'[k] = 0
    BY <1>3, <1>t DEF Tick
  <2>2. ASSUME NEW h \in log[k], clock + 1 - Ttl[k] < h[1], hits[k] = 0
        PROVE  f - Ttl[k] < h[1] /\ h[1] < f
    BY <1>t, <2>2 DEF Since
  <2>3. ASSUME NEW h \in log[k], clock + 1 - Ttl[k] < h[1], Lapsed(k)
        PROVE  f <= h[1]
    BY <1>t, <2>3 DEF Since, Lapsed
  <2>4. Distinct({h \in log[k] : clock + 1 - Ttl[k] < h[1] /\ h[1] < clock + 1})
    BY <1>3, <2>2, <2>3 DEF Since, Distinct
  <2>5. \A h \in log[k] : ~(clock + 1 <= h[1])
    BY <1>t
  <2>6. /\ clock + 1 <= clock' /\ (hits'[k] = 0 => clock + 1 = clock')
        /\ expires'[k] # 0 => clock + 1 + Ttl[k] <= expires'[k]
        /\ \A h \in log'[k] : clock + 1 <= h[1] => h[2] <= hits'[k]
    BY <1>t, <2>1, <2>5
  <2>7. ASSUME NEW g \in Nat, g = clock + 1
        PROVE  Since(k, g)'
    <3>1. /\ Distinct({h \in log'[k] : g <= h[1]})
          /\ Distinct({h \in log'[k] : g - Ttl[k] < h[1] /\ h[1] < g})
      BY <1>t, <2>4, <2>5, <2>7 DEF Distinct
    <3>2. /\ g <= clock' /\ (hits'[k] = 0 => g = clock')
          /\ expires'[k] # 0 => g + Ttl[k] <= expires'[k]
          /\ \A h \in log'[k] : g <= h[1] => h[2] <= hits'[k]
      BY <2>6, <2>7
    <3> QED BY <3>1, <3>2 DEF Since
  <2> QED BY <1>1, <1>t, <2>7
<1> QED BY <1>2, <1>3, <1>t

LEMMA LivesStep ==
  ASSUME TypeOK, Fading, Lives, [Next]_vars
  PROVE  Lives'
<1> SUFFICES ASSUME NEW k \in Key
             PROVE  /\ Logged(k)' /\ \E f \in Nat : Since(k, f)'
                    /\ \A c \in Nat : TwoLives(k, c)'
  BY DEF Lives
<1>1. PICK f \in Nat : Since(k, f)
  BY DEF Lives
<1>2. Logged(k) /\ \A c \in Nat : TwoLives(k, c)
  BY DEF Lives
<1>t. /\ clock \in Nat /\ hits[k] \in Nat /\ Ttl[k] \in Nat
  BY LimitAssumption DEF TypeOK
<1>3. ASSUME log'[k] = log[k]
      PROVE  \A c \in Nat : TwoLives(k, c)'
  BY <1>2, <1>3 DEF TwoLives, Within
<1>4. ASSUME clock' = clock, hits'[k] = hits[k], expires'[k] = expires[k], log'[k] = log[k]
      PROVE  Logged(k)' /\ Since(k, f)'
  BY <1>1, <1>2, <1>4 DEF Logged, Since
<1>5. CASE Tick
  <2>1. log'[k] = log[k]
    BY <1>5 DEF Tick
  <2> QED BY <1>1, <1>2, <1>3, <1>5, <2>1, LivesTick
<1>6. ASSUME NEW r \in Req, Proceed(r) \/ Disturb(r)
      PROVE  Logged(k)' /\ Since(k, f)' /\ \A c \in Nat : TwoLives(k, c)'
  <2>1. clock' = clock
    BY <1>6, KeyStep
  <2>2. CASE hits'[k] = hits[k] /\ expires'[k] = expires[k] /\ log'[k] = log[k]
    BY <1>3, <1>4, <2>1, <2>2
  <2>3. CASE hits'[k] = hits[k] + 1 /\ expires'[k] = expires[k] /\ log'[k] = log[k]
    <3>1. \A h \in log[k] : h[2] \in Nat
      BY <1>2 DEF Logged
    <3>2. Logged(k)' /\ Since(k, f)'
      BY <1>1, <1>2, <1>t, <2>1, <2>3, <3>1 DEF Logged, Since
    <3> QED BY <1>3, <2>3, <3>2
  <2>4. CASE /\ hits'[k] = hits[k] + 1 /\ expires'[k] = expires[k]
             /\ ~OverLimit(k, hits[k] + 1)
             /\ log'[k] = log[k] \cup {<<clock, hits[k] + 1>>}
    BY <1>1, <1>2, <2>1, <2>4, LivesIncrement
  <2>5. CASE hits'[k] = hits[k] /\ log'[k] = log[k] /\ hits[k] > 0
             /\ expires'[k] = clock + Ttl[k]
    <3>1. Logged(k)' /\ Since(k, f)'
      BY <1>1, <1>2, <1>t, <2>1, <2>5 DEF Logged, Since
    <3> QED BY <1>3, <2>5, <3>1
  <2> QED BY <1>6, <2>2, <2>3, <2>4, <2>5, KeyStep
<1>7. CASE UNCHANGED vars \/ \E r \in Req, h \in Route : Arrive(r, h)
  <2>1. UNCHANGED <<clock, hits, expires, log>>
    BY <1>7 DEF vars, Arrive, redis, history
  <2> QED BY <1>3, <1>4, <2>1
<1> QED BY <1>5, <1>6, <1>7 DEF Next

\* A set of replies without a repetition is no larger than the largest reply.
LEMMA DistinctCount ==
  ASSUME NEW n \in Nat, NEW S, Distinct(S), \A h \in S : h[2] \in 1..n
  PROVE  IsFiniteSet(S) /\ Cardinality(S) <= n
<1> DEFINE reply == [h \in S |-> h[2]]
<1>1. reply \in Injection(S, 1..n)
  <2>1. reply \in [S -> 1..n]
    OBVIOUS
  <2>2. \A g, h \in S : reply[g] = reply[h] => g = h
    BY DEF Distinct
  <2> HIDE DEF reply
  <2> QED BY <2>1, <2>2, Fun_IsInj
<1>2. IsFiniteSet(1..n) /\ Cardinality(1..n) = n
  BY FS_Interval
<1> QED BY <1>1, <1>2, FS_Injection

\* In one window's length at most twice the limit get past a counter: a life
\* of the counter lets the limit through and lasts a window at least, so a
\* window meets two lives (increment 36-44).
THEOREM WindowsBounded == Spec => []WindowBound
<1>1. Init => TypeOK /\ Fading /\ Lives
  BY InvInit, LivesInit DEF Inv
<1>2. TypeOK /\ Fading /\ Lives /\ [Next]_vars => (TypeOK /\ Fading /\ Lives)'
  BY TypeStep, FadingStep, LivesStep
<1>3. TypeOK /\ Lives => WindowBound
  <2> SUFFICES ASSUME TypeOK, Lives, NEW k \in Key, NEW c \in Nat
               PROVE  Cardinality(Within(k, c, c + Ttl[k] - 1)) <= 2 * Limit[k]
    BY DEF WindowBound
  <2> DEFINE W == Within(k, c, c + Ttl[k] - 1)
  <2>1. PICK f \in Nat : /\ Distinct({h \in W : h[1] < f})
                         /\ Distinct({h \in W : f <= h[1]})
    BY DEF Lives, TwoLives
  <2>2. /\ Limit[k] \in Nat
        /\ \A h \in W : h[2] \in 1..Limit[k] /\ h[1] \in Nat
    BY LimitAssumption DEF Lives, Logged, Within, TypeOK
  <2> HIDE DEF W
  <2> DEFINE A == {h \in W : h[1] < f}
             B == {h \in W : f <= h[1]}
  <2>3. /\ IsFiniteSet(A) /\ Cardinality(A) <= Limit[k]
        /\ IsFiniteSet(B) /\ Cardinality(B) <= Limit[k]
    BY <2>1, <2>2, DistinctCount
  <2>4. W = A \cup B /\ A \cap B = {}
    BY <2>2
  <2> HIDE DEF A, B
  <2>5. Cardinality(W) = Cardinality(A) + Cardinality(B)
    <3>1. Cardinality(A \cup B) = Cardinality(A) + Cardinality(B) - Cardinality(A \cap B)
      BY <2>3, FS_Union
    <3>2. Cardinality(A \cap B) = 0
      BY <2>4, FS_EmptySet
    <3> QED BY <2>3, <2>4, <3>1, <3>2, FS_CardinalityType
  <2>6. Cardinality(W) <= 2 * Limit[k]
    BY <2>2, <2>3, <2>5, FS_CardinalityType
  <2> QED BY <2>6 DEF W
<1> QED BY <1>1, <1>2, <1>3, PTL DEF Spec

=============================================================================
