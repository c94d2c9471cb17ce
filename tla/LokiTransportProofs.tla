-------------------------- MODULE LokiTransportProofs --------------------------
(***************************************************************************)
(* Theorems about LokiTransport, for any size of batch and queue and any   *)
(* number of entries: what the transport keeps, gives up and sends, and in *)
(* which order.                                                            *)
(***************************************************************************)
EXTENDS LokiTransport, SequenceTheorems, FiniteSetTheorems, TLAPS

Increasing(s) == \A i, j \in 1..Len(s) : i < j => s[i] < s[j]
Below(A, B) == \A a \in A, b \in B : a < b

----------------------------------------------------------------------------
(* Sequences *)

LEMMA ElementsConcat ==
  ASSUME NEW a \in Seq(Entry), NEW b \in Seq(Entry)
  PROVE  a \o b \in Seq(Entry) /\ Elements(a \o b) = Elements(a) \cup Elements(b)
<1>1. /\ a \o b \in Seq(Entry)
      /\ Len(a \o b) = Len(a) + Len(b)
      /\ \A i \in 1..Len(a) + Len(b) :
           (a \o b)[i] = IF i <= Len(a) THEN a[i] ELSE b[i - Len(a)]
  BY ConcatProperties
<1>2. Len(a) \in Nat /\ Len(b) \in Nat
  BY LenProperties
<1>3. Elements(a \o b) \subseteq Elements(a) \cup Elements(b)
  BY <1>1, <1>2 DEF Elements
<1>4. Elements(a) \subseteq Elements(a \o b)
  BY <1>1, <1>2 DEF Elements
<1>5. ASSUME NEW i \in 1..Len(b)
      PROVE  b[i] \in Elements(a \o b)
  <2>1. i + Len(a) \in 1..Len(a \o b) /\ (a \o b)[i + Len(a)] = b[i]
    BY <1>1, <1>2
  <2> QED
    BY <2>1 DEF Elements
<1>6. Elements(b) \subseteq Elements(a \o b)
  BY <1>5 DEF Elements
<1> QED
  BY <1>1, <1>3, <1>4, <1>6

LEMMA IncreasingConcat ==
  ASSUME NEW a \in Seq(Entry), NEW b \in Seq(Entry)
  PROVE  Increasing(a \o b) <=>
           Increasing(a) /\ Increasing(b) /\ Below(Elements(a), Elements(b))
<1>1. /\ Len(a \o b) = Len(a) + Len(b)
      /\ \A i \in 1..Len(a) + Len(b) :
           (a \o b)[i] = IF i <= Len(a) THEN a[i] ELSE b[i - Len(a)]
  BY ConcatProperties
<1>2. Len(a) \in Nat /\ Len(b) \in Nat
  BY LenProperties
<1>3. ASSUME Increasing(a \o b)
      PROVE  Increasing(a) /\ Increasing(b) /\ Below(Elements(a), Elements(b))
  <2>1. Increasing(a)
    BY <1>1, <1>2, <1>3 DEF Increasing
  <2>2. ASSUME NEW i \in 1..Len(b), NEW j \in 1..Len(b), i < j
        PROVE  b[i] < b[j]
    <3>1. /\ i + Len(a) \in 1..Len(a \o b) /\ j + Len(a) \in 1..Len(a \o b)
          /\ (a \o b)[i + Len(a)] = b[i] /\ (a \o b)[j + Len(a)] = b[j]
      BY <1>1, <1>2
    <3> QED
      BY <3>1, <2>2, <1>2, <1>3 DEF Increasing
  <2>3. ASSUME NEW i \in 1..Len(a), NEW j \in 1..Len(b)
        PROVE  a[i] < b[j]
    <3>1. /\ i \in 1..Len(a \o b) /\ j + Len(a) \in 1..Len(a \o b)
          /\ (a \o b)[i] = a[i] /\ (a \o b)[j + Len(a)] = b[j]
      BY <1>1, <1>2
    <3> QED
      BY <3>1, <1>2, <1>3 DEF Increasing
  <2> QED
    BY <2>1, <2>2, <2>3 DEF Increasing, Below, Elements
<1>4. ASSUME Increasing(a), Increasing(b), Below(Elements(a), Elements(b)),
             NEW i \in 1..Len(a \o b), NEW j \in 1..Len(a \o b), i < j
      PROVE  (a \o b)[i] < (a \o b)[j]
  <2>1. CASE j <= Len(a)
    BY <2>1, <1>1, <1>2, <1>4 DEF Increasing
  <2>2. CASE i > Len(a)
    <3>1. i - Len(a) \in 1..Len(b) /\ j - Len(a) \in 1..Len(b) /\ i - Len(a) < j - Len(a)
      BY <2>2, <1>1, <1>2, <1>4
    <3>2. b[i - Len(a)] < b[j - Len(a)]
      BY <3>1, <1>4 DEF Increasing
    <3> QED
      BY <3>2, <2>2, <1>1, <1>2, <1>4
  <2>3. CASE i <= Len(a) /\ j > Len(a)
    <3>1. i \in 1..Len(a) /\ j - Len(a) \in 1..Len(b)
      BY <2>3, <1>1, <1>2
    <3>2. a[i] < b[j - Len(a)]
      BY <3>1, <1>4 DEF Below, Elements
    <3> QED
      BY <3>2, <2>3, <1>1, <1>2
  <2> QED
    BY <2>1, <2>2, <2>3, <1>1, <1>2
<1> QED
  BY <1>3, <1>4 DEF Increasing

LEMMA Split ==
  ASSUME NEW s \in Seq(Entry), NEW n \in 0..Len(s)
  PROVE  /\ SubSeq(s, 1, n) \in Seq(Entry) /\ Len(SubSeq(s, 1, n)) = n
         /\ SubSeq(s, n + 1, Len(s)) \in Seq(Entry)
         /\ Len(SubSeq(s, n + 1, Len(s))) = Len(s) - n
         /\ s = SubSeq(s, 1, n) \o SubSeq(s, n + 1, Len(s))
<1> DEFINE a == SubSeq(s, 1, n)
           b == SubSeq(s, n + 1, Len(s))
<1>1. Len(s) \in Nat /\ \A i \in 1..Len(s) : s[i] \in Entry
  BY LenProperties, ElementOfSeq
<1>2. /\ a \in Seq(Entry) /\ Len(a) = n
      /\ \A i \in 1..n : a[i] = s[i]
  <2>1. 1 \in Int /\ n \in Int /\ \A i \in 1..n : s[i] \in Entry
    BY <1>1
  <2>2. /\ a \in Seq(Entry) /\ Len(a) = IF 1 <= n THEN n - 1 + 1 ELSE 0
        /\ \A i \in 1..n - 1 + 1 : a[i] = s[1 + i - 1]
    BY <2>1, SubSeqProperties
  <2> QED
    BY <2>2, <1>1
<1>3. /\ b \in Seq(Entry) /\ Len(b) = Len(s) - n
      /\ \A i \in 1..Len(s) - n : b[i] = s[n + i]
  <2>1. n + 1 \in Int /\ Len(s) \in Int /\ \A i \in n + 1..Len(s) : s[i] \in Entry
    BY <1>1
  <2>2. /\ b \in Seq(Entry)
        /\ Len(b) = IF n + 1 <= Len(s) THEN Len(s) - (n + 1) + 1 ELSE 0
        /\ \A i \in 1..Len(s) - (n + 1) + 1 : b[i] = s[n + 1 + i - 1]
    BY <2>1, SubSeqProperties
  <2> QED
    BY <2>2, <1>1
<1>4. /\ a \o b \in Seq(Entry)
      /\ Len(a \o b) = Len(a) + Len(b)
      /\ \A i \in 1..Len(a) + Len(b) :
           (a \o b)[i] = IF i <= Len(a) THEN a[i] ELSE b[i - Len(a)]
  BY <1>2, <1>3, ConcatProperties
<1> HIDE DEF a, b
<1>5. ASSUME NEW i \in 1..Len(s)
      PROVE  s[i] = (a \o b)[i]
  <2>1. i \in 1..Len(a) + Len(b) /\ i \in Int /\ n \in Int
    BY <1>1, <1>2, <1>3
  <2>2. CASE i <= n
    <3>1. (a \o b)[i] = a[i]
      BY <2>1, <2>2, <1>2, <1>4
    <3> QED
      BY <3>1, <2>1, <2>2, <1>2
  <2>3. CASE i > n
    <3>1. (a \o b)[i] = b[i - n]
      BY <2>1, <2>3, <1>2, <1>4
    <3>2. i - n \in 1..Len(s) - n /\ n + (i - n) = i
      BY <2>1, <2>3, <1>1
    <3>3. b[i - n] = s[n + (i - n)]
      BY <3>2, <1>3
    <3> QED
      BY <3>1, <3>2, <3>3
  <2> QED
    BY <2>1, <2>2, <2>3
<1>7. Len(a \o b) = Len(s)
  BY <1>1, <1>2, <1>3, <1>4
<1>6. s = a \o b
  BY <1>4, <1>5, <1>7, SeqEqual
<1> QED
  BY <1>2, <1>3, <1>6 DEF a, b

\* Cutting to size gives up a front part, none unless the queue is then full.
LEMMA NewestIsRear ==
  ASSUME NEW s \in Seq(Entry)
  PROVE  /\ Newest(s) \in Seq(Entry) /\ Len(Newest(s)) <= MaxQueue
         /\ Len(s) >= MaxQueue => Len(Newest(s)) = MaxQueue
         /\ \E c \in Seq(Entry) :
              /\ s = c \o Newest(s)
              /\ c = <<>> \/ Len(Newest(s)) = MaxQueue
<1>1. Len(s) \in Nat /\ MaxQueue \in Nat \ {0}
  BY LenProperties, SizeAssumption
<1>2. CASE Len(s) > MaxQueue
  <2> DEFINE n == Len(s) - MaxQueue
  <2>1. n \in 0..Len(s) /\ Newest(s) = SubSeq(s, n + 1, Len(s))
    BY <1>1, <1>2 DEF Newest
  <2> HIDE DEF n
  <2>2. /\ SubSeq(s, 1, n) \in Seq(Entry)
        /\ Newest(s) \in Seq(Entry) /\ Len(Newest(s)) = Len(s) - n
        /\ s = SubSeq(s, 1, n) \o Newest(s)
    BY <2>1, Split
  <2>3. Len(Newest(s)) = MaxQueue
    BY <2>2, <1>1 DEF n
  <2>4. \E c \in Seq(Entry) :
          s = c \o Newest(s) /\ (c = <<>> \/ Len(Newest(s)) = MaxQueue)
    BY <2>2, <2>3, Zenon
  <2>5. Len(Newest(s)) <= MaxQueue
    BY <2>3, <1>1
  <2> QED
    BY <2>2, <2>3, <2>4, <2>5, Zenon
<1>3. CASE ~(Len(s) > MaxQueue)
  <2>1. Newest(s) = s
    BY <1>3, SubSeqFull DEF Newest
  <2>2. <<>> \in Seq(Entry) /\ s = <<>> \o s
    BY ConcatEmptySeq, EmptySeq
  <2>3. \E c \in Seq(Entry) : s = c \o s /\ c = <<>>
    BY <2>2
  <2>4. Len(s) <= MaxQueue /\ (Len(s) >= MaxQueue => Len(s) = MaxQueue)
    BY <1>1, <1>3
  <2> QED
    BY <2>1, <2>3, <2>4
<1> QED
  BY <1>2, <1>3

LEMMA SameRear ==
  ASSUME NEW a \in Seq(Entry), NEW b \in Seq(Entry),
         NEW c \in Seq(Entry), NEW d \in Seq(Entry),
         a \o b = c \o d, Len(b) = Len(d)
  PROVE  b = d
<1>1. /\ Len(a \o b) = Len(a) + Len(b)
      /\ \A i \in 1..Len(a) + Len(b) :
           (a \o b)[i] = IF i <= Len(a) THEN a[i] ELSE b[i - Len(a)]
  BY ConcatProperties
<1>2. /\ Len(c \o d) = Len(c) + Len(d)
      /\ \A i \in 1..Len(c) + Len(d) :
           (c \o d)[i] = IF i <= Len(c) THEN c[i] ELSE d[i - Len(c)]
  BY ConcatProperties
<1>3. /\ Len(a) \in Nat /\ Len(b) \in Nat /\ Len(c) \in Nat
      /\ Len(a) = Len(c)
  BY <1>1, <1>2, LenProperties
<1>4. ASSUME NEW i \in 1..Len(b)
      PROVE  b[i] = d[i]
  <2> DEFINE k == i + Len(a)
  <2>1. k \in 1..Len(a) + Len(b) /\ k > Len(a) /\ k - Len(a) = i
    BY <1>3
  <2>2. (a \o b)[k] = b[k - Len(a)] /\ (c \o d)[k] = d[k - Len(c)]
    BY <2>1, <1>1, <1>2, <1>3
  <2> QED
    BY <2>1, <2>2, <1>3
<1> QED
  BY <1>4, SeqEqual

LEMMA RearCovers ==
  ASSUME NEW a \in Seq(Entry), NEW b \in Seq(Entry),
         NEW c \in Seq(Entry), NEW d \in Seq(Entry),
         a \o b = c \o d, Len(b) <= Len(d)
  PROVE  Elements(c) \subseteq Elements(a)
<1>1. /\ Len(a \o b) = Len(a) + Len(b)
      /\ \A i \in 1..Len(a) + Len(b) :
           (a \o b)[i] = IF i <= Len(a) THEN a[i] ELSE b[i - Len(a)]
  BY ConcatProperties
<1>2. /\ Len(c \o d) = Len(c) + Len(d)
      /\ \A i \in 1..Len(c) + Len(d) :
           (c \o d)[i] = IF i <= Len(c) THEN c[i] ELSE d[i - Len(c)]
  BY ConcatProperties
<1>3. /\ Len(a) \in Nat /\ Len(b) \in Nat /\ Len(c) \in Nat /\ Len(d) \in Nat
      /\ Len(c) <= Len(a)
  BY <1>1, <1>2, LenProperties
<1>4. ASSUME NEW i \in 1..Len(c)
      PROVE  i \in 1..Len(a) /\ c[i] = a[i]
  <2>1. i \in 1..Len(a) /\ i \in 1..Len(a) + Len(b) /\ i \in 1..Len(c) + Len(d)
    BY <1>3
  <2>2. (a \o b)[i] = a[i] /\ (c \o d)[i] = c[i]
    BY <2>1, <1>1, <1>2
  <2> QED
    BY <2>1, <2>2
<1> QED
  BY <1>4 DEF Elements

----------------------------------------------------------------------------
(* The invariant *)

\* What the push in flight carries, and the line it forms with the queue.
Carried(ps) == IF ps = {} THEN <<>> ELSE (CHOOSE p \in ps : TRUE).batch
Line(q, ps) == Carried(ps) \o q

\* A queue and the push in flight, which isFlushing announces.
Typed(q, ps, busy) ==
  /\ q \in Seq(Entry) /\ Len(q) <= MaxQueue
  /\ ps = {} \/ \E p \in Push : ps = {p}
  /\ busy \in BOOLEAN /\ busy = (ps # {})

\* What line carries, with what was given up and what is confirmed: all of it
\* is of the first n entries, the line in their order.
Placed(line, n, gone, ok) ==
  /\ Increasing(line)
  /\ Elements(line) \subseteq 1..n
  /\ gone \subseteq 1..n
  /\ ok \cap Elements(line) = {}

\* What was given up is older than all that waits, and than what is in flight
\* unless the queue is full, so that no failed push can come back.
Older(q, ps, gone) ==
  /\ Below(gone, Elements(q))
  /\ Below(gone, Elements(Line(q, ps))) \/ Len(q) = MaxQueue

\* The first n entries are on the line, given up or confirmed.
Complete(line, n, gone, ok) == 1..n \subseteq Elements(line) \cup gone \cup ok

Inv ==
  /\ TypeOK
  /\ phase # "exited" => Typed(queue, pushes, isFlushing)
  /\ phase = "exited" => pushes = {}
  /\ phase = "stopping" <=> \E p \in pushes : p.force = TRUE
  /\ acked \subseteq delivered /\ delivered \subseteq 1..logged
  /\ cut \subseteq failed /\ failed \subseteq 1..logged
  /\ mark \in 0..logged
  /\ Placed(Line(queue, pushes), logged, Gone, acked)
  /\ Older(queue, pushes, Gone)
  /\ phase # "exited" => Complete(Line(queue, pushes), logged, Gone, acked)
  /\ ShutdownFlushes

LEMMA CarriedOne == ASSUME NEW p \in Push PROVE Carried({p}) = p.batch
BY DEF Carried

LEMMA LineNone == ASSUME NEW q \in Seq(Entry) PROVE Line(q, {}) = q
BY ConcatEmptySeq DEF Line, Carried

LEMMA LineTyped ==
  ASSUME NEW q, NEW ps, NEW busy, Typed(q, ps, busy)
  PROVE  /\ Carried(ps) \in Seq(Entry)
         /\ Line(q, ps) \in Seq(Entry)
         /\ Elements(Line(q, ps)) = Elements(Carried(ps)) \cup Elements(q)
         /\ Elements(Carried(ps)) = UNION {Elements(p.batch) : p \in ps}
<1>1. q \in Seq(Entry)
  BY DEF Typed
<1>2. CASE ps = {}
  <2>1. Carried(ps) = <<>> /\ <<>> \in Seq(Entry)
    BY <1>2, EmptySeq DEF Carried
  <2>2. Elements(<<>>) = {}
    BY EmptySeq DEF Elements
  <2> QED
    BY <1>1, <1>2, <2>1, <2>2, ElementsConcat DEF Line
<1>3. CASE \E p \in Push : ps = {p}
  <2>1. PICK p \in Push : ps = {p}
    BY <1>3
  <2>2. Carried(ps) = p.batch /\ p.batch \in Seq(Entry)
    BY <2>1, CarriedOne DEF Push
  <2>3. UNION {Elements(x.batch) : x \in ps} = Elements(p.batch)
    BY <2>1
  <2> QED
    BY <1>1, <2>2, <2>3, ElementsConcat DEF Line
<1> QED
  BY <1>2, <1>3 DEF Typed

\* flush only moves the front of the queue into a push: the line stays.
LEMMA FlushKeeps ==
  ASSUME NEW q, NEW ps, NEW busy, NEW force \in BOOLEAN, NEW wait \in BOOLEAN,
         Typed(q, ps, busy), Flush(q, ps, busy, force, wait)
  PROVE  /\ Typed(queue', pushes', isFlushing')
         /\ Line(queue', pushes') = Line(q, ps)
         /\ \/ queue' = q /\ pushes' = ps
            \/ ps = {} /\ \A p \in pushes' : p.force = force
         /\ ~Busy(q, busy, force, wait) => pushes' # {}
<1>1. CASE Busy(q, busy, force, wait)
  BY <1>1 DEF Flush
<1>2. CASE ~Busy(q, busy, force, wait)
  <2> DEFINE n == IF force \/ Len(q) < Batch THEN Len(q) ELSE Batch
             p == [batch |-> Slice(q, force), force |-> force]
  <2>1. q \in Seq(Entry) /\ Len(q) \in Nat /\ Len(q) <= MaxQueue
    BY LenProperties DEF Typed
  <2>2. ps = {} /\ busy = FALSE
    BY <1>2 DEF Typed, Busy
  <2>3. n \in 0..Len(q) /\ Slice(q, force) = SubSeq(q, 1, n)
    BY <2>1, SizeAssumption DEF Slice
  <2> HIDE DEF n
  <2>4. /\ Slice(q, force) \in Seq(Entry) /\ Len(Slice(q, force)) = n
        /\ SubSeq(q, n + 1, Len(q)) \in Seq(Entry)
        /\ Len(SubSeq(q, n + 1, Len(q))) = Len(q) - n
        /\ q = Slice(q, force) \o SubSeq(q, n + 1, Len(q))
    BY <2>1, <2>3, Split
  <2>5. /\ queue' = SubSeq(q, n + 1, Len(q))
        /\ pushes' = ps \cup {p} /\ isFlushing' = TRUE
    BY <1>2, <2>4 DEF Flush
  <2>6. p \in Push /\ pushes' = {p} /\ p.force = force
    BY <2>2, <2>4, <2>5 DEF Push
  <2>7. Len(queue') <= MaxQueue
    BY <2>1, <2>3, <2>4, <2>5, SizeAssumption
  <2>8. Typed(queue', pushes', isFlushing')
    BY <2>4, <2>5, <2>6, <2>7 DEF Typed
  <2>9. Line(queue', pushes') = q
    BY <2>4, <2>5, <2>6, CarriedOne DEF Line
  <2> QED
    BY <2>1, <2>2, <2>6, <2>8, <2>9, LineNone
<1> QED
  BY <1>1, <1>2

\* So what was given up stays older than what waits.
LEMMA FlushKeepsOlder ==
  ASSUME NEW q, NEW ps, NEW busy, NEW force \in BOOLEAN, NEW wait \in BOOLEAN,
         NEW gone, Typed(q, ps, busy), Flush(q, ps, busy, force, wait),
         Older(q, ps, gone)
  PROVE  Older(queue', pushes', gone)
<1>1. /\ Typed(queue', pushes', isFlushing')
      /\ Line(queue', pushes') = Line(q, ps)
      /\ (queue' = q /\ pushes' = ps) \/ ps = {}
  BY FlushKeeps
<1>2. CASE queue' = q /\ pushes' = ps
  BY <1>2
<1>3. CASE ps = {}
  <2>1. Line(q, ps) = q
    BY <1>3, LineNone DEF Typed
  <2>2. Elements(queue') \subseteq Elements(q)
    BY <1>1, <2>1, LineTyped
  <2> QED
    BY <1>1, <2>1, <2>2 DEF Older, Below
<1> QED
  BY <1>1, <1>2, <1>3

----------------------------------------------------------------------------
(* The steps *)

LEMMA InvInit == Init => Inv
<1> SUFFICES ASSUME Init PROVE Inv
  OBVIOUS
<1> USE SizeAssumption
<1>1. <<>> \in Seq(Entry) /\ Len(<<>>) = 0 /\ Elements(<<>>) = {}
  BY EmptySeq DEF Elements
<1>2. queue \in Seq(Entry) /\ Len(queue) <= MaxQueue
  <2>1. 0 <= MaxQueue /\ queue = <<>>
    BY DEF Init
  <2> QED
    BY <1>1, <2>1
<1>3. Typed(queue, pushes, isFlushing)
  BY <1>2 DEF Init, Typed
<1>7. TypeOK
  <2>1. logged \in 0..MaxEntries /\ mark \in 0..MaxEntries
    BY DEF Init
  <2> QED
    BY <1>2, <2>1 DEF Init, TypeOK
<1>4. Line(queue, pushes) = <<>>
  BY <1>1, LineNone DEF Init
<1>5. Increasing(<<>>)
  BY <1>1 DEF Increasing
<1>6. /\ Placed(Line(queue, pushes), logged, Gone, acked)
      /\ Older(queue, pushes, Gone)
      /\ Complete(Line(queue, pushes), logged, Gone, acked)
  BY <1>1, <1>4, <1>5 DEF Init, Placed, Older, Below, Complete, Gone
<1> QED
  BY <1>3, <1>6, <1>7 DEF Init, Inv, ShutdownFlushes

\* What a step shows of the new queue and push suffices for its types.
LEMMA TypesAgain ==
  ASSUME logged' \in 0..MaxEntries, Typed(queue', pushes', isFlushing'),
         backingOff' \in BOOLEAN,
         phase' \in {"running", "stopping", "stopped", "exited"},
         acked' \subseteq delivered', delivered' \subseteq 1..logged',
         failed' \subseteq 1..logged',
         Gone' \subseteq 1..logged', mark' \in 0..logged'
  PROVE  TypeOK'
<1>1. 1..logged' \subseteq Entry /\ 0..logged' \subseteq 0..MaxEntries
  BY SizeAssumption DEF Entry
<1> QED
  BY <1>1 DEF TypeOK, Typed, Gone

\* A flush that is called on the queue as it stands.
LEMMA FlushStep ==
  ASSUME Inv, phase # "exited", NEW force \in BOOLEAN,
         Flush(queue, pushes, isFlushing, force, backingOff),
         UNCHANGED <<logged, backingOff, delivered, Gone, acked>>
  PROVE  /\ Typed(queue', pushes', isFlushing')
         /\ Placed(Line(queue', pushes'), logged', Gone', acked')
         /\ Older(queue', pushes', Gone')
         /\ Complete(Line(queue', pushes'), logged', Gone', acked')
<1>1. Typed(queue, pushes, isFlushing) /\ backingOff \in BOOLEAN
  BY DEF Inv, TypeOK
<1>2. /\ Typed(queue', pushes', isFlushing')
      /\ Line(queue', pushes') = Line(queue, pushes)
  BY <1>1, FlushKeeps
<1>3. Older(queue', pushes', Gone)
  BY <1>1, FlushKeepsOlder DEF Inv
<1> QED
  BY <1>2, <1>3 DEF Inv

LEMMA TimerFiresStep == ASSUME Inv, TimerFires PROVE Inv'
<1>1. /\ Typed(queue', pushes', isFlushing')
      /\ Placed(Line(queue', pushes'), logged', Gone', acked')
      /\ Older(queue', pushes', Gone')
      /\ Complete(Line(queue', pushes'), logged', Gone', acked')
  BY FlushStep DEF TimerFires, history, Gone
<1>2. \A p \in pushes' : p.force = FALSE
  <2>1. \A p \in pushes : p.force = FALSE
    BY DEF Inv, TimerFires, TypeOK, Push
  <2> QED
    BY <2>1, FlushKeeps DEF Inv, TimerFires, TypeOK
<1>3. TypeOK'
  BY <1>1, TypesAgain DEF Inv, TypeOK, TimerFires, history, Placed
<1> QED
  BY <1>1, <1>2, <1>3 DEF Inv, TimerFires, history, ShutdownFlushes

LEMMA DestroyStep == ASSUME Inv, Destroy PROVE Inv'
<1>1. /\ Typed(queue', pushes', isFlushing')
      /\ Placed(Line(queue', pushes'), logged', Gone', acked')
      /\ Older(queue', pushes', Gone')
      /\ Complete(Line(queue', pushes'), logged', Gone', acked')
  BY FlushStep DEF Destroy, Gone
<1>2. \A p \in pushes : p.force = FALSE
  BY DEF Inv, Destroy, TypeOK, Push
<1>3. Typed(queue, pushes, isFlushing) /\ backingOff \in BOOLEAN
  BY DEF Inv, Destroy, TypeOK
<1>4. logged \in Nat
  BY DEF Inv, TypeOK
<1>5. TypeOK'
  BY <1>1, <1>4, TypesAgain DEF Inv, TypeOK, Destroy, Placed
<1>6. CASE Busy(queue, isFlushing, TRUE, backingOff)
  <2>1. queue' = queue /\ pushes' = pushes /\ phase' = "stopped"
    BY <1>6 DEF Destroy, Flush
  <2>2. 1..mark' \subseteq acked' \cup Gone'
    <3>1. CASE isFlushing
      BY <3>1 DEF Destroy
    <3>2. CASE ~isFlushing
      <4>1. pushes = {} /\ queue = <<>>
        BY <3>2, <1>3, <1>6 DEF Typed, Busy
      <4>2. Line(queue, pushes) = <<>>
        BY <1>3, <4>1, LineNone DEF Typed
      <4>3. Elements(<<>>) = {}
        BY EmptySeq DEF Elements
      <4> QED
        BY <4>2, <4>3, <3>2 DEF Inv, Complete, Destroy, Gone
    <3> QED
      BY <3>1, <3>2
  <2>3. mark' \in 0..logged'
    BY <1>4 DEF Destroy
  <2>4. ~(\E p \in pushes' : p.force = TRUE)
    BY <1>2, <2>1
  <2> QED
    BY <1>1, <1>5, <2>1, <2>2, <2>3, <2>4 DEF Inv, Destroy, ShutdownFlushes
<1>7. CASE ~Busy(queue, isFlushing, TRUE, backingOff)
  <2>1. phase' = "stopping"
    BY <1>7 DEF Destroy
  <2>2. pushes = {}
    BY <1>3, <1>7 DEF Typed, Busy
  <2>3. pushes' # {} /\ \A p \in pushes' : p.force = TRUE
    <3>1. Flush(queue, pushes, isFlushing, TRUE, backingOff) /\ TRUE \in BOOLEAN
      BY DEF Destroy
    <3>2. /\ (queue' = queue /\ pushes' = pushes)
             \/ (pushes = {} /\ \A p \in pushes' : p.force = TRUE)
          /\ ~Busy(queue, isFlushing, TRUE, backingOff) => pushes' # {}
      BY <1>3, <3>1, FlushKeeps, Zenon
    <3> QED
      BY <1>7, <2>2, <3>2, Zenon
  <2>4. mark' \in 0..logged'
    BY <1>4 DEF Destroy
  <2> QED
    BY <1>1, <1>5, <2>1, <2>3, <2>4 DEF Inv, Destroy, ShutdownFlushes
<1> QED
  BY <1>6, <1>7

\* enqueue before its flush: the queue with the new entry, cut to size.
LEMMA EnqueueCut ==
  ASSUME Inv, Enqueue,
         NEW q, q = Newest(Append(queue, logged + 1))
  PROVE  /\ Typed(q, pushes, isFlushing)
         /\ Placed(Line(q, pushes), logged', Gone', acked)
         /\ Older(q, pushes, Gone')
         /\ Complete(Line(q, pushes), logged', Gone', acked)
<1> DEFINE e == logged + 1
           s == Append(queue, e)
           b == Carried(pushes)
<1>1. /\ phase # "exited" /\ logged \in Nat /\ logged < MaxEntries
      /\ logged' = e /\ MaxEntries \in Nat
  BY SizeAssumption DEF Enqueue, Inv, TypeOK
<1>2. Typed(queue, pushes, isFlushing) /\ queue \in Seq(Entry)
  BY <1>1 DEF Inv, Typed
<1>3. e \in Entry /\ <<e>> \in Seq(Entry) /\ Elements(<<e>>) = {e} /\ Increasing(<<e>>)
  BY <1>1 DEF Entry, Elements, Increasing
<1>4. /\ s = queue \o <<e>> /\ s \in Seq(Entry)
      /\ Len(s) = Len(queue) + 1 /\ Elements(s) = Elements(queue) \cup {e}
  <2>1. s = queue \o <<e>> /\ s \in Seq(Entry) /\ Len(s) = Len(queue) + 1
    BY <1>2, <1>3, AppendIsConcat, AppendProperties
  <2>2. Elements(queue \o <<e>>) = Elements(queue) \cup Elements(<<e>>)
    BY <1>2, <1>3, ElementsConcat
  <2> QED
    BY <1>3, <2>1, <2>2
<1>5. /\ b \in Seq(Entry) /\ Line(queue, pushes) \in Seq(Entry)
      /\ Elements(Line(queue, pushes)) = Elements(b) \cup Elements(queue)
  BY <1>2, LineTyped
<1>6. /\ Increasing(b) /\ Increasing(queue) /\ Below(Elements(b), Elements(queue))
      /\ Elements(b) \cup Elements(queue) \subseteq 1..logged
      /\ Gone \subseteq 1..logged /\ acked \subseteq 1..logged
      /\ acked \cap (Elements(b) \cup Elements(queue)) = {}
  BY <1>2, <1>5, IncreasingConcat DEF Inv, Placed, Line
<1> HIDE DEF e, s, b
<1>7. \A x \in 1..logged : x \in 1..e /\ x < e /\ x # e
  BY <1>1 DEF e
<1>8. Increasing(s)
  <2>1. Below(Elements(queue), Elements(<<e>>))
    BY <1>3, <1>6, <1>7 DEF Below
  <2>2. Increasing(queue \o <<e>>)
    BY <1>2, <1>3, <1>6, <2>1, IncreasingConcat, Zenon
  <2> QED
    BY <1>4, <2>2
<1>9. PICK c \in Seq(Entry) : s = c \o q /\ (c = <<>> \/ Len(q) = MaxQueue)
  BY <1>4, NewestIsRear DEF s, e
<1>10. /\ q \in Seq(Entry) /\ Len(q) <= MaxQueue
       /\ Len(s) >= MaxQueue => Len(q) = MaxQueue
  BY <1>4, NewestIsRear DEF s, e
<1>11. /\ Increasing(c) /\ Increasing(q) /\ Below(Elements(c), Elements(q))
       /\ Elements(c) \cup Elements(q) = Elements(queue) \cup {e}
  <2>1. Elements(c \o q) = Elements(c) \cup Elements(q)
    BY <1>9, <1>10, ElementsConcat
  <2>2. Increasing(c) /\ Increasing(q) /\ Below(Elements(c), Elements(q))
    BY <1>8, <1>9, <1>10, IncreasingConcat, Zenon
  <2> QED
    BY <1>4, <1>9, <2>1, <2>2
<1>12. Gone' = Gone \cup (Elements(s) \ Elements(q))
  BY DEF Enqueue, history, Gone, s, e
<1>13. Typed(q, pushes, isFlushing)
  BY <1>2, <1>10 DEF Typed
<1>14. /\ Line(q, pushes) = b \o q
       /\ Elements(Line(q, pushes)) = Elements(b) \cup Elements(q)
  BY <1>13, LineTyped DEF Line, b
<1>15. Placed(Line(q, pushes), logged', Gone', acked)
  <2>1. Below(Elements(b), Elements(q))
    BY <1>6, <1>7, <1>11 DEF Below
  <2>2. Increasing(Line(q, pushes))
    <3>1. Increasing(b \o q)
      BY <1>5, <1>6, <1>10, <1>11, <2>1, IncreasingConcat, Zenon
    <3> QED
      BY <1>14, <3>1
  <2>3. e \in 1..e
    BY <1>1 DEF e
  <2> QED
    BY <1>1, <1>4, <1>6, <1>7, <1>11, <1>12, <1>14, <2>2, <2>3 DEF Placed
<1>16. Older(q, pushes, Gone')
  <2>1. Below(Gone, Elements(queue) \cup {e})
    BY <1>6, <1>7 DEF Inv, Older, Below
  <2>2. Below(Gone', Elements(q))
    BY <1>4, <1>11, <1>12, <2>1 DEF Below
  <2>3. CASE Len(q) = MaxQueue
    BY <2>2, <2>3 DEF Older
  <2>4. CASE Len(q) # MaxQueue
    <3>1. c = <<>> /\ Elements(c) = {}
      BY <1>9, <2>4, EmptySeq DEF Elements
    <3>2. Gone' = Gone
      BY <1>4, <1>11, <1>12, <3>1
    <3>3. Len(queue) # MaxQueue
      BY <1>4, <1>10, <2>4, <1>2, LenProperties, SizeAssumption
    <3>4. Below(Gone, Elements(b) \cup Elements(queue))
      BY <1>5, <3>3 DEF Inv, Older
    <3> QED
      BY <1>14, <2>2, <3>2, <3>4 DEF Older, Below
  <2> QED
    BY <2>3, <2>4
<1>17. Complete(Line(q, pushes), logged', Gone', acked)
  <2>1. \A x \in 1..e : x \in 1..logged \/ x = e
    BY <1>1 DEF e
  <2> QED
    BY <1>1, <1>4, <1>5, <1>11, <1>12, <1>14, <2>1 DEF Inv, Complete
<1> QED
  BY <1>13, <1>15, <1>16, <1>17

LEMMA EnqueueStep == ASSUME Inv, Enqueue PROVE Inv'
<1> DEFINE q == Newest(Append(queue, logged + 1))
<1>1. /\ Typed(q, pushes, isFlushing)
      /\ Placed(Line(q, pushes), logged', Gone', acked)
      /\ Older(q, pushes, Gone')
      /\ Complete(Line(q, pushes), logged', Gone', acked)
  BY EnqueueCut
<1>2. /\ phase # "exited" /\ logged \in Nat /\ logged' = logged + 1
      /\ logged' \in 0..MaxEntries /\ Gone \subseteq Gone'
      /\ UNCHANGED <<backingOff, phase, delivered, cut, failed, acked, mark>>
      /\ backingOff \in BOOLEAN
  BY SizeAssumption DEF Inv, Enqueue, history, TypeOK, Gone
<1>3. \/ Flush(q, pushes, isFlushing, FALSE, backingOff)
      \/ queue' = q /\ UNCHANGED <<pushes, isFlushing>>
  BY DEF Enqueue
<1> HIDE DEF q
<1>4. /\ Typed(queue', pushes', isFlushing')
      /\ Line(queue', pushes') = Line(q, pushes)
      /\ Older(queue', pushes', Gone')
      /\ \/ pushes' = pushes
         \/ pushes = {} /\ \A p \in pushes' : p.force = FALSE
  <2>1. CASE queue' = q /\ UNCHANGED <<pushes, isFlushing>>
    BY <1>1, <2>1
  <2>2. CASE Flush(q, pushes, isFlushing, FALSE, backingOff)
    <3>1. FALSE \in BOOLEAN
      OBVIOUS
    <3>2. /\ Typed(queue', pushes', isFlushing')
          /\ Line(queue', pushes') = Line(q, pushes)
          /\ (queue' = q /\ pushes' = pushes)
             \/ (pushes = {} /\ \A p \in pushes' : p.force = FALSE)
      BY <1>1, <1>2, <2>2, <3>1, FlushKeeps, Zenon
    <3>3. Older(queue', pushes', Gone')
      BY <1>1, <1>2, <2>2, <3>1, FlushKeepsOlder, Zenon
    <3> QED
      BY <3>2, <3>3
  <2> QED
    BY <1>3, <2>1, <2>2
<1>5. phase' = "stopping" <=> \E p \in pushes' : p.force = TRUE
  BY <1>2, <1>4 DEF Inv
<1>6. /\ acked' \subseteq delivered' /\ delivered' \subseteq 1..logged'
      /\ mark' \in 0..logged'
  BY <1>2 DEF Inv
<1>7. TypeOK'
  BY <1>1, <1>2, <1>4, <1>6, TypesAgain DEF Inv, TypeOK, Placed
<1>8. ShutdownFlushes'
  BY <1>2 DEF Inv, ShutdownFlushes
<1> QED
  BY <1>1, <1>2, <1>4, <1>5, <1>6, <1>7, <1>8 DEF Inv

\* When a push has settled and q is the queue it leaves.
LEMMA SettleKeeps ==
  ASSUME Inv, NEW p \in pushes, NEW q \in Seq(Entry), Len(q) <= MaxQueue,
         Settle(p, q), NEW gone, Below(gone, Elements(q))
  PROVE  /\ Typed(queue', pushes', isFlushing')
         /\ Line(queue', pushes') = q
         /\ Older(queue', pushes', gone)
         /\ phase' = "stopping" <=> \E x \in pushes' : x.force = TRUE
         /\ phase' \in {"running", "stopping", "stopped"}
         /\ phase' = "stopped" => phase = "stopped" \/ q = <<>>
<1>1. /\ phase \in {"running", "stopping", "stopped"}
      /\ pushes = {p} /\ p \in Push /\ pushes \ {p} = {}
  BY DEF Inv, TypeOK, Typed
<1>2. phase = "stopping" <=> p.force = TRUE
  BY <1>1 DEF Inv
<1>3. Typed(q, {}, FALSE) /\ Line(q, {}) = q
  BY LineNone DEF Typed
<1>4. Older(q, {}, gone)
  BY <1>3 DEF Older
<1>5. CASE p.force = TRUE /\ q # <<>>
  <2>1. Flush(q, {}, FALSE, TRUE, FALSE) /\ phase' = phase
    BY <1>1, <1>5 DEF Settle
  <2>2. ~Busy(q, FALSE, TRUE, FALSE)
    BY <1>5 DEF Busy
  <2>3. TRUE \in BOOLEAN /\ FALSE \in BOOLEAN
    OBVIOUS
  <2>4. /\ Typed(queue', pushes', isFlushing')
        /\ Line(queue', pushes') = Line(q, {})
        /\ (queue' = q /\ pushes' = {}) \/ (\A x \in pushes' : x.force = TRUE)
        /\ ~Busy(q, FALSE, TRUE, FALSE) => pushes' # {}
    BY <1>3, <2>1, <2>3, FlushKeeps, Zenon
  <2>5. Older(queue', pushes', gone)
    BY <1>3, <1>4, <2>1, <2>3, FlushKeepsOlder, Zenon
  <2>6. pushes' # {} /\ \A x \in pushes' : x.force = TRUE
    BY <2>2, <2>4, Zenon
  <2>7. \E x \in pushes' : x.force = TRUE
    BY <2>6
  <2> QED
    BY <1>1, <1>2, <1>3, <1>5, <2>1, <2>4, <2>5, <2>7
<1>6. CASE ~(p.force = TRUE /\ q # <<>>)
  <2>1. p.force \in BOOLEAN
    BY <1>1 DEF Push
  <2>2. /\ queue' = q /\ pushes' = {} /\ isFlushing' = FALSE
        /\ phase' = IF p.force THEN "stopped" ELSE phase
    BY <1>1, <1>6, <2>1 DEF Settle
  <2>3. phase' # "stopping" /\ phase' \in {"running", "stopped"}
    BY <1>1, <1>2, <2>1, <2>2
  <2>4. phase' = "stopped" => phase = "stopped" \/ q = <<>>
    BY <1>6, <2>1, <2>2
  <2>5. Typed(queue', pushes', isFlushing') /\ Line(queue', pushes') = q
    BY <1>3, <2>2
  <2>6. Older(queue', pushes', gone)
    BY <1>4, <2>2
  <2> QED
    BY <2>2, <2>3, <2>4, <2>5, <2>6
<1> QED
  BY <1>5, <1>6

\* The push in flight and the queue behind it.
LEMMA PushLine ==
  ASSUME Inv, NEW p \in pushes
  PROVE  /\ pushes = {p} /\ p.batch \in Seq(Entry)
         /\ queue \in Seq(Entry) /\ Len(queue) <= MaxQueue
         /\ Line(queue, pushes) = p.batch \o queue
         /\ Elements(Line(queue, pushes)) = Elements(p.batch) \cup Elements(queue)
         /\ Increasing(queue) /\ Below(Elements(p.batch), Elements(queue))
         /\ Complete(Line(queue, pushes), logged, Gone, acked)
<1>1. phase # "exited" /\ Typed(queue, pushes, isFlushing)
  BY DEF Inv
<1>2. /\ pushes = {p} /\ p.batch \in Seq(Entry)
      /\ queue \in Seq(Entry) /\ Len(queue) <= MaxQueue
  BY <1>1 DEF Typed, Push
<1>3. Line(queue, pushes) = p.batch \o queue
  BY <1>1, <1>2, CarriedOne DEF Typed, Line
<1>4. Elements(Line(queue, pushes)) = Elements(p.batch) \cup Elements(queue)
  BY <1>2, <1>3, ElementsConcat
<1>5. Increasing(p.batch \o queue)
  BY <1>3 DEF Inv, Placed
<1>6. Increasing(queue) /\ Below(Elements(p.batch), Elements(queue))
  BY <1>2, <1>5, IncreasingConcat, Zenon
<1>7. Complete(Line(queue, pushes), logged, Gone, acked)
  BY <1>1 DEF Inv
<1> QED
  BY <1>2, <1>3, <1>4, <1>6, <1>7

LEMMA PushOkStep == ASSUME Inv, NEW p \in pushes, PushOk(p) PROVE Inv'
<1>1. /\ pushes = {p} /\ p.batch \in Seq(Entry)
      /\ queue \in Seq(Entry) /\ Len(queue) <= MaxQueue
      /\ Elements(Line(queue, pushes)) = Elements(p.batch) \cup Elements(queue)
      /\ Increasing(queue) /\ Below(Elements(p.batch), Elements(queue))
      /\ Complete(Line(queue, pushes), logged, Gone, acked)
  BY PushLine
<1>2. /\ acked' = acked \cup Elements(p.batch)
      /\ delivered' = delivered \cup Elements(p.batch)
      /\ backingOff' = FALSE
      /\ UNCHANGED <<logged, Gone, cut, failed, mark>> /\ Settle(p, queue)
  BY DEF PushOk, Gone
<1>3. Below(Gone, Elements(queue))
  BY DEF Inv, Older
<1>4. /\ Typed(queue', pushes', isFlushing')
      /\ Line(queue', pushes') = queue
      /\ Older(queue', pushes', Gone)
      /\ phase' = "stopping" <=> \E x \in pushes' : x.force = TRUE
      /\ phase' \in {"running", "stopping", "stopped"}
      /\ phase' = "stopped" => phase = "stopped" \/ queue = <<>>
  BY <1>1, <1>2, <1>3, SettleKeeps
<1>5. Elements(p.batch) \subseteq 1..logged /\ Elements(queue) \subseteq 1..logged
  BY <1>1 DEF Inv, Placed
<1>6. Elements(p.batch) \cap Elements(queue) = {}
  <2>1. \A x \in 1..logged : ~(x < x)
    BY DEF Inv, TypeOK
  <2> QED
    BY <1>1, <1>5, <2>1 DEF Below
<1>7. Placed(Line(queue', pushes'), logged', Gone', acked')
  BY <1>1, <1>2, <1>4, <1>5, <1>6 DEF Inv, Placed
<1>8. Complete(Line(queue', pushes'), logged', Gone', acked')
  BY <1>1, <1>2, <1>4 DEF Complete
<1>9. /\ acked' \subseteq delivered' /\ delivered' \subseteq 1..logged'
      /\ mark' \in 0..logged'
  BY <1>2, <1>5 DEF Inv
<1>10. logged' \in 0..MaxEntries /\ logged \in Nat
  BY <1>2 DEF Inv, TypeOK
<1>11. TypeOK'
  BY <1>2, <1>4, <1>7, <1>9, <1>10, TypesAgain DEF Inv, Placed
<1>12. ShutdownFlushes'
  <2>1. CASE phase' = "stopped" /\ queue = <<>>
    <3>1. Elements(queue) = {}
      BY <2>1, EmptySeq DEF Elements
    <3>2. 1..logged' \subseteq acked' \cup Gone'
      BY <1>4, <1>8, <3>1 DEF Complete
    <3>3. 1..mark' \subseteq 1..logged'
      BY <1>9, <1>10, <1>2
    <3> QED
      BY <3>2, <3>3 DEF ShutdownFlushes
  <2>2. CASE ~(phase' = "stopped" /\ queue = <<>>)
    BY <1>2, <1>4, <2>2 DEF Inv, ShutdownFlushes
  <2> QED
    BY <2>1, <2>2
<1> QED
  BY <1>2, <1>4, <1>7, <1>8, <1>9, <1>11, <1>12 DEF Inv

LEMMA PushFailStep == ASSUME Inv, NEW p \in pushes, PushFail(p) PROVE Inv'
<1> DEFINE s == Requeued(p.batch)
           q == Newest(s)
<1>1. /\ pushes = {p} /\ p.batch \in Seq(Entry)
      /\ queue \in Seq(Entry) /\ Len(queue) <= MaxQueue
      /\ Line(queue, pushes) = s
      /\ Elements(s) = Elements(p.batch) \cup Elements(queue)
      /\ Complete(s, logged, Gone, acked)
  BY PushLine DEF Requeued
<1>2. s = p.batch \o queue /\ s \in Seq(Entry) /\ Len(s) = Len(p.batch) + Len(queue)
  BY <1>1, ConcatProperties DEF Requeued
<1>3. /\ Gone' = Gone \cup (Elements(s) \ Elements(q))
      /\ delivered' = delivered \/ delivered' = delivered \cup Elements(p.batch)
      /\ backingOff' = TRUE
      /\ UNCHANGED <<logged, acked, mark>> /\ Settle(p, q)
  BY DEF PushFail, Gone
<1>17. /\ failed' = failed \cup Elements(p.batch)
       /\ cut' = cut \cup (Elements(s) \ Elements(q))
  BY DEF PushFail
<1>4. /\ q \in Seq(Entry) /\ Len(q) <= MaxQueue
      /\ Len(s) >= MaxQueue => Len(q) = MaxQueue
  BY <1>2, NewestIsRear
<1>5. PICK c \in Seq(Entry) : s = c \o q /\ (c = <<>> \/ Len(q) = MaxQueue)
  BY <1>2, NewestIsRear
<1>6. Elements(s) \subseteq 1..logged /\ Increasing(s) /\ acked \cap Elements(s) = {}
  BY <1>1 DEF Inv, Placed
<1> HIDE DEF s, q
<1>7. /\ Increasing(q) /\ Below(Elements(c), Elements(q))
      /\ Elements(s) = Elements(c) \cup Elements(q)
  <2>1. Increasing(c \o q)
    BY <1>5, <1>6
  <2>2. Increasing(q) /\ Below(Elements(c), Elements(q))
    BY <1>4, <1>5, <2>1, IncreasingConcat, Zenon
  <2> QED
    BY <1>4, <1>5, <2>2, ElementsConcat
<1>8. Below(Gone, Elements(q))
  <2>1. CASE Below(Gone, Elements(s))
    BY <1>7, <2>1 DEF Below
  <2>2. CASE Len(queue) = MaxQueue
    <3>1. Len(q) = Len(queue)
      BY <1>1, <1>2, <1>4, <2>2, LenProperties, SizeAssumption
    <3>2. q = queue
      BY <1>1, <1>2, <1>4, <1>5, <3>1, SameRear
    <3> QED
      BY <3>2 DEF Inv, Older
  <2> QED
    BY <1>1, <2>1, <2>2 DEF Inv, Older
<1>9. Below(Gone', Elements(q))
  BY <1>3, <1>7, <1>8 DEF Below
<1>10. /\ Typed(queue', pushes', isFlushing')
       /\ Line(queue', pushes') = q
       /\ Older(queue', pushes', Gone')
       /\ phase' = "stopping" <=> \E x \in pushes' : x.force = TRUE
       /\ phase' \in {"running", "stopping", "stopped"}
       /\ phase' = "stopped" => phase = "stopped" \/ q = <<>>
  BY <1>3, <1>4, <1>9, SettleKeeps
<1>11. Placed(Line(queue', pushes'), logged', Gone', acked')
  BY <1>3, <1>6, <1>7, <1>10 DEF Inv, Placed
<1>12. Complete(Line(queue', pushes'), logged', Gone', acked')
  BY <1>1, <1>3, <1>10 DEF Complete
<1>13. /\ acked' \subseteq delivered' /\ delivered' \subseteq 1..logged'
       /\ mark' \in 0..logged'
  BY <1>1, <1>3, <1>6 DEF Inv
<1>18. cut' \subseteq failed' /\ failed' \subseteq 1..logged'
  <2>1. Elements(c) \subseteq Elements(p.batch)
    <3>1. CASE c = <<>>
      BY <3>1, EmptySeq DEF Elements
    <3>2. CASE Len(q) = MaxQueue
      <4>1. Len(queue) <= Len(q) /\ p.batch \o queue = c \o q
        BY <3>2, <1>1, <1>2, <1>5
      <4> QED
        BY <4>1, <1>1, <1>4, RearCovers
    <3> QED
      BY <3>1, <3>2, <1>5
  <2> QED
    BY <2>1, <1>1, <1>3, <1>6, <1>7, <1>17 DEF Inv
<1>14. logged' \in 0..MaxEntries /\ logged \in Nat
  BY <1>3 DEF Inv, TypeOK
<1>15. TypeOK'
  BY <1>3, <1>10, <1>11, <1>13, <1>14, <1>18, TypesAgain DEF Placed
<1>16. ShutdownFlushes'
  <2>1. CASE phase' = "stopped" /\ q = <<>>
    <3>1. Elements(q) = {}
      BY <2>1, EmptySeq DEF Elements
    <3>2. 1..logged' \subseteq acked' \cup Gone'
      BY <1>10, <1>12, <3>1 DEF Complete
    <3>3. 1..mark' \subseteq 1..logged'
      BY <1>13, <1>14, <1>3
    <3> QED
      BY <3>2, <3>3 DEF ShutdownFlushes
  <2>2. CASE ~(phase' = "stopped" /\ q = <<>>)
    BY <1>3, <1>10, <2>2 DEF Inv, ShutdownFlushes
  <2> QED
    BY <2>1, <2>2
<1> QED
  BY <1>3, <1>10, <1>11, <1>12, <1>13, <1>15, <1>16, <1>18 DEF Inv

LEMMA BackoffEndsStep == ASSUME Inv, BackoffEnds PROVE Inv'
<1>1. TypeOK'
  BY DEF Inv, TypeOK, BackoffEnds, history
<1> QED
  BY <1>1 DEF Inv, BackoffEnds, history, ShutdownFlushes, Gone

LEMMA ExitStep == ASSUME Inv, Exit PROVE Inv'
<1>1. Typed(queue, pushes, isFlushing) /\ queue \in Seq(Entry)
  BY DEF Inv, Exit, Typed
<1>2. Line(queue', pushes') = queue
  BY <1>1, LineNone DEF Exit
<1>3. /\ Elements(queue) \subseteq Elements(Line(queue, pushes))
      /\ Carried(pushes) \in Seq(Entry)
  BY <1>1, LineTyped
<1>4. Increasing(Carried(pushes) \o queue)
  BY DEF Inv, Placed, Line
<1>5. Increasing(queue)
  BY <1>1, <1>3, <1>4, IncreasingConcat, Zenon
<1>6. Placed(Line(queue', pushes'), logged', Gone', acked')
  BY <1>2, <1>3, <1>5 DEF Inv, Placed, Exit, history, Gone
<1>7. Older(queue', pushes', Gone')
  BY <1>2 DEF Inv, Older, Exit, history, Gone
<1>8. TypeOK'
  BY DEF Inv, TypeOK, Exit, history
<1> QED
  BY <1>6, <1>7, <1>8 DEF Inv, Exit, history, ShutdownFlushes, Gone

LEMMA InvStep == ASSUME Inv, [Next]_vars PROVE Inv'
<1>1. CASE UNCHANGED vars
  <2>1. TypeOK'
    BY <1>1 DEF Inv, TypeOK, vars, history
  <2> QED
    BY <1>1, <2>1 DEF Inv, vars, history, ShutdownFlushes, Gone
<1>2. CASE Next
  BY <1>2, EnqueueStep, TimerFiresStep, DestroyStep, PushOkStep, PushFailStep,
     BackoffEndsStep, ExitStep DEF Next, Answered, Rejected
<1> QED
  BY <1>1, <1>2

LEMMA Invariant == Spec => []Inv
BY InvInit, InvStep, PTL DEF Spec

----------------------------------------------------------------------------
(* The properties *)

LEMMA InvAccounted == ASSUME Inv PROVE Accounted
<1>3. cut \subseteq failed
  BY DEF Inv
<1> SUFFICES ASSUME phase # "exited"
             PROVE  1..logged = Elements(queue) \cup InFlight \cup delivered \cup Gone
  BY <1>3 DEF Accounted, Gone
<1>1. Typed(queue, pushes, isFlushing)
  BY DEF Inv
<1>2. Elements(Line(queue, pushes)) = InFlight \cup Elements(queue)
  BY <1>1, LineTyped DEF InFlight
<1> QED
  BY <1>2 DEF Inv, Placed, Complete

LEMMA InvInOrder == ASSUME Inv PROVE InOrder
<1>1. CASE pushes = {}
  BY <1>1, FS_EmptySet DEF InOrder
<1>2. CASE pushes # {}
  <2>1. PICK p \in pushes : TRUE
    BY <1>2
  <2>2. pushes = {p} /\ Line(queue, pushes) = p.batch \o queue
    BY PushLine
  <2>3. Cardinality(pushes) = 1
    BY <2>2, FS_Singleton
  <2>4. Increasing(p.batch \o queue)
    BY <2>2 DEF Inv, Placed
  <2>5. \A x \in pushes : Increasing(x.batch \o queue)
    BY <2>2, <2>4
  <2>6. Cardinality(pushes) <= 1
    BY <2>3
  <2> QED
    BY <2>5, <2>6 DEF InOrder, Increasing
<1> QED
  BY <1>1, <1>2

LEMMA InvConfirmed == ASSUME Inv PROVE ConfirmedOnce
<1>1. CASE phase = "exited"
  <2>1. pushes = {} /\ queue \in Seq(Entry)
    BY <1>1 DEF Inv, TypeOK
  <2>2. Line(queue, pushes) = queue /\ InFlight = {}
    BY <2>1, LineNone DEF InFlight
  <2> QED
    BY <2>2 DEF Inv, Placed, ConfirmedOnce
<1>2. CASE phase # "exited"
  <2>1. Elements(Line(queue, pushes)) = InFlight \cup Elements(queue)
    BY <1>2, LineTyped DEF Inv, InFlight
  <2> QED
    BY <2>1 DEF Inv, Placed, ConfirmedOnce
<1> QED
  BY <1>1, <1>2

\* The variables hold what they are declared to hold: no failed batch put
\* back makes the queue of loki-transport.service.ts longer than its limit.
THEOREM TransportTypeCorrect == Spec => []TypeOK
<1>1. Inv => TypeOK
  BY DEF Inv
<1> QED
  BY <1>1, Invariant, PTL

\* Until the process ends every entry is queued, in flight, stored or reported
\* as dropped, or was cut off in silence when its own failed push was put back,
\* whatever sizes are configured.
THEOREM NothingVanishes == Spec => []Accounted
<1>1. Inv => Accounted
  BY InvAccounted
<1> QED
  BY <1>1, Invariant, PTL

\* One push at a time, and everything in the order of logging, also after a
\* failed batch was put back in front.
THEOREM OrderKept == Spec => []InOrder
<1>1. Inv => InOrder
  BY InvInOrder
<1> QED
  BY <1>1, Invariant, PTL

\* What slice(-maxQueueSize) gives up is older than all that is kept.
THEOREM OldestGoFirst == Spec => []DropsOldest
<1>1. Inv => DropsOldest
  BY DEF Inv, Older, Below, DropsOldest
<1> QED
  BY <1>1, Invariant, PTL

\* A batch Loki has confirmed is never queued or sent again.
THEOREM SentOnceConfirmed == Spec => []ConfirmedOnce
<1>1. Inv => ConfirmedOnce
  BY InvConfirmed
<1> QED
  BY <1>1, Invariant, PTL

\* onModuleDestroy that finds no push in flight is done only when all that
\* was logged before it is confirmed or given up for room.
THEOREM ShutdownKeepsWord == Spec => []ShutdownFlushes
<1>1. Inv => ShutdownFlushes
  BY DEF Inv
<1> QED
  BY <1>1, Invariant, PTL

=============================================================================
