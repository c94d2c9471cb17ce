----------------------------- MODULE LokiTransport -----------------------------
(***************************************************************************)
(* LokiTransportService (logging/loki-transport.service.ts): the in-memory *)
(* queue of log entries, the single push to Grafana Loki that may be in    *)
(* flight, its retry after a back-off, and the flush at shutdown.          *)
(* An entry is the position at which it was enqueued.  flush runs without  *)
(* interruption up to the fetch, so calling it and settling it are the     *)
(* actions; entries arrive, the timer fires and the module is destroyed    *)
(* while a push is in flight.                                              *)
(***************************************************************************)
EXTENDS Naturals, Sequences, FiniteSets

CONSTANTS
  Batch,      \* GRAFANA_LOKI_BATCH_SIZE
  MaxQueue,   \* GRAFANA_LOKI_MAX_QUEUE_SIZE
  MaxEntries  \* bound: entries the application logs

ASSUME SizeAssumption ==
  Batch \in Nat \ {0} /\ MaxQueue \in Nat \ {0} /\ MaxEntries \in Nat

VARIABLES
  logged,      \* entries enqueued so far
  queue,       \* this.queue
  isFlushing,  \* this.isFlushing
  pushes,      \* the calls of pushBatch under way
  backingOff,  \* Date.now() < this.nextRetryAt
  phase,       \* "running" | "stopping" | "stopped" | "exited"
  delivered,   \* entries Loki has stored
  dropped,     \* entries enqueue gave up and reported because the queue was full
  cut,         \* history: entries a failed push gave up, which nothing reports
  failed,      \* history: entries of pushes that failed
  acked,       \* history: entries of pushes Loki has confirmed
  mark         \* history: entries logged before a shutdown that found no push
               \* in flight, else 0

history == <<cut, failed, acked, mark>>
vars == <<logged, queue, isFlushing, pushes, backingOff, phase, delivered, dropped,
          cut, failed, acked, mark>>

Entry == 1..MaxEntries
Elements(s) == {s[i] : i \in 1..Len(s)}
Push == [batch : Seq(Entry), force : BOOLEAN]

----------------------------------------------------------------------------
\* Variants of Newest: the newest entries are the ones cut off; nothing is.
Oldest(s) == SubSeq(s, 1, IF Len(s) > MaxQueue THEN MaxQueue ELSE Len(s))
Unbounded(s) == s
\* slice(-maxQueueSize).
Newest(s) == SubSeq(s, IF Len(s) > MaxQueue THEN Len(s) - MaxQueue + 1 ELSE 1, Len(s))

\* Variants of Requeued: the failed batch goes last; it is forgotten.
RequeuedLast(batch) == queue \o batch
Forgotten(batch) == queue
\* A failed batch goes back in front of what arrived since.
Requeued(batch) == batch \o queue

\* Variants of Busy: a flush waits for a full batch; the back-off holds at
\* shutdown too.
BusyBackingOff(q, busy, force, wait) == busy \/ q = <<>> \/ wait
BusyUnlessFull(q, busy, force, wait) ==
  busy \/ q = <<>> \/ (~force /\ (wait \/ Len(q) < Batch))
\* The early return of flush.
Busy(q, busy, force, wait) == busy \/ q = <<>> \/ (~force /\ wait)

Slice(q, force) == SubSeq(q, 1, IF force \/ Len(q) < Batch THEN Len(q) ELSE Batch)

\* Variant of Flush: the batch is copied, not taken off the queue.
FlushCopy(q, ps, busy, force, wait) ==
  IF Busy(q, busy, force, wait)
  THEN queue' = q /\ pushes' = ps /\ isFlushing' = busy
  ELSE /\ queue' = q
       /\ pushes' = ps \cup {[batch |-> Slice(q, force), force |-> force]}
       /\ isFlushing' = TRUE

\* flush(force) on the queue q, with ps in flight: returns, or takes a batch
\* off the queue and starts to push it.
Flush(q, ps, busy, force, wait) ==
  IF Busy(q, busy, force, wait)
  THEN queue' = q /\ pushes' = ps /\ isFlushing' = busy
  ELSE LET batch == Slice(q, force) IN
       /\ queue' = SubSeq(q, Len(batch) + 1, Len(q))
       /\ pushes' = ps \cup {[batch |-> batch, force |-> force]}
       /\ isFlushing' = TRUE

----------------------------------------------------------------------------
\* enqueue: append, cut the queue to size and say so, flush a full batch.
Enqueue ==
  LET q == Newest(Append(queue, logged + 1)) IN
  /\ phase # "exited"
  /\ logged < MaxEntries
  /\ logged' = logged + 1
  /\ dropped' = dropped \cup (Elements(Append(queue, logged + 1)) \ Elements(q))
  /\ IF Len(q) >= Batch THEN Flush(q, pushes, isFlushing, FALSE, backingOff)
     ELSE queue' = q /\ UNCHANGED <<pushes, isFlushing>>
  /\ UNCHANGED <<backingOff, phase, delivered, history>>

\* setInterval.
TimerFires ==
  /\ phase = "running"
  /\ Flush(queue, pushes, isFlushing, FALSE, backingOff)
  /\ UNCHANGED <<logged, backingOff, phase, delivered, dropped, history>>

\* onModuleDestroy: no more timer; the forced flush is awaited, but returns
\* at once when a push is already in flight.
Destroy ==
  /\ phase = "running"
  /\ phase' = IF Busy(queue, isFlushing, TRUE, backingOff) THEN "stopped" ELSE "stopping"
  /\ Flush(queue, pushes, isFlushing, TRUE, backingOff)
  /\ mark' = IF isFlushing THEN 0 ELSE logged
  /\ UNCHANGED <<logged, backingOff, delivered, dropped, cut, failed, acked>>

\* Variant of Settle: a forced flush is called in a loop until the queue is
\* empty and isFlushing cleared after the loop, so every call returns early.
SettleSpinning(p, q) ==
  IF p.force /\ q # <<>>
  THEN Flush(q, pushes \ {p}, TRUE, TRUE, FALSE) /\ UNCHANGED phase
  ELSE /\ queue' = q /\ pushes' = pushes \ {p} /\ isFlushing' = FALSE
       /\ phase' = IF p.force THEN "stopped" ELSE phase

\* The finally block: a forced flush goes on until the queue is empty.
Settle(p, q) ==
  IF p.force /\ q # <<>>
  THEN Flush(q, pushes \ {p}, FALSE, TRUE, FALSE) /\ UNCHANGED phase
  ELSE /\ queue' = q /\ pushes' = pushes \ {p} /\ isFlushing' = FALSE
       /\ phase' = IF p.force THEN "stopped" ELSE phase

\* Loki answers 2xx in time.
PushOk(p) ==
  /\ p \in pushes
  /\ delivered' = delivered \cup Elements(p.batch)
  /\ acked' = acked \cup Elements(p.batch)
  /\ backingOff' = FALSE
  /\ Settle(p, queue)
  /\ UNCHANGED <<logged, dropped, cut, failed, mark>>

\* The fetch rejects, times out or is answered with an error, whether or not
\* Loki has stored the batch.  What the slice gives up is not reported.
PushFail(p) ==
  LET q == Newest(Requeued(p.batch)) IN
  /\ p \in pushes
  /\ \E stored \in BOOLEAN :
       delivered' = IF stored THEN delivered \cup Elements(p.batch) ELSE delivered
  /\ backingOff' = TRUE
  /\ failed' = failed \cup Elements(p.batch)
  /\ cut' = cut \cup (Elements(Requeued(p.batch)) \ Elements(q))
  /\ Settle(p, q)
  /\ UNCHANGED <<logged, dropped, acked, mark>>

\* nextRetryAt is reached.
BackoffEnds ==
  /\ backingOff
  /\ backingOff' = FALSE
  /\ UNCHANGED <<logged, queue, isFlushing, pushes, phase, delivered, dropped, history>>

\* The process ends once every module is destroyed; what is in flight may not
\* arrive, what is queued never will.
Exit ==
  /\ phase = "stopped"
  /\ phase' = "exited"
  /\ pushes' = {}
  /\ UNCHANGED <<logged, queue, isFlushing, backingOff, delivered, dropped, history>>

----------------------------------------------------------------------------
Init ==
  /\ logged = 0
  /\ queue = <<>>
  /\ isFlushing = FALSE
  /\ pushes = {}
  /\ backingOff = FALSE
  /\ phase = "running"
  /\ delivered = {}
  /\ dropped = {}
  /\ cut = {} /\ failed = {} /\ acked = {} /\ mark = 0

Answered == \E p \in pushes : PushOk(p)
Rejected == \E p \in pushes : PushFail(p)

Next == \/ Enqueue \/ TimerFires \/ Destroy \/ Answered \/ Rejected
        \/ BackoffEnds \/ Exit

Spec == Init /\ [][Next]_vars

\* The interval fires, time passes and AbortSignal.timeout settles every
\* push; nothing is assumed of how Loki answers.
FairSpec == /\ Spec
            /\ WF_vars(TimerFires) /\ WF_vars(BackoffEnds)
            /\ WF_vars(Answered \/ Rejected)

----------------------------------------------------------------------------
\* Properties

InFlight == UNION {Elements(p.batch) : p \in pushes}

\* The variables hold what they are declared to hold.
TypeOK ==
  /\ logged \in 0..MaxEntries
  /\ queue \in Seq(Entry) /\ Len(queue) <= MaxQueue
  /\ isFlushing \in BOOLEAN
  /\ pushes \subseteq Push
  /\ backingOff \in BOOLEAN
  /\ phase \in {"running", "stopping", "stopped", "exited"}
  /\ delivered \subseteq Entry
  /\ dropped \subseteq Entry
  /\ cut \subseteq Entry /\ failed \subseteq Entry
  /\ acked \subseteq Entry /\ mark \in 0..MaxEntries

\* Given up for room, reported or not.
Gone == dropped \cup cut

\* Until the process ends an entry is lost without a report in one way only,
\* whatever arrives, fails or shuts down while a push is in flight: its own
\* push failed, and there was no room left to put it back (line 126).
Accounted ==
  /\ phase # "exited" =>
       1..logged = Elements(queue) \cup InFlight \cup delivered \cup dropped \cup cut
  /\ cut \subseteq failed

\* At most one push is in flight (isFlushing), and what it carries is older
\* than all that waits, in the order of logging, also after a failed batch
\* was put back.
InOrder ==
  /\ Cardinality(pushes) <= 1
  /\ \A p \in pushes :
       LET line == p.batch \o queue IN
       \A i, j \in 1..Len(line) : i < j => line[i] < line[j]

\* What is given up for room is older than all that is kept.
DropsOldest == \A d \in Gone, q \in Elements(queue) : d < q

\* A Loki that refuses push after push takes one now and then.
LokiBack == []<><<Rejected>>_vars => []<><<Answered>>_vars

\* As long as the process is not told to stop and Loki comes back, every
\* entry is stored by Loki or given up for room: neither the back-off nor
\* isFlushing gets stuck, and a batch that never fills up is sent by the timer.
Settled ==
  LokiBack => \A e \in Entry :
    (e <= logged) ~> (e \in delivered \cup Gone \/ phase # "running")

\* What Loki has confirmed is never queued or sent again: only a batch whose
\* push failed, by a time-out after it was stored for one, goes out twice.
ConfirmedOnce == acked \cap (Elements(queue) \cup InFlight) = {}

\* A shutdown that finds no push in flight loses nothing logged before it,
\* though Loki is in its back-off or fails again: onModuleDestroy is done, and
\* the process gone, only when Loki has confirmed it or it was given up for
\* room.  (One that finds a push in flight waits for nothing: mark is 0.)
ShutdownFlushes ==
  phase \in {"stopped", "exited"} => 1..mark \subseteq acked \cup Gone

\* onModuleDestroy ends, back-off or not, unless pushes keep failing or
\* entries keep arriving: those are the only ways the forced flush of line 133
\* goes on for ever.
ShutdownEnds ==
  <>[](phase = "stopping") => []<><<Rejected \/ Enqueue>>_vars

=============================================================================
