------------------------- MODULE RequestPipelineProofs -------------------------
(***************************************************************************)
(* Theorems about RequestPipeline, for any number of overlapping requests, *)
(* any users and any inputs class-validator may complain of.               *)
(***************************************************************************)
EXTENDS RequestPipeline, FiniteSetTheorems, SequenceTheorems,
        TLAPS

MeasuredNow == {r \in Req : pc[r] = "handler" /\ route[r] \in Measured}

\* What EveryAnswerLogged says of one request, and EnvelopeMatchesStatus.
Logged(r) ==
  LET l == lines[r]
      n == Len(l)
  IN /\ \A i \in 1..n : l[i].event = "http_exception" <=> (body[r] = "error" /\ i = n)
     /\ body[r] = "error" =>
          /\ n \in {1, 2}
          /\ l[n].status = status[r]
          /\ l[n].level = IF status[r] >= 500 THEN "error" ELSE "warn"
     /\ body[r] # "error" => n = IF route[r] = "metrics" THEN 0 ELSE 1
Matching(r) ==
  /\ body[r] = "error" <=> status[r] >= 400
  /\ status[r] >= 500 =>
       report[r] = [message |-> "generic", code |-> "INTERNAL_SERVER_ERROR",
                    details |-> <<>>]

\* What a request has when it stands where pc says.
Served(r) ==
  /\ pc[r] = "idle" => caller[r] = None /\ lines[r] = <<>>
  /\ pc[r] # "idle" => context[r] = caller[r]
  /\ pc[r] \in {"guards", "handler"} => lines[r] = <<>>
  /\ pc[r] = "handler" => status[r] \in {200, 201}
  /\ pc[r] = "filter" =>
       /\ thrown[r] \in Exception
       /\ Len(lines[r]) <= 1
       /\ \A i \in 1..Len(lines[r]) : lines[r][i].event = "http_request"
  /\ \A i \in 1..Len(lines[r]) : lines[r][i].user = caller[r]
  /\ pc[r] = "sent" => Matching(r) /\ Logged(r)

Inv ==
  /\ TypeOK
  /\ IsFiniteSet(MeasuredNow)
  /\ Balanced
  /\ \A r \in Req : Served(r)

----------------------------------------------------------------------------
(* Exceptions *)

\* The filter answers every exception with a failure, and from 500 on with
\* nothing of it.
LEMMA ExceptionStatus ==
  ASSUME NEW x \in Exception
  PROVE  /\ resolveStatusCode(x) \in Status
         /\ resolveStatusCode(x) >= 400
         /\ resolveStatusCode(x) >= 500 =>
              ErrorBody(x) = [message |-> "generic", code |-> "INTERNAL_SERVER_ERROR",
                              details |-> <<>>]
<1>1. CASE x = Unknown
  BY <1>1 DEF Unknown, resolveStatusCode, Status, ErrorBody, resolveMessage,
              resolveErrorCode, resolveDetails
<1>2. CASE x \in {Malformed, Unauthorized, Forbidden, NotFound, Conflict, Limited}
  <2>1. resolveStatusCode(x) \in {400, 401, 403, 404, 409, 429}
    BY <1>2 DEF Malformed, Unauthorized, Forbidden, NotFound, Conflict, Limited,
                Http, resolveStatusCode
  <2> QED
    BY <2>1 DEF Status
<1>3. CASE x \in {exceptionFactory(t) : t \in Complaint}
  <2>1. resolveStatusCode(x) = 400
    BY <1>3 DEF exceptionFactory, resolveStatusCode
  <2> QED
    BY <2>1 DEF Status
<1> QED
  BY <1>1, <1>2, <1>3 DEF Exception

LEMMA ThrownAreExceptions ==
  ASSUME NEW h \in Route
  PROVE  /\ Refusals(h) \subseteq Exception
         /\ GuardThrows(h) \subseteq Exception
         /\ HandlerThrows(h) \cup PipeThrows(h) \subseteq Exception
<1>1. Refusals(h) \subseteq Exception /\ GuardThrows(h) \subseteq Exception
  BY DEF Refusals, GuardThrows, Exception
<1>2. HandlerThrows(h) \subseteq Exception
  BY DEF HandlerThrows, Exception
<1>3. PipeThrows(h) \subseteq Exception
  BY DEF PipeThrows, Exception
<1> QED
  BY <1>1, <1>2, <1>3

LEMMA HandlerValues ==
  ASSUME NEW h \in Route
  PROVE  /\ SuccessStatus(h) \in {200, 201}
         /\ Policy(h) \in CachePolicies
         /\ SuccessBody(h) \in {"plain", "envelope"}
BY DEF SuccessStatus, Policy, CachePolicies, SuccessBody

----------------------------------------------------------------------------
(* Frame: a step of r leaves every other request as it is. *)

\* Everything of one request.
Of(r) == <<pc[r], route[r], status[r], body[r], thrown[r], report[r], context[r],
           lines[r], caller[r]>>

LEMMA ServedAgain ==
  ASSUME NEW q \in Req, Served(q), Of(q)' = Of(q)
  PROVE  Served(q)'
BY DEF Served, Of, Matching, Logged

\* The measured requests in their handlers, when r enters, leaves, or neither.
LEMMA MeasuredSame ==
  ASSUME TypeOK, NEW r \in Req, NEW where \in {"idle", "guards", "handler", "filter", "sent"},
         pc' = [pc EXCEPT ![r] = where],
         \A q \in Req \ {r} : route'[q] = route[q],
         ~(pc[r] = "handler" /\ route[r] \in Measured),
         ~(where = "handler" /\ route'[r] \in Measured)
  PROVE  MeasuredNow' = MeasuredNow
BY DEF TypeOK, MeasuredNow

LEMMA InvInit == Init => Inv
<1> SUFFICES ASSUME Init PROVE Inv
  OBVIOUS
<1>1. TypeOK
  <2>1. <<>> \in Seq(Line)
    OBVIOUS
  <2> QED
    BY <2>1 DEF Init, TypeOK, Route, Status, CachePolicies
<1>2. MeasuredNow = {}
  BY DEF Init, MeasuredNow
<1>3. IsFiniteSet(MeasuredNow) /\ Cardinality(MeasuredNow) = 0
  BY <1>2, FS_EmptySet
<1>4. Balanced
  BY <1>3 DEF Init, Balanced, MeasuredNow, TotalCounted, Status
<1>5. ASSUME NEW r \in Req PROVE Served(r)
  BY DEF Init, Served
<1> QED
  BY <1>1, <1>3, <1>4, <1>5 DEF Inv

----------------------------------------------------------------------------
(* The steps *)

LEMMA Assemble ==
  ASSUME Inv, NEW r \in Req, TypeOK', IsFiniteSet(MeasuredNow)', Balanced', Served(r)',
         \A q \in Req \ {r} : Of(q)' = Of(q)
  PROVE  Inv'
<1>1. ASSUME NEW q \in Req PROVE Served(q)'
  BY ServedAgain DEF Inv
<1> QED
  BY <1>1 DEF Inv

LEMMA CountedStatuses == ASSUME TypeOK PROVE \A s \in Status : counted[s] \in Nat
BY DEF TypeOK

LEMMA TotalTyped == ASSUME TypeOK PROVE TotalCounted \in Nat
<1>1. /\ counted[200] \in Nat /\ counted[201] \in Nat /\ counted[400] \in Nat
      /\ counted[401] \in Nat /\ counted[403] \in Nat /\ counted[404] \in Nat
      /\ counted[409] \in Nat /\ counted[429] \in Nat /\ counted[500] \in Nat
  BY CountedStatuses DEF Status
<1> QED
  BY <1>1 DEF TotalCounted

LEMMA BalancedSame ==
  ASSUME Inv, UNCHANGED <<metrics, entered>>, MeasuredNow' = MeasuredNow
  PROVE  IsFiniteSet(MeasuredNow)' /\ Balanced'
<1>1. /\ IsFiniteSet(MeasuredNow) /\ inflight = Cardinality(MeasuredNow)
      /\ inflight + TotalCounted = entered
  BY DEF Inv, Balanced, MeasuredNow
<1>2. TotalCounted' = TotalCounted /\ inflight' = inflight /\ entered' = entered
  BY DEF TotalCounted, metrics
<1>3. /\ IsFiniteSet(MeasuredNow') /\ inflight' = Cardinality(MeasuredNow')
      /\ inflight' + TotalCounted' = entered'
  BY <1>1, <1>2
<1> QED
  BY <1>3 DEF Balanced, MeasuredNow

LEMMA AcceptStep ==
  ASSUME Inv, NEW r \in Req, NEW h \in Route, Accept(r, h)
  PROVE  Inv'
<1>1. TypeOK /\ pc[r] = "idle" /\ Served(r)
  BY DEF Inv, Accept
<1>2. Refusals(h) \subseteq Exception
  BY ThrownAreExceptions
<1>3. PICK where \in {"guards", "filter"} :
        /\ pc' = [pc EXCEPT ![r] = where]
        /\ where = "guards" => UNCHANGED thrown
        /\ where = "filter" => \E x \in Exception : thrown' = [thrown EXCEPT ![r] = x]
  BY <1>2 DEF Accept, Set
<1>4. /\ route' = [route EXCEPT ![r] = h] /\ status' = [status EXCEPT ![r] = 200]
      /\ cacheControl' = [cacheControl EXCEPT ![r] = "none"]
      /\ body' = [body EXCEPT ![r] = "none"] /\ context' = [context EXCEPT ![r] = None]
      /\ arrived' = arrived + 1
      /\ UNCHANGED <<report, lines, inflight, counted, errors, entered, failed,
                     caller>>
  BY DEF Accept, Set, Run, metrics
<1>5. TypeOK'
  <2>1. thrown' \in [Req -> Exception \cup {None}]
    BY <1>1, <1>3 DEF TypeOK
  <2>2. status' \in [Req -> Status] /\ cacheControl' \in [Req -> CachePolicies]
    BY <1>1, <1>4 DEF TypeOK, Status, CachePolicies
  <2>3. pc' \in [Req -> {"idle", "guards", "handler", "filter", "sent"}]
    BY <1>1, <1>3 DEF TypeOK
  <2>4. arrived' \in Nat
    BY <1>1, <1>4 DEF TypeOK
  <2> QED
    BY <1>1, <1>4, <2>1, <2>2, <2>3, <2>4 DEF TypeOK
<1>6. MeasuredNow' = MeasuredNow
  BY <1>1, <1>3, <1>4, MeasuredSame DEF TypeOK
<1>7. Served(r)'
  BY <1>1, <1>3, <1>4 DEF Served, TypeOK
<1>8. \A q \in Req \ {r} : Of(q)' = Of(q)
  BY <1>1, <1>3, <1>4 DEF TypeOK, Of
<1> QED
  BY <1>4, <1>5, <1>6, <1>7, <1>8, BalancedSame, Assemble DEF metrics

LEMMA GuardsRejectStep ==
  ASSUME Inv, NEW r \in Req, GuardsReject(r)
  PROVE  Inv'
<1>1. TypeOK /\ pc[r] = "guards" /\ Served(r)
  BY DEF Inv, GuardsReject
<1>2. PICK x \in Exception : thrown' = [thrown EXCEPT ![r] = x]
  BY <1>1, ThrownAreExceptions DEF GuardsReject, Set, TypeOK
<1>3. /\ pc' = [pc EXCEPT ![r] = "filter"]
      /\ UNCHANGED <<route, status, cacheControl, body, report, context, lines, inflight,
                     counted, errors, arrived, entered, failed, caller>>
  BY DEF GuardsReject, Set, metrics, history
<1>4. TypeOK'
  BY <1>1, <1>2, <1>3 DEF TypeOK
<1>5. MeasuredNow' = MeasuredNow
  BY <1>1, <1>3, MeasuredSame
<1>6. Served(r)'
  BY <1>1, <1>2, <1>3, EmptySeq DEF Served, TypeOK
<1>7. \A q \in Req \ {r} : Of(q)' = Of(q)
  BY <1>1, <1>2, <1>3 DEF TypeOK, Of
<1> QED
  BY <1>3, <1>4, <1>5, <1>6, <1>7, BalancedSame, Assemble DEF metrics

LEMMA GuardsPassStep ==
  ASSUME Inv, NEW r \in Req, GuardsPass(r)
  PROVE  Inv'
<1>1. TypeOK /\ pc[r] = "guards" /\ Served(r) /\ route[r] \in Route
  BY DEF Inv, GuardsPass, TypeOK
<1>2. /\ pc' = [pc EXCEPT ![r] = "handler"]
      /\ status' = [status EXCEPT ![r] = SuccessStatus(route[r])]
      /\ cacheControl' = [cacheControl EXCEPT ![r] = Policy(route[r])]
      /\ UNCHANGED <<route, thrown, body, report, lines, counted, errors,
                     arrived, failed>>
  BY DEF GuardsPass, Set
<1>3. /\ SuccessStatus(route[r]) \in {200, 201} /\ {200, 201} \subseteq Status
      /\ Policy(route[r]) \in CachePolicies
  BY <1>1, HandlerValues DEF Status
<1>4. PICK u \in User \cup {None} :
        \/ context' = [context EXCEPT ![r] = u] /\ caller' = [caller EXCEPT ![r] = u]
        \/ UNCHANGED <<context, caller>>
  BY DEF GuardsPass, Set, Assign
<1>5. IF route[r] \in Measured
      THEN inflight' = inflight + 1 /\ entered' = entered + 1
      ELSE UNCHANGED <<inflight, entered>>
  BY DEF GuardsPass
<1>6. TypeOK'
  <2>1. inflight' \in Nat /\ entered' \in Nat
    BY <1>1, <1>5 DEF TypeOK
  <2>2. status' \in [Req -> Status] /\ cacheControl' \in [Req -> CachePolicies]
    BY <1>1, <1>2, <1>3 DEF TypeOK
  <2>3. context' \in [Req -> User \cup {None}] /\ caller' \in [Req -> User \cup {None}]
    <3>1. CASE UNCHANGED <<context, caller>>
      BY <1>1, <3>1 DEF TypeOK
    <3>2. CASE context' = [context EXCEPT ![r] = u] /\ caller' = [caller EXCEPT ![r] = u]
      BY <1>1, <3>2 DEF TypeOK
    <3> QED
      BY <1>4, <3>1, <3>2
  <2> QED
    BY <1>1, <1>2, <2>1, <2>2, <2>3 DEF TypeOK
<1>7. IsFiniteSet(MeasuredNow)' /\ Balanced'
  <2>1. CASE route[r] \in Measured
    <3>1. MeasuredNow' = MeasuredNow \cup {r} /\ r \notin MeasuredNow
      BY <1>1, <1>2, <2>1 DEF MeasuredNow, TypeOK
    <3>2. /\ IsFiniteSet(MeasuredNow')
          /\ Cardinality(MeasuredNow') = Cardinality(MeasuredNow) + 1
      BY <3>1, FS_AddElement DEF Inv
    <3>3. inflight = Cardinality(MeasuredNow) /\ inflight + TotalCounted = entered
      BY DEF Inv, Balanced, MeasuredNow
    <3>4. TotalCounted \in Int /\ TotalCounted' = TotalCounted /\ inflight \in Int
      BY <1>1, <1>2, TotalTyped DEF TotalCounted, TypeOK
    <3>5. inflight' = Cardinality(MeasuredNow') /\ inflight' + TotalCounted' = entered'
      BY <1>5, <2>1, <3>2, <3>3, <3>4
    <3> QED
      BY <3>2, <3>5 DEF Balanced, MeasuredNow
  <2>2. CASE route[r] \notin Measured
    <3>1. MeasuredNow' = MeasuredNow
      BY <1>1, <1>2, <2>2, MeasuredSame
    <3> QED
      BY <1>2, <1>5, <2>2, <3>1, BalancedSame DEF metrics
  <2> QED
    BY <2>1, <2>2
<1>8. Served(r)'
  <2>1. context'[r] = caller'[r]
    BY <1>1, <1>4 DEF Served, TypeOK
  <2> QED
    BY <1>1, <1>2, <1>3, <2>1, EmptySeq DEF Served, TypeOK
<1>9. \A q \in Req \ {r} : Of(q)' = Of(q)
  BY <1>1, <1>2, <1>4 DEF TypeOK, Of
<1> QED
  BY <1>6, <1>7, <1>8, <1>9, Assemble

\* A request that leaves its handler is counted, and taken off the gauge.
LEMMA FinalizeBalances ==
  ASSUME Inv, NEW r \in Req, NEW ok, pc[r] = "handler", Finalize(r, ok),
         NEW where \in {"filter", "sent"}, pc' = [pc EXCEPT ![r] = where],
         UNCHANGED <<route, entered>>
  PROVE  /\ IsFiniteSet(MeasuredNow)' /\ Balanced'
         /\ inflight' \in Nat /\ counted' \in [Status -> Nat] /\ errors' \in Nat
<1>1. /\ TypeOK /\ status[r] \in {200, 201} /\ {200, 201} \subseteq Status
      /\ TotalCounted \in Nat
  BY TotalTyped DEF Inv, Served, Status
<1>2. /\ inflight \in Nat /\ counted \in [Status -> Nat] /\ errors \in Nat
  BY <1>1 DEF TypeOK
<1>3. CASE route[r] \notin Measured
  <2>1. MeasuredNow' = MeasuredNow
    BY <1>1, <1>3, MeasuredSame
  <2>2. UNCHANGED metrics
    BY <1>3 DEF Finalize
  <2> QED
    BY <1>2, <2>1, <2>2, BalancedSame DEF metrics
<1>4. CASE route[r] \in Measured
  <2>1. /\ inflight' = inflight - 1
        /\ counted' = [counted EXCEPT ![status[r]] = @ + 1]
        /\ errors' = IF status[r] >= 500 THEN errors + 1 ELSE errors
    BY <1>4 DEF Finalize
  <2>2. MeasuredNow' = MeasuredNow \ {r} /\ r \in MeasuredNow
    BY <1>1, <1>4 DEF MeasuredNow, TypeOK
  <2>3. /\ IsFiniteSet(MeasuredNow) /\ inflight = Cardinality(MeasuredNow)
        /\ inflight + TotalCounted = entered
    BY DEF Inv, Balanced, MeasuredNow
  <2>4. /\ IsFiniteSet(MeasuredNow')
        /\ Cardinality(MeasuredNow') = Cardinality(MeasuredNow) - 1
    BY <2>2, <2>3, FS_RemoveElement
  <2>5. Cardinality(MeasuredNow') \in Nat
    BY <2>4, FS_CardinalityType
  <2>6. inflight' = Cardinality(MeasuredNow') /\ inflight' \in Nat
    BY <2>1, <2>3, <2>4, <2>5
  <2>7. counted' \in [Status -> Nat] /\ errors' = errors
    BY <1>1, <1>2, <2>1
  <2>8. TotalCounted' = TotalCounted + 1
    <3>1. CASE status[r] = 200
      <4>1. counted' = [counted EXCEPT ![200] = @ + 1] /\ 200 \in Status
        BY <1>1, <2>1, <3>1
      <4>2. counted'[200] = counted[200] + 1
        BY <1>2, <4>1
      <4>3. \A s \in Status \ {200} : counted'[s] = counted[s]
        BY <1>2, <4>1
      <4> QED
        BY <1>1, <4>2, <4>3, CountedStatuses DEF TotalCounted, Status
    <3>2. CASE status[r] = 201
      <4>1. counted' = [counted EXCEPT ![201] = @ + 1] /\ 201 \in Status
        BY <1>1, <2>1, <3>2
      <4>2. counted'[201] = counted[201] + 1
        BY <1>2, <4>1
      <4>3. \A s \in Status \ {201} : counted'[s] = counted[s]
        BY <1>2, <4>1
      <4> QED
        BY <1>1, <4>2, <4>3, CountedStatuses DEF TotalCounted, Status
    <3> QED
      BY <1>1, <3>1, <3>2
  <2>9. inflight' + TotalCounted' = entered'
    BY <1>1, <1>2, <2>1, <2>3, <2>8
  <2> QED
    BY <1>2, <2>4, <2>6, <2>7, <2>9 DEF Balanced, MeasuredNow
<1> QED
  BY <1>3, <1>4

\* What the request log writes when the handler settles.
LEMMA AccessLine ==
  ASSUME Inv, NEW r \in Req, pc[r] = "handler", LogAccess(r)
  PROVE  /\ lines' \in [Req -> Seq(Line)]
         /\ \A q \in Req \ {r} : lines'[q] = lines[q]
         /\ Len(lines'[r]) = IF route[r] = "metrics" THEN 0 ELSE 1
         /\ \A i \in 1..Len(lines'[r]) :
              lines'[r][i].event = "http_request" /\ lines'[r][i].user = caller[r]
<1>1. /\ TypeOK /\ lines[r] = <<>> /\ context[r] = caller[r]
      /\ status[r] \in {200, 201} /\ {200, 201} \subseteq Status
  BY DEF Inv, Served, Status
<1>2. lines \in [Req -> Seq(Line)] /\ context[r] \in User \cup {None}
  BY <1>1 DEF TypeOK
<1>3. CASE route[r] = "metrics"
  <2>1. lines' = lines
    BY <1>3 DEF LogAccess
  <2> QED
    BY <1>1, <1>2, <1>3, <2>1, EmptySeq
<1>4. CASE route[r] # "metrics"
  <2> DEFINE l == [event |-> "http_request",
                   level |-> IF status[r] >= 400 THEN "warn" ELSE "info",
                   status |-> status[r], user |-> context[r]]
  <2>1. lines' = [lines EXCEPT ![r] = Append(<<>>, l)]
    BY <1>1, <1>4 DEF LogAccess, Write, Set
  <2>2. l \in Line
    BY <1>1, <1>2 DEF Line
  <2>3. l.event = "http_request" /\ l.user = caller[r]
    BY <1>1
  <2> HIDE DEF l
  <2>4. /\ Append(<<>>, l) \in Seq(Line) /\ Len(Append(<<>>, l)) = 1
        /\ Append(<<>>, l)[1] = l
    <3>1. <<>> \in Seq(Line) /\ Len(<<>>) = 0
      BY EmptySeq
    <3> QED
      BY <2>2, <3>1, AppendProperties
  <2>5. lines'[r] = Append(<<>>, l) /\ lines' \in [Req -> Seq(Line)]
    BY <1>2, <2>1, <2>4
  <2> QED
    BY <1>2, <1>4, <2>1, <2>3, <2>4, <2>5
<1> QED
  BY <1>3, <1>4

LEMMA HandlerReturnsStep ==
  ASSUME Inv, NEW r \in Req, HandlerReturns(r)
  PROVE  Inv'
<1>1. TypeOK /\ pc[r] = "handler" /\ Served(r) /\ status[r] \in {200, 201}
  BY DEF Inv, HandlerReturns, Served
<1>2. /\ pc' = [pc EXCEPT ![r] = "sent"]
      /\ body' = [body EXCEPT ![r] = SuccessBody(route[r])]
      /\ Finalize(r, TRUE) /\ LogAccess(r)
      /\ UNCHANGED <<route, status, cacheControl, thrown, report, context,
                     arrived, entered, failed, caller>>
  BY DEF HandlerReturns, Set, history
<1>3. /\ IsFiniteSet(MeasuredNow)' /\ Balanced'
      /\ inflight' \in Nat /\ counted' \in [Status -> Nat] /\ errors' \in Nat
  BY <1>1, <1>2, FinalizeBalances
<1>4. /\ lines' \in [Req -> Seq(Line)]
      /\ \A q \in Req \ {r} : lines'[q] = lines[q]
      /\ Len(lines'[r]) = IF route[r] = "metrics" THEN 0 ELSE 1
      /\ \A i \in 1..Len(lines'[r]) :
           lines'[r][i].event = "http_request" /\ lines'[r][i].user = caller[r]
  BY <1>1, <1>2, AccessLine
<1>5. SuccessBody(route[r]) \in {"plain", "envelope"}
  BY <1>1, HandlerValues DEF TypeOK
<1>6. TypeOK'
  <2>1. /\ pc' \in [Req -> {"idle", "guards", "handler", "filter", "sent"}]
        /\ body' \in [Req -> {"none", "plain", "envelope", "error"}]
    BY <1>1, <1>2, <1>5 DEF TypeOK
  <2> QED
    BY <1>1, <1>2, <1>3, <1>4, <2>1 DEF TypeOK
<1>7. Served(r)'
  <2>1. /\ pc'[r] = "sent" /\ body'[r] # "error" /\ status'[r] \in {200, 201}
        /\ context'[r] = caller'[r] /\ caller'[r] = caller[r] /\ route'[r] = route[r]
    BY <1>1, <1>2, <1>5 DEF TypeOK, Served
  <2>2. Matching(r)'
    BY <2>1 DEF Matching
  <2>3. Logged(r)'
    BY <1>4, <2>1 DEF Logged
  <2> QED
    BY <1>4, <2>1, <2>2, <2>3 DEF Served
<1>8. \A q \in Req \ {r} : Of(q)' = Of(q)
  BY <1>1, <1>2, <1>4 DEF TypeOK, Of
<1> QED
  BY <1>3, <1>6, <1>7, <1>8, Assemble

LEMMA HandlerRejectsStep ==
  ASSUME Inv, NEW r \in Req, HandlerRejects(r)
  PROVE  Inv'
<1>1. TypeOK /\ pc[r] = "handler" /\ Served(r) /\ route[r] \in Route
  BY DEF Inv, HandlerRejects, TypeOK
<1>2. PICK x \in Exception :
        /\ thrown' = [thrown EXCEPT ![r] = x]
        /\ failed' = IF route[r] \in Measured /\ resolveStatusCode(x) >= 500
                     THEN failed + 1 ELSE failed
  <2>1. HandlerThrows(route[r]) \cup PipeThrows(route[r]) \subseteq Exception
    BY <1>1, ThrownAreExceptions
  <2> QED
    BY <2>1 DEF HandlerRejects, Set
<1>3. /\ pc' = [pc EXCEPT ![r] = "filter"]
      /\ Finalize(r, FALSE) /\ LogAccess(r)
      /\ UNCHANGED <<route, status, cacheControl, body, report, context,
                     arrived, entered, caller>>
  BY DEF HandlerRejects, Set
<1>4. /\ IsFiniteSet(MeasuredNow)' /\ Balanced'
      /\ inflight' \in Nat /\ counted' \in [Status -> Nat] /\ errors' \in Nat
  BY <1>1, <1>3, FinalizeBalances
<1>5. /\ lines' \in [Req -> Seq(Line)]
      /\ \A q \in Req \ {r} : lines'[q] = lines[q]
      /\ Len(lines'[r]) = IF route[r] = "metrics" THEN 0 ELSE 1
      /\ \A i \in 1..Len(lines'[r]) :
           lines'[r][i].event = "http_request" /\ lines'[r][i].user = caller[r]
  BY <1>1, <1>3, AccessLine
<1>6. TypeOK'
  <2>1. /\ pc' \in [Req -> {"idle", "guards", "handler", "filter", "sent"}]
        /\ thrown' \in [Req -> Exception \cup {None}]
        /\ failed' \in Nat
    BY <1>1, <1>2, <1>3 DEF TypeOK
  <2> QED
    BY <1>1, <1>3, <1>4, <1>5, <2>1 DEF TypeOK
<1>7. Served(r)'
  <2>1. /\ pc'[r] = "filter" /\ thrown'[r] \in Exception
        /\ context'[r] = caller'[r] /\ caller'[r] = caller[r]
    BY <1>1, <1>2, <1>3 DEF TypeOK, Served
  <2> QED
    BY <1>5, <2>1 DEF Served
<1>8. \A q \in Req \ {r} : Of(q)' = Of(q)
  BY <1>1, <1>2, <1>3, <1>5 DEF TypeOK, Of
<1> QED
  BY <1>4, <1>6, <1>7, <1>8, Assemble

LEMMA FilterStep ==
  ASSUME Inv, NEW r \in Req, Filter(r)
  PROVE  Inv'
<1> DEFINE x == thrown[r]
           s == resolveStatusCode(x)
           l == [event |-> "http_exception", level |-> IF s >= 500 THEN "error" ELSE "warn",
                 status |-> s, user |-> context[r]]
           old == lines[r]
<1>1. /\ TypeOK /\ pc[r] = "filter" /\ Served(r) /\ x \in Exception
      /\ context[r] = caller[r] /\ old \in Seq(Line) /\ Len(old) <= 1
      /\ \A i \in 1..Len(old) : old[i].event = "http_request" /\ old[i].user = caller[r]
  BY DEF Inv, Filter, Served, TypeOK
<1>2. /\ s \in Status /\ s >= 400
      /\ s >= 500 =>
           ErrorBody(x) = [message |-> "generic", code |-> "INTERNAL_SERVER_ERROR",
                           details |-> <<>>]
  BY <1>1, ExceptionStatus
<1>3. lines' = [lines EXCEPT ![r] = Append(old, l)]
  BY DEF Filter, LogException, Write, Set
<1>4. /\ pc' = [pc EXCEPT ![r] = "sent"]
      /\ body' = [body EXCEPT ![r] = "error"] /\ status' = [status EXCEPT ![r] = s]
      /\ report' = [report EXCEPT ![r] = ErrorBody(x)]
      /\ UNCHANGED <<route, cacheControl, thrown, context, inflight, counted, errors,
                     arrived, entered, failed, caller>>
  BY DEF Filter, Answer, Set, metrics, history
<1>5. l \in Line /\ l.user = caller[r] /\ l.event = "http_exception" /\ l.status = s
      /\ l.level = IF s >= 500 THEN "error" ELSE "warn"
  BY <1>1, <1>2 DEF Line, TypeOK
<1> HIDE DEF l, s, x, old
<1>6. /\ Append(old, l) \in Seq(Line) /\ Len(Append(old, l)) = Len(old) + 1
      /\ \A i \in 1..Len(old) : Append(old, l)[i] = old[i]
      /\ Append(old, l)[Len(old) + 1] = l
  BY <1>1, <1>5, AppendProperties
<1>7. Len(old) \in {0, 1}
  <2>1. Len(old) \in Nat
    BY <1>1, LenProperties
  <2>2. \A n \in Nat : n <= 1 => n \in {0, 1}
    OBVIOUS
  <2> QED
    BY <1>1, <2>1, <2>2, Zenon
<1>8. TypeOK'
  <2>1. /\ pc' \in [Req -> {"idle", "guards", "handler", "filter", "sent"}]
        /\ body' \in [Req -> {"none", "plain", "envelope", "error"}]
        /\ status' \in [Req -> Status] /\ lines' \in [Req -> Seq(Line)]
    BY <1>1, <1>2, <1>3, <1>4, <1>6 DEF TypeOK
  <2>2. report' \in [Req -> {ErrorBody(y) : y \in Exception} \cup {None}]
    BY <1>1, <1>4 DEF TypeOK
  <2> QED
    BY <1>1, <1>4, <2>1, <2>2 DEF TypeOK
<1>9. MeasuredNow' = MeasuredNow
  BY <1>1, <1>4, MeasuredSame
<1>10. /\ pc'[r] = "sent" /\ body'[r] = "error" /\ status'[r] = s
       /\ report'[r] = ErrorBody(x) /\ context'[r] = caller'[r] /\ caller'[r] = caller[r]
       /\ lines'[r] = Append(old, l)
  BY <1>1, <1>3, <1>4 DEF TypeOK
<1>11. Matching(r)'
  BY <1>2, <1>10 DEF Matching
<1>12. \A i \in 1..Len(lines'[r]) :
         /\ lines'[r][i].event = "http_exception" <=> i = Len(lines'[r])
         /\ lines'[r][i].user = caller'[r]
  <2>1. CASE Len(old) = 0
    BY <1>5, <1>6, <1>10, <2>1
  <2>2. CASE Len(old) = 1
    <3>1. /\ Len(lines'[r]) = 2
          /\ lines'[r][1] = old[1] /\ lines'[r][2] = l
          /\ old[1].event = "http_request" /\ old[1].user = caller[r]
      BY <1>1, <1>6, <1>10, <2>2
    <3>2. ASSUME NEW i \in 1..2
          PROVE  /\ lines'[r][i].event = "http_exception" <=> i = 2
                 /\ lines'[r][i].user = caller'[r]
      <4>1. CASE i = 1
        BY <1>10, <3>1, <4>1
      <4>2. CASE i = 2
        BY <1>5, <1>10, <3>1, <4>2
      <4> QED
        BY <4>1, <4>2
    <3> QED
      BY <3>1, <3>2
  <2> QED
    BY <1>7, <2>1, <2>2
<1>13. Logged(r)'
  <2>1. Len(lines'[r]) \in {1, 2} /\ lines'[r][Len(lines'[r])] = l
    BY <1>6, <1>7, <1>10
  <2> QED
    BY <1>5, <1>10, <1>12, <2>1 DEF Logged
<1>14. Served(r)'
  BY <1>10, <1>11, <1>12, <1>13 DEF Served
<1>15. \A q \in Req \ {r} : Of(q)' = Of(q)
  BY <1>1, <1>3, <1>4 DEF TypeOK, Of
<1> QED
  BY <1>4, <1>8, <1>9, <1>14, <1>15, BalancedSame, Assemble DEF metrics

LEMMA CloseStep ==
  ASSUME Inv, NEW r \in Req, Close(r)
  PROVE  Inv'
<1>1. TypeOK /\ pc[r] = "sent" /\ Served(r)
  BY DEF Inv, Close
<1>2. /\ pc' = [pc EXCEPT ![r] = "idle"] /\ thrown' = [thrown EXCEPT ![r] = None]
      /\ report' = [report EXCEPT ![r] = None] /\ lines' = [lines EXCEPT ![r] = <<>>]
      /\ caller' = [caller EXCEPT ![r] = None]
      /\ UNCHANGED <<route, status, cacheControl, body, context, inflight, counted, errors,
                     arrived, entered, failed>>
  BY DEF Close, Set, metrics
<1>3. TypeOK'
  <2>1. <<>> \in Seq(Line)
    BY EmptySeq
  <2>2. lines' \in [Req -> Seq(Line)]
    BY <1>1, <1>2, <2>1 DEF TypeOK
  <2>3. /\ pc' \in [Req -> {"idle", "guards", "handler", "filter", "sent"}]
        /\ thrown' \in [Req -> Exception \cup {None}]
        /\ caller' \in [Req -> User \cup {None}]
    BY <1>1, <1>2 DEF TypeOK
  <2>4. report' \in [Req -> {ErrorBody(y) : y \in Exception} \cup {None}]
    BY <1>1, <1>2 DEF TypeOK
  <2> QED
    BY <1>1, <1>2, <2>2, <2>3, <2>4 DEF TypeOK
<1>4. MeasuredNow' = MeasuredNow
  BY <1>1, <1>2, MeasuredSame
<1>5. Served(r)'
  <2>1. pc'[r] = "idle" /\ caller'[r] = None /\ lines'[r] = <<>> /\ Len(<<>>) = 0
    BY <1>1, <1>2, EmptySeq DEF TypeOK
  <2> QED
    BY <2>1 DEF Served
<1>6. \A q \in Req \ {r} : Of(q)' = Of(q)
  BY <1>1, <1>2 DEF TypeOK, Of
<1> QED
  BY <1>2, <1>3, <1>4, <1>5, <1>6, BalancedSame, Assemble DEF metrics

LEMMA InvStep == ASSUME Inv, [Next]_vars PROVE Inv'
<1>1. CASE UNCHANGED vars
  <2>1. TypeOK'
    BY <1>1 DEF Inv, TypeOK, vars
  <2>2. MeasuredNow' = MeasuredNow
    BY <1>1 DEF MeasuredNow, vars
  <2>3. IsFiniteSet(MeasuredNow)' /\ Balanced'
    BY <1>1, <2>2, BalancedSame DEF vars, metrics
  <2>4. ASSUME NEW q \in Req PROVE Served(q)'
    BY <1>1, ServedAgain DEF Inv, vars, Of
  <2> QED
    BY <2>1, <2>3, <2>4 DEF Inv
<1>2. CASE Next
  BY <1>2, AcceptStep, GuardsRejectStep, GuardsPassStep, HandlerReturnsStep,
     HandlerRejectsStep, FilterStep, CloseStep DEF Next, Proceed
<1> QED
  BY <1>1, <1>2

LEMMA Invariant == Spec => []Inv
BY InvInit, InvStep, PTL DEF Spec

----------------------------------------------------------------------------
(* The properties *)

\* The variables hold what they are declared to hold.
THEOREM PipelineTypeCorrect == Spec => []TypeOK
<1>1. Inv => TypeOK
  BY DEF Inv
<1> QED
  BY <1>1, Invariant, PTL

\* MetricsInterceptor takes each request it counted in out again, once, and
\* counts it once, however many overlap and however each ends.
THEOREM GaugeBalances == Spec => []Balanced
<1>1. Inv => Balanced
  BY DEF Inv
<1> QED
  BY <1>1, Invariant, PTL

\* ApiExceptionFilter answers with a failure's status exactly when it answers
\* with a failure's body, and from 500 on tells nothing of the exception.
THEOREM EnvelopesMatch == Spec => []EnvelopeMatchesStatus
<1>1. Inv => EnvelopeMatchesStatus
  BY DEF Inv, Served, Matching, EnvelopeMatchesStatus
<1> QED
  BY <1>1, Invariant, PTL

\* The store of RequestContextService keeps the lines of one request from
\* naming the user of another.
THEOREM LinesNameTheCaller == Spec => []LinesAttributed
<1>1. Inv => LinesAttributed
  BY DEF Inv, Served, LinesAttributed
<1> QED
  BY <1>1, Invariant, PTL

\* Every answered request left the lines its outcome calls for.
THEOREM AnswersAreLogged == Spec => []EveryAnswerLogged
<1>1. Inv => EveryAnswerLogged
  BY DEF Inv, Served, Logged, EveryAnswerLogged
<1> QED
  BY <1>1, Invariant, PTL

----------------------------------------------------------------------------
(* What http_server_errors_total says *)

NoErrorsCounted == errors = 0

\* The error counter never moves, however requests end: where it would be
\* raised the response still has the status of a success, since the filter
\* sets another only later (metrics.interceptor.ts 37-51, api-exception.filter.ts
\* 98).  FailuresCounted, which an alert relies on, fails for this reason.
THEOREM ErrorCounterNeverMoves == Spec => []NoErrorsCounted
<1>1. Init => NoErrorsCounted
  BY DEF Init, NoErrorsCounted
<1>2. Inv /\ NoErrorsCounted /\ [Next]_vars => NoErrorsCounted'
  <2> SUFFICES ASSUME Inv, errors = 0, [Next]_vars
               PROVE  errors' = 0
    BY DEF NoErrorsCounted
  <2>1. ASSUME NEW r \in Req, NEW ok, pc[r] = "handler", Finalize(r, ok)
        PROVE  errors' = 0
    BY <2>1 DEF Inv, Served, Finalize, metrics
  <2>2. ASSUME NEW r \in Req, HandlerReturns(r) \/ HandlerRejects(r)
        PROVE  errors' = 0
    BY <2>1, <2>2 DEF HandlerReturns, HandlerRejects
  <2>3. CASE UNCHANGED errors
    BY <2>3
  <2> QED BY <2>2, <2>3 DEF Next, Proceed, Accept, GuardsReject, GuardsPass, Filter, Close,
                            metrics, vars
<1> QED BY <1>1, <1>2, Invariant, PTL DEF Spec
=============================================================================
