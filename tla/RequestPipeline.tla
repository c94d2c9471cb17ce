---------------------------- MODULE RequestPipeline ----------------------------
(***************************************************************************)
(* What surrounds every handler: guards, the four global interceptors      *)
(* (metrics, request log, cache policy, response envelope) and the global  *)
(* exception filter.  Between its awaits a request shares the counters of  *)
(* MetricsService with all others; its response object is its own, and so  *)
(* is the store of RequestContextService, whose user AppLogger puts on     *)
(* every line written for it.                                              *)
(*                                                                         *)
(* The order is the framework's: guards first; then the success status is  *)
(* set and the interceptors are entered; when the handler settles, their   *)
(* finalize callbacks run; only then does the filter see an exception.     *)
(***************************************************************************)
EXTENDS ErrorEnvelope

CONSTANTS
  Req,         \* request slots: bounds how many requests overlap
  Complaint,   \* what class-validator may report of an input
  User,        \* accounts the JWT guard may find
  None,        \* no exception, no error body, no user
  MaxRequests  \* bound: requests that arrive

ASSUME BoundAssumption == MaxRequests \in Nat

\* One handler of each kind, and a path no handler matches.
Route == {"register", "me", "roles", "health", "metrics", "unmatched"}
Throttled == {"register", "me", "roles"}  \* not under SkipThrottle
Guarded == {"me"}                         \* under UseGuards(JwtGuard)
Measured == Route \ {"metrics", "unmatched"}

\* What middleware, router, guards, pipes and handlers throw.
Exception == {Malformed, Unauthorized, Forbidden, NotFound, Conflict, Limited, Unknown}
               \cup {exceptionFactory(t) : t \in Complaint}

VARIABLES
  pc,            \* Req -> "idle", "guards", "handler", "filter" or "sent"
  route,         \* Req -> the handler matched
  status,        \* Req -> response.statusCode
  cacheControl,  \* Req -> the Cache-Control header
  thrown,        \* Req -> the exception on its way to the filter
  body,          \* Req -> "none", "plain", "envelope" or "error"
  report,        \* Req -> the message, code and details of an "error" body
  context,       \* Req -> the userId in its AsyncLocalStorage store
  lines,         \* Req -> the log lines written for it
  inflight,      \* http_server_requests_in_flight
  counted,       \* http_server_requests_total by status_code
  errors,        \* http_server_errors_total
  arrived,       \* history: requests that arrived
  entered,       \* history: measured requests that got past the guards
  failed,        \* history: measured requests whose handler threw a 5xx
  caller         \* history: Req -> the user its guard accepted

metrics == <<inflight, counted, errors>>
history == <<arrived, entered, failed, caller>>
vars == <<pc, route, status, cacheControl, thrown, body, report, context, lines,
          inflight, counted, errors, arrived, entered, failed, caller>>

Status == {200, 201, 400, 401, 403, 404, 409, 429, 500}
CachePolicies == {"none", "no-store", "public"}
Line == [event : {"http_request", "http_exception"}, level : {"info", "warn", "error"},
         status : Status, user : User \cup {None}]

----------------------------------------------------------------------------
\* What keeps a request from its guards: a body the parser refuses, on any
\* path (too large a one is no HttpException), or no such path.
Refusals(h) == {Malformed, Unknown} \cup (IF h = "unmatched" THEN {NotFound} ELSE {})

\* The exceptions of the throttler's and the JWT guard (a failing Redis or
\* PostgreSQL is Unknown in both).
GuardThrows(h) ==
  (IF h \in Throttled THEN {Limited, Unknown} ELSE {})
    \cup (IF h \in Guarded THEN {Unauthorized, Forbidden, Unknown} ELSE {})

\* Handlers whose input the validation pipe checks first, what it throws, and
\* what the handlers themselves throw.
Validated == {"register", "roles"}
PipeThrows(h) == IF h \in Validated THEN {exceptionFactory(t) : t \in Complaint} ELSE {}
HandlerThrows(h) ==
  IF h = "register" THEN {Forbidden, NotFound, Conflict, Unknown}
  ELSE IF h = "health" THEN {} ELSE {Unknown}

\* HttpCode of the handler, which the framework sets after the guards.
SuccessStatus(h) == IF h = "register" THEN 201 ELSE 200

\* Variant of Policy: no default.
PolicyUndefined(h) == IF h = "roles" THEN "public" ELSE "undefined"
\* CachePolicyInterceptor: the decorator's value, else no-store.
Policy(h) == IF h = "roles" THEN "public" ELSE "no-store"

\* TransformResponseInterceptor: wrapped unless SkipResponseWrap says no.
SuccessBody(h) == IF h = "health" THEN "plain" ELSE "envelope"

Set(f, r, v) == f' = [f EXCEPT ![r] = v]

----------------------------------------------------------------------------
\* AppLogger.write: a line, and whom the store of its request names.
Write(r, event, level, s) ==
  Set(lines, r, Append(lines[r], [event |-> event, level |-> level,
                                  status |-> s, user |-> context[r]]))

\* RequestLoggingInterceptor's finalize, on the status the response has so far.
LogAccess(r) ==
  IF route[r] = "metrics" THEN UNCHANGED lines
  ELSE Write(r, "http_request", IF status[r] >= 400 THEN "warn" ELSE "info", status[r])

\* Variant of LogException: only what is unexpected is worth a line.
LogExceptionUnexpected(r) ==
  LET s == resolveStatusCode(thrown[r]) IN
  IF s >= 500 THEN Write(r, "http_exception", "error", s) ELSE UNCHANGED lines
LogException(r) ==
  LET s == resolveStatusCode(thrown[r]) IN
  Write(r, "http_exception", IF s >= 500 THEN "error" ELSE "warn", s)

\* Variant of Run: the store of the connection's last request is entered again.
RunInStore(r) == UNCHANGED context
\* The middleware runs the rest of the request in a store of its own.
Run(r) == Set(context, r, None)
\* assign, into the store of the request.
Assign(r, u) == Set(context, r, u)

----------------------------------------------------------------------------
\* The request-id middleware, the body parser and the router.
Accept(r, h) ==
  /\ pc[r] = "idle" /\ arrived < MaxRequests
  /\ arrived' = arrived + 1
  /\ Set(route, r, h)
  /\ \/ h # "unmatched" /\ Set(pc, r, "guards") /\ UNCHANGED thrown
     \/ Set(pc, r, "filter") /\ \E x \in Refusals(h) : Set(thrown, r, x)
  /\ Set(status, r, 200)
  /\ Set(cacheControl, r, "none")
  /\ Set(body, r, "none")
  /\ Run(r)
  /\ UNCHANGED <<report, lines, metrics, entered, failed, caller>>

\* A guard throws: no interceptor ever sees the request.
GuardsReject(r) ==
  /\ pc[r] = "guards"
  /\ \E e \in GuardThrows(route[r]) : Set(thrown, r, e)
  /\ Set(pc, r, "filter")
  /\ UNCHANGED <<route, status, cacheControl, body, report, context, lines,
                 metrics, history>>

\* Past the guards (JwtGuard puts the user into the store), down the
\* interceptors to the handler's first await.
GuardsPass(r) ==
  /\ pc[r] = "guards"
  /\ Set(pc, r, "handler")
  /\ Set(status, r, SuccessStatus(route[r]))
  /\ Set(cacheControl, r, Policy(route[r]))
  /\ IF route[r] \in Measured
     THEN inflight' = inflight + 1 /\ entered' = entered + 1
     ELSE UNCHANGED <<inflight, entered>>
  /\ IF route[r] \in Guarded
     THEN \E u \in User : Assign(r, u) /\ Set(caller, r, u)
     ELSE UNCHANGED <<context, caller>>
  /\ UNCHANGED <<route, thrown, body, report, lines, counted, errors,
                 arrived, failed>>

\* Variant of Finalize: the callback only runs for a request that succeeds.
FinalizeSuccess(r, ok) ==
  IF route[r] \in Measured /\ ok
  THEN /\ inflight' = inflight - 1
       /\ counted' = [counted EXCEPT ![status[r]] = @ + 1]
       /\ UNCHANGED errors
  ELSE UNCHANGED metrics

\* MetricsInterceptor's finalize, on the status the response has so far.
Finalize(r, ok) ==
  IF route[r] \in Measured
  THEN /\ inflight' = inflight - 1
       /\ counted' = [counted EXCEPT ![status[r]] = @ + 1]
       /\ errors' = IF status[r] >= 500 THEN errors + 1 ELSE errors
  ELSE UNCHANGED metrics

HandlerReturns(r) ==
  /\ pc[r] = "handler"
  /\ Finalize(r, TRUE) /\ LogAccess(r)
  /\ Set(body, r, SuccessBody(route[r]))
  /\ Set(pc, r, "sent")
  /\ UNCHANGED <<route, status, cacheControl, thrown, report, context, history>>

\* The pipe that validates its input, or the handler itself, throws.
HandlerRejects(r) ==
  /\ pc[r] = "handler"
  /\ \E x \in HandlerThrows(route[r]) \cup PipeThrows(route[r]) :
       /\ Set(thrown, r, x)
       /\ failed' = IF route[r] \in Measured /\ resolveStatusCode(x) >= 500
                    THEN failed + 1 ELSE failed
  /\ Finalize(r, FALSE) /\ LogAccess(r)
  /\ Set(pc, r, "filter")
  /\ UNCHANGED <<route, status, cacheControl, body, report, context,
                 arrived, entered, caller>>

\* Variant of Answer: the filter leaves the status as it is.
AnswerKeepingStatus(r) == Set(body, r, "error") /\ UNCHANGED status
\* response.status(statusCode).json(body).
Answer(r) == Set(body, r, "error") /\ Set(status, r, resolveStatusCode(thrown[r]))

\* ApiExceptionFilter.catch.
Filter(r) ==
  /\ pc[r] = "filter"
  /\ LogException(r) /\ Answer(r)
  /\ Set(report, r, ErrorBody(thrown[r]))
  /\ Set(pc, r, "sent")
  /\ UNCHANGED <<route, cacheControl, thrown, context, metrics, history>>

\* The response is gone and the slot free.
Close(r) ==
  /\ pc[r] = "sent"
  /\ Set(pc, r, "idle")
  /\ Set(thrown, r, None)
  /\ Set(report, r, None)
  /\ Set(lines, r, <<>>)
  /\ Set(caller, r, None)
  /\ UNCHANGED <<route, status, cacheControl, body, context, metrics,
                 arrived, entered, failed>>

----------------------------------------------------------------------------
Init ==
  /\ pc = [r \in Req |-> "idle"]
  /\ route = [r \in Req |-> "health"]
  /\ status = [r \in Req |-> 200]
  /\ cacheControl = [r \in Req |-> "none"]
  /\ thrown = [r \in Req |-> None]
  /\ body = [r \in Req |-> "none"]
  /\ report = [r \in Req |-> None]
  /\ context = [r \in Req |-> None]
  /\ lines = [r \in Req |-> <<>>]
  /\ inflight = 0
  /\ counted = [s \in Status |-> 0]
  /\ errors = 0
  /\ arrived = 0 /\ entered = 0 /\ failed = 0
  /\ caller = [r \in Req |-> None]

Proceed(r) == \/ GuardsReject(r) \/ GuardsPass(r)
              \/ HandlerReturns(r) \/ HandlerRejects(r)
              \/ Filter(r) \/ Close(r)

Next == \E r \in Req : (\E h \in Route : Accept(r, h)) \/ Proceed(r)

Spec == Init /\ [][Next]_vars

----------------------------------------------------------------------------
\* Properties

\* The variables hold what they are declared to hold.
TypeOK ==
  /\ pc \in [Req -> {"idle", "guards", "handler", "filter", "sent"}]
  /\ route \in [Req -> Route]
  /\ status \in [Req -> Status]
  /\ cacheControl \in [Req -> CachePolicies]
  /\ thrown \in [Req -> Exception \cup {None}]
  /\ body \in [Req -> {"none", "plain", "envelope", "error"}]
  /\ report \in [Req -> {ErrorBody(x) : x \in Exception} \cup {None}]
  /\ context \in [Req -> User \cup {None}]
  /\ lines \in [Req -> Seq(Line)]
  /\ inflight \in Nat
  /\ counted \in [Status -> Nat]
  /\ errors \in Nat
  /\ arrived \in Nat /\ entered \in Nat /\ failed \in Nat
  /\ caller \in [Req -> User \cup {None}]

TotalCounted ==
  counted[200] + counted[201] + counted[400] + counted[401] + counted[403]
    + counted[404] + counted[409] + counted[429] + counted[500]
Quiet == \A r \in Req : pc[r] \in {"idle", "sent"}

\* However requests overlap and however each ends, the gauge is the number of
\* measured requests between guards and answer, and every other one that got
\* past the guards is counted exactly once (metrics.interceptor.ts 37-51).
Balanced ==
  /\ inflight = Cardinality({r \in Req : pc[r] = "handler" /\ route[r] \in Measured})
  /\ inflight + TotalCounted = entered

\* A response says failure in its envelope exactly if it says so in its
\* status, whoever threw: router, guard, pipe or handler, before or after the
\* success status was set; and from 500 on it tells nothing of what was thrown
\* (api-exception.filter.ts 34 "never exposed").
EnvelopeMatchesStatus ==
  \A r \in Req : pc[r] = "sent" =>
    /\ body[r] = "error" <=> status[r] >= 400
    /\ status[r] >= 500 =>
         report[r] = [message |-> "generic", code |-> "INTERNAL_SERVER_ERROR",
                      details |-> <<>>]

\* Whoever else is being served and whoever was served before: the lines of a
\* request name the user its own guard accepted, and nobody before that
\* (main.ts 62, jwt.guard.ts 89-92, app-logger.service.ts 149-158).
LinesAttributed ==
  \A r \in Req : \A i \in 1..Len(lines[r]) : lines[r][i].user = caller[r]

\* Every failure leaves exactly one exception line, with the status the client
\* was sent, as an error exactly from 500 on; every success exactly one access
\* line (Prometheus' own scrapes none); and no request an access line after its
\* exception line.
EveryAnswerLogged ==
  \A r \in Req : pc[r] = "sent" =>
    LET l == lines[r]
        n == Len(l)
    IN /\ \A i \in 1..n : l[i].event = "http_exception" <=> (body[r] = "error" /\ i = n)
       /\ body[r] = "error" =>
            /\ n \in {1, 2}
            /\ l[n].status = status[r]
            /\ l[n].level = IF status[r] >= 500 THEN "error" ELSE "warn"
       /\ body[r] # "error" => n = IF route[r] = "metrics" THEN 0 ELSE 1

\* metrics.service.ts 66 "Total number of failed HTTP requests.": the counter
\* the error-rate alert divides counts every measured request whose handler
\* threw what the filter answers with a 5xx.
FailuresCounted == Quiet => errors = failed

=============================================================================
