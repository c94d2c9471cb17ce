----------------------------- MODULE ErrorEnvelope -----------------------------
(***************************************************************************)
(* The error a client is told of: main.ts turns what class-validator       *)
(* rejects into an exception, and ApiExceptionFilter turns any exception   *)
(* into the body of the response.  A text that says what happened is       *)
(* "specific"; the two texts that say nothing are "generic" and "invalid". *)
(*                                                                         *)
(* class-validator reports a list of errors, each with the property, the   *)
(* messages of its failed constraints (none if only its children failed)   *)
(* and a list of children.  Here the errors of such a tree are numbered    *)
(* from 1: child and next are the first child's number and that of the     *)
(* next error in the same list, 0 where there is none.  A field is the     *)
(* path of properties that the code joins with dots.                       *)
(***************************************************************************)
EXTENDS Naturals, Sequences, FiniteSets

\* An exception: class is "BadRequest", "Http" (any other HttpException) or
\* "Error"; details is its message when that is an array, else empty.
Http(status, code) ==
  [class |-> "Http", status |-> status, code |-> code, details |-> <<>>]
Unauthorized == Http(401, "UNAUTHORIZED")
Forbidden == Http(403, "FORBIDDEN")
NotFound == Http(404, "NOT_FOUND")
Conflict == Http(409, "CONFLICT")
Limited == Http(429, "THROTTLER")
\* A body that is no JSON: the framework's BadRequestException of one text.
Malformed == [class |-> "BadRequest", status |-> 400, code |-> "BAD_REQUEST",
              details |-> <<>>]
\* Whatever else is thrown: a failed query, a lost connection, a bug.
Unknown == [class |-> "Error", status |-> 500, code |-> "ERROR", details |-> <<>>]

----------------------------------------------------------------------------
\* What one error says itself: the first of its messages.
Own(error) ==
  IF error.constraints = <<>> THEN <<>>
  ELSE <<[field |-> <<error.property>>, message |-> error.constraints[1]]>>

\* What its children say, below its property.
Below(property, details) ==
  [k \in DOMAIN details |-> [details[k] EXCEPT !.field = <<property>> \o @]]

\* The loop over a list of errors, and the recursion into each one's children.
flattenValidationErrors(errors) ==
  LET result[n \in 0..Len(errors)] ==
        IF n = 0 THEN <<>>
        ELSE Own(errors[n])
               \o Below(errors[n].property, result[errors[n].child])
               \o result[errors[n].next]
  IN  result[1]

exceptionFactory(errors) ==
  [class |-> "BadRequest", status |-> 400, code |-> "VALIDATION_ERROR",
   details |-> flattenValidationErrors(errors)]

----------------------------------------------------------------------------
\* ApiExceptionFilter

resolveStatusCode(x) == IF x.class = "Error" THEN 500 ELSE x.status
resolveDetails(x) == IF x.class = "Error" THEN <<>> ELSE x.details

resolveMessage(x) ==
  IF resolveStatusCode(x) >= 500 THEN "generic"
  ELSE IF x.class # "BadRequest" THEN "specific"
  ELSE IF resolveDetails(x) = <<>> THEN "invalid" ELSE resolveDetails(x)[1].message

resolveErrorCode(x) ==
  IF resolveStatusCode(x) >= 500 THEN "INTERNAL_SERVER_ERROR" ELSE x.code

\* What catch answers with.
ErrorBody(x) == [message |-> resolveMessage(x), code |-> resolveErrorCode(x),
                 details |-> resolveDetails(x)]

=============================================================================
