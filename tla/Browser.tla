-------------------------------- MODULE Browser --------------------------------
(***************************************************************************)
(* AuthSessions with its clients: browsers that keep the two cookies of    *)
(* the last answer they received and send them with every request          *)
(* (auth.controller.ts sets, clears and reads them).  The tabs of one      *)
(* browser share its cookies and send requests side by side; an answer     *)
(* takes its time, may overtake another one and may be lost.  A browser    *)
(* holds the access and the refresh cookie of one answer, so the pair is   *)
(* one token here as in AuthSessions.                                      *)
(***************************************************************************)
EXTENDS AuthSessions

CONSTANTS Client, NoClient

ASSUME ClientAssumption == NoClient \notin Client

VARIABLES
  jar,     \* Client -> the token in its cookies, or NoToken
  by,      \* Req -> the client waiting for its answer, or NoClient
  asks,    \* Req -> what it asked for
  carry,   \* Req -> the cookies its answer sets: a token, or NoToken
  spoiled  \* history: sessions ended on purpose, or at the risk the code takes:
           \* refreshed twice at once, a new token or its record lost

client == <<jar, by, asks, carry, spoiled>>
bvars == <<vars, client>>

Asks == {"signIn", "refresh", "call", "logout"}
\* The request is answered, and the answer on its way to the client.
Answering(r) == by[r] # NoClient /\ pc[r] = "idle"
\* Refreshes of session s whose client has not seen the answer yet.
Refreshing(s) == {r \in Req : by[r] # NoClient /\ asks[r] = "refresh" /\ sid[r] = s}

----------------------------------------------------------------------------
\* A tab of client c sends a request with the cookies of the moment.
Send(c, r, what, spoils) ==
  /\ by[r] = NoClient
  /\ by' = [by EXCEPT ![r] = c]
  /\ asks' = [asks EXCEPT ![r] = what]
  /\ spoiled' = spoiled \cup spoils
  /\ UNCHANGED <<jar, carry>>

SignIn(c, r) ==
  /\ \E u \in User : BeginRegister(r, u) \/ BeginLogin(r, u)
  /\ Send(c, r, "signIn", {})

Refresh(c, r) ==
  /\ BeginRefresh(r, jar[c])
  /\ Send(c, r, "refresh",
          IF jar[c] # NoToken /\ Refreshing(jar[c].sid) # {} THEN {jar[c].sid} ELSE {})

Call(c, r) == BeginGuard(r, jar[c]) /\ Send(c, r, "call", {})

Logout(c, r) ==
  /\ BeginLogout(r, jar[c], jar[c])
  /\ Send(c, r, "logout", IF jar[c] = NoToken THEN {} ELSE {jar[c].sid})

----------------------------------------------------------------------------
\* Variants of Cookies: set as soon as the pair is signed; not renewed by a
\* refresh.
CookiesEarly(r) == IF pc[r] = "sign" THEN held'[r] ELSE carry[r]
CookiesAtSignIn(r) ==
  IF asks[r] = "signIn" /\ answer'[r] = "served" THEN held[r] ELSE carry[r]

\* setAuthCookies, once the session is stored.
Cookies(r) == IF pc[r] = "store" /\ answer'[r] = "served" THEN held[r] ELSE carry[r]

\* The account is gone or not active: its session is ended on purpose.
EndsSession(r) == pc[r] \in {"refresh.user", "guard.user"} /\ pc'[r] = "delete"
\* The SET took effect, but was reported failed: its token is lost.
LosesRecord(r) == /\ pc[r] = "store" /\ answer'[r] = "error"
                  /\ SessionKnown(held[r]) /\ HashMatches(held[r])

Serve(r) ==
  /\ Proceed(r) \/ Disturb(r)
  /\ carry' = [carry EXCEPT ![r] = Cookies(r)]
  /\ spoiled' = IF EndsSession(r) \/ LosesRecord(r)
                THEN spoiled \cup {sid[r]} ELSE spoiled
  /\ UNCHANGED <<jar, by, asks>>

\* The cookies after the answer: clearAuthCookies, setAuthCookies, or neither
\* (a refused or failed refresh leaves them).
Kept(r) ==
  IF answer[r] = "loggedOut" THEN NoToken
  ELSE IF carry[r] # NoToken THEN carry[r] ELSE jar[by[r]]

Done(r) == /\ by' = [by EXCEPT ![r] = NoClient]
           /\ carry' = [carry EXCEPT ![r] = NoToken]
           /\ asks' = [asks EXCEPT ![r] = "call"]
           /\ UNCHANGED vars

Receive(r) ==
  /\ Answering(r)
  /\ jar' = [jar EXCEPT ![by[r]] = Kept(r)]
  /\ Done(r)
  /\ UNCHANGED spoiled

\* The connection breaks before the answer is in.
Lose(r) ==
  /\ Answering(r)
  /\ spoiled' = IF carry[r] # NoToken THEN spoiled \cup {carry[r].sid} ELSE spoiled
  /\ Done(r)
  /\ UNCHANGED jar

----------------------------------------------------------------------------
BInit ==
  /\ Init
  /\ jar = [c \in Client |-> NoToken]
  /\ by = [r \in Req |-> NoClient]
  /\ asks = [r \in Req |-> "call"]
  /\ carry = [r \in Req |-> NoToken]
  /\ spoiled = {}

Use(c, r) == SignIn(c, r) \/ Refresh(c, r) \/ Call(c, r) \/ Logout(c, r)

BNext ==
  \/ \E c \in Client, r \in Req : Use(c, r)
  \/ \E r \in Req : Serve(r) \/ Receive(r) \/ Lose(r)
  \/ Environment /\ UNCHANGED client

BSpec == BInit /\ [][BNext]_bvars

----------------------------------------------------------------------------
\* Properties

\* A client that waits for the answer to a refresh before it sends the next
\* stays signed in: between its refreshes the record of its session is there
\* and matches its cookie for as long as that is valid, whatever other
\* requests it sends beside, whatever fails, and whatever other clients and
\* other sessions of the user do.  Only what spoils a session signs it out.
StaysSignedIn ==
  \A c \in Client : LET t == jar[c] IN
    (RefreshValid(t) /\ t.sid \notin spoiled /\ Refreshing(t.sid) = {})
      => SessionKnown(t) /\ HashMatches(t)

\* Browsers are among the clients AuthSessions allows: what is shown of
\* AuthSessions holds of the backend with these clients.
BrowsersAreClients == Spec

=============================================================================
