---------------------------- MODULE BrowserProofs ----------------------------
(***************************************************************************)
(* Theorems about Browser, for any number of browsers, tabs, sessions and  *)
(* users: the browsers are clients AuthSessions allows, so what is proved  *)
(* there holds here, and a browser that awaits its refreshes stays signed  *)
(* in.                                                                     *)
(***************************************************************************)
EXTENDS Browser, AuthSessionsProofs

BTypeOK ==
  /\ jar \in [Client -> Token \cup {NoToken}]
  /\ by \in [Req -> Client \cup {NoClient}]
  /\ asks \in [Req -> Asks]
  /\ carry \in [Req -> Token \cup {NoToken}]
  /\ spoiled \in SUBSET Sid

\* A browser has no token the backend did not give out, and none from the
\* future.
Given == /\ \A c \in Client : jar[c] \in Cookie
         /\ \A r \in Req : carry[r] \in Cookie
         /\ \A t \in tokens : t.iat <= clock

\* A sign-in or a refresh on session s, until its answer is in or lost.
InPlay(r, s) ==
  by[r] # NoClient /\ asks[r] \in {"signIn", "refresh"} /\ sid[r] = s

\* What a request waits for fits what the client asked.
Fits(r) ==
  /\ pc[r] # "idle" => by[r] # NoClient
  /\ pc[r] \in {"register.find", "register.save", "login.find"} => asks[r] = "signIn"
  /\ pc[r] \in {"refresh.session", "refresh.user"} => asks[r] = "refresh"
  /\ pc[r] \in {"sign", "store"} => asks[r] \in {"signIn", "refresh"}
  /\ carry[r] # NoToken => pc[r] = "idle" /\ InPlay(r, carry[r].sid)
  /\ sid[r] # NoSid => owner[sid[r]] # NoUser
  /\ pc[r] \in {"idle", "delete"} \/ answer[r] = "none"

ClientTyped == BTypeOK /\ Given /\ \A r \in Req : Fits(r)

\* Client c has a cookie of session s.
Has(c, s) == jar[c] # NoToken /\ jar[c].sid = s
\* The pair a request has signed, while its client does not have it yet.
New(r) == IF pc[r] = "store" THEN held[r] ELSE carry[r]
\* The record of t's session is there for as long as t verifies.
Lasts(t) == SessionKnown(t) /\ session[t.sid].exp >= t.iat + RefreshTTL

\* A session is one client's, and has one sign-in or refresh at a time.
OneClient(s) ==
  /\ \A r, q \in Req : InPlay(r, s) /\ InPlay(q, s) => r = q
  /\ \A c \in Client, r \in Req :
       Has(c, s) /\ InPlay(r, s) => asks[r] = "refresh" /\ by[r] = c
  /\ \A c, d \in Client : Has(c, s) /\ Has(d, s) => c = d

\* Nobody is about to delete the record.
NotEnding(s) ==
  \A r \in Req : sid[r] = s =>
    /\ pc[r] # "delete"
    /\ (pc[r] = "refresh.session" /\ session[s] # NoRecord) => HashMatches(held[r])

\* The record matches the cookie, or the pair that is to replace it.
Matched(s) ==
  /\ \A c \in Client : (Has(c, s) /\ RefreshValid(jar[c])) =>
       /\ Lasts(jar[c])
       /\ \/ HashMatches(jar[c])
          \/ \E r \in Req : InPlay(r, s) /\ session[s].token = New(r)
  /\ \A r \in Req : (carry[r] # NoToken /\ sid[r] = s /\ RefreshValid(carry[r])) =>
       Lasts(carry[r]) /\ HashMatches(carry[r])

Sound(s) == OneClient(s) /\ NotEnding(s) /\ Matched(s)
Unspoiled == \A s \in Sid \ spoiled : Sound(s)

BInv == ClientTyped /\ Unspoiled

\* What is known of the backend itself (AuthSessionsProofs).
Backend == Typed /\ Owned /\ Outlives

----------------------------------------------------------------------------
(* Browsers are clients AuthSessions allows *)

LEMMA UseArrives ==
  ASSUME ClientTyped, NEW c \in Client, NEW r \in Req, Use(c, r)
  PROVE  Arrive(r)
<1>1. jar[c] \in Cookie
  BY DEF ClientTyped, Given
<1>2. CASE SignIn(c, r)
  BY <1>2 DEF SignIn, Arrive
<1>3. CASE Refresh(c, r) \/ Call(c, r) \/ Logout(c, r)
  BY <1>1, <1>3 DEF Refresh, Call, Logout, Arrive
<1> QED BY <1>2, <1>3 DEF Use

LEMMA BStepIsStep == ClientTyped /\ [BNext]_bvars => [Next]_vars
<1> SUFFICES ASSUME ClientTyped, [BNext]_bvars
             PROVE  [Next]_vars
  OBVIOUS
<1>1. CASE UNCHANGED bvars
  BY <1>1 DEF bvars
<1>2. ASSUME NEW c \in Client, NEW r \in Req, Use(c, r)
      PROVE  Next
  BY <1>2, UseArrives DEF Next
<1>3. ASSUME NEW r \in Req, Serve(r)
      PROVE  Next
  BY <1>3 DEF Serve, Next
<1>4. ASSUME NEW r \in Req, Receive(r) \/ Lose(r)
      PROVE  UNCHANGED vars
  BY <1>4 DEF Receive, Lose, Done
<1>5. CASE Environment
  BY <1>5 DEF Next
<1> QED BY <1>1, <1>2, <1>3, <1>4, <1>5 DEF BNext

----------------------------------------------------------------------------
(* What each kind of step does, as far as the clients are concerned *)

\* A request is sent: it waits for its session, it deletes one its client
\* spoils, or it is no sign-in or refresh of any session.
LEMMA UseDoes ==
  ASSUME Typed, ClientTyped, NEW c \in Client, NEW r \in Req, Use(c, r)
  PROVE  /\ by[r] = NoClient /\ pc[r] = "idle"
         /\ by' = [by EXCEPT ![r] = c]
         /\ \A q \in Req \ {r} : asks'[q] = asks[q]
         /\ spoiled \subseteq spoiled'
         /\ spoiled' \subseteq spoiled \cup {s \in Sid : Has(c, s)}
         /\ UNCHANGED <<stores, jar, carry>>
         /\ pc'[r] \in {"idle", "delete"} \/ answer'[r] = "none"
         /\ \/ /\ asks'[r] = "signIn" /\ sid'[r] = NoSid
               /\ pc'[r] \in {"register.find", "login.find"}
            \/ /\ asks'[r] = "refresh" /\ sid'[r] = NoSid /\ pc'[r] = "idle"
            \/ /\ asks'[r] = "refresh" /\ pc'[r] = "refresh.session"
               /\ RefreshValid(jar[c]) /\ held'[r] = jar[c] /\ sid'[r] = jar[c].sid
               /\ jar[c].sid \in spoiled' \/ Refreshing(jar[c].sid) = {}
            \/ /\ asks'[r] = "call" /\ pc'[r] \in {"guard.session", "idle"}
               /\ sid'[r] = NoSid \/ Has(c, sid'[r])
            \/ /\ asks'[r] = "logout" /\ sid'[r] = NoSid /\ pc'[r] = "idle"
            \/ /\ asks'[r] = "logout" /\ pc'[r] = "delete"
               /\ Has(c, sid'[r]) /\ sid'[r] \in spoiled'
<1> USE DEF Typed, TypeOK, ClientTyped, BTypeOK
<1>1. jar[c] # NoToken => jar[c] \in Token /\ jar[c].sid \in Sid
  BY DEF Token
<1>2. CASE SignIn(c, r)
  BY <1>2 DEF SignIn, BeginRegister, BeginLogin, Begin, Goto, Send
<1>3. CASE Refresh(c, r)
  <2>1. CASE RefreshValid(jar[c])
    BY <1>1, <1>3, <2>1 DEF Refresh, BeginRefresh, RefreshValid, Begin, Goto, Send, Has
  <2>2. CASE ~RefreshValid(jar[c])
    BY <1>1, <1>3, <2>2 DEF Refresh, BeginRefresh, Refuse, Send, Has, stores
  <2> QED BY <2>1, <2>2
<1>4. CASE Call(c, r)
  BY <1>1, <1>4 DEF Call, BeginGuard, AccessValid, Begin, Refuse, Goto, Send, Has, stores
<1>5. CASE Logout(c, r)
  <2>1. LogoutToken(jar[c], jar[c]) \in {NoToken, jar[c]}
    BY DEF LogoutToken
  <2>2. CASE LogoutToken(jar[c], jar[c]) = NoToken
    BY <1>1, <1>5, <2>2 DEF Logout, BeginLogout, Refuse, Send, Has, stores
  <2>3. CASE LogoutToken(jar[c], jar[c]) = jar[c] /\ jar[c] # NoToken
    BY <1>1, <1>5, <2>3 DEF Logout, BeginLogout, Goto, Send, Has, stores
  <2> QED BY <2>1, <2>2, <2>3
<1> QED BY <1>2, <1>3, <1>4, <1>5 DEF Use

\* While r is served, its client and everything of the others stay.
LEMMA ServeFrame ==
  ASSUME Typed, ClientTyped, NEW r \in Req, Serve(r)
  PROVE  /\ UNCHANGED <<jar, by, asks, clock>>
         /\ spoiled \subseteq spoiled'
         /\ pc[r] # "idle" /\ by[r] # NoClient /\ carry[r] = NoToken
         /\ \A q \in Req \ {r} :
              /\ pc'[q] = pc[q] /\ sid'[q] = sid[q] /\ held'[q] = held[q]
              /\ carry'[q] = carry[q] /\ answer'[q] = answer[q]
         /\ \A s \in Sid : s # sid'[r] => session'[s] = session[s]
         /\ tokens \subseteq tokens'
<1>1. pc[r] # "idle"
  BY DEF Serve, Proceed, Disturb, RegisterFind, RegisterSave, LoginFind, RefreshSession,
         RefreshUser, Sign, Store, Delete, GuardSession, GuardUser, StoreUnacknowledged,
         DeleteUnacknowledged, Fail, Waiting
<1>2. by[r] # NoClient /\ carry[r] = NoToken
  BY <1>1 DEF ClientTyped, Fits
<1>3. UNCHANGED <<jar, by, asks>> /\ spoiled \subseteq spoiled'
      /\ \A q \in Req \ {r} : carry'[q] = carry[q]
  BY DEF Serve, ClientTyped, BTypeOK
<1>4. UNCHANGED clock /\ tokens \subseteq tokens'
  BY DEF Serve, Proceed, Disturb, RegisterFind, RegisterSave, LoginFind, RefreshSession,
         RefreshUser, Sign, Store, Delete, GuardSession, GuardUser, StoreUnacknowledged,
         DeleteUnacknowledged, Fail, stores
<1>5. \A s \in Sid : s # sid'[r] => session'[s] = session[s]
  <2>1. CASE Store(r) \/ Delete(r) \/ StoreUnacknowledged(r) \/ DeleteUnacknowledged(r)
    BY <2>1 DEF Store, Delete, StoreUnacknowledged, DeleteUnacknowledged, Finish, locals,
                Typed, TypeOK
  <2>2. CASE ~(Store(r) \/ Delete(r) \/ StoreUnacknowledged(r) \/ DeleteUnacknowledged(r))
    BY <2>2 DEF Serve, Proceed, Disturb, RegisterFind, RegisterSave, LoginFind,
                RefreshSession, RefreshUser, Sign, GuardSession, GuardUser, Fail, stores
  <2> QED BY <2>1, <2>2
<1> QED BY <1>1, <1>2, <1>3, <1>4, <1>5, OthersWait DEF Serve

----------------------------------------------------------------------------
(* Types of the clients *)

LEMMA ClientInit == BInit => ClientTyped
BY DEF BInit, Init, ClientTyped, BTypeOK, Given, Fits, Asks, Cookie

\* The tokens a client has name drawn sessions.
LEMMA DrawnTokens ==
  ASSUME Typed, Owned, NEW t \in Cookie, t # NoToken
  PROVE  t \in Token /\ t.sid \in Sid /\ owner[t.sid] # NoUser
BY NullAssumption DEF Cookie, Typed, TypeOK, Owned, SessionOwner, Token

LEMMA ClientUse ==
  ASSUME Typed, Owned, ClientTyped, NEW c \in Client, NEW r \in Req, Use(c, r)
  PROVE  ClientTyped'
<1>1. BTypeOK'
  <2>1. \E what \in Asks : \E spoils : Send(c, r, what, spoils)
    BY DEF Use, SignIn, Refresh, Call, Logout, Asks
  <2>2. spoiled' \in SUBSET Sid
    BY UseDoes DEF ClientTyped, BTypeOK
  <2> QED BY <2>1, <2>2 DEF ClientTyped, BTypeOK, Send
<1>2. Given'
  BY UseDoes DEF ClientTyped, Given, Cookie, stores
<1>3. ASSUME NEW q \in Req, q # r
      PROVE  Fits(q)'
  <2>1. Arrive(r)
    BY UseArrives
  <2>2. /\ pc'[q] = pc[q] /\ sid'[q] = sid[q] /\ by'[q] = by[q] /\ asks'[q] = asks[q]
        /\ answer'[q] = answer[q] /\ UNCHANGED <<carry, owner>>
    BY <1>3, <2>1, OthersWait, UseDoes DEF ClientTyped, BTypeOK, stores
  <2> QED BY <2>2 DEF ClientTyped, Fits, InPlay
<1>4. Fits(r)'
  <2>1. by'[r] = c /\ c # NoClient
    BY UseDoes, ClientAssumption DEF ClientTyped, BTypeOK
  <2>2. carry'[r] = NoToken
    BY UseDoes DEF ClientTyped, Fits, InPlay
  <2>3. owner' = owner
    BY UseDoes DEF stores
  <2>4. ASSUME NEW z, Has(c, z)
        PROVE  owner[z] # NoUser
    BY <2>4, DrawnTokens DEF Has, ClientTyped, Given
  <2>5. sid'[r] # NoSid => owner'[sid'[r]] # NoUser
    BY UseDoes, <2>3, <2>4 DEF Has, RefreshValid
  <2> QED BY UseDoes, <2>1, <2>2, <2>5 DEF Fits
<1> QED BY <1>1, <1>2, <1>3, <1>4 DEF ClientTyped

\* What setting the cookies of an answer says about it.
LEMMA CookiesSet ==
  ASSUME Typed, ClientTyped, NEW r \in Req, Serve(r)
  PROVE  /\ carry'[r] = Cookies(r)
         /\ \/ carry'[r] = NoToken
            \/ Store(r) /\ carry'[r] = held[r] /\ held[r] \in Token
<1>1. carry'[r] = Cookies(r) /\ carry[r] = NoToken
  BY ServeFrame DEF Serve, ClientTyped, BTypeOK
<1>2. CASE pc[r] = "store" /\ answer'[r] = "served"
  <2>1. Store(r) \/ StoreUnacknowledged(r) \/ Fail(r)
    BY <1>2 DEF Serve, Proceed, Disturb, RegisterFind, RegisterSave, LoginFind,
         RefreshSession, RefreshUser, Sign, Delete, GuardSession, GuardUser,
         DeleteUnacknowledged
  <2>2. answer[r] = "none" /\ held[r] \in Token
    BY <1>2 DEF ClientTyped, Fits, Typed, Local
  <2>3. Store(r)
    BY <1>2, <2>1, <2>2 DEF Fail, Finish, StoreUnacknowledged, locals, Typed, TypeOK
  <2> QED BY <1>1, <1>2, <2>2, <2>3 DEF Cookies
<1>3. CASE ~(pc[r] = "store" /\ answer'[r] = "served")
  BY <1>1, <1>3 DEF Cookies
<1> QED BY <1>1, <1>2, <1>3


LEMMA ClientServe ==
  ASSUME Typed, Typed', Owned, Owned', Outlives, ClientTyped, NEW r \in Req, Serve(r)
  PROVE  ClientTyped'
<1> USE ServeFrame, CookiesSet
<1>1. BTypeOK'
  <2>1. carry'[r] \in Token \cup {NoToken}
    OBVIOUS
  <2>2. carry' \in [Req -> Token \cup {NoToken}]
    BY <2>1 DEF Serve, ClientTyped, BTypeOK
  <2>3. spoiled' \in SUBSET Sid
    BY DEF Serve, EndsSession, LosesRecord, ClientTyped, BTypeOK, Typed, TypeOK, Local
  <2> QED BY <2>2, <2>3 DEF ClientTyped, BTypeOK
<1>2. Given'
  <2>1. Store(r) => tokens' = tokens \cup {held[r]} /\ held[r].iat <= clock
    BY DEF Store, Outlives, SignedBefore
  <2>2. ~Store(r) => tokens' = tokens
    BY DEF Serve, Proceed, Disturb, RegisterFind, RegisterSave, LoginFind, RefreshSession,
         RefreshUser, Sign, Delete, GuardSession, GuardUser, StoreUnacknowledged,
         DeleteUnacknowledged, Fail, stores
  <2>3. carry'[r] \in tokens' \cup {NoToken}
    BY <2>1
  <2> QED BY <2>1, <2>2, <2>3 DEF ClientTyped, Given, Cookie
<1>3. \A s \in Sid : owner[s] # NoUser => owner'[s] # NoUser
  <2>1. Sign(r) \/ owner' = owner
    BY DEF Serve, Proceed, Disturb, RegisterFind, RegisterSave, LoginFind, RefreshSession,
         RefreshUser, Store, Delete, GuardSession, GuardUser, StoreUnacknowledged,
         DeleteUnacknowledged, Fail, stores
  <2>2. CASE Sign(r)
    BY <2>2, NullAssumption DEF Sign, Typed, TypeOK, Local
  <2> QED BY <2>1, <2>2
<1>4. \A q \in Req \ {r} : Fits(q)'
  BY <1>3 DEF ClientTyped, BTypeOK, Fits, InPlay, Typed, TypeOK
<1>5. Fits(r)'
  <2> USE DEF Typed, TypeOK, Local, Goto, Finish, DeleteThen
  <2>1. (carry[r] # NoToken => pc[r] = "idle" /\ InPlay(r, carry[r].sid))'
    <3>1. CASE Store(r) /\ carry'[r] = held[r]
      <4>1. asks[r] \in {"signIn", "refresh"} /\ held[r].sid = sid[r]
        BY <3>1 DEF Store, ClientTyped, Fits
      <4>2. pc'[r] = "idle" /\ sid'[r] = sid[r]
        BY <3>1 DEF Store
      <4> QED BY <3>1, <4>1, <4>2 DEF InPlay
    <3> QED BY <3>1
  <2>2. sid'[r] # NoSid => owner'[sid'[r]] # NoUser
    <3>1. CASE Sign(r)
      BY <3>1, NullAssumption DEF Sign, SessionChoice
    <3>2. CASE ~Sign(r)
      <4>1. sid' = sid
        BY <3>2 DEF Serve, Proceed, Disturb, RegisterFind, RegisterSave, LoginFind,
           RefreshSession, RefreshUser, Store, Delete, GuardSession, GuardUser,
           StoreUnacknowledged, DeleteUnacknowledged, Fail, locals
      <4> QED BY <1>3, <4>1 DEF ClientTyped, Fits
    <3> QED BY <3>1, <3>2
  <2>3. /\ pc'[r] \in {"register.find", "register.save", "login.find"} => asks[r] = "signIn"
        /\ pc'[r] \in {"refresh.session", "refresh.user"} => asks[r] = "refresh"
        /\ pc'[r] \in {"sign", "store"} => asks[r] \in {"signIn", "refresh"}
        /\ pc'[r] \in {"idle", "delete"} \/ answer'[r] = "none"
    <3>1. Fits(r)
      BY DEF ClientTyped
    <3>2. CASE RegisterFind(r) \/ RegisterSave(r) \/ LoginFind(r)
      BY <3>1, <3>2 DEF Fits, RegisterFind, RegisterSave, LoginFind
    <3>3. CASE RefreshSession(r) \/ RefreshUser(r)
      BY <3>1, <3>3 DEF Fits, RefreshSession, RefreshUser
    <3>4. CASE Sign(r) \/ Store(r) \/ StoreUnacknowledged(r)
      BY <3>1, <3>4 DEF Fits, Sign, Store, StoreUnacknowledged, locals
    <3>5. CASE Delete(r) \/ DeleteUnacknowledged(r) \/ Fail(r)
      BY <3>1, <3>5 DEF Fits, Delete, DeleteUnacknowledged, Fail, locals
    <3>6. CASE GuardSession(r) \/ GuardUser(r)
      BY <3>1, <3>6 DEF Fits, GuardSession, GuardUser
    <3> QED BY <3>2, <3>3, <3>4, <3>5, <3>6 DEF Serve, Proceed, Disturb
  <2> QED BY <2>1, <2>2, <2>3 DEF Fits
<1> QED BY <1>1, <1>2, <1>4, <1>5 DEF ClientTyped

\* An answer comes in or is lost: the request is done.
LEMMA DoneDoes ==
  ASSUME ClientTyped, NEW r \in Req, Receive(r) \/ Lose(r)
  PROVE  /\ pc[r] = "idle" /\ by[r] \in Client
         /\ by'[r] = NoClient /\ carry'[r] = NoToken
         /\ \A q \in Req \ {r} :
              by'[q] = by[q] /\ carry'[q] = carry[q] /\ asks'[q] = asks[q]
         /\ UNCHANGED vars
         /\ \A c \in Client : jar'[c] # jar[c] =>
              c = by[r] /\ (jar'[c] = NoToken \/ jar'[c] = carry[r])
         /\ carry[r] # NoToken =>
              jar'[by[r]] \in {NoToken, carry[r]} \/ carry[r].sid \in spoiled'
         /\ spoiled \subseteq spoiled'
BY DEF Receive, Lose, Answering, Done, Kept, ClientTyped, BTypeOK

LEMMA ClientDone ==
  ASSUME ClientTyped, NEW r \in Req, Receive(r) \/ Lose(r)
  PROVE  ClientTyped'
<1>1. BTypeOK'
  <2>1. by' \in [Req -> Client \cup {NoClient}] /\ asks' \in [Req -> Asks]
        /\ carry' \in [Req -> Token \cup {NoToken}]
    BY DEF Receive, Lose, Done, ClientTyped, BTypeOK, Asks
  <2>2. jar' \in [Client -> Token \cup {NoToken}]
    BY DEF Receive, Lose, Kept, Answering, ClientTyped, BTypeOK
  <2>3. spoiled' \in SUBSET Sid
    BY DEF Receive, Lose, ClientTyped, BTypeOK, Token
  <2> QED BY <2>1, <2>2, <2>3 DEF BTypeOK
<1>2. Given'
  <2>1. UNCHANGED <<tokens, clock>>
    BY DoneDoes DEF vars
  <2> QED BY <2>1, DoneDoes DEF ClientTyped, Given, Cookie
<1>3. \A q \in Req : Fits(q)'
  BY DoneDoes DEF ClientTyped, Fits, InPlay, vars
<1> QED BY <1>1, <1>2, <1>3 DEF ClientTyped

LEMMA ClientStep ==
  ASSUME Backend, Typed', Owned', ClientTyped, [BNext]_bvars
  PROVE  ClientTyped'
<1> USE DEF Backend
<1>1. ASSUME UNCHANGED <<client, locals, owner, tokens>>, clock' \in {clock, clock + 1}
      PROVE  ClientTyped'
  <2>1. Given'
    BY <1>1 DEF ClientTyped, Given, Cookie, client, Typed, TypeOK, Token
  <2> QED BY <1>1, <2>1 DEF ClientTyped, BTypeOK, Fits, InPlay, client, locals
<1>2. CASE UNCHANGED bvars
  BY <1>1, <1>2 DEF bvars, vars, locals
<1>3. CASE Environment /\ UNCHANGED client
  BY <1>1, <1>3 DEF Environment, Tick, Suspend, Reactivate, DeleteAccount, SetStatus
<1> QED BY <1>2, <1>3, ClientUse, ClientServe, ClientDone DEF BNext


----------------------------------------------------------------------------
(* Unspoiled sessions *)

\* Request q is as it was.
Stays(q) == /\ pc'[q] = pc[q] /\ sid'[q] = sid[q] /\ held'[q] = held[q]
            /\ carry'[q] = carry[q] /\ by'[q] = by[q] /\ asks'[q] = asks[q]

LEMMA StaysInPlay ==
  ASSUME NEW q \in Req, Stays(q), NEW s
  PROVE  (InPlay(q, s)' <=> InPlay(q, s)) /\ New(q)' = New(q)
BY DEF Stays, InPlay, New

\* The pair in an answer belongs to the session of the request.
LEMMA CarriedInPlay ==
  ASSUME ClientTyped, NEW r \in Req, carry[r] # NoToken
  PROVE  InPlay(r, sid[r]) /\ carry[r].sid = sid[r] /\ pc[r] = "idle"
BY DEF ClientTyped, Fits, InPlay

LEMMA SoundInit == BInit => Unspoiled
BY DEF BInit, Init, Unspoiled, Sound, OneClient, NotEnding, Matched, InPlay, Has

LEMMA SoundUse ==
  ASSUME Typed, ClientTyped, NEW c \in Client, NEW r \in Req, Use(c, r),
         NEW s \in Sid \ spoiled', Sound(s)
  PROVE  Sound(s)'
<1>1. Arrive(r)
  BY UseArrives
<1>2. UNCHANGED <<jar, carry, session, clock>>
  BY UseDoes DEF stores
<1>3. \A q \in Req \ {r} : Stays(q)
  BY <1>1, <1>2, OthersWait, UseDoes DEF Stays, ClientTyped, BTypeOK
<1>4. ~InPlay(r, s) /\ carry[r] = NoToken
  BY UseDoes DEF InPlay, ClientTyped, Fits
<1>5. InPlay(r, s)' => /\ Has(c, s) /\ RefreshValid(jar[c]) /\ held'[r] = jar[c]
                       /\ by'[r] = c /\ asks'[r] = "refresh"
                       /\ \A q \in Req : ~InPlay(q, s)
  <2>1. ASSUME InPlay(r, s)'
        PROVE  /\ Has(c, s) /\ RefreshValid(jar[c]) /\ held'[r] = jar[c]
               /\ by'[r] = c /\ asks'[r] = "refresh" /\ Refreshing(s) = {}
    <3>1. asks'[r] \in {"signIn", "refresh"} /\ sid'[r] = s /\ s # NoSid
      BY <2>1, NullAssumption DEF InPlay
    <3>2. /\ asks'[r] = "refresh" /\ RefreshValid(jar[c]) /\ held'[r] = jar[c]
          /\ sid'[r] = jar[c].sid /\ (jar[c].sid \in spoiled' \/ Refreshing(jar[c].sid) = {})
      BY <3>1, UseDoes
    <3>3. by'[r] = c /\ Has(c, s)
      BY <3>1, <3>2, UseDoes DEF RefreshValid, Has, ClientTyped, BTypeOK
    <3> QED BY <3>1, <3>2, <3>3
  <2>2. ASSUME NEW q \in Req, InPlay(q, s), Has(c, s)
        PROVE  q \in Refreshing(s)
    BY <2>2 DEF Sound, OneClient, Refreshing, InPlay
  <2> QED BY <2>1, <2>2
<1>6. OneClient(s)'
  <2>1. \A d \in Client : Has(d, s)' <=> Has(d, s)
    BY <1>2 DEF Has
  <2>2. \A q \in Req \ {r} : (InPlay(q, s)' <=> InPlay(q, s)) /\ asks'[q] = asks[q] /\ by'[q] = by[q]
    BY <1>3, StaysInPlay DEF Stays
  <2> QED BY <1>4, <1>5, <2>1, <2>2 DEF Sound, OneClient
<1>7. NotEnding(s)'
  <2>1. ASSUME NEW q \in Req \ {r}, sid'[q] = s
        PROVE  /\ pc'[q] # "delete"
               /\ (pc'[q] = "refresh.session" /\ session'[s] # NoRecord) => HashMatches(held[q])'
    BY <1>2, <1>3, <2>1 DEF Stays, Sound, NotEnding, HashMatches
  <2>2. ASSUME sid'[r] = s
        PROVE  pc'[r] # "delete"
    BY <2>2, UseDoes
  <2>3. ASSUME sid'[r] = s, pc'[r] = "refresh.session"
        PROVE  HashMatches(held[r])'
    <3>1. InPlay(r, s)'
      BY <2>3, UseDoes, ClientAssumption DEF InPlay, ClientTyped, BTypeOK
    <3>2. HashMatches(jar[c])
      BY <1>5, <3>1 DEF Sound, Matched
    <3> QED BY <1>2, <1>5, <3>1, <3>2 DEF HashMatches
  <2> QED BY <2>1, <2>2, <2>3 DEF NotEnding
<1>8. Matched(s)'
  <2>1. ASSUME NEW d \in Client, Has(d, s)', RefreshValid(jar[d])'
        PROVE  Lasts(jar[d])' /\ (\/ HashMatches(jar[d])'
                                  \/ \E q \in Req : InPlay(q, s)' /\ session'[s].token = New(q)')
    <3>1. Has(d, s) /\ RefreshValid(jar[d])
      BY <1>2, <2>1 DEF Has, RefreshValid
    <3>2. Lasts(jar[d])'
      BY <1>2, <3>1 DEF Sound, Matched, Lasts, SessionKnown
    <3>3. CASE HashMatches(jar[d])
      BY <1>2, <3>2, <3>3 DEF HashMatches
    <3>4. ASSUME NEW q \in Req, InPlay(q, s), session[s].token = New(q)
          PROVE  InPlay(q, s)' /\ session'[s].token = New(q)'
      BY <1>2, <1>3, <1>4, <3>4, StaysInPlay
    <3> QED BY <3>1, <3>2, <3>3, <3>4 DEF Sound, Matched
  <2>2. ASSUME NEW q \in Req, carry'[q] # NoToken, sid'[q] = s, RefreshValid(carry[q])'
        PROVE  Lasts(carry[q])' /\ HashMatches(carry[q])'
    <3>1. q # r /\ carry[q] # NoToken /\ sid[q] = s /\ RefreshValid(carry[q])
      BY <1>2, <1>3, <1>4, <2>2 DEF Stays, RefreshValid
    <3> QED BY <1>2, <3>1 DEF Sound, Matched, Lasts, SessionKnown, HashMatches
  <2> QED BY <2>1, <2>2 DEF Matched
<1> QED BY <1>6, <1>7, <1>8 DEF Sound


\* A request that is served touches nothing of the other sessions.
LEMMA SoundElsewhere ==
  ASSUME Typed, Typed', ClientTyped, ClientTyped', NEW r \in Req, Serve(r),
         NEW s \in Sid \ spoiled', Sound(s), sid[r] # s, sid'[r] # s
  PROVE  Sound(s)'
<1>1. UNCHANGED <<jar, clock>> /\ session'[s] = session[s]
  BY ServeFrame
<1>2. \A q \in Req \ {r} : Stays(q)
  BY ServeFrame DEF Stays
<1>3. ~InPlay(r, s) /\ ~InPlay(r, s)'
  BY DEF InPlay
<1>4. OneClient(s)'
  <2>1. \A d \in Client : Has(d, s)' <=> Has(d, s)
    BY <1>1 DEF Has
  <2>2. \A q \in Req \ {r} : (InPlay(q, s)' <=> InPlay(q, s)) /\ asks'[q] = asks[q] /\ by'[q] = by[q]
    BY <1>2, StaysInPlay DEF Stays
  <2> QED BY <1>3, <2>1, <2>2 DEF Sound, OneClient
<1>5. NotEnding(s)'
  <2> SUFFICES ASSUME NEW q \in Req, sid'[q] = s
               PROVE  /\ pc'[q] # "delete"
                      /\ (pc'[q] = "refresh.session" /\ session'[s] # NoRecord) => HashMatches(held[q])'
    BY DEF NotEnding
  <2>1. sid[q] = s /\ pc'[q] = pc[q] /\ held'[q] = held[q]
    BY <1>2 DEF Stays
  <2>2. pc[q] = "refresh.session" => held[q].sid = s
    BY <2>1 DEF Typed, Local
  <2> QED BY <1>1, <2>1, <2>2 DEF Sound, NotEnding, HashMatches
<1>6. Matched(s)'
  <2>1. ASSUME NEW d \in Client, Has(d, s)', RefreshValid(jar[d])'
        PROVE  Lasts(jar[d])' /\ (\/ HashMatches(jar[d])'
                                  \/ \E q \in Req : InPlay(q, s)' /\ session'[s].token = New(q)')
    <3>1. Has(d, s) /\ RefreshValid(jar[d]) /\ jar[d].sid = s
      BY <1>1, <2>1 DEF Has, RefreshValid
    <3>2. Lasts(jar[d])'
      BY <1>1, <3>1 DEF Sound, Matched, Lasts, SessionKnown
    <3>3. CASE HashMatches(jar[d])
      BY <1>1, <3>1, <3>2, <3>3 DEF HashMatches
    <3>4. ASSUME NEW q \in Req, InPlay(q, s), session[s].token = New(q)
          PROVE  InPlay(q, s)' /\ session'[s].token = New(q)'
      BY <1>1, <1>2, <1>3, <3>4, StaysInPlay
    <3> QED BY <3>1, <3>2, <3>3, <3>4 DEF Sound, Matched
  <2>2. ASSUME NEW q \in Req, carry'[q] # NoToken, sid'[q] = s, RefreshValid(carry[q])'
        PROVE  Lasts(carry[q])' /\ HashMatches(carry[q])'
    <3>1. carry'[q] = carry[q] /\ carry[q] # NoToken /\ sid[q] = s /\ RefreshValid(carry[q])
      BY <1>1, <1>2, <2>2 DEF Stays, RefreshValid
    <3>2. carry[q].sid = s
      BY <3>1, CarriedInPlay
    <3> QED BY <1>1, <3>1, <3>2 DEF Sound, Matched, Lasts, SessionKnown, HashMatches
  <2> QED BY <2>1, <2>2 DEF Matched
<1> QED BY <1>4, <1>5, <1>6 DEF Sound

\* A session just drawn is nobody else's.
LEMMA SoundFresh ==
  ASSUME Typed, Owned, ClientTyped, ClientTyped', NEW r \in Req, Serve(r), Sign(r),
         sid[r] = NoSid, NEW s \in Sid, sid'[r] = s
  PROVE  Sound(s)'
<1>1. owner[s] = NoUser /\ pc'[r] = "store"
  BY DEF Sign, SessionChoice, Goto, Typed, TypeOK
<1>2. \A q \in Req \ {r} : sid'[q] # s
  BY <1>1, ServeFrame, NullAssumption DEF ClientTyped, Fits
<1>3. \A d \in Client : ~Has(d, s)'
  BY <1>1, ServeFrame, DrawnTokens DEF Has, ClientTyped, Given
<1>4. \A q \in Req : ~(carry'[q] # NoToken /\ sid'[q] = s)
  BY <1>1, <1>2 DEF ClientTyped, Fits
<1>5. \A q \in Req : InPlay(q, s)' => q = r
  BY <1>2 DEF InPlay
<1> QED BY <1>1, <1>2, <1>3, <1>4, <1>5 DEF Sound, OneClient, NotEnding, Matched


\* The record is replaced by the one sign-in or refresh in play, whose pair
\* then matches it.
LEMMA SoundStore ==
  ASSUME Backend, ClientTyped, ClientTyped', NEW r \in Req, Serve(r),
         NEW s \in Sid \ spoiled', Sound(s), sid[r] = s, sid'[r] = s,
         Store(r) \/ StoreUnacknowledged(r)
  PROVE  Matched(s)'
<1> USE DEF Backend
<1>1. /\ pc[r] = "store" /\ session'[s] = Stored(held[r]) /\ UNCHANGED <<clock, jar>>
      /\ held[r] \in Token /\ held[r].sid = s /\ held[r].user = who[r]
  BY ServeFrame DEF Store, StoreUnacknowledged, Typed, TypeOK, Local
<1>2. session'[s] # NoRecord /\ clock \in Nat
  <2>1. Stored(held[r]) \in Record
    BY <1>1, TTLAssumption DEF Stored, Typed, TypeOK, Token, Record
  <2> QED BY <1>1, <2>1, NoRecordAssumption DEF Typed, TypeOK
<1>3. owner[s] = who[r]
  BY <1>1, NullAssumption DEF Owned, OwnerLocal
<1>4. InPlay(r, s) /\ InPlay(r, s)' /\ New(r)' = held[r]
  <2>1. InPlay(r, s) /\ InPlay(r, s)'
    BY <1>1, ServeFrame DEF InPlay, ClientTyped, Fits
  <2>2. CASE Store(r)
    <3>1. carry'[r] = held[r] /\ pc'[r] = "idle"
      BY <2>2, CookiesSet DEF Store, Cookies, Finish, Typed, TypeOK
    <3> QED BY <2>1, <3>1 DEF New
  <2>3. CASE StoreUnacknowledged(r)
    BY <1>1, <2>1, <2>3 DEF StoreUnacknowledged, locals, New
  <2> QED BY <2>1, <2>2, <2>3
<1>5. ASSUME NEW t \in Token, t.sid = s, t.user = owner[s], t.iat <= clock
      PROVE  Lasts(t)'
  BY <1>1, <1>2, <1>3, <1>5, TTLAssumption DEF Lasts, SessionKnown, Stored, Token
<1>6. ASSUME NEW d \in Client, Has(d, s)'
      PROVE  Lasts(jar[d])'
  <2>1. jar'[d] = jar[d] /\ jar[d] \in tokens /\ jar[d].sid = s
    BY <1>1, <1>6 DEF Has, ClientTyped, Given, Cookie
  <2> QED BY <1>5, <2>1 DEF ClientTyped, Given, Owned, SessionOwner, Typed, TypeOK, Lasts, SessionKnown
<1>7. ASSUME NEW q \in Req, carry'[q] # NoToken, sid'[q] = s
      PROVE  Lasts(carry[q])' /\ HashMatches(carry[q])'
  <2>1. q = r
    BY <1>4, <1>7, ServeFrame, CarriedInPlay DEF Sound, OneClient
  <2>2. carry'[r] = held[r] /\ held[r].iat <= clock
    BY <1>1, <1>7, <2>1, CookiesSet DEF Outlives, SignedBefore
  <2> QED BY <1>1, <1>3, <1>5, <2>1, <2>2 DEF HashMatches, Stored, Lasts, SessionKnown
<1>8. session'[s].token = New(r)'
  BY <1>1, <1>4 DEF Stored
<1> QED BY <1>4, <1>6, <1>7, <1>8 DEF Matched

\* Nothing is written, and nothing given out.
LEMMA SoundUnwritten ==
  ASSUME Backend, ClientTyped, ClientTyped', NEW r \in Req, Serve(r),
         NEW s \in Sid \ spoiled', Sound(s), sid[r] = s, sid'[r] = s,
         session'[s] = session[s], ~Store(r), ~StoreUnacknowledged(r)
  PROVE  Matched(s)'
<1> USE DEF Backend
<1>1. UNCHANGED <<jar, clock>> /\ carry[r] = NoToken /\ carry'[r] = NoToken
      /\ \A q \in Req \ {r} : Stays(q)
  BY ServeFrame, CookiesSet DEF Stays
<1>2. ASSUME NEW d \in Client, Has(d, s), Lasts(jar[d]), session[s].token = New(r)
      PROVE  FALSE
  <2>1. session[s] \in Record /\ session[s] # NoRecord
    BY <1>2 DEF Lasts, SessionKnown, Has, Typed, TypeOK
  <2>2. pc[r] = "store"
    BY <1>1, <1>2, <2>1, NoTokenAssumption DEF New, Record
  <2>3. Fail(r) /\ session[s].token = held[r]
    BY <1>2, <2>2 DEF New, Serve, Proceed, Disturb, RegisterFind, RegisterSave, LoginFind,
         RefreshSession, RefreshUser, Sign, Delete, GuardSession, GuardUser,
         DeleteUnacknowledged
  <2>4. held[r].sid = s /\ held[r].user = owner[s]
    BY <2>2, NullAssumption DEF Typed, Local, Owned, OwnerLocal
  <2>5. answer'[r] = "error"
    BY <2>3 DEF Fail, Finish, Typed, TypeOK
  <2>6. SessionKnown(held[r]) /\ HashMatches(held[r])
    BY <2>1, <2>3, <2>4 DEF SessionKnown, HashMatches, Owned, SessionOwner
  <2> QED BY <2>2, <2>5, <2>6 DEF LosesRecord, Serve
<1>3. ASSUME NEW d \in Client, Has(d, s)', RefreshValid(jar[d])'
      PROVE  Lasts(jar[d])' /\ (\/ HashMatches(jar[d])'
                                \/ \E q \in Req : InPlay(q, s)' /\ session'[s].token = New(q)')
  <2>1. Has(d, s) /\ RefreshValid(jar[d]) /\ jar[d].sid = s
    BY <1>1, <1>3 DEF Has, RefreshValid
  <2>2. Lasts(jar[d])
    BY <2>1 DEF Sound, Matched
  <2>3. Lasts(jar[d])'
    BY <1>1, <2>1, <2>2 DEF Lasts, SessionKnown
  <2>4. CASE HashMatches(jar[d])
    BY <1>1, <2>1, <2>3, <2>4 DEF HashMatches
  <2>5. ASSUME NEW q \in Req, InPlay(q, s), session[s].token = New(q)
        PROVE  InPlay(q, s)' /\ session'[s].token = New(q)'
    <3>1. q # r
      BY <1>2, <2>1, <2>2, <2>5
    <3> QED BY <1>1, <2>5, <3>1, StaysInPlay
  <2> QED BY <2>1, <2>3, <2>4, <2>5 DEF Sound, Matched
<1>4. ASSUME NEW q \in Req, carry'[q] # NoToken, sid'[q] = s, RefreshValid(carry[q])'
      PROVE  Lasts(carry[q])' /\ HashMatches(carry[q])'
  <2>1. carry'[q] = carry[q] /\ carry[q] # NoToken /\ sid[q] = s /\ RefreshValid(carry[q])
    BY <1>1, <1>4 DEF Stays, RefreshValid
  <2>2. carry[q].sid = s
    BY <2>1, CarriedInPlay
  <2> QED BY <1>1, <2>1, <2>2 DEF Sound, Matched, Lasts, SessionKnown, HashMatches
<1> QED BY <1>3, <1>4 DEF Matched


LEMMA SoundHere ==
  ASSUME Backend, Typed', ClientTyped, ClientTyped', NEW r \in Req, Serve(r),
         NEW s \in Sid \ spoiled', Sound(s), sid[r] = s, sid'[r] = s
  PROVE  Sound(s)'
<1> USE DEF Backend
<1>1. \A q \in Req \ {r} : Stays(q)
  BY ServeFrame DEF Stays
<1>2. OneClient(s)'
  <2>1. \A d \in Client : Has(d, s)' <=> Has(d, s)
    BY ServeFrame DEF Has
  <2>2. \A q \in Req : /\ InPlay(q, s)' <=> InPlay(q, s)
                       /\ asks'[q] = asks[q] /\ by'[q] = by[q]
    BY <1>1, ServeFrame DEF Stays, InPlay
  <2> QED BY <2>1, <2>2 DEF Sound, OneClient
<1>3. pc[r] # "delete" /\ ~Delete(r) /\ ~DeleteUnacknowledged(r)
  BY DEF Sound, NotEnding, Delete, DeleteUnacknowledged
<1>4. pc'[r] \notin {"delete", "refresh.session"}
  <2> USE <1>3 DEF Typed, TypeOK, Goto, Finish, DeleteThen
  <2>1. CASE RefreshSession(r)
    <3>1. ~(SessionKnown(held[r]) /\ ~HashMatches(held[r]))
      BY <2>1 DEF RefreshSession, Local, Sound, NotEnding, SessionKnown
    <3> QED BY <2>1, <3>1 DEF RefreshSession
  <2>2. CASE RefreshUser(r) \/ GuardUser(r)
    <3>1. ~EndsSession(r)
      BY DEF Serve
    <3> QED BY <2>2, <3>1 DEF RefreshUser, GuardUser, EndsSession
  <2>3. CASE ~(RefreshSession(r) \/ RefreshUser(r) \/ GuardUser(r))
    BY <2>3 DEF Serve, Proceed, Disturb, RegisterFind, RegisterSave, LoginFind, Sign, Store,
                GuardSession, StoreUnacknowledged, Fail, locals
  <2> QED BY <2>1, <2>2, <2>3
<1>5. CASE Store(r) \/ StoreUnacknowledged(r)
  <2>1. Matched(s)'
    BY <1>5, SoundStore
  <2>2. InPlay(r, s)
    BY <1>5, ServeFrame DEF Store, StoreUnacknowledged, InPlay, ClientTyped, Fits
  <2>3. ASSUME NEW q \in Req \ {r}, sid'[q] = s
        PROVE  pc'[q] \notin {"delete", "refresh.session"}
    <3>1. pc[q] # "refresh.session"
      BY <1>1, <2>2, <2>3 DEF Stays, Sound, OneClient, InPlay, ClientTyped, Fits
    <3> QED BY <1>1, <2>3, <3>1 DEF Stays, Sound, NotEnding
  <2>4. NotEnding(s)'
    BY <1>4, <2>3 DEF NotEnding
  <2> QED BY <1>2, <2>1, <2>4 DEF Sound
<1>6. CASE ~(Store(r) \/ StoreUnacknowledged(r))
  <2>1. session' = session
    BY <1>3, <1>6 DEF Serve, Proceed, Disturb, RegisterFind, RegisterSave, LoginFind,
       RefreshSession, RefreshUser, Sign, GuardSession, GuardUser, Fail, stores
  <2>2. Matched(s)'
    BY <1>6, <2>1, SoundUnwritten
  <2>3. NotEnding(s)'
    BY <1>1, <1>4, <2>1 DEF Stays, Sound, NotEnding, HashMatches
  <2> QED BY <1>2, <2>2, <2>3 DEF Sound
<1> QED BY <1>5, <1>6

LEMMA SoundServe ==
  ASSUME Backend, Typed', ClientTyped, ClientTyped', NEW r \in Req, Serve(r),
         NEW s \in Sid \ spoiled', Sound(s)
  PROVE  Sound(s)'
<1>1. sid'[r] = sid[r] \/ (Sign(r) /\ sid[r] = NoSid)
  BY DEF Serve, Proceed, Disturb, RegisterFind, RegisterSave, LoginFind, RefreshSession,
         RefreshUser, Sign, SessionChoice, Store, Delete, GuardSession, GuardUser,
         StoreUnacknowledged, DeleteUnacknowledged, Fail, Finish, DeleteThen, locals,
         Backend, Typed, TypeOK
<1>2. s # NoSid
  BY NullAssumption
<1> QED BY <1>1, <1>2, SoundElsewhere, SoundFresh, SoundHere DEF Backend

\* The client takes the pair over that matches the record, or has to do
\* without it.
LEMMA SoundDone ==
  ASSUME Typed, ClientTyped, NEW r \in Req, Receive(r) \/ Lose(r),
         NEW s \in Sid \ spoiled', Sound(s)
  PROVE  Sound(s)'
<1>1. \A q \in Req \ {r} : Stays(q)
  BY DoneDoes DEF Stays, vars
<1>2. UNCHANGED vars /\ ~InPlay(r, s)' /\ carry'[r] = NoToken
  BY DoneDoes DEF InPlay
<1>3. ASSUME NEW d \in Client, Has(d, s)'
      PROVE  \/ Has(d, s) /\ jar'[d] = jar[d]
             \/ /\ d = by[r] /\ jar'[d] = carry[r] /\ carry[r] # NoToken
                /\ sid[r] = s /\ carry[r].sid = s /\ InPlay(r, s)
  BY <1>3, DoneDoes, CarriedInPlay DEF Has
<1>4. OneClient(s)'
  <2>1. \A q \in Req : InPlay(q, s)' =>
          q # r /\ InPlay(q, s) /\ asks'[q] = asks[q] /\ by'[q] = by[q]
    BY <1>1, <1>2, StaysInPlay DEF Stays
  <2>2. ASSUME NEW d \in Client, NEW e \in Client, Has(d, s)', Has(e, s)'
        PROVE  d = e
    BY <1>3, <2>2 DEF Sound, OneClient
  <2>3. ASSUME NEW d \in Client, NEW q \in Req, Has(d, s)', InPlay(q, s)'
        PROVE  asks'[q] = "refresh" /\ by'[q] = d
    BY <1>3, <2>1, <2>3 DEF Sound, OneClient
  <2> QED BY <2>1, <2>2, <2>3 DEF Sound, OneClient
<1>5. NotEnding(s)'
  BY <1>2 DEF Sound, NotEnding, HashMatches, vars
<1>6. Matched(s)'
  <2>1. ASSUME NEW d \in Client, Has(d, s)', RefreshValid(jar[d])'
        PROVE  Lasts(jar[d])' /\ (\/ HashMatches(jar[d])'
                                  \/ \E q \in Req : InPlay(q, s)' /\ session'[s].token = New(q)')
    <3>1. RefreshValid(jar'[d]) /\ (Lasts(jar'[d]) => Lasts(jar[d])')
          /\ (HashMatches(jar'[d]) => HashMatches(jar[d])')
      BY <1>2, <2>1 DEF vars, Lasts, SessionKnown, HashMatches, RefreshValid
    <3>2. CASE jar'[d] = carry[r] /\ carry[r] # NoToken /\ sid[r] = s
      BY <3>1, <3>2 DEF Sound, Matched
    <3>3. CASE Has(d, s) /\ jar'[d] = jar[d]
      <4>1. Lasts(jar[d]) /\ jar[d].sid = s
        BY <3>1, <3>3 DEF Sound, Matched, Has
      <4>2. CASE HashMatches(jar[d])
        BY <3>1, <3>3, <4>1, <4>2
      <4>3. ASSUME NEW q \in Req, q # r, InPlay(q, s), session[s].token = New(q)
            PROVE  InPlay(q, s)' /\ session'[s].token = New(q)'
        BY <1>1, <1>2, <4>3, StaysInPlay DEF vars
      <4>4. ASSUME InPlay(r, s), session[s].token = New(r)
            PROVE  HashMatches(jar[d])
        <5>1. New(r) = carry[r] /\ by[r] = d
          BY <3>3, <4>4, DoneDoes DEF New, Sound, OneClient
        <5>2. session[s].token \in Token
          BY <4>1 DEF Lasts, SessionKnown, Typed, TypeOK, Record
        <5>3. carry[r] # NoToken /\ carry[r].sid = s
          BY <4>4, <5>1, <5>2, NoTokenAssumption, CarriedInPlay DEF InPlay
        <5>4. jar'[d] \in {NoToken, carry[r]}
          BY <5>1, <5>3, DoneDoes
        <5> QED BY <3>3, <4>1, <4>4, <5>1, <5>4 DEF Has, HashMatches
      <4> QED BY <3>1, <3>3, <4>1, <4>2, <4>3, <4>4 DEF Sound, Matched
    <3> QED BY <1>3, <2>1, <3>2, <3>3
  <2>2. ASSUME NEW q \in Req, carry'[q] # NoToken, sid'[q] = s, RefreshValid(carry[q])'
        PROVE  Lasts(carry[q])' /\ HashMatches(carry[q])'
    <3>1. carry'[q] = carry[q] /\ carry[q] # NoToken /\ sid[q] = s
      BY <1>1, <1>2, <2>2 DEF Stays
    <3>2. RefreshValid(carry[q])
      BY <1>2, <2>2, <3>1 DEF vars, RefreshValid
    <3> QED BY <1>2, <3>1, <3>2
            DEF Sound, Matched, vars, Lasts, SessionKnown, HashMatches
  <2> QED BY <2>1, <2>2 DEF Matched
<1> QED BY <1>4, <1>5, <1>6 DEF Sound


\* A record lapses only when no cookie of its session verifies any more.
LEMMA SoundEnvironment ==
  ASSUME Typed, ClientTyped, Environment \/ UNCHANGED vars, UNCHANGED client,
         NEW s \in Sid, Sound(s)
  PROVE  Sound(s)'
<1> USE DEF Typed, TypeOK
<1>1. UNCHANGED locals /\ clock' \in {clock, clock + 1}
  BY DEF Environment, Tick, Suspend, Reactivate, DeleteAccount, SetStatus, vars, locals
<1>2. \/ session'[s] = session[s]
      \/ /\ session'[s] = NoRecord
         /\ session[s] # NoRecord => session[s].exp <= clock'
  BY DEF Environment, Tick, Unexpired, Suspend, Reactivate, DeleteAccount, SetStatus, vars
<1>3. OneClient(s)'
  BY <1>1 DEF Sound, OneClient, InPlay, Has, locals, client
<1>4. NotEnding(s)'
  <2> SUFFICES ASSUME NEW q \in Req, sid[q] = s
               PROVE  /\ pc[q] # "delete"
                      /\ (pc[q] = "refresh.session" /\ session'[s] # NoRecord) =>
                           session'[held[q].sid].token = held[q]
    BY <1>1 DEF NotEnding, HashMatches, locals
  <2>1. pc[q] = "refresh.session" => held[q].sid = s
    BY DEF Local
  <2> QED BY <1>2, <2>1 DEF Sound, NotEnding, HashMatches
<1>5. ASSUME NEW t \in Token, t.sid = s, RefreshValid(t)', Lasts(t)
      PROVE  RefreshValid(t) /\ session'[s] = session[s] /\ Lasts(t)'
  <2>1. clock < t.iat + RefreshTTL /\ clock' < t.iat + RefreshTTL /\ t # NoToken
    BY <1>1, <1>5, TTLAssumption DEF RefreshValid, Token
  <2>2. session[s] # NoRecord /\ session[s].exp >= t.iat + RefreshTTL /\ session[s].exp \in Nat
    BY <1>5 DEF Lasts, SessionKnown, Record
  <2>3. session'[s] = session[s]
    BY <1>1, <1>2, <2>1, <2>2, TTLAssumption DEF Token
  <2> QED BY <1>5, <2>1, <2>3 DEF RefreshValid, Lasts, SessionKnown
<1>6. Matched(s)'
  <2>1. ASSUME NEW t \in Token, RefreshValid(t)'
        PROVE  RefreshValid(t)
    BY <1>1, <2>1, TTLAssumption DEF RefreshValid, Token
  <2>2. ASSUME NEW d \in Client, Has(d, s)', RefreshValid(jar[d])'
        PROVE  Lasts(jar[d])' /\ (\/ HashMatches(jar[d])'
                                  \/ \E q \in Req : InPlay(q, s)' /\ session'[s].token = New(q)')
    <3>1. jar'[d] = jar[d] /\ jar[d] \in Token /\ Has(d, s) /\ jar[d].sid = s
      BY <2>2 DEF client, Has, ClientTyped, BTypeOK
    <3>2. RefreshValid(jar[d])
      BY <2>1, <2>2, <3>1 DEF RefreshValid
    <3>3. Lasts(jar[d])' /\ session'[s] = session[s]
      BY <1>5, <2>2, <3>1, <3>2 DEF Sound, Matched, RefreshValid, Lasts, SessionKnown
    <3>4. \A q \in Req : (InPlay(q, s)' <=> InPlay(q, s)) /\ New(q)' = New(q)
      BY <1>1 DEF locals, client, InPlay, New
    <3> QED BY <3>1, <3>2, <3>3, <3>4 DEF Sound, Matched, HashMatches
  <2>3. ASSUME NEW q \in Req, carry'[q] # NoToken, sid'[q] = s, RefreshValid(carry[q])'
        PROVE  Lasts(carry[q])' /\ HashMatches(carry[q])'
    <3>1. carry'[q] = carry[q] /\ carry[q] \in Token /\ sid[q] = s /\ carry[q] # NoToken
      BY <1>1, <2>3 DEF client, locals, ClientTyped, BTypeOK
    <3>2. RefreshValid(carry[q]) /\ carry[q].sid = s
      BY <2>1, <2>3, <3>1, CarriedInPlay DEF RefreshValid
    <3> QED BY <1>5, <2>3, <3>1, <3>2
            DEF Sound, Matched, RefreshValid, Lasts, SessionKnown, HashMatches
  <2> QED BY <2>2, <2>3 DEF Matched
<1> QED BY <1>3, <1>4, <1>6 DEF Sound

LEMMA UnspoiledStep ==
  ASSUME Backend, Typed', ClientTyped, ClientTyped', Unspoiled, [BNext]_bvars
  PROVE  Unspoiled'
<1> SUFFICES ASSUME NEW s \in Sid \ spoiled'
             PROVE  Sound(s)'
  BY DEF Unspoiled
<1> USE DEF Backend
<1>1. spoiled \subseteq spoiled'
  BY UseDoes, ServeFrame, DoneDoes DEF BNext, bvars, client
<1>2. Sound(s)
  BY <1>1 DEF Unspoiled
<1>3. CASE UNCHANGED bvars \/ (Environment /\ UNCHANGED client)
  BY <1>2, <1>3, SoundEnvironment DEF bvars
<1> QED BY <1>2, <1>3, SoundUse, SoundServe, SoundDone DEF BNext

----------------------------------------------------------------------------
(* Theorems *)

LEMMA BackendInit == BInit => Backend
<1>1. Init => Outlives
  BY DEF Init, Outlives, RecordOutlivesToken, SignedBefore
<1> QED BY <1>1, TypedInit, OwnedInit DEF BInit, Backend

LEMMA BackendStep ==
  ASSUME Backend, ClientTyped, [BNext]_bvars
  PROVE  Backend'
BY BStepIsStep, TypedStep, OwnedStep, OutlivesStep DEF Backend

LEMMA ClientTypedAlways == BSpec => [](Backend /\ ClientTyped)
<1>1. Backend /\ ClientTyped /\ [BNext]_bvars => (Backend /\ ClientTyped)'
  BY BackendStep, ClientStep DEF Backend
<1> QED BY <1>1, BackendInit, ClientInit, PTL DEF BSpec

\* Browsers only send cookies they were given, so every run with browsers is
\* a run of the backend and whatever is proved of AuthSessions holds in it
\* (auth.controller.ts reads the two cookies and nothing else).
THEOREM BrowsersAreBackendClients == BSpec => BrowsersAreClients
<1>1. BInit => Init
  BY DEF BInit
<1> QED BY <1>1, BStepIsStep, ClientTypedAlways, PTL DEF BSpec, BrowsersAreClients, Spec

\* In particular each session keeps its contract while browsers use it.
THEOREM BrowsersKeepContract == BSpec => ImplementsContract
BY BrowsersAreBackendClients, SessionsKeepContract DEF BrowsersAreClients

\* A browser that awaits its refreshes is never signed out by the order in
\* which requests, answers, failures and other browsers fall, for any number
\* of tabs (refreshSession 94-130, issueSession 236-290).
THEOREM BrowsersStaySignedIn == BSpec => []StaysSignedIn
<1>1. Backend /\ ClientTyped /\ Unspoiled => StaysSignedIn
  <2> SUFFICES ASSUME Backend, ClientTyped, Unspoiled, NEW c \in Client,
                      RefreshValid(jar[c]), jar[c].sid \notin spoiled,
                      Refreshing(jar[c].sid) = {}
               PROVE  SessionKnown(jar[c]) /\ HashMatches(jar[c])
    BY DEF StaysSignedIn
  <2> DEFINE s == jar[c].sid
  <2>1. s \in Sid /\ Has(c, s)
    BY DEF RefreshValid, Has, ClientTyped, BTypeOK, Token
  <2>2. OneClient(s) /\ Matched(s)
    BY <2>1 DEF Unspoiled, Sound
  <2>3. \A r \in Req : ~InPlay(r, s)
    BY <2>1, <2>2 DEF OneClient, InPlay, Refreshing
  <2> QED BY <2>1, <2>2, <2>3 DEF Matched, Lasts
<1>2. Backend /\ ClientTyped /\ Unspoiled /\ [BNext]_bvars => Unspoiled'
  BY BackendStep, ClientStep, UnspoiledStep DEF Backend
<1> QED BY <1>1, <1>2, SoundInit, ClientTypedAlways, PTL DEF BSpec

=============================================================================
