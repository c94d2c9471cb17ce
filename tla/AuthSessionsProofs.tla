------------------------- MODULE AuthSessionsProofs -------------------------
(***************************************************************************)
(* Theorems about AuthSessions, for any number of users, sessions and      *)
(* overlapping requests.  Types first, with what a request's own variables *)
(* hold while it waits; then the finality of dead sessions, on which the   *)
(* treatment of doomed requests rests; then ownership, suspension and      *)
(* expiry; and last the refinement of SessionContract.                     *)
(***************************************************************************)
EXTENDS AuthSessions, TLAPS

\* What a request knows of itself while it waits.
Local(r) ==
  /\ pc[r] # "idle" => who[r] \in User
  /\ pc[r] \in {"register.find", "register.save", "login.find"} => sid[r] = NoSid
  /\ pc[r] \in {"refresh.session", "refresh.user", "guard.session",
                "guard.user", "store", "delete"} => sid[r] \in Sid
  /\ pc[r] \in {"refresh.session", "guard.session", "store"} =>
       held[r] \in Token /\ held[r].sid = sid[r] /\ held[r].user = who[r]

Typed == TypeOK /\ \A r \in Req : Local(r)

LEMMA TypedInit == Init => Typed
BY DEF Init, Typed, TypeOK, Local, Status, Answers

LEMMA BeginTyped ==
  ASSUME Typed, NEW r \in Req, NEW where \in Waiting,
         NEW u \in User, NEW s \in Sid \cup {NoSid}, NEW t \in Token \cup {NoToken},
         Begin(r, where, u, s, t),
         where \in {"register.find", "login.find"} => s = NoSid,
         where \in {"refresh.session", "guard.session"} =>
           t \in Token /\ s = t.sid /\ u = t.user,
         where \in {"register.find", "login.find", "refresh.session", "guard.session"}
  PROVE  Typed'
<1>1. TypeOK'
  BY DEF Typed, TypeOK, Begin, Goto, stores, Answers, Dead
<1>2. \A q \in Req : Local(q)'
  BY DEF Typed, TypeOK, Local, Begin, Goto, Token
<1> QED BY <1>1, <1>2 DEF Typed

LEMMA RefuseTyped ==
  ASSUME Typed, NEW r \in Req, NEW a \in Answers, Refuse(r, a)
  PROVE  Typed'
BY DEF Typed, TypeOK, Local, Refuse, stores

LEMMA TypedArrive ==
  ASSUME Typed, NEW r \in Req, Arrive(r)
  PROVE  Typed'
<1> USE DEF Waiting, Answers
<1>1. ASSUME NEW u \in User, BeginRegister(r, u) \/ BeginLogin(r, u)
      PROVE  Typed'
  BY <1>1, BeginTyped DEF BeginRegister, BeginLogin
<1>2. ASSUME NEW t \in Cookie, BeginRefresh(r, t) \/ BeginGuard(r, t)
      PROVE  Typed'
  <2>1. t \in Token \cup {NoToken}
    BY DEF Cookie, Typed, TypeOK
  <2>2. CASE t = NoToken
    BY <1>2, <2>2, RefuseTyped DEF BeginRefresh, BeginGuard, RefreshValid, AccessValid
  <2>3. CASE t \in Token
    BY <1>2, <2>3, RefuseTyped, BeginTyped DEF BeginRefresh, BeginGuard, Token
  <2> QED BY <2>1, <2>2, <2>3
<1>3. ASSUME NEW rt \in Cookie, NEW t \in Cookie, BeginLogout(r, rt, t)
      PROVE  Typed'
  <2> DEFINE found == LogoutToken(rt, t)
  <2>1. found \in Token \cup {NoToken}
    BY DEF Cookie, Typed, TypeOK, LogoutToken
  <2>2. CASE found = NoToken
    BY <1>3, <2>2, RefuseTyped DEF BeginLogout
  <2>3. CASE found \in Token /\ found # NoToken
    <3> HIDE DEF found
    <3>1. /\ Goto(r, "delete") /\ UNCHANGED <<stores, held>>
          /\ who' = [who EXCEPT ![r] = found.user]
          /\ sid' = [sid EXCEPT ![r] = found.sid]
          /\ answer' = [answer EXCEPT ![r] = "loggedOut"]
          /\ doomed' = [doomed EXCEPT ![r] = FALSE]
      BY <1>3, <2>3 DEF BeginLogout, found
    <3> QED BY <2>3, <3>1 DEF Typed, TypeOK, Local, Goto, stores, Token
  <2> QED BY <2>1, <2>2, <2>3
<1> QED BY <1>1, <1>2, <1>3 DEF Arrive

LEMMA TypedProceed ==
  ASSUME Typed, NEW r \in Req, Proceed(r)
  PROVE  Typed'
<1>1. CASE RegisterFind(r)
  BY <1>1 DEF Typed, TypeOK, Local, RegisterFind, Goto, Finish, stores, Waiting, Answers
<1>2. CASE RegisterSave(r)
  BY <1>2 DEF Typed, TypeOK, Local, RegisterSave, Goto, Finish, stores, Waiting, Answers, Status
<1>3. CASE LoginFind(r)
  BY <1>3 DEF Typed, TypeOK, Local, LoginFind, Goto, Finish, stores, Waiting, Answers, Status
<1>4. CASE RefreshSession(r)
  BY <1>4 DEF Typed, TypeOK, Local, RefreshSession, Goto, Finish, DeleteThen, stores, Waiting, Answers, Status
<1>5. CASE RefreshUser(r)
  BY <1>5 DEF Typed, TypeOK, Local, RefreshUser, Goto, Finish, DeleteThen, stores, Waiting, Answers, Status
<1>6. CASE Sign(r)
  BY <1>6 DEF Typed, TypeOK, Local, Sign, SessionChoice, Goto, stores, Waiting, Answers, Status, Token
<1>7. CASE Store(r)
  <2>1. Stored(held[r]) \in Record
    BY <1>7, TTLAssumption DEF Typed, TypeOK, Local, Store, Stored, Token, Record
  <2>2. TypeOK'
    BY <1>7, <2>1 DEF Typed, TypeOK, Local, Store, Finish, Answers
  <2>3. \A q \in Req : Local(q)'
    BY <1>7 DEF Typed, TypeOK, Local, Store, Finish
  <2> QED BY <2>2, <2>3 DEF Typed
<1>8. CASE Delete(r)
  BY <1>8 DEF Typed, TypeOK, Local, Delete, Finish, stores, Waiting, Answers, Status
<1>9. CASE GuardSession(r)
  BY <1>9 DEF Typed, TypeOK, Local, GuardSession, Finish, Goto, stores, Waiting, Answers, Status
<1>10. CASE GuardUser(r)
  <2>1. TypeOK'
    BY <1>10 DEF Typed, TypeOK, GuardUser, Goto, Finish, DeleteThen, stores, Waiting, Answers
  <2>2. \A q \in Req : Local(q)'
    BY <1>10 DEF Typed, TypeOK, Local, GuardUser, Goto, Finish, DeleteThen
  <2> QED BY <2>1, <2>2 DEF Typed
<1> QED BY <1>1, <1>2, <1>3, <1>4, <1>5, <1>6, <1>7, <1>8, <1>9, <1>10 DEF Proceed

LEMMA TypedDisturb ==
  ASSUME Typed, NEW r \in Req, Disturb(r)
  PROVE  Typed'
<1>1. CASE StoreUnacknowledged(r)
  <2>1. Stored(held[r]) \in Record
    BY <1>1, TTLAssumption
       DEF Typed, TypeOK, Local, StoreUnacknowledged, Stored, Token, Record
  <2> QED BY <1>1, <2>1 DEF Typed, TypeOK, Local, StoreUnacknowledged, locals
<1>2. CASE DeleteUnacknowledged(r)
  BY <1>2 DEF Typed, TypeOK, Local, DeleteUnacknowledged, locals
<1>3. CASE Fail(r)
  BY <1>3 DEF Typed, TypeOK, Local, Fail, Finish, stores, Answers
<1> QED BY <1>1, <1>2, <1>3 DEF Disturb

LEMMA TypedEnvironment ==
  ASSUME Typed, Environment
  PROVE  Typed'
<1>1. CASE Tick
  BY <1>1 DEF Typed, TypeOK, Local, Tick, Unexpired, locals
<1>2. ASSUME NEW u \in User, Suspend(u) \/ Reactivate(u) \/ DeleteAccount(u)
      PROVE  Typed'
  BY <1>2 DEF Typed, TypeOK, Local, Suspend, Reactivate, DeleteAccount, SetStatus,
              Status, locals
<1> QED BY <1>1, <1>2 DEF Environment

\* A step of Next is one of these, which the later proofs follow.
LEMMA TypedStep == Typed /\ [Next]_vars => Typed'
<1>1. Typed /\ UNCHANGED vars => Typed'
  BY DEF Typed, TypeOK, Local, vars
<1> QED BY <1>1, TypedArrive, TypedProceed, TypedDisturb, TypedEnvironment DEF Next

LEMMA TypedAlways == Spec => []Typed
BY TypedInit, TypedStep, PTL DEF Spec

\* Every reachable state is well typed, for any parameters: in particular a
\* request that signs always knows its user, and one that writes or deletes
\* a record always knows its session (auth.service.ts 94-147, 236-290).
THEOREM TypeCorrect == Spec => []TypeOK
<1>1. Typed => TypeOK BY DEF Typed
<1> QED BY <1>1, TypedAlways, PTL

----------------------------------------------------------------------------
(* Dead sessions *)

\* Only four kinds of step touch what Dead looks at; each keeps it.
LEMMA DeadStep ==
  ASSUME Typed, [Next]_vars, NEW s \in Sid, Dead(s)
  PROVE  Dead(s)'
<1>1. CASE UNCHANGED vars
  BY <1>1 DEF vars, Dead, Writer
<1>2. ASSUME NEW r \in Req, Arrive(r)
      PROVE  Dead(s)'
  <2>1. /\ UNCHANGED <<owner, session>>
        /\ \A q \in Req : q # r => pc'[q] = pc[q] /\ sid'[q] = sid[q]
        /\ pc'[r] \notin Writing
    BY <1>2 DEF Arrive, BeginRegister, BeginLogin, BeginRefresh, BeginGuard, BeginLogout,
                Begin, Refuse, Goto, stores, Typed, TypeOK, Writing
  <2> QED BY <2>1 DEF Dead, Writer
<1>3. ASSUME NEW r \in Req, Proceed(r) \/ Disturb(r)
      PROVE  Dead(s)'
  <2>1. /\ owner'[s] = owner[s] /\ session'[s] = NoRecord
        /\ \A q \in Req : q # r => pc'[q] = pc[q] /\ sid'[q] = sid[q]
        /\ ~Writer(r, s)'
    <3> USE <1>3 DEF Typed, TypeOK, Local, Dead, Writer, Writing, Goto, Finish, DeleteThen, stores
    <3>1. CASE RegisterFind(r) \/ RegisterSave(r) \/ LoginFind(r)
      BY <3>1, NullAssumption DEF RegisterFind, RegisterSave, LoginFind
    <3>2. CASE RefreshSession(r)
      BY <3>2 DEF RefreshSession, SessionKnown
    <3>3. CASE RefreshUser(r) \/ GuardSession(r) \/ GuardUser(r) \/ Fail(r)
      BY <3>3 DEF RefreshUser, GuardSession, GuardUser, Fail
    <3>4. CASE Sign(r)
      BY <3>4 DEF Sign, SessionChoice
    <3>5. CASE Store(r) \/ StoreUnacknowledged(r)
      BY <3>5 DEF Store, StoreUnacknowledged, locals
    <3>6. CASE Delete(r) \/ DeleteUnacknowledged(r)
      BY <3>6 DEF Delete, DeleteUnacknowledged, locals
    <3> QED BY <1>3, <3>1, <3>2, <3>3, <3>4, <3>5, <3>6 DEF Proceed, Disturb
  <2> QED BY <2>1 DEF Dead, Writer
<1>4. CASE Environment
  BY <1>4 DEF Environment, Tick, Unexpired, Suspend, Reactivate, DeleteAccount, SetStatus,
              Dead, Writer, locals
<1> QED BY <1>1, <1>2, <1>3, <1>4 DEF Next

\* A session that has lost its record, with no request past its session check,
\* never gets a record again: logout is final as soon as no refresh of the
\* session is in flight (refreshSession 106-115, logout 146).
THEOREM DeadSessionsStayDead == Spec => DeadStaysDead
<1>1. Typed /\ [Next]_vars => \A s \in Sid : Dead(s) => Dead(s)'
  BY DeadStep
<1> QED BY <1>1, TypedAlways, PTL DEF Spec, DeadStaysDead

----------------------------------------------------------------------------
(* Doomed requests *)

\* A doomed request is still before the check that will refuse it: its session
\* is dead, or its user is deleted, and both are for good.
Refusal(r) ==
  doomed[r] =>
    /\ answer[r] # "served" /\ pc[r] \notin {"sign", "store"}
    /\ pc[r] \in {"refresh.session", "guard.session"} =>
         Dead(sid[r]) \/ account[who[r]] = "deleted"
    /\ pc[r] \in {"refresh.user", "guard.user"} => account[who[r]] = "deleted"
    /\ pc[r] \notin {"register.find", "register.save", "login.find"}

LEMMA DeletedForGood ==
  ASSUME Typed, [Next]_vars, NEW u \in User, account[u] = "deleted"
  PROVE  account'[u] = "deleted"
<1> USE DEF Typed, TypeOK
<1>1. CASE UNCHANGED vars
  BY <1>1 DEF vars
<1>2. ASSUME NEW r \in Req, Arrive(r)
      PROVE  account'[u] = "deleted"
  BY <1>2 DEF Arrive, BeginRegister, BeginLogin, BeginRefresh, BeginGuard, BeginLogout,
              Begin, Refuse, stores
<1>3. ASSUME NEW r \in Req, Proceed(r)
      PROVE  account'[u] = "deleted"
  BY <1>3 DEF Proceed, RegisterFind, RegisterSave, LoginFind, RefreshSession, RefreshUser,
              Sign, Store, Delete, GuardSession, GuardUser, stores
<1>4. ASSUME NEW r \in Req, Disturb(r)
      PROVE  account'[u] = "deleted"
  BY <1>4 DEF Disturb, StoreUnacknowledged, DeleteUnacknowledged, Fail, stores
<1>5. CASE Environment
  BY <1>5 DEF Environment, Tick, Suspend, Reactivate, DeleteAccount, SetStatus
<1> QED BY <1>1, <1>2, <1>3, <1>4, <1>5 DEF Next

\* The other requests keep waiting where they were while r moves.
LEMMA OthersWait ==
  ASSUME Typed, NEW r \in Req, Arrive(r) \/ Proceed(r) \/ Disturb(r),
         NEW q \in Req, q # r
  PROVE  /\ pc'[q] = pc[q] /\ who'[q] = who[q] /\ sid'[q] = sid[q]
         /\ held'[q] = held[q] /\ answer'[q] = answer[q] /\ doomed'[q] = doomed[q]
<1> USE DEF Typed, TypeOK, Goto, Finish, DeleteThen
<1>1. CASE Arrive(r)
  BY <1>1 DEF Arrive, BeginRegister, BeginLogin, BeginRefresh, BeginGuard, BeginLogout,
              Begin, Refuse
<1>2. CASE Proceed(r)
  BY <1>2 DEF Proceed, RegisterFind, RegisterSave, LoginFind, RefreshSession, RefreshUser,
              Sign, Store, Delete, GuardSession, GuardUser
<1>3. CASE Disturb(r)
  BY <1>3 DEF Disturb, StoreUnacknowledged, DeleteUnacknowledged, Fail, locals
<1> QED BY <1>1, <1>2, <1>3

LEMMA RefusalInit == Init => \A r \in Req : Refusal(r)
BY DEF Init, Refusal

\* A request that stays where it is stays refusable.
LEMMA RefusalWait ==
  ASSUME Typed, [Next]_vars, NEW q \in Req, Refusal(q),
         /\ pc'[q] = pc[q] /\ who'[q] = who[q] /\ sid'[q] = sid[q]
         /\ answer'[q] = answer[q] /\ doomed'[q] = doomed[q]
  PROVE  Refusal(q)'
<1>1. ASSUME NEW s \in Sid, sid[q] = s, Dead(sid[q])
      PROVE  Dead(sid[q])'
  <2>1. Dead(s) BY <1>1
  <2>2. Dead(s)' BY <2>1, DeadStep
  <2>3. sid'[q] = s BY <1>1
  <2> QED BY <2>2, <2>3 DEF Dead, Writer
<1>2. ASSUME NEW u \in User, who[q] = u, account[who[q]] = "deleted"
      PROVE  account'[who'[q]] = "deleted"
  BY <1>2, DeletedForGood
<1> QED BY <1>1, <1>2 DEF Refusal, Typed, Local

LEMMA RefusalArrive ==
  ASSUME Typed, [Next]_vars, NEW q \in Req, Arrive(q)
  PROVE  Refusal(q)'
<1> USE DEF Typed, TypeOK
<1>1. ASSUME NEW where \in {"register.find", "login.find", "refresh.session", "guard.session"},
             NEW u \in User, NEW s \in Sid \cup {NoSid}, NEW t \in Token \cup {NoToken},
             t # NoToken => /\ s = t.sid /\ u = t.user
                            /\ where \in {"refresh.session", "guard.session"},
             Begin(q, where, u, s, t)
      PROVE  Refusal(q)'
  <2>1. CASE t = NoToken
    BY <1>1, <2>1 DEF Begin, Refusal
  <2>2. CASE t # NoToken
    <3>1. t \in Token /\ s \in Sid /\ t.sid = s /\ t.user = u
      BY <1>1, <2>2 DEF Token
    <3>2. /\ doomed'[q] => Dead(s) \/ account[u] = "deleted"
          /\ pc'[q] = where /\ sid'[q] = s /\ who'[q] = u /\ answer'[q] = "none"
      BY <1>1, <3>1 DEF Begin, Goto
    <3>3. doomed'[q] => Dead(s)' \/ account'[u] = "deleted"
      BY <3>1, <3>2, DeadStep, DeletedForGood
    <3>4. doomed'[q] => Dead(sid[q])' \/ account'[u] = "deleted"
      BY <3>2, <3>3 DEF Dead, Writer
    <3> QED BY <1>1, <2>2, <3>2, <3>4 DEF Refusal
  <2> QED BY <2>1, <2>2
<1>2. ASSUME NEW a, Refuse(q, a)
      PROVE  Refusal(q)'
  BY <1>2 DEF Refuse, Refusal
<1>3. ASSUME NEW u \in User, BeginRegister(q, u) \/ BeginLogin(q, u)
      PROVE  Refusal(q)'
  BY <1>1, <1>3 DEF BeginRegister, BeginLogin
<1>4. ASSUME NEW t \in Cookie, BeginRefresh(q, t) \/ BeginGuard(q, t)
      PROVE  Refusal(q)'
  <2>1. CASE t = NoToken
    BY <1>2, <1>4, <2>1 DEF BeginRefresh, BeginGuard, RefreshValid, AccessValid
  <2>2. CASE t \in Token
    <3>1. t.user \in User /\ t.sid \in Sid
      BY <2>2 DEF Token
    <3> QED BY <1>1, <1>2, <1>4, <2>2, <3>1 DEF BeginRefresh, BeginGuard
  <2> QED BY <2>1, <2>2 DEF Cookie
<1>5. ASSUME NEW rt \in Cookie, NEW t \in Cookie, BeginLogout(q, rt, t)
      PROVE  Refusal(q)'
  BY <1>2, <1>5 DEF BeginLogout, Refusal
<1> QED BY <1>3, <1>4, <1>5 DEF Arrive

\* The session check turns away a dead session, the user check a deleted user.
LEMMA RefusalProceed ==
  ASSUME Typed, [Next]_vars, NEW q \in Req, Refusal(q), Proceed(q) \/ Disturb(q)
  PROVE  Refusal(q)'
<1> USE DEF Typed, TypeOK, Local, Refusal, Goto, Finish, DeleteThen
<1>1. CASE RegisterFind(q) \/ RegisterSave(q) \/ LoginFind(q)
  BY <1>1 DEF RegisterFind, RegisterSave, LoginFind
<1>2. CASE RefreshSession(q) \/ GuardSession(q)
  BY <1>2 DEF RefreshSession, GuardSession, SessionKnown, Dead, stores
<1>3. CASE RefreshUser(q)
  BY <1>3 DEF RefreshUser
<1>4. CASE GuardUser(q)
  BY <1>4 DEF GuardUser
<1>5. CASE Sign(q) \/ Store(q)
  BY <1>5 DEF Sign, Store
<1>6. CASE Delete(q)
  BY <1>6 DEF Delete
<1>7. CASE Fail(q)
  BY <1>7 DEF Fail
<1>8. CASE StoreUnacknowledged(q) \/ DeleteUnacknowledged(q)
  <2>1. UNCHANGED locals
    BY <1>8 DEF StoreUnacknowledged, DeleteUnacknowledged
  <2> QED BY <2>1, RefusalWait DEF locals
<1> QED BY <1>1, <1>2, <1>3, <1>4, <1>5, <1>6, <1>7, <1>8 DEF Proceed, Disturb

LEMMA RefusalStep ==
  ASSUME Typed, [Next]_vars, \A r \in Req : Refusal(r)
  PROVE  \A r \in Req : Refusal(r)'
<1> SUFFICES ASSUME NEW q \in Req PROVE Refusal(q)'
  OBVIOUS
<1>1. CASE Arrive(q) \/ Proceed(q) \/ Disturb(q)
  BY <1>1, RefusalArrive, RefusalProceed
<1>2. ASSUME NEW r \in Req, r # q, Arrive(r) \/ Proceed(r) \/ Disturb(r)
      PROVE  Refusal(q)'
  BY <1>2, OthersWait, RefusalWait
<1>3. CASE Environment \/ UNCHANGED vars
  <2>1. UNCHANGED locals
    BY <1>3 DEF Environment, Tick, Suspend, Reactivate, DeleteAccount, SetStatus, vars, locals
  <2> QED BY <2>1, RefusalWait DEF locals
<1> QED BY <1>1, <1>2, <1>3 DEF Next

\* A refresh or guarded request that begins after its session is dead or its
\* user is deleted is refused, in every interleaving of any number of requests
\* (auth.service.ts 108-124, jwt.guard.ts 68-78).
THEOREM DoomedRequestsRefused == Spec => []DoomedRefused
<1>1. Typed /\ (\A r \in Req : Refusal(r)) /\ [Next]_vars
        => (\A r \in Req : Refusal(r))'
  BY RefusalStep
<1>2. (\A r \in Req : Refusal(r)) => DoomedRefused
  BY DEF Refusal, DoomedRefused
<1> QED BY <1>1, <1>2, RefusalInit, TypedAlways, PTL DEF Spec

----------------------------------------------------------------------------
(* Session ownership *)

\* A request that acts on a session acts for the session's owner.
OwnerLocal(r) ==
  (pc[r] # "idle" /\ sid[r] # NoSid) => owner[sid[r]] = who[r]

Owned == SessionOwner /\ \A r \in Req : OwnerLocal(r)

LEMMA OwnedInit == Init => Owned
BY DEF Init, Owned, SessionOwner, OwnerLocal

LEMMA OwnedArrive ==
  ASSUME Typed, Owned, NEW r \in Req, Arrive(r)
  PROVE  Owned'
<1> USE NullAssumption DEF Typed, TypeOK
<1>1. UNCHANGED stores
  BY DEF Arrive, BeginRegister, BeginLogin, BeginRefresh, BeginGuard, BeginLogout, Begin, Refuse
<1>2. SessionOwner'
  BY <1>1 DEF Owned, SessionOwner, stores
<1>3. \A q \in Req : q # r => OwnerLocal(q)'
  BY <1>1, OthersWait DEF Owned, OwnerLocal, stores
<1>4. OwnerLocal(r)'
  <2>1. \A t \in tokens : t \in Token /\ owner[t.sid] = t.user
    BY DEF Owned, SessionOwner
  <2>2. ASSUME NEW u \in User, BeginRegister(r, u) \/ BeginLogin(r, u)
        PROVE  OwnerLocal(r)'
    BY <2>2 DEF BeginRegister, BeginLogin, Begin, Goto, OwnerLocal
  <2>3. ASSUME NEW t \in Cookie, BeginRefresh(r, t) \/ BeginGuard(r, t)
        PROVE  OwnerLocal(r)'
    BY <1>1, <2>1, <2>3 DEF Cookie, BeginRefresh, BeginGuard, RefreshValid, AccessValid,
                            Begin, Refuse, Goto, OwnerLocal, stores
  <2>4. ASSUME NEW rt \in Cookie, NEW t \in Cookie, BeginLogout(r, rt, t)
        PROVE  OwnerLocal(r)'
    BY <1>1, <2>1, <2>4 DEF Cookie, BeginLogout, LogoutToken, Refuse, Goto, OwnerLocal, stores
  <2> QED BY <2>2, <2>3, <2>4 DEF Arrive
<1> QED BY <1>2, <1>3, <1>4 DEF Owned

LEMMA OwnedProceed ==
  ASSUME Typed, Owned, NEW r \in Req, Proceed(r) \/ Disturb(r)
  PROVE  Owned'
<1> USE NullAssumption DEF Typed, TypeOK, Goto, Finish, DeleteThen, stores, locals
<1>1. CASE Sign(r)
  <2>1. PICK s \in SessionChoice(r) :
          /\ sid' = [sid EXCEPT ![r] = s]
          /\ owner' = [owner EXCEPT ![s] = who[r]]
    BY <1>1 DEF Sign
  <2>2. s \in Sid /\ who[r] \in User /\ (owner[s] = NoUser \/ owner[s] = who[r])
    BY <1>1 DEF Sign, SessionChoice, Owned, OwnerLocal, Local
  <2>3. SessionOwner'
    BY <1>1, <2>1, <2>2 DEF Sign, Owned, SessionOwner, Token, Record
  <2>4. \A q \in Req : OwnerLocal(q)'
    BY <1>1, <2>1, <2>2 DEF Sign, Owned, OwnerLocal, Local
  <2> QED BY <2>3, <2>4 DEF Owned
<1>2. CASE Store(r) \/ StoreUnacknowledged(r)
  <2>1. /\ held[r] \in Token /\ held[r].sid = sid[r] /\ held[r].user = who[r]
        /\ sid[r] \in Sid /\ owner[sid[r]] = who[r] /\ UNCHANGED owner
    BY <1>2 DEF Store, StoreUnacknowledged, Local, Owned, OwnerLocal
  <2>2. SessionOwner'
    BY <1>2, <2>1 DEF Store, StoreUnacknowledged, Stored, Owned, SessionOwner, Token
  <2>3. \A q \in Req : OwnerLocal(q)'
    BY <1>2, <2>1 DEF Store, StoreUnacknowledged, Owned, OwnerLocal
  <2> QED BY <2>2, <2>3 DEF Owned
<1>3. CASE Delete(r) \/ DeleteUnacknowledged(r)
  BY <1>3 DEF Delete, DeleteUnacknowledged, Owned, SessionOwner, OwnerLocal
<1>4. CASE \/ RegisterFind(r) \/ RegisterSave(r) \/ LoginFind(r) \/ RefreshSession(r)
           \/ RefreshUser(r) \/ GuardSession(r) \/ GuardUser(r) \/ Fail(r)
  <2>1. UNCHANGED <<owner, session, tokens, who, sid>>
    BY <1>4 DEF RegisterFind, RegisterSave, LoginFind, RefreshSession, RefreshUser,
                GuardSession, GuardUser, Fail
  <2>2. pc[r] # "idle"
    BY <1>4 DEF RegisterFind, RegisterSave, LoginFind, RefreshSession, RefreshUser,
                GuardSession, GuardUser, Fail, Waiting
  <2> QED BY <2>1, <2>2, <1>4, OthersWait DEF Owned, SessionOwner, OwnerLocal, Proceed, Disturb
<1> QED BY <1>1, <1>2, <1>3, <1>4 DEF Proceed, Disturb

LEMMA OwnedStep ==
  ASSUME Typed, Owned, [Next]_vars
  PROVE  Owned'
<1>1. CASE UNCHANGED vars
  BY <1>1 DEF vars, Owned, SessionOwner, OwnerLocal
<1>2. CASE Environment
  BY <1>2 DEF Environment, Tick, Unexpired, Suspend, Reactivate, DeleteAccount, SetStatus,
              locals, Owned, SessionOwner, OwnerLocal, Typed, TypeOK
<1> QED BY <1>1, <1>2, OwnedArrive, OwnedProceed DEF Next

LEMMA OwnedAlways == Spec => []Owned
BY OwnedInit, OwnedStep, TypedAlways, PTL DEF Spec

\* A session serves one user for ever: its record and all its tokens, of any
\* age, name the user it was opened for (issueSession 236-290).
THEOREM SessionsHaveOneOwner == Spec => []SessionOwner
<1>1. Owned => SessionOwner BY DEF Owned
<1> QED BY <1>1, OwnedAlways, PTL

\* What is left of "logging out removes the session": when a logout's DEL is
\* answered and no refresh of its session is past its check, the session is
\* dead, and by DeadSessionsStayDead it never returns (logout 138-146).
LogoutEnds ==
  [][\A r \in Req, s \in Sid :
       (/\ pc[r] = "delete" /\ sid[r] = s
        /\ pc'[r] = "idle" /\ answer'[r] = "loggedOut"
        /\ \A q \in Req : ~Writer(q, s))
         => Dead(s)']_vars

\* A logout that no refresh of its session overlaps is final: the only way to
\* break LogoutFinal is a request that read the record before it was deleted.
THEOREM LonelyLogoutIsFinal == Spec => LogoutEnds
<1>1. ASSUME Typed, Owned, [Next]_vars, NEW r \in Req, NEW s \in Sid,
             pc[r] = "delete", sid[r] = s, pc'[r] = "idle",
             answer'[r] = "loggedOut", \A q \in Req : ~Writer(q, s)
      PROVE  Dead(s)'
  <2>1. Delete(r)
    <3>1. ASSUME NEW q \in Req, Arrive(q)
          PROVE  pc'[r] = pc[r]
      BY <1>1, <3>1 DEF Arrive, BeginRegister, BeginLogin, BeginRefresh, BeginGuard,
                        BeginLogout, Begin, Refuse, Goto, stores, Typed, TypeOK
    <3>2. ASSUME NEW q \in Req, q # r, Proceed(q) \/ Disturb(q)
          PROVE  pc'[r] = pc[r]
      BY <1>1, <3>2 DEF Proceed, Disturb, RegisterFind, RegisterSave, LoginFind,
                        RefreshSession, RefreshUser, GuardSession, GuardUser, Sign, Store,
                        Delete, StoreUnacknowledged, DeleteUnacknowledged, Fail,
                        Goto, Finish, DeleteThen, locals, Typed, TypeOK
    <3>3. CASE UNCHANGED vars \/ Environment
      BY <1>1, <3>3 DEF vars, Environment, Tick, Suspend, Reactivate, DeleteAccount,
                        SetStatus, locals
    <3>4. ASSUME Proceed(r)
          PROVE  Delete(r)
      BY <1>1, <3>4 DEF Proceed, RegisterFind, RegisterSave, LoginFind, RefreshSession,
                        RefreshUser, GuardSession, GuardUser, Sign, Store
    <3>5. ASSUME Disturb(r)
          PROVE  FALSE
      BY <1>1, <3>5 DEF Disturb, StoreUnacknowledged, DeleteUnacknowledged, Fail, Finish,
                        locals, Typed, TypeOK
    <3> QED BY <1>1, <3>1, <3>2, <3>3, <3>4, <3>5 DEF Next
  <2>2. owner[s] # NoUser
    BY <1>1, NullAssumption DEF Typed, TypeOK, Local, Owned, OwnerLocal
  <2>3. /\ UNCHANGED <<owner, sid>> /\ session' = [session EXCEPT ![s] = NoRecord]
        /\ pc' = [pc EXCEPT ![r] = "idle"]
    BY <1>1, <2>1 DEF Delete, Finish, Goto
  <2> QED BY <1>1, <2>2, <2>3 DEF Dead, Writer, Writing, Typed, TypeOK
<1>2. Typed /\ Owned /\ [Next]_vars =>
        \A r \in Req, s \in Sid :
          (/\ pc[r] = "delete" /\ sid[r] = s
           /\ pc'[r] = "idle" /\ answer'[r] = "loggedOut"
           /\ \A q \in Req : ~Writer(q, s))
            => Dead(s)'
  BY <1>1
<1> QED BY <1>2, OwnedAlways, TypedAlways, PTL DEF Spec, LogoutEnds

----------------------------------------------------------------------------
(* Suspended users *)

LEMMA SuspendedStep ==
  ASSUME Typed, Next, NEW u \in User,
         account[u] # "ACTIVE", Admitted(u) = {}, account'[u] # "ACTIVE"
  PROVE  /\ Admitted(u)' = {}
         /\ TokensOf(u)' = TokensOf(u)
         /\ RecordsOf(u)' \subseteq RecordsOf(u)
<1> USE DEF Typed, TypeOK
<1>1. ASSUME NEW r \in Req, Arrive(r)
      PROVE  /\ UNCHANGED <<tokens, session>>
             /\ pc'[r] \notin {"sign", "store"}
  BY <1>1 DEF Arrive, BeginRegister, BeginLogin, BeginRefresh, BeginGuard, BeginLogout,
              Begin, Refuse, Goto, stores
<1>2. ASSUME NEW r \in Req, Proceed(r) \/ Disturb(r)
      PROVE  /\ who'[r] = who[r]
             /\ who[r] = u => pc'[r] \notin {"sign", "store"}
             /\ TokensOf(u)' = TokensOf(u)
             /\ RecordsOf(u)' \subseteq RecordsOf(u)
  <2> USE <1>2 DEF Local, Admitted, TokensOf, RecordsOf, Goto, Finish, DeleteThen,
                   stores, locals
  <2>1. CASE \/ RegisterFind(r) \/ RegisterSave(r) \/ LoginFind(r) \/ RefreshSession(r)
             \/ RefreshUser(r) \/ GuardSession(r) \/ GuardUser(r) \/ Fail(r)
    BY <2>1 DEF RegisterFind, RegisterSave, LoginFind, RefreshSession, RefreshUser,
                GuardSession, GuardUser, Fail
  <2>2. CASE Sign(r)
    BY <2>2 DEF Sign
  <2>3. CASE Store(r) \/ StoreUnacknowledged(r)
    BY <2>3 DEF Store, StoreUnacknowledged, Stored, Token
  <2>4. CASE Delete(r) \/ DeleteUnacknowledged(r)
    BY <2>4 DEF Delete, DeleteUnacknowledged
  <2> QED BY <1>2, <2>1, <2>2, <2>3, <2>4 DEF Proceed, Disturb
<1>3. ASSUME NEW r \in Req, Arrive(r) \/ Proceed(r) \/ Disturb(r)
      PROVE  /\ Admitted(u)' = {}
             /\ TokensOf(u)' = TokensOf(u)
             /\ RecordsOf(u)' \subseteq RecordsOf(u)
  BY <1>1, <1>2, <1>3, OthersWait DEF Admitted, TokensOf, RecordsOf
<1>4. CASE Environment
  BY <1>4 DEF Environment, Tick, Unexpired, Suspend, Reactivate, DeleteAccount, SetStatus,
              Admitted, TokensOf, RecordsOf, locals
<1> QED BY <1>3, <1>4 DEF Next

\* A suspension takes hold as soon as the requests already admitted are done:
\* from then on no login, refresh or registration gives the user anything
\* (auth.service.ts 87 and 126).
THEOREM SuspensionTakesHold == Spec => SuspendedGainsNothing
<1> DEFINE Holds == \A u \in User :
       (account[u] # "ACTIVE" /\ Admitted(u) = {} /\ account'[u] # "ACTIVE")
         => /\ Admitted(u)' = {}
            /\ TokensOf(u)' = TokensOf(u)
            /\ RecordsOf(u)' \subseteq RecordsOf(u)
<1>1. Typed /\ [Next]_vars => [Holds]_vars
  BY SuspendedStep
<1> QED BY <1>1, TypedAlways, PTL DEF Spec, SuspendedGainsNothing

----------------------------------------------------------------------------
(* Records and refresh tokens *)

\* A pair waiting to be stored was signed in the past.
SignedBefore == \A r \in Req : pc[r] = "store" => held[r].iat <= clock
Outlives == RecordOutlivesToken /\ SignedBefore

LEMMA OutlivesStep ==
  ASSUME Typed, Outlives, [Next]_vars
  PROVE  Outlives'
<1> USE TTLAssumption DEF Typed, TypeOK, Outlives, RecordOutlivesToken, SignedBefore
<1>1. CASE UNCHANGED vars
  BY <1>1 DEF vars
<1>2. CASE Environment
  BY <1>2 DEF Environment, Tick, Unexpired, Suspend, Reactivate, DeleteAccount, SetStatus,
              locals, Local, Token
<1>3. ASSUME NEW r \in Req, Arrive(r)
      PROVE  Outlives'
  <2>1. UNCHANGED stores /\ pc'[r] # "store"
    BY <1>3 DEF Arrive, BeginRegister, BeginLogin, BeginRefresh, BeginGuard, BeginLogout,
                Begin, Refuse, Goto
  <2> QED BY <1>3, <2>1, OthersWait DEF stores
<1>4. ASSUME NEW r \in Req, Proceed(r) \/ Disturb(r)
      PROVE  Outlives'
  <2>1. CASE \/ RegisterFind(r) \/ RegisterSave(r) \/ LoginFind(r) \/ RefreshSession(r)
             \/ RefreshUser(r) \/ GuardSession(r) \/ GuardUser(r) \/ Fail(r)
    <3>1. UNCHANGED <<clock, session>> /\ pc'[r] # "store"
      BY <2>1 DEF RegisterFind, RegisterSave, LoginFind, RefreshSession, RefreshUser,
                  GuardSession, GuardUser, Fail, Goto, Finish, DeleteThen, stores
    <3> QED BY <1>4, <3>1, OthersWait
  <2>2. CASE Sign(r)
    BY <2>2 DEF Sign, Goto
  <2>3. CASE Store(r) \/ StoreUnacknowledged(r)
    BY <2>3 DEF Store, StoreUnacknowledged, Stored, Finish, locals, Local, Token
  <2>4. CASE Delete(r) \/ DeleteUnacknowledged(r)
    BY <2>4 DEF Delete, DeleteUnacknowledged, Finish, locals
  <2> QED BY <1>4, <2>1, <2>2, <2>3, <2>4 DEF Proceed, Disturb
<1> QED BY <1>1, <1>2, <1>3, <1>4 DEF Next

LEMMA OutlivesAlways == Spec => []Outlives
<1>1. Init => Outlives
  BY DEF Init, Outlives, RecordOutlivesToken, SignedBefore
<1> QED BY <1>1, OutlivesStep, TypedAlways, PTL DEF Spec

\* Redis never drops a session before its current refresh token expires, for
\* any TTLs and however long the SET is delayed (issueSession 255-273).
THEOREM RecordsOutliveTokens == Spec => []RecordOutlivesToken
<1>1. Outlives => RecordOutlivesToken BY DEF Outlives
<1> QED BY <1>1, OutlivesAlways, PTL

----------------------------------------------------------------------------
(* AuthSessions implements SessionContract: every step of a handler opens, *)
(* admits, writes, drops or ends in the contract, or is invisible to it.   *)

Live == {s \in Sid : session[s] # NoRecord}
Tickets == {p \in Sid \X Req : Writer(p[2], p[1])}

\* While r moves, the tickets of the other requests stay as they are.
LEMMA TicketsOfOthers ==
  ASSUME Typed, NEW r \in Req, Arrive(r) \/ Proceed(r) \/ Disturb(r),
         NEW s \in Sid, NEW q \in Req, q # r
  PROVE  <<s, q>> \in Tickets' <=> <<s, q>> \in Tickets
BY OthersWait DEF Tickets, Writer

LEMMA ContractInit == Init => Contract!CInit
BY DEF Init, Contract!CInit, Writer, Writing

\* Steps that neither write nor move a ticket.
LEMMA Invisible ==
  ASSUME Typed, NEW r \in Req, Arrive(r) \/ Proceed(r) \/ Disturb(r),
         UNCHANGED <<owner, session>>,
         \A s \in Sid : Writer(r, s)' <=> Writer(r, s)
  PROVE  UNCHANGED Contract!cvars
<1>1. Tickets' = Tickets
  BY TicketsOfOthers DEF Tickets
<1> QED BY <1>1 DEF Contract!cvars, Tickets

\* A request gives its ticket back.
LEMMA Dropped ==
  ASSUME Typed, NEW r \in Req, Proceed(r) \/ Disturb(r),
         UNCHANGED <<owner, session>>,
         \A s \in Sid : ~Writer(r, s)'
  PROVE  Contract!CNext \/ UNCHANGED Contract!cvars
<1>1. CASE \E s \in Sid : Writer(r, s)
  <2>1. PICK s \in Sid : Writer(r, s)
    BY <1>1
  <2>2. <<s, r>> \in Tickets /\ Tickets' = Tickets \ {<<s, r>>}
    BY <2>1, TicketsOfOthers DEF Tickets, Writer
  <2> QED BY <2>2 DEF Contract!CNext, Contract!Drop, Tickets
<1>2. CASE \A s \in Sid : ~Writer(r, s)
  BY <1>2, Invisible
<1> QED BY <1>1, <1>2

LEMMA ContractProceed ==
  ASSUME Typed, Owned, NEW r \in Req, Proceed(r) \/ Disturb(r)
  PROVE  Contract!CNext \/ UNCHANGED Contract!cvars
<1> USE NullAssumption DEF Typed, TypeOK, Local, Goto, Finish, DeleteThen
<1>1. CASE RegisterFind(r) \/ RegisterSave(r) \/ LoginFind(r) \/ GuardSession(r) \/ GuardUser(r)
  <2>1. UNCHANGED <<owner, session>> /\ \A s \in Sid : Writer(r, s)' <=> Writer(r, s)
    BY <1>1 DEF RegisterFind, RegisterSave, LoginFind, GuardSession, GuardUser, stores,
                Writer, Writing
  <2> QED BY <2>1, Invisible
<1>2. CASE RefreshSession(r)
  <2>1. CASE SessionKnown(held[r]) /\ HashMatches(held[r])
    <3>1. PICK s \in Sid : s = sid[r] /\ session[s] # NoRecord
      BY <1>2, <2>1 DEF RefreshSession, SessionKnown
    <3>2. UNCHANGED <<owner, session>> /\ Writer(r, s)' /\ \A z \in Sid : z # s => ~Writer(r, z)'
      BY <1>2, <2>1, <3>1 DEF RefreshSession, Writer, Writing, stores
    <3>3. \A z \in Sid : ~Writer(r, z)
      BY <1>2 DEF RefreshSession, Writer, Writing
    <3>4. Tickets' = Tickets \cup {<<s, r>>}
      BY <3>2, <3>3, TicketsOfOthers DEF Tickets
    <3> QED BY <3>1, <3>2, <3>4 DEF Contract!CNext, Contract!Admit, Tickets
  <2>2. CASE ~(SessionKnown(held[r]) /\ HashMatches(held[r]))
    BY <1>2, <2>2, Dropped DEF RefreshSession, Writer, Writing, stores
  <2> QED BY <2>1, <2>2
<1>3. CASE RefreshUser(r) /\ account[who[r]] = "ACTIVE"
  BY <1>3, Invisible DEF RefreshUser, Writer, Writing, stores
<1>4. CASE (RefreshUser(r) /\ account[who[r]] # "ACTIVE") \/ Fail(r)
  BY <1>4, Dropped DEF RefreshUser, Fail, Writer, Writing, stores
<1>5. CASE Sign(r) /\ sid[r] # NoSid
  <2>1. owner' = owner /\ sid' = sid
    BY <1>5 DEF Sign, SessionChoice, Owned, OwnerLocal
  <2> QED BY <1>5, <2>1, Invisible DEF Sign, Writer, Writing
<1>6. CASE Sign(r) /\ sid[r] = NoSid
  <2>1. PICK s \in Sid : /\ owner[s] = NoUser
                         /\ sid' = [sid EXCEPT ![r] = s]
                         /\ owner' = [owner EXCEPT ![s] = who[r]]
    BY <1>6 DEF Sign, SessionChoice
  <2>2. who[r] \in User /\ UNCHANGED session
    BY <1>6 DEF Sign
  <2>3. Writer(r, s)' /\ \A z \in Sid : ~Writer(r, z) /\ (z # s => ~Writer(r, z)')
    BY <1>6, <2>1 DEF Sign, Writer, Writing
  <2>4. Tickets' = Tickets \cup {<<s, r>>}
    BY <2>3, TicketsOfOthers DEF Tickets
  <2> QED BY <2>1, <2>2, <2>4 DEF Contract!CNext, Contract!Open, Tickets
<1>7. CASE Store(r) \/ StoreUnacknowledged(r)
  <2>1. PICK s \in Sid : s = sid[r] /\ Writer(r, s)
    BY <1>7 DEF Store, StoreUnacknowledged, Writer, Writing
  <2>2. Stored(held[r]) # NoRecord
    <3>1. Stored(held[r]) \in Record
      BY <1>7, TTLAssumption DEF Store, StoreUnacknowledged, Stored, Token, Record
    <3> QED BY <3>1, NoRecordAssumption
  <2>3. Live' = Live \cup {s} /\ UNCHANGED owner
    BY <1>7, <2>1, <2>2 DEF Store, StoreUnacknowledged, Live
  <2>4. Tickets' = Tickets \/ Tickets' = Tickets \ {<<s, r>>}
    <3>1. CASE Store(r)
      BY <2>1, <3>1, TicketsOfOthers DEF Store, Tickets, Writer, Writing
    <3>2. CASE StoreUnacknowledged(r)
      BY <3>2 DEF StoreUnacknowledged, locals, Tickets, Writer
    <3> QED BY <1>7, <3>1, <3>2
  <2> QED BY <2>1, <2>3, <2>4 DEF Contract!CNext, Contract!Write, Tickets, Live
<1>8. CASE Delete(r) \/ DeleteUnacknowledged(r)
  <2>1. PICK s \in Sid : s = sid[r] /\ session' = [session EXCEPT ![s] = NoRecord]
    BY <1>8 DEF Delete, DeleteUnacknowledged
  <2>2. UNCHANGED owner /\ \A z \in Sid : Writer(r, z)' <=> Writer(r, z)
    BY <1>8 DEF Delete, DeleteUnacknowledged, Writer, Writing, locals
  <2>3. Tickets' = Tickets
    BY <2>2, TicketsOfOthers DEF Tickets
  <2>4. Live' = Live \ {s}
    BY <2>1 DEF Live
  <2>5. CASE s \in Live
    <3>1. {s} \in SUBSET Live /\ {s} # {}
      BY <2>5
    <3> QED BY <2>2, <2>3, <2>4, <3>1 DEF Contract!CNext, Contract!End, Tickets, Live
  <2>6. CASE s \notin Live
    BY <2>2, <2>3, <2>4, <2>6 DEF Contract!cvars, Tickets, Live
  <2> QED BY <2>5, <2>6
<1> QED BY <1>1, <1>2, <1>3, <1>4, <1>5, <1>6, <1>7, <1>8 DEF Proceed, Disturb

LEMMA ContractArrive ==
  ASSUME Typed, NEW r \in Req, Arrive(r)
  PROVE  UNCHANGED Contract!cvars
<1>1. UNCHANGED <<owner, session>> /\ \A s \in Sid : ~Writer(r, s)' /\ ~Writer(r, s)
  BY DEF Arrive, BeginRegister, BeginLogin, BeginRefresh, BeginGuard, BeginLogout,
         Begin, Refuse, Goto, stores, Typed, TypeOK, Writer, Writing
<1> QED BY <1>1, Invisible

\* Records lapse together; nothing else in the environment is visible.
LEMMA ContractEnvironment ==
  ASSUME Typed, Environment
  PROVE  Contract!CNext \/ UNCHANGED Contract!cvars
<1>1. UNCHANGED owner /\ Tickets' = Tickets
  BY DEF Environment, Tick, Suspend, Reactivate, DeleteAccount, SetStatus, locals,
         Tickets, Writer
<1>2. Live' \subseteq Live
  BY DEF Environment, Tick, Unexpired, Suspend, Reactivate, DeleteAccount, SetStatus, Live
<1>3. CASE Live' = Live
  BY <1>1, <1>3 DEF Contract!cvars, Tickets, Live
<1>4. CASE Live' # Live
  <2>1. PICK S \in SUBSET Live : S # {} /\ Live' = Live \ S
    <3>1. Live \ (Live \ Live') = Live' /\ Live \ Live' # {}
      BY <1>2, <1>4
    <3> QED BY <3>1
  <2>2. Contract!End(S)
    BY <1>1, <2>1 DEF Contract!End, Tickets, Live
  <2> QED BY <2>1, <2>2 DEF Contract!CNext, Live
<1> QED BY <1>3, <1>4

\* Every run of the backend is, seen session by session, a run of the
\* contract: a record is only ever written on a ticket granted while the
\* session was opened or found live (auth.service.ts 94-147, 236-290).
THEOREM SessionsKeepContract == Spec => ImplementsContract
<1>1. Typed /\ Owned /\ [Next]_vars => [Contract!CNext]_(Contract!cvars)
  <2>1. ASSUME UNCHANGED vars
        PROVE  UNCHANGED Contract!cvars
    BY <2>1 DEF vars, Contract!cvars, Writer
  <2> QED BY <2>1, ContractArrive, ContractProceed, ContractEnvironment DEF Next
<1> QED BY <1>1, OwnedAlways, ContractInit, TypedAlways, PTL
        DEF Spec, ImplementsContract, Contract!ContractSpec

\* What the contract alone gives: its guards let no session return that ended
\* with no ticket out, however the records and the tickets came about.
THEOREM EndedIsFinal == ImplementsContract => Contract!EndedForever
<1>1. ASSUME [Contract!CNext]_(Contract!cvars), NEW s \in Sid, Contract!Ended(s)
      PROVE  Contract!Ended(s)'
  <2>1. CASE UNCHANGED Contract!cvars
    BY <1>1, <2>1 DEF Contract!cvars, Contract!Ended
  <2>2. ASSUME NEW z \in Sid, NEW r \in Req, NEW u \in User, Contract!Open(z, r, u)
        PROVE  Contract!Ended(s)'
    BY <1>1, <2>2 DEF Contract!Open, Contract!Ended
  <2>3. ASSUME NEW z \in Sid, NEW r \in Req,
               Contract!Admit(z, r) \/ Contract!Write(z, r) \/ Contract!Drop(z, r)
        PROVE  Contract!Ended(s)'
    BY <1>1, <2>3 DEF Contract!Admit, Contract!Write, Contract!Drop, Contract!Ended
  <2>4. ASSUME NEW S \in SUBSET Live, Contract!End(S)
        PROVE  Contract!Ended(s)'
    BY <1>1, <2>4 DEF Contract!End, Contract!Ended, Live
  <2> QED BY <1>1, <2>1, <2>2, <2>3, <2>4 DEF Contract!CNext, Live
<1>2. [Contract!CNext]_(Contract!cvars)
        => \A s \in Sid : Contract!Ended(s) => Contract!Ended(s)'
  BY <1>1
<1> QED BY <1>2, PTL DEF ImplementsContract, Contract!ContractSpec, Contract!EndedForever
=============================================================================
