---------------------------- MODULE AuthSessions ----------------------------
(***************************************************************************)
(* Cookie sessions of the school-management backend: register, login,      *)
(* refresh and logout (auth.service.ts) and the guard every protected      *)
(* route runs first (guards/jwt.guard.ts), over the session records kept   *)
(* in Redis and the accounts kept in PostgreSQL.                           *)
(*                                                                         *)
(* A request is a sequence of awaits.  One action stands for the code      *)
(* between two awaits that touch shared state, so any number of requests,  *)
(* in one API process or in several, interleave at exactly those points.   *)
(* A token stands for the access/refresh pair signed together: the JWT     *)
(* payload is (sub, sessionId, roleCode, type) plus the second of signing, *)
(* so two pairs signed for one session in one second are the same token.   *)
(* The role code is left out: it changes no decision taken here.           *)
(***************************************************************************)
EXTENDS Naturals, FiniteSets

CONSTANTS
  User,        \* account identities (users.id)
  Sid,         \* session identifiers randomUUID() may draw
  Req,         \* request slots: bounds how many requests overlap
  NoUser, NoSid, NoToken, NoRecord,
  AccessTTL,   \* JWT_ACCESS_TTL_SECONDS
  RefreshTTL,  \* JWT_REFRESH_TTL_SECONDS
  MaxClock     \* bound: last second of the modelled window

ASSUME NullAssumption == NoUser \notin User /\ NoSid \notin Sid
ASSUME TTLAssumption ==
  AccessTTL \in Nat \ {0} /\ RefreshTTL \in Nat \ {0} /\ MaxClock \in Nat

Token == [user : User, sid : Sid, iat : Nat]

\* What issueSession stores: the owner, the hash of the refresh token (the
\* token itself here, the hash being injective) and the second Redis drops it.
Record == [user : User, token : Token, exp : Nat]

ASSUME NoTokenAssumption == NoToken \notin Token
ASSUME NoRecordAssumption == NoRecord \notin Record

VARIABLES
  clock,    \* seconds, shared by the API processes and Redis
  account,  \* User -> "absent" | "ACTIVE" | "SUSPENDED" | "deleted"
  owner,    \* Sid -> the user it was drawn for, NoUser before that
  session,  \* Sid -> Record or NoRecord: the auth:session:<sid> keys
  tokens,   \* every pair a response has carried to a client
  pc,       \* Req -> what the request is waiting for
  who,      \* Req -> the user it acts for
  sid,      \* Req -> the session it acts on
  held,     \* Req -> the token it presented, later the one it signed
  answer,   \* Req -> how its last request ended
  doomed    \* Req -> its session or user was beyond return when it began

stores == <<clock, account, owner, session, tokens>>
locals == <<pc, who, sid, held, answer, doomed>>
vars == <<clock, account, owner, session, tokens,
          pc, who, sid, held, answer, doomed>>

Waiting == {"register.find", "register.save", "login.find",
            "refresh.session", "refresh.user", "guard.session", "guard.user",
            "sign", "store", "delete"}
\* Waits of a request that has passed its session check and may still write.
Writing == {"refresh.user", "sign", "store"}
\* Requests that will draw a session identifier of their own.
Opening == {r \in Req : \/ pc[r] \in {"register.find", "register.save", "login.find"}
                        \/ pc[r] = "sign" /\ sid[r] = NoSid}

\* PENDING is treated by the code exactly as SUSPENDED: not ACTIVE.
Status == {"absent", "ACTIVE", "SUSPENDED", "deleted"}
\* "denied" is the 403 of the guard, "forbidden" that of login and refresh.
Answers == {"none", "served", "loggedOut", "unauthorized", "forbidden",
            "denied", "conflict", "error"}

Writer(r, s) == sid[r] = s /\ pc[r] \in Writing

\* A drawn session with no record that no request is about to write back.
Dead(s) == /\ owner[s] # NoUser
           /\ session[s] = NoRecord
           /\ \A r \in Req : ~Writer(r, s)

----------------------------------------------------------------------------
\* Building blocks

AccessValid(t) == t # NoToken /\ clock < t.iat + AccessTTL
RefreshValid(t) == t # NoToken /\ clock < t.iat + RefreshTTL

\* "!session || session.userId !== payload.sub" negated.
SessionKnown(t) == session[t.sid] # NoRecord /\ session[t.sid].user = t.user
HashMatches(t) == session[t.sid].token = t

\* Variants of Stored: the record lapses with the access token; it does not
\* say whose it is.
StoredForAccess(t) == [user |-> t.user, token |-> t, exp |-> clock + AccessTTL]
StoredAnonymous(t) == [token |-> t, exp |-> clock + RefreshTTL]

\* The record issueSession stores now for the pair t.
Stored(t) == [user |-> t.user, token |-> t, exp |-> clock + RefreshTTL]

\* Redis drops every record whose EX has run out by second now.
Unexpired(now) ==
  [s \in Sid |-> IF session[s] # NoRecord /\ session[s].exp <= now
                 THEN NoRecord ELSE session[s]]

Goto(r, where) == pc' = [pc EXCEPT ![r] = where]

\* The request is answered (an exception filter's status, or the handler's).
Finish(r, a) == /\ pc' = [pc EXCEPT ![r] = "idle"]
                /\ answer' = [answer EXCEPT ![r] = a]
                /\ held' = [held EXCEPT ![r] = NoToken]
                /\ UNCHANGED <<who, sid, doomed>>

\* Await redisService.delete, then answer a.
DeleteThen(r, a) == /\ Goto(r, "delete")
                    /\ answer' = [answer EXCEPT ![r] = a]
                    /\ held' = [held EXCEPT ![r] = NoToken]
                    /\ UNCHANGED <<who, sid, doomed>>

Begin(r, where, u, s, t) ==
  /\ pc[r] = "idle"
  /\ Goto(r, where)
  /\ who' = [who EXCEPT ![r] = u]
  /\ sid' = [sid EXCEPT ![r] = s]
  /\ held' = [held EXCEPT ![r] = t]
  /\ answer' = [answer EXCEPT ![r] = "none"]
  /\ doomed' = [doomed EXCEPT ![r] =
       t # NoToken /\ (Dead(t.sid) \/ account[t.user] = "deleted")]
  /\ UNCHANGED stores

\* A request turned away before its first await on shared state.
Refuse(r, a) ==
  /\ pc[r] = "idle"
  /\ who' = [who EXCEPT ![r] = NoUser]
  /\ sid' = [sid EXCEPT ![r] = NoSid]
  /\ answer' = [answer EXCEPT ![r] = a]
  /\ doomed' = [doomed EXCEPT ![r] = FALSE]
  /\ UNCHANGED <<stores, pc, held>>

\* Bound: an identifier is left for every request that will draw one.
SpareSid ==
  Cardinality(Opening) < Cardinality({s \in Sid : owner[s] = NoUser})

----------------------------------------------------------------------------
\* register and login: find the account, then open a session

BeginRegister(r, u) == SpareSid /\ Begin(r, "register.find", u, NoSid, NoToken)
BeginLogin(r, u) == SpareSid /\ Begin(r, "login.find", u, NoSid, NoToken)

\* createUserRecord: findOne by email.
RegisterFind(r) ==
  /\ pc[r] = "register.find"
  /\ \/ /\ account[who[r]] = "absent"
        /\ Goto(r, "register.save")
        /\ UNCHANGED <<who, sid, held, answer, doomed>>
     \/ /\ account[who[r]] # "absent"
        /\ Finish(r, "conflict")
  /\ UNCHANGED stores

\* createUserRecord: save; a registration that got there first makes the
\* unique index on email reject this one.
RegisterSave(r) ==
  /\ pc[r] = "register.save"
  /\ \/ /\ account[who[r]] = "absent"
        /\ account' = [account EXCEPT ![who[r]] = "ACTIVE"]
        /\ Goto(r, "sign")
        /\ UNCHANGED <<who, sid, held, answer, doomed>>
     \/ /\ account[who[r]] # "absent"
        /\ Finish(r, "error")
        /\ UNCHANGED account
  /\ UNCHANGED <<clock, owner, session, tokens>>

\* login: findOne, bcrypt.compare (either outcome) and the status check.
LoginFind(r) ==
  /\ pc[r] = "login.find"
  /\ \/ Finish(r, "unauthorized")    \* no such user, or a wrong password
     \/ /\ account[who[r]] = "SUSPENDED"
        /\ Finish(r, "forbidden")
     \/ /\ account[who[r]] = "ACTIVE"
        /\ Goto(r, "sign")
        /\ UNCHANGED <<who, sid, held, answer, doomed>>
  /\ UNCHANGED stores

----------------------------------------------------------------------------
\* refresh: verify the JWT, check the session, check the user, rotate

\* refreshSession up to the GET; t is the refresh cookie.
BeginRefresh(r, t) ==
  \/ RefreshValid(t) /\ Begin(r, "refresh.session", t.user, t.sid, t)
  \/ ~RefreshValid(t) /\ Refuse(r, "unauthorized")

\* Variant of RefreshSession: only a record that contradicts the token counts
\* against it, so a missing one is tolerated.
RefreshSessionLenient(r) ==
  /\ pc[r] = "refresh.session"
  /\ \/ /\ SessionKnown(held[r]) /\ ~HashMatches(held[r])
        /\ DeleteThen(r, "unauthorized")
     \/ /\ SessionKnown(held[r]) => HashMatches(held[r])
        /\ Goto(r, "refresh.user")
        /\ UNCHANGED <<who, sid, held, answer, doomed>>
  /\ UNCHANGED stores

\* The answer of GET auth:session:<sid>, and the two checks on it.
RefreshSession(r) ==
  /\ pc[r] = "refresh.session"
  /\ \/ /\ ~SessionKnown(held[r])
        /\ Finish(r, "unauthorized")
     \/ /\ SessionKnown(held[r]) /\ ~HashMatches(held[r])
        /\ DeleteThen(r, "unauthorized")
     \/ /\ SessionKnown(held[r]) /\ HashMatches(held[r])
        /\ Goto(r, "refresh.user")
        /\ UNCHANGED <<who, sid, held, answer, doomed>>
  /\ UNCHANGED stores

\* Variant of RefreshUser: the status is only checked at login.
RefreshUserUnchecked(r) ==
  /\ pc[r] = "refresh.user"
  /\ \/ /\ account[who[r]] \in {"absent", "deleted"}
        /\ DeleteThen(r, "unauthorized")
     \/ /\ account[who[r]] \in {"ACTIVE", "SUSPENDED"}
        /\ Goto(r, "sign")
        /\ UNCHANGED <<who, sid, held, answer, doomed>>
  /\ UNCHANGED stores

\* The answer of findOne by id.
RefreshUser(r) ==
  /\ pc[r] = "refresh.user"
  /\ \/ /\ account[who[r]] \in {"absent", "deleted"}
        /\ DeleteThen(r, "unauthorized")
     \/ /\ account[who[r]] = "SUSPENDED"
        /\ DeleteThen(r, "forbidden")
     \/ /\ account[who[r]] = "ACTIVE"
        /\ Goto(r, "sign")
        /\ UNCHANGED <<who, sid, held, answer, doomed>>
  /\ UNCHANGED stores

----------------------------------------------------------------------------
\* issueSession: sign the pair, store its hash, answer with it

\* The session a pair is signed for: the refreshed one, else a fresh one.
SessionChoice(r) == IF sid[r] = NoSid THEN {s \in Sid : owner[s] = NoUser}
                                      ELSE {sid[r]}

Sign(r) ==
  /\ pc[r] = "sign"
  /\ \E s \in SessionChoice(r) :
       /\ sid' = [sid EXCEPT ![r] = s]
       /\ owner' = [owner EXCEPT ![s] = who[r]]
       /\ held' = [held EXCEPT ![r] = [user |-> who[r], sid |-> s, iat |-> clock]]
  /\ Goto(r, "store")
  /\ UNCHANGED <<clock, account, session, tokens, who, answer, doomed>>

\* SET auth:session:<sid> ... EX, acknowledged: the cookies are set.
Store(r) ==
  /\ pc[r] = "store"
  /\ session' = [session EXCEPT ![sid[r]] = Stored(held[r])]
  /\ tokens' = tokens \cup {held[r]}
  /\ Finish(r, "served")
  /\ UNCHANGED <<clock, account, owner>>

\* The SET takes effect but its reply is lost.  The socket client sends the
\* command again (maxRetriesPerRequest); giving up is Fail.
StoreUnacknowledged(r) ==
  /\ pc[r] = "store"
  /\ session' = [session EXCEPT ![sid[r]] = Stored(held[r])]
  /\ UNCHANGED <<clock, account, owner, tokens, locals>>

----------------------------------------------------------------------------
\* logout, and every other path that deletes the record

\* The session logout acts on: of the refresh cookie rt if it verifies, else
\* of the access cookie t.
LogoutToken(rt, t) == IF RefreshValid(rt) THEN rt
                      ELSE IF AccessValid(t) THEN t ELSE NoToken

BeginLogout(r, rt, t) ==
  LET found == LogoutToken(rt, t) IN
  \/ /\ found # NoToken
     /\ pc[r] = "idle"
     /\ Goto(r, "delete")
     /\ who' = [who EXCEPT ![r] = found.user]
     /\ sid' = [sid EXCEPT ![r] = found.sid]
     /\ answer' = [answer EXCEPT ![r] = "loggedOut"]
     /\ doomed' = [doomed EXCEPT ![r] = FALSE]
     /\ UNCHANGED <<stores, held>>
  \/ /\ found = NoToken
     /\ Refuse(r, "loggedOut")

\* DEL auth:session:<sid>, acknowledged.
Delete(r) ==
  /\ pc[r] = "delete"
  /\ session' = [session EXCEPT ![sid[r]] = NoRecord]
  /\ Finish(r, answer[r])
  /\ UNCHANGED <<clock, account, owner, tokens>>

\* The DEL takes effect but its reply is lost.
DeleteUnacknowledged(r) ==
  /\ pc[r] = "delete"
  /\ session' = [session EXCEPT ![sid[r]] = NoRecord]
  /\ UNCHANGED <<clock, account, owner, tokens, locals>>

----------------------------------------------------------------------------
\* JwtGuard.canActivate

\* Up to the GET; t is the access cookie.
BeginGuard(r, t) ==
  \/ AccessValid(t) /\ Begin(r, "guard.session", t.user, t.sid, t)
  \/ ~AccessValid(t) /\ Refuse(r, "unauthorized")

\* Variant of GuardSession: the JWT is trusted without its session.
GuardSessionTrusting(r) ==
  /\ pc[r] = "guard.session"
  /\ Goto(r, "guard.user")
  /\ UNCHANGED <<stores, who, sid, held, answer, doomed>>

\* The answer of GET auth:session:<sid>; the refresh hash is not looked at.
GuardSession(r) ==
  /\ pc[r] = "guard.session"
  /\ \/ /\ ~SessionKnown(held[r])
        /\ Finish(r, "unauthorized")
     \/ /\ SessionKnown(held[r])
        /\ Goto(r, "guard.user")
        /\ UNCHANGED <<who, sid, held, answer, doomed>>
  /\ UNCHANGED stores

\* A missing user is refused without deleting the session, unlike in refresh.
GuardUser(r) ==
  /\ pc[r] = "guard.user"
  /\ \/ /\ account[who[r]] \in {"absent", "deleted"}
        /\ Finish(r, "unauthorized")
     \/ /\ account[who[r]] = "SUSPENDED"
        /\ DeleteThen(r, "denied")
     \/ /\ account[who[r]] = "ACTIVE"
        /\ Finish(r, "served")
  /\ UNCHANGED stores

----------------------------------------------------------------------------
\* Failures, time, and the operators of the database

\* Any await may reject (Redis or PostgreSQL unreachable, the process gone).
Fail(r) ==
  /\ pc[r] \in Waiting
  /\ Finish(r, "error")
  /\ UNCHANGED stores

Tick ==
  /\ clock < MaxClock
  /\ clock' = clock + 1
  /\ session' = Unexpired(clock + 1)
  /\ UNCHANGED <<account, owner, tokens, locals>>

\* No code under src/ changes a status or deletes a user: an operator does.
SetStatus(u, from, to) ==
  /\ account[u] \in from
  /\ account' = [account EXCEPT ![u] = to]
  /\ UNCHANGED <<clock, owner, session, tokens, locals>>
Suspend(u) == SetStatus(u, {"ACTIVE"}, "SUSPENDED")
Reactivate(u) == SetStatus(u, {"SUSPENDED"}, "ACTIVE")
DeleteAccount(u) == SetStatus(u, {"ACTIVE", "SUSPENDED"}, "deleted")

----------------------------------------------------------------------------
Init ==
  /\ clock = 0
  /\ account \in [User -> {"absent", "ACTIVE"}]
  /\ owner = [s \in Sid |-> NoUser]
  /\ session = [s \in Sid |-> NoRecord]
  /\ tokens = {}
  /\ pc = [r \in Req |-> "idle"]
  /\ who = [r \in Req |-> NoUser]
  /\ sid = [r \in Req |-> NoSid]
  /\ held = [r \in Req |-> NoToken]
  /\ answer = [r \in Req |-> "none"]
  /\ doomed = [r \in Req |-> FALSE]

\* The cookies a client may send: none, or any it was ever given.
Cookie == tokens \cup {NoToken}

Arrive(r) ==
  \/ \E u \in User : BeginRegister(r, u) \/ BeginLogin(r, u)
  \/ \E t \in Cookie : BeginRefresh(r, t) \/ BeginGuard(r, t)
  \/ \E rt, t \in Cookie : BeginLogout(r, rt, t)

\* The steps that answer a request: what the event loop schedules.
Proceed(r) ==
  \/ RegisterFind(r) \/ RegisterSave(r) \/ LoginFind(r)
  \/ RefreshSession(r) \/ RefreshUser(r)
  \/ Sign(r) \/ Store(r) \/ Delete(r)
  \/ GuardSession(r) \/ GuardUser(r)

Disturb(r) == StoreUnacknowledged(r) \/ DeleteUnacknowledged(r) \/ Fail(r)

Environment ==
  Tick \/ \E u \in User : Suspend(u) \/ Reactivate(u) \/ DeleteAccount(u)

Next == (\E r \in Req : Arrive(r) \/ Proceed(r) \/ Disturb(r)) \/ Environment

Spec == Init /\ [][Next]_vars

----------------------------------------------------------------------------
\* Properties

\* The variables hold what they are declared to hold.
TypeOK ==
  /\ clock \in Nat
  /\ account \in [User -> Status]
  /\ owner \in [Sid -> User \cup {NoUser}]
  /\ session \in [Sid -> Record \cup {NoRecord}]
  /\ tokens \in SUBSET Token
  /\ pc \in [Req -> Waiting \cup {"idle"}]
  /\ who \in [Req -> User \cup {NoUser}]
  /\ sid \in [Req -> Sid \cup {NoSid}]
  /\ held \in [Req -> Token \cup {NoToken}]
  /\ answer \in [Req -> Answers]
  /\ doomed \in [Req -> BOOLEAN]

\* Whatever rotations, retries and failures happen, the record of a session
\* and every token ever given out for it name the one user it was opened for
\* (issueSession reuses the session id of the presented token).
SessionOwner ==
  /\ \A t \in tokens : owner[t.sid] = t.user
  /\ \A s \in Sid : session[s] # NoRecord =>
       /\ session[s].user = owner[s]
       /\ session[s].token.sid = s
       /\ session[s].token.user = owner[s]

\* A record never lapses while the refresh token whose hash it holds still
\* verifies, however long the SET took after the signature: Redis cannot end
\* a session early by itself (EX is set from the same TTL as the JWT).
RecordOutlivesToken ==
  \A s \in Sid : session[s] # NoRecord =>
    session[s].exp >= session[s].token.iat + RefreshTTL

\* Once a session has no record and no request is past its session check,
\* nothing can bring it back: not old tokens, retries, late deletes or any
\* order of the rest (refreshSession 106-110, issueSession 269).
DeadStaysDead == [][\A s \in Sid : Dead(s) => Dead(s)']_vars

\* A refresh or a guarded request that arrives after its session is dead or
\* its user is deleted is never served, whatever runs beside it.
DoomedRefused ==
  \A r \in Req : doomed[r] =>
    answer[r] # "served" /\ pc[r] \notin {"sign", "store"}

\* Requests that already passed their status check for u.
Admitted(u) == {r \in Req : who[r] = u /\ pc[r] \in {"sign", "store"}}
TokensOf(u) == {t \in tokens : t.user = u}
RecordsOf(u) == {s \in Sid : session[s] # NoRecord /\ session[s].user = u}

\* From the moment no admitted request of a suspended or deleted user is left,
\* the user gains neither a token nor a session while the status stays so
\* (the status checks at auth.service.ts 87, 126 and jwt.guard.ts 82).
SuspendedGainsNothing ==
  [][\A u \in User :
       (account[u] # "ACTIVE" /\ Admitted(u) = {} /\ account'[u] # "ACTIVE")
         => /\ Admitted(u)' = {}
            /\ TokensOf(u)' = TokensOf(u)
            /\ RecordsOf(u)' \subseteq RecordsOf(u)]_vars

\* Register, login, refresh, logout, the guard, expiry and every failure
\* together keep the promise SessionContract makes about each session.
Contract == INSTANCE SessionContract WITH
  Nobody <- NoUser,
  live <- {s \in Sid : session[s] # NoRecord},
  tickets <- {p \in Sid \X Req : Writer(p[2], p[1])}
ImplementsContract == Contract!ContractSpec

\* README "Logging out removes the active refresh session from Redis": once a
\* logout has answered, the session it named has no record.
LogoutFinal ==
  \A r \in Req :
    (pc[r] = "idle" /\ answer[r] = "loggedOut" /\ sid[r] # NoSid)
      => session[sid[r]] = NoRecord

=============================================================================
