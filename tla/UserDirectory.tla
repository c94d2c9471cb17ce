---------------------------- MODULE UserDirectory ----------------------------
(***************************************************************************)
(* The users table and who may change it: public registration, creation of *)
(* users and change of roles by a signed-in user (auth.service.ts), the    *)
(* default admin seeded at every start (auth-bootstrap.service.ts), and an *)
(* operator who works on the database directly.                            *)
(*                                                                         *)
(* A request reads rows at one await and writes at a later one, so it acts *)
(* on snapshots: of the requester, taken by the guard, and of the target.  *)
(* repository.save compares the snapshot with the stored row and writes    *)
(* every column that differs, re-inserting a row that is gone; so after it *)
(* the stored row equals the snapshot.  Roles are fixed once seeded.       *)
(***************************************************************************)
EXTENDS Naturals

CONSTANTS
  Uid,           \* user ids the database may generate
  Email,         \* normalised addresses
  Req,           \* slots: bounds how many requests of each kind overlap
  Role, Level,   \* role codes, and each one's level
  AdminRole,     \* SYSTEM_ADMIN_ROLE_CODE
  StudentRole,   \* STUDENT_ROLE_CODE
  AdminEmail,    \* BOOTSTRAP_ADMIN_EMAIL
  Unused, Gone,  \* an id never drawn; an id whose row was deleted
  Nobody,        \* no requester: public registration, or the bootstrap
  None           \* a free slot; a target not loaded yet

ASSUME RoleAssumption ==
  /\ Level \in [Role -> Nat]
  /\ AdminRole \in Role /\ StudentRole \in Role /\ StudentRole # AdminRole
  /\ AdminEmail \in Email
\* auth.seed.ts gives the admin the highest level.
ASSUME AdminIsTop == \A c \in Role : Level[c] <= Level[AdminRole]

Row == [email : Email, role : Role, status : {"ACTIVE", "SUSPENDED"}]

\* The requester as the guard loaded it.
Actor == [uid : Uid, role : Role]

\* A user about to be inserted, and by whom; the bootstrap has by = Nobody too.
Creation == [at : {"find", "save"}, by : Actor \cup {Nobody}, email : Email, role : Role]

\* A change of role under way: snap is the target's row as it was loaded.
Change == [by : Actor, target : Uid, role : Role, snap : Row \cup {None}]

ASSUME NullAssumption ==
  /\ Unused \notin Row /\ Gone \notin Row /\ Unused # Gone
  /\ Nobody \notin Actor
  /\ None \notin Row \cup Creation \cup Change

VARIABLES
  row,       \* Uid -> Row, Unused or Gone: the users table
  creating,  \* Req -> Creation or None
  changing   \* Req -> Change or None

vars == <<row, creating, changing>>

----------------------------------------------------------------------------
Present(u) == row[u] \in Row
Taken(e) == \E u \in Uid : Present(u) /\ row[u].email = e

\* Variant of CanManage: peers may manage each other.
CanManagePeers(c, d) == Level[c] >= Level[d]

\* RoleService.canManage.
CanManage(c, d) == Level[c] > Level[d]

\* JwtGuard lets an active user through.
SignedIn(u) == Present(u) /\ row[u].status = "ACTIVE"

\* Variant of Requester: only the id is kept.
RequesterId(u) == u

\* What the handler keeps of the requester the guard loaded.
Requester(u) == [uid |-> u, role |-> row[u].role]

----------------------------------------------------------------------------
\* Creating users

\* createUserRecord (or seedDefaultAdmin) is called: next, findOne by email.
Create(r, by, e, c) ==
  /\ creating[r] = None
  /\ creating' = [creating EXCEPT ![r] =
       [at |-> "find", by |-> by, email |-> e, role |-> c]]
  /\ UNCHANGED <<row, changing>>

\* register: any other role is answered 403 before anything is read.
BeginRegister(r, e, c) == c = StudentRole /\ Create(r, Nobody, e, c)

\* createUser by the signed-in user u; 403 unless u outranks the new role.
BeginCreateUser(r, u, e, c) ==
  /\ SignedIn(u) /\ CanManage(row[u].role, c)
  /\ Create(r, Requester(u), e, c)

\* seedDefaultAdmin, run by every process that starts.
BeginBoot(r) == Create(r, Nobody, AdminEmail, AdminRole)

\* findOne by email: a known address ends it (409; for the bootstrap, done).
FindEmail(r) ==
  /\ creating[r] # None /\ creating[r].at = "find"
  /\ creating' = [creating EXCEPT ![r] =
       IF Taken(creating[r].email) THEN None ELSE [creating[r] EXCEPT !.at = "save"]]
  /\ UNCHANGED <<row, changing>>

\* Variant of Insertable: no unique index, the earlier look-up is trusted.
InsertableAlways(e) == TRUE

\* The unique index on email.
Insertable(e) == ~Taken(e)

\* save: an insertion under a fresh id, or a violation of the unique index
\* (500; in onModuleInit it stops the process from starting).
SaveUser(r) ==
  /\ creating[r] # None /\ creating[r].at = "save"
  /\ \/ /\ Insertable(creating[r].email)
        /\ \E u \in Uid :
             /\ row[u] = Unused
             /\ row' = [row EXCEPT ![u] = [email |-> creating[r].email,
                                           role |-> creating[r].role,
                                           status |-> "ACTIVE"]]
     \/ /\ ~Insertable(creating[r].email)
        /\ UNCHANGED row
  /\ creating' = [creating EXCEPT ![r] = None]
  /\ UNCHANGED changing

----------------------------------------------------------------------------
\* Changing roles

\* changeRole of user v by the signed-in user u.
BeginChangeRole(r, u, v, c) ==
  /\ changing[r] = None
  /\ SignedIn(u)
  /\ changing' = [changing EXCEPT ![r] =
       [by |-> Requester(u), target |-> v, role |-> c, snap |-> None]]
  /\ UNCHANGED <<row, creating>>

\* Variant of Allowed: the target's own rank is not looked at.
AllowedByGrant(by, loaded, c) == CanManage(by.role, c)

\* The two hierarchy checks: the requester outranks the target as it was
\* loaded, and the role to assign.
Allowed(by, loaded, c) ==
  CanManage(by.role, loaded.role) /\ CanManage(by.role, c)

\* findOne by id, then the checks: 404, 403, or on to save.
FindTarget(r) ==
  /\ changing[r] # None /\ changing[r].snap = None
  /\ LET j == changing[r] IN
     changing' = [changing EXCEPT ![r] =
       IF Present(j.target) /\ Allowed(j.by, row[j.target], j.role)
       THEN [j EXCEPT !.snap = row[j.target]] ELSE None]
  /\ UNCHANGED <<row, creating>>

\* save: the stored row becomes the snapshot with the new role, even if it
\* changed or was deleted meanwhile, unless its address was taken again.
SaveTarget(r) ==
  /\ changing[r] # None /\ changing[r].snap # None
  /\ LET j == changing[r] IN
     \/ /\ Present(j.target) \/ Insertable(j.snap.email)
        /\ row' = [row EXCEPT ![j.target] = [j.snap EXCEPT !.role = j.role]]
     \/ /\ ~Present(j.target) /\ ~Insertable(j.snap.email)
        /\ UNCHANGED row
  /\ changing' = [changing EXCEPT ![r] = None]
  /\ UNCHANGED creating

----------------------------------------------------------------------------
\* Any await may reject, or the process stop.
Fail(r) ==
  /\ \/ creating[r] # None /\ creating' = [creating EXCEPT ![r] = None]
                           /\ UNCHANGED changing
     \/ changing[r] # None /\ changing' = [changing EXCEPT ![r] = None]
                           /\ UNCHANGED creating
  /\ UNCHANGED row

\* An operator sets a status or deletes a row in the database.
Operate(u) ==
  /\ Present(u)
  /\ \/ \E s \in {"ACTIVE", "SUSPENDED"} :
          row[u].status # s /\ row' = [row EXCEPT ![u].status = s]
     \/ row' = [row EXCEPT ![u] = Gone]
  /\ UNCHANGED <<creating, changing>>

----------------------------------------------------------------------------
Init == /\ row = [u \in Uid |-> Unused]
        /\ creating = [r \in Req |-> None]
        /\ changing = [r \in Req |-> None]

Serve(r) ==
  \/ \E e \in Email, c \in Role : BeginRegister(r, e, c)
  \/ \E u \in Uid, e \in Email, c \in Role : BeginCreateUser(r, u, e, c)
  \/ \E u, v \in Uid, c \in Role : BeginChangeRole(r, u, v, c)
  \/ BeginBoot(r)
  \/ FindEmail(r) \/ SaveUser(r) \/ FindTarget(r) \/ SaveTarget(r) \/ Fail(r)

Next == (\E r \in Req : Serve(r)) \/ \E u \in Uid : Operate(u)

Spec == Init /\ [][Next]_vars

----------------------------------------------------------------------------
\* Properties

\* The variables hold what they are declared to hold.
TypeOK == /\ row \in [Uid -> Row \cup {Unused, Gone}]
          /\ creating \in [Req -> Creation \cup {None}]
          /\ changing \in [Req -> Change \cup {None}]

\* Two accounts never share an address, whichever registrations, creations,
\* starts and late saves of role changes overlap (createUserRecord looks the
\* address up at 215 and inserts at 233, with a bcrypt hash in between).
EmailUnique ==
  \A u, v \in Uid : (Present(u) /\ Present(v) /\ row[u].email = row[v].email) => u = v

\* The system admin role is held by accounts seeded for the bootstrap address
\* alone: no chain of creations and role changes, by whomever and on however
\* stale a snapshot, leads to it (canManage at 156, 190, 196).
AdminsAreSeeded ==
  \A u \in Uid : (Present(u) /\ row[u].role = AdminRole) => row[u].email = AdminEmail

\* No request takes the role from a system admin: while the row is there it
\* stays an admin's, although saves write back whole snapshots (190, 203).
AdminsStayAdmins ==
  [][\A u \in Uid :
       (Present(u) /\ row[u].role = AdminRole /\ Present(u)')
         => row'[u].role = AdminRole]_vars

\* README 211 "subject to the same hierarchy checks": when a change of role is
\* saved, its requester, as the guard saw it, outranks the target.
HierarchyAtSave ==
  [][\A r \in Req : \A u \in Uid :
       (/\ changing[r] # None /\ changing'[r] = None /\ row'[u] # row[u]
        /\ changing[r].target = u /\ Present(u))
         => CanManage(changing[r].by.role, row[u].role)]_vars

\* What is left of "subject to the same hierarchy checks": the requester
\* outranks the target at the save if the target's role is still the one the
\* request loaded (179), however many awaits and other saves lie in between,
\* and outranks the role it assigns in any case.
HierarchyUnlessStale ==
  [][\A r \in Req : SaveTarget(r) =>
       LET j == changing[r] IN
       /\ CanManage(j.by.role, j.role)
       /\ (Present(j.target) /\ row[j.target].role = j.snap.role) =>
            CanManage(j.by.role, row[j.target].role)]_vars

=============================================================================
