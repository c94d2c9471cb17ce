------------------------- MODULE UserDirectoryProofs -------------------------
(***************************************************************************)
(* Theorems about UserDirectory, for any set of roles in which the admin's *)
(* level is highest and any number of users and overlapping requests.      *)
(* The rank of an account cannot be trusted to stay what a request loaded; *)
(* the proofs rest on the little that can: an id keeps its address, and    *)
(* whoever was loaded as no admin does not become one.                     *)
(***************************************************************************)
EXTENDS UserDirectory, TLAPS

Loaded(r) == changing[r] # None /\ changing[r].snap # None

\* A system admin is only ever about to be created for the bootstrap address.
AdminCreations ==
  \A r \in Req : creating[r] # None =>
    (creating[r].role = AdminRole => creating[r].email = AdminEmail)

\* A change of role that passed the checks neither grants the admin role nor
\* was loaded from, or is aimed at, an admin.
AdminChanges ==
  \A r \in Req : Loaded(r) =>
    /\ changing[r].role # AdminRole
    /\ row[changing[r].target] # Unused
    /\ Present(changing[r].target) => row[changing[r].target].role # AdminRole

\* An id keeps its address: in the table, and in every snapshot of it.
AddressFixed ==
  /\ \A r \in Req : (Loaded(r) /\ Present(changing[r].target)) =>
       row[changing[r].target].email = changing[r].snap.email
  /\ \A q, r \in Req :
       (Loaded(q) /\ Loaded(r) /\ changing[q].target = changing[r].target) =>
         changing[q].snap.email = changing[r].snap.email

Inv == /\ TypeOK /\ EmailUnique /\ AdminsAreSeeded
       /\ AdminCreations /\ AdminChanges /\ AddressFixed

LEMMA TopRank ==
  ASSUME NEW c \in Role, NEW d \in Role, CanManage(c, d)
  PROVE  d # AdminRole
BY AdminIsTop, RoleAssumption DEF CanManage

LEMMA InvInit == Init => Inv
BY NullAssumption, RoleAssumption
   DEF Init, Inv, TypeOK, EmailUnique, AdminsAreSeeded, AdminCreations, AdminChanges,
       AddressFixed, Present, Loaded

----------------------------------------------------------------------------
(* Types *)

LEMMA CreateTyped ==
  ASSUME TypeOK, NEW r \in Req, NEW by \in Actor \cup {Nobody},
         NEW e \in Email, NEW c \in Role, Create(r, by, e, c)
  PROVE  TypeOK'
BY DEF TypeOK, Create, Creation

LEMMA TypeStep ==
  ASSUME TypeOK, [Next]_vars
  PROVE  TypeOK'
<1> USE NullAssumption, RoleAssumption
<1>1. CASE UNCHANGED vars
  BY <1>1 DEF vars, TypeOK
<1>2. ASSUME NEW r \in Req, NEW e \in Email, NEW c \in Role, BeginRegister(r, e, c)
      PROVE  TypeOK'
  BY <1>2, CreateTyped DEF BeginRegister
<1>3. ASSUME NEW r \in Req, NEW u \in Uid, NEW e \in Email, NEW c \in Role,
             BeginCreateUser(r, u, e, c)
      PROVE  TypeOK'
  <2>1. Requester(u) \in Actor
    BY <1>3 DEF BeginCreateUser, SignedIn, Present, Requester, Actor, Row
  <2> QED BY <1>3, <2>1, CreateTyped DEF BeginCreateUser
<1>4. ASSUME NEW r \in Req, BeginBoot(r)
      PROVE  TypeOK'
  BY <1>4, CreateTyped DEF BeginBoot
<1>5. ASSUME NEW r \in Req, FindEmail(r)
      PROVE  TypeOK'
  BY <1>5 DEF FindEmail, TypeOK, Creation
<1>6. ASSUME NEW r \in Req, SaveUser(r)
      PROVE  TypeOK'
  BY <1>6 DEF SaveUser, TypeOK, Creation, Row
<1>7. ASSUME NEW r \in Req, NEW u \in Uid, NEW v \in Uid, NEW c \in Role,
             BeginChangeRole(r, u, v, c)
      PROVE  TypeOK'
  <2>1. Requester(u) \in Actor
    BY <1>7 DEF BeginChangeRole, SignedIn, Present, Requester, Actor, Row
  <2> QED BY <1>7, <2>1 DEF BeginChangeRole, TypeOK, Change
<1>8. ASSUME NEW r \in Req, FindTarget(r)
      PROVE  TypeOK'
  BY <1>8 DEF FindTarget, TypeOK, Change, Present
<1>9. ASSUME NEW r \in Req, SaveTarget(r)
      PROVE  TypeOK'
  BY <1>9 DEF SaveTarget, TypeOK, Change, Row
<1>10. ASSUME NEW r \in Req, Fail(r)
       PROVE  TypeOK'
  BY <1>10 DEF Fail, TypeOK
<1>11. ASSUME NEW u \in Uid, Operate(u)
       PROVE  TypeOK'
  BY <1>11 DEF Operate, Present, TypeOK, Row
<1> QED BY <1>1, <1>2, <1>3, <1>4, <1>5, <1>6, <1>7, <1>8, <1>9, <1>10, <1>11
        DEF Next, Serve

----------------------------------------------------------------------------
(* One lemma per kind of step *)

\* A step that leaves the table and the changes of role alone.
LEMMA InvCreation ==
  ASSUME Inv, TypeOK', AdminCreations', UNCHANGED <<row, changing>>
  PROVE  Inv'
BY DEF Inv, EmailUnique, AdminsAreSeeded, AdminChanges, AddressFixed, Present, Loaded

\* A step that leaves the table alone and loads no snapshot.
LEMMA InvChange ==
  ASSUME Inv, TypeOK', UNCHANGED <<row, creating>>,
         \A r \in Req : Loaded(r)' => changing'[r] = changing[r]
  PROVE  Inv'
BY DEF Inv, EmailUnique, AdminsAreSeeded, AdminCreations, AdminChanges, AddressFixed,
       Present, Loaded

LEMMA InvSaveUser ==
  ASSUME Inv, NEW r \in Req, SaveUser(r), TypeOK'
  PROVE  Inv'
<1> USE NullAssumption DEF Inv, TypeOK, SaveUser, Present
<1>1. AdminCreations'
  BY DEF AdminCreations
<1>2. CASE UNCHANGED row
  BY <1>1, <1>2, InvCreation
<1>3. ASSUME NEW u \in Uid, row[u] = Unused, ~Taken(creating[r].email),
             row' = [row EXCEPT ![u] = [email |-> creating[r].email,
                                        role |-> creating[r].role, status |-> "ACTIVE"]]
      PROVE  Inv'
  <2>1. EmailUnique'
    BY <1>3 DEF EmailUnique, Taken
  <2>2. AdminsAreSeeded'
    BY <1>3 DEF AdminsAreSeeded, AdminCreations
  <2>3. \A q \in Req : Loaded(q)' => Loaded(q) /\ changing[q].target # u
    BY <1>3 DEF Loaded, AdminChanges
  <2>4. AdminChanges' /\ AddressFixed'
    BY <1>3, <2>3 DEF AdminChanges, AddressFixed, Loaded, Change
  <2> QED BY <1>1, <2>1, <2>2, <2>4
<1> QED BY <1>2, <1>3 DEF Insertable

LEMMA InvFindTarget ==
  ASSUME Inv, NEW r \in Req, FindTarget(r), TypeOK'
  PROVE  Inv'
<1> DEFINE j == changing[r]
<1> USE NullAssumption DEF Inv, TypeOK
<1>1. CASE ~(Present(j.target) /\ Allowed(j.by, row[j.target], j.role))
  BY <1>1, InvChange DEF FindTarget, Loaded
<1>2. CASE Present(j.target) /\ Allowed(j.by, row[j.target], j.role)
  <2>1. /\ j \in Change /\ row[j.target] \in Row
        /\ changing' = [changing EXCEPT ![r] = [j EXCEPT !.snap = row[j.target]]]
        /\ UNCHANGED <<row, creating>>
    BY <1>2 DEF FindTarget, Present
  <2>2. j.role # AdminRole /\ row[j.target].role # AdminRole
    BY <1>2, <2>1, TopRank DEF Allowed, Change, Actor, Row
  <2>3. AdminChanges'
    BY <2>1, <2>2 DEF AdminChanges, Loaded, Change, Present
  <2>4. AddressFixed'
    BY <2>1 DEF AddressFixed, Loaded, Change, Present
  <2> QED BY <2>1, <2>3, <2>4 DEF EmailUnique, AdminsAreSeeded, AdminCreations, Present
<1> QED BY <1>1, <1>2

LEMMA WithRole ==
  ASSUME NEW x \in Row, NEW c \in Role
  PROVE  /\ [x EXCEPT !.role = c] \in Row
         /\ [x EXCEPT !.role = c].email = x.email
         /\ [x EXCEPT !.role = c].role = c
BY DEF Row

\* The write of a change of role: w is the snapshot with its new role.
LEMMA InvWrite ==
  ASSUME Inv, TypeOK', NEW r \in Req, Loaded(r),
         NEW u \in Uid, u = changing[r].target,
         NEW w \in Row, w.email = changing[r].snap.email, w.role = changing[r].role,
         Present(u) \/ ~Taken(w.email),
         row' = [row EXCEPT ![u] = w],
         changing' = [changing EXCEPT ![r] = None],
         UNCHANGED creating
  PROVE  Inv'
<1>1. \A v \in Uid : row'[v] = IF v = u THEN w ELSE row[v]
  BY DEF Inv, TypeOK
<1>2. \A q \in Req : Loaded(q)' => Loaded(q) /\ changing'[q] = changing[q]
  BY DEF Inv, TypeOK, Loaded
<1>3. \A q \in Req : Loaded(q) => changing[q].target \in Uid
  BY DEF Inv, TypeOK, Loaded, Change
<1>4. w.role # AdminRole
  BY DEF Inv, AdminChanges
<1>5. EmailUnique'
  <2>1. \A v \in Uid : v # u /\ Present(v) => row[v].email # w.email
    BY DEF Inv, AddressFixed, EmailUnique, Taken
  <2> QED BY <1>1, <2>1 DEF Inv, EmailUnique, Present
<1>6. AdminsAreSeeded'
  BY <1>1, <1>4 DEF Inv, AdminsAreSeeded, Present
<1>7. AdminChanges'
  BY <1>1, <1>2, <1>3, <1>4, NullAssumption DEF Inv, AdminChanges, Present
<1>8. AddressFixed'
  BY <1>1, <1>2, <1>3 DEF Inv, AddressFixed, Present
<1> QED BY <1>5, <1>6, <1>7, <1>8 DEF Inv, AdminCreations

LEMMA InvSaveTarget ==
  ASSUME Inv, NEW r \in Req, SaveTarget(r), TypeOK'
  PROVE  Inv'
<1>1. CASE UNCHANGED row
  BY <1>1, InvChange, NullAssumption DEF SaveTarget, Loaded, Inv, TypeOK
<1>2. CASE /\ Present(changing[r].target) \/ ~Taken(changing[r].snap.email)
           /\ row' = [row EXCEPT ![changing[r].target] =
                        [changing[r].snap EXCEPT !.role = changing[r].role]]
  <2>1. /\ Loaded(r) /\ UNCHANGED creating
        /\ changing' = [changing EXCEPT ![r] = None]
    BY DEF SaveTarget, Loaded
  <2>2. /\ changing[r].snap \in Row /\ changing[r].role \in Role
        /\ changing[r].target \in Uid
    BY <2>1 DEF Inv, TypeOK, Loaded, Change
  <2> QED BY <1>2, <2>1, <2>2, WithRole, InvWrite
<1> QED BY <1>1, <1>2 DEF SaveTarget, Insertable

LEMMA InvOperate ==
  ASSUME Inv, NEW u \in Uid, Operate(u), TypeOK'
  PROVE  Inv'
<1> USE NullAssumption DEF Inv, TypeOK, Operate, Present
<1>1. \A v \in Uid : row'[v] \in Row =>
        row[v] \in Row /\ row'[v].email = row[v].email /\ row'[v].role = row[v].role
  BY DEF Row
<1>2. \A v \in Uid : row'[v] = Unused => row[v] = Unused
  BY DEF Row
<1>3. EmailUnique' /\ AdminsAreSeeded'
  BY <1>1 DEF EmailUnique, AdminsAreSeeded
<1>4. AdminChanges' /\ AddressFixed'
  BY <1>1, <1>2 DEF AdminChanges, AddressFixed, Loaded, Change
<1> QED BY <1>3, <1>4 DEF AdminCreations

LEMMA InvStep == Inv /\ [Next]_vars => Inv'
<1> SUFFICES ASSUME Inv, [Next]_vars PROVE Inv'
  OBVIOUS
<1> USE NullAssumption, RoleAssumption
<1>1. TypeOK /\ TypeOK'
  BY TypeStep DEF Inv
<1>2. CASE UNCHANGED vars
  BY <1>1, <1>2, InvChange DEF vars
<1>3. ASSUME NEW r \in Req, NEW by, NEW e, NEW c \in Role, Create(r, by, e, c),
             c = AdminRole => e = AdminEmail
      PROVE  Inv'
  <2>1. AdminCreations'
    BY <1>3, <1>1 DEF Create, Inv, AdminCreations, TypeOK
  <2> QED BY <1>1, <1>3, <2>1, InvCreation DEF Create
<1>4. ASSUME NEW r \in Req, NEW e \in Email, NEW c \in Role, BeginRegister(r, e, c)
      PROVE  Inv'
  BY <1>3, <1>4 DEF BeginRegister
<1>5. ASSUME NEW r \in Req, NEW u \in Uid, NEW e \in Email, NEW c \in Role,
             BeginCreateUser(r, u, e, c)
      PROVE  Inv'
  <2>1. c # AdminRole
    BY <1>5, TopRank DEF BeginCreateUser, SignedIn, Present, Row
  <2> QED BY <1>3, <1>5, <2>1 DEF BeginCreateUser
<1>6. ASSUME NEW r \in Req, BeginBoot(r)
      PROVE  Inv'
  BY <1>3, <1>6 DEF BeginBoot
<1>7. ASSUME NEW r \in Req, FindEmail(r)
      PROVE  Inv'
  <2>1. AdminCreations'
    BY <1>1, <1>7 DEF FindEmail, Inv, AdminCreations, TypeOK, Creation
  <2> QED BY <1>1, <1>7, <2>1, InvCreation DEF FindEmail
<1>8. ASSUME NEW r \in Req, NEW u \in Uid, NEW v \in Uid, NEW c \in Role,
             BeginChangeRole(r, u, v, c)
      PROVE  Inv'
  BY <1>1, <1>8, InvChange DEF BeginChangeRole, Loaded, TypeOK
<1>9. ASSUME NEW r \in Req, Fail(r)
      PROVE  Inv'
  <2>1. CASE UNCHANGED changing
    <3>1. AdminCreations'
      BY <1>1, <1>9, <2>1 DEF Fail, Inv, AdminCreations, TypeOK
    <3> QED BY <1>1, <1>9, <2>1, <3>1, InvCreation DEF Fail
  <2>2. CASE UNCHANGED creating
    BY <1>1, <1>9, <2>2, InvChange DEF Fail, Loaded, TypeOK
  <2> QED BY <1>9, <2>1, <2>2 DEF Fail
<1> QED BY <1>1, <1>2, <1>4, <1>5, <1>6, <1>7, <1>8, <1>9,
           InvSaveUser, InvFindTarget, InvSaveTarget, InvOperate DEF Next, Serve

LEMMA InvAlways == Spec => []Inv
BY InvInit, InvStep, PTL DEF Spec

----------------------------------------------------------------------------
(* Theorems *)

\* Every reachable state is well typed, for any parameters: a save always
\* writes a complete row (createUserRecord 224-233, changeRole 202-203).
THEOREM DirectoryTypeCorrect == Spec => []TypeOK
<1>1. Inv => TypeOK BY DEF Inv
<1> QED BY <1>1, InvAlways, PTL

\* No two accounts share an address, although the look-up and the insertion
\* are far apart and a late save may re-insert a deleted row
\* (createUserRecord 215-233, user.entity.ts 15).
THEOREM AddressesAreUnique == Spec => []EmailUnique
<1>1. Inv => EmailUnique BY DEF Inv
<1> QED BY <1>1, InvAlways, PTL

\* The system admin role never leaves the bootstrap address, for any set of
\* roles below it (canManage's strict comparison, role.service.ts 84-86).
THEOREM AdminRoleIsSeededOnly == Spec => []AdminsAreSeeded
<1>1. Inv => AdminsAreSeeded BY DEF Inv
<1> QED BY <1>1, InvAlways, PTL

\* No interleaving of stale role changes takes the admin role from an admin
\* (changeRole 190-203).
THEOREM AdminRoleIsKept == Spec => AdminsStayAdmins
<1>1. ASSUME Inv, [Next]_vars, NEW u \in Uid, Present(u), row[u].role = AdminRole, Present(u)'
      PROVE  row'[u].role = AdminRole
  <2> USE NullAssumption DEF Inv, TypeOK, Present
  <2>1. CASE row'[u] = row[u]
    BY <1>1, <2>1
  <2>2. ASSUME NEW r \in Req, SaveUser(r)
        PROVE  row'[u] = row[u]
    BY <1>1, <2>2 DEF SaveUser
  <2>3. ASSUME NEW r \in Req, SaveTarget(r)
        PROVE  row'[u] = row[u]
    <3>1. changing[r].target # u
      BY <1>1, <2>3 DEF SaveTarget, AdminChanges, Loaded
    <3> QED BY <1>1, <2>3, <3>1 DEF SaveTarget
  <2>4. ASSUME NEW v \in Uid, Operate(v)
        PROVE  row'[u].role = AdminRole
    BY <1>1, <2>4 DEF Operate, Row
  <2>5. CASE UNCHANGED row
    BY <1>1, <2>5
  <2> QED BY <1>1, <2>1, <2>2, <2>3, <2>4, <2>5
          DEF Next, Serve, BeginRegister, BeginCreateUser, BeginBoot, Create, FindEmail,
              BeginChangeRole, FindTarget, Fail, vars
<1>2. Inv /\ [Next]_vars => \A u \in Uid :
        (Present(u) /\ row[u].role = AdminRole /\ Present(u)') => row'[u].role = AdminRole
  BY <1>1
<1> QED BY <1>2, InvAlways, PTL DEF Spec, AdminsStayAdmins

\* A change of role about to be saved passed both checks on what it loaded.
Checked(r) == Loaded(r) => Allowed(changing[r].by, changing[r].snap, changing[r].role)
AllChecked == \A r \in Req : Checked(r)

LEMMA CheckedStep ==
  ASSUME TypeOK, AllChecked, [Next]_vars
  PROVE  AllChecked'
<1> USE NullAssumption
<1>1. CASE UNCHANGED changing
  BY <1>1 DEF AllChecked, Checked, Loaded
<1>2. ASSUME NEW r \in Req, NEW x \in Change \cup {None},
             changing' = [changing EXCEPT ![r] = x],
             x = None \/ x.snap = None \/ Allowed(x.by, x.snap, x.role)
      PROVE  AllChecked'
  BY <1>2 DEF AllChecked, Checked, Loaded, TypeOK
<1>3. ASSUME NEW r \in Req, NEW u \in Uid, NEW v \in Uid, NEW c \in Role,
             BeginChangeRole(r, u, v, c)
      PROVE  AllChecked'
  <2> DEFINE x == [by |-> Requester(u), target |-> v, role |-> c, snap |-> None]
  <2>1. x \in Change
    BY <1>3 DEF BeginChangeRole, SignedIn, Present, Requester, Actor, Row, Change, TypeOK
  <2>2. changing' = [changing EXCEPT ![r] = x] /\ x.snap = None
    BY <1>3 DEF BeginChangeRole
  <2> HIDE DEF x
  <2> QED BY <1>2, <2>1, <2>2
<1>4. ASSUME NEW r \in Req, FindTarget(r)
      PROVE  AllChecked'
  <2> DEFINE j == changing[r]
             x == [j EXCEPT !.snap = row[j.target]]
  <2>1. CASE changing' = [changing EXCEPT ![r] = None]
    BY <1>2, <2>1
  <2>2. CASE /\ changing' = [changing EXCEPT ![r] = x]
             /\ Present(j.target) /\ Allowed(j.by, row[j.target], j.role)
    <3>1. /\ x \in Change /\ x.by = j.by /\ x.snap = row[j.target] /\ x.role = j.role
      BY <1>4, <2>2 DEF FindTarget, TypeOK, Change, Present
    <3> HIDE DEF x
    <3> QED BY <1>2, <2>2, <3>1
  <2> QED BY <1>4, <2>1, <2>2 DEF FindTarget
<1>5. ASSUME NEW r \in Req, SaveTarget(r) \/ Fail(r)
      PROVE  AllChecked'
  BY <1>1, <1>2, <1>5 DEF SaveTarget, Fail
<1> QED BY <1>1, <1>3, <1>4, <1>5
        DEF Next, Serve, BeginRegister, BeginCreateUser, BeginBoot, Create, FindEmail,
            SaveUser, Operate, vars

\* Whatever overlaps, the only way to break HierarchyAtSave is a target whose
\* role another save changed in between (changeRole 179-203).
THEOREM OnlyStaleRanksSlip == Spec => HierarchyUnlessStale
<1>1. Init => AllChecked
  BY DEF Init, AllChecked, Checked, Loaded
<1>2. TypeOK /\ AllChecked /\ [Next]_vars => AllChecked'
  BY CheckedStep
<1>3. AllChecked /\ [Next]_vars =>
        \A r \in Req : SaveTarget(r) =>
          LET j == changing[r] IN
          /\ CanManage(j.by.role, j.role)
          /\ (Present(j.target) /\ row[j.target].role = j.snap.role) =>
               CanManage(j.by.role, row[j.target].role)
  BY DEF AllChecked, Checked, Loaded, SaveTarget, Allowed
<1> QED BY <1>1, <1>2, <1>3, DirectoryTypeCorrect, PTL DEF Spec, HierarchyUnlessStale
=============================================================================
