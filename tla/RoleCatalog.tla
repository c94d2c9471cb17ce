------------------------------ MODULE RoleCatalog ------------------------------
(***************************************************************************)
(* The roles in PostgreSQL and the cached list of them in Redis            *)
(* (role.service.ts).  Every process that starts writes the frontend       *)
(* routes and the roles its release defines, each role with its            *)
(* permissions and the routes it grants, and then drops the cached list; a *)
(* process whose start fails is started again.  Meanwhile the processes    *)
(* already up answer GET /auth/roles from the cache or the table.          *)
(*                                                                         *)
(* save() writes what differs between the entity and the row it reads:     *)
(* columns that changed, links to add and links to remove.  A row that     *)
(* exists is read by findOne and again by save(); rows are never deleted,  *)
(* so one read, at any moment between the two, stands for both.  Of a      *)
(* route's columns path is kept, and of a role's the release whose name    *)
(* and level it has.                                                       *)
(***************************************************************************)
EXTENDS Naturals, Sequences, FiniteSets

CONSTANTS
  Instance,    \* API processes
  Release,     \* Instance -> number of the release it runs
  Code,        \* role codes, in the order of DEFAULT_ROLE_DEFINITIONS
  Permission,  \* action:resource pairs
  Route,       \* keys of frontend routes
  Path,        \* their paths
  Menu,        \* release -> keys of its DEFAULT_FRONTEND_ROUTE_DEFINITIONS, in order
  Paths,       \* release -> key -> path
  Needs,       \* release -> role code -> its permissions
  Grants,      \* release -> role code -> its frontendRouteKeys
  Reader,      \* slots for overlapping requests of the list
  CacheTTL,    \* API_CACHE_ROLES_TTL_SECONDS, at least 1
  Left,        \* what the tables may hold at first: left by earlier releases
  None,        \* no row, no cached list
  MaxClock,    \* bound: last second of the modelled window
  MaxFails     \* bound: failed starts and stops

Releases == {Release[i] : i \in Instance}
Codes == {Code[n] : n \in 1..Len(Code)}
KeysOf(v) == {Menu[v][n] : n \in 1..Len(Menu[v])}
\* A row of roles with its rows of role_permissions and role_frontend_routes.
Role == [release : Nat, permissions : SUBSET Permission, frontendRoutes : SUBSET Route]
Catalog == [Codes -> Role \cup {None}]

ASSUME SeedAssumption ==
  /\ Code \in Seq(Codes) \ {<<>>}
  /\ Release \in [Instance -> Nat]
  /\ \A v \in Releases :
       /\ Menu[v] \in Seq(Route) \ {<<>>}
       /\ Paths[v] \in [KeysOf(v) -> Path]
       /\ Needs[v] \in [Codes -> SUBSET Permission]
       /\ Grants[v] \in [Codes -> SUBSET KeysOf(v)]
  /\ CacheTTL \in Nat \ {0} /\ MaxClock \in Nat /\ MaxFails \in Nat
  /\ Left \subseteq [row : Catalog, routes : [Route -> Path \cup {None}],
                    perms : SUBSET Permission]
  /\ None \notin Catalog \cup Role \cup Path

VARIABLES
  clock,  \* seconds
  row,    \* the roles table, with its links
  routes, \* the frontend_routes table: key -> path, or None
  perms,  \* the permissions table
  cache,  \* cache:auth:roles:list, or None
  lapse,  \* second the cached list is dropped
  pc,     \* Instance -> "down", a step of seedDefaults, or "up"
  at,     \* Instance -> index of the route or role being seeded
  mapped, \* Instance -> keys in routeMap
  known,  \* Instance -> permMap
  seen,   \* Instance -> the row of that route or role as it was read, or None
  reads,  \* Reader -> None, or the list read and not yet cached
  asked,  \* Reader -> the request missed the cache
  fails,  \* failed starts and stops so far
  alone   \* history: Instance -> no other process has seeded since it started

tables == <<row, routes, perms>>
cached == <<cache, lapse>>
seeding == <<pc, at, mapped, known, seen>>
reading == <<reads, asked>>
vars == <<clock, row, routes, perms, cache, lapse, pc, at, mapped, known,
          seen, reads, asked, fails, alone>>

Seeding == {"findRoute", "saveRoute", "load", "permission", "find", "save", "invalidate"}
Goto(i, where) == pc' = [pc EXCEPT ![i] = where]

\* What process i's release says of the route and of the role being seeded.
Key(i) == Menu[Release[i]][at[i]]
Wanted(i) == Paths[Release[i]][Key(i)]
Needed(i) == Needs[Release[i]][Code[at[i]]]

\* Variant of Missing: permissions are only seeded into an empty table.
MissingIfEmpty(i) == IF known[i] = {} THEN Needed(i) ELSE {}
\* Permissions of the role being seeded that permMap does not have.
Missing(i) == Needed(i) \ known[i]

\* The role as it is to be saved: the permissions collected from permMap, and
\* the routes it grants as far as routeMap has them.
Definition(i) ==
  [release |-> Release[i],
   permissions |-> Needed(i) \cap known[i],
   frontendRoutes |-> Grants[Release[i]][Code[at[i]]] \cap mapped[i]]

\* What save() makes of a column or a set of links that is now, and was when
\* it was read.
Column(now, was, new) == IF was = new THEN now ELSE new
Links(now, was, new) == (now \ (was \ new)) \cup (new \ was)
\* A link that was added in between cannot be added again.
Clash(now, was, new) == (new \ was) \cap now # {}

----------------------------------------------------------------------------
\* seedDefaults

\* onModuleInit, after an earlier start failed or not.
Start(i) ==
  /\ pc[i] = "down"
  /\ Goto(i, "findRoute")
  /\ at' = [at EXCEPT ![i] = 1]
  /\ mapped' = [mapped EXCEPT ![i] = {}]
  /\ alone' = [j \in Instance |->
       IF j = i THEN \A k \in Instance : pc[k] \notin Seeding ELSE FALSE]
  /\ UNCHANGED <<clock, tables, cached, known, seen, reading, fails>>

\* A unique index rejects the row; the start fails.
Reject(i) == Goto(i, "down") /\ UNCHANGED <<tables, at, mapped, known>>

\* seedFrontendRoutes, one route: look it up by its key.
FindRoute(i) ==
  /\ pc[i] = "findRoute"
  /\ seen' = [seen EXCEPT ![i] = routes[Key(i)]]
  /\ Goto(i, "saveRoute")
  /\ UNCHANGED <<clock, tables, cached, at, mapped, known, reading, fails, alone>>

\* Another key's row has this path.
PathTaken(k, p) == \E l \in Route \ {k} : routes[l] = p

\* Variant of Mapped: only new routes enter the map.
MappedNew(i, k) == IF seen[i] # None THEN mapped[i] ELSE mapped[i] \cup {k}
Mapped(i, k) == mapped[i] \cup {k}

\* ... and insert or update it, under its unique key and its unique path.
SaveRoute(i) ==
  LET k == Key(i)
      unwanted == \/ seen[i] = None /\ routes[k] # None
                  \/ seen[i] # Wanted(i) /\ PathTaken(k, Wanted(i))
  IN
  /\ pc[i] = "saveRoute"
  /\ \/ unwanted /\ Reject(i)
     \/ /\ ~unwanted
        /\ routes' = [routes EXCEPT ![k] = Column(routes[k], seen[i], Wanted(i))]
        /\ mapped' = [mapped EXCEPT ![i] = Mapped(i, k)]
        /\ IF at[i] = Len(Menu[Release[i]])
           THEN Goto(i, "load") /\ UNCHANGED at
           ELSE Goto(i, "findRoute") /\ at' = [at EXCEPT ![i] = @ + 1]
        /\ UNCHANGED <<row, perms, known>>
  /\ UNCHANGED <<clock, cached, seen, reading, fails, alone>>

\* Read every permission in one query.
LoadPermissions(i) ==
  /\ pc[i] = "load"
  /\ known' = [known EXCEPT ![i] = perms]
  /\ at' = [at EXCEPT ![i] = 1]
  /\ Goto(i, "permission")
  /\ UNCHANGED <<clock, tables, cached, mapped, seen, reading, fails, alone>>

\* Save one permission that was not there when they were read.
SavePermission(i) ==
  /\ pc[i] = "permission"
  /\ \/ /\ Missing(i) = {}
        /\ Goto(i, "find")
        /\ UNCHANGED <<tables, at, mapped, known>>
     \/ \E p \in Missing(i) :
          \/ p \in perms /\ Reject(i)
          \/ /\ p \notin perms
             /\ perms' = perms \cup {p}
             /\ known' = [known EXCEPT ![i] = @ \cup {p}]
             /\ UNCHANGED <<row, routes, pc, at, mapped>>
  /\ UNCHANGED <<clock, cached, seen, reading, fails, alone>>

\* Variant of Existing: every role is created.
NeverExisting(c) == None
\* What findByCode finds of the role.
Existing(c) == row[c]

FindRole(i) ==
  /\ pc[i] = "find"
  /\ seen' = [seen EXCEPT ![i] = Existing(Code[at[i]])]
  /\ Goto(i, "save")
  /\ UNCHANGED <<clock, tables, cached, at, mapped, known, reading, fails, alone>>

\* Variant of LastRole: the loop runs past the end.
PastLastRole(i) == at[i] > Len(Code)
LastRole(i) == at[i] = Len(Code)

\* Variant of Written: links are only added to a role that exists.
WrittenAdding(now, was, new) ==
  [release |-> Column(now.release, was.release, new.release),
   permissions |-> now.permissions \cup new.permissions,
   frontendRoutes |-> now.frontendRoutes \cup new.frontendRoutes]
\* The role and its links after save() updates them.
Written(now, was, new) ==
  [release |-> Column(now.release, was.release, new.release),
   permissions |-> Links(now.permissions, was.permissions, new.permissions),
   frontendRoutes |-> Links(now.frontendRoutes, was.frontendRoutes, new.frontendRoutes)]

\* Insert or update the role with its permissions and the routes it grants, in
\* one transaction.
SaveRole(i) ==
  LET c == Code[at[i]]
      was == seen[i]
      new == Definition(i)
      unwanted == IF was = None THEN row[c] # None
                  ELSE \/ Clash(row[c].permissions, was.permissions, new.permissions)
                       \/ Clash(row[c].frontendRoutes, was.frontendRoutes, new.frontendRoutes)
  IN
  /\ pc[i] = "save"
  /\ \/ unwanted /\ Reject(i)
     \/ /\ ~unwanted
        /\ row' = [row EXCEPT ![c] = IF was = None THEN new ELSE Written(row[c], was, new)]
        /\ at' = [at EXCEPT ![i] = IF LastRole(i) THEN @ ELSE @ + 1]
        /\ Goto(i, IF LastRole(i) THEN "invalidate" ELSE "permission")
        /\ UNCHANGED <<routes, perms, mapped, known>>
  /\ UNCHANGED <<clock, cached, seen, reading, fails, alone>>

\* DEL of the cached list; a failure is logged and ignored.
Invalidate(i) ==
  /\ pc[i] = "invalidate"
  /\ cache' \in {None, cache}
  /\ lapse' = IF cache' = None THEN 0 ELSE lapse
  /\ Goto(i, "up")
  /\ UNCHANGED <<clock, tables, at, mapped, known, seen, reading, fails, alone>>

\* A query of the start rejects, or the process stops.
Stop(i) ==
  /\ pc[i] # "down" /\ fails < MaxFails
  /\ fails' = fails + 1
  /\ Goto(i, "down")
  /\ UNCHANGED <<clock, tables, cached, at, mapped, known, seen, reading, alone>>

----------------------------------------------------------------------------
\* findAll

\* GET the cached list: a hit answers; a miss, or a failing Redis, goes on.
ReadCache(r) ==
  /\ ~asked[r] /\ \E i \in Instance : pc[i] = "up"
  /\ asked' = [asked EXCEPT ![r] = TRUE]
  /\ UNCHANGED <<clock, tables, cached, seeding, reads, fails, alone>>

\* The query.
ReadTable(r) ==
  /\ asked[r] /\ reads[r] = None
  /\ reads' = [reads EXCEPT ![r] = row]
  /\ UNCHANGED <<clock, tables, cached, seeding, asked, fails, alone>>

\* Variant of Ttl: the SET goes out without EX.
NoTtl == MaxClock + 1
Ttl == CacheTTL

\* SET the list with its TTL, or fail to; either way the request is answered.
FillCache(r) ==
  /\ asked[r] /\ reads[r] # None
  /\ \/ cache' = reads[r] /\ lapse' = clock + Ttl
     \/ UNCHANGED cached
  /\ reads' = [reads EXCEPT ![r] = None]
  /\ asked' = [asked EXCEPT ![r] = FALSE]
  /\ UNCHANGED <<clock, tables, seeding, fails, alone>>

Tick ==
  /\ clock < MaxClock
  /\ clock' = clock + 1
  /\ IF cache # None /\ lapse <= clock + 1
     THEN cache' = None /\ lapse' = 0
     ELSE UNCHANGED cached
  /\ UNCHANGED <<tables, seeding, reading, fails, alone>>

----------------------------------------------------------------------------
Init ==
  /\ clock = 0
  /\ \E left \in Left : row = left.row /\ routes = left.routes /\ perms = left.perms
  /\ cache = None /\ lapse = 0
  /\ pc = [i \in Instance |-> "down"]
  /\ at = [i \in Instance |-> 1]
  /\ mapped = [i \in Instance |-> {}]
  /\ known = [i \in Instance |-> {}]
  /\ seen = [i \in Instance |-> None]
  /\ reads = [r \in Reader |-> None]
  /\ asked = [r \in Reader |-> FALSE]
  /\ fails = 0
  /\ alone = [i \in Instance |-> FALSE]

Seed(i) == \/ Start(i) \/ FindRoute(i) \/ SaveRoute(i)
           \/ LoadPermissions(i) \/ SavePermission(i) \/ FindRole(i)
           \/ SaveRole(i) \/ Invalidate(i)
Serve(r) == ReadCache(r) \/ ReadTable(r) \/ FillCache(r)

Next == \/ \E i \in Instance : Seed(i) \/ Stop(i)
        \/ \E r \in Reader : Serve(r)
        \/ Tick

Spec == Init /\ [][Next]_vars
\* Queries settle, and the platform starts a stopped process again.
FairSpec == Spec /\ \A i \in Instance : WF_vars(Seed(i))

----------------------------------------------------------------------------
\* Properties

\* The variables hold what they are declared to hold.
TypeOK ==
  /\ clock \in 0..MaxClock /\ lapse \in Nat
  /\ row \in Catalog /\ perms \subseteq Permission
  /\ cache \in Catalog \cup {None}
  /\ routes \in [Route -> Path \cup {None}]
  /\ pc \in [Instance -> Seeding \cup {"down", "up"}]
  /\ at \in [Instance -> Nat]
  /\ \A i \in Instance : at[i] \in (1..Len(Menu[Release[i]])) \cup (1..Len(Code))
  /\ mapped \in [Instance -> SUBSET Route]
  /\ known \in [Instance -> SUBSET Permission]
  /\ seen \in [Instance -> Role \cup Path \cup {None}]
  /\ reads \in [Reader -> Catalog \cup {None}]
  /\ asked \in [Reader -> BOOLEAN]
  /\ fails \in 0..MaxFails
  /\ alone \in [Instance -> BOOLEAN]

\* Every running release v wants wants[v]: links has all they agree on, and
\* nothing that none of them wants.
Between(links, wants) ==
  /\ \A x \in links : \E v \in Releases : x \in wants[v]
  /\ \A v \in Releases : \A x \in wants[v] :
       (\A w \in Releases : x \in wants[w]) => x \in links

\* A process that is up finds every default role, linked to all permissions
\* and routes on which the running releases agree and to none that no running
\* release gives it: exactly to its own if all run one release.  So whatever
\* earlier releases left, and though starts interleave, fail half-way and
\* write back differences from rows that have changed since.
\* (findByCodeOrThrow of register and seedDefaultAdmin rely on it.)
UpMeansSeeded ==
  \A i \in Instance : pc[i] = "up" =>
    \A c \in Codes :
      /\ row[c] # None
      /\ Between(row[c].permissions, [v \in Releases |-> Needs[v][c]])
      /\ Between(row[c].frontendRoutes, [v \in Releases |-> Grants[v][c]])

\* A start that no other overlapped leaves each role with exactly the links
\* its release defines and each route under its path, whatever other releases
\* left there.
SoloSeedWins ==
  \A i \in Instance : (pc[i] = "invalidate" /\ alone[i]) =>
    /\ \A c \in Codes :
         row[c] = [release |-> Release[i], permissions |-> Needs[Release[i]][c],
                   frontendRoutes |-> Grants[Release[i]][c]]
    /\ \A k \in KeysOf(Release[i]) : routes[k] = Paths[Release[i]][k]

\* A list that is out of date is dropped one TTL after it was cached at the
\* latest, though its DEL failed or came before the SET.
ListsLapse == cache # None => clock < lapse /\ lapse <= clock + CacheTTL

\* Process i is not up, and a path its release wants is another key's.
Blocked(i) ==
  /\ pc[i] # "up"
  /\ \E k \in KeysOf(Release[i]) : PathTaken(k, Paths[Release[i]][k])

\* Processes that start together and trip over each other's rows all come up;
\* only one whose release wants a path that another release has given to
\* another key may fail for ever (frontend-route.entity.ts 12).
AllComeUp == \A i \in Instance : <>(pc[i] = "up") \/ <>[]Blocked(i)

=============================================================================
