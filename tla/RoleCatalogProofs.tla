--------------------------- MODULE RoleCatalogProofs ---------------------------
(***************************************************************************)
(* Theorems about RoleCatalog, for any number of processes, releases,      *)
(* roles, routes and permissions.  A start only trusts what it has seen:   *)
(* permMap and routeMap come to hold all that its release links, a role    *)
(* once written keeps what the running releases agree on, and what has     *)
(* changed since a role was read was changed by one of them.               *)
(***************************************************************************)
EXTENDS RoleCatalog, TLAPS

RoutePhase == {"findRoute", "saveRoute"}
RolePhase == {"permission", "find", "save"}
MenuLen(i) == Len(Menu[Release[i]])

\* The index is one of the list being walked, and what was read is a row of
\* the table being seeded.
IndexFits ==
  \A i \in Instance :
    /\ pc[i] \in RoutePhase => at[i] \in 1..MenuLen(i)
    /\ pc[i] \in RolePhase => at[i] \in 1..Len(Code)
    /\ pc[i] = "saveRoute" => seen[i] \in Path \cup {None}
    /\ pc[i] = "save" => seen[i] \in Role \cup {None}

Typed == TypeOK /\ IndexFits

NeedsOf(c) == [v \in Releases |-> Needs[v][c]]
GrantsOf(c) == [v \in Releases |-> Grants[v][c]]

\* The role of code c is in the table as UpMeansSeeded wants it.
Done(c) ==
  /\ row[c] # None
  /\ Between(row[c].permissions, NeedsOf(c))
  /\ Between(row[c].frontendRoutes, GrantsOf(c))

\* routeMap holds the routes behind the index, then all of the release.
Mapping ==
  \A i \in Instance :
    /\ pc[i] \in RoutePhase => \A n \in 1..(at[i] - 1) : Menu[Release[i]][n] \in mapped[i]
    /\ pc[i] \in {"load"} \cup RolePhase => KeysOf(Release[i]) \subseteq mapped[i]

\* permMap holds the permissions of the role about to be saved.
Knowing ==
  \A i \in Instance : pc[i] \in {"find", "save"} => Needed(i) \subseteq known[i]

\* Links that were was and are now: running releases added what is new, and
\* none took away what they agree on.
Since(now, was, wants) ==
  /\ \A x \in now : x \in was \/ \E v \in Releases : x \in wants[v]
  /\ \A x \in was : (\A v \in Releases : x \in wants[v]) => x \in now

\* A role that was read is still there, changed by running releases at most.
Snapshot ==
  \A i \in Instance : (pc[i] = "save" /\ seen[i] # None) =>
    LET c == Code[at[i]] IN
    /\ row[c] # None
    /\ Since(row[c].permissions, seen[i].permissions, NeedsOf(c))
    /\ Since(row[c].frontendRoutes, seen[i].frontendRoutes, GrantsOf(c))

\* The roles behind the index are done, then all of them.
Progress ==
  \A i \in Instance :
    /\ pc[i] \in RolePhase => \A n \in 1..(at[i] - 1) : Done(Code[n])
    /\ pc[i] \in {"invalidate", "up"} => \A c \in Codes : Done(c)

\* A role and a route as process i's release defines them.
Mine(i, c) == [release |-> Release[i], permissions |-> Needs[Release[i]][c],
               frontendRoutes |-> Grants[Release[i]][c]]
RowMine(i, c) == row[c] = Mine(i, c)
RouteMine(i, k) == routes[k] = Paths[Release[i]][k]

\* No other process seeds beside one that is alone, what it has read still
\* stands, and what it has written so far is as it wrote it.
Solitude ==
  \A i \in Instance : (alone[i] /\ pc[i] \in Seeding) =>
    /\ \A j \in Instance \ {i} : pc[j] \notin Seeding
    /\ pc[i] = "saveRoute" => seen[i] = routes[Key(i)]
    /\ pc[i] = "save" => seen[i] = row[Code[at[i]]]
    /\ pc[i] \in RoutePhase => \A n \in 1..(at[i] - 1) : RouteMine(i, Menu[Release[i]][n])
    /\ pc[i] \notin RoutePhase => \A k \in KeysOf(Release[i]) : RouteMine(i, k)
    /\ pc[i] \in RolePhase => \A n \in 1..(at[i] - 1) : RowMine(i, Code[n])
    /\ pc[i] = "invalidate" => \A c \in Codes : RowMine(i, c)

Rest == Mapping /\ Knowing /\ Snapshot /\ Progress /\ Solitude /\ ListsLapse
Inv == Typed /\ Rest

----------------------------------------------------------------------------
(* Links: what save() does to them *)

\* All a release wants is between what all want and what any wants.
LEMMA OwnBetween ==
  ASSUME NEW wants, NEW v \in Releases
  PROVE  Between(wants[v], wants)
BY DEF Between

\* To add what one release wants and remove what it does not leaves links
\* between, whatever they were when they were read.
LEMMA LinksBetween ==
  ASSUME NEW wants, NEW v \in Releases, NEW now, NEW was, Between(now, wants)
  PROVE  Between(Links(now, was, wants[v]), wants)
BY DEF Between, Links

\* ... and brings them there if only running releases changed them since.
LEMMA LinksReach ==
  ASSUME NEW wants, NEW v \in Releases, NEW now, NEW was, Since(now, was, wants)
  PROVE  Between(Links(now, was, wants[v]), wants)
BY DEF Between, Links, Since

\* ... and is such a change itself for whoever read them earlier.
LEMMA LinksSince ==
  ASSUME NEW wants, NEW v \in Releases, NEW now, NEW was, NEW was2, Since(now, was, wants)
  PROVE  Since(Links(now, was2, wants[v]), was, wants)
BY DEF Links, Since

LEMMA SinceSelf ==
  ASSUME NEW wants, NEW now
  PROVE  Since(now, now, wants)
BY DEF Since

\* If nothing changed since, the links become just what the release wants.
LEMMA LinksUndisturbed ==
  ASSUME NEW was, NEW new
  PROVE  Links(was, was, new) = new
BY DEF Links

----------------------------------------------------------------------------
(* Types *)

LEMMA ListsIndexed ==
  /\ Len(Code) \in Nat /\ Len(Code) >= 1
  /\ \A n \in 1..Len(Code) : Code[n] \in Codes
  /\ \A i \in Instance :
       /\ Release[i] \in Releases
       /\ MenuLen(i) \in Nat /\ MenuLen(i) >= 1
       /\ \A n \in 1..MenuLen(i) : Menu[Release[i]][n] \in KeysOf(Release[i])
       /\ KeysOf(Release[i]) \subseteq Route
<1>1. Len(Code) \in Nat /\ Len(Code) >= 1
  BY SeedAssumption
<1>2. \A n \in 1..Len(Code) : Code[n] \in Codes
  BY DEF Codes
<1>3. ASSUME NEW i \in Instance
      PROVE  /\ Release[i] \in Releases
             /\ MenuLen(i) \in Nat /\ MenuLen(i) >= 1
             /\ \A n \in 1..MenuLen(i) : Menu[Release[i]][n] \in KeysOf(Release[i])
             /\ KeysOf(Release[i]) \subseteq Route
  <2>1. Release[i] \in Releases
    BY DEF Releases
  <2>2. Menu[Release[i]] \in Seq(Route) /\ Menu[Release[i]] # <<>>
    BY <2>1, SeedAssumption
  <2>3. MenuLen(i) \in Nat /\ MenuLen(i) >= 1
    BY <2>2 DEF MenuLen
  <2>4. \A n \in 1..MenuLen(i) : Menu[Release[i]][n] \in Route
    BY <2>2 DEF MenuLen
  <2> QED BY <2>1, <2>3, <2>4 DEF KeysOf, MenuLen
<1> QED BY <1>1, <1>2, <1>3

LEMMA LeftTyped ==
  ASSUME NEW left \in Left
  PROVE  /\ left.row \in Catalog /\ left.perms \subseteq Permission
         /\ left.routes \in [Route -> Path \cup {None}]
BY SeedAssumption

LEMMA InitTyped == Init => Typed
<1> SUFFICES ASSUME Init PROVE Typed
  OBVIOUS
<1>1. row \in Catalog /\ routes \in [Route -> Path \cup {None}] /\ perms \subseteq Permission
  BY LeftTyped DEF Init
<1>2. \A i \in Instance : at[i] \in (1..MenuLen(i)) \cup (1..Len(Code))
  BY ListsIndexed DEF Init
<1> QED
  BY <1>1, <1>2, SeedAssumption DEF Init, Typed, TypeOK, IndexFits, MenuLen, RoutePhase, RolePhase

\* The definitions of a running release.
LEMMA Definitions ==
  ASSUME NEW i \in Instance
  PROVE  /\ Release[i] \in Nat
         /\ \A k \in KeysOf(Release[i]) : Paths[Release[i]][k] \in Path
         /\ \A c \in Codes : /\ Needs[Release[i]][c] \subseteq Permission
                             /\ Grants[Release[i]][c] \subseteq KeysOf(Release[i])
                             /\ Mine(i, c) \in Role
<1>1. Release[i] \in Releases /\ Release[i] \in Nat /\ KeysOf(Release[i]) \subseteq Route
  BY ListsIndexed, SeedAssumption
<1>2. /\ Paths[Release[i]] \in [KeysOf(Release[i]) -> Path]
      /\ Needs[Release[i]] \in [Codes -> SUBSET Permission]
      /\ Grants[Release[i]] \in [Codes -> SUBSET KeysOf(Release[i])]
  BY <1>1, SeedAssumption
<1>3. ASSUME NEW c \in Codes
      PROVE  /\ Needs[Release[i]][c] \subseteq Permission
             /\ Grants[Release[i]][c] \subseteq KeysOf(Release[i])
  BY <1>2
<1> QED
  BY <1>1, <1>2, <1>3 DEF Mine, Role

\* An index that fits names a route of the release, or a role.
LEMMA Named ==
  ASSUME Typed, NEW i \in Instance
  PROVE  /\ pc[i] \in RoutePhase => /\ at[i] \in 1..MenuLen(i)
                                    /\ Key(i) \in KeysOf(Release[i])
                                    /\ Key(i) \in Route /\ Wanted(i) \in Path
         /\ pc[i] \in RolePhase => at[i] \in 1..Len(Code) /\ Code[at[i]] \in Codes
<1>1. CASE pc[i] \in RoutePhase
  <2>1. at[i] \in 1..MenuLen(i) /\ pc[i] \notin RolePhase
    BY <1>1 DEF Typed, IndexFits, RoutePhase, RolePhase
  <2>2. Key(i) \in KeysOf(Release[i]) /\ Key(i) \in Route
    BY <2>1, ListsIndexed DEF Key
  <2> QED BY <2>1, <2>2, Definitions DEF Wanted
<1>2. CASE pc[i] \in RolePhase
  <2>1. at[i] \in 1..Len(Code) /\ pc[i] \notin RoutePhase
    BY <1>2 DEF Typed, IndexFits, RoutePhase, RolePhase
  <2> QED BY <2>1, ListsIndexed
<1> QED BY <1>1, <1>2

\* Type correctness of a step of i that leaves all the other processes' lists
\* and positions as they are.
LEMMA StepTyped ==
  ASSUME Typed, NEW i \in Instance,
         NEW where \in Seeding \cup {"down", "up"},
         pc' = [pc EXCEPT ![i] = where],
         NEW n \in Nat, at' = [at EXCEPT ![i] = n],
         n \in (1..MenuLen(i)) \cup (1..Len(Code)),
         NEW x \in Role \cup Path \cup {None}, seen' = [seen EXCEPT ![i] = x],
         where \in RoutePhase => n \in 1..MenuLen(i),
         where \in RolePhase => n \in 1..Len(Code),
         where = "saveRoute" => x \in Path \cup {None},
         where = "save" => x \in Role \cup {None},
         row' \in Catalog, routes' \in [Route -> Path \cup {None}],
         perms' \subseteq Permission,
         mapped' \in [Instance -> SUBSET Route],
         known' \in [Instance -> SUBSET Permission],
         alone' \in [Instance -> BOOLEAN],
         cache' \in Catalog \cup {None}, lapse' \in Nat,
         fails' \in 0..MaxFails,
         UNCHANGED <<clock, reading>>
  PROVE  Typed'
<1>1. /\ pc' \in [Instance -> Seeding \cup {"down", "up"}]
      /\ at' \in [Instance -> Nat]
      /\ seen' \in [Instance -> Role \cup Path \cup {None}]
  BY DEF Typed, TypeOK
<1>2. \A j \in Instance : at'[j] \in (1..Len(Menu[Release[j]])) \cup (1..Len(Code))
  BY DEF Typed, TypeOK, MenuLen
<1>3. TypeOK'
  BY <1>1, <1>2 DEF Typed, TypeOK, reading
<1>4. ASSUME NEW j \in Instance
      PROVE  /\ pc'[j] \in RoutePhase => at'[j] \in 1..MenuLen(j)
             /\ pc'[j] \in RolePhase => at'[j] \in 1..Len(Code)
             /\ pc'[j] = "saveRoute" => seen'[j] \in Path \cup {None}
             /\ pc'[j] = "save" => seen'[j] \in Role \cup {None}
  BY DEF Typed, TypeOK, IndexFits
<1> QED BY <1>3, <1>4 DEF Typed, IndexFits

\* All that a step of i may find and leave as it is.
LEMMA Before ==
  ASSUME Typed, NEW i \in Instance
  PROVE  /\ pc = [pc EXCEPT ![i] = pc[i]] /\ at = [at EXCEPT ![i] = at[i]]
         /\ seen = [seen EXCEPT ![i] = seen[i]]
         /\ pc[i] \in Seeding \cup {"down", "up"} /\ at[i] \in Nat
         /\ at[i] \in (1..MenuLen(i)) \cup (1..Len(Code))
         /\ seen[i] \in Role \cup Path \cup {None}
         /\ row \in Catalog /\ routes \in [Route -> Path \cup {None}]
         /\ perms \subseteq Permission /\ mapped \in [Instance -> SUBSET Route]
         /\ known \in [Instance -> SUBSET Permission] /\ alone \in [Instance -> BOOLEAN]
         /\ cache \in Catalog \cup {None} /\ lapse \in Nat /\ fails \in 0..MaxFails
         /\ 1 \in 1..MenuLen(i) /\ 1 \in 1..Len(Code)
BY ListsIndexed DEF Typed, TypeOK, MenuLen

LEMMA RejectTyped ==
  ASSUME Typed, NEW i \in Instance, Reject(i),
         UNCHANGED <<clock, cached, seen, reading, fails, alone>>
  PROVE  Typed'
<1>1. pc' = [pc EXCEPT ![i] = "down"]
  BY DEF Reject, Goto
<1>2. "down" \in Seeding \cup {"down", "up"} /\ "down" \notin RoutePhase \cup RolePhase
  BY DEF Seeding, RoutePhase, RolePhase
<1>3. /\ at' = [at EXCEPT ![i] = at[i]] /\ seen' = [seen EXCEPT ![i] = seen[i]]
      /\ UNCHANGED <<row, routes, perms, mapped, known, cache, lapse>>
  BY Before DEF Reject, tables, cached
<1>4. /\ at[i] \in Nat /\ at[i] \in (1..MenuLen(i)) \cup (1..Len(Code))
      /\ seen[i] \in Role \cup Path \cup {None}
      /\ row' \in Catalog /\ routes' \in [Route -> Path \cup {None}]
      /\ perms' \subseteq Permission /\ mapped' \in [Instance -> SUBSET Route]
      /\ known' \in [Instance -> SUBSET Permission] /\ alone' \in [Instance -> BOOLEAN]
      /\ cache' \in Catalog \cup {None} /\ lapse' \in Nat /\ fails' \in 0..MaxFails
  BY <1>3, Before
<1> QED BY <1>1, <1>2, <1>3, <1>4, StepTyped

\* The role a process saves: itself if nothing changed since it was read, and
\* in any case with links between, whatever it was before.
LEMMA Saved ==
  ASSUME Inv, NEW i \in Instance, SaveRole(i), ~Reject(i)
  PROVE  LET c == Code[at[i]] IN
         /\ pc[i] = "save" /\ at[i] \in 1..Len(Code) /\ c \in Codes
         /\ \E r \in Role :
              /\ row' = [row EXCEPT ![c] = r]
              /\ Between(r.permissions, NeedsOf(c))
              /\ Between(r.frontendRoutes, GrantsOf(c))
              /\ row[c] # None => \A was :
                   /\ Since(row[c].permissions, was, NeedsOf(c))
                        => Since(r.permissions, was, NeedsOf(c))
                   /\ Since(row[c].frontendRoutes, was, GrantsOf(c))
                        => Since(r.frontendRoutes, was, GrantsOf(c))
              /\ seen[i] = row[c] => r = Mine(i, c)
         /\ UNCHANGED <<clock, cached, routes, perms, mapped, known, seen, reading,
                        fails, alone>>
         /\ \/ /\ at[i] = Len(Code) /\ at' = at
               /\ pc' = [pc EXCEPT ![i] = "invalidate"]
            \/ /\ at[i] # Len(Code) /\ at' = [at EXCEPT ![i] = @ + 1]
               /\ pc' = [pc EXCEPT ![i] = "permission"]
<1> DEFINE c == Code[at[i]]
           was == seen[i]
           new == Mine(i, c)
           v == Release[i]
<1>1. pc[i] = "save" /\ pc[i] \in RolePhase /\ at[i] \in 1..Len(Code) /\ c \in Codes
  BY Named DEF SaveRole, Inv, RolePhase
<1>2. v \in Releases /\ new \in Role
  BY <1>1, ListsIndexed, Definitions
<1>3. Definition(i) = new
  <2>1. Needed(i) \cap known[i] = Needs[v][c]
    BY <1>1 DEF Inv, Rest, Knowing, Needed
  <2>2. Grants[v][c] \cap mapped[i] = Grants[v][c]
    <3>1. KeysOf(v) \subseteq mapped[i]
      BY <1>1 DEF Inv, Rest, Mapping
    <3> QED BY <1>1, <3>1, Definitions
  <2> QED BY <2>1, <2>2 DEF Definition, Mine
<1>4. /\ new.permissions = NeedsOf(c)[v] /\ new.frontendRoutes = GrantsOf(c)[v]
      /\ new.release = v
  BY <1>2 DEF Mine, NeedsOf, GrantsOf
<1>5. was \in Role \cup {None} /\ row[c] \in Role \cup {None} /\ None \notin Role
  BY <1>1, SeedAssumption DEF Inv, Typed, TypeOK, IndexFits, Catalog
<1>6. /\ UNCHANGED <<clock, cached, routes, perms, mapped, known, seen, reading, fails, alone>>
      /\ \/ /\ at[i] = Len(Code) /\ at' = at
            /\ pc' = [pc EXCEPT ![i] = "invalidate"]
         \/ /\ at[i] # Len(Code) /\ at' = [at EXCEPT ![i] = @ + 1]
            /\ pc' = [pc EXCEPT ![i] = "permission"]
  BY Before DEF SaveRole, LastRole, Goto, Inv
<1>7. CASE was = None
  <2>1. row[c] = None /\ row' = [row EXCEPT ![c] = new]
    BY <1>3, <1>7 DEF SaveRole
  <2>2. Between(new.permissions, NeedsOf(c)) /\ Between(new.frontendRoutes, GrantsOf(c))
    BY <1>2, <1>4, OwnBetween
  <2> HIDE DEF c, new, was, v
  <2> QED BY <1>1, <1>2, <1>6, <2>1, <2>2 DEF c, new, was
<1>8. CASE was # None
  <2> DEFINE r == Written(row[c], was, new)
  <2>1. row[c] # None /\ row[c] \in Role /\ was \in Role
    BY <1>1, <1>5, <1>8 DEF Inv, Rest, Snapshot
  <2>2. row' = [row EXCEPT ![c] = r]
    BY <1>3, <1>8 DEF SaveRole
  <2>3. /\ r.release = Column(row[c].release, was.release, v)
        /\ r.permissions = Links(row[c].permissions, was.permissions, NeedsOf(c)[v])
        /\ r.frontendRoutes = Links(row[c].frontendRoutes, was.frontendRoutes, GrantsOf(c)[v])
    BY <1>4 DEF Written
  <2>4. r \in Role
    <3>1. r.release \in Nat /\ r.permissions \subseteq Permission
          /\ r.frontendRoutes \subseteq Route
      BY <1>2, <1>4, <2>1, <2>3 DEF Role, Column, Links
    <3> QED BY <3>1 DEF Written, Role
  <2>5. /\ Since(row[c].permissions, was.permissions, NeedsOf(c))
        /\ Since(row[c].frontendRoutes, was.frontendRoutes, GrantsOf(c))
    BY <1>1, <1>8 DEF Inv, Rest, Snapshot
  <2>6. Between(r.permissions, NeedsOf(c)) /\ Between(r.frontendRoutes, GrantsOf(c))
    BY <1>2, <2>3, <2>5, LinksReach
  <2>7. ASSUME NEW old
        PROVE  /\ Since(row[c].permissions, old, NeedsOf(c))
                    => Since(r.permissions, old, NeedsOf(c))
               /\ Since(row[c].frontendRoutes, old, GrantsOf(c))
                    => Since(r.frontendRoutes, old, GrantsOf(c))
    BY <1>2, <2>3, LinksSince
  <2>8. was = row[c] => r = new
    <3> SUFFICES ASSUME was = row[c] PROVE r = new
      OBVIOUS
    <3>1. /\ r.release = new.release /\ r.permissions = new.permissions
          /\ r.frontendRoutes = new.frontendRoutes
      BY <1>4, <2>3, LinksUndisturbed DEF Column
    <3> QED BY <1>2, <2>4, <3>1 DEF Role
  <2> HIDE DEF c, new, was, v, r
  <2> QED BY <1>1, <1>6, <2>2, <2>4, <2>6, <2>7, <2>8 DEF c, new, was
<1> QED BY <1>7, <1>8

----------------------------------------------------------------------------
(* Every step keeps the types *)

LEMMA SeedTyped ==
  ASSUME Inv, NEW i \in Instance, Seed(i)
  PROVE  Typed'
<1> DEFINE Same == /\ row' \in Catalog /\ routes' \in [Route -> Path \cup {None}]
                   /\ perms' \subseteq Permission /\ mapped' \in [Instance -> SUBSET Route]
                   /\ known' \in [Instance -> SUBSET Permission]
                   /\ alone' \in [Instance -> BOOLEAN]
                   /\ cache' \in Catalog \cup {None} /\ lapse' \in Nat
                   /\ fails' \in 0..MaxFails
<1> USE DEF Goto
<1>0. Typed
  BY DEF Inv
<1>1. CASE Start(i)
  <2>1. Same /\ UNCHANGED <<clock, reading>>
    BY <1>0, <1>1, Before DEF Start, tables, cached
  <2>2. /\ pc' = [pc EXCEPT ![i] = "findRoute"] /\ at' = [at EXCEPT ![i] = 1]
        /\ seen' = [seen EXCEPT ![i] = seen[i]]
        /\ seen[i] \in Role \cup Path \cup {None}
    BY <1>0, <1>1, Before DEF Start
  <2>3. /\ "findRoute" \in Seeding \cup {"down", "up"} /\ "findRoute" \notin RolePhase
        /\ 1 \in Nat /\ 1 \in 1..MenuLen(i)
    BY <1>0, Before DEF Seeding, RolePhase
  <2> HIDE DEF Same
  <2> QED BY <1>0, <2>1, <2>2, <2>3, StepTyped DEF Same
<1>2. CASE FindRoute(i)
  <2> DEFINE x == routes[Key(i)]
  <2>1. Same /\ UNCHANGED <<clock, reading>>
    BY <1>0, <1>2, Before DEF FindRoute, tables, cached
  <2>2. pc[i] \in RoutePhase
    BY <1>2 DEF FindRoute, RoutePhase
  <2>3. /\ pc' = [pc EXCEPT ![i] = "saveRoute"] /\ at' = [at EXCEPT ![i] = at[i]]
        /\ seen' = [seen EXCEPT ![i] = x]
        /\ at[i] \in Nat /\ at[i] \in 1..MenuLen(i)
    BY <1>0, <1>2, <2>2, Before, Named DEF FindRoute
  <2>4. x \in Path \cup {None}
    BY <1>0, <2>2, Named, Before
  <2>5. "saveRoute" \in Seeding \cup {"down", "up"} /\ "saveRoute" \notin RolePhase
    BY DEF Seeding, RolePhase
  <2> HIDE DEF Same, x
  <2> QED BY <1>0, <2>1, <2>3, <2>4, <2>5, StepTyped DEF Same
<1>3. CASE SaveRoute(i) /\ ~Reject(i)
  <2> DEFINE k == Key(i)
  <2>1. /\ pc[i] \in RoutePhase /\ pc[i] = "saveRoute" /\ seen[i] \in Path \cup {None}
        /\ k \in KeysOf(Release[i]) /\ k \in Route /\ Wanted(i) \in Path
        /\ at[i] \in 1..MenuLen(i)
    BY <1>0, <1>3, Named DEF SaveRoute, RoutePhase, Typed, IndexFits
  <2>2. /\ routes' = [routes EXCEPT ![k] = Column(routes[k], seen[i], Wanted(i))]
        /\ mapped' = [mapped EXCEPT ![i] = @ \cup {k}]
        /\ UNCHANGED <<row, perms, known, clock, cached, seen, reading, fails, alone>>
    BY <1>3, <1>0, Before DEF SaveRoute, Mapped
  <2>3. PICK where \in {"load", "findRoute"}, n \in 1..MenuLen(i) :
          pc' = [pc EXCEPT ![i] = where] /\ at' = [at EXCEPT ![i] = n]
    <3>1. CASE at[i] = MenuLen(i)
      BY <1>0, <1>3, <2>1, <3>1, Before DEF SaveRoute, MenuLen
    <3>2. CASE at[i] # MenuLen(i)
      <4>1. /\ at[i] + 1 \in 1..MenuLen(i)
            /\ pc' = [pc EXCEPT ![i] = "findRoute"] /\ at' = [at EXCEPT ![i] = at[i] + 1]
        BY <1>3, <2>1, <3>2, ListsIndexed DEF SaveRoute, MenuLen
      <4> QED BY <4>1
    <3> QED BY <3>1, <3>2
  <2>4. Column(routes[k], seen[i], Wanted(i)) \in Path \cup {None}
    BY <1>0, <2>1, Before DEF Column
  <2> HIDE DEF k
  <2>5. Same
    BY <1>0, <2>1, <2>2, <2>4, Before DEF cached
  <2>6. /\ where \in Seeding \cup {"down", "up"} /\ where \notin RolePhase
        /\ n \in Nat /\ seen' = [seen EXCEPT ![i] = seen[i]]
        /\ seen[i] \in Role \cup Path \cup {None} /\ where # "saveRoute"  /\ where # "save"
    BY <1>0, <2>2, Before DEF Seeding, RolePhase
  <2> HIDE DEF Same
  <2> QED BY <1>0, <2>2, <2>3, <2>5, <2>6, StepTyped DEF Same
<1>4. CASE LoadPermissions(i)
  <2>1. Same /\ UNCHANGED <<clock, reading>>
    BY <1>0, <1>4, Before DEF LoadPermissions, tables, cached
  <2>2. /\ pc' = [pc EXCEPT ![i] = "permission"] /\ at' = [at EXCEPT ![i] = 1]
        /\ seen' = [seen EXCEPT ![i] = seen[i]]
        /\ seen[i] \in Role \cup Path \cup {None}
    BY <1>0, <1>4, Before DEF LoadPermissions
  <2>3. /\ "permission" \in Seeding \cup {"down", "up"} /\ "permission" \notin RoutePhase
        /\ 1 \in Nat /\ 1 \in 1..Len(Code)
    BY <1>0, Before DEF Seeding, RoutePhase
  <2> HIDE DEF Same
  <2> QED BY <1>0, <2>1, <2>2, <2>3, StepTyped DEF Same
<1>5. CASE SavePermission(i) /\ ~Reject(i)
  <2>1. /\ pc[i] \in RolePhase /\ at[i] \in 1..Len(Code) /\ Code[at[i]] \in Codes
        /\ pc[i] = "permission"
    BY <1>0, <1>5, Named DEF SavePermission, RolePhase
  <2>2. Missing(i) \subseteq Permission
    BY <2>1, Definitions DEF Missing, Needed
  <2>3. /\ perms' \subseteq Permission /\ known' \in [Instance -> SUBSET Permission]
        /\ UNCHANGED <<row, routes, at, mapped, clock, cached, seen, reading, fails, alone>>
        /\ pc' = [pc EXCEPT ![i] = "find"] \/ pc' = pc
    <3>1. CASE Missing(i) = {}
      BY <1>0, <1>5, <3>1, Before DEF SavePermission, tables
    <3>2. CASE Missing(i) # {}
      <4>1. PICK p \in Missing(i) :
              /\ perms' = perms \cup {p} /\ known' = [known EXCEPT ![i] = @ \cup {p}]
              /\ UNCHANGED <<row, routes, pc, at, mapped>>
        BY <1>5, <3>2 DEF SavePermission
      <4> QED BY <1>0, <1>5, <2>2, <4>1, Before DEF SavePermission
    <3> QED BY <3>1, <3>2
  <2>4. PICK where \in {"find", "permission"} : pc' = [pc EXCEPT ![i] = where]
    BY <1>0, <2>1, <2>3, Before
  <2>5. Same /\ at' = [at EXCEPT ![i] = at[i]] /\ seen' = [seen EXCEPT ![i] = seen[i]]
        /\ seen[i] \in Role \cup Path \cup {None} /\ at[i] \in Nat
    BY <1>0, <2>3, Before DEF cached
  <2>6. /\ where \in Seeding \cup {"down", "up"} /\ where \notin RoutePhase
        /\ where # "saveRoute" /\ where # "save"
    BY DEF Seeding, RoutePhase
  <2> HIDE DEF Same
  <2> QED BY <1>0, <2>1, <2>3, <2>4, <2>5, <2>6, StepTyped DEF Same
<1>6. CASE FindRole(i)
  <2> DEFINE x == row[Code[at[i]]]
  <2>1. Same /\ UNCHANGED <<clock, reading>>
    BY <1>0, <1>6, Before DEF FindRole, tables, cached
  <2>2. /\ pc[i] \in RolePhase /\ at[i] \in 1..Len(Code) /\ Code[at[i]] \in Codes
    BY <1>0, <1>6, Named DEF FindRole, RolePhase
  <2>3. /\ pc' = [pc EXCEPT ![i] = "save"] /\ at' = [at EXCEPT ![i] = at[i]]
        /\ seen' = [seen EXCEPT ![i] = x] /\ at[i] \in Nat
    BY <1>0, <1>6, Before DEF FindRole, Existing
  <2>4. x \in Role \cup {None}
    BY <1>0, <2>2, Before DEF Catalog
  <2>5. "save" \in Seeding \cup {"down", "up"} /\ "save" \notin RoutePhase
    BY DEF Seeding, RoutePhase
  <2> HIDE DEF Same, x
  <2> QED BY <1>0, <2>1, <2>2, <2>3, <2>4, <2>5, StepTyped DEF Same
<1>7. CASE SaveRole(i) /\ ~Reject(i)
  <2> DEFINE c == Code[at[i]]
  <2>1. /\ at[i] \in 1..Len(Code) /\ c \in Codes
        /\ \E r \in Role : row' = [row EXCEPT ![c] = r]
        /\ UNCHANGED <<clock, cached, routes, perms, mapped, known, seen, reading, fails, alone>>
        /\ \/ /\ at[i] = Len(Code) /\ at' = at
              /\ pc' = [pc EXCEPT ![i] = "invalidate"]
           \/ /\ at[i] # Len(Code) /\ at' = [at EXCEPT ![i] = @ + 1]
              /\ pc' = [pc EXCEPT ![i] = "permission"]
    BY <1>7, Saved
  <2>2. PICK where \in {"invalidate", "permission"}, n \in 1..Len(Code) :
          pc' = [pc EXCEPT ![i] = where] /\ at' = [at EXCEPT ![i] = n]
    <3>1. CASE at' = at /\ pc' = [pc EXCEPT ![i] = "invalidate"]
      BY <1>0, <2>1, <3>1, Before
    <3>2. CASE at[i] # Len(Code)
      <4>1. at[i] + 1 \in 1..Len(Code)
        BY <2>1, <3>2, ListsIndexed
      <4> QED BY <2>1, <3>2, <4>1
    <3> QED BY <2>1, <3>1, <3>2
  <2> HIDE DEF c
  <2>3. row' \in Catalog
    BY <1>0, <2>1, Before DEF Catalog
  <2>4. Same /\ seen' = [seen EXCEPT ![i] = seen[i]]
        /\ seen[i] \in Role \cup Path \cup {None}
    BY <1>0, <2>1, <2>3, Before DEF cached
  <2>5. /\ where \in Seeding \cup {"down", "up"} /\ where \notin RoutePhase
        /\ where # "saveRoute" /\ where # "save" /\ n \in Nat
    BY DEF Seeding, RoutePhase
  <2> HIDE DEF Same
  <2> QED BY <1>0, <2>1, <2>2, <2>4, <2>5, StepTyped DEF Same
<1>8. CASE Invalidate(i)
  <2>1. Same /\ UNCHANGED <<clock, reading>>
    BY <1>0, <1>8, Before DEF Invalidate, tables
  <2>2. /\ pc' = [pc EXCEPT ![i] = "up"] /\ at' = [at EXCEPT ![i] = at[i]]
        /\ seen' = [seen EXCEPT ![i] = seen[i]] /\ at[i] \in Nat
        /\ at[i] \in (1..MenuLen(i)) \cup (1..Len(Code))
        /\ seen[i] \in Role \cup Path \cup {None}
    BY <1>0, <1>8, Before DEF Invalidate
  <2>3. "up" \in Seeding \cup {"down", "up"} /\ "up" \notin RoutePhase \cup RolePhase
    BY DEF RoutePhase, RolePhase
  <2> HIDE DEF Same
  <2> QED BY <1>0, <2>1, <2>2, <2>3, StepTyped DEF Same
<1>9. CASE (SaveRoute(i) \/ SavePermission(i) \/ SaveRole(i)) /\ Reject(i)
  BY <1>0, <1>9, RejectTyped DEF SaveRoute, SavePermission, SaveRole
<1> QED BY <1>1, <1>2, <1>3, <1>4, <1>5, <1>6, <1>7, <1>8, <1>9 DEF Seed

LEMMA ServeTyped ==
  ASSUME Typed, NEW r \in Reader, Serve(r)
  PROVE  Typed'
<1> USE DEF Typed, TypeOK, IndexFits, MenuLen, tables, cached, seeding
<1>1. CASE ReadCache(r)
  BY <1>1 DEF ReadCache
<1>2. CASE ReadTable(r)
  BY <1>2 DEF ReadTable
<1>3. CASE FillCache(r)
  <2>1. reads[r] \in Catalog
    BY <1>3 DEF FillCache
  <2>2. clock + CacheTTL \in Nat
    BY SeedAssumption
  <2> QED BY <1>3, <2>1, <2>2 DEF FillCache, Ttl
<1> QED BY <1>1, <1>2, <1>3 DEF Serve

LEMMA OthersTyped ==
  ASSUME Typed, \/ \E i \in Instance : Stop(i)
                \/ Tick
                \/ UNCHANGED vars
  PROVE  Typed'
<1> USE DEF Typed, TypeOK, IndexFits, MenuLen, RoutePhase, RolePhase, tables, cached,
            seeding, reading
<1>1. ASSUME NEW i \in Instance, Stop(i) PROVE Typed'
  <2>1. fails' \in 0..MaxFails
    BY <1>1, SeedAssumption DEF Stop
  <2> QED BY <1>1, <2>1 DEF Stop, Goto
<1>2. CASE Tick
  <2>1. clock' \in 0..MaxClock /\ lapse' \in Nat
    BY <1>2, SeedAssumption DEF Tick
  <2> QED BY <1>2, <2>1 DEF Tick
<1>3. CASE UNCHANGED vars
  BY <1>3 DEF vars
<1> QED BY <1>1, <1>2, <1>3

----------------------------------------------------------------------------
(* Every step keeps what a start relies on *)

\* A step of i that writes no role leaves done what is done, and what another
\* process has read as it was.
LEMMA OthersKept ==
  ASSUME Inv, NEW i \in Instance, NEW where, NEW n, NEW x,
         pc' = [pc EXCEPT ![i] = where], at' = [at EXCEPT ![i] = n],
         seen' = [seen EXCEPT ![i] = x], row' = row,
         \A j \in Instance \ {i} : mapped'[j] = mapped[j] /\ known'[j] = known[j]
  PROVE  /\ \A c : Done(c)' = Done(c)
         /\ \A j \in Instance \ {i} :
              /\ pc'[j] = pc[j] /\ at'[j] = at[j] /\ seen'[j] = seen[j]
              /\ mapped'[j] = mapped[j] /\ known'[j] = known[j]
              /\ pc'[j] \in RoutePhase =>
                   \A m \in 1..(at'[j] - 1) : Menu[Release[j]][m] \in mapped'[j]
              /\ pc'[j] \in {"load"} \cup RolePhase => KeysOf(Release[j]) \subseteq mapped'[j]
              /\ pc'[j] \in {"find", "save"} => Needs[Release[j]][Code[at'[j]]] \subseteq known'[j]
              /\ (pc'[j] = "save" /\ seen'[j] # None) =>
                   /\ row'[Code[at'[j]]] # None
                   /\ Since(row'[Code[at'[j]]].permissions, seen'[j].permissions,
                            NeedsOf(Code[at'[j]]))
                   /\ Since(row'[Code[at'[j]]].frontendRoutes, seen'[j].frontendRoutes,
                            GrantsOf(Code[at'[j]]))
              /\ pc'[j] \in RolePhase => \A m \in 1..(at'[j] - 1) : Done(Code[m])'
              /\ pc'[j] \in {"invalidate", "up"} => \A c \in Codes : Done(c)'
         /\ pc'[i] = where /\ at'[i] = n /\ seen'[i] = x
<1>1. \A c : Done(c)' = Done(c)
  BY DEF Done
<1>2. ASSUME NEW j \in Instance \ {i}
      PROVE  /\ pc'[j] = pc[j] /\ at'[j] = at[j] /\ seen'[j] = seen[j]
             /\ mapped'[j] = mapped[j] /\ known'[j] = known[j]
  BY DEF Inv, Typed, TypeOK
<1>3. pc'[i] = where /\ at'[i] = n /\ seen'[i] = x
  BY DEF Inv, Typed, TypeOK
<1>4. Mapping /\ Knowing /\ Snapshot /\ Progress
  BY DEF Inv, Rest
<1> QED BY <1>1, <1>2, <1>3, <1>4 DEF Mapping, Knowing, Needed, Snapshot, Progress

\* So a step of i that leaves i with what its position calls for keeps it all.
LEMMA OneKeeps ==
  ASSUME Inv, NEW i \in Instance, NEW where, NEW n, NEW x,
         pc' = [pc EXCEPT ![i] = where], at' = [at EXCEPT ![i] = n],
         seen' = [seen EXCEPT ![i] = x], row' = row,
         \A j \in Instance \ {i} : mapped'[j] = mapped[j] /\ known'[j] = known[j],
         where \in RoutePhase => \A m \in 1..(n - 1) : Menu[Release[i]][m] \in mapped'[i],
         where \in {"load"} \cup RolePhase => KeysOf(Release[i]) \subseteq mapped'[i],
         where \in {"find", "save"} => Needs[Release[i]][Code[n]] \subseteq known'[i],
         where = "save" => x = row[Code[n]],
         where \in RolePhase => \A m \in 1..(n - 1) : Done(Code[m]),
         where \in {"invalidate", "up"} => \A c \in Codes : Done(c)
  PROVE  Mapping' /\ Knowing' /\ Snapshot' /\ Progress'
<1>1. pc'[i] = where /\ at'[i] = n /\ seen'[i] = x
  BY DEF Inv, Typed, TypeOK
<1>2. Mapping'
  <2> SUFFICES ASSUME NEW j \in Instance
               PROVE  /\ pc'[j] \in RoutePhase =>
                           \A m \in 1..(at'[j] - 1) : Menu[Release[j]][m] \in mapped'[j]
                      /\ pc'[j] \in {"load"} \cup RolePhase => KeysOf(Release[j]) \subseteq mapped'[j]
    BY DEF Mapping
  <2>1. CASE j = i
    BY <1>1, <2>1
  <2>2. CASE j # i
    BY <2>2, OthersKept
  <2> QED BY <2>1, <2>2
<1>3. Knowing'
  <2> SUFFICES ASSUME NEW j \in Instance, pc'[j] \in {"find", "save"}
               PROVE  Needs[Release[j]][Code[at'[j]]] \subseteq known'[j]
    BY DEF Knowing, Needed
  <2>1. CASE j = i
    BY <1>1, <2>1
  <2>2. CASE j # i
    BY <2>2, OthersKept
  <2> QED BY <2>1, <2>2
<1>4. Snapshot'
  <2> SUFFICES ASSUME NEW j \in Instance, pc'[j] = "save", seen'[j] # None
               PROVE  /\ row'[Code[at'[j]]] # None
                      /\ Since(row'[Code[at'[j]]].permissions, seen'[j].permissions,
                               NeedsOf(Code[at'[j]]))
                      /\ Since(row'[Code[at'[j]]].frontendRoutes, seen'[j].frontendRoutes,
                               GrantsOf(Code[at'[j]]))
    BY DEF Snapshot
  <2>1. CASE j = i
    <3>1. seen'[j] = row'[Code[at'[j]]]
      BY <1>1, <2>1
    <3> QED BY <3>1, SinceSelf
  <2>2. CASE j # i
    BY <2>2, OthersKept
  <2> QED BY <2>1, <2>2
<1>5. Progress'
  <2> SUFFICES ASSUME NEW j \in Instance
               PROVE  /\ pc'[j] \in RolePhase => \A m \in 1..(at'[j] - 1) : Done(Code[m])'
                      /\ pc'[j] \in {"invalidate", "up"} => \A c \in Codes : Done(c)'
    BY DEF Progress
  <2>0. \A c : Done(c)' = Done(c)
    BY OthersKept
  <2>1. CASE j = i
    BY <1>1, <2>0, <2>1
  <2>2. CASE j # i
    BY <2>2, OthersKept
  <2> QED BY <2>1, <2>2
<1> QED BY <1>2, <1>3, <1>4, <1>5

\* What no step of another process takes from one that is alone: there is none.
LEMMA AloneKept ==
  ASSUME Inv, NEW i \in Instance, pc[i] \in Seeding, NEW where,
         pc' = [pc EXCEPT ![i] = where], alone' = alone
  PROVE  /\ \A j \in Instance \ {i} : ~(alone'[j] /\ pc'[j] \in Seeding)
         /\ alone'[i] => \A j \in Instance \ {i} : pc'[j] \notin Seeding
BY DEF Inv, Typed, TypeOK, Rest, Solitude

\* A start that fails forgets all it knew, and leaves the tables as they are.
LEMMA FailingKeeps ==
  ASSUME Inv, NEW i \in Instance, Goto(i, "down"),
         UNCHANGED <<clock, tables, cached, at, mapped, known, seen, alone>>
  PROVE  Rest'
<1>1. /\ pc' = [pc EXCEPT ![i] = "down"]
      /\ UNCHANGED <<clock, row, routes, cache, lapse, at, mapped, known, seen, alone>>
  BY DEF Goto, tables, cached
<1>2. /\ \A j \in Instance \ {i} : pc'[j] = pc[j]
      /\ pc'[i] = "down" /\ "down" \notin Seeding \cup RoutePhase \cup RolePhase
      /\ "down" \notin {"load", "find", "save", "invalidate", "up"}
  BY <1>1 DEF Inv, Typed, TypeOK, Seeding, RoutePhase, RolePhase
<1>3. \A c : Done(c)' = Done(c)
  BY <1>1 DEF Done
<1>4. Mapping' /\ Knowing'
  BY <1>1, <1>2 DEF Inv, Rest, Mapping, Knowing, Needed
<1>5. Snapshot'
  BY <1>1, <1>2 DEF Inv, Rest, Snapshot
<1>6. Progress'
  BY <1>1, <1>2, <1>3 DEF Inv, Rest, Progress
<1>7. Solitude'
  BY <1>1, <1>2 DEF Inv, Rest, Solitude, RouteMine, RowMine, Key
<1>8. ListsLapse'
  BY <1>1 DEF Inv, Rest, ListsLapse
<1> QED BY <1>4, <1>5, <1>6, <1>7, <1>8 DEF Rest

LEMMA StartKeeps ==
  ASSUME Inv, NEW i \in Instance, Start(i)
  PROVE  Rest'
<1>1. /\ pc' = [pc EXCEPT ![i] = "findRoute"] /\ at' = [at EXCEPT ![i] = 1]
      /\ seen' = [seen EXCEPT ![i] = seen[i]]
      /\ mapped' = [mapped EXCEPT ![i] = {}]
      /\ UNCHANGED <<clock, row, routes, cache, lapse, known>>
  BY Before DEF Start, Goto, tables, cached, Inv
<1>2. "findRoute" \notin RolePhase
      /\ "findRoute" \notin {"load", "saveRoute", "find", "save", "invalidate", "up"}
      /\ "findRoute" \in RoutePhase
  BY DEF RolePhase, RoutePhase
<1>3. \A j \in Instance \ {i} : mapped'[j] = mapped[j] /\ known'[j] = known[j]
  BY <1>1 DEF Inv, Typed, TypeOK
<1>4. \A m \in 1..(1 - 1) : FALSE
  OBVIOUS
<1>5. Mapping' /\ Knowing' /\ Snapshot' /\ Progress'
  BY <1>1, <1>2, <1>3, <1>4, OneKeeps
<1>6. Solitude'
  <2>1. ASSUME NEW j \in Instance
        PROVE  alone'[j] = IF j = i THEN \A k \in Instance : pc[k] \notin Seeding ELSE FALSE
    BY DEF Start
  <2>2. alone'[i] => \A j \in Instance \ {i} : pc'[j] \notin Seeding
    BY <1>1, <2>1 DEF Inv, Typed, TypeOK
  <2>3. pc'[i] = "findRoute" /\ at'[i] = 1
    BY <1>1 DEF Inv, Typed, TypeOK
  <2> QED BY <1>2, <1>4, <2>1, <2>2, <2>3 DEF Solitude
<1>7. ListsLapse'
  BY <1>1 DEF Inv, Rest, ListsLapse
<1> QED BY <1>5, <1>6, <1>7 DEF Rest

LEMMA FindRouteKeeps ==
  ASSUME Inv, NEW i \in Instance, FindRoute(i)
  PROVE  Rest'
<1>1. /\ pc' = [pc EXCEPT ![i] = "saveRoute"] /\ at' = [at EXCEPT ![i] = at[i]]
      /\ seen' = [seen EXCEPT ![i] = routes[Key(i)]]
      /\ pc[i] = "findRoute"
      /\ UNCHANGED <<clock, row, routes, cache, lapse, mapped, known, alone>>
  BY Before DEF FindRoute, Goto, tables, cached, Inv
<1>2. /\ "saveRoute" \notin RolePhase
      /\ "saveRoute" \notin {"load", "find", "save", "invalidate", "up"}
      /\ "saveRoute" \in RoutePhase /\ pc[i] \in RoutePhase /\ pc[i] \in Seeding
  BY <1>1 DEF RolePhase, RoutePhase, Seeding
<1>3. \A m \in 1..(at[i] - 1) : Menu[Release[i]][m] \in mapped[i]
  BY <1>2 DEF Inv, Rest, Mapping
<1>4. Mapping' /\ Knowing' /\ Snapshot' /\ Progress'
  BY <1>1, <1>2, <1>3, OneKeeps
<1>5. Solitude'
  <2>1. alone[i] => \A m \in 1..(at[i] - 1) : RouteMine(i, Menu[Release[i]][m])
    BY <1>2 DEF Inv, Rest, Solitude
  <2>2. /\ pc'[i] = "saveRoute" /\ at'[i] = at[i] /\ seen'[i] = routes[Key(i)]
        /\ Key(i)' = Key(i) /\ routes' = routes /\ alone' = alone
    BY <1>1 DEF Inv, Typed, TypeOK, Key
  <2>3. \A k : RouteMine(i, k)' = RouteMine(i, k)
    BY <2>2 DEF RouteMine
  <2>4. /\ \A j \in Instance \ {i} : ~(alone'[j] /\ pc'[j] \in Seeding)
        /\ alone'[i] => \A j \in Instance \ {i} : pc'[j] \notin Seeding
    BY <1>1, <1>2, AloneKept
  <2> QED BY <1>2, <2>1, <2>2, <2>3, <2>4 DEF Solitude
<1>6. ListsLapse'
  BY <1>1 DEF Inv, Rest, ListsLapse
<1> QED BY <1>4, <1>5, <1>6 DEF Rest

LEMMA SaveRouteKeeps ==
  ASSUME Inv, NEW i \in Instance, SaveRoute(i), ~Reject(i)
  PROVE  Rest'
<1> DEFINE k == Key(i)
<1>1. /\ routes' = [routes EXCEPT ![k] = Column(routes[k], seen[i], Wanted(i))]
      /\ mapped' = [mapped EXCEPT ![i] = @ \cup {k}]
      /\ seen' = [seen EXCEPT ![i] = seen[i]]
      /\ pc[i] = "saveRoute"
      /\ UNCHANGED <<clock, row, cache, lapse, known, alone>>
  BY Before DEF SaveRoute, Mapped, cached, Inv
<1>2. /\ pc[i] \in RoutePhase /\ pc[i] \in Seeding
      /\ at[i] \in 1..MenuLen(i) /\ k \in KeysOf(Release[i]) /\ k \in Route
      /\ k = Menu[Release[i]][at[i]]
  BY <1>1, Named DEF RoutePhase, Seeding, Inv, Key
<1>3. PICK where \in {"load", "findRoute"}, n \in Nat :
        /\ pc' = [pc EXCEPT ![i] = where] /\ at' = [at EXCEPT ![i] = n]
        /\ where = "load" => at[i] = MenuLen(i)
        /\ where = "findRoute" => n - 1 = at[i]
  <2>1. CASE at[i] = MenuLen(i)
    BY <2>1, Before DEF SaveRoute, MenuLen, Goto, Inv
  <2>2. CASE at[i] # MenuLen(i)
    <3>1. /\ pc' = [pc EXCEPT ![i] = "findRoute"] /\ at' = [at EXCEPT ![i] = at[i] + 1]
          /\ at[i] + 1 \in Nat /\ (at[i] + 1) - 1 = at[i]
      BY <1>2, <2>2, ListsIndexed DEF SaveRoute, MenuLen, Goto
    <3> QED BY <3>1
  <2> QED BY <2>1, <2>2
<1>4. \A j \in Instance \ {i} : mapped'[j] = mapped[j] /\ known'[j] = known[j]
  BY <1>1 DEF Inv, Typed, TypeOK
<1>5. \A m \in 1..at[i] : Menu[Release[i]][m] \in mapped'[i]
  <2>1. \A m \in 1..(at[i] - 1) : Menu[Release[i]][m] \in mapped[i]
    BY <1>2 DEF Inv, Rest, Mapping
  <2>2. mapped'[i] = mapped[i] \cup {k}
    BY <1>1 DEF Inv, Typed, TypeOK
  <2> QED BY <1>2, <2>1, <2>2, ListsIndexed
<1>6. at[i] = MenuLen(i) => KeysOf(Release[i]) \subseteq mapped'[i]
  BY <1>5 DEF KeysOf, MenuLen
<1>7. /\ where \notin RolePhase /\ where \notin {"find", "save", "saveRoute", "invalidate", "up"}
      /\ where \in RoutePhase => where = "findRoute"
  BY DEF RolePhase, RoutePhase
<1> HIDE DEF k
<1>8. Mapping' /\ Knowing' /\ Snapshot' /\ Progress'
  <2>1. /\ where \in RoutePhase => \A m \in 1..(n - 1) : Menu[Release[i]][m] \in mapped'[i]
        /\ where \in {"load"} \cup RolePhase => KeysOf(Release[i]) \subseteq mapped'[i]
    BY <1>3, <1>5, <1>6, <1>7
  <2> QED BY <1>1, <1>3, <1>4, <1>7, <2>1, OneKeeps
<1>9. Solitude'
  <2>1. alone[i] => \A m \in 1..at[i] : RouteMine(i, Menu[Release[i]][m])'
    <3> SUFFICES ASSUME alone[i], NEW m \in 1..at[i]
                 PROVE  routes'[Menu[Release[i]][m]] = Paths[Release[i]][Menu[Release[i]][m]]
      BY DEF RouteMine
    <3>1. seen[i] = routes[k]
      BY <1>1, <1>2 DEF Inv, Rest, Solitude, k
    <3>2. Column(routes[k], seen[i], Wanted(i)) = Paths[Release[i]][k]
      BY <3>1 DEF Column, Wanted, k
    <3>3. m \in 1..MenuLen(i) /\ Menu[Release[i]][m] \in Route
      BY <1>2, ListsIndexed
    <3>4. CASE Menu[Release[i]][m] = k
      BY <1>1, <1>2, <3>2, <3>4 DEF Inv, Typed, TypeOK
    <3>5. CASE Menu[Release[i]][m] # k
      <4>1. m \in 1..(at[i] - 1)
        BY <1>2, <3>5, ListsIndexed
      <4>2. RouteMine(i, Menu[Release[i]][m])
        BY <1>2, <4>1 DEF Inv, Rest, Solitude
      <4> QED BY <1>1, <3>3, <3>5, <4>2 DEF Inv, Typed, TypeOK, RouteMine
    <3> QED BY <3>4, <3>5
  <2>2. ASSUME alone[i], at[i] = MenuLen(i), NEW l \in KeysOf(Release[i])
        PROVE  RouteMine(i, l)'
    <3>1. PICK m \in 1..MenuLen(i) : l = Menu[Release[i]][m]
      BY DEF KeysOf, MenuLen
    <3> QED BY <2>1, <2>2, <3>1
  <2>3. pc'[i] = where /\ at'[i] = n /\ alone' = alone
    BY <1>1, <1>3 DEF Inv, Typed, TypeOK
  <2>4. /\ \A j \in Instance \ {i} : ~(alone'[j] /\ pc'[j] \in Seeding)
        /\ alone'[i] => \A j \in Instance \ {i} : pc'[j] \notin Seeding
    BY <1>1, <1>2, <1>3, AloneKept
  <2>5. CASE where = "load"
    BY <1>3, <1>7, <2>2, <2>3, <2>4, <2>5 DEF Solitude, RoutePhase
  <2>6. CASE where = "findRoute"
    BY <1>3, <1>7, <2>1, <2>3, <2>4, <2>6 DEF Solitude, RoutePhase
  <2> QED BY <2>5, <2>6
<1>10. ListsLapse'
  BY <1>1 DEF Inv, Rest, ListsLapse
<1> QED BY <1>8, <1>9, <1>10 DEF Rest

LEMMA LoadKeeps ==
  ASSUME Inv, NEW i \in Instance, LoadPermissions(i)
  PROVE  Rest'
<1>1. /\ pc' = [pc EXCEPT ![i] = "permission"] /\ at' = [at EXCEPT ![i] = 1]
      /\ seen' = [seen EXCEPT ![i] = seen[i]]
      /\ known' = [known EXCEPT ![i] = perms]
      /\ pc[i] = "load"
      /\ UNCHANGED <<clock, row, routes, cache, lapse, mapped, alone>>
  BY Before DEF LoadPermissions, Goto, tables, cached, Inv
<1>2. /\ "permission" \notin RoutePhase \cup {"find", "save", "invalidate", "up"}
      /\ "permission" \in RolePhase /\ pc[i] \in Seeding /\ pc[i] \notin RoutePhase
      /\ "permission" # "saveRoute" /\ "permission" # "save" /\ "permission" # "invalidate"
  BY <1>1 DEF RolePhase, RoutePhase, Seeding
<1>3. \A j \in Instance \ {i} : mapped'[j] = mapped[j] /\ known'[j] = known[j]
  BY <1>1 DEF Inv, Typed, TypeOK
<1>4. \A m \in 1..(1 - 1) : FALSE
  OBVIOUS
<1>5. KeysOf(Release[i]) \subseteq mapped'[i]
  BY <1>1 DEF Inv, Rest, Mapping
<1>6. Mapping' /\ Knowing' /\ Snapshot' /\ Progress'
  BY <1>1, <1>2, <1>3, <1>4, <1>5, OneKeeps
<1>7. Solitude'
  <2>1. alone[i] => \A k \in KeysOf(Release[i]) : RouteMine(i, k)
    BY <1>2 DEF Inv, Rest, Solitude
  <2>2. pc'[i] = "permission" /\ at'[i] = 1 /\ alone' = alone
    BY <1>1 DEF Inv, Typed, TypeOK
  <2>3. \A k : RouteMine(i, k)' = RouteMine(i, k)
    BY <1>1 DEF RouteMine
  <2>4. /\ \A j \in Instance \ {i} : ~(alone'[j] /\ pc'[j] \in Seeding)
        /\ alone'[i] => \A j \in Instance \ {i} : pc'[j] \notin Seeding
    BY <1>1, <1>2, AloneKept
  <2> QED BY <1>2, <1>4, <2>1, <2>2, <2>3, <2>4 DEF Solitude
<1>8. ListsLapse'
  BY <1>1 DEF Inv, Rest, ListsLapse
<1> QED BY <1>6, <1>7, <1>8 DEF Rest

\* What a process alone has done, when it goes on to another step of a role.
LEMMA AloneGoesOn ==
  ASSUME Inv, NEW i \in Instance, pc[i] \in RolePhase,
         NEW where \in RolePhase, pc' = [pc EXCEPT ![i] = where],
         UNCHANGED <<row, routes, at, alone>>,
         where = "save" => seen'[i] = row[Code[at[i]]]
  PROVE  Solitude'
<1>1. /\ pc[i] \in Seeding /\ pc[i] \notin RoutePhase
      /\ where \notin RoutePhase /\ where # "saveRoute" /\ where # "invalidate"
  BY DEF RolePhase, RoutePhase, Seeding
<1>2. alone[i] => /\ \A k \in KeysOf(Release[i]) : RouteMine(i, k)
                  /\ \A n \in 1..(at[i] - 1) : RowMine(i, Code[n])
  BY <1>1 DEF Inv, Rest, Solitude
<1>3. pc'[i] = where
  BY DEF Inv, Typed, TypeOK
<1>4. (\A k : RouteMine(i, k)' = RouteMine(i, k)) /\ (\A c : RowMine(i, c)' = RowMine(i, c))
  BY DEF RouteMine, RowMine
<1>5. /\ \A j \in Instance \ {i} : ~(alone'[j] /\ pc'[j] \in Seeding)
      /\ alone'[i] => \A j \in Instance \ {i} : pc'[j] \notin Seeding
  BY <1>1, AloneKept
<1> QED BY <1>1, <1>2, <1>3, <1>4, <1>5 DEF Solitude

LEMMA SavePermissionKeeps ==
  ASSUME Inv, NEW i \in Instance, SavePermission(i), ~Reject(i)
  PROVE  Rest'
<1>1. /\ pc[i] = "permission" /\ pc[i] \in RolePhase
      /\ seen' = [seen EXCEPT ![i] = seen[i]] /\ at' = [at EXCEPT ![i] = at[i]]
      /\ at' = at
      /\ UNCHANGED <<clock, row, routes, cache, lapse, mapped, alone>>
  BY Before DEF SavePermission, tables, cached, Inv, RolePhase
<1>2. /\ \A j \in Instance \ {i} : known'[j] = known[j]
      /\ \/ pc' = [pc EXCEPT ![i] = "find"] /\ Needed(i) \subseteq known'[i]
         \/ pc' = [pc EXCEPT ![i] = "permission"]
  <2>1. CASE Missing(i) = {}
    BY <1>1, <2>1 DEF SavePermission, Goto, Missing
  <2>2. CASE Missing(i) # {}
    <3>1. PICK p \in Missing(i) : known' = [known EXCEPT ![i] = @ \cup {p}] /\ pc' = pc
      BY <2>2 DEF SavePermission
    <3> QED BY <1>1, <3>1, Before DEF Inv, Typed, TypeOK
  <2> QED BY <2>1, <2>2
<1>3. PICK where \in {"find", "permission"} :
        pc' = [pc EXCEPT ![i] = where] /\ (where = "find" => Needed(i) \subseteq known'[i])
  BY <1>2
<1>4. where \in RolePhase /\ where \notin RoutePhase
      /\ where \notin {"save", "invalidate", "up"}
  BY DEF RolePhase, RoutePhase
<1>5. /\ KeysOf(Release[i]) \subseteq mapped'[i]
      /\ \A m \in 1..(at[i] - 1) : Done(Code[m])
  BY <1>1 DEF Inv, Rest, Mapping, Progress
<1>6. where \in {"find", "save"} => Needs[Release[i]][Code[at[i]]] \subseteq known'[i]
  BY <1>3, <1>4 DEF Needed
<1>7. Mapping' /\ Knowing' /\ Snapshot' /\ Progress'
  BY <1>1, <1>2, <1>3, <1>4, <1>5, <1>6, OneKeeps
<1>8. Solitude'
  BY <1>1, <1>3, <1>4, AloneGoesOn
<1>9. ListsLapse'
  BY <1>1 DEF Inv, Rest, ListsLapse
<1> QED BY <1>7, <1>8, <1>9 DEF Rest

LEMMA FindRoleKeeps ==
  ASSUME Inv, NEW i \in Instance, FindRole(i)
  PROVE  Rest'
<1>1. /\ pc[i] = "find" /\ pc[i] \in RolePhase
      /\ pc' = [pc EXCEPT ![i] = "save"]
      /\ seen' = [seen EXCEPT ![i] = row[Code[at[i]]]]
      /\ at' = [at EXCEPT ![i] = at[i]] /\ at' = at
      /\ UNCHANGED <<clock, row, routes, cache, lapse, mapped, known, alone>>
  BY Before DEF FindRole, Existing, Goto, tables, cached, Inv, RolePhase
<1>2. "save" \in RolePhase /\ "save" \notin RoutePhase \cup {"invalidate", "up"}
  BY DEF RolePhase, RoutePhase
<1>3. /\ KeysOf(Release[i]) \subseteq mapped'[i]
      /\ \A m \in 1..(at[i] - 1) : Done(Code[m])
      /\ Needs[Release[i]][Code[at[i]]] \subseteq known'[i]
  BY <1>1 DEF Inv, Rest, Mapping, Progress, Knowing, Needed
<1>4. Mapping' /\ Knowing' /\ Snapshot' /\ Progress'
  BY <1>1, <1>2, <1>3, OneKeeps
<1>5. seen'[i] = row[Code[at[i]]]
  BY <1>1 DEF Inv, Typed, TypeOK
<1>6. Solitude'
  BY <1>1, <1>2, <1>5, AloneGoesOn
<1>7. ListsLapse'
  BY <1>1 DEF Inv, Rest, ListsLapse
<1> QED BY <1>4, <1>6, <1>7 DEF Rest

LEMMA InvalidateKeeps ==
  ASSUME Inv, NEW i \in Instance, Invalidate(i)
  PROVE  Rest'
<1>1. /\ pc[i] = "invalidate" /\ pc[i] \in Seeding
      /\ pc' = [pc EXCEPT ![i] = "up"]
      /\ seen' = [seen EXCEPT ![i] = seen[i]] /\ at' = [at EXCEPT ![i] = at[i]]
      /\ UNCHANGED <<clock, row, routes, mapped, known, alone>>
  BY Before DEF Invalidate, Goto, tables, Inv, Seeding
<1>2. "up" \notin RolePhase \cup RoutePhase \cup Seeding /\ "up" \notin {"load", "find", "save"}
  BY DEF RolePhase, RoutePhase, Seeding
<1>3. \A c \in Codes : Done(c)
  BY <1>1 DEF Inv, Rest, Progress
<1>4. Mapping' /\ Knowing' /\ Snapshot' /\ Progress'
  BY <1>1, <1>2, <1>3, OneKeeps
<1>5. Solitude'
  <2>1. \A j \in Instance \ {i} : ~(alone'[j] /\ pc'[j] \in Seeding)
    BY <1>1, AloneKept
  <2>2. pc'[i] \notin Seeding
    BY <1>1, <1>2 DEF Inv, Typed, TypeOK
  <2> QED BY <2>1, <2>2 DEF Solitude
<1>6. ListsLapse'
  BY DEF Invalidate, Inv, Rest, ListsLapse
<1> QED BY <1>4, <1>5, <1>6 DEF Rest

LEMMA SaveRoleKeeps ==
  ASSUME Inv, NEW i \in Instance, SaveRole(i), ~Reject(i)
  PROVE  Rest'
<1> DEFINE c == Code[at[i]]
<1>1. /\ pc[i] = "save" /\ at[i] \in 1..Len(Code) /\ c \in Codes
      /\ UNCHANGED <<clock, cache, lapse, routes, mapped, known, seen, alone>>
      /\ \/ /\ at[i] = Len(Code) /\ at' = at
            /\ pc' = [pc EXCEPT ![i] = "invalidate"]
         \/ /\ at[i] # Len(Code) /\ at' = [at EXCEPT ![i] = @ + 1]
            /\ pc' = [pc EXCEPT ![i] = "permission"]
  BY Saved DEF cached
<1>2. PICK r \in Role :
        /\ row' = [row EXCEPT ![c] = r]
        /\ Between(r.permissions, NeedsOf(c)) /\ Between(r.frontendRoutes, GrantsOf(c))
        /\ row[c] # None => \A was :
             /\ Since(row[c].permissions, was, NeedsOf(c)) => Since(r.permissions, was, NeedsOf(c))
             /\ Since(row[c].frontendRoutes, was, GrantsOf(c))
                  => Since(r.frontendRoutes, was, GrantsOf(c))
        /\ seen[i] = row[c] => r = Mine(i, c)
  BY Saved
<1>3. PICK where \in {"invalidate", "permission"}, n \in Nat :
        /\ pc' = [pc EXCEPT ![i] = where] /\ at' = [at EXCEPT ![i] = n]
        /\ where = "invalidate" => at[i] = Len(Code)
        /\ where = "permission" => n - 1 = at[i]
  <2>1. /\ at[i] \in Nat /\ at[i] + 1 \in Nat /\ (at[i] + 1) - 1 = at[i]
        /\ at = [at EXCEPT ![i] = at[i]]
    BY <1>1, Before, ListsIndexed DEF Inv
  <2> QED BY <1>1, <2>1
<1>4. /\ r # None /\ row'[c] = r
      /\ \A d \in Codes : d # c => row'[d] = row[d]
  BY <1>1, <1>2, SeedAssumption DEF Inv, Typed, TypeOK, Catalog
<1>5. /\ pc'[i] = where /\ at'[i] = n
      /\ \A j \in Instance \ {i} : pc'[j] = pc[j] /\ at'[j] = at[j]
  BY <1>3 DEF Inv, Typed, TypeOK
<1>6. /\ where \notin RoutePhase /\ where \notin {"load", "find", "save", "saveRoute", "up"}
      /\ where \in RolePhase => where = "permission"
      /\ pc[i] \in RolePhase /\ pc[i] \in Seeding /\ pc[i] \notin RoutePhase
  BY <1>1 DEF RoutePhase, RolePhase, Seeding
<1> HIDE DEF c
<1>7. ASSUME NEW d \in Codes, d = c \/ Done(d) PROVE Done(d)'
  BY <1>2, <1>4, <1>7 DEF Done
<1>8. Mapping' /\ Knowing'
  <2>1. KeysOf(Release[i]) \subseteq mapped[i]
    BY <1>6 DEF Inv, Rest, Mapping
  <2>2. Mapping'
    BY <1>1, <1>5, <1>6, <2>1 DEF Inv, Rest, Mapping
  <2>3. Knowing'
    BY <1>1, <1>5, <1>6 DEF Inv, Rest, Knowing, Needed
  <2> QED BY <2>2, <2>3
<1>9. Snapshot'
  <2> SUFFICES ASSUME NEW j \in Instance, pc'[j] = "save", seen'[j] # None
               PROVE  /\ row'[Code[at'[j]]] # None
                      /\ Since(row'[Code[at'[j]]].permissions, seen'[j].permissions,
                               NeedsOf(Code[at'[j]]))
                      /\ Since(row'[Code[at'[j]]].frontendRoutes, seen'[j].frontendRoutes,
                               GrantsOf(Code[at'[j]]))
    BY DEF Snapshot
  <2> DEFINE d == Code[at[j]]
  <2>1. j # i /\ pc[j] = "save" /\ at'[j] = at[j] /\ seen'[j] = seen[j] /\ d \in Codes
    BY <1>1, <1>5, <1>6, Named DEF Inv, RolePhase
  <2>2. /\ row[d] # None
        /\ Since(row[d].permissions, seen[j].permissions, NeedsOf(d))
        /\ Since(row[d].frontendRoutes, seen[j].frontendRoutes, GrantsOf(d))
    BY <2>1 DEF Inv, Rest, Snapshot
  <2>3. CASE d = c
    BY <1>2, <1>4, <2>1, <2>2, <2>3
  <2>4. CASE d # c
    BY <1>4, <2>1, <2>2, <2>4
  <2> QED BY <2>3, <2>4
<1>10. \A m \in 1..at[i] : Done(Code[m])'
  <2> SUFFICES ASSUME NEW m \in 1..at[i] PROVE Done(Code[m])'
    OBVIOUS
  <2>1. Code[m] \in Codes /\ (m \in 1..(at[i] - 1) \/ m = at[i])
    BY <1>1, ListsIndexed
  <2>2. m \in 1..(at[i] - 1) => Done(Code[m])
    BY <1>6 DEF Inv, Rest, Progress
  <2>3. m = at[i] => Code[m] = c
    BY DEF c
  <2> QED BY <1>7, <2>1, <2>2, <2>3
<1>11. at[i] = Len(Code) => \A d \in Codes : Done(d)'
  BY <1>10 DEF Codes
<1>12. Progress'
  <2> SUFFICES ASSUME NEW j \in Instance
               PROVE  /\ pc'[j] \in RolePhase => \A m \in 1..(at'[j] - 1) : Done(Code[m])'
                      /\ pc'[j] \in {"invalidate", "up"} => \A d \in Codes : Done(d)'
    BY DEF Progress
  <2>1. CASE j = i
    BY <1>3, <1>5, <1>6, <1>10, <1>11, <2>1
  <2>2. CASE j # i
    <3>1. pc'[j] = pc[j] /\ at'[j] = at[j]
      BY <1>5, <2>2
    <3>2. ASSUME pc[j] \in RolePhase, NEW m \in 1..(at[j] - 1) PROVE Done(Code[m])'
      <4>1. at[j] \in 1..Len(Code) /\ Done(Code[m])
        BY <3>2, Named DEF Inv, Rest, Progress
      <4>2. Code[m] \in Codes
        BY <4>1, ListsIndexed
      <4> QED BY <1>7, <4>1, <4>2
    <3>3. ASSUME pc[j] \in {"invalidate", "up"}, NEW d \in Codes PROVE Done(d)'
      BY <1>7, <3>3 DEF Inv, Rest, Progress
    <3> QED BY <3>1, <3>2, <3>3
  <2> QED BY <2>1, <2>2
<1>13. Solitude'
  <2>1. ASSUME alone[i], NEW m \in 1..at[i] PROVE RowMine(i, Code[m])'
    <3>1. Code[m] \in Codes /\ (m \in 1..(at[i] - 1) \/ m = at[i])
      BY <1>1, ListsIndexed
    <3>2. CASE Code[m] = c
      <4>1. seen[i] = row[c]
        BY <1>1, <1>6, <2>1 DEF Inv, Rest, Solitude, c
      <4> QED BY <1>2, <1>4, <3>2, <4>1 DEF RowMine, Mine
    <3>3. CASE Code[m] # c
      <4>1. m \in 1..(at[i] - 1)
        BY <3>1, <3>3 DEF c
      <4>2. RowMine(i, Code[m])
        BY <1>6, <2>1, <4>1 DEF Inv, Rest, Solitude
      <4> QED BY <1>4, <3>1, <3>3, <4>2 DEF RowMine, Mine
    <3> QED BY <3>2, <3>3
  <2>2. ASSUME alone[i], at[i] = Len(Code), NEW d \in Codes PROVE RowMine(i, d)'
    <3>1. PICK m \in 1..Len(Code) : d = Code[m]
      BY DEF Codes
    <3> QED BY <2>1, <2>2, <3>1
  <2>3. alone[i] => \A k \in KeysOf(Release[i]) : RouteMine(i, k)'
    BY <1>1, <1>6 DEF Inv, Rest, Solitude, RouteMine
  <2>4. /\ \A j \in Instance \ {i} : ~(alone'[j] /\ pc'[j] \in Seeding)
        /\ alone'[i] => \A j \in Instance \ {i} : pc'[j] \notin Seeding
    BY <1>1, <1>3, <1>6, AloneKept
  <2>5. CASE where = "invalidate"
    BY <1>1, <1>3, <1>5, <1>6, <2>2, <2>3, <2>4, <2>5 DEF Solitude
  <2>6. CASE where = "permission"
    BY <1>1, <1>3, <1>5, <1>6, <2>1, <2>3, <2>4, <2>6 DEF Solitude
  <2> QED BY <2>5, <2>6
<1>14. ListsLapse'
  BY <1>1 DEF Inv, Rest, ListsLapse
<1> QED BY <1>8, <1>9, <1>12, <1>13, <1>14 DEF Rest

\* A row that a unique index rejects ends the start.
LEMMA RejectKeeps ==
  ASSUME Inv, NEW i \in Instance, SaveRoute(i) \/ SavePermission(i) \/ SaveRole(i), Reject(i)
  PROVE  Rest'
BY FailingKeeps DEF SaveRoute, SavePermission, SaveRole, Reject

LEMMA OthersKeep ==
  ASSUME Inv, \/ \E i \in Instance : Stop(i)
              \/ \E r \in Reader : Serve(r)
              \/ Tick
              \/ UNCHANGED vars
  PROVE  Rest'
<1>1. ASSUME NEW i \in Instance, Stop(i) PROVE Rest'
  BY <1>1, FailingKeeps DEF Stop
<1>2. ASSUME UNCHANGED <<tables, seeding, alone>>, ListsLapse' PROVE Rest'
  <2>1. \A c : Done(c)' = Done(c)
    BY <1>2 DEF Done, tables
  <2>2. Mapping' /\ Knowing'
    BY <1>2 DEF Inv, Rest, Mapping, Knowing, Needed, seeding
  <2>3. Snapshot'
    BY <1>2 DEF Inv, Rest, Snapshot, tables, seeding
  <2>4. Progress'
    BY <1>2, <2>1 DEF Inv, Rest, Progress, seeding
  <2>5. Solitude'
    BY <1>2 DEF Inv, Rest, Solitude, RowMine, RouteMine, Key, tables, seeding
  <2> QED BY <1>2, <2>2, <2>3, <2>4, <2>5 DEF Rest
<1>3. ASSUME NEW r \in Reader, Serve(r) PROVE Rest'
  <2>1. ListsLapse'
    BY <1>3, SeedAssumption
       DEF Serve, ReadCache, ReadTable, FillCache, Ttl, Inv, Typed, TypeOK, Rest, ListsLapse, cached
  <2> QED BY <1>2, <1>3, <2>1 DEF Serve, ReadCache, ReadTable, FillCache
<1>4. CASE Tick
  <2>1. clock \in Nat /\ lapse \in Nat /\ CacheTTL \in Nat
    BY SeedAssumption DEF Inv, Typed, TypeOK
  <2>2. ListsLapse'
    BY <1>4, <2>1 DEF Tick, Inv, Rest, ListsLapse, cached
  <2> QED BY <1>2, <1>4, <2>2 DEF Tick
<1>5. CASE UNCHANGED vars
  BY <1>2, <1>5 DEF vars, tables, seeding, Inv, Rest, ListsLapse
<1> QED BY <1>1, <1>3, <1>4, <1>5

LEMMA InitInv == Init => Inv
<1> SUFFICES ASSUME Init PROVE Inv
  OBVIOUS
<1>1. \A i \in Instance : pc[i] = "down"
  BY DEF Init
<1>2. "down" \notin Seeding \cup RoutePhase \cup RolePhase
  BY DEF Seeding, RoutePhase, RolePhase
<1>3. Mapping /\ Knowing /\ Snapshot /\ Progress /\ Solitude
  BY <1>1, <1>2 DEF Mapping, Knowing, Snapshot, Progress, Solitude
<1>4. ListsLapse
  BY DEF Init, ListsLapse
<1> QED BY <1>3, <1>4, InitTyped DEF Inv, Rest

LEMMA InvStep == Inv /\ [Next]_vars => Inv'
<1> SUFFICES ASSUME Inv, [Next]_vars PROVE Inv'
  OBVIOUS
<1>1. ASSUME NEW i \in Instance, Seed(i) PROVE Rest'
  BY <1>1, StartKeeps, FindRouteKeeps, SaveRouteKeeps, LoadKeeps, SavePermissionKeeps,
     FindRoleKeeps, SaveRoleKeeps, InvalidateKeeps, RejectKeeps DEF Seed
<1>2. Typed'
  BY SeedTyped, ServeTyped, OthersTyped DEF Inv, Next
<1>3. Rest'
  BY <1>1, OthersKeep DEF Next
<1> QED BY <1>2, <1>3 DEF Inv

LEMMA CatalogInv == Spec => []Inv
BY InitInv, InvStep, PTL DEF Spec

----------------------------------------------------------------------------
(* The theorems *)

\* The tables, the cached list and every process's maps and positions hold
\* what they are declared to hold, for every number of processes, releases,
\* roles and routes: no loop of seedDefaults runs past its list.
THEOREM CatalogTypeCorrect == Spec => []TypeOK
<1>1. Inv => TypeOK
  BY DEF Inv, Typed
<1> QED BY CatalogInv, <1>1, PTL

\* A process that is up finds every default role, linked to all permissions
\* and routes on which the running releases agree and to none that no running
\* release gives it, however many starts of however many releases interleave,
\* fail half-way and write back differences from rows that have changed, and
\* whatever earlier releases left in the tables.
THEOREM UpFindsRoles == Spec => []UpMeansSeeded
<1>1. Inv => UpMeansSeeded
  BY DEF Inv, Rest, UpMeansSeeded, Progress, Done, NeedsOf, GrantsOf
<1> QED BY CatalogInv, <1>1, PTL

\* A start that no other overlapped leaves each role with exactly the links
\* its release defines and each route under its path, whatever other releases
\* left there.
THEOREM LonelyStartsWin == Spec => []SoloSeedWins
<1>1. Inv => SoloSeedWins
  BY DEF Inv, Rest, SoloSeedWins, Solitude, Seeding, RoutePhase, RowMine, RouteMine, Mine
<1> QED BY CatalogInv, <1>1, PTL

\* A cached list is dropped one TTL after it was cached at the latest, for
\* every TTL.
THEOREM StaleListsLapse == Spec => []ListsLapse
<1>1. Inv => ListsLapse
  BY DEF Inv, Rest
<1> QED BY CatalogInv, <1>1, PTL

=============================================================================
