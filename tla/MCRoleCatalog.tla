----------------------------- MODULE MCRoleCatalog -----------------------------
(* RoleCatalog for TLC: two releases, the later of which gives a role one more  *)
(* permission and takes another away, adds a route, and gives it the path of an *)
(* older one.  They start on empty tables or on those of an earlier release.    *)
EXTENDS RoleCatalog, TLC

CONSTANTS AtUsers, AtPeople  \* paths

TwoCodes == <<"SYSTEM_ADMIN", "STUDENT">>
\* The second process runs a later release than the first.
Rolling == [i \in Instance |-> IF i = "i1" THEN 1 ELSE 2]
Menus == <<<<"users">>, <<"users", "portal">>>>
MovedPaths == <<[users |-> AtUsers], [users |-> AtPeople, portal |-> AtUsers]>>
ChangedNeeds ==
  <<[SYSTEM_ADMIN |-> {"read", "assign"}, STUDENT |-> {"read"}],
    [SYSTEM_ADMIN |-> {"read", "manage"}, STUDENT |-> {"read"}]>>
ChangedGrants ==
  <<[SYSTEM_ADMIN |-> {"users"}, STUDENT |-> {}],
    [SYSTEM_ADMIN |-> {"users", "portal"}, STUDENT |-> {"portal"}]>>

Empty == [row |-> [c \in Codes |-> None], routes |-> [k \in Route |-> None], perms |-> {}]
Older ==
  [row |-> [SYSTEM_ADMIN |-> [release |-> 0, permissions |-> {"read"},
                              frontendRoutes |-> {"users"}],
            STUDENT |-> [release |-> 0, permissions |-> {"audit"},
                         frontendRoutes |-> {}]],
   routes |-> [users |-> AtUsers, portal |-> None], perms |-> {"read", "audit"}]
EmptyOrOlder == {Empty, Older}
=============================================================================
