--------------------------- MODULE MCRequestPipeline ---------------------------
(***************************************************************************)
(* RequestPipeline for TLC: interchangeable request slots and users, and   *)
(* inputs with one bad field or two, one of them twice wrong.  (Every DTO  *)
(* of the repository is flat.)                                             *)
(***************************************************************************)
EXTENDS RequestPipeline, TLC
LOCAL INSTANCE SequencesExt

Symmetric == Permutations(Req) \cup Permutations(User)

Node(property, constraints, child, next) ==
  [property |-> property, constraints |-> constraints, child |-> child, next |-> next]
MCComplaint == {
  <<Node("email", <<"no address">>, 0, 0)>>,
  <<Node("email", <<"empty", "no address">>, 0, 2), Node("password", <<"short">>, 0, 0)>>}

\* flattenValidationErrors on every tree of three errors, the recursion
\* included: "Nested DTOs produce parent.child field names correctly" (main.ts
\* 19), one detail for each error with a failed constraint, parents before their
\* children.  up[n] is the parent of error n, 0 at the top.
Numbers == 1..3
Names == <<"a", "b", "c">>
FirstOf(S) == IF S = {} THEN 0 ELSE CHOOSE n \in S : \A m \in S : n <= m
Tree(up, failing) ==
  [n \in Numbers |->
     Node(Names[n], IF n \in failing THEN <<"bad">> ELSE <<>>,
          FirstOf({m \in Numbers : up[m] = n}),
          FirstOf({m \in Numbers : up[m] = up[n] /\ m > n}))]
PathTo(up, n) ==
  LET path[m \in 0..3] == IF m = 0 THEN <<>> ELSE Append(path[up[m]], Names[m])
  IN  path[n]
ASSUME NestedFieldsAreNamed ==
  \A up \in [Numbers -> 0..2], failing \in SUBSET Numbers :
    (up[1] = 0 /\ up[2] < 2 /\ up[3] < 3) =>
      LET told == flattenValidationErrors(Tree(up, failing))
          fields == {told[k].field : k \in DOMAIN told}
      IN /\ fields = {PathTo(up, n) : n \in failing}
         /\ Len(told) = Cardinality(failing)
         /\ \A j, k \in DOMAIN told :
              IsStrictPrefix(told[j].field, told[k].field) => j < k
=============================================================================
