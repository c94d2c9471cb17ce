--------------------------- MODULE MCUserDirectory ---------------------------
(***************************************************************************)
(* Small instances of UserDirectory for TLC.                               *)
(***************************************************************************)
EXTENDS UserDirectory, TLC

\* Levels of auth.seed.ts; the CLASS_TEACHER and PRINCIPAL ranks are those
\* between the admin and the student.
SeedLevel ==
  [SYSTEM_ADMIN |-> 100, PRINCIPAL |-> 80, CLASS_TEACHER |-> 60, STUDENT |-> 20]
SeedRole == DOMAIN SeedLevel
\* The ranks without CLASS_TEACHER: enough for every order of two ranks below
\* the admin's.
ThreeLevel == [c \in {"SYSTEM_ADMIN", "PRINCIPAL", "STUDENT"} |-> SeedLevel[c]]
ThreeRole == DOMAIN ThreeLevel

Symmetric == Permutations(Uid) \cup Permutations(Req)
=============================================================================
