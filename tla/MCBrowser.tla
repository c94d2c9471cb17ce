------------------------------- MODULE MCBrowser -------------------------------
(***************************************************************************)
(* A small instance of Browser for TLC.                                    *)
(***************************************************************************)
EXTENDS Browser, TLC

\* Sessions, request slots and clients are interchangeable.
Symmetric ==
  Permutations(Sid) \cup Permutations(Req) \cup Permutations(Client)
=============================================================================
