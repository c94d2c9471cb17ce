--------------------------- MODULE MCAuthSessions ---------------------------
(***************************************************************************)
(* AuthSessions for TLC: the configurations give the constants.            *)
(***************************************************************************)
EXTENDS AuthSessions, TLC
=============================================================================
