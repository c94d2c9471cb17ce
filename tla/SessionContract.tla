--------------------------- MODULE SessionContract ---------------------------
(***************************************************************************)
(* What the backend promises about one login session, with no clock, no    *)
(* token, no account and no handler in it.  A session is opened once, for  *)
(* one user.  A request may write its record only on a ticket, granted     *)
(* when it opens the session or while it finds the session live.  Anything *)
(* may end a session; ended and with no ticket out, it stays ended.        *)
(* AuthSessions is shown to implement this module.                         *)
(***************************************************************************)
CONSTANTS User, Sid, Req, Nobody

VARIABLES
  owner,    \* Sid -> the user the session was opened for, or Nobody
  live,     \* the sessions that have a record
  tickets   \* pairs <<s, r>>: request r may still write session s

cvars == <<owner, live, tickets>>

CInit == /\ owner = [s \in Sid |-> Nobody]
         /\ live = {}
         /\ tickets = {}

\* issueSession draws an identifier for a new session.
Open(s, r, u) ==
  /\ owner[s] = Nobody
  /\ owner' = [owner EXCEPT ![s] = u]
  /\ tickets' = tickets \cup {<<s, r>>}
  /\ UNCHANGED live

\* A request finds the session live and may write it later.
Admit(s, r) ==
  /\ s \in live
  /\ tickets' = tickets \cup {<<s, r>>}
  /\ UNCHANGED <<owner, live>>

\* The record is written; the ticket is used up unless the reply was lost.
Write(s, r) ==
  /\ <<s, r>> \in tickets
  /\ live' = live \cup {s}
  /\ tickets' \in {tickets, tickets \ {<<s, r>>}}
  /\ UNCHANGED owner

Drop(s, r) ==
  /\ <<s, r>> \in tickets
  /\ tickets' = tickets \ {<<s, r>>}
  /\ UNCHANGED <<owner, live>>

\* Sessions are deleted or lapse, together if their time is up together.
End(S) ==
  /\ S # {} /\ S \subseteq live
  /\ live' = live \ S
  /\ UNCHANGED <<owner, tickets>>

CNext ==
  \/ \E s \in Sid, r \in Req :
       \/ \E u \in User : Open(s, r, u)
       \/ Admit(s, r) \/ Write(s, r) \/ Drop(s, r)
  \/ \E S \in SUBSET live : End(S)

ContractSpec == CInit /\ [][CNext]_cvars

Ended(s) == /\ owner[s] # Nobody
            /\ s \notin live
            /\ \A r \in Req : <<s, r>> \notin tickets

\* A session that ended with no ticket out has ended for good.
EndedForever == [][\A s \in Sid : Ended(s) => Ended(s)']_cvars
=============================================================================
