-------------------------- MODULE SessionRegistry --------------------------
(***************************************************************************)
(* What the refresh token store promises its callers: every user has a set *)
(* of valid tokens; a token is opened for a user, exchanged for a new one  *)
(* of the same user, or ended, and an ended token is never valid again.    *)
(* RefreshTokens implements it.                                            *)
(***************************************************************************)
CONSTANTS Users, Tokens

VARIABLES
  valid,   \* valid[u]: the valid tokens of user u
  dead     \* the tokens that were valid once

registry == <<valid, dead>>

Init ==
  /\ valid = [u \in Users |-> {}]
  /\ dead = {}

Unused(t) == t \notin dead /\ \A u \in Users : t \notin valid[u]

\* Issue.
Open(u, t) ==
  /\ Unused(t)
  /\ valid' = [valid EXCEPT ![u] = @ \cup {t}]
  /\ UNCHANGED dead

\* Rotate.  The old token may have been ended while Rotate ran.
Exchange(u, old, new) ==
  /\ Unused(new) /\ old \in valid[u] \cup dead
  /\ valid' = [valid EXCEPT ![u] = (@ \ {old}) \cup {new}]
  /\ dead' = dead \cup {old}

\* Revoke, RevokeAll, enforceMaxSessions and expiry.
End(S) ==
  /\ \A t \in S : \E u \in Users : t \in valid[u]
  /\ valid' = [u \in Users |-> valid[u] \ S]
  /\ dead' = dead \cup S

Next ==
  \/ \E S \in SUBSET Tokens : End(S)
  \/ \E u \in Users, t \in Tokens : Open(u, t)
  \/ \E u \in Users, old \in Tokens, new \in Tokens : Exchange(u, old, new)

Spec == Init /\ [][Next]_registry
=============================================================================
