----------------------------- MODULE MCSessions -----------------------------
(* Sessions for TLC.                                                       *)
EXTENDS Sessions, TLC

CONSTANTS b1, b2, c1, c2

MCFingerprints == {b1, b2} \X {"forwarded", "remote", "", "unknown"}

\* Goroutines are interchangeable.
Symmetry == Permutations({c1, c2})

\* No day has passed for a key in Redis.
Young ==
  /\ \A t \in Tokens : life[t] \in {0, TTL}
  /\ \A u \in Users : index[u].life \in {0, TTL, Persistent}

\* Nobody's role has changed in a while, and no request takes minutes.
Settled ==
  /\ \A u \in Users : role[u] # NoRole /\ aged[u][NoRole] = LongAgo
  /\ \A c \in Clients : h[c].age = 0

Overlap == \A c \in Clients : h[c].op # "none"

\* Roles change while no day passes, no call to Redis fails and requests do not
\* overlap; no day passes after a call has failed.  A third token is written only
\* if all three are for clients behind a proxy, and then either requests overlap or
\* a day passes or a call fails.
OneTrouble ==
  /\ Settled \/ (Young /\ ~Overlap /\ faults = 0 /\ Len(data) <= 2)
  /\ Young \/ faults = 0
  /\ Len(data) > 2 => /\ \A t \in DOMAIN data : data[t].fp[1] \in Proxied
                      /\ Overlap => Young /\ faults = 0
=============================================================================
