----------------------------- MODULE RateLimiter ----------------------------
(***************************************************************************)
(* The sliding-window rate limiter (internal/middleware/ratelimit.go).     *)
(*                                                                         *)
(* A request reads the clock and then runs one Redis transaction: drop the *)
(* entries of its key that are older than the window, count the rest, add  *)
(* an entry for itself, and let the key expire after a window.  An entry   *)
(* is the clock's reading, so two requests with the same reading share one.*)
(* Servers and goroutines overtake each other between the two steps.       *)
(***************************************************************************)
EXTENDS Integers, FiniteSets

CONSTANTS
  Clients,   \* goroutines, on one server or on several
  Kinds,     \* requests: path, form (its email), user, forwarded, realIP, remote
  Limits,    \* DefaultLimits: path -> [max, window, key]
  Default,   \* the limit of any other path
  MaxDelay,  \* a transaction runs at most this long after the clock was read
  MaxTime,   \* bound: clock
  MaxFaults  \* bound: calls to Redis that fail

\* limits[path], or limits["default"]
Limit(r) == IF r.path \in DOMAIN Limits THEN Limits[r.path] ELSE Default

ASSUME ConstantsAssumption ==
  /\ MaxDelay \in Nat /\ MaxTime \in Nat /\ MaxFaults \in Nat
  /\ \A r \in Kinds : Limit(r).max \in Nat \ {0} /\ Limit(r).window \in Nat \ {0}

VARIABLES
  now,       \* the clock
  zset,      \* zset[k]: the entries of the sorted set at key k
  life,      \* life[k]: how long key k lives on; 0: there is none
  req,       \* req[c]: the request that goroutine c serves
  faults,    \* failed calls so far
  allowed,   \* history: allowed[k]: the readings of the requests let in by a count
  seen       \* history: seen[k]: the readings of all requests that were counted

vars == <<now, zset, life, req, faults, allowed, seen>>

-----------------------------------------------------------------------------
(* The key of a request.                                                   *)

extractIP(r) ==
  IF r.forwarded # "" THEN r.forwarded
  ELSE IF r.realIP # "" THEN r.realIP ELSE r.remote

extractIdentifier(r) ==
  CASE Limit(r).key = "email" -> r.form
    [] Limit(r).key = "userID" /\ r.user # "" -> r.user
    [] OTHER -> extractIP(r)

Key(r) == <<r.path, extractIdentifier(r)>>

Keys == {Key(r) : r \in Kinds}
Times == 0..MaxTime
Windows == {Limit(r).window : r \in Kinds}
Requests == [pc : {"exec", "allowed", "refused"}, kind : Kinds, now : Times]
Idle == [pc |-> "idle"]

TypeOK ==
  /\ now \in Times
  /\ zset \in [Keys -> SUBSET Times]
  /\ life \in [Keys -> {0} \cup UNION {1..w : w \in Windows}]
  /\ \A k \in Keys : life[k] = 0 <=> zset[k] = {}
  /\ req \in [Clients -> Requests \cup {Idle}]
  /\ faults \in 0..MaxFaults
  /\ allowed \in [Keys -> SUBSET Times] /\ seen \in [Keys -> SUBSET Times]

Init ==
  /\ now = 0 /\ faults = 0
  /\ zset = [k \in Keys |-> {}] /\ life = [k \in Keys |-> 0]
  /\ req = [c \in Clients |-> Idle]
  /\ allowed = [k \in Keys |-> {}] /\ seen = [k \in Keys |-> {}]

-----------------------------------------------------------------------------
At(c, pc) == req[c].pc = pc
Goto(c, pc) == req' = [req EXCEPT ![c].pc = pc]

Request(c, r) ==
  /\ At(c, "idle")
  /\ req' = [req EXCEPT ![c] = [pc |-> "exec", kind |-> r, now |-> now]]
  /\ UNCHANGED <<now, zset, life, faults, allowed, seen>>

\* Faulty variant: nothing is dropped.
KeptAll(k, n, w) == zset[k]

\* ZREMRANGEBYSCORE key -inf now-window
Kept(k, n, w) == {t \in zset[k] : t > n - w}

\* MULTI ZREMRANGEBYSCORE, ZCARD, ZADD, EXPIRE EXEC
Tx(r, n) ==
  LET k == Key(r)
      w == Limit(r).window
  IN  /\ zset' = [zset EXCEPT ![k] = Kept(k, n, w) \cup {n}]
      /\ life' = [life EXCEPT ![k] = w]

\* Faulty variant: one more.
OverOneMore(r, n) == Cardinality(Kept(Key(r), n, Limit(r).window)) > Limit(r).max

\* count >= limit.Max, the count being that of the others
Over(r, n) == Cardinality(Kept(Key(r), n, Limit(r).window)) >= Limit(r).max

\* check, and the answer to the request or the call of the next handler.  A
\* refused request stays in the window.
Exec(c) ==
  LET r == req[c].kind
      n == req[c].now
      k == Key(r)
  IN  /\ At(c, "exec")
      /\ Tx(r, n)
      /\ seen' = [seen EXCEPT ![k] = @ \cup {n}]
      /\ IF Over(r, n) THEN Goto(c, "refused") /\ UNCHANGED allowed
         ELSE Goto(c, "allowed") /\ allowed' = [allowed EXCEPT ![k] = @ \cup {n}]
      /\ UNCHANGED <<now, faults>>

\* "Fail open": the request goes through, counted by Redis or not.
ExecFails(c) ==
  LET r == req[c].kind
  IN  /\ At(c, "exec")
      /\ faults < MaxFaults /\ faults' = faults + 1
      /\ \/ UNCHANGED <<zset, life, seen>>
         \/ Tx(r, req[c].now) /\ seen' = [seen EXCEPT ![Key(r)] = @ \cup {req[c].now}]
      /\ Goto(c, "allowed")
      /\ UNCHANGED <<now, allowed>>

\* The next handler returns, or 429 is sent with Retry-After: one window.
Reply(c) ==
  /\ req[c].pc \in {"allowed", "refused"}
  /\ req' = [req EXCEPT ![c] = Idle]
  /\ UNCHANGED <<now, zset, life, faults, allowed, seen>>

Tick ==
  /\ now < MaxTime
  /\ \A c \in Clients : At(c, "exec") => now - req[c].now < MaxDelay
  /\ now' = now + 1
  /\ life' = [k \in Keys |-> IF life[k] = 0 THEN 0 ELSE life[k] - 1]
  /\ zset' = [k \in Keys |-> IF life'[k] = 0 THEN {} ELSE zset[k]]
  /\ UNCHANGED <<req, faults, allowed, seen>>

Next ==
  \/ Tick
  \/ \E c \in Clients :
       \/ \E r \in Kinds : Request(c, r)
       \/ Exec(c) \/ ExecFails(c) \/ Reply(c)

Spec == Init /\ [][Next]_vars

-----------------------------------------------------------------------------
(* Properties.                                                             *)

\* However requests overtake each other, expire or fail, at most max of the
\* clock's readings within a window (shortened by the time a transaction may be
\* late) belong to requests that were let in by a count.
WindowBound ==
  \A r \in Kinds : \A s \in -MaxTime..MaxTime :
    Cardinality({t \in allowed[Key(r)] : s < t /\ t <= s + Limit(r).window - MaxDelay})
      <= Limit(r).max

\* A request is refused only if max other readings of its own key lie within its
\* window or after it, refused requests included.  So a client that is alone on
\* its key is let in again after a window without requests.
RefusedOnlyIfBusy ==
  [][\A c \in Clients : At(c, "exec") /\ req'[c].pc = "refused" =>
       LET r == req[c].kind
       IN  Cardinality({t \in seen[Key(r)] : t > req[c].now - Limit(r).window})
             >= Limit(r).max]_vars
=============================================================================
