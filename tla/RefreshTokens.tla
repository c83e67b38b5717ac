--------------------------- MODULE RefreshTokens ---------------------------
(***************************************************************************)
(* The Redis-backed refresh token store                                    *)
(* (internal/auth/adapter/redis/refresh_token_store.go) under concurrent   *)
(* requests.  A request is a goroutine serving one call of Issue, Verify,  *)
(* Rotate, Revoke or RevokeAll; every Redis round trip it makes is a step, *)
(* so the requests of several goroutines, or of several servers sharing    *)
(* one Redis, interleave between any two round trips.  A TxPipeline        *)
(* (MULTI/EXEC) is one round trip and one atomic step.                     *)
(*                                                                         *)
(* A token stands for its SHA-256 hash.  Tokens are numbered in the order  *)
(* of their created_at stamps, so "older" is "<".  Key lifetimes count     *)
(* down: life 0 means that the key does not exist.                         *)
(***************************************************************************)
EXTENDS Integers, Sequences, FiniteSets

CONSTANTS
  Clients,             \* goroutines serving requests
  Users,
  Fingerprints,        \* BuildFingerprint(User-Agent, IP)
  MaxSessionsPerUser,
  TTL,                 \* RefreshTokenTTL, in ticks of the clock
  Calls,               \* the calls that the environment makes
  MaxTokens,           \* bound: tokens generated in a behaviour
  MaxFaults            \* bound: Redis errors in a behaviour

AllCalls == {"Issue", "Verify", "Rotate", "Revoke", "RevokeAll", "Tick"}

ASSUME ConstantsAssumption ==
  /\ Users # {} /\ IsFiniteSet(Users)
  /\ Fingerprints # {}
  /\ MaxSessionsPerUser \in Nat \ {0}
  /\ TTL \in Nat \ {0}
  /\ Calls \subseteq AllCalls
  /\ MaxTokens \in Nat
  /\ MaxFaults \in Nat

VARIABLES
  data,     \* data[t]: the JSON payload of the t-th generated token
  life,     \* life[t]: remaining TTL of the key rftw:rt:<t>, 0 when absent
  index,    \* index[u]: the set rftw:rt:user:<u> with its remaining TTL
  req,      \* req[c]: the request that goroutine c serves
  held,     \* tokens whose plaintext was returned to a client
  faults,   \* Redis errors so far
  stored,   \* history: tokens that some EXEC has written
  evicted   \* history: tokens deleted by enforceMaxSessions

vars == <<data, life, index, req, held, faults, stored, evicted>>

Tokens == 1..MaxTokens
NoToken == 0

\* The remaining TTL of a key that never expires (Redis reports -1).
Persistent == TTL + 1

TokenData == [user : Users, fp : Fingerprints, parent : 0..MaxTokens]

\* A user's index: Redis keeps no empty set.
Absent == [members |-> {}, life |-> 0]
Index == [members : (SUBSET Tokens) \ {{}}, life : 1..Persistent] \cup {Absent}

\* Where a request stands: the Redis call it makes next.
PCs == {"idle", "issueExec", "scard", "smembers", "get", "srem",
        "rotateExec", "revokeExec", "revokeAll", "revokeAllExec"}

Request == [pc      : PCs,
            user    : Users,
            tok     : 0..MaxTokens,    \* the token presented or looked at
            new     : 0..MaxTokens,    \* the token being issued
            hashes  : SUBSET Tokens,   \* SMEMBERS result still to process
            tokens  : SUBSET Tokens,   \* enforceMaxSessions: live tokens seen
            targets : SUBSET Tokens]   \* history: live when RevokeAll began

\* A goroutine between requests; its other fields mean nothing.
Idle == [pc |-> "idle", user |-> CHOOSE u \in Users : TRUE, tok |-> NoToken,
         new |-> NoToken, hashes |-> {}, tokens |-> {}, targets |-> {}]

Live(t) == life[t] > 0

LiveOf(u) == {t \in 1..Len(data) : Live(t) /\ data[t].user = u}

TypeOK ==
  /\ data \in Seq(TokenData) /\ Len(data) <= MaxTokens
  /\ life \in [Tokens -> 0..TTL]
  /\ index \in [Users -> Index]
  /\ req \in [Clients -> Request]
  /\ held \subseteq Tokens
  /\ faults \in 0..MaxFaults
  /\ stored \subseteq Tokens
  /\ evicted \subseteq Tokens

Init ==
  /\ data = <<>>
  /\ life = [t \in Tokens |-> 0]
  /\ index = [u \in Users |-> Absent]
  /\ req = [c \in Clients |-> Idle]
  /\ held = {}
  /\ faults = 0
  /\ stored = {} /\ evicted = {}

-----------------------------------------------------------------------------
(* Redis set commands on a key with a TTL.                                 *)

\* SADD creates a missing key without a TTL and keeps the TTL of a present one.
SAdd(ix, t) ==
  [members |-> ix.members \cup {t},
   life    |-> IF ix.members = {} THEN Persistent ELSE ix.life]

\* SREM of the last member deletes the key.
SRem(ix, t) ==
  IF ix.members \subseteq {t} THEN Absent
  ELSE [members |-> ix.members \ {t}, life |-> ix.life]

\* EXPIRE restarts the TTL of a present key.
Expire(ix) ==
  IF ix.members = {} THEN ix ELSE [members |-> ix.members, life |-> TTL]

\* One tick of the clock on the key of a user's index.
Age(ix) ==
  IF ix.members = {} \/ ix.life = Persistent THEN ix
  ELSE IF ix.life = 1 THEN Absent
  ELSE [members |-> ix.members, life |-> ix.life - 1]

Tick ==
  /\ "Tick" \in Calls
  /\ life' = [t \in Tokens |-> IF life[t] > 0 THEN life[t] - 1 ELSE 0]
  /\ index' = [u \in Users |-> Age(index[u])]
  /\ UNCHANGED <<data, req, held, faults, stored, evicted>>

-----------------------------------------------------------------------------
(* Steps shared by the calls.                                              *)

Goto(c, pc) == req' = [req EXCEPT ![c].pc = pc]

Return(c) == req' = [req EXCEPT ![c] = Idle]

\* generateOpaqueToken and the payload marshalled for it.
Generate(u, f, parent) ==
  /\ Len(data) < MaxTokens
  /\ data' = Append(data, [user |-> u, fp |-> f, parent |-> parent])

NextToken == Len(data) + 1

-----------------------------------------------------------------------------
(* Issue.                                                                  *)

IssueFor(c, u, f) ==
  /\ req[c].pc = "idle"
  /\ Generate(u, f, NoToken)
  /\ req' = [req EXCEPT ![c] = [Idle EXCEPT !.pc = "issueExec",
                                            !.user = u,
                                            !.new = NextToken]]
  /\ UNCHANGED <<life, index, held, faults, stored, evicted>>

Issue(c) ==
  /\ "Issue" \in Calls
  /\ \E u \in Users, f \in Fingerprints : IssueFor(c, u, f)

\* Faulty variant: EXPIRE only for a new index.
IssueTxExpireOnce(c) ==
  LET u == req[c].user
      t == req[c].new
  IN  /\ life' = [life EXCEPT ![t] = TTL]
      /\ index' = [index EXCEPT ![u] = IF @.members = {} THEN Expire(SAdd(@, t)) ELSE SAdd(@, t)]
      /\ stored' = stored \cup {t}

\* SET, SADD and EXPIRE in one transaction.
IssueTx(c) ==
  LET u == req[c].user
      t == req[c].new
  IN  /\ life' = [life EXCEPT ![t] = TTL]
      /\ index' = [index EXCEPT ![u] = Expire(SAdd(@, t))]
      /\ stored' = stored \cup {t}

IssueExec(c) ==
  /\ req[c].pc = "issueExec"
  /\ IssueTx(c)
  /\ Goto(c, "scard")
  /\ UNCHANGED <<data, held, faults, evicted>>

\* Issue returns the plaintext whatever enforceMaxSessions reports.
IssueReturn(c) ==
  /\ held' = held \cup {req[c].new}
  /\ Return(c)

-----------------------------------------------------------------------------
(* enforceMaxSessions, the tail of Issue.                                  *)

\* Faulty variant: the limit is compared with an off-by-one.
EnforceSCardOffByOne(c) ==
  /\ req[c].pc = "scard"
  /\ IF Cardinality(index[req[c].user].members) <= MaxSessionsPerUser + 1
     THEN IssueReturn(c)
     ELSE Goto(c, "smembers") /\ UNCHANGED held
  /\ UNCHANGED <<data, life, index, faults, stored, evicted>>

EnforceSCard(c) ==
  /\ req[c].pc = "scard"
  /\ IF Cardinality(index[req[c].user].members) <= MaxSessionsPerUser
     THEN IssueReturn(c)
     ELSE Goto(c, "smembers") /\ UNCHANGED held
  /\ UNCHANGED <<data, life, index, faults, stored, evicted>>

EnforceSMembers(c) ==
  /\ req[c].pc = "smembers"
  /\ req' = [req EXCEPT ![c].pc = "get",
                        ![c].hashes = index[req[c].user].members]
  /\ UNCHANGED <<data, life, index, held, faults, stored, evicted>>

\* Faulty variant: a hash whose token is gone stays in the work list.
EnforceGetKeepsHash(c) ==
  /\ req[c].pc = "get"
  /\ \E h \in req[c].hashes :
       IF Live(h)
       THEN req' = [req EXCEPT ![c].hashes = @ \ {h},
                               ![c].tokens = @ \cup {h}]
       ELSE req' = [req EXCEPT ![c].tok = h, ![c].pc = "srem"]
  /\ UNCHANGED <<data, life, index, held, faults, stored, evicted>>

\* GET of one of the hashes, in the arbitrary order of SMEMBERS.
EnforceGet(c) ==
  /\ req[c].pc = "get"
  /\ \E h \in req[c].hashes :
       IF Live(h)
       THEN req' = [req EXCEPT ![c].hashes = @ \ {h},
                               ![c].tokens = @ \cup {h}]
       ELSE req' = [req EXCEPT ![c].hashes = @ \ {h},
                               ![c].tok = h,
                               ![c].pc = "srem"]
  /\ UNCHANGED <<data, life, index, held, faults, stored, evicted>>

\* A hash whose GET did not return a payload leaves the index.
EnforceSRem(c) ==
  /\ req[c].pc = "srem"
  /\ index' = [index EXCEPT ![req[c].user] = SRem(@, req[c].tok)]
  /\ Goto(c, "get")
  /\ UNCHANGED <<data, life, held, faults, stored, evicted>>

\* The oldest of the tokens seen is deleted while there are too many.
Oldest(S) == {t \in S : \A s \in S : t <= s}

\* Faulty variant: one token too many is evicted.
ExcessAtLimit(c) == Cardinality(req[c].tokens) >= MaxSessionsPerUser

Excess(c) == Cardinality(req[c].tokens) > MaxSessionsPerUser

EnforceEvict(c) ==
  /\ req[c].pc = "get" /\ req[c].hashes = {} /\ Excess(c)
  /\ \E t \in Oldest(req[c].tokens) :
       /\ life' = [life EXCEPT ![t] = 0]
       /\ index' = [index EXCEPT ![req[c].user] = SRem(@, t)]
       /\ req' = [req EXCEPT ![c].tokens = @ \ {t}]
       /\ evicted' = evicted \cup {t}
  /\ UNCHANGED <<data, held, faults, stored>>

EnforceDone(c) ==
  /\ req[c].pc = "get" /\ req[c].hashes = {} /\ ~Excess(c)
  /\ IssueReturn(c)
  /\ UNCHANGED <<data, life, index, faults, stored, evicted>>

-----------------------------------------------------------------------------
(* RevokeAll: called by LogoutAll, and by Verify and Rotate when the       *)
(* fingerprint differs (they ignore its result).                           *)

BeginRevokeAll(c, u) ==
  req' = [req EXCEPT ![c] = [Idle EXCEPT !.pc = "revokeAll",
                                         !.user = u,
                                         !.targets = LiveOf(u)]]

RevokeAllOf(c, u) ==
  /\ req[c].pc = "idle"
  /\ BeginRevokeAll(c, u)
  /\ UNCHANGED <<data, life, index, held, faults, stored, evicted>>

RevokeAll(c) ==
  /\ "RevokeAll" \in Calls
  /\ \E u \in Users : RevokeAllOf(c, u)

\* An empty index ends the call: there is nothing to revoke.
RevokeAllSMembers(c) ==
  /\ req[c].pc = "revokeAll"
  /\ LET hashes == index[req[c].user].members
     IN  IF hashes = {}
         THEN Return(c)
         ELSE req' = [req EXCEPT ![c].pc = "revokeAllExec", ![c].hashes = hashes]
  /\ UNCHANGED <<data, life, index, held, faults, stored, evicted>>

\* DEL of every token of the snapshot and of the index key.
RevokeAllTx(c) ==
  /\ life' = [t \in Tokens |-> IF t \in req[c].hashes THEN 0 ELSE life[t]]
  /\ index' = [index EXCEPT ![req[c].user] = Absent]

RevokeAllExec(c) ==
  /\ req[c].pc = "revokeAllExec"
  /\ RevokeAllTx(c)
  /\ Return(c)
  /\ UNCHANGED <<data, held, faults, stored, evicted>>

-----------------------------------------------------------------------------
(* Verify, Rotate and Revoke start with a GET of the presented token.  A   *)
(* missing key, and in Verify a matching fingerprint, end the call with no *)
(* effect on the store.                                                    *)

\* Faulty variant: a successful Verify restarts the TTLs of token and index.
VerifySliding(c) ==
  /\ "Verify" \in Calls /\ req[c].pc = "idle"
  /\ \E t \in held, f \in Fingerprints :
       /\ Live(t)
       /\ IF data[t].fp # f
          THEN BeginRevokeAll(c, data[t].user) /\ UNCHANGED <<life, index>>
          ELSE /\ life' = [life EXCEPT ![t] = TTL]
               /\ index' = [index EXCEPT ![data[t].user] = Expire(@)]
               /\ UNCHANGED req
  /\ UNCHANGED <<data, held, faults, stored, evicted>>

Verify(c) ==
  /\ "Verify" \in Calls /\ req[c].pc = "idle"
  /\ \E t \in held, f \in Fingerprints :
       /\ Live(t) /\ data[t].fp # f
       /\ BeginRevokeAll(c, data[t].user)
  /\ UNCHANGED <<data, life, index, held, faults, stored, evicted>>

RotateWith(c, t, f) ==
  /\ req[c].pc = "idle" /\ Live(t)
  /\ IF data[t].fp # f
     THEN BeginRevokeAll(c, data[t].user) /\ UNCHANGED data
     ELSE /\ Generate(data[t].user, f, t)
          /\ req' = [req EXCEPT ![c] = [Idle EXCEPT !.pc = "rotateExec",
                                                    !.user = data[t].user,
                                                    !.tok = t,
                                                    !.new = NextToken]]
  /\ UNCHANGED <<life, index, held, faults, stored, evicted>>

Rotate(c) ==
  /\ "Rotate" \in Calls
  /\ \E t \in held, f \in Fingerprints : RotateWith(c, t, f)

\* Faulty variant: the old key is not deleted.
RotateTxKeepsOld(c) ==
  LET u == req[c].user
      old == req[c].tok
      new == req[c].new
  IN  /\ life' = [life EXCEPT ![new] = TTL]
      /\ index' = [index EXCEPT ![u] = SAdd(@, new)]
      /\ stored' = stored \cup {new}

\* Faulty variant: the user's other tokens are deleted with the old one.
RotateTxSingle(c) ==
  LET u == req[c].user
      new == req[c].new
  IN  /\ life' = [t \in Tokens |-> IF t = new THEN TTL ELSE IF t \in LiveOf(u) THEN 0 ELSE life[t]]
      /\ index' = [index EXCEPT ![u] = SAdd(SRem(@, req[c].tok), new)]
      /\ stored' = stored \cup {new}

\* DEL and SREM of the old token, SET and SADD of the new one.
RotateTx(c) ==
  LET u == req[c].user
      old == req[c].tok
      new == req[c].new
  IN  /\ life' = [life EXCEPT ![old] = 0, ![new] = TTL]
      /\ index' = [index EXCEPT ![u] = SAdd(SRem(@, old), new)]
      /\ stored' = stored \cup {new}

RotateExec(c) ==
  /\ req[c].pc = "rotateExec"
  /\ RotateTx(c)
  /\ held' = held \cup {req[c].new}
  /\ Return(c)
  /\ UNCHANGED <<data, faults, evicted>>

RevokeToken(c, t) ==
  /\ req[c].pc = "idle" /\ Live(t)
  /\ req' = [req EXCEPT ![c] = [Idle EXCEPT !.pc = "revokeExec",
                                            !.user = data[t].user,
                                            !.tok = t]]
  /\ UNCHANGED <<data, life, index, held, faults, stored, evicted>>

Revoke(c) ==
  /\ "Revoke" \in Calls
  /\ \E t \in held : RevokeToken(c, t)

\* Faulty variant: the keys are built from the plaintext of the token.
RevokeTxPlaintext(c) == UNCHANGED <<life, index>>

\* DEL of the token and SREM from its owner's index.
RevokeTx(c) ==
  /\ life' = [life EXCEPT ![req[c].tok] = 0]
  /\ index' = [index EXCEPT ![req[c].user] = SRem(@, req[c].tok)]

RevokeExec(c) ==
  /\ req[c].pc = "revokeExec"
  /\ RevokeTx(c)
  /\ Return(c)
  /\ UNCHANGED <<data, held, faults, stored, evicted>>

-----------------------------------------------------------------------------
(* Redis errors.  A failed round trip either did not reach Redis, or took  *)
(* effect and lost its reply; the caller cannot tell.                      *)

Fault == faults < MaxFaults /\ faults' = faults + 1

\* The call fails: the request returns an error and no token.
CallFails(c) ==
  /\ req[c].pc \in {"issueExec", "rotateExec", "revokeExec", "revokeAll",
                    "revokeAllExec"}
  /\ Fault /\ Return(c)
  /\ UNCHANGED <<data, life, index, held, stored, evicted>>

\* The transaction commits and its reply is lost: the request returns an error.
ReplyLost(c) ==
  /\ \/ req[c].pc = "issueExec" /\ IssueTx(c)
     \/ req[c].pc = "rotateExec" /\ RotateTx(c)
     \/ req[c].pc = "revokeExec" /\ RevokeTx(c) /\ UNCHANGED stored
     \/ req[c].pc = "revokeAllExec" /\ RevokeAllTx(c) /\ UNCHANGED stored
  /\ Fault /\ Return(c)
  /\ UNCHANGED <<data, held, evicted>>

\* SCARD or SMEMBERS fails: enforcement is abandoned, Issue succeeds.
EnforceFails(c) ==
  /\ req[c].pc \in {"scard", "smembers"}
  /\ Fault /\ IssueReturn(c)
  /\ UNCHANGED <<data, life, index, stored, evicted>>

\* Any GET error is handled like a missing key.
EnforceGetFails(c) ==
  /\ req[c].pc = "get"
  /\ \E h \in req[c].hashes :
       req' = [req EXCEPT ![c].hashes = @ \ {h}, ![c].tok = h, ![c].pc = "srem"]
  /\ Fault
  /\ UNCHANGED <<data, life, index, held, stored, evicted>>

\* The errors of SREM and of the evicting transaction are dropped.
EnforceWriteFails(c) ==
  /\ \/ req[c].pc = "srem" /\ Goto(c, "get")
     \/ /\ req[c].pc = "get" /\ req[c].hashes = {} /\ Excess(c)
        /\ \E t \in Oldest(req[c].tokens) : req' = [req EXCEPT ![c].tokens = @ \ {t}]
  /\ Fault
  /\ UNCHANGED <<data, life, index, held, stored, evicted>>

-----------------------------------------------------------------------------
Step(c) ==
  \/ Issue(c) \/ IssueExec(c)
  \/ EnforceSCard(c) \/ EnforceSMembers(c) \/ EnforceGet(c)
  \/ EnforceSRem(c) \/ EnforceEvict(c) \/ EnforceDone(c)
  \/ RevokeAll(c) \/ RevokeAllSMembers(c) \/ RevokeAllExec(c)
  \/ Verify(c)
  \/ Rotate(c) \/ RotateExec(c)
  \/ Revoke(c) \/ RevokeExec(c)
  \/ CallFails(c) \/ ReplyLost(c)
  \/ EnforceFails(c) \/ EnforceGetFails(c) \/ EnforceWriteFails(c)

Next == Tick \/ \E c \in Clients : Step(c)

Spec == Init /\ [][Next]_vars

\* Time passes, and a goroutine that serves a request goes on with it.
Serve(c) ==
  \/ IssueExec(c)
  \/ EnforceSCard(c) \/ EnforceSMembers(c) \/ EnforceGet(c)
  \/ EnforceSRem(c) \/ EnforceEvict(c) \/ EnforceDone(c)
  \/ RevokeAllSMembers(c) \/ RevokeAllExec(c)
  \/ RotateExec(c) \/ RevokeExec(c)

FairSpec == Spec /\ WF_vars(Tick) /\ \A c \in Clients : WF_vars(Serve(c))

-----------------------------------------------------------------------------
(* Properties.                                                             *)

\* A token that was written once and is gone (rotated, revoked, evicted or
\* expired) never becomes valid again, whatever requests were in flight when
\* it went: no late EXEC of Issue or Rotate writes its key a second time.
NoResurrection ==
  [][\A t \in stored : ~Live(t) => ~Live(t)']_vars

Registry ==
  INSTANCE SessionRegistry
    WITH valid <- [u \in Users |-> LiveOf(u)], dead <- {t \in stored : ~Live(t)}

\* The store keeps its promise however its round trips interleave, fail and lose
\* their replies: each of them opens one token, exchanges a token for another one
\* of the same user, ends tokens, or leaves the valid tokens as they are.
ImplementsRegistry == Registry!Spec

\* Rotation swaps: once the successor of a token has been written, the token
\* itself is not valid any more, even when several Rotate, Revoke, RevokeAll
\* and Issue calls race and replies are lost ("Both operations must succeed
\* or both must fail").
RotationSwaps ==
  \A t \in stored : data[t].parent # NoToken => ~Live(data[t].parent)

\* enforceMaxSessions deletes a token only if at least MaxSessionsPerUser
\* younger tokens of the same user were written: concurrent enforcers working
\* on stale snapshots never log out one of a user's most recent sessions.
EvictsOnlyOldest ==
  \A t \in evicted :
    Cardinality({s \in stored : s > t /\ data[s].user = data[t].user})
      >= MaxSessionsPerUser

\* The index of a user lists only tokens written for that user, so that
\* RevokeAll and enforceMaxSessions never touch the session of another user.
IndexOwned ==
  \A u \in Users : \A t \in index[u].members :
    t \in stored /\ data[t].user = u

\* No token has two valid successors: Rotate is meant to be atomic "to
\* prevent race conditions during concurrent refresh attempts".
OneLiveSuccessor ==
  \A s, t \in stored :
    Live(s) /\ Live(t) /\ data[s].parent = data[t].parent
      /\ data[t].parent # NoToken => s = t

\* "MaxSessionsPerUser limits concurrent sessions; oldest auto-revoked on
\* exceed": when no request is in flight, no user has more valid tokens.
AtMostMaxSessions ==
  (\A c \in Clients : req[c].pc = "idle") =>
    \A u \in Users : Cardinality(LiveOf(u)) <= MaxSessionsPerUser

\* Every token dies: no call extends the lifetime of a token already written,
\* so each one expires at the latest RefreshTokenTTL after Issue or Rotate.
EveryTokenDies ==
  \A t \in Tokens : []<>(~Live(t))

\* Every request is answered: the loops of enforceMaxSessions end although
\* other requests keep changing the index they walk through.
EveryRequestReturns ==
  \A c \in Clients : []<>(req[c].pc = "idle")
=============================================================================
