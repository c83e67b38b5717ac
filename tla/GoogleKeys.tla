----------------------------- MODULE GoogleKeys -----------------------------
(***************************************************************************)
(* The cache of Google's signing keys and the validation of ID tokens with *)
(* it (internal/auth/adapter/oauth/google/provider.go).                    *)
(*                                                                         *)
(* Callbacks share one map of keys behind a read-write lock.  Whoever      *)
(* finds it older than ttl takes the write lock, looks again, and fetches  *)
(* the keys while holding it.  Meanwhile Google publishes new keys, signs  *)
(* with them later, and withdraws old ones.  An answer may be a while on   *)
(* its way; its age counts from its arrival.                               *)
(***************************************************************************)
EXTENDS Integers, FiniteSets

CONSTANTS
  Callers,     \* callbacks of Google logins
  Nobody,      \* no caller
  TTL,         \* jwksCache.ttl, one hour
  Lead,        \* Google publishes a key at least this long before using it
  MaxDelay,    \* an answer is at most this long on its way
  MaxKid,      \* bound: keys published
  MaxTime,     \* bound: clock
  MaxFailures  \* bound: answers that are error documents

ASSUME ConstantsAssumption ==
  /\ Nobody \notin Callers
  /\ TTL \in Nat \ {0} /\ MaxDelay \in Nat
  /\ MaxKid \in Nat \ {0} /\ MaxTime \in Nat /\ MaxFailures \in Nat
  /\ Lead \in Nat /\ Lead >= TTL + MaxDelay

VARIABLES
  now,        \* the clock
  posted,     \* the keys that Google publishes
  since,      \* since[k]: when Google published key k
  gone,       \* gone[k]: when Google withdrew key k
  cache,      \* jwksCache: keys and fetchAt
  writer,     \* the caller that holds the write lock, or Nobody
  req,        \* req[c]: the key ID of the token that caller c validates, the keys
              \* that it validates it with, and when Google sent them
  failures    \* bad answers so far

google == <<posted, since, gone>>
vars == <<now, posted, since, gone, cache, writer, req, failures>>

Kids == 1..MaxKid
Times == -Lead..MaxTime
Never == MaxTime + 1
Nil == {0}         \* Go's nil map
KeySets == (SUBSET Kids) \cup {Nil}
Idle == [pc |-> "idle", kid |-> 0, keys |-> Nil, sent |-> 0]
PCs == {"idle", "read", "lock", "fetch", "answer", "validate"}

TypeOK ==
  /\ now \in 0..MaxTime
  /\ posted \subseteq Kids
  /\ since \in [Kids -> Times \cup {Never}] /\ gone \in [Kids -> Times \cup {Never}]
  /\ cache \in [keys : KeySets, fetchAt : 0..MaxTime]
  /\ writer \in Callers \cup {Nobody}
  /\ req \in [Callers -> [pc : PCs, kid : 0..MaxKid, keys : KeySets, sent : 0..MaxTime]]
  /\ \A c \in Callers : req[c].kid = 0 <=> req[c].pc = "idle"
  /\ failures \in 0..MaxFailures

\* Google has signed with key 1 for a while; the provider has fetched nothing.
Init ==
  /\ now = 0 /\ posted = {1}
  /\ since = [k \in Kids |-> IF k = 1 THEN -Lead ELSE Never]
  /\ gone = [k \in Kids |-> Never]
  /\ cache = [keys |-> Nil, fetchAt |-> 0]
  /\ writer = Nobody
  /\ req = [c \in Callers |-> Idle]
  /\ failures = 0

At(c, pc) == req[c].pc = pc
Goto(c, pc) == req' = [req EXCEPT ![c].pc = pc]
Return(c) == req' = [req EXCEPT ![c] = Idle]
UseKeys(c, keys) ==
  req' = [req EXCEPT ![c] = [@ EXCEPT !.pc = "validate", !.keys = keys, !.sent = 0]]

-----------------------------------------------------------------------------
(* Google.                                                                 *)

SignsWith(k) == k \in posted /\ now >= since[k] + Lead

\* A key is kept as long as some token that it signed is valid.
InUse(k) == \E c \in Callers : req[c].kid = k

Publish(k) ==
  /\ since[k] = Never
  /\ posted' = posted \cup {k}
  /\ since' = [since EXCEPT ![k] = now]
  /\ UNCHANGED <<now, gone, cache, writer, req, failures>>

Withdraw(k) ==
  /\ k \in posted /\ ~InUse(k)
  /\ \E j \in posted \ {k} : SignsWith(j)
  /\ posted' = posted \ {k}
  /\ gone' = [gone EXCEPT ![k] = now]
  /\ UNCHANGED <<now, since, cache, writer, req, failures>>

\* The answer to the fetch: the keys, or an error document.  The status of the
\* response is not looked at, and a JSON object without keys is an empty set.
Answer(c) ==
  /\ At(c, "fetch")
  /\ \/ /\ req' = [req EXCEPT ![c].pc = "answer", ![c].keys = posted, ![c].sent = now]
        /\ UNCHANGED failures
     \/ /\ failures < MaxFailures /\ failures' = failures + 1
        /\ req' = [req EXCEPT ![c].pc = "answer", ![c].keys = {}, ![c].sent = now]
  /\ UNCHANGED <<now, google, cache, writer>>

-----------------------------------------------------------------------------
(* validateIDToken and getKeys.                                            *)

\* HandleCallback has exchanged its code for a token signed with key k.
Start(c, k) ==
  /\ At(c, "idle") /\ SignsWith(k)
  /\ req' = [req EXCEPT ![c] = [Idle EXCEPT !.pc = "read", !.kid = k]]
  /\ UNCHANGED <<now, google, cache, writer, failures>>

Fresh == cache.keys # Nil /\ now - cache.fetchAt < TTL

\* Faulty variant: the age is not looked at.
ReadStale(c) ==
  /\ At(c, "read") /\ writer = Nobody
  /\ IF cache.keys # Nil THEN UseKeys(c, cache.keys) ELSE Goto(c, "lock")
  /\ UNCHANGED <<now, google, cache, writer, failures>>

\* The read lock is held for the comparison only.
Read(c) ==
  /\ At(c, "read") /\ writer = Nobody
  /\ IF Fresh THEN UseKeys(c, cache.keys) ELSE Goto(c, "lock")
  /\ UNCHANGED <<now, google, cache, writer, failures>>

\* Faulty variant: no second look at the age.
LockUnchecked(c) ==
  /\ At(c, "lock") /\ writer = Nobody
  /\ writer' = c /\ Goto(c, "fetch")
  /\ UNCHANGED <<now, google, cache, failures>>

\* "Double-check after acquiring write lock."
Lock(c) ==
  /\ At(c, "lock") /\ writer = Nobody
  /\ IF Fresh THEN UseKeys(c, cache.keys) /\ UNCHANGED writer
     ELSE writer' = c /\ Goto(c, "fetch")
  /\ UNCHANGED <<now, google, cache, failures>>

\* Faulty variant: the keys are added to those of the cache.
StoreMerges(c) ==
  /\ At(c, "answer")
  /\ cache' = [keys |-> req[c].keys \cup (cache.keys \ Nil), fetchAt |-> now]
  /\ writer' = Nobody
  /\ UseKeys(c, req[c].keys)
  /\ UNCHANGED <<now, google, failures>>

Store(c) ==
  /\ At(c, "answer")
  /\ cache' = [keys |-> req[c].keys, fetchAt |-> now]
  /\ writer' = Nobody
  /\ UseKeys(c, req[c].keys)
  /\ UNCHANGED <<now, google, failures>>

\* Faulty variant: the fetch is repeated until it succeeds.
FetchFailsRetries(c) ==
  /\ req[c].pc \in {"fetch", "answer"}
  /\ Goto(c, "fetch")
  /\ UNCHANGED <<now, google, cache, writer, failures>>

\* No connection, an answer that is not JSON, or a browser that went away.
FetchFails(c) ==
  /\ req[c].pc \in {"fetch", "answer"}
  /\ writer' = Nobody
  /\ Return(c)
  /\ UNCHANGED <<now, google, cache, failures>>

\* The signature, issuer, audience and expiry are checked with the key found.
Validate(c) ==
  /\ At(c, "validate")
  /\ Return(c)
  /\ UNCHANGED <<now, google, cache, writer, failures>>

Tick ==
  /\ now < MaxTime
  /\ \A c \in Callers : At(c, "answer") => now - req[c].sent < MaxDelay
  /\ now' = now + 1
  /\ UNCHANGED <<google, cache, writer, req, failures>>

-----------------------------------------------------------------------------
Next ==
  \/ Tick
  \/ \E k \in Kids : Publish(k) \/ Withdraw(k)
  \/ \E c \in Callers :
       \/ \E k \in Kids : Start(c, k)
       \/ Read(c) \/ Lock(c) \/ Answer(c) \/ Store(c) \/ FetchFails(c) \/ Validate(c)

Spec == Init /\ [][Next]_vars

\* sync.RWMutex starves nobody.  A fetch has no deadline of its own: it ends
\* because Google answers or because the browser goes away.
FairSpec ==
  /\ Spec
  /\ \A c \in Callers :
       /\ SF_vars(Read(c)) /\ SF_vars(Lock(c)) /\ WF_vars(Validate(c))
       /\ WF_vars(Answer(c) \/ Store(c) \/ FetchFails(c))

-----------------------------------------------------------------------------
(* Properties.                                                             *)

\* "JWKS should be fetched only once due to caching": when many callbacks find
\* the keys too old at the same moment, one of them replaces them, and they are
\* replaced again only when they are too old again.
OneFetchPerTTL ==
  [][\A c \in Callers : At(c, "answer") /\ req'[c].pc = "validate" => ~Fresh]_vars

\* An unknown key ID is refused without a second fetch.  Nevertheless a token of
\* Google is refused for that reason only while the answer in the cache was not
\* a key set, provided that Google publishes its keys early enough.
GoodTokenAccepted ==
  \A c \in Callers :
    At(c, "validate") => req[c].kid \in req[c].keys \/ req[c].keys = {}

\* A key that Google withdrew is not used any more once the lifetime of the cache
\* and the way of an answer have passed, whoever fetched and whenever.
WithdrawnForgotten ==
  Fresh => \A k \in cache.keys : now < gone[k] + TTL + MaxDelay

\* Every validation ends, although the lock is held during the fetch and all
\* others wait for it, those included whose keys would not need to be fetched.
EveryValidationReturns == \A c \in Callers : []<>At(c, "idle")
=============================================================================
