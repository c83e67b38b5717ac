-------------------------- MODULE GoogleKeysProofs --------------------------
(***************************************************************************)
(* Proofs about GoogleKeys, for any set of callbacks, any lifetime of the  *)
(* cache, any delay of Google's answers and any number of keys, provided   *)
(* that Google publishes its keys early enough (ConstantsAssumption).      *)
(***************************************************************************)
EXTENDS GoogleKeys, TLAPS

Records == [pc : PCs, kid : 0..MaxKid, keys : KeySets, sent : 0..MaxTime]

\* TypeOK; which requests name a key is part of CallerOK.
Types ==
  /\ now \in 0..MaxTime
  /\ posted \subseteq Kids
  /\ since \in [Kids -> Times \cup {Never}] /\ gone \in [Kids -> Times \cup {Never}]
  /\ cache \in [keys : KeySets, fetchAt : 0..MaxTime]
  /\ writer \in Callers \cup {Nobody}
  /\ req \in [Callers -> Records]
  /\ failures \in 0..MaxFailures

\* Google publishes a key once, and withdraws what it has published.
PostedOK ==
  /\ \A k \in posted : since[k] <= now /\ gone[k] = Never
  /\ \A k \in Kids : gone[k] # Never => since[k] <= now

\* A set of keys that Google sent between the times from and to: it has every
\* key that Google published before and still publishes, unless it is no key set,
\* and none that was withdrawn before.
SentBetween(keys, from, to) ==
  /\ from <= to /\ to <= now
  /\ keys # Nil /\ keys # {} => \A k \in posted : since[k] < from => k \in keys
  /\ keys # Nil => \A k \in keys : from <= gone[k]

CacheOK == SentBetween(cache.keys, cache.fetchAt - MaxDelay, cache.fetchAt)

\* The caller that fetches holds the lock, under which the keys stay too old; the
\* key of a token has been published long enough and stays published.
CallerOK(c) ==
  /\ req[c].kid = 0 <=> At(c, "idle")
  /\ ~At(c, "idle") => req[c].kid \in posted /\ since[req[c].kid] + Lead <= now
  /\ req[c].pc \in {"fetch", "answer"} => writer = c /\ ~Fresh
  /\ At(c, "answer") =>
       /\ now - req[c].sent <= MaxDelay
       /\ SentBetween(req[c].keys, req[c].sent, req[c].sent) /\ req[c].keys # Nil
  /\ At(c, "validate") => req[c].kid \in req[c].keys \/ req[c].keys = {}

Inv == Types /\ PostedOK /\ CacheOK /\ \A c \in Callers : CallerOK(c)

\* Integer facts about the constants and the sets of times.
LEMMA Numbers ==
  /\ TTL \in Nat /\ TTL > 0 /\ MaxDelay \in Nat /\ Lead \in Nat /\ MaxTime \in Nat
  /\ Lead >= TTL + MaxDelay
  /\ Times \cup {Never} \subseteq Int /\ 0..MaxTime \subseteq Int /\ 0..MaxTime \subseteq Times
  /\ \A t \in 0..MaxTime : t < Never
  /\ MaxKid \in Nat /\ 1 \in Kids /\ MaxFailures \in Nat
  /\ Nobody \notin Callers
BY ConstantsAssumption DEF Times, Never, Kids

\* Nothing is cached and nobody asks at first.
THEOREM InitInv == Init => Inv
<1> SUFFICES ASSUME Init PROVE Inv
  OBVIOUS
<1>1. Idle \in Records
  BY Numbers DEF Idle, Records, PCs, KeySets
<1>2. Types
  BY <1>1, Numbers DEF Init, Types, KeySets, Times, Never
<1>3. PostedOK
  BY Numbers DEF Init, PostedOK
<1>4. CacheOK
  BY Numbers DEF Init, CacheOK, SentBetween
<1>5. \A c \in Callers : CallerOK(c)
  BY DEF Init, CallerOK, At, Idle
<1> QED  BY <1>2, <1>3, <1>4, <1>5 DEF Inv

\* A caller changes without the others.
LEMMA Update ==
    ASSUME Types, NEW c \in Callers, NEW new \in Records, req' = [req EXCEPT ![c] = new]
    PROVE  /\ req' \in [Callers -> Records] /\ req'[c] = new
           /\ \A d \in Callers \ {c} : req'[d] = req[d]
BY DEF Types

\* Goto keeps all but the place of a caller.
LEMMA GotoFacts ==
    ASSUME Types, NEW c \in Callers, NEW pc \in PCs, Goto(c, pc)
    PROVE  /\ req' \in [Callers -> Records]
           /\ req'[c].pc = pc /\ req'[c].kid = req[c].kid
           /\ \A d \in Callers \ {c} : req'[d] = req[d]
<1> DEFINE new == [req[c] EXCEPT !.pc = pc]
<1>1. req[c] \in Records
  BY DEF Types
<1>2. new \in Records /\ new.pc = pc /\ new.kid = req[c].kid
  BY <1>1 DEF Records
<1>3. req' = [req EXCEPT ![c] = new]
  BY DEF Goto, Types
<1> HIDE DEF new
<1> QED  BY <1>2, <1>3, Update, Zenon

\* UseKeys lets a caller validate with the keys it was given.
LEMMA UseKeysFacts ==
    ASSUME Types, NEW c \in Callers, NEW keys \in KeySets, UseKeys(c, keys)
    PROVE  /\ req' \in [Callers -> Records]
           /\ req'[c].pc = "validate" /\ req'[c].kid = req[c].kid /\ req'[c].keys = keys
           /\ \A d \in Callers \ {c} : req'[d] = req[d]
<1> DEFINE new == [req[c] EXCEPT !.pc = "validate", !.keys = keys, !.sent = 0]
<1>1. req[c] \in Records /\ 0 \in 0..MaxTime
  BY Numbers DEF Types
<1>2. new \in Records /\ new.pc = "validate" /\ new.kid = req[c].kid /\ new.keys = keys
  BY <1>1, Zenon DEF Records, PCs
<1>3. req' = [req EXCEPT ![c] = new]
  BY DEF UseKeys, Types
<1> HIDE DEF new
<1> QED  BY <1>2, <1>3, Update, Zenon

\* Return makes a caller idle.
LEMMA ReturnFacts ==
    ASSUME Types, NEW c \in Callers, Return(c)
    PROVE  /\ req' \in [Callers -> Records] /\ req'[c].pc = "idle" /\ req'[c].kid = 0
           /\ \A d \in Callers \ {c} : req'[d] = req[d]
<1>1. Idle \in Records /\ Idle.pc = "idle" /\ Idle.kid = 0
  BY Numbers DEF Idle, Records, PCs, KeySets
<1> QED  BY <1>1, Update, Zenon DEF Return

\* A step that moves one caller and changes neither Google, the clock nor the
\* cache, and the lock only from or to that caller, keeps the invariant if the
\* caller itself is all right after it.
LEMMA CallerStep ==
    ASSUME Inv, NEW c \in Callers,
           UNCHANGED <<now, google, cache>>,
           writer' \in Callers \cup {Nobody}, failures' \in 0..MaxFailures,
           writer' # writer => writer \in {c, Nobody},
           req' \in [Callers -> Records],
           \A d \in Callers \ {c} : req'[d] = req[d],
           CallerOK(c)'
    PROVE  Inv'
<1>1. Types' /\ PostedOK' /\ CacheOK'
  BY DEF Inv, Types, PostedOK, CacheOK, SentBetween, google
<1>2. ASSUME NEW d \in Callers PROVE CallerOK(d)'
  <2>1. CASE d = c
    BY <2>1
  <2>2. CASE d # c
    <3>1. CallerOK(d) /\ req'[d] = req[d]
      BY <2>2 DEF Inv
    <3>2. req[d].pc \in {"fetch", "answer"} => writer' = d
      BY <2>2, <3>1, Numbers DEF CallerOK
    <3> QED  BY <3>1, <3>2 DEF CallerOK, At, Fresh, SentBetween, google
  <2> QED  BY <2>1, <2>2
<1> QED  BY <1>1, <1>2 DEF Inv

\* Keys that are not too old have the key of every token in use: it was published
\* before the answer in the cache was sent.
LEMMA FreshKeys ==
    ASSUME Inv, Fresh, NEW c \in Callers, ~At(c, "idle")
    PROVE  req[c].kid \in cache.keys \/ cache.keys = {}
<1>1. /\ req[c].kid \in posted /\ req[c].kid \in Kids
      /\ since[req[c].kid] + Lead <= now /\ since[req[c].kid] \in Int
  BY Numbers DEF Inv, CallerOK, Types
<1>2. cache.fetchAt \in Int /\ now \in Int /\ now - cache.fetchAt < TTL /\ cache.keys # Nil
  BY Numbers DEF Fresh, Inv, Types
<1>3. since[req[c].kid] < cache.fetchAt - MaxDelay
  BY <1>1, <1>2, Numbers
<1> QED  BY <1>1, <1>2, <1>3 DEF Inv, CacheOK, SentBetween

\* Every step of Google, of the clock and of the callers preserves the invariant.
THEOREM NextInv == Inv /\ [Next]_vars => Inv'
<1> SUFFICES ASSUME Inv, [Next]_vars PROVE Inv'
  OBVIOUS
<1>0. Types /\ PostedOK /\ CacheOK /\ \A c \in Callers : CallerOK(c)
  BY DEF Inv
<1>1. CASE Tick
  <2>1. /\ now' = now + 1 /\ now' \in 0..MaxTime /\ now \in Int
        /\ UNCHANGED <<posted, since, gone, cache, writer, req, failures>>
    BY <1>0, <1>1, Numbers DEF Tick, Types, google
  <2>2. Types' /\ PostedOK'
    BY <1>0, <2>1, Numbers DEF Types, PostedOK
  <2>3. ASSUME NEW keys, NEW from \in Int, NEW to \in Int, SentBetween(keys, from, to)
        PROVE  SentBetween(keys, from, to)'
    BY <2>1, <2>3 DEF SentBetween
  <2>4. CacheOK'
    BY <1>0, <2>1, <2>3, Numbers DEF CacheOK, Types
  <2>5. ASSUME NEW c \in Callers PROVE CallerOK(c)'
    <3>1. CallerOK(c) /\ req[c].sent \in Int /\ cache.fetchAt \in Int
      BY <1>0, Numbers DEF Types, Records
    <3>2. ~Fresh => ~Fresh'
      BY <2>1, <3>1, Numbers DEF Fresh
    <3>3. ~At(c, "idle") => since[req[c].kid] + Lead <= now'
      <4>1. ASSUME ~At(c, "idle")
            PROVE  since[req[c].kid] + Lead <= now /\ since[req[c].kid] \in Int
        BY <1>0, <3>1, <4>1, Numbers DEF CallerOK, Types
      <4> QED  BY <2>1, <4>1, Numbers
    <3>4. At(c, "answer") => now' - req[c].sent <= MaxDelay
      BY <1>1, <2>1, <3>1, Numbers DEF Tick
    <3>5. At(c, "answer") => SentBetween(req[c].keys, req[c].sent, req[c].sent)'
      BY <2>1, <2>3, <3>1 DEF CallerOK
    <3> QED  BY <2>1, <3>1, <3>2, <3>3, <3>4, <3>5 DEF CallerOK, At
  <2> QED  BY <2>2, <2>4, <2>5 DEF Inv
<1>2. ASSUME NEW k \in Kids, Publish(k) PROVE Inv'
  <2>0. since[k] = Never /\ now \in Int /\ now < Never /\ Never \in Int /\ now \in Times
    BY <1>0, <1>2, Numbers DEF Publish, Types
  <2>1. /\ k \notin posted /\ gone[k] = Never /\ posted' = posted \cup {k}
        /\ since' \in [Kids -> Times \cup {Never}] /\ since'[k] = now
        /\ \A j \in Kids \ {k} : since'[j] = since[j]
        /\ UNCHANGED <<now, gone, cache, writer, req, failures>> /\ now \in Int
    BY <1>0, <1>2, <2>0 DEF Publish, Types, PostedOK
  <2>2. Types' /\ PostedOK'
    BY <1>0, <2>1 DEF Types, PostedOK
  <2>3. ASSUME NEW keys, NEW from \in Int, NEW to \in Int, SentBetween(keys, from, to)
        PROVE  SentBetween(keys, from, to)'
    BY <1>0, <2>1, <2>3 DEF SentBetween, Types
  <2>4. CacheOK'
    BY <1>0, <2>1, <2>3, Numbers DEF CacheOK, Types
  <2>5. ASSUME NEW c \in Callers PROVE CallerOK(c)'
    <3>1. CallerOK(c) /\ req[c].sent \in Int /\ posted \subseteq Kids
      BY <1>0, Numbers DEF Types, Records
    <3>2. At(c, "answer") => SentBetween(req[c].keys, req[c].sent, req[c].sent)'
      BY <2>1, <2>3, <3>1 DEF CallerOK
    <3> QED  BY <2>1, <3>1, <3>2 DEF CallerOK, At, Fresh
  <2> QED  BY <2>2, <2>4, <2>5 DEF Inv
<1>3. ASSUME NEW k \in Kids, Withdraw(k) PROVE Inv'
  <2>1. /\ posted' = posted \ {k} /\ gone' \in [Kids -> Times \cup {Never}]
        /\ k \in posted /\ gone'[k] = now
        /\ \A j \in Kids \ {k} : gone'[j] = gone[j]
        /\ \A c \in Callers : req[c].kid # k
        /\ UNCHANGED <<now, since, cache, writer, req, failures>> /\ now \in Int
    BY <1>0, <1>3, Numbers DEF Withdraw, Types, InUse
  <2>2. Types' /\ PostedOK'
    BY <1>0, <2>1 DEF Types, PostedOK
  <2>3. ASSUME NEW keys \in KeySets, NEW from \in Int, NEW to \in Int, SentBetween(keys, from, to)
        PROVE  SentBetween(keys, from, to)'
    <3>1. ASSUME keys # Nil, NEW j \in keys PROVE from <= gone'[j]
      BY <2>1, <2>3, <3>1 DEF SentBetween, KeySets
    <3> QED  BY <2>1, <2>3, <3>1 DEF SentBetween
  <2>4. CacheOK'
    BY <1>0, <2>1, <2>3, Numbers DEF CacheOK, Types
  <2>5. ASSUME NEW c \in Callers PROVE CallerOK(c)'
    <3>1. CallerOK(c) /\ req[c].sent \in Int /\ req[c].keys \in KeySets
      BY <1>0, Numbers DEF Types, Records
    <3>2. At(c, "answer") => SentBetween(req[c].keys, req[c].sent, req[c].sent)'
      BY <2>1, <2>3, <3>1 DEF CallerOK
    <3> QED  BY <2>1, <3>1, <3>2 DEF CallerOK, At, Fresh
  <2> QED  BY <2>2, <2>4, <2>5 DEF Inv
<1>4. ASSUME NEW c \in Callers, NEW k \in Kids, Start(c, k) PROVE Inv'
  <2> DEFINE new == [Idle EXCEPT !.pc = "read", !.kid = k]
  <2>1. new \in Records /\ new.pc = "read" /\ new.kid = k /\ k # 0
    <3>1. k \in 0..MaxKid /\ k # 0 /\ 0 \in 0..MaxTime /\ Nil \in KeySets
      BY Numbers DEF Kids, KeySets
    <3> QED  BY <3>1, Zenon DEF Idle, Records, PCs
  <2>2. /\ req' = [req EXCEPT ![c] = new] /\ k \in posted /\ now >= since[k] + Lead
        /\ UNCHANGED <<now, google, cache, writer, failures>>
    BY <1>4 DEF Start, SignsWith
  <2> HIDE DEF new
  <2>3. /\ req' \in [Callers -> Records] /\ req'[c] = new
        /\ \A d \in Callers \ {c} : req'[d] = req[d]
    BY <1>0, <2>1, <2>2, Update, Zenon
  <2>4. since[k] + Lead <= now
    BY <1>0, <2>2, Numbers DEF Types
  <2>5. CallerOK(c)'
    BY <2>1, <2>2, <2>3, <2>4 DEF CallerOK, At, google
  <2> QED  BY <1>0, <2>2, <2>3, <2>5, CallerStep DEF Types
<1>5. ASSUME NEW c \in Callers, Read(c) PROVE Inv'
  <2>1. CallerOK(c) /\ cache.keys \in KeySets
    BY <1>0 DEF Types
  <2>2. CASE Fresh /\ UseKeys(c, cache.keys) /\ UNCHANGED writer
    <3>1. /\ req' \in [Callers -> Records] /\ req'[c].pc = "validate"
          /\ req'[c].kid = req[c].kid /\ req'[c].keys = cache.keys
          /\ \A d \in Callers \ {c} : req'[d] = req[d]
      BY <1>0, <2>1, <2>2, UseKeysFacts
    <3>2. req[c].kid \in cache.keys \/ cache.keys = {}
      BY <1>5, <2>2, FreshKeys DEF Read, At
    <3>3. CallerOK(c)'
      BY <1>5, <2>1, <3>1, <3>2 DEF Read, CallerOK, At, google
    <3> QED  BY <1>0, <1>5, <2>2, <3>1, <3>3, CallerStep DEF Read, Types
  <2>3. CASE Goto(c, "lock") /\ UNCHANGED writer
    <3>1. /\ req' \in [Callers -> Records] /\ req'[c].pc = "lock" /\ req'[c].kid = req[c].kid
          /\ \A d \in Callers \ {c} : req'[d] = req[d]
      BY <1>0, <2>3, GotoFacts DEF PCs
    <3>2. CallerOK(c)'
      BY <1>5, <2>1, <3>1 DEF Read, CallerOK, At, google
    <3> QED  BY <1>0, <1>5, <2>3, <3>1, <3>2, CallerStep DEF Read, Types
  <2> QED  BY <1>5, <2>2, <2>3 DEF Read
<1>6. ASSUME NEW c \in Callers, Lock(c) PROVE Inv'
  <2>1. CallerOK(c) /\ cache.keys \in KeySets
    BY <1>0 DEF Types
  <2>2. CASE Fresh /\ UseKeys(c, cache.keys) /\ UNCHANGED writer
    <3>1. /\ req' \in [Callers -> Records] /\ req'[c].pc = "validate"
          /\ req'[c].kid = req[c].kid /\ req'[c].keys = cache.keys
          /\ \A d \in Callers \ {c} : req'[d] = req[d]
      BY <1>0, <2>1, <2>2, UseKeysFacts
    <3>2. req[c].kid \in cache.keys \/ cache.keys = {}
      BY <1>6, <2>2, FreshKeys DEF Lock, At
    <3>3. CallerOK(c)'
      BY <1>6, <2>1, <3>1, <3>2 DEF Lock, CallerOK, At, google
    <3> QED  BY <1>0, <1>6, <2>2, <3>1, <3>3, CallerStep DEF Lock, Types
  <2>3. CASE ~Fresh /\ writer' = c /\ Goto(c, "fetch")
    <3>1. /\ req' \in [Callers -> Records] /\ req'[c].pc = "fetch" /\ req'[c].kid = req[c].kid
          /\ \A d \in Callers \ {c} : req'[d] = req[d]
      BY <1>0, <2>3, GotoFacts DEF PCs
    <3>2. CallerOK(c)'
      BY <1>6, <2>1, <2>3, <3>1 DEF Lock, CallerOK, At, Fresh, google
    <3> QED  BY <1>0, <1>6, <2>3, <3>1, <3>2, CallerStep DEF Lock, Types
  <2> QED  BY <1>6, <2>2, <2>3 DEF Lock
<1>7. ASSUME NEW c \in Callers, Answer(c) PROVE Inv'
  <2>1. PICK keys \in {posted, {}} :
          req' = [req EXCEPT ![c].pc = "answer", ![c].keys = keys, ![c].sent = now]
    BY <1>7 DEF Answer
  <2> DEFINE new == [req[c] EXCEPT !.pc = "answer", !.keys = keys, !.sent = now]
  <2>2. req[c] \in Records /\ keys \in KeySets /\ keys # Nil /\ now \in 0..MaxTime
    BY <1>0 DEF Types, KeySets, Kids, Nil
  <2>3. /\ new \in Records /\ new.pc = "answer" /\ new.kid = req[c].kid
        /\ new.keys = keys /\ new.sent = now
    BY <2>2, Zenon DEF Records, PCs
  <2>4. req' = [req EXCEPT ![c] = new]
    BY <1>0, <2>1, Zenon DEF Types
  <2> HIDE DEF new
  <2>5. /\ req' \in [Callers -> Records] /\ req'[c] = new
        /\ \A d \in Callers \ {c} : req'[d] = req[d]
    BY <1>0, <2>3, <2>4, Update, Zenon
  <2>6. /\ UNCHANGED <<now, google, cache, writer>> /\ failures' \in 0..MaxFailures
        /\ req[c].pc = "fetch" /\ CallerOK(c)
    BY <1>0, <1>7, Numbers DEF Answer, At, Types
  <2>7. SentBetween(keys, now, now) /\ now - now <= MaxDelay
    <3>1. ASSUME NEW k \in posted PROVE now <= gone[k]
      BY <1>0, Numbers DEF PostedOK, Types, Never
    <3> QED  BY <2>2, <3>1, Numbers DEF SentBetween
  <2>8. CallerOK(c)'
    BY <2>2, <2>3, <2>5, <2>6, <2>7 DEF CallerOK, At, Fresh, SentBetween, google
  <2> QED  BY <1>0, <2>5, <2>6, <2>8, CallerStep DEF Types
<1>8. ASSUME NEW c \in Callers, Store(c) PROVE Inv'
  <2>1. /\ CallerOK(c) /\ req[c].pc = "answer" /\ req[c].keys \in KeySets
        /\ req[c].sent \in Int /\ now \in Int /\ now \in 0..MaxTime
    BY <1>0, <1>8, Numbers DEF Store, At, Types, Records
  <2>2. /\ req' \in [Callers -> Records] /\ req'[c].pc = "validate"
        /\ req'[c].kid = req[c].kid /\ req'[c].keys = req[c].keys
        /\ \A d \in Callers \ {c} : req'[d] = req[d]
    BY <1>0, <1>8, <2>1, UseKeysFacts DEF Store
  <2>3. /\ cache' = [keys |-> req[c].keys, fetchAt |-> now] /\ writer' = Nobody
        /\ UNCHANGED <<now, posted, since, gone, failures>>
    BY <1>8 DEF Store, google
  <2>4. Types' /\ PostedOK'
    BY <1>0, <2>1, <2>2, <2>3 DEF Types, PostedOK
  <2>5. CacheOK'
    <3>1. SentBetween(req[c].keys, req[c].sent, req[c].sent) /\ now - req[c].sent <= MaxDelay
      BY <2>1 DEF CallerOK, At
    <3>2. now - MaxDelay <= req[c].sent /\ now - MaxDelay <= now /\ now - MaxDelay \in Int
      BY <2>1, <3>1, Numbers
    <3>3. ASSUME req[c].keys # {}, NEW k \in posted, since[k] < now - MaxDelay
          PROVE  k \in req[c].keys
      <4>1. since[k] \in Int
        BY <1>0, Numbers DEF Types
      <4>2. since[k] < req[c].sent
        BY <2>1, <3>2, <3>3, <4>1
      <4> QED  BY <2>1, <3>1, <3>3, <4>2 DEF SentBetween, CallerOK, At
    <3>4. ASSUME req[c].keys # Nil, NEW k \in req[c].keys PROVE now - MaxDelay <= gone[k]
      <4>1. req[c].sent <= gone[k] /\ gone[k] \in Int
        BY <1>0, <2>1, <3>1, <3>4, Numbers DEF SentBetween, Types, KeySets
      <4> QED  BY <2>1, <3>2, <4>1
    <3>5. SentBetween(req[c].keys, now - MaxDelay, now)
      BY <2>1, <3>2, <3>3, <3>4 DEF SentBetween
    <3> QED  BY <2>3, <3>5 DEF CacheOK, SentBetween
  <2>6. req[c].kid \in req[c].keys \/ req[c].keys = {}
    <3>1. /\ req[c].kid \in posted /\ since[req[c].kid] + Lead <= now
          /\ now - req[c].sent <= MaxDelay
          /\ SentBetween(req[c].keys, req[c].sent, req[c].sent) /\ req[c].keys # Nil
      BY <2>1 DEF CallerOK, At
    <3>2. since[req[c].kid] \in Int
      BY <1>0, <3>1, Numbers DEF Types
    <3>3. since[req[c].kid] < req[c].sent
      BY <2>1, <3>1, <3>2, Numbers
    <3> QED  BY <3>1, <3>3 DEF SentBetween
  <2>7. ASSUME NEW d \in Callers PROVE CallerOK(d)'
    <3>1. CASE d = c
      BY <2>1, <2>2, <2>3, <2>6, <3>1 DEF CallerOK, At
    <3>2. CASE d # c
      <4>1. CallerOK(d) /\ req'[d] = req[d] /\ writer = c
        BY <1>0, <2>1, <2>2, <3>2 DEF CallerOK
      <4>2. req[d].pc \notin {"fetch", "answer"}
        BY <3>2, <4>1 DEF CallerOK
      <4> QED  BY <2>3, <4>1, <4>2 DEF CallerOK, At
    <3> QED  BY <3>1, <3>2
  <2> QED  BY <2>4, <2>5, <2>7 DEF Inv
<1>9. ASSUME NEW c \in Callers, FetchFails(c) \/ Validate(c) PROVE Inv'
  <2>1. /\ Return(c) /\ UNCHANGED <<now, google, cache, failures>>
        /\ writer' = writer \/ (writer = c /\ writer' = Nobody)
    BY <1>0, <1>9 DEF FetchFails, Validate, CallerOK
  <2>2. /\ req' \in [Callers -> Records] /\ req'[c].pc = "idle" /\ req'[c].kid = 0
        /\ \A d \in Callers \ {c} : req'[d] = req[d]
    BY <1>0, <2>1, ReturnFacts
  <2>3. CallerOK(c)'
    BY <2>2 DEF CallerOK, At
  <2> QED  BY <1>0, <2>1, <2>2, <2>3, CallerStep DEF Types
<1>10. CASE UNCHANGED vars
  BY <1>0, <1>10 DEF vars, Inv, Types, PostedOK, CacheOK, CallerOK, SentBetween, At, Fresh
<1> QED
  BY <1>1, <1>2, <1>3, <1>4, <1>5, <1>6, <1>7, <1>8, <1>9, <1>10 DEF Next

\* The invariant holds in every reachable state.
THEOREM Invariance == Spec => []Inv
BY InitInv, NextInv, PTL DEF Spec

\* Every variable of the cache and of Google keeps its type, and only a request
\* in progress names a key.
THEOREM TypeCorrect == Spec => []TypeOK
<1>1. Inv => TypeOK
  BY DEF Inv, Types, CallerOK, At, TypeOK, Records
<1> QED  BY <1>1, Invariance, PTL

\* A token of Google is refused for its key ID only while the answer in the cache
\* is no key set (validateIDToken): its key was published before the answer was
\* sent, if Google publishes keys early enough.
THEOREM GoodTokensPass == Spec => []GoodTokenAccepted
<1>1. Inv => GoodTokenAccepted
  BY DEF Inv, CallerOK, GoodTokenAccepted
<1> QED  BY <1>1, Invariance, PTL

\* Keys that Google withdrew are forgotten with the cache (getKeys).
THEOREM WithdrawnKeysForgotten == Spec => []WithdrawnForgotten
<1>1. ASSUME Inv, Fresh, NEW k \in cache.keys PROVE now < gone[k] + TTL + MaxDelay
  <2>1. /\ cache.fetchAt \in Int /\ now \in Int /\ now - cache.fetchAt < TTL
        /\ cache.keys # Nil /\ cache.keys \in KeySets
    BY <1>1, Numbers DEF Fresh, Inv, Types
  <2>2. gone[k] \in Int
    BY <1>1, <2>1, Numbers DEF Inv, Types, KeySets
  <2>3. cache.fetchAt - MaxDelay <= gone[k]
    BY <1>1, <2>1 DEF Inv, CacheOK, SentBetween
  <2> QED  BY <2>1, <2>2, <2>3, Numbers
<1>2. Inv => WithdrawnForgotten
  BY <1>1 DEF WithdrawnForgotten
<1> QED  BY <1>2, Invariance, PTL

\* The keys are replaced only when they are too old (the second look of getKeys
\* under the write lock).
THEOREM FetchedOnce == Spec => OneFetchPerTTL
<1>1. Inv => \A c \in Callers : At(c, "answer") /\ req'[c].pc = "validate" => ~Fresh
  BY DEF Inv, CallerOK, At
<1>2. Inv /\ [Next]_vars =>
        [\A c \in Callers : At(c, "answer") /\ req'[c].pc = "validate" => ~Fresh]_vars
  BY <1>1
<1> QED  BY <1>2, Invariance, PTL DEF Spec, OneFetchPerTTL
=============================================================================
