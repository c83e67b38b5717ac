------------------------- MODULE RateLimiterProofs --------------------------
(***************************************************************************)
(* Proofs about RateLimiter, for any goroutines, any kinds of requests,    *)
(* any limits and windows and any number of failed calls.                  *)
(***************************************************************************)
EXTENDS RateLimiter, FiniteSetTheorems, TLAPS

\* A request runs its transaction at most MaxDelay after it has read the clock.
ReqOK ==
  \A c \in Clients : At(c, "exec") => req[c].now <= now /\ now - req[c].now <= MaxDelay

\* The entries of a key are readings of the past that were seen, and the key
\* outlives each of them by a window.  The reading of a request that was let in
\* is still an entry unless a window has passed since.
KeyOK(k, w) ==
  /\ \A t \in zset[k] : t \in seen[k] /\ t <= now /\ t + w <= now + life[k]
  /\ \A t \in allowed[k] : t <= now /\ (t \in zset[k] \/ t + w <= now)

Window(k, s, w) == {t \in allowed[k] : s < t /\ t <= s + w - MaxDelay}

Inv ==
  /\ TypeOK /\ ReqOK
  /\ \A r \in Kinds : KeyOK(Key(r), Limit(r).window)
  /\ WindowBound

\* The limits, windows and bounds are numbers.
LEMMA Numbers ==
  /\ MaxDelay \in Nat /\ MaxTime \in Nat /\ MaxFaults \in Nat
  /\ \A r \in Kinds : /\ Limit(r).max \in Nat /\ Limit(r).max > 0
                      /\ Limit(r).window \in Nat /\ Limit(r).window > 0
                      /\ Limit(r).window \in Windows /\ Key(r) \in Keys
  /\ Times \subseteq Int /\ Times \subseteq Nat
BY ConstantsAssumption DEF Times, Windows, Keys

\* Requests with one key have one limit: the key starts with the path.
LEMMA KeyLimit ==
  ASSUME NEW r, NEW q, Key(r) = Key(q)
  PROVE  Limit(r) = Limit(q)
BY DEF Key, Limit

\* A set of the clock's readings is finite.
LEMMA TimesFinite == \A S \in SUBSET Times : IsFiniteSet(S)
<1>1. IsFiniteSet(Times)
  BY Numbers, FS_Interval DEF Times
<1> QED  BY <1>1, FS_Subset

\* Goto keeps the kind and the reading of a request.
LEMMA GotoFacts ==
  ASSUME TypeOK, NEW c \in Clients, At(c, "exec"), NEW pc \in {"allowed", "refused"}, Goto(c, pc)
  PROVE  /\ req' \in [Clients -> Requests \cup {Idle}] /\ req'[c].pc = pc
         /\ \A d \in Clients \ {c} : req'[d] = req[d]
<1> DEFINE new == [req[c] EXCEPT !.pc = pc]
<1>1. req[c] \in Requests
  BY DEF TypeOK, At, Idle
<1>2. new \in Requests /\ new.pc = pc
  BY <1>1 DEF Requests
<1>3. req' = [req EXCEPT ![c] = new] /\ req \in [Clients -> Requests \cup {Idle}]
  BY DEF Goto, TypeOK
<1> HIDE DEF new
<1> QED  BY <1>2, <1>3

\* A request that is about to run its transaction has a kind and a reading.
LEMMA ExecType ==
  ASSUME TypeOK, NEW c \in Clients, At(c, "exec")
  PROVE  req[c].kind \in Kinds /\ req[c].now \in Times
<1>1. req[c] \in Requests
  BY DEF TypeOK, At, Idle
<1> QED  BY <1>1 DEF Requests

\* The transaction keeps the types.
LEMMA TxType ==
  ASSUME TypeOK, NEW r \in Kinds, NEW n \in Times, Tx(r, n)
  PROVE  /\ zset' \in [Keys -> SUBSET Times]
         /\ life' \in [Keys -> {0} \cup UNION {1..w : w \in Windows}]
         /\ \A k \in Keys : life'[k] = 0 <=> zset'[k] = {}
<1> DEFINE k == Key(r)  w == Limit(r).window  new == Kept(k, n, w) \cup {n}
           Lives == {0} \cup UNION {1..x : x \in Windows}
<1>1. /\ zset \in [Keys -> SUBSET Times] /\ life \in [Keys -> Lives] /\ k \in Keys
      /\ \A j \in Keys : life[j] = 0 <=> zset[j] = {}
  BY Numbers DEF TypeOK
<1>2. new \in SUBSET Times /\ new # {}
  BY <1>1 DEF Kept
<1>3. w \in 1..w /\ w \in Windows /\ w # 0
  BY Numbers
<1>4. w \in Lives
  BY <1>3
<1>5. zset' = [zset EXCEPT ![k] = new] /\ life' = [life EXCEPT ![k] = w]
  BY DEF Tx
<1> HIDE DEF k, w, new, Lives
<1>6. zset' \in [Keys -> SUBSET Times] /\ life' \in [Keys -> Lives]
  BY <1>1, <1>2, <1>4, <1>5
<1>7. \A j \in Keys : life'[j] = 0 <=> zset'[j] = {}
  BY <1>1, <1>2, <1>3, <1>5
<1> QED  BY <1>6, <1>7 DEF Lives

\* The transaction of a request that is not too late, whose reading it may let in,
\* keeps what is known of the keys: what it drops is a window old.
LEMMA TxKeys ==
  ASSUME Inv, NEW r \in Kinds, NEW n \in Times, n <= now, Tx(r, n), UNCHANGED now,
         seen' = [seen EXCEPT ![Key(r)] = @ \cup {n}],
         allowed' \in {allowed, [allowed EXCEPT ![Key(r)] = @ \cup {n}]}
  PROVE  \A q \in Kinds : KeyOK(Key(q), Limit(q).window)'
<1> SUFFICES ASSUME NEW q \in Kinds PROVE KeyOK(Key(q), Limit(q).window)'
  OBVIOUS
<1> DEFINE k == Key(r)  w == Limit(r).window
<1>1. /\ zset \in [Keys -> SUBSET Times] /\ life \in [Keys -> {0} \cup UNION {1..x : x \in Windows}]
      /\ allowed \in [Keys -> SUBSET Times] /\ seen \in [Keys -> SUBSET Times]
      /\ k \in Keys /\ Key(q) \in Keys /\ w \in Int /\ now \in Int /\ n \in Int
  BY Numbers DEF Inv, TypeOK
<1>2. CASE Key(q) # k
  <2>1. /\ zset'[Key(q)] = zset[Key(q)] /\ life'[Key(q)] = life[Key(q)]
        /\ seen'[Key(q)] = seen[Key(q)] /\ allowed'[Key(q)] = allowed[Key(q)]
    BY <1>1, <1>2 DEF Tx
  <2>2. KeyOK(Key(q), Limit(q).window)
    BY DEF Inv
  <2> QED  BY <2>1, <2>2 DEF KeyOK
<1>3. CASE Key(q) = k
  <2>1. Limit(q).window = w
    BY <1>3, KeyLimit
  <2>2. /\ zset'[k] = Kept(k, n, w) \cup {n} /\ life'[k] = w
        /\ seen'[k] = seen[k] \cup {n} /\ allowed'[k] \subseteq allowed[k] \cup {n}
    BY <1>1 DEF Tx
  <2>3. KeyOK(k, w)
    BY DEF Inv
  <2> HIDE DEF k, w
  <2>4. ASSUME NEW t \in zset'[k] PROVE t \in seen'[k] /\ t <= now /\ t + w <= now + w
    <3>1. t \in Int
      BY <1>1, <2>2, <2>4, Numbers, Zenon DEF Kept
    <3>2. t \in seen'[k] /\ t <= now
      BY <2>2, <2>3, <2>4 DEF Kept, KeyOK
    <3> QED  BY <1>1, <3>1, <3>2
  <2>5. ASSUME NEW t \in allowed'[k] PROVE t <= now /\ (t \in zset'[k] \/ t + w <= now)
    <3>1. CASE t = n
      BY <2>2, <3>1
    <3>2. CASE t # n
      <4>1. t \in allowed[k] /\ t \in Int
        BY <1>1, <2>2, <2>5, <3>2, Numbers
      <4>2. CASE t \in zset[k] /\ ~ (t > n - w)
        BY <1>1, <2>3, <4>1, <4>2 DEF KeyOK
      <4>3. CASE t \in zset[k] /\ t > n - w
        BY <2>2, <2>3, <4>1, <4>3 DEF Kept, KeyOK
      <4>4. CASE t \notin zset[k]
        BY <2>3, <4>1, <4>4 DEF KeyOK
      <4> QED  BY <4>2, <4>3, <4>4
    <3> QED  BY <3>1, <3>2
  <2>6. KeyOK(k, w)'
    BY <2>2, <2>4, <2>5 DEF KeyOK, k, w
  <2> QED  BY <1>3, <2>1, <2>6
<1> QED  BY <1>2, <1>3

\* A reading that is let in fits into every window: the others of the window that
\* were let in are among the entries that the transaction has counted.
LEMMA LetIn ==
  ASSUME Inv, NEW r \in Kinds, NEW n \in Times, n <= now, now - n <= MaxDelay,
         ~Over(r, n), allowed' = [allowed EXCEPT ![Key(r)] = @ \cup {n}]
  PROVE  WindowBound'
<1> SUFFICES ASSUME NEW q \in Kinds, NEW s \in -MaxTime..MaxTime
             PROVE  Cardinality(Window(Key(q), s, Limit(q).window)') <= Limit(q).max
  BY DEF WindowBound, Window
<1> DEFINE k == Key(r)  w == Limit(r).window  m == Limit(r).max  K == Kept(k, n, w)
<1>1. /\ allowed \in [Keys -> SUBSET Times] /\ zset \in [Keys -> SUBSET Times] /\ k \in Keys
      /\ w \in Int /\ m \in Nat /\ now \in Int /\ n \in Int /\ s \in Int /\ MaxDelay \in Nat
  BY Numbers DEF Inv, TypeOK
<1>2. Cardinality(Window(Key(q), s, Limit(q).window)) <= Limit(q).max
  BY DEF Inv, WindowBound, Window
<1>3. CASE Key(q) # k \/ ~ (s < n /\ n <= s + w - MaxDelay)
  <2>1. CASE Key(q) # k
    <3>1. allowed'[Key(q)] = allowed[Key(q)]
      BY <1>1, <2>1, Numbers
    <3> QED  BY <1>2, <3>1, Zenon DEF Window
  <2>2. CASE Key(q) = k /\ ~ (s < n /\ n <= s + w - MaxDelay)
    <3>1. Limit(q).window = w /\ allowed'[k] = allowed[k] \cup {n}
      BY <1>1, <2>2, KeyLimit
    <3>2. Window(Key(q), s, Limit(q).window)' = Window(Key(q), s, Limit(q).window)
      BY <2>2, <3>1 DEF Window
    <3> QED  BY <1>2, <3>2
  <2> QED  BY <1>3, <2>1, <2>2
<1>4. CASE Key(q) = k /\ s < n /\ n <= s + w - MaxDelay
  <2>1. Limit(q).window = w /\ Limit(q).max = m /\ allowed'[k] = allowed[k] \cup {n}
    BY <1>1, <1>4, KeyLimit
  <2>2. KeyOK(k, w) /\ Cardinality(K) < m /\ K \in SUBSET Times
    <3>1. KeyOK(k, w) /\ K \in SUBSET Times
      BY <1>1 DEF Inv, Kept
    <3>2. Cardinality(K) \in Nat
      BY <3>1, TimesFinite, FS_CardinalityType
    <3> QED  BY <1>1, <3>1, <3>2 DEF Over
  <2> HIDE DEF k, w, m
  <2>3. ASSUME NEW t \in Window(k, s, w)' PROVE t \in K \cup {n}
    <3>1. CASE t # n
      <4>1. t \in allowed[k] /\ t \in Int /\ s < t
        BY <1>1, <2>1, <2>3, <3>1, Numbers DEF Window, k, w
      <4>2. t > n - w /\ ~ (t + w <= now)
        BY <1>1, <1>4, <4>1
      <4> QED  BY <2>2, <4>1, <4>2 DEF KeyOK, Kept
    <3> QED  BY <3>1
  <2>4. IsFiniteSet(K) /\ Cardinality(K) \in Nat
    BY <2>2, TimesFinite, FS_CardinalityType
  <2> HIDE DEF K
  <2>5. IsFiniteSet(K \cup {n}) /\ Cardinality(K \cup {n}) \in Nat /\ Cardinality(K \cup {n}) <= m
    <3>1. /\ IsFiniteSet(K \cup {n})
          /\ Cardinality(K \cup {n}) = IF n \in K THEN Cardinality(K) ELSE Cardinality(K) + 1
      BY <2>4, FS_AddElement, SMTT(30)
    <3> QED  BY <1>1, <2>2, <2>4, <3>1
  <2>6. Window(k, s, w)' \subseteq K \cup {n}
    BY <2>3
  <2>7. /\ Cardinality(Window(k, s, w)') <= Cardinality(K \cup {n})
        /\ Cardinality(Window(k, s, w)') \in Nat
    BY <2>5, <2>6, FS_Subset, FS_CardinalityType
  <2>8. Cardinality(Window(k, s, w)') <= m
    BY <1>1, <2>5, <2>7 DEF m
  <2> QED  BY <1>4, <2>1, <2>8 DEF k, w, m
<1> QED  BY <1>3, <1>4

\* At first nothing has been counted.
THEOREM InitInv == Init => Inv
<1> SUFFICES ASSUME Init PROVE Inv
  OBVIOUS
<1>1. TypeOK /\ ReqOK
  BY Numbers DEF Init, TypeOK, ReqOK, Times, Idle, At
<1>2. \A r \in Kinds : KeyOK(Key(r), Limit(r).window)
  BY Numbers DEF Init, KeyOK
<1>3. ASSUME NEW r \in Kinds, NEW s \in -MaxTime..MaxTime
      PROVE  Cardinality(Window(Key(r), s, Limit(r).window)) <= Limit(r).max
  <2>1. Window(Key(r), s, Limit(r).window) = {}
    BY Numbers DEF Init, Window
  <2> QED  BY <2>1, FS_EmptySet, Numbers
<1> QED  BY <1>1, <1>2, <1>3 DEF Inv, WindowBound, Window

\* A step of one request that lets time stand still keeps ReqOK.
LEMMA ReqStep ==
  ASSUME ReqOK, NEW c \in Clients, UNCHANGED now, ~At(c, "exec")',
         \A d \in Clients \ {c} : req'[d] = req[d]
  PROVE  ReqOK'
BY DEF ReqOK, At

\* Every step preserves the invariant.
THEOREM NextInv == Inv /\ [Next]_vars => Inv'
<1> SUFFICES ASSUME Inv, [Next]_vars PROVE Inv'
  OBVIOUS
<1>0. TypeOK /\ ReqOK /\ WindowBound /\ \A r \in Kinds : KeyOK(Key(r), Limit(r).window)
  BY DEF Inv
<1>1. CASE Tick
  <2> DEFINE Lives == {0} \cup UNION {1..w : w \in Windows}
  <2>1. /\ now' = now + 1 /\ now' \in Times /\ now \in Int /\ UNCHANGED <<req, faults, allowed, seen>>
        /\ \A c \in Clients : At(c, "exec") => now - req[c].now < MaxDelay
    BY <1>0, <1>1, Numbers DEF Tick, TypeOK, Times
  <2>2. /\ life \in [Keys -> Lives] /\ zset \in [Keys -> SUBSET Times] /\ Windows \subseteq Nat
        /\ \A k \in Keys : life[k] = 0 <=> zset[k] = {}
    BY <1>0, Numbers DEF TypeOK, Windows
  <2>3. ASSUME NEW k \in Keys
        PROVE  /\ life'[k] = IF life[k] = 0 THEN 0 ELSE life[k] - 1
               /\ zset'[k] = IF life'[k] = 0 THEN {} ELSE zset[k]
               /\ life[k] \in Nat /\ life'[k] \in Lives /\ life'[k] \in Nat
    <3>1. life'[k] = IF life[k] = 0 THEN 0 ELSE life[k] - 1
      BY <1>1 DEF Tick
    <3>2. zset'[k] = IF life'[k] = 0 THEN {} ELSE zset[k]
      BY <1>1 DEF Tick
    <3>3. CASE life[k] = 0
      BY <3>1, <3>2, <3>3
    <3>4. CASE life[k] # 0
      <4>1. PICK w \in Windows : life[k] \in 1..w
        BY <2>2, <3>4
      <4>2. w \in Nat /\ life'[k] \in Nat /\ life[k] \in Nat /\ (life'[k] = 0 \/ life'[k] \in 1..w)
        BY <2>2, <3>1, <3>4, <4>1
      <4> QED  BY <3>1, <3>2, <4>1, <4>2
    <3> QED  BY <3>3, <3>4
  <2>4. life' \in [Keys -> Lives] /\ zset' \in [Keys -> SUBSET Times]
    <3>1. life' = [k \in Keys |-> life'[k]] /\ zset' = [k \in Keys |-> zset'[k]]
      BY <1>1 DEF Tick
    <3> QED  BY <2>2, <2>3, <3>1
  <2>5. \A k \in Keys : life'[k] = 0 <=> zset'[k] = {}
    BY <2>2, <2>3
  <2>6. TypeOK'
    BY <1>0, <2>1, <2>4, <2>5 DEF TypeOK
  <2>7. ReqOK'
    <3> SUFFICES ASSUME NEW c \in Clients, At(c, "exec")'
                 PROVE  (req[c].now <= now /\ now - req[c].now <= MaxDelay)'
      BY DEF ReqOK
    <3>1. At(c, "exec") /\ req'[c].now = req[c].now /\ req[c].now \in Int
      BY <1>0, <2>1, ExecType, Numbers, Zenon DEF At
    <3>2. req[c].now <= now + 1 /\ now + 1 - req[c].now <= MaxDelay
      BY <1>0, <2>1, <3>1, Numbers DEF ReqOK
    <3> QED  BY <2>1, <3>1, <3>2
  <2>8. ASSUME NEW r \in Kinds PROVE KeyOK(Key(r), Limit(r).window)'
    <3> DEFINE k == Key(r)  w == Limit(r).window
    <3>1. /\ KeyOK(k, w) /\ w \in Nat /\ k \in Keys
          /\ zset[k] \subseteq Int /\ allowed[k] \subseteq Int
      BY <1>0, <2>2, Numbers, Zenon DEF TypeOK
    <3> HIDE DEF k, w
    <3>2. ASSUME NEW t \in zset'[k] PROVE t \in seen[k] /\ t <= now' /\ t + w <= now' + life'[k]
      <4>1. t \in zset[k] /\ t \in Int /\ life'[k] = life[k] - 1 /\ life[k] \in Nat
        BY <2>2, <2>3, <3>1, <3>2
      <4>2. t \in seen[k] /\ t <= now /\ t + w <= now + life[k]
        BY <3>1, <4>1 DEF KeyOK
      <4> QED  BY <2>1, <3>1, <4>1, <4>2
    <3>3. ASSUME NEW t \in allowed[k] PROVE t <= now' /\ (t \in zset'[k] \/ t + w <= now')
      <4>1. t \in Int /\ t <= now /\ (t \in zset[k] \/ t + w <= now)
        BY <3>1, <3>3 DEF KeyOK
      <4>2. CASE t \in zset[k] /\ life'[k] = 0
        <5>1. t + w <= now + life[k] /\ life[k] \in Nat /\ life[k] <= 1
          BY <2>3, <3>1, <4>2 DEF KeyOK
        <5> QED  BY <2>1, <3>1, <4>1, <5>1
      <4>3. CASE t \in zset[k] /\ life'[k] # 0
        BY <2>1, <2>3, <3>1, <4>1, <4>3
      <4>4. CASE t + w <= now
        BY <2>1, <3>1, <4>1, <4>4
      <4> QED  BY <4>1, <4>2, <4>3, <4>4
    <3> QED  BY <2>1, <3>2, <3>3 DEF KeyOK, k, w
  <2>9. WindowBound'
    BY <1>0, <2>1 DEF WindowBound
  <2> QED  BY <2>6, <2>7, <2>8, <2>9 DEF Inv
<1>2. ASSUME NEW c \in Clients, NEW r \in Kinds, Request(c, r) PROVE Inv'
  <2> DEFINE new == [pc |-> "exec", kind |-> r, now |-> now]
  <2>1. /\ req' = [req EXCEPT ![c] = new] /\ UNCHANGED <<now, zset, life, faults, allowed, seen>>
        /\ req \in [Clients -> Requests \cup {Idle}] /\ now \in Int
    BY <1>0, <1>2, Numbers DEF Request, TypeOK
  <2>2. new \in Requests /\ new.pc = "exec" /\ new.now = now
    BY <1>0 DEF Requests, TypeOK
  <2> HIDE DEF new
  <2>3. /\ req' \in [Clients -> Requests \cup {Idle}] /\ req'[c] = new
        /\ \A d \in Clients \ {c} : req'[d] = req[d]
    BY <2>1, <2>2
  <2>4. ReqOK'
    <3>1. now <= now /\ now - now <= MaxDelay
      BY <2>1, Numbers
    <3> QED  BY <1>0, <2>1, <2>2, <2>3, <3>1 DEF ReqOK, At
  <2>5. TypeOK' /\ WindowBound' /\ \A q \in Kinds : KeyOK(Key(q), Limit(q).window)'
    BY <1>0, <2>1, <2>3 DEF TypeOK, WindowBound, KeyOK
  <2> QED  BY <2>4, <2>5 DEF Inv
<1>3. ASSUME NEW c \in Clients, Exec(c) PROVE Inv'
  <2> DEFINE r == req[c].kind  n == req[c].now
  <2>1. /\ r \in Kinds /\ n \in Times /\ n <= now /\ now - n <= MaxDelay
        /\ Tx(r, n) /\ UNCHANGED <<now, faults>> /\ At(c, "exec")
        /\ seen' = [seen EXCEPT ![Key(r)] = @ \cup {n}]
    BY <1>0, <1>3, ExecType DEF Exec, ReqOK
  <2>2. \/ Over(r, n) /\ Goto(c, "refused") /\ UNCHANGED allowed
        \/ ~Over(r, n) /\ Goto(c, "allowed") /\ allowed' = [allowed EXCEPT ![Key(r)] = @ \cup {n}]
    BY <1>3 DEF Exec
  <2> HIDE DEF r, n
  <2>3. /\ req' \in [Clients -> Requests \cup {Idle}] /\ req'[c].pc # "exec"
        /\ \A d \in Clients \ {c} : req'[d] = req[d]
    BY <1>0, <2>1, <2>2, GotoFacts
  <2>4. /\ seen \in [Keys -> SUBSET Times] /\ allowed \in [Keys -> SUBSET Times] /\ Key(r) \in Keys
    BY <1>0, <2>1, Numbers DEF TypeOK
  <2>5. /\ seen' \in [Keys -> SUBSET Times] /\ allowed' \in [Keys -> SUBSET Times]
    BY <2>1, <2>2, <2>4
  <2>6. TypeOK'
    BY <1>0, <2>1, <2>3, <2>5, TxType DEF TypeOK
  <2>7. \A q \in Kinds : KeyOK(Key(q), Limit(q).window)'
    BY <2>1, <2>2, TxKeys, Zenon
  <2>8. WindowBound'
    BY <1>0, <2>1, <2>2, LetIn DEF WindowBound
  <2>9. ReqOK'
    BY <1>0, <2>1, <2>3, ReqStep DEF At
  <2> QED  BY <2>6, <2>7, <2>8, <2>9 DEF Inv
<1>4. ASSUME NEW c \in Clients, ExecFails(c) PROVE Inv'
  <2> DEFINE r == req[c].kind  n == req[c].now
  <2>1. /\ r \in Kinds /\ n \in Times /\ n <= now /\ UNCHANGED <<now, allowed>>
        /\ At(c, "exec") /\ Goto(c, "allowed") /\ faults' \in 0..MaxFaults
    <3>1. faults \in 0..MaxFaults /\ faults < MaxFaults /\ faults' = faults + 1
      BY <1>0, <1>4 DEF ExecFails, TypeOK
    <3>2. faults' \in 0..MaxFaults
      BY <3>1, Numbers
    <3> QED  BY <1>0, <1>4, <3>2, ExecType DEF ExecFails, ReqOK
  <2>2. \/ UNCHANGED <<zset, life, seen>>
        \/ Tx(r, n) /\ seen' = [seen EXCEPT ![Key(r)] = @ \cup {n}]
    BY <1>4 DEF ExecFails
  <2> HIDE DEF r, n
  <2>3. /\ req' \in [Clients -> Requests \cup {Idle}] /\ req'[c].pc # "exec"
        /\ \A d \in Clients \ {c} : req'[d] = req[d]
    BY <1>0, <2>1, GotoFacts
  <2>4. WindowBound' /\ ReqOK'
    BY <1>0, <2>1, <2>3, ReqStep DEF At, WindowBound
  <2>5. CASE UNCHANGED <<zset, life, seen>>
    <3>1. TypeOK' /\ \A q \in Kinds : KeyOK(Key(q), Limit(q).window)'
      BY <1>0, <2>1, <2>3, <2>5 DEF TypeOK, KeyOK
    <3> QED  BY <2>4, <3>1 DEF Inv
  <2>6. CASE Tx(r, n) /\ seen' = [seen EXCEPT ![Key(r)] = @ \cup {n}]
    <3>1. seen' \in [Keys -> SUBSET Times]
      BY <1>0, <2>1, <2>6, Numbers DEF TypeOK
    <3>2. TypeOK'
      BY <1>0, <2>1, <2>3, <2>6, <3>1, TxType DEF TypeOK
    <3>3. \A q \in Kinds : KeyOK(Key(q), Limit(q).window)'
      BY <2>1, <2>6, TxKeys, Zenon
    <3> QED  BY <2>4, <3>2, <3>3 DEF Inv
  <2> QED  BY <2>2, <2>5, <2>6
<1>5. ASSUME NEW c \in Clients, Reply(c) PROVE Inv'
  <2>1. /\ req' = [req EXCEPT ![c] = Idle] /\ UNCHANGED <<now, zset, life, faults, allowed, seen>>
        /\ req \in [Clients -> Requests \cup {Idle}] /\ Idle.pc = "idle"
    BY <1>0, <1>5 DEF Reply, TypeOK, Idle
  <2>2. /\ req' \in [Clients -> Requests \cup {Idle}] /\ req'[c].pc = "idle"
        /\ \A d \in Clients \ {c} : req'[d] = req[d]
    BY <2>1
  <2>3. TypeOK' /\ WindowBound' /\ \A q \in Kinds : KeyOK(Key(q), Limit(q).window)'
    BY <1>0, <2>1, <2>2 DEF TypeOK, WindowBound, KeyOK
  <2>4. ReqOK'
    BY <1>0, <2>1, <2>2, ReqStep DEF At
  <2> QED  BY <2>3, <2>4 DEF Inv
<1>6. CASE UNCHANGED vars
  BY <1>0, <1>6 DEF vars, Inv, TypeOK, ReqOK, At, KeyOK, WindowBound
<1> QED
  BY <1>1, <1>2, <1>3, <1>4, <1>5, <1>6 DEF Next

\* The invariant holds in every reachable state.
THEOREM Invariance == Spec => []Inv
BY InitInv, NextInv, PTL DEF Spec

\* Every variable keeps its type, and a key exists as long as it has entries.
THEOREM TypeCorrect == Spec => []TypeOK
<1>1. Inv => TypeOK
  BY DEF Inv
<1> QED  BY <1>1, Invariance, PTL

\* No window, shortened by the time a transaction may be late, has more readings
\* of requests that were let in by a count than the limit says (check).
THEOREM WindowsAreBounded == Spec => []WindowBound
<1>1. Inv => WindowBound
  BY DEF Inv
<1> QED  BY <1>1, Invariance, PTL

\* A request is refused only if enough readings of its key lie within its window
\* or after it (check).
THEOREM RefusalsAreDue == Spec => RefusedOnlyIfBusy
<1> DEFINE Due(c) == LET r == req[c].kind
                     IN  Cardinality({t \in seen[Key(r)] : t > req[c].now - Limit(r).window})
                           >= Limit(r).max
<1>1. ASSUME Inv, Next, NEW c \in Clients, At(c, "exec"), req'[c].pc = "refused"
      PROVE  Due(c)
  <2>1. Exec(c)
    <3>1. ASSUME NEW d \in Clients, d # c, req'[c] # req[c]
          PROVE  /\ \A r \in Kinds : ~Request(d, r)
                 /\ ~Exec(d) /\ ~ExecFails(d) /\ ~Reply(d)
      BY <1>1, <3>1 DEF Inv, TypeOK, Request, Exec, ExecFails, Reply, Goto
    <3>2. req'[c] # req[c] /\ ~Tick
      BY <1>1 DEF At, Tick
    <3>3. ~ExecFails(c)
      <4>1. ASSUME ExecFails(c) PROVE FALSE
        <5>1. req'[c].pc = "allowed"
          BY <1>1, <4>1, GotoFacts DEF Inv, ExecFails
        <5> QED  BY <1>1, <5>1
      <4> QED  BY <4>1
    <3>4. ~Reply(c) /\ \A r \in Kinds : ~Request(c, r)
      BY <1>1 DEF At, Reply, Request
    <3> QED  BY <1>1, <3>1, <3>2, <3>3, <3>4 DEF Next
  <2> DEFINE r == req[c].kind  n == req[c].now  k == Key(r)  w == Limit(r).window
             K == Kept(k, n, w)  S == {t \in seen[k] : t > n - w}
  <2>2. /\ r \in Kinds /\ KeyOK(k, w) /\ K \subseteq Times /\ S \subseteq Times /\ Limit(r).max \in Nat
    BY <1>1, ExecType, Numbers DEF Inv, TypeOK, Kept
  <2>3. Over(r, n)
    <3>1. ASSUME Goto(c, "allowed") PROVE FALSE
      <4>1. req'[c].pc = "allowed"
        BY <1>1, <3>1, GotoFacts DEF Inv
      <4> QED  BY <1>1, <4>1
    <3> QED  BY <2>1, <3>1, SMTT(30) DEF Exec
  <2>4. Cardinality(K) >= Limit(r).max
    BY <2>3 DEF Over
  <2>5. K \subseteq S
    BY <2>2 DEF Kept, KeyOK
  <2>6. IsFiniteSet(S)
    BY <2>2, TimesFinite
  <2> HIDE DEF K, S, r
  <2>7. /\ Cardinality(K) <= Cardinality(S) /\ Cardinality(S) \in Nat /\ Cardinality(K) \in Nat
    BY <2>5, <2>6, FS_Subset, FS_CardinalityType
  <2>8. Cardinality(S) >= Limit(r).max
    BY <2>2, <2>4, <2>7
  <2> QED  BY <2>8 DEF S, r
<1>2. Inv /\ [Next]_vars =>
        [\A c \in Clients : At(c, "exec") /\ req'[c].pc = "refused" => Due(c)]_vars
  BY <1>1
<1> QED  BY <1>2, Invariance, PTL DEF Spec, RefusedOnlyIfBusy
=============================================================================
