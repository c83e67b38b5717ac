--------------------------- MODULE SessionsProofs --------------------------
(***************************************************************************)
(* Proofs about RefreshTokens and about Sessions, which builds on it, for  *)
(* any sets of goroutines, users, clients and fingerprints, any session    *)
(* limit, any token lifetimes and any number of Redis errors.              *)
(***************************************************************************)
EXTENDS Sessions, TLAPS

\* Most leaves are first-order; the others ask for SMT.
USE ZenonT(60)

(***************************************************************************)
(* Types.                                                                  *)
(***************************************************************************)

\* The record of an idle goroutine is a request.
LEMMA IdleType == Idle \in Request /\ Idle.pc = "idle"
  BY ConstantsAssumption, SMT DEF Idle, Request, PCs, NoToken

\* What the Redis commands make of the index of a user is an index.
LEMMA IndexType ==
  ASSUME NEW ix \in Index, NEW t \in Tokens
  PROVE  /\ SAdd(ix, t) \in Index
         /\ SRem(ix, t) \in Index
         /\ Expire(ix) \in Index
         /\ Absent \in Index
  <1> DEFINE Present == [members : (SUBSET Tokens) \ {{}}, life : 1..Persistent]
  <1>0. TTL \in Nat /\ TTL # 0 /\ Persistent = TTL + 1
    BY ConstantsAssumption DEF Persistent
  <1>1. Absent \in Index BY DEF Index
  <1>2. /\ ix.members \subseteq Tokens
        /\ ix.members # {} => ix.life \in 1..Persistent
    BY <1>0, SMT DEF Index, Absent
  <1>3. ASSUME NEW m \in SUBSET Tokens, m # {}, NEW l \in 1..Persistent
        PROVE  [members |-> m, life |-> l] \in Index
    <2>1. [members |-> m, life |-> l] \in Present BY <1>3
    <2> QED BY <2>1 DEF Index
  <1>4. SAdd(ix, t) \in Index
    <2>1. ix.members \cup {t} \in SUBSET Tokens /\ ix.members \cup {t} # {}
      BY <1>2
    <2>2. (IF ix.members = {} THEN Persistent ELSE ix.life) \in 1..Persistent
      BY <1>0, <1>2, SMT
    <2> HIDE DEF Present
    <2> QED BY <1>3, <2>1, <2>2 DEF SAdd
  <1>5. SRem(ix, t) \in Index
    <2>1. CASE ix.members \subseteq {t} BY <2>1, <1>1 DEF SRem
    <2>2. CASE ~(ix.members \subseteq {t})
      <3>1. ix.members \ {t} \in SUBSET Tokens /\ ix.members \ {t} # {}
        BY <1>2, <2>2
      <3>2. ix.life \in 1..Persistent BY <1>2, <2>2
      <3> QED BY <1>3, <2>2, <3>1, <3>2 DEF SRem
    <2> QED BY <2>1, <2>2
  <1>6. Expire(ix) \in Index
    <2>1. TTL \in 1..Persistent BY <1>0, SMT
    <2> QED BY <1>2, <1>3, <2>1 DEF Expire
  <1> QED BY <1>1, <1>4, <1>5, <1>6

\* So is what a tick of the clock makes of it, and it lists nothing new.
LEMMA AgeFacts ==
  ASSUME NEW ix \in Index
  PROVE  Age(ix) \in Index /\ Age(ix).members \subseteq ix.members
  <1>0. TTL \in Nat /\ TTL # 0 /\ Persistent = TTL + 1
    BY ConstantsAssumption DEF Persistent
  <1>1. CASE ix.members = {} \/ ix.life = Persistent
    BY <1>1 DEF Age
  <1>2. CASE ix.members # {} /\ ix.life # Persistent /\ ix.life = 1
    BY <1>2 DEF Age, Index, Absent
  <1>3. CASE ix.members # {} /\ ix.life # Persistent /\ ix.life # 1
    <2>1. /\ ix.members \in (SUBSET Tokens) \ {{}}
          /\ ix.life - 1 \in 1..Persistent
      BY <1>0, <1>3, SMT DEF Index, Absent
    <2>2. Age(ix) = [members |-> ix.members, life |-> ix.life - 1]
      BY <1>3 DEF Age
    <2>3. Age(ix) \in [members : (SUBSET Tokens) \ {{}}, life : 1..Persistent]
      BY <2>1, <2>2, SMT
    <2> QED BY <2>2, <2>3, SMT DEF Index
  <1> QED BY <1>1, <1>2, <1>3


\* Lifetimes of tokens.
LEMMA Lifetimes ==
  \A n \in 0..TTL : n \in Nat /\ n <= TTL /\ n <= n /\ (n > 0 \/ n = 0)
  BY ConstantsAssumption, SMT

\* A key that has expired does not live.
LEMMA NoneLeft == ~(0 > 0)
  BY SMT

\* The lifetime of an index.
LEMMA IndexLife == \A ix \in Index : ix.life \in Nat
  BY ConstantsAssumption, SMT DEF Index, Absent, Persistent

\* An index that loses one of several members, or a minute, loses nothing else.
LEMMA IndexFields ==
  /\ \A ix, t : ~(ix.members \subseteq {t}) =>
       SRem(ix, t).members = ix.members \ {t} /\ SRem(ix, t).life = ix.life
  /\ \A ix : ix.life # 1 =>
       Age(ix).members = ix.members /\ Age(ix).life \in {ix.life, ix.life - 1}
  BY DEF SRem, Age

\* A minute later a token lives no longer than its index.
LEMMA Shorter ==
  \A x, y \in Nat : x <= y => x - 1 <= y /\ x - 1 <= y - 1 /\ (x - 1 > 0 => y # 1)
  BY SMT
\* Generating a token appends its payload and changes no earlier one.
LEMMA GenerateFacts ==
  ASSUME TypeOK, NEW u \in Users, NEW f \in Fingerprints,
         NEW p \in 0..MaxTokens, Generate(u, f, p)
  PROVE  /\ data' \in Seq(TokenData) /\ Len(data') <= MaxTokens
         /\ Len(data') = Len(data) + 1 /\ Len(data) \in Nat
         /\ NextToken \in Tokens /\ NextToken = Len(data')
         /\ data'[NextToken].user = u /\ data'[NextToken].parent = p
         /\ data'[NextToken].fp = f
         /\ \A t \in 1..Len(data) : data'[t] = data[t]
  <1>1. /\ data \in Seq(TokenData) /\ Len(data) \in Nat /\ Len(data) <= MaxTokens
        /\ MaxTokens \in Nat
    BY ConstantsAssumption, SMT DEF TypeOK
  <1>2. [user |-> u, fp |-> f, parent |-> p] \in TokenData BY DEF TokenData
  <1> QED BY <1>1, <1>2, SMT DEF Generate, NextToken, Tokens

(***************************************************************************)
(* The inductive invariant.                                                *)
(***************************************************************************)

Pending == {"issueExec", "rotateExec"}
Enforcing == {"scard", "smembers", "get", "srem"}

\* The tokens that were written for user u.
Written(u) == {t \in stored : data[t].user = u}

\* What a request knows about the tokens in its local variables: the token it
\* is about to write is generated and not written, every other one is written.
RequestOK(c) ==
  LET r == req[c]
  IN  /\ r.pc \in Pending => /\ r.new \in (1..Len(data)) \ stored
                             /\ data[r.new].user = r.user
      /\ r.pc = "issueExec" => data[r.new].parent = NoToken /\ r.tokens = {}
      /\ r.pc = "rotateExec" => r.tok \in stored /\ data[r.new].parent = r.tok
      /\ r.pc = "revokeExec" => r.tok \in stored
      /\ r.pc \in Enforcing => /\ r.new \in stored
                               /\ r.tokens \subseteq Written(r.user)
      /\ r.pc \in {"get", "srem"} => r.hashes \subseteq Written(r.user)
      /\ r.pc = "srem" => r.tok \in stored

\* Two requests never write the same token.
DistinctWrites ==
  \A c, d \in Clients :
    c # d /\ req[c].pc \in Pending /\ req[d].pc \in Pending
      => req[c].new # req[d].new

StoreOK ==
  /\ stored \subseteq 1..Len(data)
  /\ held \subseteq stored
  /\ evicted \subseteq stored
  /\ \A t \in Tokens : Live(t) => t \in stored

Inv ==
  /\ TypeOK
  /\ StoreOK
  /\ IndexOwned
  /\ DistinctWrites
  /\ \A c \in Clients : RequestOK(c)

\* A step of another goroutine leaves RequestOK(d) true when it keeps the
\* payloads generated so far, forgets no written token and does not write the
\* token that d is about to write.
LEMMA RequestFrame ==
  ASSUME Inv, NEW d \in Clients, req'[d] = req[d],
         Len(data) <= Len(data'),
         \A t \in 1..Len(data) : data'[t] = data[t],
         stored \subseteq stored',
         req[d].pc \in Pending => req[d].new \notin stored',
         Len(data) \in Nat, Len(data') \in Nat
  PROVE  RequestOK(d)'
  <1>1. RequestOK(d) /\ stored \subseteq 1..Len(data)
    BY DEF Inv, StoreOK
  <1>2. \A t \in stored : t \in stored' /\ data'[t] = data[t]
    BY <1>1
  <1>3. \A u : Written(u) \subseteq Written(u)'
    BY <1>2 DEF Written
  <1>4. req[d].pc \in Pending => /\ req[d].new \in (1..Len(data')) \ stored'
                                 /\ data'[req[d].new] = data[req[d].new]
    BY <1>1, SMT DEF RequestOK
  <1> QED BY <1>1, <1>2, <1>3, <1>4 DEF RequestOK, Pending

\* A step that leaves requests, payloads and written tokens alone, such as the
\* expiry of keys, keeps what the requests remember true.
LEMMA RequestsKept ==
  ASSUME Inv, UNCHANGED <<data, req, stored>>
  PROVE  \A c \in Clients : RequestOK(c)'
  <1> SUFFICES ASSUME NEW c \in Clients PROVE RequestOK(c)' OBVIOUS
  <1>1. Len(data) \in Nat BY SMT DEF Inv, TypeOK
  <1>2. req[c].pc \in Pending => req[c].new \notin stored
    BY DEF Inv, RequestOK
  <1> QED BY <1>1, <1>2, RequestFrame, SMT

\* The invariant holds in the empty store.
THEOREM InitInv == Init => Inv
  <1> SUFFICES ASSUME Init PROVE Inv OBVIOUS
  <1>1. TypeOK
    BY IdleType, ConstantsAssumption, SMT DEF Init, TypeOK, Index, Tokens
  <1>2. StoreOK BY SMT DEF Init, StoreOK, Live
  <1>3. IndexOwned BY DEF Init, IndexOwned, Absent
  <1>4. DistinctWrites BY IdleType DEF Init, DistinctWrites, Pending
  <1>5. ASSUME NEW c \in Clients PROVE RequestOK(c)
    BY IdleType DEF Init, RequestOK, Pending, Enforcing
  <1> QED BY <1>1, <1>2, <1>3, <1>4, <1>5 DEF Inv

\* What every step of goroutine c leaves alone: the other requests, the
\* payloads generated so far, the tokens written so far.
Frame(c) ==
  /\ \A d \in Clients \ {c} : req'[d] = req[d]
  /\ Len(data) <= Len(data')
  /\ \A t \in 1..Len(data) : data'[t] = data[t]
  /\ stored \subseteq stored'
  /\ \/ stored' = stored
     \/ req[c].pc \in Pending /\ stored' = stored \cup {req[c].new}
  /\ req'[c].pc \in Pending => req'[c].new \notin 1..Len(data)

\* A step of goroutine c preserves the invariant when it preserves the parts
\* that speak of the store and of c's own request.
LEMMA StepFrame ==
  ASSUME Inv, NEW c \in Clients, Frame(c),
         TypeOK', StoreOK', IndexOwned', RequestOK(c)'
  PROVE  Inv'
  <1>1. Len(data) \in Nat /\ Len(data') \in Nat
    BY SMT DEF Inv, TypeOK
  <1>2. ASSUME NEW d \in Clients \ {c}, req[d].pc \in Pending
        PROVE  req[d].new \in (1..Len(data)) \ stored'
    <2>1. req[d].new \in (1..Len(data)) \ stored
      BY <1>2 DEF Inv, RequestOK
    <2>2. req[c].pc \in Pending => req[c].new # req[d].new
      BY <1>2 DEF Inv, DistinctWrites
    <2> QED BY <2>1, <2>2 DEF Frame
  <1>3. ASSUME NEW d \in Clients \ {c} PROVE RequestOK(d)'
    <2>1. req'[d] = req[d] /\ (req[d].pc \in Pending => req[d].new \notin stored')
      BY <1>2 DEF Frame
    <2> QED BY <1>1, <2>1, RequestFrame DEF Frame
  <1>4. DistinctWrites'
    <2> SUFFICES ASSUME NEW d \in Clients, NEW e \in Clients, d # e,
                        req'[d].pc \in Pending, req'[e].pc \in Pending
                 PROVE  req'[d].new # req'[e].new
      BY DEF DistinctWrites
    <2>1. CASE d # c /\ e # c BY <2>1, SMT DEF Frame, Inv, DistinctWrites
    <2>2. CASE d = c BY <2>2, <1>2 DEF Frame
    <2>3. CASE e = c BY <2>3, <1>2 DEF Frame
    <2> QED BY <2>1, <2>2, <2>3
  <1> QED BY <1>3, <1>4 DEF Inv

\* IndexOwned survives when no index gains a member.
LEMMA IndexFrame ==
  ASSUME Inv, NEW c \in Clients, Frame(c),
         \A u \in Users : index'[u].members \subseteq index[u].members
  PROVE  IndexOwned'
  <1>1. \A t \in stored : t \in stored' /\ data'[t] = data[t]
    BY DEF Inv, StoreOK, Frame
  <1> QED BY <1>1, SMT DEF IndexOwned, Inv

(***************************************************************************)
(* One lemma per kind of step.                                             *)
(***************************************************************************)

\* Steps that only read Redis: they change the request of c, and possibly
\* what clients hold, and leave store and indexes alone.
ReadOnly(c) ==
  /\ \A d \in Clients \ {c} : req'[d] = req[d]
  /\ req' \in [Clients -> Request]
  /\ req'[c].pc \notin Pending
  /\ UNCHANGED <<data, life, index, stored, evicted>>
  /\ held' \subseteq stored
  /\ faults' \in 0..MaxFaults

\* Such a step preserves the invariant.
LEMMA ReadOnlyStep ==
  ASSUME Inv, NEW c \in Clients, ReadOnly(c), RequestOK(c)'
  PROVE  Inv'
  <1>1. Frame(c) BY SMT DEF Frame, ReadOnly, Inv, TypeOK
  <1>2. TypeOK' BY DEF ReadOnly, Inv, TypeOK
  <1>3. StoreOK' BY DEF ReadOnly, Inv, StoreOK, Live
  <1>4. IndexOwned' BY <1>1, IndexFrame DEF ReadOnly
  <1> QED BY <1>1, <1>2, <1>3, <1>4, StepFrame

\* A goroutine that has returned makes no claim.
LEMMA IdleOK ==
  ASSUME NEW c \in Clients, Inv, Return(c)
  PROVE  /\ RequestOK(c)'
         /\ req' \in [Clients -> Request]
         /\ req'[c].pc \notin Pending
         /\ \A d \in Clients \ {c} : req'[d] = req[d]
  BY IdleType DEF Inv, TypeOK, Return, RequestOK, Pending, Enforcing

\* A request that enters RevokeAll is well formed.
LEMMA BeginRevokeAllOK ==
  ASSUME NEW c \in Clients, Inv, NEW u \in Users, BeginRevokeAll(c, u)
  PROVE  /\ RequestOK(c)'
         /\ req' \in [Clients -> Request]
         /\ req'[c].pc \notin Pending
         /\ \A d \in Clients \ {c} : req'[d] = req[d]
  <1> DEFINE r == [Idle EXCEPT !.pc = "revokeAll", !.user = u,
                               !.targets = LiveOf(u)]
  <1>1. LiveOf(u) \subseteq Tokens
    BY ConstantsAssumption, SMT DEF LiveOf, Inv, TypeOK, Tokens
  <1>2. r \in Request /\ r.pc = "revokeAll"
    BY <1>1, IdleType DEF Request, PCs
  <1>3. req' = [req EXCEPT ![c] = r] BY DEF BeginRevokeAll
  <1> HIDE DEF r
  <1> QED BY <1>2, <1>3 DEF Inv, TypeOK, RequestOK, Pending, Enforcing

\* SCARD, SMEMBERS and GET in enforceMaxSessions, their failures, and its end.
LEMMA EnforceReadOnly ==
  ASSUME Inv, NEW c \in Clients,
         EnforceSCard(c) \/ EnforceSMembers(c) \/ EnforceGet(c) \/ EnforceDone(c)
           \/ EnforceFails(c) \/ EnforceGetFails(c)
  PROVE  Inv'
  <1> USE DEF Inv
  <1>0. req[c] \in Request /\ faults \in 0..MaxFaults
    BY DEF TypeOK
  <1>a. ASSUME IssueReturn(c), req[c].pc \in Enforcing,
               UNCHANGED <<data, life, index, stored, evicted>>,
               faults' \in 0..MaxFaults
        PROVE  Inv'
    <2>1. Return(c) /\ held' \subseteq stored
      BY <1>a DEF IssueReturn, StoreOK, RequestOK
    <2> QED BY <1>0, <1>a, <2>1, IdleOK, ReadOnlyStep DEF ReadOnly
  <1>b. Fault => faults' \in 0..MaxFaults
    BY <1>0, ConstantsAssumption, SMT DEF Fault
  <1>1. CASE EnforceSCard(c)
    <2>1. CASE IssueReturn(c)
      BY <1>0, <1>1, <1>a, <2>1 DEF EnforceSCard, Enforcing
    <2>2. CASE Goto(c, "smembers") /\ UNCHANGED held
      <3>1. req' = [req EXCEPT ![c].pc = "smembers"] BY <2>2 DEF Goto
      <3>2. req[c].pc = "scard" /\ UNCHANGED <<data, life, index, held, stored, evicted, faults>>
        BY <1>1, <2>2 DEF EnforceSCard
      <3>3. ReadOnly(c)
        BY <1>0, <3>1, <3>2 DEF ReadOnly, TypeOK, Request, PCs, Pending, StoreOK
      <3>4. \A u : Written(u)' = Written(u)
        BY <3>2 DEF Written
      <3>5. RequestOK(c)'
        BY <1>0, <3>1, <3>2, <3>4
        DEF RequestOK, TypeOK, Request, Pending, Enforcing
      <3> QED BY <3>3, <3>5, ReadOnlyStep
    <2> QED BY <1>1, <2>1, <2>2, SMTT(30) DEF EnforceSCard
  <1>2. CASE EnforceSMembers(c)
    <2>1. index[req[c].user].members \subseteq Tokens
      BY <1>0, SMT DEF TypeOK, Index, Absent, Request
    <2>2. index[req[c].user].members \subseteq Written(req[c].user)
      BY <1>0 DEF IndexOwned, Written, Request
    <2>3. ReadOnly(c)
      BY <1>0, <1>2, <2>1
      DEF EnforceSMembers, ReadOnly, TypeOK, Request, PCs, Pending, StoreOK
    <2>4. RequestOK(c)'
      <3>1. /\ req[c].pc = "smembers" /\ UNCHANGED <<data, stored>>
            /\ req'[c] = [req[c] EXCEPT !.pc = "get",
                                       !.hashes = index[req[c].user].members]
        BY <1>0, <1>2 DEF EnforceSMembers, TypeOK
      <3>2. \A u : Written(u)' = Written(u) BY <3>1 DEF Written
      <3>3. req[c].new \in stored /\ req[c].tokens \subseteq Written(req[c].user)
        BY <3>1 DEF RequestOK, Enforcing
      <3>4. /\ req'[c].pc = "get" /\ req'[c].new = req[c].new
            /\ req'[c].tokens = req[c].tokens /\ req'[c].user = req[c].user
            /\ req'[c].hashes = index[req[c].user].members
        BY <1>0, <3>1 DEF Request
      <3> HIDE DEF Inv
      <3> QED BY <2>2, <3>1, <3>2, <3>3, <3>4 DEF RequestOK, Pending, Enforcing
    <2> QED BY <2>3, <2>4, ReadOnlyStep
  <1>c. ASSUME NEW hash \in req[c].hashes, req[c].pc = "get",
               \/ req' = [req EXCEPT ![c].hashes = @ \ {hash},
                                     ![c].tokens = @ \cup {hash}]
               \/ req' = [req EXCEPT ![c].hashes = @ \ {hash}, ![c].tok = hash,
                                     ![c].pc = "srem"],
               UNCHANGED <<data, life, index, held, stored, evicted>>,
               faults' \in 0..MaxFaults
        PROVE  Inv'
    <2>1. hash \in Written(req[c].user) /\ hash \in stored /\ hash \in Tokens
      BY <1>0, <1>c DEF RequestOK, Written, Request
    <2>2. /\ req'[c].pc \in {"get", "srem"}
          /\ req'[c].user = req[c].user /\ req'[c].new = req[c].new
          /\ req'[c].hashes \subseteq req[c].hashes
          /\ req'[c].tokens \subseteq req[c].tokens \cup {hash}
          /\ req'[c].pc = "srem" => req'[c].tok = hash
      <3>1. CASE req' = [req EXCEPT ![c].hashes = @ \ {hash},
                                    ![c].tokens = @ \cup {hash}]
        <4>1. req'[c] = [req[c] EXCEPT !.hashes = @ \ {hash}, !.tokens = @ \cup {hash}]
          BY <3>1 DEF TypeOK
        <4> QED BY <1>0, <1>c, <4>1, SMT DEF Request
      <3>2. CASE req' = [req EXCEPT ![c].hashes = @ \ {hash}, ![c].tok = hash,
                                    ![c].pc = "srem"]
        <4>1. req'[c] = [req[c] EXCEPT !.hashes = @ \ {hash}, !.tok = hash, !.pc = "srem"]
          BY <3>2 DEF TypeOK
        <4> QED BY <1>0, <1>c, <4>1, SMT DEF Request
      <3> QED BY <1>c, <3>1, <3>2
    <2>3. req' \in [Clients -> Request]
      <3>1. hash \in 0..MaxTokens BY <2>1, SMT DEF Tokens
      <3>2. [req[c] EXCEPT !.hashes = @ \ {hash}, !.tokens = @ \cup {hash}] \in Request
        BY <1>0, <2>1 DEF Request
      <3>3. [req[c] EXCEPT !.hashes = @ \ {hash}, !.tok = hash, !.pc = "srem"] \in Request
        BY <1>0, <2>1, <3>1 DEF Request, PCs
      <3> QED BY <1>c, <3>2, <3>3 DEF TypeOK
    <2>4. \A d \in Clients \ {c} : req'[d] = req[d]
      BY <1>c DEF TypeOK
    <2>5. ReadOnly(c)
      BY <1>0, <1>c, <2>2, <2>3, <2>4 DEF ReadOnly, Pending, StoreOK
    <2>6. \A u : Written(u)' = Written(u)
      BY <1>c DEF Written
    <2>7. RequestOK(c)'
      BY <1>c, <2>1, <2>2, <2>6 DEF RequestOK, Pending, Enforcing
    <2> QED BY <2>5, <2>7, ReadOnlyStep
  <1>3. CASE EnforceGet(c)
    BY <1>0, <1>3, <1>c DEF EnforceGet
  <1>4. CASE EnforceDone(c)
    BY <1>0, <1>4, <1>a DEF EnforceDone, Enforcing
  <1>5. CASE EnforceFails(c)
    BY <1>0, <1>5, <1>a, <1>b DEF EnforceFails, Enforcing
  <1>6. CASE EnforceGetFails(c)
    BY <1>0, <1>6, <1>b, <1>c DEF EnforceGetFails
  <1> QED BY <1>1, <1>2, <1>3, <1>4, <1>5, <1>6

\* Steps that delete keys or index members, and write no token.
Shrinks(c) ==
  /\ \A d \in Clients \ {c} : req'[d] = req[d]
  /\ req' \in [Clients -> Request]
  /\ req'[c].pc \notin Pending
  /\ life' \in [Tokens -> 0..TTL]
  /\ \A t \in Tokens : life'[t] > 0 => life[t] > 0
  /\ index' \in [Users -> Index]
  /\ \A u \in Users : index'[u].members \subseteq index[u].members
  /\ UNCHANGED <<data, stored, held>>
  /\ evicted' \subseteq stored
  /\ faults' \in 0..MaxFaults

\* Such a step preserves the invariant.
LEMMA ShrinkStep ==
  ASSUME Inv, NEW c \in Clients, Shrinks(c), RequestOK(c)'
  PROVE  Inv'
  <1>1. Frame(c) BY SMT DEF Frame, Shrinks, Inv, TypeOK
  <1>2. stored \subseteq Tokens BY DEF Inv, TypeOK
  <1>3. TypeOK' BY <1>2 DEF Shrinks, Inv, TypeOK
  <1>4. StoreOK' BY DEF Shrinks, Inv, StoreOK, Live
  <1>5. IndexOwned' BY <1>1, IndexFrame DEF Shrinks
  <1> QED BY <1>1, <1>3, <1>4, <1>5, StepFrame

\* Steps that write the token of c's pending request.
Writes(c) ==
  LET new == req[c].new
      u == req[c].user
  IN  /\ \A d \in Clients \ {c} : req'[d] = req[d]
      /\ req' \in [Clients -> Request]
      /\ req[c].pc \in Pending
      /\ req'[c].pc \notin Pending
      /\ life' \in [Tokens -> 0..TTL]
      /\ \A t \in Tokens : life'[t] > 0 => life[t] > 0 \/ t = new
      /\ index' \in [Users -> Index]
      /\ \A v \in Users \ {u} : index'[v] = index[v]
      /\ index'[u].members \subseteq index[u].members \cup {new}
      /\ stored' = stored \cup {new}
      /\ held' \subseteq stored'
      /\ UNCHANGED <<data, evicted>>
      /\ faults' \in 0..MaxFaults

\* Such a step preserves the invariant.
LEMMA WriteStep ==
  ASSUME Inv, NEW c \in Clients, Writes(c), RequestOK(c)'
  PROVE  Inv'
  <1> DEFINE new == req[c].new
  <1>0. /\ new \in 1..Len(data) /\ new \in Tokens
        /\ data[new].user = req[c].user /\ req[c].user \in Users
    <2>1. new \in 1..Len(data) /\ data[new].user = req[c].user
      BY DEF Writes, Inv, RequestOK
    <2>2. req[c] \in Request BY DEF Inv, TypeOK
    <2>3. new \in Tokens
      <3>1. Len(data) \in Nat /\ Len(data) <= MaxTokens BY SMT DEF Inv, TypeOK
      <3> QED BY <2>1, <3>1, ConstantsAssumption, SMT DEF Tokens
    <2> QED BY <2>1, <2>2, <2>3 DEF Request
  <1>1. Frame(c)
    <2>1. Len(data) \in Nat BY SMT DEF Inv, TypeOK
    <2> QED BY <2>1, SMT DEF Frame, Writes
  <1>2. TypeOK' BY <1>0 DEF Writes, Inv, TypeOK
  <1>3. StoreOK' BY <1>0 DEF Writes, Inv, StoreOK, Live
  <1>4. IndexOwned'
    <2> SUFFICES ASSUME NEW v \in Users, NEW t \in index'[v].members
                 PROVE  t \in stored' /\ data'[t].user = v
      BY DEF IndexOwned
    <2>1. t \in index[v].members \/ (v = req[c].user /\ t = new)
      BY DEF Writes
    <2>2. CASE t \in index[v].members
      BY <2>2 DEF Inv, IndexOwned, Writes
    <2>3. CASE v = req[c].user /\ t = new
      BY <2>3, <1>0 DEF Writes
    <2> QED BY <2>1, <2>2, <2>3
  <1> QED BY <1>1, <1>2, <1>3, <1>4, StepFrame

\* Issue and Rotate generate a token and leave Redis alone.
LEMMA GenerateStep ==
  ASSUME Inv, NEW c \in Clients, NEW u \in Users, NEW f \in Fingerprints,
         NEW p \in 0..MaxTokens, Generate(u, f, p),
         NEW r \in Request, req' = [req EXCEPT ![c] = r],
         r.pc \in Pending, r.new = NextToken, r.user = u, r.tokens = {},
         r.pc = "issueExec" => p = NoToken,
         r.pc = "rotateExec" => r.tok = p /\ p \in stored,
         UNCHANGED <<life, index, held, faults, stored, evicted>>
  PROVE  Inv'
  <1>0. /\ TypeOK /\ StoreOK /\ stored \subseteq 1..Len(data)
        /\ req \in [Clients -> Request]
    BY SMTT(30) DEF Inv, TypeOK, StoreOK
  <1>1. /\ data' \in Seq(TokenData) /\ Len(data') <= MaxTokens
        /\ Len(data') = Len(data) + 1 /\ Len(data) \in Nat
        /\ NextToken \in Tokens /\ NextToken = Len(data')
        /\ data'[NextToken].user = u /\ data'[NextToken].parent = p
        /\ \A t \in 1..Len(data) : data'[t] = data[t]
    BY <1>0, GenerateFacts
  <1>2. req'[c] = r /\ \A d \in Clients \ {c} : req'[d] = req[d]
    BY <1>0
  <1>3. Frame(c)
    <2>1. NextToken \notin 1..Len(data) /\ Len(data) <= Len(data') BY <1>1, SMT
    <2>2. stored' = stored OBVIOUS
    <2> QED BY <1>1, <1>2, <2>1, <2>2 DEF Frame
  <1>4. TypeOK'
    <2>1. req' \in [Clients -> Request] BY <1>0
    <2> QED BY <1>0, <1>1, <2>1 DEF TypeOK
  <1>5. StoreOK'
    <2>1. stored \subseteq 1..Len(data') BY <1>0, <1>1, SMT
    <2> QED BY <1>0, <2>1 DEF StoreOK, Live
  <1>6. IndexOwned' BY <1>3, IndexFrame
  <1>7. NextToken \in (1..Len(data')) \ stored'
    BY <1>0, <1>1, SMT
  <1>8. stored' = stored OBVIOUS
  <1>9. RequestOK(c)'
    <2>1. data'[r.new].user = r.user /\ data'[r.new].parent = p
      BY <1>1
    <2>2. r.new \in (1..Len(data')) \ stored' BY <1>7
    <2>3. r.pc \notin Enforcing /\ r.pc \notin {"get", "srem", "revokeExec"}
      BY DEF Pending, Enforcing
    <2>4. r.pc = "rotateExec" => r.tok \in stored' BY <1>8
    <2> QED BY <1>2, <2>1, <2>2, <2>3, <2>4 DEF RequestOK
  <1> QED BY <1>3, <1>4, <1>5, <1>6, <1>9, StepFrame

\* Issue begins: generateOpaqueToken and the payload of the new token.
LEMMA IssueForStep ==
  ASSUME Inv, NEW c \in Clients, NEW u \in Users, NEW f \in Fingerprints, IssueFor(c, u, f)
  PROVE  Inv'
  <1> DEFINE r == [Idle EXCEPT !.pc = "issueExec", !.user = u, !.new = NextToken]
  <1>1. Generate(u, f, NoToken) /\ req' = [req EXCEPT ![c] = r]
    BY DEF IssueFor
  <1>2. NoToken \in 0..MaxTokens BY ConstantsAssumption, SMT DEF NoToken
  <1>3. NextToken \in 0..MaxTokens
    BY <1>1, ConstantsAssumption, SMT DEF Generate, NextToken, Inv, TypeOK
  <1>4. /\ r \in Request /\ r.pc = "issueExec" /\ r.user = u
        /\ r.new = NextToken /\ r.tokens = {}
    BY <1>3, IdleType DEF Idle, Request, PCs
  <1>6. UNCHANGED <<life, index, held, faults, stored, evicted>>
    BY DEF IssueFor
  <1> HIDE DEF r
  <1>7. r.pc \in Pending /\ r.pc # "rotateExec" BY <1>4 DEF Pending
  <1> QED BY <1>1, <1>2, <1>4, <1>6, <1>7, GenerateStep

\* The payload of a held token names its owner.
LEMMA HeldFacts ==
  ASSUME Inv, NEW t \in held
  PROVE  /\ t \in stored /\ t \in Tokens /\ t \in 0..MaxTokens
         /\ data[t].user \in Users
  <1>1. t \in stored /\ t \in 1..Len(data) BY DEF Inv, StoreOK
  <1>2. data[t] \in TokenData BY <1>1, SMT DEF Inv, TypeOK
  <1>3. t \in Tokens BY <1>1 DEF Inv, TypeOK
  <1> QED BY <1>1, <1>2, <1>3, SMT DEF TokenData, Tokens

\* A call of RevokeAll begins.
LEMMA RevokeAllBegins ==
  ASSUME Inv, NEW c \in Clients, NEW u \in Users, BeginRevokeAll(c, u),
         UNCHANGED <<data, life, index, held, faults, stored, evicted>>
  PROVE  Inv'
  <1>1. ReadOnly(c)
    BY BeginRevokeAllOK DEF ReadOnly, Inv, TypeOK, StoreOK
  <1> QED BY <1>1, BeginRevokeAllOK, ReadOnlyStep

\* Rotate looks up the presented token: it goes on, or revokes all tokens.
LEMMA RotateWithStep ==
  ASSUME Inv, NEW c \in Clients, NEW t \in held, NEW f \in Fingerprints, RotateWith(c, t, f)
  PROVE  Inv'
  <1>0. UNCHANGED <<life, index, held, faults, stored, evicted>>
    BY DEF RotateWith
  <1>1. IF data[t].fp # f
        THEN BeginRevokeAll(c, data[t].user) /\ UNCHANGED data
        ELSE /\ Generate(data[t].user, f, t)
             /\ req' = [req EXCEPT ![c] = [Idle EXCEPT !.pc = "rotateExec",
                                                       !.user = data[t].user,
                                                       !.tok = t,
                                                       !.new = NextToken]]
    BY DEF RotateWith
  <1>2. CASE data[t].fp # f
    BY <1>0, <1>1, <1>2, HeldFacts, RevokeAllBegins
  <1>3. CASE data[t].fp = f
    <2> DEFINE u == data[t].user
               r == [Idle EXCEPT !.pc = "rotateExec", !.user = u, !.tok = t,
                                 !.new = NextToken]
    <2>1. /\ u \in Users /\ t \in stored /\ t \in 0..MaxTokens
          /\ Generate(u, f, t) /\ req' = [req EXCEPT ![c] = r]
      BY <1>1, <1>3, HeldFacts
    <2> HIDE DEF u
    <2>2. NextToken \in 0..MaxTokens
      BY <2>1, ConstantsAssumption, SMT DEF Generate, NextToken, Inv, TypeOK
    <2>3. /\ r \in Request /\ r.pc = "rotateExec" /\ r.user = u
          /\ r.new = NextToken /\ r.tokens = {} /\ r.tok = t
      BY <2>1, <2>2, IdleType DEF Idle, Request, PCs
    <2> HIDE DEF r
    <2> QED BY <1>0, <2>1, <2>3, GenerateStep DEF Pending
  <1> QED BY <1>2, <1>3

\* Revoke looks up the presented token.
LEMMA RevokeTokenStep ==
  ASSUME Inv, NEW c \in Clients, NEW t \in held, RevokeToken(c, t)
  PROVE  Inv'
  <1> DEFINE r == [Idle EXCEPT !.pc = "revokeExec", !.user = data[t].user, !.tok = t]
  <1>1. /\ req' = [req EXCEPT ![c] = r]
        /\ UNCHANGED <<data, life, index, held, faults, stored, evicted>>
    BY DEF RevokeToken
  <1>2. r \in Request /\ r.pc = "revokeExec" /\ r.tok = t /\ t \in stored
    BY HeldFacts, IdleType DEF Request, PCs
  <1> HIDE DEF r
  <1>3. ReadOnly(c)
    BY <1>1, <1>2 DEF ReadOnly, Inv, TypeOK, StoreOK, Pending
  <1>4. RequestOK(c)'
    BY <1>1, <1>2 DEF RequestOK, Inv, TypeOK, Pending, Enforcing
  <1> QED BY <1>3, <1>4, ReadOnlyStep

\* The first steps of RevokeAll, Verify and Revoke, and a call that fails.
LEMMA LookupStep ==
  ASSUME Inv, NEW c \in Clients,
         RevokeAll(c) \/ RevokeAllSMembers(c) \/ Verify(c) \/ Revoke(c)
           \/ CallFails(c)
  PROVE  Inv'
  <1> USE DEF Inv
  <1>0. req[c] \in Request /\ faults \in 0..MaxFaults
        /\ held \subseteq stored
    BY DEF TypeOK, StoreOK
  <1>1. CASE RevokeAll(c)
    BY <1>1, RevokeAllBegins DEF RevokeAll, RevokeAllOf
  <1>2. CASE Verify(c)
    <2>1. PICK t \in held, f \in Fingerprints : BeginRevokeAll(c, data[t].user)
      BY <1>2 DEF Verify
    <2>2. data[t].user \in Users BY HeldFacts
    <2> QED BY <1>2, <2>1, <2>2, RevokeAllBegins DEF Verify
  <1>3. CASE Revoke(c)
    BY <1>3, RevokeTokenStep DEF Revoke
  <1>4. CASE RevokeAllSMembers(c)
    <2> DEFINE hashes == index[req[c].user].members
    <2>1. CASE hashes = {}
      <3>1. Return(c)
        BY <1>0, <1>4, <2>1 DEF RevokeAllSMembers, Request
      <3>2. ReadOnly(c)
        BY <1>0, <1>4, <3>1, IdleOK DEF RevokeAllSMembers, ReadOnly
      <3> QED BY <3>1, <3>2, IdleOK, ReadOnlyStep
    <2>2. CASE hashes # {}
      <3>1. hashes \subseteq Tokens
        BY <1>0, SMT DEF TypeOK, Index, Absent, Request
      <3>2. /\ req' = [req EXCEPT ![c].pc = "revokeAllExec", ![c].hashes = hashes]
            /\ UNCHANGED <<data, life, index, held, faults, stored, evicted>>
        BY <1>4, <2>2 DEF RevokeAllSMembers
      <3> DEFINE r == [req[c] EXCEPT !.pc = "revokeAllExec", !.hashes = hashes]
      <3>3. r \in Request /\ r.pc = "revokeAllExec"
        BY <1>0, <3>1 DEF Request, PCs
      <3>4. req' = [req EXCEPT ![c] = r] BY <3>2
      <3> HIDE DEF r
      <3>5. ReadOnly(c)
        BY <1>0, <3>2, <3>3, <3>4 DEF ReadOnly, TypeOK, Pending
      <3>6. RequestOK(c)'
        BY <3>2, <3>3, <3>4 DEF RequestOK, TypeOK, Pending, Enforcing
      <3> QED BY <3>5, <3>6, ReadOnlyStep
    <2> QED BY <2>1, <2>2
  <1>5. CASE CallFails(c)
    <2>1. Return(c) /\ faults' \in 0..MaxFaults
      BY <1>0, <1>5, ConstantsAssumption, SMT DEF CallFails, Fault
    <2>2. ReadOnly(c)
      BY <1>0, <1>5, <2>1, IdleOK DEF CallFails, ReadOnly
    <2> QED BY <2>1, <2>2, IdleOK, ReadOnlyStep
  <1> QED BY <1>1, <1>2, <1>3, <1>4, <1>5

\* Time passes: keys and index entries go, none comes.
LEMMA TickStep == Inv /\ Tick => Inv'
  <1> SUFFICES ASSUME Inv, Tick PROVE Inv' OBVIOUS
  <1> USE DEF Inv
  <1>0. UNCHANGED <<data, req, held, faults, stored, evicted>>
    BY DEF Tick
  <1>1. life' \in [Tokens -> 0..TTL] /\ \A t \in Tokens : life'[t] > 0 => life[t] > 0
    BY ConstantsAssumption, SMT DEF Tick, TypeOK
  <1>2. /\ index' \in [Users -> Index]
        /\ \A u \in Users : index'[u].members \subseteq index[u].members
    <2>1. \A u \in Users : index[u] \in Index BY DEF TypeOK
    <2> QED BY <2>1, AgeFacts DEF Tick
  <1>3. TypeOK' BY <1>0, <1>1, <1>2 DEF TypeOK
  <1>4. StoreOK' BY <1>0, <1>1 DEF StoreOK, Live
  <1>5. IndexOwned' BY <1>0, <1>2 DEF IndexOwned
  <1>6. DistinctWrites' BY <1>0 DEF DistinctWrites
  <1>7. \A c \in Clients : RequestOK(c)'
    <2> HIDE DEF Inv
    <2> QED BY <1>0, RequestsKept
  <1> QED BY <1>3, <1>4, <1>5, <1>6, <1>7

\* The commands that change an index add at most the token they name.
LEMMA IndexMembers ==
  ASSUME NEW ix \in Index, NEW t, NEW s
  PROVE  /\ SRem(ix, t).members \subseteq ix.members
         /\ Expire(SAdd(ix, t)).members = ix.members \cup {t}
         /\ SAdd(SRem(ix, s), t).members \subseteq ix.members \cup {t}
  BY DEF SRem, Expire, SAdd, Absent

\* The effect of a transaction that writes no token.
Deletes(c) ==
  /\ life' \in [Tokens -> 0..TTL]
  /\ \A t \in Tokens : life'[t] > 0 => life[t] > 0
  /\ index' \in [Users -> Index]
  /\ \A u \in Users : index'[u].members \subseteq index[u].members

\* The transactions of Revoke and RevokeAll only delete.
LEMMA RevokeTxDeletes ==
  ASSUME Inv, NEW c \in Clients,
         \/ req[c].pc = "revokeExec" /\ RevokeTx(c)
         \/ req[c].pc = "revokeAllExec" /\ RevokeAllTx(c)
  PROVE  Deletes(c)
  <1> USE DEF Inv
  <1>0. req[c] \in Request /\ req[c].user \in Users BY DEF TypeOK, Request
  <1>1. CASE req[c].pc = "revokeExec" /\ RevokeTx(c)
    <2>1. req[c].tok \in Tokens BY <1>1 DEF RequestOK, TypeOK
    <2>2. /\ SRem(index[req[c].user], req[c].tok) \in Index
          /\ SRem(index[req[c].user], req[c].tok).members
               \subseteq index[req[c].user].members
      BY <1>0, <2>1, IndexType, IndexMembers DEF TypeOK
    <2>3. life' \in [Tokens -> 0..TTL] /\ \A t \in Tokens : life'[t] > 0 => life[t] > 0
      BY <1>1, <2>1, ConstantsAssumption, SMT DEF RevokeTx, TypeOK
    <2> QED BY <1>0, <1>1, <2>2, <2>3 DEF RevokeTx, TypeOK, Deletes
  <1>2. CASE req[c].pc = "revokeAllExec" /\ RevokeAllTx(c)
    <2>1. Absent \in Index /\ Absent.members = {} BY DEF Index, Absent
    <2>2. life' \in [Tokens -> 0..TTL] /\ \A t \in Tokens : life'[t] > 0 => life[t] > 0
      BY <1>2, ConstantsAssumption, SMT DEF RevokeAllTx, TypeOK
    <2> QED BY <1>0, <1>2, <2>1, <2>2 DEF RevokeAllTx, TypeOK, Deletes
  <1> QED BY <1>1, <1>2

\* RevokeExec, RevokeAllExec, and the same transactions with the reply lost.
LEMMA RevokeStep ==
  ASSUME Inv, NEW c \in Clients,
         \/ req[c].pc = "revokeExec" /\ RevokeTx(c)
         \/ req[c].pc = "revokeAllExec" /\ RevokeAllTx(c),
         Return(c), UNCHANGED <<data, held, stored, evicted>>,
         faults' \in 0..MaxFaults
  PROVE  Inv'
  <1>1. Deletes(c) BY RevokeTxDeletes
  <1>2. evicted \subseteq stored BY DEF Inv, StoreOK
  <1>3. Shrinks(c) BY <1>1, <1>2, IdleOK DEF Shrinks, Deletes
  <1> QED BY <1>3, IdleOK, ShrinkStep

\* The effect of a transaction that writes the token of c's request.
Puts(c) ==
  LET new == req[c].new
      u == req[c].user
  IN  /\ life' \in [Tokens -> 0..TTL]
      /\ \A t \in Tokens : life'[t] > 0 => life[t] > 0 \/ t = new
      /\ index' \in [Users -> Index]
      /\ \A v \in Users \ {u} : index'[v] = index[v]
      /\ index'[u].members \subseteq index[u].members \cup {new}
      /\ stored' = stored \cup {new}

\* The transactions of Issue and Rotate write the token of the request.
LEMMA TxPuts ==
  ASSUME Inv, NEW c \in Clients,
         \/ req[c].pc = "issueExec" /\ IssueTx(c)
         \/ req[c].pc = "rotateExec" /\ RotateTx(c)
  PROVE  Puts(c)
  <1> DEFINE u == req[c].user
             new == req[c].new
             old == req[c].tok
  <1>0. u \in Users /\ index[u] \in Index BY DEF Inv, TypeOK, Request
  <1>1. new \in Tokens
    <2>1. new \in 1..Len(data) BY DEF Inv, RequestOK, Pending
    <2>2. Len(data) \in Nat /\ Len(data) <= MaxTokens BY SMT DEF Inv, TypeOK
    <2>3. MaxTokens \in Nat BY ConstantsAssumption
    <2> HIDE DEF new
    <2>4. 1..Len(data) \subseteq 1..MaxTokens BY <2>2, <2>3, SMT
    <2> QED BY <2>1, <2>4 DEF Tokens
  <1>2. TTL \in 0..TTL /\ 0 \in 0..TTL BY ConstantsAssumption, SMTT(30)
  <1>3. CASE req[c].pc = "issueExec" /\ IssueTx(c)
    <2>1. /\ Expire(SAdd(index[u], new)) \in Index
          /\ Expire(SAdd(index[u], new)).members = index[u].members \cup {new}
      BY <1>0, <1>1, IndexType, IndexMembers
    <2>2. /\ life' = [life EXCEPT ![new] = TTL]
          /\ index' = [index EXCEPT ![u] = Expire(SAdd(@, new))]
          /\ stored' = stored \cup {new}
      BY <1>3 DEF IssueTx
    <2>3. /\ index' \in [Users -> Index]
          /\ \A v \in Users \ {u} : index'[v] = index[v]
          /\ index'[u].members \subseteq index[u].members \cup {new}
      <3>1. index' = [index EXCEPT ![u] = Expire(SAdd(index[u], new))] BY <2>2
      <3> QED BY <1>0, <2>1, <3>1 DEF Inv, TypeOK
    <2>4. /\ life' \in [Tokens -> 0..TTL]
          /\ \A t \in Tokens : life'[t] > 0 => life[t] > 0 \/ t = new
      <3>1. life \in [Tokens -> 0..TTL] BY DEF Inv, TypeOK
      <3> HIDE DEF new
      <3> QED BY <1>1, <1>2, <2>2, <3>1
    <2> QED BY <2>2, <2>3, <2>4 DEF Puts
  <1>4. CASE req[c].pc = "rotateExec" /\ RotateTx(c)
    <2>0. old \in Tokens BY <1>4 DEF Inv, RequestOK, TypeOK
    <2>1. /\ SAdd(SRem(index[u], old), new) \in Index
          /\ SAdd(SRem(index[u], old), new).members \subseteq index[u].members \cup {new}
      BY <1>0, <1>1, <2>0, IndexType, IndexMembers
    <2>2. /\ life' = [life EXCEPT ![old] = 0, ![new] = TTL]
          /\ index' = [index EXCEPT ![u] = SAdd(SRem(@, old), new)]
          /\ stored' = stored \cup {new}
      BY <1>4 DEF RotateTx
    <2>3. /\ index' \in [Users -> Index]
          /\ \A v \in Users \ {u} : index'[v] = index[v]
          /\ index'[u].members \subseteq index[u].members \cup {new}
      <3>1. index' = [index EXCEPT ![u] = SAdd(SRem(index[u], old), new)] BY <2>2
      <3> QED BY <1>0, <2>1, <3>1 DEF Inv, TypeOK
    <2>4. /\ life' \in [Tokens -> 0..TTL]
          /\ \A t \in Tokens : life'[t] > 0 => life[t] > 0 \/ t = new
      <3>1. life \in [Tokens -> 0..TTL] BY DEF Inv, TypeOK
      <3> HIDE DEF new, old
      <3> QED BY <1>1, <1>2, <2>0, <2>2, <3>1, SMT
    <2> QED BY <2>2, <2>3, <2>4 DEF Puts
  <1> QED BY <1>3, <1>4

\* IssueExec hands over to enforceMaxSessions.
LEMMA IssueExecStep ==
  ASSUME Inv, NEW c \in Clients, IssueExec(c)
  PROVE  Inv'
  <1> USE DEF Inv
  <1>0. /\ req[c] \in Request /\ req[c].pc = "issueExec" /\ IssueTx(c)
        /\ req' = [req EXCEPT ![c].pc = "scard"]
        /\ UNCHANGED <<data, held, faults, evicted>>
    BY DEF IssueExec, Goto, TypeOK
  <1>1. Puts(c) BY <1>0, TxPuts
  <1> DEFINE r == [req[c] EXCEPT !.pc = "scard"]
  <1>2. /\ r \in Request /\ r.pc = "scard" /\ r.new = req[c].new
        /\ r.tokens = req[c].tokens
    BY <1>0 DEF Request, PCs
  <1>3. req' = [req EXCEPT ![c] = r] BY <1>0
  <1> HIDE DEF r
  <1>4. Writes(c)
    BY <1>0, <1>1, <1>2, <1>3 DEF Puts, Writes, TypeOK, StoreOK, Pending
  <1>5. req[c].tokens = {} BY <1>0 DEF RequestOK
  <1>6. RequestOK(c)'
    BY <1>1, <1>2, <1>3, <1>5 DEF Puts, RequestOK, TypeOK, Pending, Enforcing
  <1> QED BY <1>4, <1>6, WriteStep

\* RotateExec, and the transactions of Issue and Rotate with the reply lost.
LEMMA PutAndReturn ==
  ASSUME Inv, NEW c \in Clients,
         \/ req[c].pc = "issueExec" /\ IssueTx(c)
         \/ req[c].pc = "rotateExec" /\ RotateTx(c),
         Return(c), held' \subseteq held \cup {req[c].new},
         UNCHANGED <<data, evicted>>, faults' \in 0..MaxFaults
  PROVE  Inv'
  <1>1. Puts(c) BY TxPuts
  <1>2. held' \subseteq stored' BY <1>1 DEF Puts, Inv, StoreOK
  <1>3. Writes(c) BY <1>1, <1>2, IdleOK DEF Puts, Writes, Pending
  <1> QED BY <1>3, IdleOK, WriteStep

\* The steps of enforceMaxSessions that write to Redis, or fail to.
LEMMA EnforceWrites ==
  ASSUME Inv, NEW c \in Clients,
         EnforceSRem(c) \/ EnforceEvict(c) \/ EnforceWriteFails(c)
  PROVE  Inv'
  <1> USE DEF Inv
  <1> DEFINE u == req[c].user
  <1>0. /\ req[c] \in Request /\ faults \in 0..MaxFaults
        /\ held \subseteq stored /\ evicted \subseteq stored
        /\ u \in Users /\ index[u] \in Index
    BY DEF TypeOK, StoreOK, Request
  <1>1. ASSUME req[c].pc \in {"get", "srem"},
               NEW S \in SUBSET req[c].tokens, NEW r \in Request,
               r = [req[c] EXCEPT !.pc = "get", !.tokens = S],
               req' = [req EXCEPT ![c] = r], UNCHANGED <<data, stored>>
        PROVE  /\ RequestOK(c)' /\ req' \in [Clients -> Request]
               /\ req'[c].pc \notin Pending
               /\ \A d \in Clients \ {c} : req'[d] = req[d]
    <2>1. /\ r.pc = "get" /\ r.tokens = S /\ r.hashes = req[c].hashes
          /\ r.new = req[c].new /\ r.user = u
      BY <1>0, <1>1 DEF Request
    <2>2. \A v : Written(v)' = Written(v) BY <1>1 DEF Written
    <2>3. req'[c] = r /\ req' \in [Clients -> Request]
          /\ \A d \in Clients \ {c} : req'[d] = req[d]
      BY <1>1 DEF TypeOK
    <2>4. /\ req[c].new \in stored /\ req[c].tokens \subseteq Written(u)
          /\ req[c].hashes \subseteq Written(u)
      BY <1>1 DEF RequestOK, Enforcing
    <2> QED BY <1>1, <2>1, <2>2, <2>3, <2>4, SMT DEF RequestOK, Pending, Enforcing
  <1>2. ASSUME NEW S \in SUBSET req[c].tokens
        PROVE  [req[c] EXCEPT !.pc = "get", !.tokens = S] \in Request
    BY <1>0, <1>2 DEF Request, PCs
  <1>3. ASSUME req[c].pc = "srem", Goto(c, "get"), UNCHANGED <<data, stored>>
        PROVE  /\ RequestOK(c)' /\ req' \in [Clients -> Request]
               /\ req'[c].pc \notin Pending
               /\ \A d \in Clients \ {c} : req'[d] = req[d]
    <2> DEFINE r == [req[c] EXCEPT !.pc = "get", !.tokens = req[c].tokens]
    <2>1. r \in Request BY <1>2
    <2>2. r = [req[c] EXCEPT !.pc = "get"] BY <1>0 DEF Request
    <2>3. req' = [req EXCEPT ![c] = r] BY <1>3, <2>2 DEF Goto
    <2> QED BY <1>1, <1>3, <2>1, <2>3
  <1>4. ASSUME req[c].pc = "get", NEW t, UNCHANGED <<data, stored>>,
               req' = [req EXCEPT ![c].tokens = @ \ {t}]
        PROVE  /\ RequestOK(c)' /\ req' \in [Clients -> Request]
               /\ req'[c].pc \notin Pending
               /\ \A d \in Clients \ {c} : req'[d] = req[d]
    <2> DEFINE S == req[c].tokens \ {t}
               r == [req[c] EXCEPT !.pc = "get", !.tokens = S]
    <2>1. r \in Request BY <1>2
    <2>2. r = [req[c] EXCEPT !.tokens = S] BY <1>0, <1>4 DEF Request
    <2>3. req' = [req EXCEPT ![c] = r] BY <1>4, <2>2
    <2> QED BY <1>1, <1>4, <2>1, <2>3
  <1>5. CASE EnforceSRem(c)
    <2> DEFINE t == req[c].tok
    <2>1. t \in Tokens BY <1>5 DEF EnforceSRem, RequestOK, TypeOK
    <2>2. /\ SRem(index[u], t) \in Index
          /\ SRem(index[u], t).members \subseteq index[u].members
      BY <1>0, <2>1, IndexType, IndexMembers
    <2>3. index' = [index EXCEPT ![u] = SRem(index[u], t)]
      BY <1>5 DEF EnforceSRem
    <2>4. /\ index' \in [Users -> Index]
          /\ \A v \in Users : index'[v].members \subseteq index[v].members
      BY <1>0, <2>2, <2>3 DEF TypeOK
    <2>5. /\ req[c].pc = "srem" /\ Goto(c, "get")
          /\ UNCHANGED <<data, life, held, faults, stored, evicted>>
      BY <1>5 DEF EnforceSRem
    <2>6. Shrinks(c)
      BY <1>0, <1>3, <2>4, <2>5 DEF Shrinks, TypeOK
    <2> QED BY <1>3, <2>5, <2>6, ShrinkStep
  <1>6. CASE EnforceEvict(c)
    <2>1. PICK t \in req[c].tokens :
          /\ req[c].pc = "get"
          /\ life' = [life EXCEPT ![t] = 0]
          /\ index' = [index EXCEPT ![u] = SRem(index[u], t)]
          /\ req' = [req EXCEPT ![c].tokens = @ \ {t}]
          /\ evicted' = evicted \cup {t}
          /\ UNCHANGED <<data, held, faults, stored>>
      BY <1>6 DEF EnforceEvict, Oldest
    <2>2. req[c].tokens \subseteq Tokens BY <1>0 DEF Request
    <2>3. t \in Tokens /\ t \in stored
      BY <2>1, <2>2 DEF RequestOK, Enforcing, Written
    <2>4. /\ SRem(index[u], t) \in Index
          /\ SRem(index[u], t).members \subseteq index[u].members
      BY <1>0, <2>3, IndexType, IndexMembers
    <2>5. /\ index' \in [Users -> Index]
          /\ \A v \in Users : index'[v].members \subseteq index[v].members
      BY <1>0, <2>1, <2>4 DEF TypeOK
    <2>6. life' \in [Tokens -> 0..TTL] /\ \A s \in Tokens : life'[s] > 0 => life[s] > 0
      BY <2>1, <2>3, ConstantsAssumption, SMT DEF TypeOK
    <2>7. Shrinks(c)
      BY <1>0, <1>4, <2>1, <2>3, <2>5, <2>6 DEF Shrinks
    <2> QED BY <1>4, <2>1, <2>7, ShrinkStep
  <1>7. CASE EnforceWriteFails(c)
    <2>1. /\ UNCHANGED <<data, life, index, held, stored, evicted>>
          /\ faults' \in 0..MaxFaults
      BY <1>0, <1>7, ConstantsAssumption, SMT DEF EnforceWriteFails, Fault
    <2>2. /\ RequestOK(c)' /\ req' \in [Clients -> Request]
          /\ req'[c].pc \notin Pending
          /\ \A d \in Clients \ {c} : req'[d] = req[d]
      BY <1>3, <1>4, <1>7, <2>1 DEF EnforceWriteFails
    <2>3. ReadOnly(c) BY <1>0, <2>1, <2>2 DEF ReadOnly
    <2> QED BY <2>2, <2>3, ReadOnlyStep
  <1> QED BY <1>5, <1>6, <1>7

\* A goroutine's step preserves the invariant.
LEMMA StepInv ==
  ASSUME Inv, NEW c \in Clients, Step(c)
  PROVE  Inv'
  <1>0. /\ faults \in 0..MaxFaults
        /\ req[c] \in Request
    BY DEF Inv, TypeOK
  <1>1. CASE RevokeExec(c)
    BY <1>0, <1>1, RevokeStep DEF RevokeExec
  <1>2. CASE RevokeAllExec(c)
    BY <1>0, <1>2, RevokeStep DEF RevokeAllExec
  <1>3. CASE RotateExec(c)
    BY <1>0, <1>3, PutAndReturn DEF RotateExec
  <1>4. CASE ReplyLost(c)
    <2>1. /\ Return(c) /\ UNCHANGED <<data, held, evicted>>
          /\ faults' \in 0..MaxFaults
      <3>1. Fault /\ Return(c) /\ UNCHANGED <<data, held, evicted>>
        BY <1>4 DEF ReplyLost
      <3>2. faults \in 0..MaxFaults /\ MaxFaults \in Nat
        BY <1>0, ConstantsAssumption DEF Inv, TypeOK
      <3>3. faults' \in 0..MaxFaults BY <3>1, <3>2, SMT DEF Fault
      <3> QED BY <3>1, <3>3
    <2>2. CASE \/ req[c].pc = "issueExec" /\ IssueTx(c)
               \/ req[c].pc = "rotateExec" /\ RotateTx(c)
      BY <2>1, <2>2, PutAndReturn
    <2>3. CASE /\ UNCHANGED stored
               /\ \/ req[c].pc = "revokeExec" /\ RevokeTx(c)
                  \/ req[c].pc = "revokeAllExec" /\ RevokeAllTx(c)
      BY <1>0, <2>1, <2>3, RevokeStep
    <2> QED BY <1>4, <2>2, <2>3 DEF ReplyLost
  <1>5. CASE Issue(c)
    BY <1>5, IssueForStep DEF Issue
  <1>6. CASE Rotate(c)
    BY <1>6, RotateWithStep DEF Rotate
  <1> QED BY <1>1, <1>2, <1>3, <1>4, <1>5, <1>6, EnforceReadOnly, EnforceWrites,
             IssueExecStep, LookupStep DEF Step

\* Every step preserves the invariant.
THEOREM NextInv == Inv /\ [Next]_vars => Inv'
  <1> SUFFICES ASSUME Inv, [Next]_vars PROVE Inv' OBVIOUS
  <1>1. CASE Next BY <1>1, StepInv, TickStep DEF Next
  <1>2. CASE UNCHANGED vars
    <2>1. UNCHANGED <<data, life, index, req, held, faults, stored, evicted>>
      BY <1>2 DEF vars
    <2>2. TypeOK' BY <2>1 DEF Inv, TypeOK
    <2>3. StoreOK' BY <2>1 DEF Inv, StoreOK, Live
    <2>4. IndexOwned' BY <2>1 DEF Inv, IndexOwned
    <2>5. DistinctWrites' BY <2>1 DEF Inv, DistinctWrites
    <2>6. \A c \in Clients : RequestOK(c)' BY <2>1, RequestsKept
    <2> QED BY <2>2, <2>3, <2>4, <2>5, <2>6 DEF Inv
  <1> QED BY <1>1, <1>2

\* The invariant holds in every reachable state.
THEOREM Invariance == Spec => []Inv
  BY InitInv, NextInv, PTL DEF Spec

(***************************************************************************)
(* The theorems.                                                           *)
(***************************************************************************)

\* Every variable keeps its type, whatever the calls, races and errors.
THEOREM TypeCorrect == Spec => []TypeOK
  BY Invariance, PTL DEF Inv

\* The index of a user lists only tokens that Issue or Rotate wrote for that
\* user: RevokeAll and enforceMaxSessions never touch another user's session.
THEOREM OwnIndexOnly == Spec => []IndexOwned
  BY Invariance, PTL DEF Inv

\* What a step does to the keys: a goroutine with a pending EXEC may write its
\* own token, which was not written before; no other key comes into being.
LEMMA KeysOnlyDie ==
  ASSUME Inv, [Next]_vars
  PROVE  /\ stored \subseteq stored'
         /\ \A t \in 1..Len(data) : data'[t] = data[t]
         /\ \A t \in stored : life[t] = 0 => life'[t] = 0
         /\ \/ stored' = stored
            \/ \E c \in Clients :
                 /\ stored' = stored \cup {req[c].new} /\ data' = data
                 /\ \/ req[c].pc = "issueExec" /\ IssueTx(c)
                    \/ req[c].pc = "rotateExec" /\ RotateTx(c)
  <1> USE DEF Inv
  <1>0. stored \subseteq Tokens /\ stored \subseteq 1..Len(data)
        /\ life \in [Tokens -> 0..TTL]
    BY DEF TypeOK, StoreOK
  <1>1. CASE UNCHANGED vars BY <1>1 DEF vars
  <1>2. CASE Tick
    <2> HIDE DEF Inv
    <2>1. UNCHANGED <<data, stored>> BY <1>2 DEF Tick
    <2>2. \A t \in stored : life[t] = 0 => life'[t] = 0
      BY <1>0, <1>2, SMT DEF Tick
    <2> QED BY <2>1, <2>2
  <1>3. ASSUME NEW c \in Clients, NEW u \in Users, NEW f \in Fingerprints,
               NEW p \in 0..MaxTokens, Generate(u, f, p)
        PROVE  \A t \in 1..Len(data) : data'[t] = data[t]
    BY <1>3, GenerateFacts
  <1>4. ASSUME NEW c \in Clients, data' = data,
               \/ req[c].pc = "issueExec" /\ IssueTx(c)
               \/ req[c].pc = "rotateExec" /\ RotateTx(c)
        PROVE  /\ stored' = stored \cup {req[c].new}
               /\ \A t \in stored : life[t] = 0 => life'[t] = 0
    <2>1. req[c].new \notin stored BY <1>4 DEF RequestOK, Pending
    <2>2. CASE req[c].pc = "issueExec" /\ IssueTx(c)
      BY <1>0, <2>1, <2>2 DEF IssueTx
    <2>3. CASE req[c].pc = "rotateExec" /\ RotateTx(c)
      BY <1>0, <2>1, <2>3 DEF RotateTx
    <2> QED BY <1>4, <2>2, <2>3
  <1>6. ASSUME NEW c \in Clients, Step(c)
        PROVE  /\ stored \subseteq stored'
               /\ \A t \in 1..Len(data) : data'[t] = data[t]
               /\ \A t \in stored : life[t] = 0 => life'[t] = 0
               /\ \/ stored' = stored
                  \/ \E d \in Clients :
                       /\ stored' = stored \cup {req[d].new} /\ data' = data
                       /\ \/ req[d].pc = "issueExec" /\ IssueTx(d)
                          \/ req[d].pc = "rotateExec" /\ RotateTx(d)
    <2>1. CASE Issue(c)
      <3>1. PICK u \in Users, f \in Fingerprints : Generate(u, f, NoToken)
        BY <2>1 DEF Issue, IssueFor
      <3>2. NoToken \in 0..MaxTokens BY ConstantsAssumption, SMT DEF NoToken
      <3> QED BY <1>3, <2>1, <3>1, <3>2 DEF Issue, IssueFor
    <2>2. CASE Rotate(c)
      <3>1. UNCHANGED <<life, stored>> BY <2>2 DEF Rotate, RotateWith
      <3>2. PICK t \in held, f \in Fingerprints :
              data' = data \/ Generate(data[t].user, f, t)
        BY <2>2 DEF Rotate, RotateWith
      <3> QED BY <1>3, <3>1, <3>2, HeldFacts
    <2>3. CASE IssueExec(c) \/ RotateExec(c)
      BY <1>4, <2>3 DEF IssueExec, RotateExec
    <2>4. CASE ReplyLost(c)
      <3>1. data' = data BY <2>4 DEF ReplyLost
      <3>2. CASE \/ req[c].pc = "issueExec" /\ IssueTx(c)
                 \/ req[c].pc = "rotateExec" /\ RotateTx(c)
        BY <1>4, <3>1, <3>2
      <3>3. CASE /\ UNCHANGED stored
                 /\ \/ req[c].pc = "revokeExec" /\ RevokeTx(c)
                    \/ req[c].pc = "revokeAllExec" /\ RevokeAllTx(c)
        BY <1>0, <3>1, <3>3 DEF RevokeTx, RevokeAllTx
      <3> QED BY <2>4, <3>2, <3>3 DEF ReplyLost
    <2>5. CASE RevokeExec(c) BY <1>0, <2>5 DEF RevokeExec, RevokeTx
    <2>6. CASE RevokeAllExec(c) BY <1>0, <2>6 DEF RevokeAllExec, RevokeAllTx
    <2>7. CASE EnforceEvict(c) BY <1>0, <2>7 DEF EnforceEvict
    <2>8. CASE \/ EnforceSCard(c) \/ EnforceSMembers(c) \/ EnforceGet(c)
               \/ EnforceSRem(c) \/ EnforceDone(c) \/ RevokeAll(c)
               \/ RevokeAllSMembers(c) \/ Verify(c) \/ Revoke(c)
               \/ CallFails(c) \/ EnforceFails(c) \/ EnforceGetFails(c)
               \/ EnforceWriteFails(c)
      <3>1. UNCHANGED <<data, life, stored>>
        BY <2>8
        DEF EnforceSCard, EnforceSMembers, EnforceGet, EnforceSRem, EnforceDone,
            RevokeAll, RevokeAllOf, RevokeAllSMembers, Verify, Revoke, RevokeToken, CallFails,
            EnforceFails, EnforceGetFails, EnforceWriteFails
      <3> QED BY <3>1
    <2> QED BY <1>6, <2>1, <2>2, <2>3, <2>4, <2>5, <2>6, <2>7, <2>8 DEF Step
  <1> QED BY <1>1, <1>2, <1>6 DEF Next

\* A token that was written once and is gone never becomes valid again.
THEOREM DeadStaysDead == Spec => NoResurrection
  <1>1. Inv /\ [Next]_vars => [\A t \in stored : ~Live(t) => ~Live(t)']_vars
    <2> SUFFICES ASSUME Inv, [Next]_vars, NEW t \in stored, ~Live(t)
                 PROVE  ~Live(t)'
      OBVIOUS
    <2>1. t \in Tokens /\ life[t] \in 0..TTL BY DEF Inv, TypeOK
    <2>2. life[t] = 0 BY <2>1, ConstantsAssumption, SMT DEF Live
    <2>3. life'[t] = 0 BY <2>2, KeysOnlyDie
    <2> QED BY <2>3, SMT DEF Live
  <1> QED BY <1>1, Invariance, PTL DEF Spec, NoResurrection

\* RotationSwaps is inductive once the parent is known to be written.
ParentGone(t) ==
  data[t].parent # NoToken =>
    data[t].parent \in stored /\ ~Live(data[t].parent)

ParentsGone == \A t \in stored : ParentGone(t)

\* Every step keeps the parents of written tokens dead.
LEMMA ParentsGoneStep ==
  ASSUME Inv, ParentsGone, [Next]_vars
  PROVE  ParentsGone'
  <1> USE DEF Inv
  <1>0. /\ stored \subseteq stored' /\ stored \subseteq 1..Len(data)
        /\ \A t \in stored : data'[t] = data[t]
        /\ \A t \in stored : life[t] = 0 => life'[t] = 0
        /\ \A t \in stored : t \in Tokens /\ life[t] \in 0..TTL
    BY KeysOnlyDie DEF StoreOK, TypeOK
  <1>1. \A t \in stored : ~Live(t) => life[t] = 0 /\ ~Live(t)'
    BY <1>0, ConstantsAssumption, SMT DEF Live
  <1>2. ASSUME NEW t \in stored PROVE ParentGone(t)'
    <2>1. CASE data[t].parent = NoToken
      BY <1>0, <2>1 DEF ParentGone
    <2>2. CASE data[t].parent # NoToken
      <3>1. data[t].parent \in stored /\ ~Live(data[t].parent)
        BY <2>2 DEF ParentsGone, ParentGone
      <3>2. life'[data[t].parent] = 0
        BY <1>0, <1>1, <3>1
      <3>3. data'[t].parent \in stored' /\ life'[data'[t].parent] = 0
        BY <1>0, <3>1, <3>2
      <3> QED BY <3>3, SMT DEF ParentGone, Live
    <2> QED BY <2>1, <2>2
  <1>3. CASE stored' = stored BY <1>2, <1>3 DEF ParentsGone
  <1>4. ASSUME NEW c \in Clients,
               stored' = stored \cup {req[c].new}, data' = data,
               \/ req[c].pc = "issueExec" /\ IssueTx(c)
               \/ req[c].pc = "rotateExec" /\ RotateTx(c)
        PROVE  ParentsGone'
    <2>0. PICK new : new = req[c].new OBVIOUS
    <2>1. new \notin stored BY <1>4, <2>0 DEF RequestOK, Pending
    <2>2. CASE req[c].pc = "issueExec" /\ IssueTx(c)
      <3>1. data'[new].parent = NoToken BY <1>4, <2>0, <2>2 DEF RequestOK
      <3>2. ParentGone(new)' BY <3>1 DEF ParentGone
      <3> QED BY <1>2, <1>4, <2>0, <3>2 DEF ParentsGone
    <2>3. CASE req[c].pc = "rotateExec" /\ RotateTx(c)
      <3>1. data'[new].parent = req[c].tok /\ req[c].tok \in stored
        BY <1>4, <2>0, <2>3 DEF RequestOK
      <3>2. life'[req[c].tok] = 0
        BY <1>0, <2>0, <2>1, <2>3, <3>1 DEF RotateTx, TypeOK
      <3>3. data'[new].parent \in stored' /\ life'[data'[new].parent] = 0
        BY <1>0, <3>1, <3>2
      <3>4. ParentGone(new)' BY <3>3, SMT DEF ParentGone, Live
      <3> QED BY <1>2, <1>4, <2>0, <3>4 DEF ParentsGone
    <2> QED BY <1>4, <2>2, <2>3
  <1> QED BY <1>3, <1>4, KeysOnlyDie

\* Once the successor of a token has been written the token is not valid any
\* more, whatever Rotate, Revoke, RevokeAll and Issue calls race with the
\* rotation and whatever replies are lost.
THEOREM RotationIsASwap == Spec => []RotationSwaps
  <1>1. Init => ParentsGone BY DEF Init, ParentsGone
  <1>2. Inv /\ ParentsGone /\ [Next]_vars => ParentsGone' BY ParentsGoneStep
  <1>3. ParentsGone => RotationSwaps BY DEF ParentsGone, ParentGone, RotationSwaps
  <1> QED BY <1>1, <1>2, <1>3, Invariance, PTL DEF Spec

(***************************************************************************)
(* The refinement: valid[u] is LiveOf(u), dead are the written tokens that *)
(* have gone.                                                              *)
(***************************************************************************)

\* Rotate writes the successor of a token for the token's owner.
OwnRotation(c) == req[c].pc = "rotateExec" => data[req[c].tok].user = req[c].user

OwnRotations == \A c \in Clients : OwnRotation(c)

\* What Goto and Return make of a request.
LEMMA Moves ==
  ASSUME TypeOK, NEW c \in Clients
  PROVE  /\ \A pc : Goto(c, pc) => /\ req'[c].pc = pc /\ req'[c].new = req[c].new
                                   /\ \A d \in Clients \ {c} : req'[d] = req[d]
         /\ Return(c) => /\ req'[c].pc = "idle"
                         /\ \A d \in Clients \ {c} : req'[d] = req[d]
<1>1. req[c] \in Request
  BY DEF TypeOK
<1>2. ASSUME NEW pc, Goto(c, pc)
      PROVE  /\ req'[c].pc = pc /\ req'[c].new = req[c].new
             /\ \A d \in Clients \ {c} : req'[d] = req[d]
  <2>1. req'[c] = [req[c] EXCEPT !.pc = pc] /\ \A d \in Clients \ {c} : req'[d] = req[d]
    BY <1>2 DEF Goto, TypeOK
  <2> QED BY <1>1, <2>1 DEF Request
<1>3. ASSUME Return(c)
      PROVE  req'[c].pc = "idle" /\ \A d \in Clients \ {c} : req'[d] = req[d]
  <2>1. req \in [Clients -> Request] /\ req' = [req EXCEPT ![c] = Idle]
    BY <1>3 DEF Return, TypeOK
  <2>2. req'[c] = Idle /\ \A d \in Clients \ {c} : req'[d] = req[d]
    BY <2>1
  <2> QED BY <2>2, IdleType
<1> QED BY <1>2, <1>3

\* A request is about to rotate a token only if it was before the step, or has just
\* read the token's payload, whose owner it has kept.
LEMMA RotationBegins ==
  ASSUME TypeOK, NEW c \in Clients, Step(c)
  PROVE  /\ \A d \in Clients \ {c} : req'[d] = req[d]
         /\ req'[c].pc = "rotateExec" =>
              req'[c] = req[c] \/ \E t \in held : /\ req'[c].tok = t
                                                  /\ req'[c].user = data[t].user
<1> DEFINE Others == \A d \in Clients \ {c} : req'[d] = req[d]
<1>0. req[c] \in Request /\ req \in [Clients -> Request]
  BY DEF TypeOK
<1>1. CASE \/ IssueExec(c) \/ EnforceSCard(c) \/ EnforceSRem(c) \/ EnforceDone(c)
           \/ RevokeAllExec(c) \/ RotateExec(c) \/ RevokeExec(c) \/ CallFails(c)
           \/ ReplyLost(c) \/ EnforceFails(c)
  <2>1. Return(c) \/ \E pc \in {"scard", "smembers", "get"} : Goto(c, pc)
    BY <1>1 DEF IssueExec, EnforceSCard, EnforceSRem, EnforceDone, RevokeAllExec, RotateExec,
                RevokeExec, CallFails, ReplyLost, EnforceFails, IssueReturn
  <2> QED BY <2>1, Moves
<1>2. ASSUME NEW r, r.pc # "rotateExec", req' = [req EXCEPT ![c] = r]
      PROVE  Others /\ req'[c].pc # "rotateExec"
  BY <1>0, <1>2
<1>3. CASE Issue(c)
  <2>1. PICK u : req' = [req EXCEPT ![c] = [Idle EXCEPT !.pc = "issueExec", !.user = u,
                                                       !.new = NextToken]]
    BY <1>3 DEF Issue, IssueFor
  <2>2. [Idle EXCEPT !.pc = "issueExec", !.user = u, !.new = NextToken].pc = "issueExec"
    BY DEF Idle
  <2> QED BY <1>2, <2>1, <2>2
<1>4. ASSUME NEW u, BeginRevokeAll(c, u) PROVE Others /\ req'[c].pc # "rotateExec"
  <2>1. [Idle EXCEPT !.pc = "revokeAll", !.user = u, !.targets = LiveOf(u)].pc = "revokeAll"
    BY DEF Idle
  <2> QED BY <1>2, <1>4, <2>1 DEF BeginRevokeAll
<1>5. CASE RevokeAll(c) \/ Verify(c)
  BY <1>4, <1>5 DEF RevokeAll, RevokeAllOf, Verify
<1>6. CASE Revoke(c)
  <2>1. PICK t : req' = [req EXCEPT ![c] = [Idle EXCEPT !.pc = "revokeExec",
                                                       !.user = data[t].user, !.tok = t]]
    BY <1>6 DEF Revoke, RevokeToken
  <2>2. [Idle EXCEPT !.pc = "revokeExec", !.user = data[t].user, !.tok = t].pc = "revokeExec"
    BY DEF Idle
  <2> QED BY <1>2, <2>1, <2>2
<1>7. CASE Rotate(c)
  <2>1. PICK t \in held, f \in Fingerprints : RotateWith(c, t, f)
    BY <1>7 DEF Rotate
  <2>2. CASE BeginRevokeAll(c, data[t].user)
    BY <1>4, <2>2
  <2>3. CASE req' = [req EXCEPT ![c] = [Idle EXCEPT !.pc = "rotateExec", !.user = data[t].user,
                                                   !.tok = t, !.new = NextToken]]
    <3> DEFINE new == [Idle EXCEPT !.pc = "rotateExec", !.user = data[t].user,
                                   !.tok = t, !.new = NextToken]
    <3>1. new.user = data[t].user /\ new.tok = t
      BY DEF Idle
    <3>2. req' = [req EXCEPT ![c] = new]
      BY <2>3
    <3> HIDE DEF new
    <3> QED BY <1>0, <3>1, <3>2
  <2> QED BY <2>1, <2>2, <2>3 DEF RotateWith
<1>8. CASE EnforceSMembers(c) \/ EnforceGet(c) \/ EnforceGetFails(c) \/ EnforceEvict(c)
        \/ EnforceWriteFails(c) \/ RevokeAllSMembers(c)
  <2>1. CASE EnforceSMembers(c)
    <3>1. Others /\ req'[c] = [req[c] EXCEPT !.pc = "get", !.hashes = index[req[c].user].members]
      BY <1>0, <2>1 DEF EnforceSMembers
    <3> QED BY <1>0, <3>1 DEF Request
  <2>2. ASSUME NEW hash, req[c].pc = "get",
               \/ req' = [req EXCEPT ![c].hashes = @ \ {hash}, ![c].tokens = @ \cup {hash}]
               \/ req' = [req EXCEPT ![c].hashes = @ \ {hash}, ![c].tok = hash, ![c].pc = "srem"]
               \/ req' = [req EXCEPT ![c].tokens = @ \ {hash}]
        PROVE  Others /\ req'[c].pc # "rotateExec"
    <3>1. Others
      BY <1>0, <2>2
    <3>2. \/ req'[c] = [req[c] EXCEPT !.hashes = @ \ {hash}, !.tokens = @ \cup {hash}]
          \/ req'[c] = [req[c] EXCEPT !.hashes = @ \ {hash}, !.tok = hash, !.pc = "srem"]
          \/ req'[c] = [req[c] EXCEPT !.tokens = @ \ {hash}]
      BY <1>0, <2>2
    <3> QED BY <1>0, <2>2, <3>1, <3>2 DEF Request
  <2>3. CASE EnforceGet(c) \/ EnforceGetFails(c) \/ EnforceEvict(c)
    BY <2>2, <2>3 DEF EnforceGet, EnforceGetFails, EnforceEvict
  <2>4. CASE EnforceWriteFails(c)
    <3>1. \/ Goto(c, "get")
          \/ req[c].pc = "get" /\ \E t : req' = [req EXCEPT ![c].tokens = @ \ {t}]
      BY <2>4 DEF EnforceWriteFails
    <3>2. CASE Goto(c, "get")
      BY <3>2, Moves
    <3>3. CASE req[c].pc = "get" /\ \E t : req' = [req EXCEPT ![c].tokens = @ \ {t}]
      BY <1>0, <2>2, <3>3
    <3> QED BY <3>1, <3>2, <3>3
  <2>5. CASE RevokeAllSMembers(c)
    <3>1. \/ Return(c)
          \/ req' = [req EXCEPT ![c].pc = "revokeAllExec", ![c].hashes = index[req[c].user].members]
      BY <2>5 DEF RevokeAllSMembers
    <3>2. CASE Return(c)
      BY <3>2, Moves
    <3>3. CASE req' = [req EXCEPT ![c].pc = "revokeAllExec",
                                  ![c].hashes = index[req[c].user].members]
      <4>1. Others /\ req'[c] = [req[c] EXCEPT !.pc = "revokeAllExec",
                                              !.hashes = index[req[c].user].members]
        BY <1>0, <3>3
      <4> QED BY <1>0, <4>1 DEF Request
    <3> QED BY <3>1, <3>2, <3>3
  <2> QED BY <1>8, <2>1, <2>3, <2>4, <2>5
<1> QED BY <1>1, <1>3, <1>5, <1>6, <1>7, <1>8 DEF Step

\* A pending rotation stays one for the owner of its token: payloads never change.
LEMMA OwnRotationsStep ==
  ASSUME Inv, OwnRotations, [Next]_vars
  PROVE  OwnRotations'
<1> SUFFICES ASSUME NEW d \in Clients, req'[d].pc = "rotateExec"
             PROVE  data'[req'[d].tok].user = req'[d].user
  BY DEF OwnRotations, OwnRotation
<1>1. stored \subseteq 1..Len(data) /\ held \subseteq stored /\ TypeOK
  BY DEF Inv, StoreOK
<1>2. \A t \in 1..Len(data) : data'[t] = data[t]
  BY KeysOnlyDie
<1>3. CASE req'[d] = req[d]
  <2>1. req[d].tok \in stored /\ data[req[d].tok].user = req[d].user
    BY <1>3 DEF Inv, RequestOK, OwnRotations, OwnRotation
  <2> QED BY <1>1, <1>2, <1>3, <2>1
<1>4. CASE \E t \in held : req'[d].tok = t /\ req'[d].user = data[t].user
  BY <1>1, <1>2, <1>4
<1>5. ASSUME NEW c \in Clients, Step(c) PROVE req'[d] = req[d] \/ \E t \in held : req'[d].tok = t /\ req'[d].user = data[t].user
  BY <1>1, <1>5, RotationBegins
<1>6. Next \/ UNCHANGED vars
  OBVIOUS
<1>7. CASE Tick \/ UNCHANGED vars
  BY <1>3, <1>7 DEF Tick, vars
<1> QED BY <1>3, <1>4, <1>5, <1>6, <1>7 DEF Next

\* Issue and Rotate generate at most MaxTokens tokens.
LEMMA DataRange == TypeOK => 1..Len(data) \subseteq Tokens
<1> SUFFICES ASSUME TypeOK PROVE 1..Len(data) \subseteq Tokens
  OBVIOUS
<1>1. Len(data) \in Nat /\ Len(data) <= MaxTokens /\ MaxTokens \in Nat
  BY ConstantsAssumption, SMT DEF TypeOK
<1> QED BY <1>1, SMT DEF Tokens


\* A step that writes no token ends the tokens whose keys it deletes or expires.
LEMMA EndStep ==
  ASSUME Inv, Inv', [Next]_vars, stored' = stored
  PROVE  Registry!Next
<1>1. /\ stored \subseteq 1..Len(data) /\ stored \subseteq 1..Len(data')
      /\ stored \subseteq Tokens /\ 1..Len(data) \subseteq Tokens /\ 1..Len(data') \subseteq Tokens
      /\ \A t \in Tokens : life[t] > 0 => t \in stored
      /\ \A t \in Tokens : life'[t] > 0 => t \in stored
  <2>1. /\ stored \subseteq 1..Len(data) /\ stored' \subseteq 1..Len(data')
        /\ \A t \in Tokens : life[t] > 0 => t \in stored
        /\ \A t \in Tokens : life'[t] > 0 => t \in stored'
    BY DEF Inv, StoreOK, Live
  <2>2. 1..Len(data) \subseteq Tokens
    BY DataRange DEF Inv
  <2>3. (1..Len(data) \subseteq Tokens)'
    BY DataRange, PTL DEF Inv
  <2> QED BY <2>1, <2>2, <2>3
<1>2. \A t \in stored : data'[t] = data[t] /\ data[t].user \in Users
  <2>1. data \in Seq(TokenData)
    BY DEF Inv, TypeOK
  <2>2. \A t \in 1..Len(data) : data[t] \in TokenData
    BY <2>1, SMT
  <2> QED BY <1>1, <2>2, KeysOnlyDie DEF TokenData
<1>3. \A t \in Tokens : life[t] \in Nat /\ life'[t] \in Nat
  BY SMT DEF Inv, TypeOK
<1>4. \A t \in stored : life[t] = 0 => life'[t] = 0
  BY KeysOnlyDie
<1> DEFINE S == {t \in stored : life[t] > 0 /\ ~(life'[t] > 0)}
<1>5. \A t \in S : \E u \in Users : t \in LiveOf(u)
  BY <1>1, <1>2 DEF LiveOf, Live
<1>6. \A u \in Users : LiveOf(u)' = LiveOf(u) \ S
  BY <1>1, <1>2, <1>3, <1>4, SMT DEF LiveOf, Live
<1>7. {t \in stored : ~Live(t)}' = {t \in stored : ~Live(t)} \cup S
  <2>1. \A t \in stored : ~(life'[t] > 0) <=> (~(life[t] > 0) \/ t \in S)
    BY <1>1, <1>3, <1>4, SMT
  <2> QED BY <2>1 DEF Live
<1>8. S \in SUBSET Tokens
  BY <1>1
<1> HIDE DEF S
<1>9. Registry!End(S)
  BY <1>5, <1>6, <1>7 DEF Registry!End
<1> QED BY <1>8, <1>9 DEF Registry!Next

\* A request that is about to write a token: nobody has seen the token yet.
LEMMA Writing ==
  ASSUME Inv, NEW c \in Clients, req[c].pc \in Pending
  PROVE  /\ req[c].new \in (1..Len(data)) \ stored /\ data[req[c].new].user = req[c].user
         /\ stored \subseteq 1..Len(data) /\ 1..Len(data) \subseteq Tokens
         /\ \A t \in Tokens : life[t] > 0 => t \in stored
         /\ life \in [Tokens -> Nat] /\ req[c].user \in Users /\ TTL \in Nat \ {0}
         /\ Registry!Unused(req[c].new)
<1>1. req[c].new \in (1..Len(data)) \ stored /\ data[req[c].new].user = req[c].user
  BY DEF Inv, RequestOK
<1>2. /\ stored \subseteq 1..Len(data)
      /\ \A t \in Tokens : life[t] > 0 => t \in stored
  BY DEF Inv, StoreOK, Live
<1>3. life \in [Tokens -> Nat] /\ req[c].user \in Users /\ TTL \in Nat \ {0}
  BY ConstantsAssumption, SMT DEF Inv, TypeOK, Request
<1>4. 1..Len(data) \subseteq Tokens
  BY DataRange DEF Inv
<1>5. Registry!Unused(req[c].new)
  BY <1>1, <1>2, <1>4 DEF Registry!Unused, LiveOf, Live
<1> QED BY <1>1, <1>2, <1>3, <1>4, <1>5

\* The EXEC of Issue opens a token.
LEMMA OpenStep ==
  ASSUME Inv, NEW c \in Clients, req[c].pc = "issueExec", IssueTx(c), data' = data,
         NEW u, u = req[c].user, NEW new, new = req[c].new
  PROVE  Registry!Next
<1>1. /\ new \in (1..Len(data)) \ stored /\ data[new].user = u
      /\ stored \subseteq 1..Len(data) /\ 1..Len(data) \subseteq Tokens
      /\ \A t \in Tokens : life[t] > 0 => t \in stored
      /\ life \in [Tokens -> Nat] /\ u \in Users /\ TTL \in Nat \ {0}
      /\ Registry!Unused(new)
  BY Writing DEF Pending
<1>2. life' = [life EXCEPT ![new] = TTL] /\ stored' = stored \cup {new}
  BY SMTT(30) DEF IssueTx
<1>3. \A t \in Tokens : life'[t] > 0 <=> (t = new \/ life[t] > 0)
  BY <1>1, <1>2, SMT
<1>4. \A v \in Users : LiveOf(v)' = IF v = u THEN LiveOf(v) \cup {new} ELSE LiveOf(v)
  BY <1>1, <1>3 DEF LiveOf, Live
<1>5. {t \in stored : ~Live(t)}' = {t \in stored : ~Live(t)}
  BY <1>1, <1>2, <1>3 DEF Live
<1>6. Registry!Open(u, new)
  BY <1>1, <1>4, <1>5 DEF Registry!Open
<1> QED BY <1>1, <1>6 DEF Registry!Next

\* The EXEC of Rotate exchanges one.
LEMMA ExchangeStep ==
  ASSUME Inv, OwnRotations, NEW c \in Clients, req[c].pc = "rotateExec", RotateTx(c), data' = data,
         NEW u, u = req[c].user, NEW old, old = req[c].tok, NEW new, new = req[c].new
  PROVE  Registry!Next
<1>1. /\ new \in (1..Len(data)) \ stored /\ data[new].user = u
      /\ stored \subseteq 1..Len(data) /\ 1..Len(data) \subseteq Tokens
      /\ \A t \in Tokens : life[t] > 0 => t \in stored
      /\ life \in [Tokens -> Nat] /\ u \in Users /\ TTL \in Nat \ {0}
      /\ Registry!Unused(new)
  BY Writing DEF Pending
<1>2. life' = [life EXCEPT ![old] = 0, ![new] = TTL] /\ stored' = stored \cup {new}
  BY DEF RotateTx
<1>3. old \in stored /\ data[old].user = u /\ old # new
  BY <1>1 DEF Inv, RequestOK, OwnRotations, OwnRotation
<1>4. \A t \in Tokens : life'[t] > 0 <=> (t = new \/ (t # old /\ life[t] > 0))
  BY <1>1, <1>2, <1>3, SMT
<1>5. \A v \in Users : LiveOf(v)' = IF v = u THEN (LiveOf(v) \ {old}) \cup {new} ELSE LiveOf(v)
  BY <1>1, <1>3, <1>4, SMTT(30) DEF LiveOf, Live
<1>6. {t \in stored : ~Live(t)}' = {t \in stored : ~Live(t)} \cup {old}
  BY <1>1, <1>2, <1>3, <1>4, SMTT(30) DEF Live
<1>7. old \in LiveOf(u) \cup {t \in stored : ~Live(t)}
  BY <1>1, <1>3 DEF LiveOf
<1>8. Registry!Exchange(u, old, new)
  BY <1>1, <1>5, <1>6, <1>7 DEF Registry!Exchange
<1> QED BY <1>1, <1>3, <1>8 DEF Registry!Next

\* The token store implements SessionRegistry: however Issue, Verify, Rotate, Revoke
\* and RevokeAll overlap, fail, lose replies and race with expiry, every step opens
\* one token, exchanges one for another of its owner, ends tokens or changes nothing
\* that a caller can see.
THEOREM StoreIsARegistry == Spec => ImplementsRegistry
<1>1. Init => Registry!Init /\ OwnRotations
  BY SMT DEF Init, Registry!Init, LiveOf, OwnRotations, OwnRotation, Idle
<1>2. Inv /\ OwnRotations /\ Inv' /\ [Next]_vars => [Registry!Next]_(Registry!registry)
  <2> SUFFICES ASSUME Inv, OwnRotations, Inv', [Next]_vars PROVE Registry!Next
    OBVIOUS
  <2>1. CASE stored' = stored
    BY <2>1, EndStep
  <2>2. ASSUME NEW c \in Clients, data' = data,
               \/ req[c].pc = "issueExec" /\ IssueTx(c)
               \/ req[c].pc = "rotateExec" /\ RotateTx(c)
        PROVE  Registry!Next
    BY <2>2, OpenStep, ExchangeStep
  <2> QED BY <2>1, <2>2, KeysOnlyDie
<1>3. Inv /\ OwnRotations /\ [Next]_vars => OwnRotations'
  BY OwnRotationsStep
<1> QED BY <1>1, <1>2, <1>3, Invariance, PTL DEF Spec, ImplementsRegistry, Registry!Spec

(***************************************************************************)
(* Sessions: what the handlers and the clients know of tokens and roles.   *)
(***************************************************************************)

Handlers == [op : Ops, b : Browsers, user : Users, role : Roles,
             claims : BOOLEAN, new : 0..MaxTokens, age : 0..MaxDelay]
Jars == [rt : 0..MaxTokens, at : AccessToken, cookies : BOOLEAN]

\* Where a goroutine stands in a call of Issue.
Issuing == {"issueExec", "scard", "smembers", "get", "srem"}

\* A client behind a proxy has the fingerprint that token t was issued for.
Own(b, t) == b \in Proxied => data[t].fp = BuildFingerprint(b, "forwarded")

\* A login is in a call of Issue with a role that is as old as the request at most;
\* a refresh from behind a proxy has found its fingerprint; the token that a handler
\* is going to hand out has been written.
HandlerOK(c) ==
  LET x == h[c]
  IN  /\ x.op \in {"otp", "oauth"} =>
           /\ req[c].pc \in Issuing /\ Own(x.b, req[c].new)
           /\ x.role # NoRole => aged[x.user][x.role] <= x.age
      /\ x.op = "refresh" /\ x.b \in Proxied =>
           req[c].pc = "rotateExec" /\ Own(x.b, req[c].new)
      /\ x.op \in {"user", "sign"} => x.new \in held /\ Own(x.b, x.new)

\* A client keeps a refresh token of its own and a role that it has had since.
JarOK(b) ==
  LET j == jar[b]
  IN  /\ j.rt # NoToken => j.rt \in held /\ Own(b, j.rt)
      /\ j.at.life > 0 /\ j.at.role # NoRole =>
           aged[j.at.user][j.at.role] + j.at.life <= LongAgo

SessionsInv ==
  /\ Inv
  /\ SessionsTypeOK
  /\ \A u \in Users : aged[u][role[u]] = 0
  /\ \A c \in Clients : HandlerOK(c)
  /\ \A b \in Browsers : JarOK(b)

\* The records of a goroutine that runs no handler and of a client without tokens.
LEMMA Nothing ==
  /\ NoHandler \in Handlers /\ NoHandler.op = "none" /\ NoHandler.role = NoRole
  /\ NoTokens \in Jars /\ NoTokens.rt = NoToken /\ NoTokens.at.life = 0
  /\ NoAccess \in AccessToken /\ NoAccess.life = 0
<1>1. Anyone \in Users /\ NoRole \in Roles /\ 0 \in 0..MaxDelay /\ 0 \in 0..AccessTTL
  BY ConstantsAssumption, SessionsAssumption, SMTT(30), Z3 DEF Anyone, NoRole
<1>2. NoToken \in 0..MaxTokens /\ NoToken = 0
  BY ConstantsAssumption, SMTT(30), Z3 DEF NoToken
<1>3. (CHOOSE b \in Browsers : TRUE) \in Browsers
  BY SessionsAssumption, SMTT(30), Z3
<1>4. NoHandler \in Handlers /\ NoHandler.op = "none" /\ NoHandler.role = NoRole
  BY <1>1, <1>2, <1>3 DEF NoHandler, Handlers, Ops
<1>5. NoAccess \in AccessToken /\ NoAccess.life = 0
  BY <1>1 DEF NoAccess, AccessToken
<1>6. NoTokens \in Jars /\ NoTokens.rt = NoToken /\ NoTokens.at.life = 0
  BY <1>2, <1>5 DEF NoTokens, Jars
<1> QED BY <1>4, <1>5, <1>6

\* What an access token says.
LEMMA AccessFacts ==
  \A a \in AccessToken : /\ a.user \in Users /\ a.role \in Roles
                         /\ a.life \in 0..AccessTTL /\ a.life \in Nat /\ (a.life # 0 => a.life > 0)
BY SessionsAssumption, SMTT(30), Z3 DEF AccessToken

\* A role of age x, which was y a minute ago or before a change, is as recent as a
\* request of age z.
LEMMA AgeKept == \A x, y, z \in Nat : x <= y /\ y <= z => x <= z
BY SMTT(30), Z3

LEMMA AgeGrows == \A x, y, z \in Nat : x <= y + 1 /\ y <= z => x <= z + 1
BY SMTT(30), Z3

\* The same for the life l of an access token, with which it adds up to m at most.
LEMMA LifeKept ==
  \A x, y \in Nat : x <= y => \A l, m \in Nat : y + l <= m => x + l <= m
BY SMTT(30), Z3

LEMMA LifeShrinks ==
  \A x, y \in Nat : x <= y + 1 =>
    \A l, m \in Nat : y + l <= m /\ l # 0 => x + (l - 1) <= m
BY SMTT(30), Z3

LEMMA LifeLeft == \A x, l, m \in Nat : l > 0 /\ x + l <= m => x < m
BY SMTT(30), Z3

\* A handler begins.
LEMMA BeginFacts ==
  ASSUME h \in [Clients -> Handlers], NEW c \in Clients, NEW b \in Browsers, NEW op \in Ops,
         NEW u \in Users, NEW r \in Roles, NEW claims \in BOOLEAN, Begin(c, b, op, u, r, claims)
  PROVE  /\ h' \in [Clients -> Handlers] /\ \A d \in Clients \ {c} : h'[d] = h[d]
         /\ h'[c].op = op /\ h'[c].b = b /\ h'[c].user = u /\ h'[c].role = r
         /\ h'[c].age = NoHandler.age
<1> DEFINE x == [NoHandler EXCEPT !.op = op, !.b = b, !.user = u, !.role = r, !.claims = claims]
<1>1. /\ x \in Handlers /\ x.op = op /\ x.b = b /\ x.user = u /\ x.role = r
      /\ x.age = NoHandler.age
  BY Nothing DEF Handlers
<1>2. h' = [h EXCEPT ![c] = x]
  BY SMTT(30), Z3 DEF Begin
<1> HIDE DEF x
<1> QED BY <1>1, <1>2, SMTT(30), Z3

\* A handler ends.
LEMMA EndFacts ==
  ASSUME h \in [Clients -> Handlers], NEW c \in Clients, End(c)
  PROVE  /\ h' \in [Clients -> Handlers] /\ \A d \in Clients \ {c} : h'[d] = h[d]
         /\ h'[c].op = "none"
BY Nothing DEF End

\* What the tokens in requests, handlers and clients refer to.
LEMMA Known ==
  ASSUME SessionsInv
  PROVE  /\ held \subseteq 1..Len(data)
         /\ \A c \in Clients : req[c].pc \in Issuing \cup {"rotateExec"} =>
                                 req[c].new \in 1..Len(data)
<1>1. stored \subseteq 1..Len(data) /\ held \subseteq stored /\ \A c \in Clients : RequestOK(c)
  BY SMTT(30), Z3 DEF SessionsInv, Inv, StoreOK
<1>2. ASSUME NEW c \in Clients, req[c].pc \in Issuing \cup {"rotateExec"}
      PROVE  req[c].new \in 1..Len(data)
  <2>1. RequestOK(c)
    BY <1>1
  <2>2. CASE req[c].pc \in Pending
    BY <2>1, <2>2, SMTT(30), Z3 DEF RequestOK
  <2>3. CASE req[c].pc \in Enforcing
    BY <1>1, <2>1, <2>3 DEF RequestOK
  <2> QED BY <1>2, <2>2, <2>3 DEF Issuing, Pending, Enforcing
<1> QED BY <1>1, <1>2, SMTT(30), Z3

\* What a step leaves alone keeps what is known of it, if tokens and payloads only
\* come and no role gets older.
LEMMA SessionsKept ==
  ASSUME SessionsInv, \A t \in 1..Len(data) : data'[t] = data[t], held \subseteq held',
         aged \in [Users -> [Roles -> Nat]], aged' \in [Users -> [Roles -> Nat]],
         \A u \in Users, r \in Roles : aged'[u][r] <= aged[u][r]
  PROVE  /\ \A c \in Clients : h'[c] = h[c] /\ req'[c] = req[c] => HandlerOK(c)'
         /\ \A b \in Browsers : jar'[b] = jar[b] => JarOK(b)'
<1>1. ASSUME NEW c \in Clients, h'[c] = h[c], req'[c] = req[c] PROVE HandlerOK(c)'
  <2>1. HandlerOK(c) /\ h[c] \in Handlers
    BY DEF SessionsInv, SessionsTypeOK, Handlers
  <2>2. h[c].op \in {"otp", "oauth"} =>
          /\ req[c].pc \in Issuing /\ Own(h[c].b, req[c].new)'
          /\ h[c].role # NoRole => aged'[h[c].user][h[c].role] <= h[c].age
    <3> SUFFICES ASSUME h[c].op \in {"otp", "oauth"}
                 PROVE  /\ req[c].pc \in Issuing /\ Own(h[c].b, req[c].new)'
                        /\ h[c].role # NoRole => aged'[h[c].user][h[c].role] <= h[c].age
      BY SMTT(30), Z3
    <3>1. req[c].pc \in Issuing /\ Own(h[c].b, req[c].new)
          /\ (h[c].role # NoRole => aged[h[c].user][h[c].role] <= h[c].age)
      BY <2>1 DEF HandlerOK
    <3>2. req[c].new \in 1..Len(data)
      BY <3>1, Known
    <3>3. Own(h[c].b, req[c].new)'
      BY <1>1, <3>1, <3>2, SMTT(30), Z3 DEF Own
    <3>4. h[c].user \in Users /\ h[c].role \in Roles /\ h[c].age \in Nat
      BY <2>1, SMTT(30), Z3 DEF Handlers
    <3>5. h[c].role # NoRole => aged'[h[c].user][h[c].role] <= h[c].age
      <4>1. /\ aged'[h[c].user][h[c].role] <= aged[h[c].user][h[c].role]
            /\ aged'[h[c].user][h[c].role] \in Nat /\ aged[h[c].user][h[c].role] \in Nat
        BY <3>4
      <4>2. \A z \in Nat : aged[h[c].user][h[c].role] <= z => aged'[h[c].user][h[c].role] <= z
        BY <4>1, AgeKept
      <4> QED BY <3>1, <3>4, <4>2
    <3> QED BY <3>1, <3>3, <3>5
  <2>3. h[c].op = "refresh" /\ h[c].b \in Proxied =>
          req[c].pc = "rotateExec" /\ Own(h[c].b, req[c].new)'
    <3>1. h[c].op = "refresh" /\ h[c].b \in Proxied =>
            req[c].pc = "rotateExec" /\ Own(h[c].b, req[c].new)
      BY <2>1 DEF HandlerOK
    <3>2. req[c].pc = "rotateExec" => req[c].new \in 1..Len(data)
      BY Known
    <3> QED BY <1>1, <3>1, <3>2 DEF Own
  <2>4. h[c].op \in {"user", "sign"} => h[c].new \in held' /\ Own(h[c].b, h[c].new)'
    <3>1. h[c].op \in {"user", "sign"} => h[c].new \in held /\ Own(h[c].b, h[c].new)
      BY <2>1, SMTT(30), Z3 DEF HandlerOK
    <3> QED BY <1>1, <3>1, Known DEF Own
  <2> QED BY <1>1, <2>2, <2>3, <2>4 DEF HandlerOK
<1>2. ASSUME NEW b \in Browsers, jar'[b] = jar[b] PROVE JarOK(b)'
  <2>1. JarOK(b) /\ jar[b] \in Jars
    BY DEF SessionsInv, SessionsTypeOK, Jars
  <2>2. jar[b].rt # NoToken => jar[b].rt \in held' /\ Own(b, jar[b].rt)'
    <3>1. jar[b].rt # NoToken => jar[b].rt \in held /\ Own(b, jar[b].rt)
      BY <2>1, SMTT(30), Z3 DEF JarOK
    <3> QED BY <1>2, <3>1, Known DEF Own
  <2>3. jar[b].at.life > 0 /\ jar[b].at.role # NoRole =>
          aged'[jar[b].at.user][jar[b].at.role] + jar[b].at.life <= LongAgo
    <3>1. jar[b].at.life > 0 /\ jar[b].at.role # NoRole =>
            aged[jar[b].at.user][jar[b].at.role] + jar[b].at.life <= LongAgo
      BY <2>1 DEF JarOK
    <3>2. jar[b].at \in AccessToken
      BY <2>1 DEF Jars
    <3>3. jar[b].at.user \in Users /\ jar[b].at.role \in Roles /\ jar[b].at.life \in Nat
      BY <3>2, AccessFacts
    <3>4. /\ aged'[jar[b].at.user][jar[b].at.role] <= aged[jar[b].at.user][jar[b].at.role]
          /\ aged'[jar[b].at.user][jar[b].at.role] \in Nat
          /\ aged[jar[b].at.user][jar[b].at.role] \in Nat
      BY <3>3
    <3>5. LongAgo \in Nat
      BY SessionsAssumption, SMTT(30), Z3 DEF LongAgo
    <3>6. \A l, m \in Nat : aged[jar[b].at.user][jar[b].at.role] + l <= m
                            => aged'[jar[b].at.user][jar[b].at.role] + l <= m
      BY <3>4, LifeKept
    <3> QED BY <3>1, <3>3, <3>5, <3>6
  <2> QED BY <1>2, <2>2, <2>3 DEF JarOK
<1> QED BY <1>1, <1>2

\* What a step of the Enforcing loop changes in its request.
LEMMA Updates ==
  ASSUME TypeOK, NEW c \in Clients, NEW hash, NEW hs
  PROVE  /\ \A pc : Goto(c, pc) =>
              /\ \A d \in Clients \ {c} : req'[d] = req[d]
              /\ req'[c].pc = pc /\ req'[c].user = req[c].user
              /\ req'[c].hashes = req[c].hashes /\ req'[c].tokens = req[c].tokens
         /\ req' = [req EXCEPT ![c].tokens = @ \ {hash}] =>
              /\ \A d \in Clients \ {c} : req'[d] = req[d]
              /\ req'[c].pc = req[c].pc /\ req'[c].user = req[c].user
              /\ req'[c].tok = req[c].tok /\ req'[c].hashes = req[c].hashes
              /\ req'[c].tokens = req[c].tokens \ {hash}
         /\ req' = [req EXCEPT ![c].hashes = @ \ {hash}, ![c].tokens = @ \cup {hash}] =>
              /\ \A d \in Clients \ {c} : req'[d] = req[d]
              /\ req'[c].pc = req[c].pc /\ req'[c].user = req[c].user
              /\ req'[c].tok = req[c].tok /\ req'[c].hashes = req[c].hashes \ {hash}
              /\ req'[c].tokens = req[c].tokens \cup {hash}
         /\ req' = [req EXCEPT ![c].hashes = @ \ {hash}, ![c].tok = hash, ![c].pc = "srem"] =>
              /\ \A d \in Clients \ {c} : req'[d] = req[d]
              /\ req'[c].pc = "srem" /\ req'[c].user = req[c].user
              /\ req'[c].tok = hash /\ req'[c].hashes = req[c].hashes \ {hash}
              /\ req'[c].tokens = req[c].tokens
         /\ req' = [req EXCEPT ![c].pc = "get", ![c].hashes = hs] =>
              /\ \A d \in Clients \ {c} : req'[d] = req[d]
              /\ req'[c].pc = "get" /\ req'[c].user = req[c].user
              /\ req'[c].hashes = hs
  BY SMTT(30), Z3 DEF TypeOK, Request, Goto

\* A step of the store writes no payload and hands out the new token of its request at
\* most.  Issue goes on to the limit with the same token; Rotate ends.
LEMMA StoreStepFacts ==
  ASSUME Inv, NEW c \in Clients, StoreStep(c)
  PROVE  /\ Inv' /\ data' = data /\ \A d \in Clients \ {c} : req'[d] = req[d]
         /\ held' = held \/ held' = held \cup {req[c].new}
         /\ req[c].pc \in Issuing =>
              \/ req'[c].pc = "idle"
              \/ req'[c].pc \in Issuing /\ req'[c].new = req[c].new
         /\ req[c].pc = "rotateExec" => req'[c].pc = "idle"
<1> DEFINE Goes == /\ req[c].pc \in Issuing =>
                        \/ req'[c].pc = "idle"
                        \/ req'[c].pc \in Issuing /\ req'[c].new = req[c].new
                   /\ req[c].pc = "rotateExec" => req'[c].pc = "idle"
<1>0. req[c] \in Request /\ req \in [Clients -> Request] /\ TypeOK
  BY DEF Inv, TypeOK
<1>1. Step(c)
  BY DEF StoreStep, Serve, Step
<1>2. Inv' /\ \A d \in Clients \ {c} : req'[d] = req[d]
  BY <1>0, <1>1, StepInv, RotationBegins, SMTT(30), Z3
<1>3. data' = data /\ (held' = held \/ held' = held \cup {req[c].new})
  BY DEF StoreStep, Serve, IssueExec, EnforceSCard, EnforceSMembers, EnforceGet, EnforceSRem,
         EnforceEvict, EnforceDone, RevokeAllSMembers, RevokeAllExec, RotateExec, RevokeExec,
         CallFails, ReplyLost, EnforceFails, EnforceGetFails, EnforceWriteFails, IssueReturn
<1>4. Return(c) => Goes
  BY <1>0, Moves
<1>5. ASSUME NEW pc \in {"scard", "smembers", "get"}, Goto(c, pc), req[c].pc # "rotateExec" PROVE Goes
  <2>1. req'[c].pc = pc /\ req'[c].new = req[c].new
    BY <1>0, <1>5, Moves
  <2> QED BY <1>5, <2>1 DEF Issuing
<1>6. ASSUME \/ IssueExec(c) \/ EnforceSCard(c) \/ EnforceSRem(c) \/ EnforceDone(c)
             \/ RevokeAllExec(c) \/ RotateExec(c) \/ RevokeExec(c) \/ CallFails(c)
             \/ ReplyLost(c) \/ EnforceFails(c)
      PROVE  Goes
  <2>1. \/ Return(c)
        \/ req[c].pc # "rotateExec" /\ \E pc \in {"scard", "smembers", "get"} : Goto(c, pc)
    BY <1>6 DEF IssueExec, EnforceSCard, EnforceSRem, EnforceDone, RevokeAllExec, RotateExec,
                RevokeExec, CallFails, ReplyLost, EnforceFails, IssueReturn
  <2> QED BY <1>4, <1>5, <2>1, SMTT(30), Z3
<1>8. ASSUME EnforceSMembers(c) PROVE Goes
  <2>1. /\ req'[c] = [req[c] EXCEPT !.pc = "get", !.hashes = index[req[c].user].members]
        /\ req[c].pc = "smembers"
    BY <1>0, <1>8, SMTT(30), Z3 DEF EnforceSMembers
  <2>2. req'[c].pc = "get" /\ req'[c].new = req[c].new
    BY <1>0, <2>1, SMTT(30), Z3 DEF Request
  <2> QED BY <2>1, <2>2, SMTT(30), Z3 DEF Issuing
<1>9. ASSUME NEW hash, req[c].pc = "get",
             \/ req' = [req EXCEPT ![c].hashes = @ \ {hash}, ![c].tokens = @ \cup {hash}]
             \/ req' = [req EXCEPT ![c].hashes = @ \ {hash}, ![c].tok = hash, ![c].pc = "srem"]
             \/ req' = [req EXCEPT ![c].tokens = @ \ {hash}]
      PROVE  Goes
  <2>1. \/ req'[c] = [req[c] EXCEPT !.hashes = @ \ {hash}, !.tokens = @ \cup {hash}]
        \/ req'[c] = [req[c] EXCEPT !.hashes = @ \ {hash}, !.tok = hash, !.pc = "srem"]
        \/ req'[c] = [req[c] EXCEPT !.tokens = @ \ {hash}]
    BY <1>0, <1>9
  <2>2. req'[c].pc \in {"get", "srem"} /\ req'[c].new = req[c].new
    BY <1>0, <1>9, <2>1 DEF Request
  <2> QED BY <1>9, <2>2 DEF Issuing
<1>10. ASSUME EnforceGet(c) \/ EnforceGetFails(c) \/ EnforceEvict(c) PROVE Goes
  BY <1>9, <1>10 DEF EnforceGet, EnforceGetFails, EnforceEvict
<1>11. ASSUME EnforceWriteFails(c) PROVE Goes
  <2>1. \/ req[c].pc = "srem" /\ Goto(c, "get")
        \/ req[c].pc = "get" /\ \E t : req' = [req EXCEPT ![c].tokens = @ \ {t}]
    BY <1>11 DEF EnforceWriteFails
  <2>2. CASE req[c].pc = "srem" /\ Goto(c, "get")
    BY <1>5, <2>2, SMTT(30), Z3
  <2>3. CASE req[c].pc = "get" /\ \E t : req' = [req EXCEPT ![c].tokens = @ \ {t}]
    BY <1>0, <1>9, <2>3
  <2> QED BY <2>1, <2>2, <2>3
<1>12. ASSUME RevokeAllSMembers(c) PROVE Goes
  BY <1>12, SMTT(30), Z3 DEF RevokeAllSMembers, Issuing
<1>13. Goes
  BY <1>6, <1>8, <1>10, <1>11, <1>12 DEF StoreStep, Serve
<1> QED BY <1>2, <1>3, <1>13

\* A step of goroutine c preserves the invariant when it preserves what concerns c, the
\* clients whose tokens it changes and the roles.
LEMMA SessionsFrame ==
  ASSUME SessionsInv, NEW c \in Clients, Inv', \A d \in Clients \ {c} : req'[d] = req[d] /\ h'[d] = h[d],
         \A t \in 1..Len(data) : data'[t] = data[t], held \subseteq held', KeepUsers,
         unlisted' \subseteq Tokens, h' \in [Clients -> Handlers], jar' \in [Browsers -> Jars],
         HandlerOK(c)', \A b \in Browsers : jar'[b] = jar[b] \/ JarOK(b)'
  PROVE  SessionsInv'
<1>1. role \in [Users -> Roles] /\ aged \in [Users -> [Roles -> 0..LongAgo]]
      /\ UNCHANGED <<role, aged>>
  BY DEF SessionsInv, SessionsTypeOK, KeepUsers
<1>2. TypeOK'
  BY DEF Inv
<1>3. SessionsTypeOK'
  BY <1>1, <1>2 DEF SessionsTypeOK, Handlers, Jars
<1>4. \A u \in Users : aged'[u][role'[u]] = 0
  BY <1>1 DEF SessionsInv
<1>5. /\ aged \in [Users -> [Roles -> Nat]] /\ aged' \in [Users -> [Roles -> Nat]]
      /\ \A u \in Users, r \in Roles : aged'[u][r] <= aged[u][r]
  <2>1. 0..LongAgo \subseteq Nat
    BY SessionsAssumption, SMTT(30), Z3 DEF LongAgo
  <2>2. aged \in [Users -> [Roles -> Nat]]
    BY <1>1, <2>1, SMTT(30), Z3
  <2> QED BY <1>1, <2>2, SMTT(30), Z3
<1>6. \A d \in Clients : HandlerOK(d)'
  <2>1. \A d \in Clients \ {c} : HandlerOK(d)'
    BY <1>5, SessionsKept, SMTT(30), Z3
  <2> QED BY <2>1
<1>7. \A b \in Browsers : JarOK(b)'
  BY <1>5, SessionsKept
<1> QED BY <1>3, <1>4, <1>6, <1>7 DEF SessionsInv

\* A login begins: its roles are read in the same step.
LEMMA LoginBegins ==
  ASSUME SessionsInv, NEW c \in Clients, NEW b \in Browsers, NEW u \in Users, NEW r \in Roles,
         NEW op \in {"otp", "oauth"}, NEW ip \in Addresses, b \in Proxied => ip = "forwarded",
         r \in buildRoles(u), IssueFor(c, u, BuildFingerprint(b, ip)),
         Begin(c, b, op, u, r, FALSE), KeepUsers, UNCHANGED <<jar, unlisted>>
  PROVE  SessionsInv'
<1>0. Inv /\ TypeOK /\ h \in [Clients -> Handlers] /\ jar \in [Browsers -> Jars]
  BY DEF SessionsInv, SessionsTypeOK, Handlers, Jars
<1> DEFINE f == BuildFingerprint(b, ip)
           new == [Idle EXCEPT !.pc = "issueExec", !.user = u, !.new = NextToken]
<1>1. f \in Fingerprints
  BY SessionsAssumption DEF BuildFingerprint
<1>2. Inv'
  BY <1>0, <1>1, IssueForStep, SMTT(30), Z3
<1>3. Generate(u, f, NoToken) /\ req' = [req EXCEPT ![c] = new] /\ UNCHANGED held
  BY DEF IssueFor
<1>4. NoToken \in 0..MaxTokens
  BY ConstantsAssumption, SMTT(30), Z3 DEF NoToken
<1>5. data'[NextToken].fp = f /\ \A t \in 1..Len(data) : data'[t] = data[t]
  BY <1>0, <1>1, <1>3, <1>4, GenerateFacts, SMTT(30), Z3
<1>6. new.pc = "issueExec" /\ new.new = NextToken
  BY DEF Idle
<1>7. /\ req'[c].pc = "issueExec" /\ req'[c].new = NextToken
      /\ \A d \in Clients \ {c} : req'[d] = req[d]
  <2> HIDE DEF new
  <2>1. req \in [Clients -> Request]
    BY <1>0 DEF TypeOK
  <2> QED BY <1>3, <1>6, <2>1
<1>8. op \in Ops /\ FALSE \in BOOLEAN
  BY SMTT(30), Z3 DEF Ops
<1>9. /\ h' \in [Clients -> Handlers] /\ \A d \in Clients \ {c} : h'[d] = h[d]
      /\ h'[c].op = op /\ h'[c].b = b /\ h'[c].user = u /\ h'[c].role = r
      /\ h'[c].age = NoHandler.age
  BY <1>0, <1>8, BeginFacts
<1>10. HandlerOK(c)'
  <2>0. PICK n : n = NextToken
    BY SMTT(30), Z3
  <2>1. Own(b, n)'
    BY <1>5, <2>0 DEF Own
  <2>2. r # NoRole => aged'[u][r] <= NoHandler.age
    <3>1. NoHandler.age = 0 /\ UNCHANGED aged
      BY SMTT(30), Z3 DEF NoHandler, KeepUsers
    <3>2. r # NoRole => aged[u][r] = 0
      BY DEF SessionsInv, buildRoles
    <3> QED BY <3>1, <3>2, SMTT(30), Z3
  <2> QED BY <1>7, <1>9, <2>0, <2>1, <2>2 DEF HandlerOK, Issuing
<1>11. unlisted' \subseteq Tokens
  BY DEF SessionsInv, SessionsTypeOK
<1> QED BY <1>0, <1>2, <1>3, <1>5, <1>7, <1>9, <1>10, <1>11, SessionsFrame

\* A refresh begins: behind a proxy the fingerprint is found and the token rotated.
LEMMA RefreshBegins ==
  ASSUME SessionsInv, NEW c \in Clients, NEW b \in Browsers, NEW claims \in BOOLEAN,
         RefreshToken(c, b, claims)
  PROVE  SessionsInv'
<1>0. Inv /\ TypeOK /\ h \in [Clients -> Handlers] /\ jar \in [Browsers -> Jars]
  BY SMTT(30), Z3 DEF SessionsInv, SessionsTypeOK, Handlers, Jars
<1> DEFINE f == BuildFingerprint(b, extractIP(b))
           t == jar[b].rt
           u == jar[b].at.user
<1>1. f \in Fingerprints
  BY SessionsAssumption DEF BuildFingerprint, extractIP, Addresses
<1>2. t \in held /\ Own(b, t)
  BY DEF RefreshToken, SessionsInv, JarOK
<1>3. RotateWith(c, t, f) /\ KeepUsers /\ UNCHANGED jar /\ unlisted' \subseteq Tokens
  BY DEF RefreshToken, SessionsInv, SessionsTypeOK
<1>4. u \in Users /\ NoRole \in Roles /\ "refresh" \in Ops
  <2>1. jar[b].at \in AccessToken
    BY <1>0, SMTT(30), Z3 DEF Jars
  <2> QED BY <2>1, SessionsAssumption DEF AccessToken, Ops, NoRole
<1>5. Begin(c, b, "refresh", u, NoRole, claims)
  BY DEF RefreshToken
<1>6. /\ h' \in [Clients -> Handlers] /\ \A d \in Clients \ {c} : h'[d] = h[d]
      /\ h'[c].op = "refresh" /\ h'[c].b = b
  <2> HIDE DEF u
  <2> QED BY <1>0, <1>4, <1>5, BeginFacts, SMTT(30), Z3
<1>7. b \in Proxied => data[t].fp = f
  BY <1>2, SMTT(30), Z3 DEF Own, extractIP
<1> HIDE DEF f, t
<1>8. Inv' /\ UNCHANGED held
  BY <1>0, <1>1, <1>2, <1>3, RotateWithStep DEF RotateWith
<1>9. CASE data[t].fp # f
  <2>1. BeginRevokeAll(c, data[t].user) /\ UNCHANGED data
    BY <1>3, <1>9 DEF RotateWith
  <2>2. \A d \in Clients \ {c} : req'[d] = req[d]
    BY <1>0, <1>2, <2>1, HeldFacts, BeginRevokeAllOK, SMTT(30), Z3
  <2>3. HandlerOK(c)'
    BY <1>6, <1>7, <1>9 DEF HandlerOK
  <2> QED BY <1>0, <1>3, <1>6, <1>8, <2>1, <2>2, <2>3, SessionsFrame
<1>10. CASE data[t].fp = f
  <2> DEFINE new == [Idle EXCEPT !.pc = "rotateExec", !.user = data[t].user,
                                 !.tok = t, !.new = NextToken]
  <2>1. Generate(data[t].user, f, t) /\ req' = [req EXCEPT ![c] = new]
    BY <1>3, <1>10 DEF RotateWith
  <2>2. data'[NextToken].fp = f /\ \A s \in 1..Len(data) : data'[s] = data[s]
    <3>1. data[t].user \in Users /\ t \in 0..MaxTokens
      BY <1>0, <1>2, HeldFacts, SMTT(30), Z3
    <3> QED BY <1>0, <1>1, <2>1, <3>1, GenerateFacts
  <2>3. new.pc = "rotateExec" /\ new.new = NextToken
    BY DEF Idle
  <2>4. /\ req'[c].pc = "rotateExec" /\ req'[c].new = NextToken
        /\ \A d \in Clients \ {c} : req'[d] = req[d]
    <3> HIDE DEF new
    <3>1. req \in [Clients -> Request]
      BY <1>0 DEF TypeOK
    <3> QED BY <2>1, <2>3, <3>1
  <2>5. PICK n : n = NextToken
    OBVIOUS
  <2>6. Own(b, n)'
    BY <2>2, <2>5, SMTT(30), Z3 DEF Own, extractIP, f
  <2>7. HandlerOK(c)'
    BY <1>6, <2>4, <2>5, <2>6 DEF HandlerOK
  <2> QED BY <1>0, <1>3, <1>6, <1>8, <2>2, <2>4, <2>7, SessionsFrame
<1> QED BY <1>9, <1>10

\* A client forgets its tokens.
LEMMA Forgets ==
  ASSUME jar \in [Browsers -> Jars], NEW b \in Browsers, jar' = [jar EXCEPT ![b] = NoTokens]
  PROVE  jar' \in [Browsers -> Jars] /\ \A e \in Browsers : jar'[e] = jar[e] \/ JarOK(e)'
<1>1. jar' \in [Browsers -> Jars] /\ jar'[b] = NoTokens /\ \A e \in Browsers \ {b} : jar'[e] = jar[e]
  BY Nothing, SMTT(30), Z3
<1>2. JarOK(b)'
  BY <1>1, Nothing, SMTT(30), Z3 DEF JarOK
<1> QED BY <1>1, <1>2

\* A logout begins, or has nothing to do but to tell the client.
LEMMA LogoutBegins ==
  ASSUME SessionsInv, NEW c \in Clients, NEW b \in Browsers,
         \/ \E claims \in BOOLEAN : Logout(c, b, claims)
         \/ LogoutAll(c, b)
         \/ HTTPLogout(c, b)
  PROVE  SessionsInv'
<1>0. Inv /\ TypeOK /\ h \in [Clients -> Handlers] /\ jar \in [Browsers -> Jars]
  BY SMTT(30), Z3 DEF SessionsInv, SessionsTypeOK, Handlers, Jars
<1> DEFINE t == jar[b].rt
           u == jar[b].at.user
<1>1. KeepUsers /\ unlisted' \subseteq Tokens
  <2>1. KeepUsers /\ unlisted' = unlisted
    BY DEF Logout, LogoutAll, HTTPLogout
  <2> QED BY <2>1 DEF SessionsInv, SessionsTypeOK
<1>2. u \in Users /\ NoRole \in Roles
  <2>1. jar[b].at \in AccessToken
    BY <1>0, SMTT(30), Z3 DEF Jars
  <2> QED BY <2>1, SessionsAssumption DEF AccessToken, NoRole
<1>3. \/ /\ RevokeToken(c, t) /\ t \in held
         /\ \E claims \in BOOLEAN : Begin(c, b, "logout", u, NoRole, claims)
         /\ UNCHANGED jar
      \/ RevokeAllOf(c, u) /\ Begin(c, b, "logoutAll", u, NoRole, TRUE) /\ UNCHANGED jar
      \/ jar' = [jar EXCEPT ![b] = NoTokens] /\ UNCHANGED <<vars, h>>
  <2>1. t # NoToken => t \in held
    BY DEF SessionsInv, JarOK
  <2>2. CASE \E claims \in BOOLEAN : Logout(c, b, claims)
    BY <2>1, <2>2 DEF Logout
  <2>3. CASE HTTPLogout(c, b)
    <3>1. ~PathMatch(RefreshCookiePath, "/auth/logout")
      BY SMTT(30), Z3 DEF PathMatch, RefreshCookiePath
    <3> QED BY <2>3, <3>1 DEF HTTPLogout
  <2> QED BY <2>2, <2>3 DEF LogoutAll
<1> HIDE DEF t, u
<1>4. ASSUME NEW op \in {"logout", "logoutAll"}, NEW claims \in BOOLEAN,
             Begin(c, b, op, u, NoRole, claims)
      PROVE  /\ h' \in [Clients -> Handlers] /\ \A d \in Clients \ {c} : h'[d] = h[d]
             /\ HandlerOK(c)'
  <2>1. op \in Ops
    BY SMTT(30), Z3 DEF Ops
  <2>2. /\ h' \in [Clients -> Handlers] /\ \A d \in Clients \ {c} : h'[d] = h[d]
        /\ h'[c].op = op
    BY <1>0, <1>2, <1>4, <2>1, BeginFacts, SMTT(30), Z3
  <2> QED BY <2>2 DEF HandlerOK
<1>5. CASE /\ RevokeToken(c, t) /\ t \in held
           /\ \E claims \in BOOLEAN : Begin(c, b, "logout", u, NoRole, claims)
           /\ UNCHANGED jar
  <2>1. Inv' /\ UNCHANGED <<data, held>>
    BY <1>0, <1>5, RevokeTokenStep DEF RevokeToken
  <2>2. \A d \in Clients \ {c} : req'[d] = req[d]
    BY <1>0, <1>5 DEF RevokeToken, TypeOK
  <2>3. /\ h' \in [Clients -> Handlers] /\ \A d \in Clients \ {c} : h'[d] = h[d]
        /\ HandlerOK(c)'
    BY <1>4, <1>5, SMTT(30), Z3
  <2> QED BY <1>0, <1>1, <1>5, <2>1, <2>2, <2>3, SessionsFrame
<1>6. CASE RevokeAllOf(c, u) /\ Begin(c, b, "logoutAll", u, NoRole, TRUE) /\ UNCHANGED jar
  <2>1. /\ BeginRevokeAll(c, u)
        /\ UNCHANGED <<data, life, index, held, faults, stored, evicted>>
    BY <1>6 DEF RevokeAllOf
  <2>2. Inv' /\ \A d \in Clients \ {c} : req'[d] = req[d]
    BY <1>0, <1>2, <2>1, RevokeAllBegins, BeginRevokeAllOK
  <2>3. /\ h' \in [Clients -> Handlers] /\ \A d \in Clients \ {c} : h'[d] = h[d]
        /\ HandlerOK(c)'
    BY <1>4, <1>6
  <2> QED BY <1>0, <1>1, <1>6, <2>1, <2>2, <2>3, SessionsFrame
<1>7. CASE jar' = [jar EXCEPT ![b] = NoTokens] /\ UNCHANGED <<vars, h>>
  <2>1. Inv' /\ UNCHANGED <<data, held, req>>
    BY <1>0, <1>7, NextInv, SMTT(30), Z3 DEF vars
  <2>2. HandlerOK(c) /\ UNCHANGED aged
    BY <1>1, SMTT(30), Z3 DEF SessionsInv, KeepUsers
  <2>3. HandlerOK(c)'
    BY <1>7, <2>1, <2>2 DEF HandlerOK, Own
  <2>4. jar' \in [Browsers -> Jars] /\ \A e \in Browsers : jar'[e] = jar[e] \/ JarOK(e)'
    BY <1>0, <1>7, Forgets
  <2> QED BY <1>0, <1>1, <1>7, <2>1, <2>3, <2>4, SessionsFrame, SMTT(30), Z3
<1> QED BY <1>3, <1>5, <1>6, <1>7

\* A call of the store goes on, or returns to the handler, which answers the client.
LEMMA StoreReturns ==
  ASSUME SessionsInv, NEW c \in Clients,
         Working(c) \/ LoginReturns(c) \/ RotateReturns(c) \/ LogoutReturns(c)
  PROVE  SessionsInv'
<1>0. /\ Inv /\ TypeOK /\ h \in [Clients -> Handlers] /\ jar \in [Browsers -> Jars]
      /\ h[c] \in Handlers /\ HandlerOK(c)
  BY SMTT(30), Z3 DEF SessionsInv, SessionsTypeOK, Handlers, Jars
<1>1. StoreStep(c) /\ KeepUsers /\ unlisted' \subseteq Tokens
  <2>1. StoreStep(c) /\ KeepUsers
    BY SMTT(30), Z3 DEF Working, LoginReturns, RotateReturns, LogoutReturns, KeepUsers
  <2>2. NoteUnlisted /\ unlisted \subseteq Tokens
    BY <2>1 DEF StoreStep, SessionsInv, SessionsTypeOK
  <2> QED BY <2>1, <2>2 DEF NoteUnlisted
<1>2. /\ Inv' /\ data' = data /\ \A d \in Clients \ {c} : req'[d] = req[d]
      /\ held' = held \/ held' = held \cup {req[c].new}
      /\ req[c].pc \in Issuing =>
           req'[c].pc = "idle" \/ (req'[c].pc \in Issuing /\ req'[c].new = req[c].new)
      /\ req[c].pc = "rotateExec" => req'[c].pc = "idle"
  BY <1>0, <1>1, StoreStepFacts
<1>3. held \subseteq held' /\ UNCHANGED aged
  BY <1>1, <1>2 DEF KeepUsers
<1>4. Returned(c) # NoToken => Returned(c) \in held' /\ Returned(c) = req[c].new
  BY <1>2 DEF Returned
<1>5. End(c) => /\ h' \in [Clients -> Handlers] /\ HandlerOK(c)'
                /\ \A d \in Clients \ {c} : h'[d] = h[d]
  BY <1>0, EndFacts DEF HandlerOK
<1>6. ASSUME End(c), jar' \in [Browsers -> Jars],
             \A b \in Browsers : jar'[b] = jar[b] \/ JarOK(b)'
      PROVE  SessionsInv'
  BY <1>1, <1>2, <1>3, <1>5, <1>6, SessionsFrame
<1>7. CASE Working(c)
  <2>1. req'[c].pc # "idle" /\ UNCHANGED <<h, jar>>
    BY <1>7, SMTT(30), Z3 DEF Working, Returns
  <2>2. HandlerOK(c)'
    BY <1>0, <1>2, <1>3, <2>1 DEF HandlerOK, Own
  <2> QED BY <1>0, <1>1, <1>2, <1>3, <2>1, <2>2, SessionsFrame
<1>8. CASE LoginReturns(c)
  <2>0. PICK b, u, r, n : b = h[c].b /\ u = h[c].user /\ r = h[c].role /\ n = req[c].new
    OBVIOUS
  <2> DEFINE at == IssueAccessToken(u, r)
             j == [rt |-> n, at |-> at, cookies |-> h[c].op = "oauth"]
  <2>1. /\ End(c) /\ h[c].op \in {"otp", "oauth"}
        /\ UNCHANGED jar \/ (jar' = [jar EXCEPT ![b] = j] /\ n \in held')
    BY <1>4, <1>8, <2>0 DEF LoginReturns, Store
  <2>2. CASE UNCHANGED jar
    BY <1>0, <1>6, <2>1, <2>2, SMTT(30), Z3
  <2>3. CASE jar' = [jar EXCEPT ![b] = j] /\ n \in held'
    <3>1. b \in Browsers /\ u \in Users /\ r \in Roles /\ h[c].age \in 0..MaxDelay
      BY <1>0, <2>0, SMTT(30), Z3 DEF Handlers
    <3>2. Own(b, n) /\ (r # NoRole => aged[u][r] <= h[c].age)
      BY <1>0, <2>0, <2>1 DEF HandlerOK
    <3>3. at \in AccessToken /\ at.user = u /\ at.role = r /\ at.life = AccessTTL
      BY <3>1, SessionsAssumption, SMTT(30), Z3 DEF IssueAccessToken, AccessToken
    <3>4. n \in 0..MaxTokens
      <4>1. held' \subseteq Tokens
        BY <1>2 DEF Inv, TypeOK, StoreOK
      <4> QED BY <2>3, <4>1, SMTT(30), Z3 DEF Tokens
    <3>5. j \in Jars /\ j.rt = n /\ j.at = at
      <4>1. (h[c].op = "oauth") \in BOOLEAN
        OBVIOUS
      <4> HIDE DEF at
      <4> QED BY <3>3, <3>4, <4>1 DEF Jars
    <3> HIDE DEF j, at
    <3>6. jar' \in [Browsers -> Jars] /\ jar'[b] = j /\ \A e \in Browsers \ {b} : jar'[e] = jar[e]
      BY <1>0, <2>3, <3>1, <3>5, SMTT(30), Z3
    <3>7. Own(b, n)'
      BY <1>2, <3>2 DEF Own
    <3>8. r # NoRole => aged'[u][r] + AccessTTL <= LongAgo
      <4>1. aged[u][r] \in Nat
        BY <3>1, SessionsAssumption, SMTT(30), Z3 DEF SessionsInv, SessionsTypeOK, LongAgo
      <4> QED BY <1>3, <3>1, <3>2, <4>1, SessionsAssumption, SMTT(30), Z3 DEF LongAgo
    <3>9. JarOK(b)'
      BY <2>3, <3>3, <3>5, <3>6, <3>7, <3>8 DEF JarOK
    <3> QED BY <1>6, <2>1, <3>6, <3>9
  <2> QED BY <2>1, <2>2, <2>3
<1>9. CASE RotateReturns(c)
  <2>0. PICK n : n = req[c].new
    OBVIOUS
  <2>1. /\ UNCHANGED jar /\ h[c].op = "refresh"
        /\ End(c) \/ (n \in held' /\ h' = [h EXCEPT ![c].op = "user", ![c].new = n])
    BY <1>4, <1>9, <2>0, SMTT(30), Z3 DEF RotateReturns
  <2>2. CASE End(c)
    BY <1>0, <1>6, <2>1, <2>2
  <2>3. CASE n \in held' /\ h' = [h EXCEPT ![c].op = "user", ![c].new = n]
    <3>1. n \in 0..MaxTokens
      <4>1. held' \subseteq Tokens
        BY <1>2 DEF Inv, TypeOK, StoreOK
      <4> QED BY <2>3, <4>1, SMTT(30), Z3 DEF Tokens
    <3>2. h'[c] = [h[c] EXCEPT !.op = "user", !.new = n] /\ \A d \in Clients \ {c} : h'[d] = h[d]
      BY <1>0, <2>3
    <3>3. h'[c] \in Handlers /\ h'[c].op = "user" /\ h'[c].new = n /\ h'[c].b = h[c].b
      BY <1>0, <3>1, <3>2 DEF Handlers, Ops
    <3>4. h' \in [Clients -> Handlers]
      BY <1>0, <2>3, <3>2, <3>3
    <3>5. Own(h[c].b, n)
      BY <1>0, <2>0, <2>1, SMTT(30), Z3 DEF HandlerOK, Own
    <3>6. HandlerOK(c)'
      BY <1>2, <2>3, <3>3, <3>5, SMTT(30), Z3 DEF HandlerOK, Own
    <3> QED BY <1>0, <1>1, <1>2, <1>3, <2>1, <3>2, <3>4, <3>6, SessionsFrame
  <2> QED BY <2>1, <2>2, <2>3
<1>10. CASE LogoutReturns(c)
  <2>1. /\ End(c) /\ h[c].b \in Browsers
        /\ jar' = [jar EXCEPT ![h[c].b] = NoTokens] \/ UNCHANGED jar
    BY <1>0, <1>10 DEF LogoutReturns, Handlers
  <2> QED BY <1>0, <1>6, <2>1, Forgets
<1> QED BY <1>7, <1>8, <1>9, <1>10

\* The rest of a refresh: the user is looked up, and the roles as they are now are signed.
LEMMA RefreshEnds ==
  ASSUME SessionsInv, NEW c \in Clients, GetByID(c) \/ Sign(c)
  PROVE  SessionsInv'
<1>0. /\ Inv /\ TypeOK /\ h \in [Clients -> Handlers] /\ jar \in [Browsers -> Jars]
      /\ h[c] \in Handlers /\ HandlerOK(c)
  BY SMTT(30), Z3 DEF SessionsInv, SessionsTypeOK, Handlers, Jars
<1>1. UNCHANGED vars /\ KeepUsers /\ unlisted' \subseteq Tokens
  BY DEF GetByID, Sign, SessionsInv, SessionsTypeOK
<1>2. Inv' /\ UNCHANGED <<data, held, req, aged>>
  BY <1>0, <1>1, NextInv DEF vars, KeepUsers
<1>3. End(c) => /\ h' \in [Clients -> Handlers] /\ HandlerOK(c)'
                /\ \A d \in Clients \ {c} : h'[d] = h[d]
  BY <1>0, EndFacts DEF HandlerOK
<1>4. ASSUME End(c), jar' \in [Browsers -> Jars],
             \A b \in Browsers : jar'[b] = jar[b] \/ JarOK(b)'
      PROVE  SessionsInv'
  BY <1>1, <1>2, <1>3, <1>4, SessionsFrame
<1>5. CASE GetByID(c)
  <2>1. UNCHANGED jar /\ h[c].op = "user" /\ (End(c) \/ h' = [h EXCEPT ![c].op = "sign"])
    BY <1>5, SMTT(30), Z3 DEF GetByID
  <2>2. CASE End(c)
    BY <1>0, <1>4, <2>1, <2>2, SMTT(30), Z3
  <2>3. CASE h' = [h EXCEPT ![c].op = "sign"]
    <3>1. h'[c] = [h[c] EXCEPT !.op = "sign"] /\ \A d \in Clients \ {c} : h'[d] = h[d]
      BY <1>0, <2>3, SMTT(30), Z3
    <3>2. h'[c] \in Handlers /\ h'[c].op = "sign" /\ h'[c].new = h[c].new /\ h'[c].b = h[c].b
      BY <1>0, <3>1, SMTT(30), Z3 DEF Handlers, Ops
    <3>3. h' \in [Clients -> Handlers]
      BY <1>0, <2>3, <3>1, <3>2
    <3>4. HandlerOK(c)'
      BY <1>0, <1>2, <2>1, <3>2 DEF HandlerOK, Own
    <3> QED BY <1>0, <1>1, <1>2, <2>1, <3>1, <3>3, <3>4, SessionsFrame, SMTT(30), Z3
  <2> QED BY <2>1, <2>2, <2>3
<1>6. CASE Sign(c) /\ UNCHANGED jar
  BY <1>0, <1>4, <1>6 DEF Sign
<1>7. CASE Sign(c) /\ jar' # jar
  <2> DEFINE b == h[c].b
             u == h[c].user
             t == h[c].new
  <2>1. PICK r \in buildRoles(u) : Store(b, t, IssueAccessToken(u, r), FALSE)
    BY <1>7 DEF Sign
  <2> DEFINE at == IssueAccessToken(u, r)
             j == [rt |-> t, at |-> at, cookies |-> FALSE]
  <2>2. End(c) /\ h[c].op = "sign" /\ jar' = [jar EXCEPT ![b] = j]
    BY <1>7, <2>1 DEF Sign, Store
  <2>3. b \in Browsers /\ u \in Users /\ t \in 0..MaxTokens
    BY <1>0 DEF Handlers
  <2>4. r \in Roles /\ (r # NoRole => aged[u][r] = 0)
    BY <2>3, SessionsAssumption, SMTT(30), Z3 DEF SessionsInv, SessionsTypeOK, buildRoles, NoRole
  <2>5. at \in AccessToken /\ at.user = u /\ at.role = r /\ at.life = AccessTTL
    BY <2>3, <2>4, SessionsAssumption, SMTT(30), Z3 DEF IssueAccessToken, AccessToken
  <2>6. j \in Jars /\ j.rt = t /\ j.at = at
    <3> HIDE DEF t, at
    <3> QED BY <2>3, <2>5 DEF Jars
  <2>7. t \in held /\ Own(b, t)
    BY <1>0, <2>2 DEF HandlerOK
  <2> HIDE DEF j, at, t, u, b
  <2>8. jar' \in [Browsers -> Jars] /\ jar'[b] = j /\ \A e \in Browsers \ {b} : jar'[e] = jar[e]
    BY <1>0, <2>2, <2>3, <2>6
  <2>9. PICK n : n = t
    OBVIOUS
  <2>10. PICK e : e = b
    BY SMTT(30), Z3
  <2>11. jar'[e].rt \in held' /\ Own(e, n)' /\ jar'[e].rt = n
    BY <1>2, <2>6, <2>7, <2>8, <2>9, <2>10 DEF Own
  <2>12. r # NoRole => aged'[u][r] + AccessTTL <= LongAgo
    BY <1>2, <2>4, SessionsAssumption, SMTT(30), Z3 DEF LongAgo
  <2>13. JarOK(e)'
    BY <2>5, <2>6, <2>8, <2>10, <2>11, <2>12 DEF JarOK
  <2> QED BY <1>4, <2>2, <2>8, <2>10, <2>13, SMTT(30), Z3
<1> QED BY <1>5, <1>6, <1>7

\* A role that is given, or taken away, makes no role older.
LEMMA RoleChanges ==
  ASSUME SessionsInv, NEW u \in Users, NEW r \in Roles, SetRole(u, r)
  PROVE  SessionsInv'
<1>0. /\ Inv /\ h \in [Clients -> Handlers] /\ jar \in [Browsers -> Jars]
      /\ role \in [Users -> Roles] /\ aged \in [Users -> [Roles -> 0..LongAgo]]
      /\ unlisted \subseteq Tokens
  BY DEF SessionsInv, SessionsTypeOK, Handlers, Jars
<1>1. Inv' /\ UNCHANGED <<data, held, req, h, jar, unlisted>>
  BY <1>0, NextInv DEF SetRole, vars
<1>2. LongAgo \in Nat
  BY SessionsAssumption, SMTT(30), Z3 DEF LongAgo
<1>3. role' = [role EXCEPT ![u] = r] /\ aged' = [aged EXCEPT ![u] = [aged[u] EXCEPT ![r] = 0]]
  BY DEF SetRole
<1>4. /\ role' \in [Users -> Roles] /\ aged' \in [Users -> [Roles -> 0..LongAgo]]
      /\ role'[u] = r /\ aged'[u][r] = 0
      /\ \A v \in Users : v # u => role'[v] = role[v] /\ aged'[v] = aged[v]
      /\ \A q \in Roles : q # r => aged'[u][q] = aged[u][q]
  BY <1>0, <1>2, <1>3, SMTT(30), Z3
<1>5. SessionsTypeOK'
  BY <1>0, <1>1, <1>4, SMTT(30), Z3 DEF SessionsTypeOK, Inv, Handlers, Jars
<1>6. \A v \in Users : aged'[v][role'[v]] = 0
  BY <1>4 DEF SessionsInv
<1>7. aged \in [Users -> [Roles -> Nat]] /\ aged' \in [Users -> [Roles -> Nat]]
  BY <1>0, <1>2, <1>4, SMTT(30), Z3
<1>8. ASSUME NEW v \in Users, NEW q \in Roles PROVE aged'[v][q] <= aged[v][q]
  <2>1. aged'[v][q] \in {0, aged[v][q]} /\ aged[v][q] \in Nat
    BY <1>4, <1>7, SMTT(30), Z3
  <2> QED BY <2>1, SMTT(30), Z3
<1>9. (\A c \in Clients : HandlerOK(c)') /\ (\A b \in Browsers : JarOK(b)')
  BY <1>1, <1>7, <1>8, SessionsKept
<1> QED BY <1>1, <1>5, <1>6, <1>9 DEF SessionsInv

\* Minutes pass: the roles in a token or in a handler get older as the token or the
\* request does.
LEMMA TimePasses ==
  ASSUME SessionsInv, SessionsTick
  PROVE  SessionsInv'
<1>0. /\ Inv /\ h \in [Clients -> Handlers] /\ jar \in [Browsers -> Jars]
      /\ role \in [Users -> Roles] /\ aged \in [Users -> [Roles -> 0..LongAgo]]
      /\ unlisted \subseteq Tokens
  BY DEF SessionsInv, SessionsTypeOK, Handlers, Jars
<1>1. Inv' /\ UNCHANGED <<data, held, req, role, unlisted>>
  BY <1>0, NextInv DEF SessionsTick, vars
<1>2. LongAgo \in Nat /\ MaxDelay \in Nat /\ AccessTTL \in Nat
  BY SessionsAssumption, SMTT(30), Z3 DEF LongAgo
<1>3. aged' = [u \in Users |-> [r \in Roles |-> AgeRole(u, r)]]
  BY DEF SessionsTick
<1>4. ASSUME NEW u \in Users, NEW r \in Roles
      PROVE  /\ AgeRole(u, r) \in 0..LongAgo /\ AgeRole(u, r) <= aged[u][r] + 1
             /\ r = role[u] => AgeRole(u, r) = 0
  <2>1. aged[u][r] \in 0..LongAgo
    BY <1>0
  <2> QED BY <1>2, <2>1, SMTT(30), Z3 DEF AgeRole
<1>5. /\ aged' \in [Users -> [Roles -> 0..LongAgo]]
      /\ \A u \in Users, r \in Roles : aged'[u][r] = AgeRole(u, r)
  BY <1>3, <1>4
<1>11. \A u \in Users, r \in Roles : /\ aged[u][r] \in Nat /\ aged'[u][r] \in Nat
                                     /\ aged'[u][r] <= aged[u][r] + 1
  BY <1>0, <1>2, <1>4, <1>5, SMTT(30), Z3
<1>6. \A u \in Users : aged'[u][role'[u]] = 0
  BY <1>0, <1>1, <1>4, <1>5, SMTT(30), Z3
<1>7. ASSUME NEW c \in Clients PROVE h'[c] \in Handlers /\ HandlerOK(c)'
  <2>0. h[c] \in Handlers /\ HandlerOK(c)
    BY <1>0, SMTT(30), Z3 DEF SessionsInv
  <2>1. CASE h[c].op = "none"
    <3>1. h'[c] = h[c]
      BY <2>1, SMTT(30), Z3 DEF SessionsTick
    <3> QED BY <2>0, <2>1, <3>1 DEF HandlerOK
  <2>2. CASE h[c].op # "none"
    <3>1. h'[c] = [h[c] EXCEPT !.age = h[c].age + 1] /\ h[c].age < MaxDelay
      BY <2>2, SMTT(30), Z3 DEF SessionsTick
    <3>2. h[c].age \in 0..MaxDelay /\ h[c].user \in Users /\ h[c].role \in Roles
      BY <2>0 DEF Handlers
    <3>3. h[c].age + 1 \in 0..MaxDelay
      BY <1>2, <3>1, <3>2, SMTT(30), Z3
    <3>4. /\ h'[c] \in Handlers /\ h'[c].op = h[c].op /\ h'[c].b = h[c].b /\ h'[c].new = h[c].new
          /\ h'[c].user = h[c].user /\ h'[c].role = h[c].role /\ h'[c].age = h[c].age + 1
      BY <2>0, <3>1, <3>3, SMTT(30), Z3 DEF Handlers
    <3>5. h[c].age \in Nat
      BY <1>2, <3>2, SMTT(30), Z3
    <3>6. h[c].op \in {"otp", "oauth"} /\ h[c].role # NoRole =>
            aged'[h[c].user][h[c].role] <= h[c].age + 1
      <4>1. h[c].op \in {"otp", "oauth"} /\ h[c].role # NoRole =>
              aged[h[c].user][h[c].role] <= h[c].age
        BY <2>0 DEF HandlerOK
      <4>2. /\ aged[h[c].user][h[c].role] \in Nat /\ aged'[h[c].user][h[c].role] \in Nat
            /\ aged'[h[c].user][h[c].role] <= aged[h[c].user][h[c].role] + 1
        BY <1>11, <3>2
      <4>3. \A z \in Nat : aged[h[c].user][h[c].role] <= z
                           => aged'[h[c].user][h[c].role] <= z + 1
        BY <4>2, AgeGrows
      <4> QED BY <3>5, <4>1, <4>3
    <3> QED BY <1>1, <2>0, <3>4, <3>6 DEF HandlerOK, Own
  <2> QED BY <2>1, <2>2
<1>8. ASSUME NEW b \in Browsers PROVE jar'[b] \in Jars /\ JarOK(b)'
  <2>0. jar[b] \in Jars /\ JarOK(b) /\ jar'[b] = AgeAccess(jar[b])
    BY <1>0 DEF SessionsInv, SessionsTick
  <2>1. jar[b].at \in AccessToken
    BY <2>0 DEF Jars
  <2>2. /\ jar[b].at.life \in 0..AccessTTL /\ jar[b].at.life \in Nat
        /\ jar[b].at.user \in Users /\ jar[b].at.role \in Roles
    BY <2>1, AccessFacts
  <2>3. jar[b].rt # NoToken => jar[b].rt \in held' /\ Own(b, jar[b].rt)
    BY <1>1, <2>0 DEF JarOK
  <2>4. ASSUME jar'[b] \in Jars, jar'[b].rt = jar[b].rt, jar'[b].at.life = 0
        PROVE  JarOK(b)'
    BY <1>1, <2>3, <2>4, SMTT(30), Z3 DEF JarOK, Own
  <2>5. CASE jar[b].at.life = 0
    <3>1. jar'[b] = jar[b]
      BY <2>0, <2>5 DEF AgeAccess
    <3> QED BY <2>0, <2>4, <2>5, <3>1
  <2>6. CASE jar[b].at.life # 0 /\ jar[b].cookies /\ jar[b].at.life = 1
    <3>1. jar'[b] = [jar[b] EXCEPT !.at = NoAccess]
      BY <2>0, <2>6 DEF AgeAccess
    <3>2. jar'[b] \in Jars /\ jar'[b].rt = jar[b].rt /\ jar'[b].at.life = 0
      BY <2>0, <3>1, Nothing, SMTT(30), Z3 DEF Jars
    <3> QED BY <2>4, <3>2
  <2>7. CASE jar[b].at.life # 0 /\ ~(jar[b].cookies /\ jar[b].at.life = 1)
    <3> DEFINE at == [jar[b].at EXCEPT !.life = jar[b].at.life - 1]
    <3>1. jar'[b] = [jar[b] EXCEPT !.at = at]
      BY <2>0, <2>7 DEF AgeAccess
    <3>2. jar[b].at.life - 1 \in 0..AccessTTL
      BY <1>2, <2>2, <2>7, SMTT(30), Z3
    <3>3. /\ at \in AccessToken /\ at.life = jar[b].at.life - 1
          /\ at.user = jar[b].at.user /\ at.role = jar[b].at.role
      BY <2>1, <3>2 DEF AccessToken
    <3> HIDE DEF at
    <3>4. jar'[b] \in Jars /\ jar'[b].rt = jar[b].rt /\ jar'[b].at = at
      BY <2>0, <3>1, <3>3, SMTT(30), Z3 DEF Jars
    <3>5. jar[b].at.role # NoRole =>
            aged'[jar[b].at.user][jar[b].at.role] + (jar[b].at.life - 1) <= LongAgo
      <4>1. jar[b].at.role # NoRole =>
              aged[jar[b].at.user][jar[b].at.role] + jar[b].at.life <= LongAgo
        BY <2>0, <2>1, <2>7, AccessFacts DEF JarOK
      <4>2. /\ aged[jar[b].at.user][jar[b].at.role] \in Nat
            /\ aged'[jar[b].at.user][jar[b].at.role] \in Nat
            /\ aged'[jar[b].at.user][jar[b].at.role] <= aged[jar[b].at.user][jar[b].at.role] + 1
        BY <1>11, <2>2
      <4>3. \A l, m \in Nat : aged[jar[b].at.user][jar[b].at.role] + l <= m /\ l # 0
                              => aged'[jar[b].at.user][jar[b].at.role] + (l - 1) <= m
        BY <4>2, LifeShrinks
      <4> QED BY <1>2, <2>2, <2>7, <4>1, <4>3
    <3> QED BY <1>1, <2>3, <3>3, <3>4, <3>5 DEF JarOK, Own
  <2> QED BY <2>5, <2>6, <2>7, SMTT(30), Z3
<1>9. h' \in [Clients -> Handlers] /\ jar' \in [Browsers -> Jars]
  <2>1. /\ h' = [c \in Clients |-> h'[c]]
        /\ jar' = [b \in Browsers |-> jar'[b]]
    BY DEF SessionsTick
  <2> QED BY <1>7, <1>8, <2>1
<1>10. SessionsTypeOK'
  BY <1>0, <1>1, <1>5, <1>9 DEF SessionsTypeOK, Inv, Handlers, Jars
<1> QED BY <1>1, <1>6, <1>7, <1>8, <1>10 DEF SessionsInv

\* Days pass: handlers and clients do not notice.
LEMMA KeysExpire ==
  ASSUME SessionsInv, Expires
  PROVE  SessionsInv'
<1>1. Inv /\ SessionsTypeOK /\ Tick /\ UNCHANGED <<h, jar, role, aged>>
  BY DEF Expires, SessionsInv
<1>2. Inv' /\ UNCHANGED <<data, held, req>>
  BY <1>1, TickStep DEF Tick
<1>3. unlisted' \subseteq Tokens
  BY <1>1 DEF Expires, NoteUnlisted, SessionsTypeOK
<1>4. SessionsTypeOK'
  BY <1>1, <1>2, <1>3 DEF SessionsTypeOK, Inv
<1>5. (\A c \in Clients : HandlerOK(c)') /\ (\A b \in Browsers : JarOK(b)')
  BY <1>1, <1>2 DEF SessionsInv, HandlerOK, JarOK, Own
<1> QED BY <1>1, <1>2, <1>4, <1>5 DEF SessionsInv

\* The service starts with no handler at work and no client logged in.
LEMMA SessionsStart == SessionsInit => SessionsInv
<1> SUFFICES ASSUME SessionsInit PROVE SessionsInv
  BY SMTT(30), Z3
<1>1. Inv /\ TypeOK
  BY InitInv, SMTT(30), Z3 DEF SessionsInit, Inv
<1>2. /\ h \in [Clients -> Handlers] /\ \A c \in Clients : h[c] = NoHandler
      /\ jar \in [Browsers -> Jars] /\ \A b \in Browsers : jar[b] = NoTokens
  BY Nothing DEF SessionsInit
<1>3. role \in [Users -> Roles] /\ \A u \in Users : role[u] = "ADMIN"
  BY SessionsAssumption DEF SessionsInit
<1>4. /\ aged \in [Users -> [Roles -> 0..LongAgo]]
      /\ \A u \in Users : aged[u]["ADMIN"] = 0
  <2>1. LongAgo \in 0..LongAgo /\ 0 \in 0..LongAgo
    BY SessionsAssumption, SMTT(30), Z3 DEF LongAgo
  <2>2. aged = [u \in Users |-> [r \in Roles |-> IF r = "ADMIN" THEN 0 ELSE LongAgo]]
    BY DEF SessionsInit
  <2> QED BY <2>1, <2>2, SessionsAssumption
<1>5. SessionsTypeOK
  <2>1. unlisted \subseteq Tokens
    BY DEF SessionsInit
  <2> QED BY <1>1, <1>2, <1>3, <1>4, <2>1 DEF SessionsTypeOK, Handlers, Jars
<1>6. (\A c \in Clients : HandlerOK(c)) /\ (\A b \in Browsers : JarOK(b))
  BY <1>2, Nothing, NoneLeft DEF HandlerOK, JarOK
<1> QED BY <1>1, <1>3, <1>4, <1>5, <1>6 DEF SessionsInv

\* Every step of a handler, of a client or of time preserves the invariant.
THEOREM SessionsStep == SessionsInv /\ [SessionsNext]_allVars => SessionsInv'
<1> SUFFICES ASSUME SessionsInv, [SessionsNext]_allVars PROVE SessionsInv'
  BY SMTT(30), Z3
<1>1. ASSUME NEW c \in Clients, NEW b \in Browsers, NEW u \in Users, NEW r \in Roles,
             issueTokenResponse(c, b, u, r) \/ issueTokensAndRedirect(c, b, u, r)
      PROVE  SessionsInv'
  <2>1. CASE issueTokenResponse(c, b, u, r)
    <3> DEFINE ip == IF b \in Proxied THEN "forwarded" ELSE ""
    <3>1. ip \in Addresses /\ (b \in Proxied => ip = "forwarded")
      BY DEF Addresses
    <3>2. /\ r \in buildRoles(u) /\ IssueFor(c, u, BuildFingerprint(b, ip))
          /\ Begin(c, b, "otp", u, r, FALSE) /\ KeepUsers /\ UNCHANGED <<jar, unlisted>>
      BY <2>1 DEF issueTokenResponse
    <3> HIDE DEF ip
    <3> QED BY <3>1, <3>2, LoginBegins
  <2>2. CASE issueTokensAndRedirect(c, b, u, r)
    <3>1. extractClientIP(b) \in Addresses /\ (b \in Proxied => extractClientIP(b) = "forwarded")
      BY DEF Addresses, extractClientIP
    <3>2. /\ r \in buildRoles(u) /\ IssueFor(c, u, BuildFingerprint(b, extractClientIP(b)))
          /\ Begin(c, b, "oauth", u, r, FALSE) /\ KeepUsers /\ UNCHANGED <<jar, unlisted>>
      BY <2>2 DEF issueTokensAndRedirect
    <3> QED BY <3>1, <3>2, LoginBegins
  <2> QED BY <1>1, <2>1, <2>2
<1>2. ASSUME NEW c \in Clients, Handle(c) PROVE SessionsInv'
  BY <1>2, StoreReturns, RefreshEnds DEF Handle
<1>3. ASSUME NEW u \in Users, RemoveMember(u) \/ \E r \in Roles : Upsert(u, r) PROVE SessionsInv'
  BY <1>3, RoleChanges, SessionsAssumption, SMTT(30), Z3 DEF RemoveMember, Upsert, NoRole
<1>4. CASE UNCHANGED allVars
  <2>1. UNCHANGED <<vars, h, jar, role, aged, unlisted>> /\ UNCHANGED <<data, held, req>>
    BY <1>4 DEF allVars, sessionVars, vars
  <2>2. Inv' /\ Inv
    BY <2>1, NextInv DEF SessionsInv
  <2>3. SessionsTypeOK'
    BY <2>1, <2>2, SMTT(30), Z3 DEF SessionsInv, SessionsTypeOK, Inv
  <2>4. (\A c \in Clients : HandlerOK(c)') /\ (\A b \in Browsers : JarOK(b)')
    BY <2>1 DEF SessionsInv, HandlerOK, JarOK, Own
  <2> QED BY <2>1, <2>2, <2>3, <2>4 DEF SessionsInv
<1> QED BY <1>1, <1>2, <1>3, <1>4, RefreshBegins, LogoutBegins, TimePasses, KeysExpire
        DEF SessionsNext

\* The handlers' invariant holds in every reachable state.
THEOREM SessionsInvariance == SessionsSpec => []SessionsInv
<1>1. SessionsInit => SessionsInv
  BY SessionsStart
<1>2. SessionsInv /\ [SessionsNext]_allVars => SessionsInv'
  BY SessionsStep
<1> QED BY <1>1, <1>2, PTL DEF SessionsSpec

\* The variables of handlers, clients and memberships keep their types.
THEOREM SessionsTypeCorrect == SessionsSpec => []SessionsTypeOK
<1>1. SessionsInv => SessionsTypeOK
  BY SMTT(30), Z3 DEF SessionsInv
<1> QED BY <1>1, SessionsInvariance, PTL

\* For any number of clients, goroutines, users, tokens and errors: the fingerprint that
\* RefreshToken computes behind a proxy is the one the login computed, by email or through
\* a provider, and the one every rotation since has kept.
THEOREM ProxiedAreRecognised == SessionsSpec => []ProxiedNeverMismatch
<1>1. SessionsInv => ProxiedNeverMismatch
  BY DEF SessionsInv, HandlerOK, ProxiedNeverMismatch
<1> QED BY <1>1, SessionsInvariance, PTL

\* For any lifetime of access tokens and any delay of requests: RequireWorkspaceRole lets
\* nobody in on a role that was lost longer ago than the two together.
THEOREM RolesAreRecent == SessionsSpec => []AuthorizedRecently
<1>1. ASSUME SessionsInv PROVE AuthorizedRecently
  <2> SUFFICES ASSUME NEW b \in Browsers, NEW min \in Roles, RequireWorkspaceRole(b, min)
               PROVE  \E r \in Roles : /\ isRoleSufficient(r, min)
                                       /\ aged[jar[b].at.user][r] < AccessTTL + MaxDelay
    BY DEF AuthorizedRecently
  <2>1. jar[b].at.life > 0 /\ isRoleSufficient(jar[b].at.role, min)
    BY SMTT(30), Z3 DEF RequireWorkspaceRole, Validate
  <2>2. jar[b].at.role # NoRole
    BY <2>1 DEF isRoleSufficient, roleHierarchy, NoRole
  <2>3. jar[b].at \in AccessToken /\ JarOK(b)
    BY <1>1, SMTT(30), Z3 DEF SessionsInv, SessionsTypeOK
  <2>4. aged[jar[b].at.user][jar[b].at.role] + jar[b].at.life <= AccessTTL + MaxDelay
    BY <2>1, <2>2, <2>3 DEF JarOK, LongAgo
  <2>5. jar[b].at.user \in Users /\ jar[b].at.role \in Roles /\ jar[b].at.life \in Nat
    BY <2>3, AccessFacts
  <2>6. aged[jar[b].at.user][jar[b].at.role] \in Nat
    BY <1>1, <2>5, SessionsAssumption, SMTT(30), Z3 DEF SessionsInv, SessionsTypeOK, LongAgo
  <2>7. AccessTTL + MaxDelay \in Nat
    BY SessionsAssumption, SMTT(30), Z3
  <2>8. aged[jar[b].at.user][jar[b].at.role] < AccessTTL + MaxDelay
    BY <2>1, <2>4, <2>5, <2>6, <2>7, LifeLeft
  <2> QED BY <2>1, <2>5, <2>8
<1> QED BY <1>1, SessionsInvariance, PTL

(***************************************************************************)
(* What a logout ends.                                                     *)
(***************************************************************************)

\* Where a goroutine stands in a call of Revoke or RevokeAll.
Revoking == {"revokeExec", "revokeAll", "revokeAllExec"}

Logouts == {"logout", "logoutAll"}

\* An index is complete, but for the tokens that have lost their entry, ...
Listed == \A t \in stored \ unlisted : Live(t) => t \in index[data[t].user].members

\* ... and outlives the tokens from logins that it lists.
LoginsCovered ==
  \A u \in Users : \A t \in index[u].members :
    data[t].parent = NoToken => life[t] <= index[u].life

\* What is to be revoked is found; what enforceMaxSessions takes from the index is gone,
\* or a call to Redis has failed.
Targets(c) ==
  LET r == req[c]
  IN  /\ r.pc = "srem" => faults > 0 \/ ~Live(r.tok)
      /\ r.pc = "revokeExec" => r.targets = {}
      /\ r.pc \in {"revokeAll", "revokeAllExec"} =>
           r.tok = NoToken /\ r.targets \subseteq Written(r.user)
      /\ r.pc = "revokeAllExec" => \A t \in r.targets \ unlisted : Live(t) => t \in r.hashes
      /\ h[c].op \in Logouts => r.pc \in Revoking

LogoutInv == Listed /\ LoginsCovered /\ \A c \in Clients : Targets(c)

\* The steps of the handlers as the store sees them: a call begins, ...
Begins(c) ==
  /\ h[c].op = "none" /\ \A d \in Clients \ {c} : req'[d] = req[d] /\ h'[d] = h[d]
  /\ UNCHANGED <<life, index, stored, faults, unlisted>>
  /\ \A t \in 1..Len(data) : data'[t] = data[t]
  /\ \/ req'[c].pc \in Pending /\ h'[c].op \notin Logouts
     \/ req'[c].pc = "revokeExec" /\ req'[c].targets = {}
     \/ /\ req'[c].pc = "revokeAll" /\ req'[c].tok = NoToken
        /\ req'[c].targets = LiveOf(req'[c].user)

\* ... goes on or returns, ...
Continues(c) ==
  /\ StoreStep(c) /\ \A d \in Clients \ {c} : h'[d] = h[d]
  /\ \/ ~Returns(c) /\ h'[c] = h[c]
     \/ Returns(c) /\ h'[c].op \notin Logouts

\* ... or the store is not concerned.
Elsewhere ==
  /\ UNCHANGED <<vars, unlisted>>
  /\ \A c \in Clients : h'[c].op = h[c].op \/ (h[c].op \notin Logouts /\ h'[c].op \notin Logouts)

\* A request that starts a transaction.
LEMMA RequestBegins ==
  ASSUME TypeOK, NEW c \in Clients, NEW u, NEW t, NEW n, NEW S
  PROVE  /\ req' = [req EXCEPT ![c] = [Idle EXCEPT !.pc = "issueExec", !.user = u, !.new = n]] =>
              req'[c].pc = "issueExec" /\ \A d \in Clients \ {c} : req'[d] = req[d]
         /\ req' = [req EXCEPT ![c] = [Idle EXCEPT !.pc = "rotateExec", !.user = u, !.tok = t, !.new = n]] =>
              req'[c].pc = "rotateExec" /\ \A d \in Clients \ {c} : req'[d] = req[d]
         /\ req' = [req EXCEPT ![c] = [Idle EXCEPT !.pc = "revokeExec", !.user = u, !.tok = t]] =>
              /\ req'[c].pc = "revokeExec" /\ req'[c].targets = {}
              /\ \A d \in Clients \ {c} : req'[d] = req[d]
         /\ req' = [req EXCEPT ![c] = [Idle EXCEPT !.pc = "revokeAll", !.user = u, !.targets = S]] =>
              /\ req'[c].pc = "revokeAll" /\ req'[c].tok = NoToken /\ req'[c].user = u
              /\ req'[c].targets = S /\ \A d \in Clients \ {c} : req'[d] = req[d]
<1>1. ASSUME NEW r, req' = [req EXCEPT ![c] = r]
      PROVE  req'[c] = r /\ \A d \in Clients \ {c} : req'[d] = req[d]
  BY <1>1 DEF TypeOK
<1>2. [Idle EXCEPT !.pc = "issueExec", !.user = u, !.new = n].pc = "issueExec"
  BY DEF Idle
<1>3. [Idle EXCEPT !.pc = "rotateExec", !.user = u, !.tok = t, !.new = n].pc = "rotateExec"
  BY DEF Idle
<1>4. /\ [Idle EXCEPT !.pc = "revokeExec", !.user = u, !.tok = t].pc = "revokeExec"
      /\ [Idle EXCEPT !.pc = "revokeExec", !.user = u, !.tok = t].targets = {}
  BY DEF Idle
<1>5. /\ [Idle EXCEPT !.pc = "revokeAll", !.user = u, !.targets = S].pc = "revokeAll"
      /\ [Idle EXCEPT !.pc = "revokeAll", !.user = u, !.targets = S].tok = NoToken
      /\ [Idle EXCEPT !.pc = "revokeAll", !.user = u, !.targets = S].user = u
      /\ [Idle EXCEPT !.pc = "revokeAll", !.user = u, !.targets = S].targets = S
  BY DEF Idle
<1> QED BY <1>1, <1>2, <1>3, <1>4, <1>5

\* Every step is one of these.
LEMMA SessionsSteps ==
  ASSUME SessionsInv, [SessionsNext]_allVars
  PROVE  \/ \E c \in Clients : Begins(c) \/ Continues(c)
         \/ Elsewhere
         \/ Expires
<1>0. /\ Inv /\ TypeOK /\ h \in [Clients -> Handlers]
      /\ \A t \in 1..Len(data) : data[t] = data[t]
  BY DEF SessionsInv, SessionsTypeOK, Handlers
<1>1. ASSUME NEW c \in Clients, NEW b, NEW op, NEW u, NEW r, NEW claims, Begin(c, b, op, u, r, claims)
      PROVE  h'[c].op = op /\ \A d \in Clients \ {c} : h'[d] = h[d]
  <2> DEFINE x == [NoHandler EXCEPT !.op = op, !.b = b, !.user = u, !.role = r, !.claims = claims]
  <2>1. x.op = op
    BY DEF NoHandler
  <2>2. h' = [h EXCEPT ![c] = x]
    BY <1>1 DEF Begin
  <2> HIDE DEF x
  <2> QED BY <1>0, <2>1, <2>2
<1>2. ASSUME NEW c \in Clients, NEW b \in Browsers, NEW u \in Users, NEW r \in Roles,
             issueTokenResponse(c, b, u, r) \/ issueTokensAndRedirect(c, b, u, r)
      PROVE  Begins(c)
  <2>1. PICK f, op : /\ h[c].op = "none" /\ IssueFor(c, u, f) /\ op \notin Logouts
                     /\ Begin(c, b, op, u, r, FALSE) /\ UNCHANGED unlisted
    <3>1. "otp" \notin Logouts /\ "oauth" \notin Logouts
      BY DEF Logouts
    <3> QED BY <1>2, <3>1 DEF issueTokenResponse, issueTokensAndRedirect
  <2>2. /\ Generate(u, f, NoToken) /\ UNCHANGED <<life, index, stored, faults>>
        /\ req' = [req EXCEPT ![c] = [Idle EXCEPT !.pc = "issueExec", !.user = u, !.new = NextToken]]
    BY <2>1 DEF IssueFor
  <2>3. \A t \in 1..Len(data) : data'[t] = data[t]
    BY <1>0, <2>2, SMTT(30), Z3 DEF Generate, TypeOK
  <2>4. req'[c].pc = "issueExec" /\ \A d \in Clients \ {c} : req'[d] = req[d]
    BY <1>0, <2>2, RequestBegins
  <2>5. h'[c].op = op /\ \A d \in Clients \ {c} : h'[d] = h[d]
    BY <1>1, <2>1
  <2> QED BY <2>1, <2>2, <2>3, <2>4, <2>5 DEF Begins, Pending
<1>3. ASSUME NEW c \in Clients, NEW u, NEW op, BeginRevokeAll(c, u), h[c].op = "none", h'[c].op = op,
             \A d \in Clients \ {c} : h'[d] = h[d],
             UNCHANGED <<data, life, index, stored, faults, unlisted>>
      PROVE  Begins(c)
  <2>1. /\ req'[c].pc = "revokeAll" /\ req'[c].tok = NoToken /\ req'[c].user = u
        /\ req'[c].targets = LiveOf(u) /\ \A d \in Clients \ {c} : req'[d] = req[d]
    BY <1>0, <1>3, RequestBegins DEF BeginRevokeAll
  <2> QED BY <1>3, <2>1 DEF Begins
<1>4. ASSUME NEW c \in Clients, NEW b \in Browsers, NEW claims \in BOOLEAN, RefreshToken(c, b, claims)
      PROVE  Begins(c)
  <2>1. PICK t, f, u : /\ h[c].op = "none" /\ RotateWith(c, t, f) /\ UNCHANGED unlisted
                       /\ Begin(c, b, "refresh", u, NoRole, claims)
    BY <1>4 DEF RefreshToken
  <2>2. h'[c].op = "refresh" /\ \A d \in Clients \ {c} : h'[d] = h[d]
    BY <1>1, <2>1
  <2>3. UNCHANGED <<life, index, stored, faults, unlisted>>
    BY <2>1 DEF RotateWith
  <2>4. CASE BeginRevokeAll(c, data[t].user) /\ UNCHANGED data
    BY <1>3, <2>1, <2>2, <2>3, <2>4
  <2>5. CASE /\ Generate(data[t].user, f, t)
             /\ req' = [req EXCEPT ![c] = [Idle EXCEPT !.pc = "rotateExec", !.user = data[t].user,
                                                       !.tok = t, !.new = NextToken]]
    <3>1. \A s \in 1..Len(data) : data'[s] = data[s]
      BY <1>0, <2>5, SMTT(30), Z3 DEF Generate, TypeOK
    <3>2. req'[c].pc = "rotateExec" /\ \A d \in Clients \ {c} : req'[d] = req[d]
      BY <1>0, <2>5, RequestBegins
    <3> QED BY <2>1, <2>2, <2>3, <3>1, <3>2 DEF Begins, Pending, Logouts
  <2> QED BY <2>1, <2>4, <2>5 DEF RotateWith
<1>5. ASSUME NEW c \in Clients, NEW b \in Browsers, NEW claims \in BOOLEAN, Logout(c, b, claims)
      PROVE  Begins(c) \/ Elsewhere
  <2>1. CASE /\ RevokeToken(c, jar[b].rt) /\ Begin(c, b, "logout", jar[b].at.user, NoRole, claims)
    <3>1. /\ req' = [req EXCEPT ![c] = [Idle EXCEPT !.pc = "revokeExec", !.user = data[jar[b].rt].user,
                                                    !.tok = jar[b].rt]]
          /\ UNCHANGED <<data, life, index, stored, faults>>
      BY <2>1 DEF RevokeToken
    <3>2. /\ req'[c].pc = "revokeExec" /\ req'[c].targets = {}
          /\ \A d \in Clients \ {c} : req'[d] = req[d]
      BY <1>0, <3>1, RequestBegins
    <3>3. \A d \in Clients \ {c} : h'[d] = h[d]
      BY <1>1, <2>1
    <3> QED BY <1>5, <3>1, <3>2, <3>3 DEF Begins, Logout
  <2>2. CASE UNCHANGED <<vars, h>>
    BY <1>5, <2>2 DEF Elsewhere, Logout
  <2> QED BY <1>5, <2>1, <2>2 DEF Logout
<1>6. ASSUME NEW c \in Clients, NEW b \in Browsers, LogoutAll(c, b) PROVE Begins(c)
  <2>1. /\ BeginRevokeAll(c, jar[b].at.user) /\ Begin(c, b, "logoutAll", jar[b].at.user, NoRole, TRUE)
        /\ h[c].op = "none" /\ UNCHANGED <<data, life, index, stored, faults, unlisted>>
    BY <1>6 DEF LogoutAll, RevokeAllOf
  <2> QED BY <1>1, <1>3, <2>1
<1>7. ASSUME NEW c \in Clients, NEW b \in Browsers, HTTPLogout(c, b) PROVE Elsewhere
  <2>1. ~PathMatch(RefreshCookiePath, "/auth/logout")
    BY SMTT(30), Z3 DEF PathMatch, RefreshCookiePath
  <2> QED BY <1>7, <2>1 DEF HTTPLogout, Elsewhere
<1>8. ASSUME NEW c \in Clients, Handle(c) PROVE Continues(c) \/ Elsewhere
  <2>1. End(c) => h'[c].op = "none" /\ \A d \in Clients \ {c} : h'[d] = h[d]
    BY <1>0, EndFacts
  <2>2. ASSUME NEW n PROVE h' = [h EXCEPT ![c].op = "user", ![c].new = n] =>
                             h'[c].op = "user" /\ \A d \in Clients \ {c} : h'[d] = h[d]
    BY <1>0, SMTT(30), Z3 DEF Handlers
  <2>3. h' = [h EXCEPT ![c].op = "sign"] =>
          h'[c].op = "sign" /\ \A d \in Clients \ {c} : h'[d] = h[d]
    BY <1>0, SMTT(30), Z3 DEF Handlers
  <2>4. CASE Working(c)
    BY <2>4 DEF Working, Continues
  <2>5. CASE LoginReturns(c) \/ LogoutReturns(c)
    BY <2>1, <2>5 DEF LoginReturns, LogoutReturns, Continues, Logouts
  <2>6. CASE RotateReturns(c)
    <3>1. /\ StoreStep(c) /\ Returns(c)
          /\ End(c) \/ \E n : h' = [h EXCEPT ![c].op = "user", ![c].new = n]
      BY <2>6 DEF RotateReturns
    <3> QED BY <2>1, <2>2, <3>1 DEF Continues, Logouts
  <2>7. CASE GetByID(c)
    BY <2>1, <2>3, <2>7 DEF GetByID, Elsewhere, Logouts
  <2>8. CASE Sign(c)
    BY <2>1, <2>8 DEF Sign, Elsewhere, Logouts
  <2> QED BY <1>8, <2>4, <2>5, <2>6, <2>7, <2>8 DEF Handle
<1>9. ASSUME SessionsTick PROVE Elsewhere
  <2>1. UNCHANGED <<vars, unlisted>>
    BY <1>9 DEF SessionsTick
  <2>2. \A c \in Clients : h'[c].op = h[c].op
    BY <1>0, <1>9, SMTT(30), Z3 DEF SessionsTick, Handlers
  <2> QED BY <2>1, <2>2 DEF Elsewhere
<1>10. ASSUME NEW u \in Users, RemoveMember(u) \/ \E r \in Roles : Upsert(u, r) PROVE Elsewhere
  BY <1>10 DEF RemoveMember, Upsert, SetRole, Elsewhere
<1>11. UNCHANGED allVars => Elsewhere
  BY DEF allVars, sessionVars, Elsewhere
<1> QED BY <1>2, <1>4, <1>5, <1>6, <1>7, <1>8, <1>9, <1>10, <1>11 DEF SessionsNext

\* A call of Revoke or RevokeAll goes on, or fails.
LEMMA RevokingSteps ==
  ASSUME Inv, NEW c \in Clients, StoreStep(c)
  PROVE  /\ req[c].pc \in Revoking =>
              \/ RevokeExec(c) \/ RevokeAllSMembers(c) \/ RevokeAllExec(c)
              \/ Return(c) /\ Fault
         /\ req[c].pc \notin Revoking => req[c].pc \in Issuing \cup {"rotateExec"}
<1>1. \/ IssueExec(c) \/ EnforceSCard(c) \/ EnforceSMembers(c) \/ EnforceGet(c) \/ EnforceSRem(c)
      \/ EnforceEvict(c) \/ EnforceDone(c) \/ RotateExec(c) \/ EnforceFails(c) \/ EnforceGetFails(c)
      \/ EnforceWriteFails(c)
      => req[c].pc \in Issuing \cup {"rotateExec"} /\ req[c].pc \notin Revoking
  BY DEF IssueExec, EnforceSCard, EnforceSMembers, EnforceGet, EnforceSRem, EnforceEvict, EnforceDone,
         RotateExec, EnforceFails, EnforceGetFails, EnforceWriteFails, Issuing, Revoking
<1>2. RevokeAllSMembers(c) \/ RevokeAllExec(c) \/ RevokeExec(c) => req[c].pc \in Revoking
  BY DEF RevokeAllSMembers, RevokeAllExec, RevokeExec, Revoking
<1>3. CallFails(c) \/ ReplyLost(c) =>
        Return(c) /\ Fault /\ req[c].pc \in Revoking \cup Issuing \cup {"rotateExec"}
  BY DEF CallFails, ReplyLost, Revoking, Issuing
<1> QED BY <1>1, <1>2, <1>3 DEF StoreStep, Serve

\* RevokeAll reads the index.
LEMMA SnapshotTaken ==
  ASSUME Inv, NEW c \in Clients, RevokeAllSMembers(c)
  PROVE  \/ index[req[c].user].members = {} /\ Return(c)
         \/ /\ req'[c].pc = "revokeAllExec" /\ req'[c].user = req[c].user
            /\ req'[c].tok = req[c].tok /\ req'[c].targets = req[c].targets
            /\ req'[c].hashes = index[req[c].user].members
<1>1. req[c] \in Request /\ req \in [Clients -> Request]
  BY DEF Inv, TypeOK
<1> DEFINE hashes == index[req[c].user].members
<1>2. \/ hashes = {} /\ Return(c)
      \/ req' = [req EXCEPT ![c].pc = "revokeAllExec", ![c].hashes = hashes]
  BY DEF RevokeAllSMembers
<1> HIDE DEF hashes
<1>3. ASSUME req' = [req EXCEPT ![c].pc = "revokeAllExec", ![c].hashes = hashes]
      PROVE  /\ req'[c].pc = "revokeAllExec" /\ req'[c].user = req[c].user
             /\ req'[c].tok = req[c].tok /\ req'[c].targets = req[c].targets
             /\ req'[c].hashes = hashes
  BY <1>1, <1>3, SMTT(30), Z3 DEF Request
<1> QED BY <1>2, <1>3 DEF hashes

\* A hash is removed from the index because its token was not found, until Redis fails.
LEMMA MissingFound ==
  ASSUME Inv, NEW c \in Clients, StoreStep(c), req'[c].pc = "srem"
  PROVE  Fault \/ (life' = life /\ ~Live(req'[c].tok))
<1>0. TypeOK
  BY DEF Inv
<1>1. Return(c) => req'[c].pc = "idle"
  BY <1>0, Moves
<1>2. \A pc : Goto(c, pc) => req'[c].pc = pc
  BY <1>0, Moves
<1>3. ASSUME EnforceGet(c) PROVE life' = life /\ ~Live(req'[c].tok)
  <2>1. PICK s : \/ req' = [req EXCEPT ![c].hashes = @ \ {s}, ![c].tokens = @ \cup {s}]
                 \/ /\ ~Live(s)
                    /\ req' = [req EXCEPT ![c].hashes = @ \ {s}, ![c].tok = s, ![c].pc = "srem"]
    BY <1>3 DEF EnforceGet
  <2>2. req[c].pc = "get" /\ life' = life
    BY <1>3 DEF EnforceGet
  <2>3. req' = [req EXCEPT ![c].hashes = @ \ {s}, ![c].tokens = @ \cup {s}] => req'[c].pc = req[c].pc
    BY <1>0, Updates
  <2>4. req' = [req EXCEPT ![c].hashes = @ \ {s}, ![c].tok = s, ![c].pc = "srem"] => req'[c].tok = s
    BY <1>0, Updates
  <2> QED BY <2>1, <2>2, <2>3, <2>4
<1>4. ~EnforceSMembers(c)
  <2>1. EnforceSMembers(c) => req'[c].pc = "get"
    BY <1>0, Updates DEF EnforceSMembers
  <2> QED BY <2>1
<1>5. ~EnforceEvict(c)
  <2>1. EnforceEvict(c) => req[c].pc = "get" /\ \E t : req' = [req EXCEPT ![c].tokens = @ \ {t}]
    BY DEF EnforceEvict
  <2>2. \A t : req' = [req EXCEPT ![c].tokens = @ \ {t}] => req'[c].pc = req[c].pc
    BY <1>0, Updates
  <2> QED BY <2>1, <2>2
<1>6. ~RevokeAllSMembers(c)
  BY <1>1, SnapshotTaken
<1>7. ~(\/ IssueExec(c) \/ EnforceSCard(c) \/ EnforceSRem(c) \/ EnforceDone(c)
        \/ RevokeAllExec(c) \/ RotateExec(c) \/ RevokeExec(c))
  BY <1>1, <1>2 DEF IssueExec, EnforceSCard, EnforceSRem, EnforceDone, RevokeAllExec, RotateExec,
                    RevokeExec, IssueReturn
<1>8. CallFails(c) \/ ReplyLost(c) \/ EnforceFails(c) \/ EnforceGetFails(c) \/ EnforceWriteFails(c)
      => Fault
  BY DEF CallFails, ReplyLost, EnforceFails, EnforceGetFails, EnforceWriteFails
<1> QED BY <1>3, <1>4, <1>5, <1>6, <1>7, <1>8 DEF StoreStep, Serve

\* The commands that change an index lose the token they name at most.
LEMMA IndexLoses ==
  ASSUME NEW ix \in Index, NEW t, NEW s
  PROVE  /\ ix.members \ {t} \subseteq SRem(ix, t).members
         /\ Expire(SAdd(ix, t)).members = ix.members \cup {t}
         /\ (ix.members \ {s}) \cup {t} \subseteq SAdd(SRem(ix, s), t).members
<1>1. ix.members \ {t} \subseteq SRem(ix, t).members
  BY DEF SRem
<1>2. ix.members \ {s} \subseteq SRem(ix, s).members
  BY DEF SRem
<1>3. SAdd(SRem(ix, s), t).members = SRem(ix, s).members \cup {t}
  BY DEF SAdd
<1>4. Expire(SAdd(ix, t)).members = ix.members \cup {t}
  BY IndexMembers
<1> QED BY <1>1, <1>2, <1>3, <1>4

\* The transaction of Issue writes one token, and an index that lasts as long.
LEMMA IssueWrites ==
  ASSUME Inv, NEW c \in Clients, NEW u, u = req[c].user, IssueTx(c), req[c].pc = "issueExec"
  PROVE  \E new \in Tokens \ stored :
           /\ data[new].user = u /\ stored' = stored \cup {new}
           /\ \A t \in Tokens \ {new} : life'[t] = life[t]
           /\ index'[u] = Expire(SAdd(index[u], new))
           /\ \A v \in Users \ {u} : index'[v] = index[v]
<1>0. TypeOK /\ RequestOK(c) /\ u \in Users /\ 1..Len(data) \subseteq Tokens
  BY DataRange DEF Inv, TypeOK, Request
<1>1. PICK new : new = req[c].new
  OBVIOUS
<1>2. new \in Tokens \ stored /\ data[new].user = u
  BY <1>0, <1>1 DEF RequestOK, Pending
<1>3. /\ life' = [life EXCEPT ![new] = TTL] /\ stored' = stored \cup {new}
      /\ index' = [index EXCEPT ![u] = Expire(SAdd(index[u], new))]
  BY <1>1 DEF IssueTx
<1>4. \A t \in Tokens \ {new} : life'[t] = life[t]
  BY <1>0, <1>3 DEF TypeOK
<1>5. index'[u] = Expire(SAdd(index[u], new)) /\ \A v \in Users \ {u} : index'[v] = index[v]
  BY <1>0, <1>3 DEF TypeOK
<1> QED BY <1>2, <1>3, <1>4, <1>5

\* The transaction of Rotate ends a token and writes its successor.
LEMMA RotateWrites ==
  ASSUME Inv, NEW c \in Clients, RotateTx(c), req[c].pc = "rotateExec",
         NEW u, u = req[c].user, NEW old, old = req[c].tok, NEW new, new = req[c].new
  PROVE  /\ old \in stored /\ new \in Tokens \ stored /\ stored' = stored \cup {new}
         /\ data[new].user = u /\ data[new].parent # NoToken
         /\ life'[old] = 0 /\ \A t \in Tokens \ {old, new} : life'[t] = life[t]
         /\ index'[u] = SAdd(SRem(index[u], old), new)
         /\ \A v \in Users \ {u} : index'[v] = index[v]
<1>0. TypeOK /\ RequestOK(c) /\ u \in Users /\ stored \subseteq Tokens /\ 1..Len(data) \subseteq Tokens
  BY DataRange DEF Inv, TypeOK, Request
<1>2. new \in Tokens \ stored /\ data[new].user = u /\ old \in stored /\ data[new].parent = old
  BY <1>0 DEF RequestOK, Pending
<1>3. /\ life' = [life EXCEPT ![old] = 0, ![new] = TTL] /\ stored' = stored \cup {new}
      /\ index' = [index EXCEPT ![u] = SAdd(SRem(index[u], old), new)]
  BY DEF RotateTx
<1>4. life'[old] = 0 /\ \A t \in Tokens \ {old, new} : life'[t] = life[t]
  <2>1. old # new /\ old \in Tokens
    BY <1>0, <1>2
  <2> QED BY <1>0, <1>3, <2>1 DEF TypeOK
<1>5. index'[u] = SAdd(SRem(index[u], old), new) /\ \A v \in Users \ {u} : index'[v] = index[v]
  BY <1>0, <1>3 DEF TypeOK
<1>6. data[new].parent # NoToken
  <2>1. NoToken \notin Tokens
    BY SMTT(30), Z3 DEF NoToken, Tokens
  <2> QED BY <1>0, <1>2, <2>1
<1> QED BY <1>2, <1>3, <1>4, <1>5, <1>6

\* Every other step of the store writes no token: it ends some and takes them out of an
\* index, takes one out, or deletes an index with the tokens of a snapshot.
LEMMA StoreCases ==
  ASSUME Inv, NEW c \in Clients, StoreStep(c), NEW u, u = req[c].user
  PROVE  \/ IssueTx(c) /\ req[c].pc = "issueExec"
         \/ RotateTx(c) /\ req[c].pc = "rotateExec"
         \/ UNCHANGED <<life, index, stored>>
         \/ /\ req[c].pc = "srem" /\ UNCHANGED <<life, stored>>
            /\ index' = [index EXCEPT ![u] = SRem(index[u], req[c].tok)]
         \/ /\ stored' = stored
            /\ \E t \in Tokens : /\ life' = [life EXCEPT ![t] = 0]
                                 /\ index' = [index EXCEPT ![u] = SRem(index[u], t)]
         \/ /\ req[c].pc = "revokeAllExec" /\ stored' = stored
            /\ life' = [t \in Tokens |-> IF t \in req[c].hashes THEN 0 ELSE life[t]]
            /\ index' = [index EXCEPT ![u] = Absent]
<1>0. RequestOK(c) /\ req[c] \in Request /\ stored \subseteq Tokens
  BY DEF Inv, TypeOK
<1>1. CASE EnforceEvict(c)
  <2>1. PICK t \in req[c].tokens : /\ life' = [life EXCEPT ![t] = 0]
                                   /\ index' = [index EXCEPT ![u] = SRem(index[u], t)]
    BY <1>1 DEF EnforceEvict, Oldest
  <2>2. t \in Tokens /\ stored' = stored
    BY <1>0, <1>1 DEF Request, EnforceEvict
  <2> QED BY <2>1, <2>2
<1>2. ASSUME RevokeTx(c), req[c].pc = "revokeExec", stored' = stored
      PROVE  \E t \in Tokens : /\ life' = [life EXCEPT ![t] = 0]
                               /\ index' = [index EXCEPT ![u] = SRem(index[u], t)]
  <2>1. req[c].tok \in Tokens
    BY <1>0, <1>2 DEF RequestOK
  <2> QED BY <1>2, <2>1 DEF RevokeTx
<1>3. CASE RevokeExec(c)
  BY <1>2, <1>3 DEF RevokeExec
<1>4. CASE RevokeAllExec(c)
  BY <1>4 DEF RevokeAllExec, RevokeAllTx
<1>5. CASE ReplyLost(c)
  BY <1>2, <1>5 DEF ReplyLost, RevokeAllTx
<1>6. CASE EnforceSRem(c)
  BY <1>6 DEF EnforceSRem
<1>7. CASE IssueExec(c) \/ RotateExec(c)
  BY <1>7 DEF IssueExec, RotateExec
<1>8. CASE \/ EnforceSCard(c) \/ EnforceSMembers(c) \/ EnforceGet(c) \/ EnforceDone(c)
           \/ RevokeAllSMembers(c) \/ CallFails(c) \/ EnforceFails(c) \/ EnforceGetFails(c)
           \/ EnforceWriteFails(c)
  BY <1>8 DEF EnforceSCard, EnforceSMembers, EnforceGet, EnforceDone, RevokeAllSMembers, CallFails,
              EnforceFails, EnforceGetFails, EnforceWriteFails
<1> QED BY <1>1, <1>3, <1>4, <1>5, <1>6, <1>7, <1>8 DEF StoreStep, Serve

\* A token that leaves an index and lives on does so in one of two ways.
LEMMA EntryLeaves ==
  ASSUME Inv, NEW c \in Clients, StoreStep(c), NEW v \in Users, NEW t \in index[v].members,
         t \notin index'[v].members, life'[t] > 0
  PROVE  /\ v = req[c].user /\ life'[t] = life[t]
         /\ \/ req[c].pc = "srem" /\ t = req[c].tok
            \/ req[c].pc = "revokeAllExec" /\ t \notin req[c].hashes
<1>1. PICK u : u = req[c].user
  OBVIOUS
<1>2. /\ u \in Users /\ index \in [Users -> Index] /\ index[u] \in Index /\ t \in Tokens
      /\ life \in [Tokens -> 0..TTL]
  <2>1. index \in [Users -> Index] /\ u \in Users /\ life \in [Tokens -> 0..TTL] /\ stored \subseteq Tokens
    BY <1>1 DEF Inv, TypeOK, Request
  <2>2. t \in stored
    BY DEF Inv, IndexOwned
  <2> QED BY <2>1, <2>2
<1>3. CASE IssueTx(c) /\ req[c].pc = "issueExec"
  <2>1. PICK new \in Tokens \ stored : /\ index'[u] = Expire(SAdd(index[u], new))
                                       /\ \A w \in Users \ {u} : index'[w] = index[w]
    BY <1>1, <1>3, IssueWrites
  <2>2. Expire(SAdd(index[u], new)).members = index[u].members \cup {new}
    BY <1>2, IndexLoses
  <2> QED BY <2>1, <2>2
<1>4. CASE RotateTx(c) /\ req[c].pc = "rotateExec"
  <2>0. PICK new, old : new = req[c].new /\ old = req[c].tok
    OBVIOUS
  <2>1. /\ life'[old] = 0 /\ index'[u] = SAdd(SRem(index[u], old), new)
        /\ \A w \in Users \ {u} : index'[w] = index[w]
    BY <1>1, <1>4, <2>0, RotateWrites, SMTT(30), Z3
  <2>2. index[u].members \ {old} \subseteq SAdd(SRem(index[u], old), new).members
    BY <1>2, IndexLoses
  <2>3. t = old
    BY <2>1, <2>2
  <2> QED BY <2>1, <2>3, NoneLeft
<1>5. ASSUME NEW s, index' = [index EXCEPT ![u] = SRem(index[u], s)] PROVE v = u /\ t = s
  <2>1. index'[u] = SRem(index[u], s) /\ \A w \in Users \ {u} : index'[w] = index[w]
    BY <1>2, <1>5
  <2>2. index[u].members \ {s} \subseteq index'[u].members
    BY <1>2, <2>1, IndexLoses
  <2> QED BY <2>1, <2>2
<1>6. CASE /\ req[c].pc = "srem" /\ UNCHANGED <<life, stored>>
           /\ index' = [index EXCEPT ![u] = SRem(index[u], req[c].tok)]
  BY <1>1, <1>5, <1>6
<1>7. CASE \E s \in Tokens : /\ life' = [life EXCEPT ![s] = 0]
                             /\ index' = [index EXCEPT ![u] = SRem(index[u], s)]
  <2>1. PICK s \in Tokens : /\ life' = [life EXCEPT ![s] = 0]
                            /\ index' = [index EXCEPT ![u] = SRem(index[u], s)]
    BY <1>7
  <2>2. t = s
    BY <1>5, <2>1
  <2> QED BY <1>2, <2>1, <2>2, NoneLeft
<1>8. CASE /\ req[c].pc = "revokeAllExec"
           /\ life' = [s \in Tokens |-> IF s \in req[c].hashes THEN 0 ELSE life[s]]
           /\ index' = [index EXCEPT ![u] = Absent]
  <2>1. v = u
    BY <1>2, <1>8
  <2>2. t \notin req[c].hashes /\ life'[t] = life[t]
    BY <1>2, <1>8, NoneLeft
  <2> QED BY <1>1, <1>8, <2>1, <2>2
<1>9. CASE UNCHANGED index
  BY <1>9
<1>10. \/ IssueTx(c) /\ req[c].pc = "issueExec"
       \/ RotateTx(c) /\ req[c].pc = "rotateExec"
       \/ UNCHANGED <<life, index, stored>>
       \/ /\ req[c].pc = "srem" /\ UNCHANGED <<life, stored>>
          /\ index' = [index EXCEPT ![u] = SRem(index[u], req[c].tok)]
       \/ /\ stored' = stored
          /\ \E s \in Tokens : /\ life' = [life EXCEPT ![s] = 0]
                               /\ index' = [index EXCEPT ![u] = SRem(index[u], s)]
       \/ /\ req[c].pc = "revokeAllExec" /\ stored' = stored
          /\ life' = [s \in Tokens |-> IF s \in req[c].hashes THEN 0 ELSE life[s]]
          /\ index' = [index EXCEPT ![u] = Absent]
  BY <1>1, StoreCases
<1> QED BY <1>3, <1>4, <1>6, <1>7, <1>8, <1>9, <1>10

\* Redis errors are counted.
LEMMA FaultsCounted ==
  ASSUME Inv, NEW c \in Clients, StoreStep(c)
  PROVE  /\ UNCHANGED faults \/ Fault
         /\ Fault => faults' > 0 /\ faults' # faults
<1>1. faults \in Nat
  BY SMTT(30), Z3 DEF Inv, TypeOK
<1>2. Fault => faults' > 0 /\ faults' # faults
  BY <1>1, SMTT(30), Z3 DEF Fault
<1>3. CallFails(c) \/ ReplyLost(c) \/ EnforceFails(c) \/ EnforceGetFails(c) \/ EnforceWriteFails(c)
      => Fault
  BY DEF CallFails, ReplyLost, EnforceFails, EnforceGetFails, EnforceWriteFails
<1>4. Serve(c) => UNCHANGED faults
  BY DEF Serve, IssueExec, EnforceSCard, EnforceSMembers, EnforceGet, EnforceSRem, EnforceEvict,
         EnforceDone, RevokeAllSMembers, RevokeAllExec, RotateExec, RevokeExec
<1> QED BY <1>2, <1>3, <1>4 DEF StoreStep

\* What the store has written carries a user, and is listed when it is written.
LEMMA NewListed ==
  ASSUME Inv, NEW c \in Clients, StoreStep(c)
  PROVE  /\ stored \subseteq stored' /\ \A t \in stored : ~(life[t] > 0) => ~(life'[t] > 0)
         /\ \A t \in stored' \ stored : t \in index'[data[t].user].members
<1>0. PICK u : u = req[c].user
  OBVIOUS
<1>1. index[u] \in Index
  BY <1>0 DEF Inv, TypeOK, Request
<1>2. stored \subseteq stored' /\ \A t \in stored : ~(life[t] > 0) => ~(life'[t] > 0)
  <2>1. [Next]_vars
    BY DEF StoreStep, Serve, Step, Next
  <2>2. stored \subseteq stored' /\ \A t \in stored : life[t] = 0 => life'[t] = 0
    BY <2>1, KeysOnlyDie
  <2>3. \A t \in stored : ~(life[t] > 0) => life[t] = 0
    BY ConstantsAssumption, SMTT(30), Z3 DEF Inv, TypeOK
  <2> QED BY <2>2, <2>3, NoneLeft
<1>3. CASE IssueTx(c) /\ req[c].pc = "issueExec"
  <2>1. PICK new \in Tokens \ stored : /\ data[new].user = u /\ stored' = stored \cup {new}
                                       /\ index'[u] = Expire(SAdd(index[u], new))
    BY <1>0, <1>3, IssueWrites
  <2>2. Expire(SAdd(index[u], new)).members = index[u].members \cup {new}
    BY <1>1, IndexLoses
  <2> QED BY <1>2, <2>1, <2>2
<1>4. CASE RotateTx(c) /\ req[c].pc = "rotateExec"
  <2>1. PICK new, old : new = req[c].new /\ old = req[c].tok
    OBVIOUS
  <2>2. /\ data[new].user = u /\ stored' = stored \cup {new}
        /\ index'[u] = SAdd(SRem(index[u], old), new)
    BY <1>0, <1>4, <2>1, RotateWrites, SMTT(30), Z3
  <2>3. new \in SAdd(SRem(index[u], old), new).members
    BY DEF SAdd
  <2> QED BY <1>2, <2>2, <2>3
<1>5. CASE stored' = stored
  BY <1>2, <1>5
<1> QED BY <1>0, <1>3, <1>4, <1>5, StoreCases

\* Tokens belong to users.
LEMMA OwnersAreUsers ==
  ASSUME Inv
  PROVE  stored \subseteq Tokens /\ \A t \in stored : data[t].user \in Users
<1>1. stored \subseteq 1..Len(data) /\ stored \subseteq Tokens /\ data \in Seq(TokenData)
  BY DEF Inv, StoreOK, TypeOK
<1>2. \A t \in 1..Len(data) : data[t] \in TokenData
  BY <1>1, SMTT(30), Z3
<1> QED BY <1>1, <1>2 DEF TokenData

\* An index stays complete: what leaves it alive is noted.
LEMMA ListedStep ==
  ASSUME Inv, Listed, NoteUnlisted, \A t \in stored : data'[t] = data[t],
         \A t \in stored : ~(life[t] > 0) => ~(life'[t] > 0),
         \A t \in stored' \ stored : t \in index'[data'[t].user].members
  PROVE  Listed'
<1> SUFFICES ASSUME NEW t \in stored', t \notin unlisted', life'[t] > 0
             PROVE  t \in index'[data'[t].user].members
  BY DEF Listed, Live
<1>1. CASE t \in stored
  <2>1. PICK u \in Users : u = data[t].user /\ u = data'[t].user /\ t \in Tokens
    BY <1>1, OwnersAreUsers
  <2>2. t \in index[u].members
    BY <1>1, <2>1 DEF Listed, Live, NoteUnlisted
  <2>3. ~\E v \in Users : t \in index[v].members \ index'[v].members
    BY <2>1 DEF NoteUnlisted, Live
  <2> QED BY <2>1, <2>2, <2>3
<1> QED BY <1>1

\* An index that is absent lists nothing.
LEMMA NoMembers == Absent.members = {}
  BY SMTT(30), Z3 DEF Absent

\* Where tokens are only deleted, those from logins stay covered.
LEMMA CoveredBySmaller ==
  ASSUME TypeOK, LoginsCovered, data' = data, NEW S,
         \A t \in Tokens : life'[t] \in {0, life[t]},
         \A v \in Users : index'[v] \in {index[v], Absent} \cup {SRem(index[v], t) : t \in S}
  PROVE  LoginsCovered'
<1> SUFFICES ASSUME NEW v \in Users, NEW t \in index'[v].members, data[t].parent = NoToken
             PROVE  life'[t] <= index'[v].life
  BY DEF LoginsCovered
<1>1. t \in index[v].members /\ index'[v].life = index[v].life
  <2>1. CASE index'[v] = index[v]
    BY <2>1
  <2>2. CASE index'[v] = Absent
    BY <2>2, NoMembers
  <2>3. ASSUME NEW s \in S, index'[v] = SRem(index[v], s)
        PROVE  t \in index[v].members /\ index'[v].life = index[v].life
    <3>1. ~(index[v].members \subseteq {s})
      <4>1. index[v].members \subseteq {s} => SRem(index[v], s) = Absent
        BY DEF SRem
      <4> QED BY <2>3, <4>1, NoMembers
    <3>2. SRem(index[v], s).members = index[v].members \ {s} /\ SRem(index[v], s).life = index[v].life
      BY <3>1, IndexFields
    <3> QED BY <2>3, <3>2
  <2> QED BY <2>1, <2>2, <2>3
<1>2. life[t] <= index[v].life /\ index[v].life \in Nat /\ t \in Tokens
  <2>1. index[v] \in Index
    BY DEF TypeOK
  <2>2. index[v].members \subseteq Tokens
    BY <2>1, SMTT(30), Z3 DEF Index, Absent
  <2> QED BY <1>1, <2>1, <2>2, IndexLife DEF LoginsCovered
<1>3. 0 <= index[v].life
  BY <1>2, SMTT(30), Z3
<1> QED BY <1>1, <1>2, <1>3

\* Issue gives the index the lifetime of the newest token; Rotate does not, and its
\* token is not from a login.
LEMMA CoveredStep ==
  ASSUME Inv, Inv', LoginsCovered, NEW c \in Clients, StoreStep(c)
  PROVE  LoginsCovered'
<1>0. PICK u : u = req[c].user
  OBVIOUS
<1>1. /\ TypeOK /\ TypeOK' /\ u \in Users /\ index \in [Users -> Index]
      /\ life \in [Tokens -> 0..TTL] /\ life' \in [Tokens -> 0..TTL]
      /\ \A v \in Users : index[v].members \subseteq stored /\ stored \subseteq Tokens
  BY <1>0 DEF Inv, TypeOK, Request, IndexOwned
<1>2. data' = data
  BY StoreStepFacts
<1>3. CASE IssueTx(c) /\ req[c].pc = "issueExec"
  <2>1. PICK new \in Tokens \ stored :
          /\ \A t \in Tokens \ {new} : life'[t] = life[t]
          /\ index'[u] = Expire(SAdd(index[u], new))
          /\ \A v \in Users \ {u} : index'[v] = index[v]
    BY <1>0, <1>3, IssueWrites
  <2>2. Expire(SAdd(index[u], new)).life = TTL
    BY DEF Expire, SAdd
  <2>3. \A t \in index'[u].members : life'[t] <= TTL
    <3>1. Expire(SAdd(index[u], new)).members = index[u].members \cup {new}
      BY <1>1, IndexLoses
    <3>2. index'[u].members \subseteq Tokens
      BY <1>1, <2>1, <3>1
    <3> QED BY <1>1, <3>2, Lifetimes
  <2>4. ASSUME NEW v \in Users \ {u}, NEW t \in index[v].members, data[t].parent = NoToken
        PROVE  life'[t] <= index[v].life
    <3>1. life'[t] = life[t]
      BY <1>1, <2>1
    <3> QED BY <2>4, <3>1 DEF LoginsCovered
  <2> QED BY <1>2, <2>1, <2>2, <2>3, <2>4 DEF LoginsCovered
<1>4. CASE RotateTx(c) /\ req[c].pc = "rotateExec"
  <2>1. PICK new, old : new = req[c].new /\ old = req[c].tok
    OBVIOUS
  <2>2. /\ new \notin stored /\ data[new].parent # NoToken
        /\ life'[old] = 0 /\ \A t \in Tokens \ {old, new} : life'[t] = life[t]
        /\ index'[u] = SAdd(SRem(index[u], old), new)
        /\ \A v \in Users \ {u} : index'[v] = index[v]
    BY <1>0, <1>4, <2>1, RotateWrites, SMTT(30), Z3
  <2>3. \A v \in Users : \A t \in index[v].members :
           data[t].parent = NoToken => life'[t] <= index[v].life
    <3> SUFFICES ASSUME NEW v \in Users, NEW t \in index[v].members, data[t].parent = NoToken
                 PROVE  life'[t] <= index[v].life
      OBVIOUS
    <3>1. life'[t] \in {0, life[t]} /\ life[t] <= index[v].life
      BY <1>1, <2>2 DEF LoginsCovered
    <3>2. index[v].life \in Nat
      BY <1>1, IndexLife
    <3>3. 0 <= index[v].life
      BY <3>2, SMTT(30), Z3
    <3> QED BY <3>1, <3>3
  <2>4. ASSUME NEW t \in index'[u].members, data[t].parent = NoToken
        PROVE  t \in index[u].members /\ index'[u].life = index[u].life
    <3>1. t \in SRem(index[u], old).members
      <4>1. SAdd(SRem(index[u], old), new).members = SRem(index[u], old).members \cup {new}
        BY DEF SAdd
      <4> QED BY <2>2, <2>4, <4>1
    <3>2. ~(index[u].members \subseteq {old})
      <4>1. index[u].members \subseteq {old} => SRem(index[u], old) = Absent
        BY DEF SRem
      <4> QED BY <3>1, <4>1, NoMembers
    <3>3. SRem(index[u], old).members = index[u].members \ {old} /\ SRem(index[u], old).life = index[u].life
      BY <3>2, IndexFields
    <3>4. SAdd(SRem(index[u], old), new).life = SRem(index[u], old).life
      BY <3>1 DEF SAdd
    <3> QED BY <2>2, <3>1, <3>3, <3>4
  <2> QED BY <1>2, <2>2, <2>3, <2>4 DEF LoginsCovered
<1>5. CASE UNCHANGED <<life, index>>
  BY <1>2, <1>5 DEF LoginsCovered
<1>6. ASSUME NEW s, index' = [index EXCEPT ![u] = SRem(index[u], s)],
             \A t \in Tokens : life'[t] \in {0, life[t]}
      PROVE  LoginsCovered'
  <2>1. PICK S : S = {s}
    OBVIOUS
  <2>2. \A v \in Users : index'[v] \in {index[v], Absent} \cup {SRem(index[v], t) : t \in S}
    BY <1>1, <1>6, <2>1
  <2> QED BY <1>1, <1>2, <1>6, <2>2, CoveredBySmaller
<1>7. CASE UNCHANGED life /\ index' = [index EXCEPT ![u] = SRem(index[u], req[c].tok)]
  <2>1. \A t \in Tokens : life'[t] \in {0, life[t]}
    BY <1>7
  <2> QED BY <1>6, <1>7, <2>1
<1>8. CASE \E t \in Tokens : /\ life' = [life EXCEPT ![t] = 0]
                             /\ index' = [index EXCEPT ![u] = SRem(index[u], t)]
  <2>1. PICK s \in Tokens : /\ life' = [life EXCEPT ![s] = 0]
                            /\ index' = [index EXCEPT ![u] = SRem(index[u], s)]
    BY <1>8
  <2>2. \A t \in Tokens : life'[t] \in {0, life[t]}
    BY <1>1, <2>1
  <2> QED BY <1>6, <2>1, <2>2
<1>9. CASE /\ life' = [t \in Tokens |-> IF t \in req[c].hashes THEN 0 ELSE life[t]]
           /\ index' = [index EXCEPT ![u] = Absent]
  <2>1. PICK S : S = {}
    OBVIOUS
  <2>2. \A v \in Users : index'[v] \in {index[v], Absent} \cup {SRem(index[v], t) : t \in S}
    BY <1>1, <1>9
  <2>3. \A t \in Tokens : life'[t] \in {0, life[t]}
    BY <1>9
  <2> QED BY <1>1, <1>2, <2>2, <2>3, CoveredBySmaller
<1>10. \/ IssueTx(c) /\ req[c].pc = "issueExec"
       \/ RotateTx(c) /\ req[c].pc = "rotateExec"
       \/ UNCHANGED <<life, index, stored>>
       \/ /\ req[c].pc = "srem" /\ UNCHANGED <<life, stored>>
          /\ index' = [index EXCEPT ![u] = SRem(index[u], req[c].tok)]
       \/ /\ stored' = stored
          /\ \E s \in Tokens : /\ life' = [life EXCEPT ![s] = 0]
                               /\ index' = [index EXCEPT ![u] = SRem(index[u], s)]
       \/ /\ req[c].pc = "revokeAllExec" /\ stored' = stored
          /\ life' = [s \in Tokens |-> IF s \in req[c].hashes THEN 0 ELSE life[s]]
          /\ index' = [index EXCEPT ![u] = Absent]
  BY <1>0, StoreCases
<1> QED BY <1>3, <1>4, <1>5, <1>7, <1>8, <1>9, <1>10

\* What a goroutine has found stays found while others are at work.
LEMMA TargetsKept ==
  ASSUME SessionsInv, stored \subseteq stored', \A t \in 1..Len(data) : data'[t] = data[t],
         \A t \in stored : ~(life[t] > 0) => ~(life'[t] > 0), unlisted \subseteq unlisted',
         faults > 0 => faults' > 0, NEW d \in Clients, Targets(d), req'[d] = req[d],
         h'[d].op \in Logouts => h[d].op \in Logouts
  PROVE  Targets(d)'
<1>1. RequestOK(d) /\ stored \subseteq 1..Len(data)
  BY DEF SessionsInv, Inv, StoreOK
<1>2. \A u : Written(u) \subseteq Written(u)'
  BY <1>1 DEF Written
<1>3. req[d].pc = "srem" => faults' > 0 \/ ~(life'[req[d].tok] > 0)
  BY <1>1 DEF RequestOK, Targets, Live
<1>4. req[d].pc \in {"revokeAll", "revokeAllExec"} => req[d].targets \subseteq stored
  BY DEF Targets, Written
<1>5. req[d].pc = "revokeAllExec" =>
        \A t \in req[d].targets \ unlisted' : life'[t] > 0 => t \in req[d].hashes
  BY <1>4 DEF Targets, Live
<1>6. /\ req[d].pc = "revokeExec" => req[d].targets = {}
      /\ req[d].pc \in {"revokeAll", "revokeAllExec"} =>
           req[d].tok = NoToken /\ req[d].targets \subseteq Written(req[d].user)'
      /\ h'[d].op \in Logouts => req[d].pc \in Revoking
  BY <1>2 DEF Targets
<1> QED BY <1>3, <1>5, <1>6 DEF Targets, Live

\* A call of the store, going on or returning, keeps the invariant.
LEMMA ContinuesStep ==
  ASSUME SessionsInv, SessionsInv', LogoutInv, NEW c \in Clients, Continues(c)
  PROVE  LogoutInv'
<1>0. /\ Inv /\ Inv' /\ TypeOK /\ Listed /\ LoginsCovered /\ \A d \in Clients : Targets(d)
      /\ StoreStep(c) /\ NoteUnlisted /\ unlisted \subseteq unlisted'
  BY DEF SessionsInv, Inv, LogoutInv, Continues, StoreStep, NoteUnlisted
<1>1. /\ data' = data /\ \A d \in Clients \ {c} : req'[d] = req[d]
      /\ req[c].pc \in Issuing => req'[c].pc \in Issuing \cup {"idle"}
      /\ req[c].pc = "rotateExec" => req'[c].pc = "idle"
  BY <1>0, StoreStepFacts
<1>2. /\ stored \subseteq stored' /\ \A t \in stored : ~(life[t] > 0) => ~(life'[t] > 0)
      /\ \A t \in stored' \ stored : t \in index'[data[t].user].members
  BY <1>0, NewListed
<1>3. (UNCHANGED faults \/ faults' > 0) /\ (Fault => faults' > 0)
  BY <1>0, FaultsCounted
<1>4. Listed'
  BY <1>0, <1>1, <1>2, ListedStep
<1>5. LoginsCovered'
  BY <1>0, CoveredStep
<1>6. ASSUME NEW d \in Clients \ {c} PROVE Targets(d)'
  <2>1. h'[d] = h[d]
    BY DEF Continues
  <2> QED BY <1>0, <1>1, <1>2, <1>3, <2>1, TargetsKept
<1>7. Targets(c)'
  <2>1. CASE Returns(c)
    BY <2>1 DEF Continues, Returns, Targets
  <2>2. CASE ~Returns(c) /\ req[c].pc \notin Revoking
    <3>1. req'[c].pc \in Issuing
      BY <1>0, <1>1, <2>2, RevokingSteps DEF Returns
    <3>2. h'[c].op \notin Logouts
      BY <1>0, <2>2 DEF Continues, Targets
    <3>3. req'[c].pc = "srem" => faults' > 0 \/ ~(life'[req'[c].tok] > 0)
      BY <1>0, <1>3, MissingFound DEF Live
    <3> QED BY <3>1, <3>2, <3>3 DEF Targets, Live, Issuing
  <2>3. CASE ~Returns(c) /\ req[c].pc \in Revoking
    <3>1. Return(c) => Returns(c)
      BY <1>0, Moves DEF Returns
    <3>2. RevokeAllSMembers(c)
      BY <1>0, <2>3, <3>1, RevokingSteps DEF RevokeExec, RevokeAllExec
    <3>3. /\ req'[c].pc = "revokeAllExec" /\ req'[c].user = req[c].user
          /\ req'[c].tok = req[c].tok /\ req'[c].targets = req[c].targets
          /\ req'[c].hashes = index[req[c].user].members
      BY <1>0, <2>3, <3>1, <3>2, SnapshotTaken
    <3>4. req[c].pc = "revokeAll" /\ UNCHANGED <<life, stored>>
      BY <3>2 DEF RevokeAllSMembers
    <3>5. req[c].tok = NoToken /\ req[c].targets \subseteq Written(req[c].user)
      BY <1>0, <3>4 DEF Targets
    <3>6. Written(req[c].user) \subseteq Written(req[c].user)'
      <4>1. PICK u : u = req[c].user /\ req'[c].user = u
        BY <3>3
      <4> QED BY <1>1, <3>3, <3>4, <4>1 DEF Written
    <3>7. \A t \in req[c].targets \ unlisted : life'[t] > 0 => t \in index[req[c].user].members
      BY <1>0, <3>4, <3>5 DEF Listed, Written, Live
    <3> QED BY <1>0, <3>3, <3>5, <3>6, <3>7 DEF Targets, Live, Revoking
  <2> QED BY <2>1, <2>2, <2>3
<1> QED BY <1>4, <1>5, <1>6, <1>7 DEF LogoutInv

\* What a call is to revoke is fixed when it begins.
LEMMA BeginsStep ==
  ASSUME SessionsInv, LogoutInv, NEW c \in Clients, Begins(c)
  PROVE  LogoutInv'
<1>0. /\ stored \subseteq 1..Len(data) /\ \A t \in stored : data'[t] = data[t]
      /\ UNCHANGED <<life, index, stored, faults, unlisted>>
      /\ \A d \in Clients \ {c} : req'[d] = req[d] /\ h'[d] = h[d]
      /\ Listed /\ LoginsCovered /\ \A d \in Clients : Targets(d)
  BY DEF SessionsInv, Inv, StoreOK, Begins, LogoutInv
<1>1. Listed'
  BY <1>0 DEF Listed, Live
<1>2. LoginsCovered'
  <2>1. \A u \in Users : index[u].members \subseteq stored
    BY DEF SessionsInv, Inv, IndexOwned
  <2> QED BY <1>0, <2>1 DEF LoginsCovered
<1>3. ASSUME NEW d \in Clients \ {c} PROVE Targets(d)'
  BY <1>0, TargetsKept DEF Begins
<1>4. Targets(c)'
  <2>1. CASE req'[c].pc \in Pending /\ h'[c].op \notin Logouts
    BY <2>1 DEF Targets, Pending
  <2>2. CASE req'[c].pc = "revokeExec" /\ req'[c].targets = {}
    BY <2>2 DEF Targets, Revoking
  <2>3. CASE /\ req'[c].pc = "revokeAll" /\ req'[c].tok = NoToken
             /\ req'[c].targets = LiveOf(req'[c].user)
    <3>1. PICK u : u = req'[c].user
      OBVIOUS
    <3>2. \A t \in 1..Len(data) : Live(t) => t \in stored
      <4>1. 1..Len(data) \subseteq Tokens
        BY DataRange DEF SessionsInv, Inv
      <4> QED BY <4>1 DEF SessionsInv, Inv, StoreOK
    <3>3. LiveOf(u) \subseteq Written(u)'
      BY <1>0, <3>2 DEF LiveOf, Written
    <3> QED BY <2>3, <3>1, <3>3 DEF Targets, Revoking
  <2> QED BY <2>1, <2>2, <2>3 DEF Begins
<1> QED BY <1>1, <1>2, <1>3, <1>4 DEF LogoutInv

\* The clock: an index that expires has outlived the tokens from logins that it lists.
LEMMA ClockCovers ==
  ASSUME Inv, LoginsCovered, Tick, NEW u \in Users, NEW t \in index[u].members,
         data[t].parent = NoToken, life'[t] > 0
  PROVE  t \in index'[u].members /\ life'[t] <= index'[u].life
<1>1. /\ index[u] \in Index /\ t \in Tokens /\ life[t] \in 0..TTL /\ index'[u] = Age(index[u])
  BY DEF Inv, TypeOK, IndexOwned, Tick
<1>2. index[u].life \in Nat /\ life[t] \in Nat /\ life[t] <= index[u].life
  BY <1>1, IndexLife, Lifetimes DEF LoginsCovered
<1>3. life'[t] = life[t] - 1
  BY <1>1, NoneLeft DEF Tick
<1>4. index[u].life # 1 /\ life[t] - 1 <= index[u].life /\ life[t] - 1 <= index[u].life - 1
  BY <1>2, <1>3, Shorter
<1>5. Age(index[u]).members = index[u].members
      /\ Age(index[u]).life \in {index[u].life, index[u].life - 1}
  BY <1>4, IndexFields
<1> QED BY <1>1, <1>3, <1>4, <1>5

\* The clock keeps the invariant.
LEMMA ExpiresStep ==
  ASSUME SessionsInv, SessionsInv', LogoutInv, Expires
  PROVE  LogoutInv'
<1>0. /\ Inv /\ TypeOK' /\ Tick /\ NoteUnlisted /\ UNCHANGED h /\ unlisted \subseteq unlisted'
      /\ UNCHANGED <<data, req, stored, faults>>
      /\ Listed /\ LoginsCovered /\ \A d \in Clients : Targets(d)
  BY DEF SessionsInv, Inv, Expires, Tick, NoteUnlisted, LogoutInv
<1>1. \A t \in stored : ~(life[t] > 0) => ~(life'[t] > 0)
  <2>1. stored \subseteq Tokens
    BY <1>0, OwnersAreUsers
  <2> QED BY <1>0, <2>1, SMTT(30), Z3 DEF Tick
<1>2. Listed'
  BY <1>0, <1>1, ListedStep
<1>3. LoginsCovered'
  <2> SUFFICES ASSUME NEW u \in Users, NEW t \in index'[u].members, data[t].parent = NoToken
               PROVE  life'[t] <= index'[u].life
    BY <1>0 DEF LoginsCovered
  <2>1. t \in index[u].members /\ t \in Tokens
    <3>1. index[u] \in Index /\ index'[u] = Age(index[u])
      BY <1>0 DEF Inv, TypeOK, Tick
    <3>2. t \in index[u].members
      BY <3>1, AgeFacts
    <3> QED BY <1>0, <3>2 DEF Inv, TypeOK, IndexOwned
  <2>2. CASE life'[t] > 0
    BY <1>0, <2>1, <2>2, ClockCovers
  <2>3. CASE life'[t] = 0
    <3>1. index'[u].life \in Nat
      BY <1>0, IndexLife DEF TypeOK
    <3>2. 0 <= index'[u].life
      BY <3>1, SMTT(30), Z3
    <3> QED BY <2>3, <3>2
  <2> QED BY <1>0, <2>1, <2>2, <2>3, Lifetimes DEF TypeOK
<1>4. \A d \in Clients : Targets(d)'
  BY <1>0, <1>1, TargetsKept
<1> QED BY <1>2, <1>3, <1>4 DEF LogoutInv

\* What handlers do next to the store does not matter.
LEMMA ElsewhereStep ==
  ASSUME SessionsInv, LogoutInv, Elsewhere
  PROVE  LogoutInv'
<1>0. UNCHANGED <<data, life, index, req, stored, faults, unlisted>>
  BY DEF Elsewhere, vars
<1>1. Listed' /\ LoginsCovered'
  BY <1>0 DEF Listed, Live, LoginsCovered, LogoutInv
<1>2. ASSUME NEW d \in Clients PROVE Targets(d)'
  <2>1. h'[d].op \in Logouts => h[d].op \in Logouts
    BY DEF Elsewhere
  <2> QED BY <1>0, <2>1, TargetsKept DEF LogoutInv
<1> QED BY <1>1, <1>2 DEF LogoutInv

\* Every step keeps the invariant.
LEMMA LogoutStep ==
  ASSUME SessionsInv, SessionsInv', LogoutInv, [SessionsNext]_allVars
  PROVE  LogoutInv'
BY SessionsSteps, BeginsStep, ContinuesStep, ElsewhereStep, ExpiresStep

\* The service starts with no call at work and no token written.
LEMMA LogoutStart == SessionsInit => LogoutInv
<1> SUFFICES ASSUME SessionsInit PROVE LogoutInv
  OBVIOUS
<1>1. /\ stored = {} /\ \A c \in Clients : req[c] = Idle /\ h[c].op = "none"
      /\ \A u \in Users : index[u] = Absent
  BY Nothing DEF SessionsInit, Init
<1>2. Listed /\ LoginsCovered
  BY <1>1, NoMembers DEF Listed, LoginsCovered
<1>3. \A c \in Clients : Targets(c)
  BY <1>1, IdleType DEF Targets, Logouts
<1> QED BY <1>2, <1>3 DEF LogoutInv

\* The inductive invariant behind the two theorems on logging out.
THEOREM LogoutInvariance == SessionsSpec => [](SessionsInv /\ LogoutInv)
<1>1. SessionsInv /\ SessionsInv' /\ LogoutInv /\ [SessionsNext]_allVars => LogoutInv'
  BY LogoutStep
<1> QED BY <1>1, LogoutStart, SessionsInvariance, PTL DEF SessionsSpec

\* A call of Revoke or RevokeAll that returns has deleted what it was to delete.
LEMMA RevokeReturns ==
  ASSUME SessionsInv, Listed, NEW c \in Clients, Targets(c), req[c].pc \in Revoking, StoreStep(c),
         Returns(c), ~Fault, NEW t \in (req[c].targets \ unlisted) \cup ({req[c].tok} \ {NoToken})
  PROVE  ~Live(t)'
<1>0. Inv /\ RequestOK(c) /\ life \in [Tokens -> 0..TTL] /\ stored \subseteq Tokens
  BY DEF SessionsInv, Inv, TypeOK
<1>1. CASE RevokeExec(c)
  <2>1. req[c].pc = "revokeExec" /\ life' = [life EXCEPT ![req[c].tok] = 0]
    BY <1>1 DEF RevokeExec, RevokeTx
  <2>2. t = req[c].tok /\ t \in Tokens
    BY <1>0, <2>1 DEF Targets, RequestOK
  <2> QED BY <1>0, <2>1, <2>2, NoneLeft DEF Live
<1>2. ASSUME req[c].pc \in {"revokeAll", "revokeAllExec"}
      PROVE  t \in req[c].targets \ unlisted /\ t \in Written(req[c].user)
  BY <1>2 DEF Targets
<1>3. CASE RevokeAllSMembers(c)
  <2>1. index[req[c].user].members = {} /\ req[c].pc = "revokeAll" /\ UNCHANGED life
    BY <1>0, <1>3, SnapshotTaken DEF RevokeAllSMembers, Returns
  <2>2. ~Live(t)
    BY <1>2, <2>1 DEF Listed, Written
  <2> QED BY <2>1, <2>2 DEF Live
<1>4. CASE RevokeAllExec(c)
  <2>1. /\ life' = [s \in Tokens |-> IF s \in req[c].hashes THEN 0 ELSE life[s]]
        /\ req[c].pc = "revokeAllExec"
    BY <1>4 DEF RevokeAllExec, RevokeAllTx
  <2>2. t \in Tokens /\ (life[t] > 0 => t \in req[c].hashes)
    BY <1>0, <1>2, <2>1 DEF Targets, Written, Live
  <2>3. life'[t] = 0 \/ (life'[t] = life[t] /\ t \notin req[c].hashes)
    BY <2>1, <2>2
  <2> QED BY <2>2, <2>3, NoneLeft DEF Live
<1> QED BY <1>0, <1>1, <1>3, <1>4, RevokingSteps

\* For any number of goroutines, users, clients, tokens and Redis errors: a token that is
\* valid when Logout is called with it, or LogoutAll for its owner, is not valid any more
\* when the handler answers, unless the call itself ran into an error or, with
\* LogoutAll, the token had lost its entry in the owner's index.
THEOREM LogoutEndsSessions == SessionsSpec => LogoutEnds
<1> DEFINE Ended == \A c \in Clients :
              faults' = faults /\ h[c].op \in {"logout", "logoutAll"} /\ h'[c].op = "none" =>
                \A t \in (req[c].targets \ unlisted) \cup ({req[c].tok} \ {NoToken}) : ~Live(t)'
<1>1. ASSUME SessionsInv, LogoutInv, [SessionsNext]_allVars PROVE Ended
  <2> SUFFICES ASSUME NEW c \in Clients, faults' = faults, h[c].op \in Logouts, h'[c].op = "none",
                      NEW t \in (req[c].targets \ unlisted) \cup ({req[c].tok} \ {NoToken})
               PROVE  ~Live(t)'
    BY DEF Logouts
  <2>1. Inv /\ Listed /\ Targets(c)
    BY <1>1 DEF SessionsInv, LogoutInv
  <2>2. StoreStep(c) /\ Returns(c)
    <3>1. h[c].op # "none" /\ h'[c].op # h[c].op
      BY DEF Logouts
    <3>2. ~Expires /\ ~Elsewhere
      BY <3>1 DEF Expires, Elsewhere
    <3>3. PICK d \in Clients : Begins(d) \/ Continues(d)
      BY <1>1, <3>2, SessionsSteps
    <3>4. d = c /\ Continues(c)
      BY <3>1, <3>3 DEF Begins, Continues
    <3> QED BY <3>1, <3>4 DEF Continues
  <2>3. ~Fault
    BY <2>1, <2>2, FaultsCounted
  <2> QED BY <1>1, <2>1, <2>2, <2>3, RevokeReturns DEF Targets
<1>2. SessionsInv /\ LogoutInv /\ [SessionsNext]_allVars => [Ended]_allVars
  BY <1>1
<1> QED BY <1>2, LogoutInvariance, PTL DEF SessionsSpec, LogoutEnds

\* For any number of goroutines, users, clients, tokens and Redis errors: a token that is
\* alive loses its index entry in three ways only.  The index of its owner expires before
\* it, which happens to rotated tokens alone; a RevokeAll called before the
\* token was written deletes the index with it; or enforceMaxSessions, to which a Redis
\* error has looked like an expired token, removes the entry.
THEOREM EntriesAreKept == SessionsSpec => EntryLost
<1> DEFINE Explained == \A t \in unlisted' \ unlisted :
              \/ UNCHANGED req /\ data[t].parent # NoToken
              \/ \E c \in Clients :
                   \/ req[c].pc = "revokeAllExec" /\ req[c].user = data[t].user /\ t \notin req[c].targets
                   \/ req[c].pc = "srem" /\ req[c].tok = t /\ faults > 0
<1>1. ASSUME SessionsInv, LogoutInv, [SessionsNext]_allVars PROVE Explained
  <2>0. Inv /\ LoginsCovered /\ \A c \in Clients : Targets(c)
    BY <1>1 DEF SessionsInv, LogoutInv
  <2> SUFFICES ASSUME NEW t \in unlisted' \ unlisted
               PROVE  \/ UNCHANGED req /\ data[t].parent # NoToken
                      \/ \E c \in Clients :
                           \/ /\ req[c].pc = "revokeAllExec" /\ req[c].user = data[t].user
                              /\ t \notin req[c].targets
                           \/ req[c].pc = "srem" /\ req[c].tok = t /\ faults > 0
    OBVIOUS
  <2>1. NoteUnlisted => \E u \in Users : t \in index[u].members /\ t \notin index'[u].members /\ life'[t] > 0
    BY DEF NoteUnlisted, Live
  <2>2. CASE Expires
    <3>1. PICK u \in Users : t \in index[u].members /\ t \notin index'[u].members /\ life'[t] > 0
      BY <2>1, <2>2 DEF Expires
    <3>2. Tick
      BY <2>2 DEF Expires
    <3>3. data[t].parent # NoToken
      BY <2>0, <3>1, <3>2, ClockCovers
    <3> QED BY <3>2, <3>3 DEF Tick
  <2>3. ASSUME NEW c \in Clients, Continues(c)
        PROVE  \/ req[c].pc = "revokeAllExec" /\ req[c].user = data[t].user /\ t \notin req[c].targets
               \/ req[c].pc = "srem" /\ req[c].tok = t /\ faults > 0
    <3>0. StoreStep(c) /\ NoteUnlisted
      BY <2>3 DEF Continues, StoreStep
    <3>1. PICK u \in Users : t \in index[u].members /\ t \notin index'[u].members /\ life'[t] > 0
      BY <2>1, <3>0
    <3>2. /\ u = req[c].user /\ life'[t] = life[t]
          /\ \/ req[c].pc = "srem" /\ t = req[c].tok
             \/ req[c].pc = "revokeAllExec" /\ t \notin req[c].hashes
      BY <2>0, <3>0, <3>1, EntryLeaves
    <3>3. data[t].user = u
      BY <2>0, <3>1 DEF Inv, IndexOwned
    <3>4. Live(t) /\ Targets(c)
      BY <2>0, <3>1, <3>2 DEF Live
    <3>5. req[c].pc = "srem" => faults > 0
      BY <3>2, <3>4 DEF Targets
    <3>6. req[c].pc = "revokeAllExec" /\ t \notin req[c].hashes => t \notin req[c].targets
      BY <3>4 DEF Targets
    <3> QED BY <3>2, <3>3, <3>5, <3>6
  <2>4. (\A c \in Clients : ~Begins(c)) /\ ~Elsewhere
    BY DEF Begins, Elsewhere
  <2> QED BY <1>1, <2>2, <2>3, <2>4, SessionsSteps
<1>2. SessionsInv /\ LogoutInv /\ [SessionsNext]_allVars => [Explained]_allVars
  BY <1>1
<1> QED BY <1>2, LogoutInvariance, PTL DEF SessionsSpec, EntryLost

(***************************************************************************)
(* How many tokens a user has.                                            *)
(***************************************************************************)

\* What the proofs need to know of cardinalities.  It is proved at the end, from the
\* library's theorems about finite sets.
Counting ==
  /\ Cardinality({}) = 0
  /\ \A S \in SUBSET Tokens : Cardinality(S) \in Nat
  /\ \A S \in SUBSET Tokens : \A R \in SUBSET S : Cardinality(R) <= Cardinality(S)
  /\ \A S \in SUBSET Tokens : \A t \in S : Cardinality(S \ {t}) = Cardinality(S) - 1

\* The tokens of t's owner that are younger than t.
Younger(t) == {s \in stored : s > t /\ data[s].user = data[t].user}

\* EnforceEvict deletes the oldest of more than MaxSessionsPerUser tokens.
LEMMA EvictedHasYounger ==
  ASSUME Counting, Inv, NEW c \in Clients, EnforceEvict(c)
  PROVE  \E t \in stored : /\ evicted' = evicted \cup {t}
                           /\ Cardinality(Younger(t)) >= MaxSessionsPerUser
  <1> DEFINE T == req[c].tokens
  <1>1. /\ req[c].pc = "get" /\ Cardinality(T) > MaxSessionsPerUser
        /\ \E t \in T : evicted' = evicted \cup {t} /\ \A s \in T : t <= s
    BY DEF EnforceEvict, Excess, Oldest
  <1>2. T \subseteq Tokens /\ stored \subseteq Tokens BY DEF Inv, TypeOK, Request
  <1>6. PICK t \in T : evicted' = evicted \cup {t} /\ \A s \in T : t <= s BY <1>1
  <1>7. T \subseteq Written(req[c].user) BY <1>1 DEF Inv, RequestOK, Enforcing
  <1> HIDE DEF T
  <1>8. T \ {t} \subseteq Younger(t)
    <2> SUFFICES ASSUME NEW s \in T, s # t PROVE s \in Younger(t) OBVIOUS
    <2>1. /\ s \in stored /\ data[s].user = req[c].user
          /\ data[t].user = req[c].user
      BY <1>6, <1>7 DEF Written
    <2>2. s \in Nat /\ t \in Nat /\ t <= s BY <1>2, <1>6, SMTT(30), Z3 DEF Tokens
    <2>3. s > t BY <2>2, SMTT(30), Z3
    <2> QED BY <2>1, <2>3 DEF Younger
  <1>9. Younger(t) \subseteq Tokens BY <1>2 DEF Younger
  <1>10. Cardinality(T \ {t}) = Cardinality(T) - 1
    BY <1>2, <1>6 DEF Counting
  <1>11. Cardinality(T \ {t}) <= Cardinality(Younger(t))
    BY <1>8, <1>9 DEF Counting
  <1>12. Cardinality(T) \in Nat /\ Cardinality(T \ {t}) \in Nat /\ Cardinality(Younger(t)) \in Nat
    BY <1>2, <1>9 DEF Counting
  <1>13. Cardinality(Younger(t)) >= MaxSessionsPerUser
    <2>1. MaxSessionsPerUser \in Nat BY ConstantsAssumption
    <2>2. \A x, y, z, m \in Nat : x > m /\ z = x - 1 /\ z <= y => y >= m
      BY SMTT(30), Z3
    <2> QED BY <1>1, <1>10, <1>11, <1>12, <2>1, <2>2
  <1>14. t \in stored BY <1>6, <1>7 DEF Written
  <1> QED BY <1>6, <1>13, <1>14

\* Only EnforceEvict adds to the evicted tokens.
LEMMA OnlyEvictEvicts ==
  ASSUME Inv, [Next]_vars
  PROVE  evicted' = evicted \/ \E c \in Clients : EnforceEvict(c)
  <1>1. CASE UNCHANGED vars BY <1>1 DEF vars
  <1>2. CASE Tick BY <1>2, SMTT(30), Z3 DEF Tick
  <1>3. ASSUME NEW c \in Clients, Step(c), ~EnforceEvict(c)
        PROVE  evicted' = evicted
    BY <1>3
    DEF Step, Issue, IssueFor, IssueExec, EnforceSCard, EnforceSMembers, EnforceGet,
        EnforceSRem, EnforceDone, RevokeAll, RevokeAllOf, RevokeAllSMembers, RevokeAllExec,
        Verify, Rotate, RotateWith, RotateExec, Revoke, RevokeToken, RevokeExec, CallFails, ReplyLost,
        EnforceFails, EnforceGetFails, EnforceWriteFails
  <1> QED BY <1>1, <1>2, <1>3 DEF Next

\* So the evicted tokens have enough younger ones, which were written before and stay
\* written.
LEMMA EvictionStep ==
  ASSUME Counting, Inv, EvictsOnlyOldest, [Next]_vars
  PROVE  EvictsOnlyOldest'
  <1>1. /\ stored \subseteq stored' /\ evicted \subseteq stored
        /\ \A t \in stored : data'[t] = data[t]
    BY KeysOnlyDie DEF Inv, StoreOK
  <1>2. stored' \subseteq Tokens BY NextInv DEF Inv, TypeOK
  <1>3. ASSUME NEW t \in stored, Cardinality(Younger(t)) >= MaxSessionsPerUser
        PROVE  Cardinality(Younger(t)') >= MaxSessionsPerUser
    <2>1. Younger(t) \subseteq Younger(t)' /\ Younger(t)' \subseteq Tokens
      BY <1>1, <1>2 DEF Younger
    <2>2. /\ Cardinality(Younger(t)) <= Cardinality(Younger(t)')
          /\ Cardinality(Younger(t)) \in Nat /\ Cardinality(Younger(t)') \in Nat
      BY <2>1 DEF Counting
    <2> QED BY <1>3, <2>2, ConstantsAssumption, SMTT(30), Z3
  <1>4. \A t \in evicted : Cardinality(Younger(t)) >= MaxSessionsPerUser
    BY DEF EvictsOnlyOldest, Younger
  <1>5. \A t \in evicted' : t \in stored /\ Cardinality(Younger(t)) >= MaxSessionsPerUser
    BY <1>1, <1>4, OnlyEvictEvicts, EvictedHasYounger
  <1>6. \A t \in evicted' : Cardinality(Younger(t)') >= MaxSessionsPerUser
    BY <1>3, <1>5
  <1> QED BY <1>6 DEF EvictsOnlyOldest, Younger

(***************************************************************************)
(* The session limit, where nothing but logins and logouts happens.        *)
(***************************************************************************)

\* No Redis error, no rotation and no revocation of all tokens, asked for or
\* caused by a fingerprint that differs: the calls left are Issue, Revoke, Verify
\* and the passing of time.
LoginsOnly ==
  /\ MaxFaults = 0
  /\ {"Rotate", "RevokeAll"} \cap Calls = {}
  /\ \A f, g \in Fingerprints : f = g

\* What then holds of a request: it is one of Issue or Revoke, and what it is about
\* to take out of an index is gone.
Login(c) ==
  /\ req[c].pc \notin {"rotateExec", "revokeAll", "revokeAllExec"}
  /\ req[c].pc = "srem" => ~Live(req[c].tok)

\* The index of u lists the valid tokens of u and outlives each of them.
Covered(u) ==
  \A t \in LiveOf(u) : t \in index[u].members /\ life[t] <= index[u].life

\* Request c is going to enforce the limit for u: it has not taken its snapshot
\* yet, or no valid token of u is missing from what it has left of it.
Watches(c, u) ==
  /\ req[c].user = u
  /\ \/ req[c].pc \in {"scard", "smembers"}
     \/ /\ req[c].pc \in {"get", "srem"}
        /\ LiveOf(u) \subseteq req[c].hashes \cup req[c].tokens

\* A user over the limit has a request that will see to it.
Limited(u) ==
  \/ Cardinality(LiveOf(u)) <= MaxSessionsPerUser
  \/ \E c \in Clients : Watches(c, u)

Limits ==
  /\ \A c \in Clients : Login(c)
  /\ \A u \in Users : Covered(u) /\ Limited(u)

\* A set that lists the valid tokens of a user has at least as many elements.
LEMMA LiveCount ==
  ASSUME Counting, TypeOK, NEW u, NEW S \in SUBSET Tokens
  PROVE  /\ Cardinality(S) \in Nat /\ Cardinality(LiveOf(u)) \in Nat
         /\ LiveOf(u) \subseteq S => Cardinality(LiveOf(u)) <= Cardinality(S)
<1>1. LiveOf(u) \subseteq Tokens
  BY DataRange DEF LiveOf
<1> QED BY <1>1 DEF Counting

\* A step that writes no token makes none valid and lengthens no lifetime.
LEMMA LiveShrinks ==
  ASSUME Inv, Inv', [Next]_vars, stored' = stored, NEW u \in Users
  PROVE  LiveOf(u)' \subseteq LiveOf(u)
<1>1. /\ stored \subseteq 1..Len(data) /\ stored \subseteq Tokens
      /\ \A t \in Tokens : life[t] > 0 => t \in stored
      /\ \A t \in Tokens : life'[t] > 0 => t \in stored
  BY DEF Inv, TypeOK, StoreOK, Live
<1>2. (1..Len(data) \subseteq Tokens)'
  BY DataRange, PTL DEF Inv
<1>3. \A t \in Tokens : life[t] \in Nat
  BY SMTT(30), Z3 DEF Inv, TypeOK
<1>4. /\ \A t \in 1..Len(data) : data'[t] = data[t]
      /\ \A t \in stored : life[t] = 0 => life'[t] = 0
  BY KeysOnlyDie
<1> QED BY <1>1, <1>2, <1>3, <1>4, SMTT(30), Z3 DEF LiveOf, Live

\* The limit survives when no token becomes valid and every request that watches
\* goes on watching, or has seen that it need not.
LEMMA LimitKept ==
  ASSUME Counting, TypeOK, NEW u \in Users, Limited(u), LiveOf(u)' \subseteq LiveOf(u),
         \A c \in Clients : Watches(c, u) =>
           Watches(c, u)' \/ Cardinality(LiveOf(u)) <= MaxSessionsPerUser
  PROVE  Limited(u)'
<1>1. LiveOf(u) \subseteq Tokens
  BY DataRange DEF LiveOf
<1>2. /\ Cardinality(LiveOf(u)') <= Cardinality(LiveOf(u))
      /\ Cardinality(LiveOf(u)') \in Nat /\ Cardinality(LiveOf(u)) \in Nat
  BY <1>1 DEF Counting
<1>3. MaxSessionsPerUser \in Nat
  BY ConstantsAssumption
<1>4. CASE Cardinality(LiveOf(u)) <= MaxSessionsPerUser
  BY <1>2, <1>3, <1>4, AgeKept DEF Limited
<1>5. CASE \E c \in Clients : Watches(c, u)'
  BY <1>5 DEF Limited
<1> QED BY <1>4, <1>5 DEF Limited

\* A request that does not move keeps watching.
LEMMA WatchKept ==
  ASSUME NEW c, NEW u, Watches(c, u), req'[c] = req[c], LiveOf(u)' \subseteq LiveOf(u)
  PROVE  Watches(c, u)'
BY DEF Watches

\* An index that is left alone covers what is left of the valid tokens.
LEMMA CoverKept ==
  ASSUME Inv, Inv', NEW u \in Users, Covered(u), LiveOf(u)' \subseteq LiveOf(u),
         \A t \in Tokens : life'[t] <= life[t], index'[u] = index[u]
  PROVE  Covered(u)'
<1> SUFFICES ASSUME NEW t \in LiveOf(u)'
             PROVE  t \in index'[u].members /\ life'[t] <= index'[u].life
  BY DEF Covered
<1>1. t \in Tokens /\ t \in index[u].members /\ life[t] <= index[u].life
  BY DataRange DEF Covered, LiveOf, Inv
<1>2. life'[t] <= life[t] /\ life'[t] \in Nat /\ life[t] \in Nat
  BY <1>1, Lifetimes DEF Inv, TypeOK
<1>3. index[u].life \in Nat
  BY IndexLife DEF Inv, TypeOK
<1> QED BY <1>1, <1>2, <1>3, AgeKept

\* So does one that has lost a token that is gone.
LEMMA CoverSRem ==
  ASSUME Inv, Inv', NEW u \in Users, Covered(u), LiveOf(u)' \subseteq LiveOf(u),
         \A t \in Tokens : life'[t] <= life[t],
         NEW s, s \notin LiveOf(u)', index'[u] = SRem(index[u], s)
  PROVE  Covered(u)'
<1> SUFFICES ASSUME NEW t \in LiveOf(u)'
             PROVE  t \in index'[u].members /\ life'[t] <= index'[u].life
  BY DEF Covered
<1>1. t \in Tokens /\ t \in index[u].members /\ life[t] <= index[u].life /\ t # s
  BY DataRange DEF Covered, LiveOf, Inv
<1>2. life'[t] <= life[t] /\ life'[t] \in Nat /\ life[t] \in Nat
  BY <1>1, Lifetimes DEF Inv, TypeOK
<1>3. index[u].life \in Nat
  BY IndexLife DEF Inv, TypeOK
<1>4. index'[u].members = index[u].members \ {s} /\ index'[u].life = index[u].life
  <2>1. ~(index[u].members \subseteq {s})
    BY <1>1
  <2>2. /\ SRem(index[u], s).members = index[u].members \ {s}
        /\ SRem(index[u], s).life = index[u].life
    BY <2>1, IndexFields
  <2> QED BY <2>2
<1> QED BY <1>1, <1>2, <1>3, <1>4, AgeKept

\* A step of goroutine c that writes no token keeps the limits if it takes only dead
\* tokens out of an index and c does not stop watching too early.
LEMMA LimitsFrame ==
  ASSUME Counting, Inv, Inv', Limits, [Next]_vars, NEW c \in Clients, stored' = stored,
         \A d \in Clients \ {c} : req'[d] = req[d],
         \A t \in Tokens : life'[t] <= life[t],
         \A u \in Users : \/ index'[u] = index[u]
                          \/ \E s : s \notin LiveOf(u)' /\ index'[u] = SRem(index[u], s),
         Login(c)',
         \A u \in Users : Watches(c, u) =>
           Watches(c, u)' \/ Cardinality(LiveOf(u)) <= MaxSessionsPerUser
  PROVE  Limits'
<1>1. TypeOK /\ TypeOK'
  BY DEF Inv
<1>2. ASSUME NEW d \in Clients \ {c} PROVE Login(d)'
  <2>1. Login(d) /\ req'[d] = req[d]
    BY DEF Limits
  <2>2. CASE req[d].pc = "srem"
    <3>1. req[d].tok \in stored /\ req[d].tok \in Tokens
      BY <2>2 DEF Inv, RequestOK, TypeOK
    <3>2. life[req[d].tok] = 0
      BY <2>1, <2>2, <3>1, Lifetimes DEF Inv, TypeOK, Login, Live
    <3>3. life'[req[d].tok] = 0
      BY <3>1, <3>2, KeysOnlyDie
    <3>4. ~(life'[req[d].tok] > 0)
      BY <3>3, NoneLeft
    <3> QED BY <2>1, <3>4 DEF Login, Live
  <2> QED BY <2>1, <2>2 DEF Login
<1>3. ASSUME NEW u \in Users PROVE Covered(u)' /\ Limited(u)'
  <2>1. LiveOf(u)' \subseteq LiveOf(u) /\ Covered(u) /\ Limited(u)
    BY LiveShrinks DEF Limits
  <2>2. Covered(u)'
    BY <2>1, CoverKept, CoverSRem
  <2>3. \A d \in Clients : Watches(d, u) =>
          Watches(d, u)' \/ Cardinality(LiveOf(u)) <= MaxSessionsPerUser
    BY <2>1, WatchKept
  <2> QED BY <1>1, <2>1, <2>2, <2>3, LimitKept
<1> QED BY <1>2, <1>3 DEF Limits

\* The expiry of an index is the expiry of every token in it.
LEMMA LimitsTick ==
  ASSUME Counting, Inv, Inv', Limits, Tick
  PROVE  Limits'
<1>1. /\ UNCHANGED <<data, req, stored>> /\ TypeOK /\ TypeOK'
      /\ \A t \in Tokens : life'[t] = IF life[t] > 0 THEN life[t] - 1 ELSE 0
      /\ \A u \in Users : index'[u] = Age(index[u])
      /\ \A t \in Tokens : life[t] \in 0..TTL
  BY DEF Tick, Inv, TypeOK
<1>2. ASSUME NEW u \in Users PROVE LiveOf(u)' \subseteq LiveOf(u)
  <2> SUFFICES ASSUME NEW t \in LiveOf(u)' PROVE t \in LiveOf(u)
    OBVIOUS
  <2>1. t \in 1..Len(data) /\ data[t].user = u /\ t \in Tokens /\ life'[t] > 0
    BY <1>1, DataRange DEF LiveOf, Live
  <2>2. life[t] > 0
    BY <1>1, <2>1, NoneLeft
  <2> QED BY <2>1, <2>2 DEF LiveOf, Live
<1>3. ASSUME NEW u \in Users PROVE Covered(u)'
  <2> SUFFICES ASSUME NEW t \in LiveOf(u)'
               PROVE  t \in index'[u].members /\ life'[t] <= index'[u].life
    BY DEF Covered
  <2>1. t \in LiveOf(u) /\ t \in Tokens
    BY <1>1, <1>2, DataRange DEF LiveOf
  <2>2. /\ t \in index[u].members /\ life[t] <= index[u].life
        /\ life[t] \in 0..TTL /\ TTL \in Nat /\ life[t] > 0
    BY <1>1, <2>1, ConstantsAssumption DEF Limits, Covered, LiveOf, Live
  <2>3. life'[t] = life[t] - 1 /\ life'[t] > 0
    BY <1>1, <2>1, <2>2 DEF LiveOf, Live
  <2>4. index[u].life \in Nat
    BY IndexLife DEF Inv, TypeOK
  <2>5. index[u].life # 1
    BY <2>2, <2>3, <2>4, Lifetimes, Shorter
  <2>6. index'[u].members = index[u].members /\ index'[u].life \in {index[u].life, index[u].life - 1}
    BY <1>1, <2>5, IndexFields
  <2> QED BY <2>2, <2>3, <2>4, <2>6, Lifetimes, Shorter
<1>4. ASSUME NEW u \in Users PROVE Limited(u)'
  <2>1. \A c \in Clients : Watches(c, u) => Watches(c, u)'
    BY <1>1, <1>2, WatchKept
  <2> QED BY <1>1, <1>2, <2>1, LimitKept DEF Limits
<1>5. ASSUME NEW c \in Clients PROVE Login(c)'
  <2>1. req[c].pc = "srem" => req[c].tok \in Tokens
    BY DEF Inv, RequestOK, TypeOK
  <2> QED BY <1>1, <2>1, NoneLeft DEF Limits, Login, Live
<1> QED BY <1>3, <1>4, <1>5 DEF Limits

\* The EXEC of Issue adds a token to the index it restarts, and goes on to count.
LEMMA LimitsIssueExec ==
  ASSUME Counting, Inv, Inv', Limits, NEW c \in Clients, IssueExec(c),
         NEW u, u = req[c].user, NEW new, new = req[c].new
  PROVE  Limits'
<1>1. /\ new \in (1..Len(data)) \ stored /\ data[new].user = u
      /\ stored \subseteq 1..Len(data) /\ 1..Len(data) \subseteq Tokens
      /\ \A t \in Tokens : life[t] > 0 => t \in stored
      /\ life \in [Tokens -> 0..TTL] /\ u \in Users /\ TTL \in Nat \ {0}
  BY Writing DEF Pending, IssueExec, Inv, TypeOK
<1>2. /\ life' = [life EXCEPT ![new] = TTL] /\ data' = data
      /\ index' = [index EXCEPT ![u] = Expire(SAdd(@, new))] /\ index \in [Users -> Index]
  BY DEF IssueExec, IssueTx, Inv, TypeOK
<1>3. \A t \in Tokens : life'[t] > 0 <=> (t = new \/ life[t] > 0)
  BY <1>1, <1>2, SMTT(30), Z3
<1>4. LiveOf(u)' = LiveOf(u) \cup {new} /\ \A v \in Users \ {u} : LiveOf(v)' = LiveOf(v)
  BY <1>1, <1>2, <1>3 DEF LiveOf, Live
<1>5. req'[c].pc = "scard" /\ req'[c].user = u /\ \A d \in Clients \ {c} : req'[d] = req[d]
  <2>1. req[c] \in Request /\ req \in [Clients -> Request]
    BY DEF Inv, TypeOK
  <2>2. req' = [req EXCEPT ![c].pc = "scard"]
    BY DEF IssueExec, Goto
  <2>3. req'[c] = [req[c] EXCEPT !.pc = "scard"] /\ \A d \in Clients \ {c} : req'[d] = req[d]
    BY <2>1, <2>2
  <2> QED BY <2>1, <2>3 DEF Request
<1>6. Covered(u)'
  <2>1. index'[u].members = index[u].members \cup {new} /\ index'[u].life = TTL
    BY <1>1, <1>2 DEF Expire, SAdd
  <2>2. \A t \in LiveOf(u)' : t \in index'[u].members
    <3>1. Covered(u)
      BY <1>1 DEF Limits
    <3> QED BY <1>4, <2>1, <3>1 DEF Covered
  <2>3. \A t \in LiveOf(u)' : life'[t] <= TTL
    BY <1>1, <1>2, Lifetimes DEF LiveOf, Inv, TypeOK
  <2> QED BY <2>1, <2>2, <2>3 DEF Covered
<1>7. ASSUME NEW v \in Users \ {u} PROVE Covered(v)'
  <2>1. index'[v] = index[v]
    BY <1>2
  <2>2. new \notin LiveOf(v)
    BY <1>1 DEF LiveOf
  <2>3. \A t \in LiveOf(v) : life'[t] = life[t]
    BY <1>1, <1>2, <2>2 DEF LiveOf
  <2> QED BY <1>4, <2>1, <2>3 DEF Limits, Covered
<1>8. Limited(u)'
  BY <1>5 DEF Limited, Watches
<1>9. ASSUME NEW v \in Users \ {u} PROVE Limited(v)'
  <2>1. \A d \in Clients : Watches(d, v) => Watches(d, v)'
    BY <1>4, <1>5, WatchKept DEF Watches
  <2> QED BY <1>4, <2>1, LimitKept DEF Limits, Inv
<1>10. ASSUME NEW d \in Clients PROVE Login(d)'
  <2>1. CASE d = c
    BY <1>5, <2>1 DEF Login
  <2>2. CASE d # c
    <3>1. Login(d) /\ req'[d] = req[d]
      BY <1>5, <2>2 DEF Limits
    <3>2. req[d].pc = "srem" => req[d].tok \in stored /\ req[d].tok \in Tokens
      BY DEF Inv, RequestOK, TypeOK
    <3> QED BY <1>1, <1>3, <3>1, <3>2 DEF Login, Live
  <2> QED BY <2>1, <2>2
<1> QED BY <1>6, <1>7, <1>8, <1>9, <1>10 DEF Limits

\* Every step of a login or logout keeps the limits.
LEMMA LimitsStep ==
  ASSUME LoginsOnly, Counting, Inv, Inv', Limits, [Next]_vars, NEW c \in Clients, Step(c)
  PROVE  Limits'
<1>0. /\ TypeOK /\ TypeOK' /\ Login(c) /\ RequestOK(c)
      /\ req[c] \in Request /\ req[c].user \in Users /\ MaxSessionsPerUser \in Nat
      /\ faults = 0 /\ MaxFaults = 0 /\ \A t \in Tokens : life[t] \in Nat
  <2>1. TypeOK /\ TypeOK' /\ Login(c) /\ RequestOK(c)
    BY DEF Inv, Limits
  <2>2. req[c] \in Request
    BY <2>1 DEF TypeOK
  <2>3. req[c].user \in Users
    BY <2>2 DEF Request
  <2>4. faults = 0 /\ MaxFaults = 0 /\ \A t \in Tokens : life[t] \in Nat
    BY <2>1, SMTT(30), Z3 DEF TypeOK, LoginsOnly
  <2> QED BY <2>1, <2>2, <2>3, <2>4, ConstantsAssumption
<1>1. ASSUME UNCHANGED <<life, index, stored>>, \A d \in Clients \ {c} : req'[d] = req[d],
             Login(c)',
             \A u \in Users : Watches(c, u) =>
               Watches(c, u)' \/ Cardinality(LiveOf(u)) <= MaxSessionsPerUser
      PROVE  Limits'
  <2>1. \A t \in Tokens : life'[t] <= life[t]
    BY <1>0, <1>1, SMTT(30), Z3
  <2> QED BY <1>1, <2>1, LimitsFrame
<1>2. \A u : UNCHANGED <<data, life>> => LiveOf(u)' = LiveOf(u)
  BY DEF LiveOf, Live
<1>3. CASE Issue(c)
  <2>1. PICK u \in Users : /\ req[c].pc = "idle" /\ UNCHANGED <<life, index, stored>>
                           /\ req' = [req EXCEPT ![c] = [Idle EXCEPT !.pc = "issueExec", !.user = u,
                                                                    !.new = NextToken]]
    BY <1>3 DEF Issue, IssueFor
  <2>2. req'[c].pc = "issueExec" /\ \A d \in Clients \ {c} : req'[d] = req[d]
    <3> DEFINE r == [Idle EXCEPT !.pc = "issueExec", !.user = u, !.new = NextToken]
    <3>1. r.pc = "issueExec"
      BY DEF Idle
    <3>2. req' = [req EXCEPT ![c] = r]
      BY <2>1
    <3> HIDE DEF r
    <3> QED BY <3>1, <3>2 DEF Inv, TypeOK
  <2>3. \A v \in Users : ~Watches(c, v)
    BY <2>1 DEF Watches
  <2> QED BY <1>1, <2>1, <2>2, <2>3 DEF Login
<1>4. CASE IssueExec(c)
  BY <1>4, LimitsIssueExec
<1>5. ASSUME Return(c), UNCHANGED <<life, index, stored>>,
             \A u \in Users : Watches(c, u) => Cardinality(LiveOf(u)) <= MaxSessionsPerUser
      PROVE  Limits'
  <2>1. req'[c].pc = "idle" /\ \A d \in Clients \ {c} : req'[d] = req[d]
    BY <1>0, <1>5, Moves
  <2> QED BY <1>1, <1>5, <2>1 DEF Login
<1>6. CASE EnforceSCard(c)
  <2>1. req[c].pc = "scard" /\ UNCHANGED <<data, life, index, stored>>
    BY <1>6 DEF EnforceSCard
  <2>2. CASE /\ Cardinality(index[req[c].user].members) <= MaxSessionsPerUser
             /\ Return(c)
    <3>1. index[req[c].user].members \subseteq Tokens
      <4>1. index[req[c].user] \in Index
        BY <1>0 DEF TypeOK
      <4> QED BY <4>1, SMTT(30), Z3 DEF Index, Absent
    <3>2. LiveOf(req[c].user) \subseteq index[req[c].user].members
      BY <1>0 DEF Limits, Covered
    <3>3. Cardinality(LiveOf(req[c].user)) <= MaxSessionsPerUser
      <4> DEFINE S == index[req[c].user].members
      <4>1. /\ Cardinality(S) \in Nat /\ Cardinality(LiveOf(req[c].user)) \in Nat
            /\ Cardinality(LiveOf(req[c].user)) <= Cardinality(S)
        BY <1>0, <3>1, <3>2, LiveCount
      <4>2. Cardinality(S) <= MaxSessionsPerUser
        BY <2>2
      <4> HIDE DEF S
      <4> QED BY <1>0, <4>1, <4>2, SMTT(30), Z3
    <3> QED BY <1>5, <2>1, <2>2, <3>3 DEF Watches
  <2>3. CASE Goto(c, "smembers")
    <3>1. /\ \A d \in Clients \ {c} : req'[d] = req[d]
          /\ req'[c].pc = "smembers" /\ req'[c].user = req[c].user
      BY <1>0, <2>3, Updates
    <3> QED BY <1>1, <2>1, <3>1 DEF Watches, Login
  <2> QED BY <1>6, <2>2, <2>3 DEF EnforceSCard, IssueReturn
<1>7. CASE EnforceSMembers(c)
  <2>1. UNCHANGED <<data, life, index, stored>>
    BY <1>7 DEF EnforceSMembers
  <2>2. /\ \A d \in Clients \ {c} : req'[d] = req[d]
        /\ req'[c].pc = "get" /\ req'[c].user = req[c].user
        /\ req'[c].hashes = index[req[c].user].members
    BY <1>0, <1>7, Updates DEF EnforceSMembers
  <2>3. LiveOf(req[c].user) \subseteq index[req[c].user].members
    BY <1>0 DEF Limits, Covered
  <2>4. \A u \in Users : Watches(c, u) => Watches(c, u)'
    BY <1>2, <2>1, <2>2, <2>3 DEF Watches
  <2> QED BY <1>1, <2>1, <2>2, <2>4 DEF Login
<1>8. CASE EnforceGet(c)
  <2>1. req[c].pc = "get" /\ UNCHANGED <<data, life, index, stored>>
    BY <1>8 DEF EnforceGet
  <2>2. PICK s \in req[c].hashes :
          IF Live(s)
          THEN req' = [req EXCEPT ![c].hashes = @ \ {s}, ![c].tokens = @ \cup {s}]
          ELSE req' = [req EXCEPT ![c].hashes = @ \ {s}, ![c].tok = s, ![c].pc = "srem"]
    BY <1>8 DEF EnforceGet
  <2>3. CASE Live(s)
    <3>1. /\ \A d \in Clients \ {c} : req'[d] = req[d]
          /\ req'[c].pc = "get" /\ req'[c].user = req[c].user
          /\ req'[c].hashes = req[c].hashes \ {s} /\ req'[c].tokens = req[c].tokens \cup {s}
      <4>1. req' = [req EXCEPT ![c].hashes = @ \ {s}, ![c].tokens = @ \cup {s}]
        BY <2>2, <2>3
      <4> QED BY <1>0, <2>1, <4>1, Updates
    <3>2. \A u \in Users : Watches(c, u) => Watches(c, u)'
      BY <1>2, <2>1, <3>1 DEF Watches
    <3> QED BY <1>1, <2>1, <3>1, <3>2 DEF Login
  <2>4. CASE ~Live(s)
    <3>1. /\ \A d \in Clients \ {c} : req'[d] = req[d]
          /\ req'[c].pc = "srem" /\ req'[c].user = req[c].user /\ req'[c].tok = s
          /\ req'[c].hashes = req[c].hashes \ {s} /\ req'[c].tokens = req[c].tokens
      <4>1. req' = [req EXCEPT ![c].hashes = @ \ {s}, ![c].tok = s, ![c].pc = "srem"]
        BY <2>2, <2>4
      <4> QED BY <1>0, <4>1, Updates
    <3>2. \A u : s \notin LiveOf(u)
      BY <2>4 DEF LiveOf
    <3>3. \A u \in Users : Watches(c, u) => Watches(c, u)'
      BY <1>2, <2>1, <3>1, <3>2, SMTT(30), Z3 DEF Watches
    <3>4. Login(c)'
      BY <2>1, <2>4, <3>1 DEF Login, Live
    <3> QED BY <1>1, <2>1, <3>1, <3>3, <3>4
  <2> QED BY <2>3, <2>4
<1>9. CASE EnforceSRem(c)
  <2>1. /\ req[c].pc = "srem" /\ UNCHANGED <<data, life, stored>>
        /\ index' = [index EXCEPT ![req[c].user] = SRem(@, req[c].tok)]
        /\ index \in [Users -> Index]
    BY <1>0, <1>9 DEF EnforceSRem, TypeOK
  <2>2. /\ \A d \in Clients \ {c} : req'[d] = req[d]
        /\ req'[c].pc = "get" /\ req'[c].user = req[c].user
        /\ req'[c].hashes = req[c].hashes /\ req'[c].tokens = req[c].tokens
    BY <1>0, <1>9, Updates DEF EnforceSRem
  <2>3. \A u : req[c].tok \notin LiveOf(u)'
    BY <1>0, <1>2, <2>1 DEF Login, LiveOf
  <2>4. \A u \in Users : Watches(c, u) => Watches(c, u)'
    BY <1>2, <2>1, <2>2 DEF Watches
  <2>5. \A u \in Users : \/ index'[u] = index[u]
                         \/ index'[u] = SRem(index[u], req[c].tok)
    BY <2>1
  <2>6. \A t \in Tokens : life'[t] <= life[t]
    BY <1>0, <2>1, Lifetimes DEF TypeOK
  <2>7. Login(c)'
    BY <2>2 DEF Login
  <2> QED BY <2>1, <2>2, <2>3, <2>4, <2>5, <2>6, <2>7, LimitsFrame
<1>10. CASE EnforceEvict(c)
  <2>1. PICK t :
        /\ req[c].pc = "get" /\ req[c].hashes = {} /\ Excess(c) /\ UNCHANGED <<data, stored>>
        /\ life' = [life EXCEPT ![t] = 0]
        /\ index' = [index EXCEPT ![req[c].user] = SRem(@, t)] /\ index \in [Users -> Index]
        /\ req' = [req EXCEPT ![c].tokens = @ \ {t}]
    BY <1>0, <1>10 DEF EnforceEvict, TypeOK
  <2>2. /\ \A d \in Clients \ {c} : req'[d] = req[d]
        /\ req'[c].pc = "get" /\ req'[c].user = req[c].user
        /\ req'[c].hashes = {} /\ req'[c].tokens = req[c].tokens \ {t}
    BY <1>0, <2>1, Updates
  <2>3. /\ \A s \in Tokens : life'[s] <= life[s]
        /\ \A u : t \notin LiveOf(u)'
    BY <1>0, <2>1, DataRange, SMTT(30), Z3 DEF LiveOf, Live, TypeOK
  <2>4. \A u \in Users : LiveOf(u)' \subseteq LiveOf(u)
    BY <2>1, LiveShrinks
  <2>5. \A u \in Users : Watches(c, u) => Watches(c, u)'
    BY <2>1, <2>2, <2>3, <2>4 DEF Watches
  <2>6. \A u \in Users : index'[u] = index[u] \/ index'[u] = SRem(index[u], t)
    BY <2>1
  <2>7. Login(c)'
    BY <2>2 DEF Login
  <2> QED BY <2>1, <2>2, <2>3, <2>5, <2>6, <2>7, LimitsFrame
<1>11. CASE EnforceDone(c)
  <2>1. /\ req[c].pc = "get" /\ req[c].hashes = {} /\ ~Excess(c)
        /\ UNCHANGED <<life, index, stored>> /\ Return(c)
    BY <1>11 DEF EnforceDone, IssueReturn
  <2>2. ASSUME NEW u \in Users, Watches(c, u) PROVE Cardinality(LiveOf(u)) <= MaxSessionsPerUser
    <3>1. LiveOf(u) \subseteq req[c].tokens /\ req[c].tokens \subseteq Tokens
      BY <1>0, <2>1, <2>2 DEF Watches, Request
    <3>2. /\ Cardinality(req[c].tokens) \in Nat /\ Cardinality(LiveOf(u)) \in Nat
          /\ Cardinality(LiveOf(u)) <= Cardinality(req[c].tokens)
      BY <1>0, <3>1, LiveCount
    <3>3. ~(Cardinality(req[c].tokens) > MaxSessionsPerUser)
      BY <2>1 DEF Excess
    <3> QED BY <1>0, <3>2, <3>3, SMTT(30), Z3
  <2> QED BY <1>5, <2>1, <2>2
<1>12. CASE Revoke(c)
  <2>1. PICK t : /\ req[c].pc = "idle" /\ UNCHANGED <<life, index, stored>>
                 /\ req' = [req EXCEPT ![c] = [Idle EXCEPT !.pc = "revokeExec",
                                                          !.user = data[t].user, !.tok = t]]
    BY <1>12 DEF Revoke, RevokeToken
  <2>2. req'[c].pc = "revokeExec" /\ \A d \in Clients \ {c} : req'[d] = req[d]
    <3> DEFINE r == [Idle EXCEPT !.pc = "revokeExec", !.user = data[t].user, !.tok = t]
    <3>1. r.pc = "revokeExec"
      BY DEF Idle
    <3>2. req' = [req EXCEPT ![c] = r]
      BY <2>1
    <3> HIDE DEF r
    <3> QED BY <3>1, <3>2 DEF Inv, TypeOK
  <2>3. \A v \in Users : ~Watches(c, v)
    BY <2>1 DEF Watches
  <2> QED BY <1>1, <2>1, <2>2, <2>3 DEF Login
<1>13. CASE RevokeExec(c)
  <2>1. /\ req[c].pc = "revokeExec" /\ UNCHANGED <<data, stored>> /\ Return(c)
        /\ life' = [life EXCEPT ![req[c].tok] = 0]
        /\ index' = [index EXCEPT ![req[c].user] = SRem(@, req[c].tok)]
        /\ index \in [Users -> Index]
    BY <1>0, <1>13 DEF RevokeExec, RevokeTx, TypeOK
  <2>2. req'[c].pc = "idle" /\ \A d \in Clients \ {c} : req'[d] = req[d]
    BY <1>0, <2>1, Moves
  <2>3. /\ \A s \in Tokens : life'[s] <= life[s]
        /\ \A u : req[c].tok \notin LiveOf(u)'
    BY <1>0, <2>1, DataRange, SMTT(30), Z3 DEF LiveOf, Live, TypeOK
  <2>4. \A u \in Users : index'[u] = index[u] \/ index'[u] = SRem(index[u], req[c].tok)
    BY <2>1
  <2>5. Login(c)' /\ \A v \in Users : ~Watches(c, v)
    BY <2>1, <2>2 DEF Login, Watches
  <2> QED BY <2>1, <2>2, <2>3, <2>4, <2>5, LimitsFrame
<1>14. CASE RevokeAll(c) \/ Rotate(c)
  BY <1>14 DEF RevokeAll, Rotate, LoginsOnly
<1>15. CASE RevokeAllSMembers(c) \/ RevokeAllExec(c) \/ RotateExec(c)
  BY <1>0, <1>15 DEF RevokeAllSMembers, RevokeAllExec, RotateExec, Login
<1>16. CASE Verify(c)
  <2>1. PICK t \in held, f \in Fingerprints : data[t].fp # f
    BY <1>16 DEF Verify
  <2>2. t \in 1..Len(data) /\ data \in Seq(TokenData)
    BY <1>0 DEF Inv, StoreOK, TypeOK
  <2>3. data[t] \in TokenData
    BY <2>2, SMTT(30), Z3
  <2>4. data[t].fp \in Fingerprints
    BY <2>3 DEF TokenData
  <2> QED BY <2>1, <2>4 DEF LoginsOnly
<1>17. CASE CallFails(c) \/ ReplyLost(c) \/ EnforceFails(c) \/ EnforceGetFails(c)
         \/ EnforceWriteFails(c)
  <2>1. Fault
    BY <1>17 DEF CallFails, ReplyLost, EnforceFails, EnforceGetFails, EnforceWriteFails
  <2> QED BY <1>0, <2>1, SMTT(30), Z3 DEF Fault
<1> QED BY <1>3, <1>4, <1>6, <1>7, <1>8, <1>9, <1>10, <1>11, <1>12, <1>13, <1>14, <1>15,
           <1>16, <1>17 DEF Step

\* Nobody has a token at first.
LEMMA LimitsInit ==
  ASSUME Counting, Init
  PROVE  Limits
<1>1. \A c \in Clients : Login(c)
  BY IdleType DEF Init, Login
<1>2. \A u : LiveOf(u) = {}
  BY SMTT(30), Z3 DEF Init, LiveOf
<1>3. MaxSessionsPerUser \in Nat /\ Cardinality({}) = 0
  BY ConstantsAssumption DEF Counting
<1> QED BY <1>1, <1>2, <1>3, SMTT(30), Z3 DEF Limits, Covered, Limited

\* Every step keeps the limits.
LEMMA LimitsNext ==
  ASSUME LoginsOnly, Counting, Inv, Inv', Limits, [Next]_vars
  PROVE  Limits'
<1>1. CASE UNCHANGED vars
  <2>1. UNCHANGED <<data, life, index, req>>
    BY <1>1 DEF vars
  <2>2. \A u : LiveOf(u)' = LiveOf(u)
    BY <2>1 DEF LiveOf, Live
  <2>3. \A c \in Clients : Login(c)'
    BY <2>1 DEF Limits, Login, Live
  <2>4. \A u \in Users : Covered(u)' /\ Limited(u)'
    BY <2>1, <2>2 DEF Limits, Covered, Limited, Watches
  <2> QED BY <2>3, <2>4 DEF Limits
<1>2. CASE Tick
  BY <1>2, LimitsTick
<1>3. ASSUME NEW c \in Clients, Step(c) PROVE Limits'
  BY <1>3, LimitsStep
<1> QED BY <1>1, <1>2, <1>3 DEF Next

\* When nobody is at work, nobody watches.
LEMMA LimitsSuffice == Limits => AtMostMaxSessions
BY DEF Limits, Limited, Watches, AtMostMaxSessions

\* The Cardinality of the specification.
Size(S) == Cardinality(S)

\* Its definition in full.
LEMMA SizeDefinition ==
  \A S : Size(S) = LET CS[T \in SUBSET S] ==
                         IF T = {} THEN 0 ELSE 1 + CS[T \ {CHOOSE x : x \in T}]
                   IN  CS[S]
BY SMTT(30), Z3 DEF Size, Cardinality

\* Counting is about Size.
LEMMA CountingSize ==
  ASSUME Size({}) = 0,
         \A S \in SUBSET Tokens : Size(S) \in Nat,
         \A S \in SUBSET Tokens : \A R \in SUBSET S : Size(R) <= Size(S),
         \A S \in SUBSET Tokens : \A t \in S : Size(S \ {t}) = Size(S) - 1
  PROVE  Counting
BY DEF Counting, Size

LOCAL INSTANCE FiniteSetTheorems

\* The library's theorems are about a Cardinality with the same definition.
LEMMA SizeIsCardinality == \A S : Size(S) = Cardinality(S)
BY SizeDefinition, SMTT(30), Z3 DEF Cardinality

\* There are finitely many tokens.
LEMMA CountingHolds == Counting
<1>1. IsFiniteSet(Tokens)
  BY ConstantsAssumption, FS_Interval, SMTT(30), Z3 DEF Tokens
<1>2. \A S \in SUBSET Tokens : IsFiniteSet(S)
  BY <1>1, FS_Subset
<1>3. Size({}) = 0
  BY FS_EmptySet, SizeIsCardinality
<1>4. \A S \in SUBSET Tokens : Size(S) \in Nat
  BY <1>2, FS_CardinalityType, SizeIsCardinality
<1>5. \A S \in SUBSET Tokens : \A R \in SUBSET S : Size(R) <= Size(S)
  BY <1>2, FS_Subset, SizeIsCardinality
<1>6. \A S \in SUBSET Tokens : \A t \in S : Size(S \ {t}) = Size(S) - 1
  BY <1>2, FS_RemoveElement, SizeIsCardinality
<1> QED BY <1>3, <1>4, <1>5, <1>6, CountingSize

\* enforceMaxSessions never deletes one of the MaxSessionsPerUser most recent
\* tokens of a user, although it decides on a snapshot that other requests
\* have made stale.
THEOREM OnlyOldestEvicted == Spec => []EvictsOnlyOldest
<1>1. Init => EvictsOnlyOldest
  BY DEF Init, EvictsOnlyOldest
<1>2. Inv /\ EvictsOnlyOldest /\ [Next]_vars => EvictsOnlyOldest'
  BY CountingHolds, EvictionStep
<1> QED BY <1>1, <1>2, Invariance, PTL DEF Spec

\* When nothing but logins and logouts happens, and Redis answers, however many logins
\* of a user run at once, the user has no more than MaxSessionsPerUser valid tokens
\* once the last of them has returned: the request that counts last counts them all.
THEOREM LoginsAreLimited == LoginsOnly => (Spec => []AtMostMaxSessions)
<1> SUFFICES ASSUME LoginsOnly PROVE Spec => []AtMostMaxSessions
  OBVIOUS
<1>1. Init => Limits
  BY CountingHolds, LimitsInit
<1>2. Inv /\ Inv' /\ Limits /\ [Next]_vars => Limits'
  BY CountingHolds, LimitsNext
<1> QED BY <1>1, <1>2, LimitsSuffice, Invariance, PTL DEF Spec
=============================================================================
