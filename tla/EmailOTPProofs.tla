--------------------------- MODULE EmailOTPProofs ---------------------------
(***************************************************************************)
(* Proofs about EmailOTP, for any number of clients and challenges, any    *)
(* limit on wrong codes and any number of failed calls.                    *)
(***************************************************************************)
EXTENDS EmailOTP, FiniteSetTheorems, TLAPS

\* The requests that compared a wrong code with c's and have not counted it.
Uncounted(c) == {k \in Clients : req[k].pc = "increment" /\ req[k].ch = c}

\* The wrong codes of a stored challenge are those its counter counts, those
\* still to be counted and those that a failed call did not count.
Accounted(c) == c \in stored => tries[c] <= attempts[c] + Cardinality(Uncounted(c)) + faults

\* Nothing has been compared with a challenge that does not exist yet.
Untried == \A c \in Challenges : c > made => tries[c] = 0

Inv == /\ TypeOK /\ Untried /\ GuessesBounded
       /\ \A c \in Challenges : Accounted(c)

\* The cardinality of the set of uncounted requests is a number, no larger than
\* the number of clients.
LEMMA UncountedFinite ==
    ASSUME NEW c
    PROVE  /\ IsFiniteSet(Uncounted(c)) /\ Cardinality(Uncounted(c)) \in Nat
           /\ Cardinality(Clients) \in Nat
           /\ Cardinality(Uncounted(c)) <= Cardinality(Clients)
<1>1. Uncounted(c) \subseteq Clients /\ IsFiniteSet(Clients)
  BY ConstantsAssumption DEF Uncounted
<1> QED  BY <1>1, FS_Subset, FS_CardinalityType

\* The same after a step.
LEMMA UncountedFiniteNext ==
    ASSUME NEW c
    PROVE  /\ IsFiniteSet(Uncounted(c)') /\ Cardinality(Uncounted(c)') \in Nat
           /\ Cardinality(Uncounted(c)') <= Cardinality(Clients)
<1>1. Uncounted(c)' \subseteq Clients /\ IsFiniteSet(Clients)
  BY ConstantsAssumption DEF Uncounted
<1> QED  BY <1>1, FS_Subset, FS_CardinalityType

\* The initial state satisfies the invariant.
THEOREM InitInv == Init => Inv
<1> SUFFICES ASSUME Init PROVE Inv
  OBVIOUS
<1>1. TypeOK
  BY ConstantsAssumption DEF Init, TypeOK, Idle, PCs, Challenges
<1>2. Untried /\ \A c \in Challenges : Accounted(c)
  BY DEF Init, Untried, Accounted
<1>3. GuessesBounded
  BY UncountedFinite, ConstantsAssumption DEF Init, GuessesBounded
<1> QED  BY <1>1, <1>2, <1>3 DEF Inv

\* A step that compares nothing and counts nothing preserves the invariant when
\* no request enters or leaves the wait for IncrementAttempts, no challenge is
\* stored again and failures only accumulate.
LEMMA QuietStep ==
    ASSUME Inv, TypeOK', made <= made', UNCHANGED <<tries, attempts>>, faults <= faults',
           \A c \in Challenges : c \in stored' => c \in stored \/ c > made,
           \A k \in Clients : /\ req'[k].pc = "increment" <=> req[k].pc = "increment"
                              /\ req[k].pc = "increment" => req'[k] = req[k]
    PROVE  Inv'
<1>1. Untried'
  BY DEF Inv, Untried, TypeOK, Challenges
<1>2. GuessesBounded'
  <2> SUFFICES ASSUME NEW c \in Challenges
               PROVE  tries'[c] < OTPMaxAttempts + Cardinality(Clients) + faults'
    BY DEF GuessesBounded
  <2>1. tries[c] < OTPMaxAttempts + Cardinality(Clients) + faults
    BY DEF Inv, GuessesBounded
  <2>2. tries[c] \in Nat /\ faults \in Nat /\ faults' \in Nat /\ OTPMaxAttempts \in Nat
    BY ConstantsAssumption DEF Inv, TypeOK
  <2>3. Cardinality(Clients) \in Nat
    BY UncountedFinite
  <2> QED  BY <2>1, <2>2, <2>3
<1>3. ASSUME NEW c \in Challenges PROVE Accounted(c)'
  <2>1. Uncounted(c)' = Uncounted(c)
    BY DEF Uncounted
  <2>2. CASE c \in stored
    BY <2>1, <2>2, UncountedFinite DEF Inv, Accounted, TypeOK
  <2>3. CASE c \notin stored
    BY <2>1, <2>3, UncountedFinite DEF Inv, Untried, Accounted, TypeOK
  <2> QED  BY <2>2, <2>3
<1> QED  BY <1>1, <1>2, <1>3 DEF Inv

\* A request that returns leaves its client idle and touches no other one.
LEMMA ReturnFacts ==
    ASSUME TypeOK, NEW k \in Clients, Return(k)
    PROVE  /\ req' \in [Clients -> [pc : PCs, ch : 0..MaxChallenges]]
           /\ req'[k].pc = "idle" /\ req'[k].ch = 0
           /\ \A j \in Clients \ {k} : req'[j] = req[j]
<1>1. Idle \in [pc : PCs, ch : 0..MaxChallenges] /\ Idle.pc = "idle" /\ Idle.ch = 0
  BY ConstantsAssumption DEF Idle, PCs
<1> QED  BY <1>1 DEF Return, TypeOK

\* A failed call stays within the bound.
LEMMA FaultFacts ==
    ASSUME TypeOK, Fault \/ UNCHANGED faults
    PROVE  faults' \in 0..MaxFaults /\ faults <= faults'
BY ConstantsAssumption DEF Fault, TypeOK

\* A wrong code that leaves the wait for IncrementAttempts is counted by the
\* counter of its challenge or by the failed calls, unless the challenge is gone.
LEMMA CountStep ==
    ASSUME Inv, TypeOK', NEW k \in Clients, NEW c, c = req[k].ch,
           req[k].pc = "increment", req'[k].pc # "increment",
           \A j \in Clients \ {k} : req'[j] = req[j],
           UNCHANGED <<made, stored, tries>>, faults <= faults',
           \A d \in Challenges \ {c} : attempts'[d] = attempts[d],
           c \in stored => attempts'[c] + faults' >= attempts[c] + faults + 1
    PROVE  Inv'
<1>1. Untried'
  BY DEF Inv, Untried
<1>2. ASSUME NEW d \in Challenges
      PROVE  /\ tries[d] \in Nat /\ attempts[d] \in Nat /\ attempts'[d] \in Nat
             /\ faults \in Nat /\ faults' \in Nat
  BY ConstantsAssumption DEF Inv, TypeOK
<1>3. GuessesBounded'
  <2> SUFFICES ASSUME NEW d \in Challenges
               PROVE  tries[d] < OTPMaxAttempts + Cardinality(Clients) + faults'
    BY DEF GuessesBounded
  <2>1. tries[d] < OTPMaxAttempts + Cardinality(Clients) + faults
    BY DEF Inv, GuessesBounded
  <2>2. Cardinality(Clients) \in Nat /\ OTPMaxAttempts \in Nat
    BY UncountedFinite, ConstantsAssumption
  <2> QED  BY <1>2, <2>1, <2>2
<1>4. ASSUME NEW d \in Challenges PROVE Accounted(d)'
  <2> SUFFICES ASSUME d \in stored
               PROVE  tries[d] <= attempts'[d] + Cardinality(Uncounted(d)') + faults'
    BY DEF Accounted
  <2>1. tries[d] <= attempts[d] + Cardinality(Uncounted(d)) + faults
    BY DEF Inv, Accounted
  <2>2. Cardinality(Uncounted(d)) \in Nat /\ IsFiniteSet(Uncounted(d))
    BY UncountedFinite
  <2>3. CASE d = c
    <3>1. k \in Uncounted(c) /\ Uncounted(c)' = Uncounted(c) \ {k}
      BY DEF Uncounted
    <3>2. Cardinality(Uncounted(c)') = Cardinality(Uncounted(c)) - 1
      <4>1. IsFiniteSet(Uncounted(c)) /\ Cardinality(Uncounted(c)) \in Nat
        BY UncountedFinite
      <4>2. Cardinality(Uncounted(c) \ {k}) = Cardinality(Uncounted(c)) - 1
        BY <3>1, <4>1, FS_RemoveElement, Zenon
      <4> QED  BY <3>1, <4>2
    <3>3. attempts'[c] + faults' >= attempts[c] + faults + 1
      BY <2>3
    <3> QED  BY <1>2, <2>1, <2>2, <2>3, <3>2, <3>3
  <2>4. CASE d # c
    <3>1. Uncounted(d)' = Uncounted(d) /\ attempts'[d] = attempts[d]
      BY <2>4 DEF Uncounted
    <3> QED  BY <1>2, <2>1, <2>2, <3>1
  <2> QED  BY <2>3, <2>4
<1> QED  BY <1>1, <1>3, <1>4 DEF Inv

\* Every step of the auth service preserves the invariant.
THEOREM NextInv == Inv /\ [Next]_vars => Inv'
<1> SUFFICES ASSUME Inv, [Next]_vars PROVE Inv'
  OBVIOUS
<1> USE ConstantsAssumption
<1>0. TypeOK
  BY DEF Inv
<1>1. ASSUME NEW k \in Clients, Issue(k) PROVE Inv'
  <2>1. TypeOK'
    BY <1>1 DEF Inv, TypeOK, Issue, Goto, PCs
  <2> QED  BY <1>1, <2>1, QuietStep DEF Issue, At, Goto, Inv, TypeOK
<1>2. ASSUME NEW k \in Clients, DeleteByEmail(k) PROVE Inv'
  <2>1. TypeOK'
    BY <1>2 DEF Inv, TypeOK, DeleteByEmail, Fault, Goto, PCs
  <2> QED  BY <1>2, <2>1, QuietStep DEF DeleteByEmail, Fault, At, Goto, Inv, TypeOK
<1>3. ASSUME NEW k \in Clients, Create(k) PROVE Inv'
  <2>1. /\ req' \in [Clients -> [pc : PCs, ch : 0..MaxChallenges]]
        /\ req'[k].pc = "idle" /\ req'[k].ch = 0
        /\ \A j \in Clients \ {k} : req'[j] = req[j]
        /\ faults' \in 0..MaxFaults /\ faults <= faults'
    BY <1>3, ReturnFacts, FaultFacts DEF Create, Inv
  <2>2. made \in Nat /\ made' = made + 1 /\ made' \in 0..MaxChallenges
    BY <1>3 DEF Create, Inv, TypeOK
  <2>3. stored' \subseteq stored \cup {made + 1}
    BY <1>3 DEF Create
  <2>4. stored' \subseteq 1..made' /\ used' \subseteq 1..made' /\ expired' \subseteq 1..made'
    BY <1>3, <2>2, <2>3 DEF Create, Inv, TypeOK
  <2>5. \A j \in Clients : req'[j].ch <= made'
    BY <2>1, <2>2 DEF Inv, TypeOK
  <2>6. TypeOK'
    BY <1>3, <2>1, <2>2, <2>4, <2>5 DEF Create, Inv, TypeOK
  <2>7. \A c \in Challenges : c \in stored' => c \in stored \/ c > made
    BY <2>2, <2>3 DEF Challenges
  <2>8. \A j \in Clients : /\ req'[j].pc = "increment" <=> req[j].pc = "increment"
                           /\ req[j].pc = "increment" => req'[j] = req[j]
    BY <1>3, <2>1 DEF Create, At
  <2> QED  BY <1>3, <2>1, <2>2, <2>6, <2>7, <2>8, QuietStep DEF Create
<1>4. ASSUME NEW k \in Clients, Lockout(k) PROVE Inv'
  <2>1. /\ req' \in [Clients -> [pc : PCs, ch : 0..MaxChallenges]]
        /\ req'[k].pc = "idle" /\ req'[k].ch = 0
        /\ \A j \in Clients \ {k} : req'[j] = req[j]
        /\ faults' \in 0..MaxFaults /\ faults <= faults'
    BY <1>4, ReturnFacts, FaultFacts DEF Lockout, Inv
  <2>2. TypeOK'
    <3>1. stored' \subseteq 1..made'
      BY <1>0, <1>4, Zenon DEF TypeOK, Lockout
    <3>2. \A j \in Clients : req'[j].ch <= made'
      BY <1>0, <1>4, <2>1 DEF TypeOK, Lockout
    <3> QED  BY <1>0, <1>4, <2>1, <3>1, <3>2 DEF TypeOK, Lockout
  <2>3. made <= made' /\ stored' \subseteq stored
    BY <1>0, <1>4 DEF Lockout, TypeOK
  <2>4. \A j \in Clients : /\ req'[j].pc = "increment" <=> req[j].pc = "increment"
                           /\ req[j].pc = "increment" => req'[j] = req[j]
    BY <1>4, <2>1 DEF Lockout, At
  <2> QED  BY <1>4, <2>1, <2>2, <2>3, <2>4, QuietStep DEF Lockout
<1>5. ASSUME NEW k \in Clients, MarkUsed(k) PROVE Inv'
  <2>1. /\ req' \in [Clients -> [pc : PCs, ch : 0..MaxChallenges]]
        /\ req'[k].pc = "idle" /\ req'[k].ch = 0
        /\ \A j \in Clients \ {k} : req'[j] = req[j]
    BY <1>5, ReturnFacts DEF MarkUsed, Inv
  <2>2. TypeOK'
    <3>2. \A j \in Clients : req'[j].ch <= made'
      BY <1>0, <1>5, <2>1 DEF TypeOK, MarkUsed
    <3>3. used' \subseteq 1..made' /\ stored' = stored
      BY <1>0, <1>5, Zenon DEF TypeOK, MarkUsed
    <3>4. accepted' \in [Challenges -> Nat]
      <4>1. accepted \in [Challenges -> Nat]
        BY <1>0 DEF TypeOK
      <4>2. /\ accepted' = [accepted EXCEPT ![req[k].ch] = accepted[req[k].ch] + 1]
            /\ req[k].ch \in stored
        BY <1>5 DEF MarkUsed
      <4>3. req[k].ch \in Challenges
        BY <1>0, <4>2 DEF TypeOK, Challenges
      <4>4. accepted[req[k].ch] + 1 \in Nat
        BY <4>1, <4>3
      <4> QED  BY <4>1, <4>2, <4>3, <4>4, Zenon
    <3>5. UNCHANGED <<made, stored, attempts, expired, faults, tries>>
      BY <1>5 DEF MarkUsed
    <3> QED  BY <1>0, <2>1, <3>2, <3>3, <3>4, <3>5 DEF TypeOK
  <2>3. UNCHANGED <<made, stored, attempts, tries, faults>> /\ made \in Nat /\ faults \in Nat
    BY <1>0, <1>5 DEF MarkUsed, TypeOK
  <2>4. \A j \in Clients : /\ req'[j].pc = "increment" <=> req[j].pc = "increment"
                           /\ req[j].pc = "increment" => req'[j] = req[j]
    BY <1>5, <2>1 DEF MarkUsed, At
  <2> QED  BY <2>2, <2>3, <2>4, QuietStep
<1>6. ASSUME NEW k \in Clients, MarkUsedFails(k) PROVE Inv'
  <2>1. /\ req' \in [Clients -> [pc : PCs, ch : 0..MaxChallenges]]
        /\ req'[k].pc = "idle" /\ req'[k].ch = 0
        /\ \A j \in Clients \ {k} : req'[j] = req[j]
        /\ faults' \in 0..MaxFaults /\ faults <= faults'
    BY <1>6, ReturnFacts, FaultFacts DEF MarkUsedFails, Inv
  <2>2. TypeOK'
    <3>1. used' \subseteq 1..made'
      BY <1>0, <1>6, Zenon DEF TypeOK, MarkUsedFails
    <3>2. \A j \in Clients : req'[j].ch <= made'
      BY <1>0, <1>6, <2>1 DEF TypeOK, MarkUsedFails
    <3> QED  BY <1>0, <1>6, <2>1, <3>1, <3>2 DEF TypeOK, MarkUsedFails
  <2>3. UNCHANGED <<made, stored, attempts, tries>> /\ made \in Nat
    BY <1>0, <1>6 DEF MarkUsedFails, TypeOK
  <2>4. \A j \in Clients : /\ req'[j].pc = "increment" <=> req[j].pc = "increment"
                           /\ req[j].pc = "increment" => req'[j] = req[j]
    BY <1>6, <2>1 DEF MarkUsedFails, At
  <2>5. made <= made' /\ stored' = stored
    BY <2>3
  <2> QED  BY <2>1, <2>2, <2>3, <2>4, <2>5, QuietStep
<1>9. ASSUME NEW c \in Challenges, Expire(c) PROVE Inv'
  <2>1. TypeOK'
    BY <1>9 DEF Inv, TypeOK, Expire
  <2> QED  BY <1>9, <2>1, QuietStep DEF Expire, Inv, TypeOK
<1>10. ASSUME NEW k \in Clients, NEW c \in Challenges, NEW right \in BOOLEAN,
              Verify(k, c, right)
       PROVE  Inv'
  <2> DEFINE pc == IF Locked(c) THEN "lockout" ELSE IF right THEN "markUsed" ELSE "increment"
  <2>1. /\ req[k].pc = "idle" /\ c \in stored /\ c \in 1..made
        /\ req' = [req EXCEPT ![k] = [pc |-> pc, ch |-> c]]
    BY <1>10, Zenon DEF Verify, Refused, At, Inv, TypeOK
  <2>2. pc \in PCs /\ (pc = "increment" <=> ~ Locked(c) /\ ~ right)
    BY DEF PCs
  <2> HIDE DEF pc
  <2>3. TypeOK'
    <3>1. req' \in [Clients -> [pc : PCs, ch : 0..MaxChallenges]]
      BY <1>0, <2>1, <2>2 DEF TypeOK, Challenges
    <3>2. \A j \in Clients : req'[j].ch <= made
      BY <1>0, <2>1, <2>2 DEF TypeOK
    <3>3. tries' \in [Challenges -> Nat]
      BY <1>0, <1>10 DEF Verify, TypeOK
    <3> QED  BY <1>0, <1>10, <3>1, <3>2, <3>3 DEF Verify, TypeOK
  <2>4. CASE pc # "increment"
    <3>1. tries' = tries
      BY <1>10, <2>2, <2>4 DEF Verify, Inv, TypeOK
    <3>2. \A j \in Clients : /\ req'[j].pc = "increment" <=> req[j].pc = "increment"
                             /\ req[j].pc = "increment" => req'[j] = req[j]
      BY <2>1, <2>4 DEF Inv, TypeOK
    <3>3. UNCHANGED <<made, stored, attempts, faults>> /\ made \in Nat /\ faults \in Nat
      BY <1>0, <1>10 DEF Verify, TypeOK
    <3>4. made <= made' /\ faults <= faults' /\ stored' = stored
      BY <3>3
    <3> QED  BY <2>3, <3>1, <3>2, <3>3, <3>4, QuietStep
  <2>5. CASE pc = "increment"
    <3>1. attempts[c] < OTPMaxAttempts /\ tries' = [tries EXCEPT ![c] = tries[c] + 1]
      <4>1. ~ Locked(c) /\ ~ right /\ attempts[c] \in Nat
        BY <1>0, <2>2, <2>5 DEF TypeOK
      <4>2. attempts[c] < OTPMaxAttempts
        BY <4>1 DEF Locked
      <4>3. tries' = [tries EXCEPT ![c] = IF Locked(c) \/ right THEN tries[c] ELSE tries[c] + 1]
        BY <1>0, <1>10 DEF Verify, TypeOK
      <4> QED  BY <4>1, <4>2, <4>3, Zenon
    <3>2. k \notin Uncounted(c) /\ Uncounted(c)' = Uncounted(c) \cup {k}
      BY <2>1, <2>5 DEF Uncounted, Inv, TypeOK
    <3>3. Cardinality(Uncounted(c)') = Cardinality(Uncounted(c)) + 1
      BY <3>2, FS_AddElement, UncountedFinite, Zenon
    <3>4. tries[c] <= attempts[c] + Cardinality(Uncounted(c)) + faults
      BY <2>1 DEF Inv, Accounted
    <3>5. /\ tries[c] \in Nat /\ attempts[c] \in Nat /\ faults \in Nat
          /\ Cardinality(Uncounted(c)) \in Nat /\ Cardinality(Clients) \in Nat
          /\ Cardinality(Uncounted(c)') <= Cardinality(Clients)
      <4>1. tries[c] \in Nat /\ attempts[c] \in Nat /\ faults \in Nat
        BY <1>0 DEF TypeOK
      <4> QED  BY <4>1, UncountedFinite, UncountedFiniteNext
    <3>6. tries'[c] = tries[c] + 1 /\ attempts' = attempts /\ faults' = faults
      BY <1>10, <3>1 DEF Verify, Inv, TypeOK
    <3>7. Accounted(c)'
      BY <3>3, <3>4, <3>5, <3>6 DEF Accounted
    <3>8. tries'[c] < OTPMaxAttempts + Cardinality(Clients) + faults'
      BY <3>1, <3>3, <3>4, <3>5, <3>6
    <3>9. ASSUME NEW d \in Challenges, d # c
          PROVE  Accounted(d)' /\ tries'[d] = tries[d] /\ Uncounted(d)' = Uncounted(d)
      <4>1. tries'[d] = tries[d]
        BY <3>1, <3>9 DEF Inv, TypeOK
      <4>2. Uncounted(d)' = Uncounted(d)
        BY <2>1, <3>9 DEF Uncounted, Inv, TypeOK
      <4> QED  BY <1>10, <4>1, <4>2 DEF Verify, Accounted, Inv
    <3>10. Untried' /\ GuessesBounded'
      <4>1. UNCHANGED made /\ made \in Nat BY <1>0, <1>10 DEF Verify, TypeOK
      <4>2. Untried'
        BY <2>1, <3>6, <3>9, <4>1 DEF Untried, Inv
      <4>3. GuessesBounded'
        BY <3>6, <3>8, <3>9 DEF GuessesBounded, Inv
      <4> QED  BY <4>2, <4>3
    <3> QED  BY <2>3, <3>7, <3>9, <3>10 DEF Inv
  <2> QED  BY <2>4, <2>5
<1>11. ASSUME NEW k \in Clients, Increment(k) PROVE Inv'
  <2> DEFINE c == req[k].ch
  <2>1. /\ req[k].pc = "increment" /\ c \in stored
        /\ attempts' = [attempts EXCEPT ![c] = @ + 1]
        /\ Goto(k, "lockout") \/ Return(k)
        /\ UNCHANGED <<made, stored, used, expired, faults, tries, accepted>>
    BY <1>11 DEF Increment, At
  <2>2. /\ req' \in [Clients -> [pc : PCs, ch : 0..MaxChallenges]]
        /\ req'[k].pc # "increment" /\ (req'[k].ch = 0 \/ req'[k].ch = c)
        /\ \A j \in Clients \ {k} : req'[j] = req[j]
    <3>1. CASE Return(k)
      BY <1>0, <3>1, ReturnFacts
    <3>2. CASE Goto(k, "lockout")
      BY <1>0, <3>2 DEF Goto, TypeOK, PCs
    <3> QED  BY <2>1, <3>1, <3>2
  <2>3. c \in Challenges /\ attempts[c] \in Nat /\ faults \in Nat
    BY <1>0, <2>1 DEF TypeOK, Challenges
  <2>4. attempts' \in [Challenges -> Nat] /\ attempts'[c] = attempts[c] + 1
    BY <1>0, <2>1, <2>3 DEF TypeOK
  <2>5. \A j \in Clients : req'[j].ch <= made
    BY <1>0, <2>2 DEF TypeOK
  <2>6. TypeOK'
    BY <1>0, <2>1, <2>2, <2>4, <2>5 DEF TypeOK
  <2>7. \A d \in Challenges \ {c} : attempts'[d] = attempts[d]
    BY <1>0, <2>1 DEF TypeOK
  <2>8. faults <= faults' /\ attempts'[c] + faults' >= attempts[c] + faults + 1
    BY <2>1, <2>3, <2>4
  <2> QED  BY <2>1, <2>2, <2>6, <2>7, <2>8, CountStep
<1>12. ASSUME NEW k \in Clients, IncrementFails(k) PROVE Inv'
  <2> DEFINE c == req[k].ch
  <2>1. /\ req[k].pc = "increment" /\ Return(k) /\ (Fault \/ UNCHANGED faults)
        /\ UNCHANGED <<made, stored, used, expired, tries, accepted>>
    BY <1>12 DEF IncrementFails, At
  <2>2. /\ req' \in [Clients -> [pc : PCs, ch : 0..MaxChallenges]]
        /\ req'[k].pc = "idle" /\ req'[k].ch = 0
        /\ \A j \in Clients \ {k} : req'[j] = req[j]
        /\ faults' \in 0..MaxFaults /\ faults <= faults'
    BY <1>0, <2>1, ReturnFacts, FaultFacts
  <2>3. \/ c \notin stored /\ attempts' = attempts
        \/ /\ c \in stored /\ faults' = faults + 1
           /\ attempts' = attempts \/ attempts' = [attempts EXCEPT ![c] = @ + 1]
    BY <1>12 DEF IncrementFails, Fault
  <2>4. c \in stored => c \in Challenges /\ attempts[c] \in Nat
    BY <1>0 DEF TypeOK, Challenges
  <2>5. /\ attempts' \in [Challenges -> Nat]
        /\ \A d \in Challenges \ {c} : attempts'[d] = attempts[d]
        /\ c \in stored => attempts'[c] \in Nat /\ attempts'[c] >= attempts[c]
    BY <1>0, <2>3, <2>4 DEF TypeOK
  <2>6. \A j \in Clients : req'[j].ch <= made
    BY <1>0, <2>2 DEF TypeOK
  <2>7. TypeOK'
    BY <1>0, <2>1, <2>2, <2>5, <2>6 DEF TypeOK
  <2>8. c \in stored => attempts'[c] + faults' >= attempts[c] + faults + 1
    <3>1. faults \in Nat
      BY <1>0 DEF TypeOK
    <3> QED  BY <2>3, <2>4, <2>5, <3>1
  <2> QED  BY <2>1, <2>2, <2>5, <2>7, <2>8, CountStep
<1>13. CASE UNCHANGED vars
  BY <1>13, QuietStep DEF vars, Inv, TypeOK
<1> QED
  BY <1>1, <1>2, <1>3, <1>4, <1>5, <1>6, <1>9, <1>10, <1>11, <1>12, <1>13
  DEF Next, Step

\* The invariant holds in every reachable state.
THEOREM Invariance == Spec => []Inv
BY InitInv, NextInv, PTL DEF Spec

\* Every variable of the model keeps its type: challenges, requests and
\* counters stay within what the code can hold.
THEOREM TypeCorrect == Spec => []TypeOK
<1>1. Inv => TypeOK
  BY DEF Inv
<1> QED  BY <1>1, Invariance, PTL

\* Verify's limit holds up to the requests in flight: a challenge is compared
\* with fewer wrong codes than the limit, the clients and the failed calls
\* together, however VerifyOTP requests interleave.
THEOREM GuessesAreBounded == Spec => []GuessesBounded
<1>1. Inv => GuessesBounded
  BY DEF Inv
<1> QED  BY <1>1, Invariance, PTL

\* No step of RequestOTP or VerifyOTP stores a deleted challenge again or makes
\* a used one usable.
THEOREM NeverRevived == Spec => NoRevival
<1> DEFINE Kept == \A c \in 1..made : /\ c \in stored' => c \in stored
                                      /\ c \in used => c \in used'
<1>1. ASSUME Inv, [Next]_vars PROVE [Kept]_vars
  <2> SUFFICES ASSUME Next PROVE Kept
    BY <1>1
  <2>1. made \in Nat
    BY <1>1 DEF Inv, TypeOK
  <2>2. ASSUME NEW k \in Clients, Create(k) PROVE Kept
    BY <2>1, <2>2, SMTT(30) DEF Create
  <2>3. ASSUME NEW k \in Clients,
               \/ Issue(k) \/ DeleteByEmail(k) \/ Increment(k) \/ IncrementFails(k)
               \/ Lockout(k)
        PROVE  Kept
    BY <2>3 DEF Issue, DeleteByEmail, Increment, IncrementFails, Lockout
  <2>4. ASSUME NEW k \in Clients,
               \/ MarkUsed(k) \/ MarkUsedFails(k)
        PROVE  Kept
    BY <2>4 DEF MarkUsed, MarkUsedFails
  <2>5. ASSUME NEW k \in Clients, NEW c \in Challenges, NEW right \in BOOLEAN,
               Verify(k, c, right)
        PROVE  Kept
    BY <2>5 DEF Verify
  <2>6. ASSUME NEW c \in Challenges, Expire(c) PROVE Kept
    BY <2>6 DEF Expire
  <2> HIDE DEF Kept
  <2> QED  BY <2>2, <2>3, <2>4, <2>5, <2>6 DEF Next, Step
<1> QED  BY <1>1, Invariance, PTL DEF Spec, NoRevival

(***************************************************************************)
(* How often a challenge is used, and how many are stored.                 *)
(***************************************************************************)

\* The requests that have found challenge c unused and will mark it used.
Marking(c) == {k \in Clients : req[k].pc = "markUsed" /\ req[k].ch = c}

\* Once a challenge is used, only the requests that read it before let others in.
UsesOK(c) ==
    IF c \in used THEN accepted[c] + Cardinality(Marking(c)) <= Cardinality(Clients)
    ELSE accepted[c] = 0

\* The requests that have deleted the prior challenges and will store one.
Creating == {k \in Clients : req[k].pc = "create"}

\* Every stored challenge, and every one about to be, is owed to a client whose
\* request overlapped another one or to a deletion that failed.
StoredOK == Cardinality(stored) + Cardinality(Creating) <= Cardinality(Clients) + faults

Counts == StoredOK /\ \A c \in Challenges : UsesOK(c)

\* A set of clients is finite and no larger than all of them.
LEMMA ClientSets ==
    ASSUME NEW S \in SUBSET Clients
    PROVE  /\ IsFiniteSet(S) /\ Cardinality(S) \in Nat /\ Cardinality(Clients) \in Nat
           /\ Cardinality(S) <= Cardinality(Clients)
BY ConstantsAssumption, FS_Subset, FS_CardinalityType

\* A set of challenges is finite.
LEMMA StoredFinite ==
    ASSUME NEW n \in Nat, NEW S \in SUBSET (1..n)
    PROVE  IsFiniteSet(S) /\ Cardinality(S) \in Nat
<1>1. IsFiniteSet(1..n)
  BY FS_Interval
<1> QED  BY <1>1, FS_Subset, FS_CardinalityType, Zenon

\* Goto moves one request.
LEMMA GotoFacts ==
    ASSUME TypeOK, NEW k \in Clients, NEW pc \in PCs, Goto(k, pc)
    PROVE  /\ req'[k].pc = pc /\ req'[k].ch = req[k].ch
           /\ \A j \in Clients \ {k} : req'[j] = req[j]
BY DEF Goto, TypeOK

\* A step that lets no request through, and adds none that will mark a challenge
\* used that already is.
LEMMA UsesKept ==
    ASSUME NEW c \in Challenges, UsesOK(c), accepted'[c] = accepted[c],
           c \in used => c \in used' /\ Marking(c)' \subseteq Marking(c),
           accepted[c] \in Nat
    PROVE  UsesOK(c)'
<1>1. /\ Cardinality(Marking(c)) \in Nat /\ Cardinality(Marking(c)') \in Nat
      /\ Cardinality(Clients) \in Nat /\ Cardinality(Marking(c)') <= Cardinality(Clients)
      /\ IsFiniteSet(Marking(c))
  BY ClientSets DEF Marking
<1>2. CASE c \in used
  <2>1. Cardinality(Marking(c)') <= Cardinality(Marking(c))
    BY <1>1, <1>2, FS_Subset
  <2>2. accepted[c] + Cardinality(Marking(c)) <= Cardinality(Clients)
    BY <1>2 DEF UsesOK
  <2>3. accepted'[c] + Cardinality(Marking(c)') <= Cardinality(Clients)
    BY <1>1, <2>1, <2>2
  <2> QED  BY <1>2, <2>3 DEF UsesOK
<1>3. CASE c \notin used
  <2>1. accepted'[c] = 0 /\ 0 + Cardinality(Marking(c)') <= Cardinality(Clients)
    BY <1>1, <1>3 DEF UsesOK
  <2> QED  BY <2>1 DEF UsesOK
<1> QED  BY <1>2, <1>3

\* A step that neither stores a challenge nor is about to.
LEMMA StoredKept ==
    ASSUME TypeOK, StoredOK, stored' \subseteq stored, Creating' \subseteq Creating,
           faults' \in Nat, faults <= faults'
    PROVE  StoredOK'
<1>1. /\ Cardinality(Creating) \in Nat /\ Cardinality(Creating') \in Nat
      /\ Cardinality(Clients) \in Nat /\ IsFiniteSet(Creating)
  BY ClientSets DEF Creating
<1>2. /\ IsFiniteSet(stored) /\ Cardinality(stored) \in Nat
      /\ Cardinality(stored') \in Nat /\ faults \in Nat
  <2>1. made \in Nat /\ stored \in SUBSET (1..made) /\ faults \in Nat
    BY ConstantsAssumption DEF TypeOK
  <2>2. stored' \in SUBSET (1..made)
    BY <2>1
  <2> QED  BY <2>1, <2>2, StoredFinite
<1>3. Cardinality(Creating') <= Cardinality(Creating) /\ Cardinality(stored') <= Cardinality(stored)
  BY <1>1, <1>2, FS_Subset
<1> QED  BY <1>1, <1>2, <1>3 DEF StoredOK

\* At first no challenge is stored or used.
THEOREM InitCounts == Init => Counts
<1> SUFFICES ASSUME Init PROVE Counts
  OBVIOUS
<1>1. StoredOK
  <2>1. stored = {} /\ Creating = {} /\ faults = 0
    BY DEF Init, Creating, Idle
  <2> QED  BY <2>1, FS_EmptySet, ClientSets DEF StoredOK
<1>2. \A c \in Challenges : UsesOK(c)
  BY DEF Init, UsesOK
<1> QED  BY <1>1, <1>2 DEF Counts

\* Every step of RequestOTP and VerifyOTP keeps both counts.
THEOREM NextCounts == Inv /\ Counts /\ [Next]_vars => Counts'
<1> SUFFICES ASSUME TypeOK, Counts, [Next]_vars PROVE Counts'
  BY DEF Inv
<1>0. /\ StoredOK /\ \A c \in Challenges : UsesOK(c) /\ accepted[c] \in Nat
      /\ faults \in Nat /\ faults <= faults /\ made \in Nat
  BY ConstantsAssumption DEF Counts, TypeOK
<1>1. ASSUME NEW k \in Clients, Issue(k) \/ Increment(k) \/ IncrementFails(k) \/ Lockout(k)
      PROVE  Counts'
  <2>1. /\ req'[k].pc \in {"delete", "lockout", "idle"} /\ \A j \in Clients \ {k} : req'[j] = req[j]
    BY <1>1, GotoFacts, ReturnFacts DEF Issue, Increment, IncrementFails, Lockout, PCs
  <2>2. /\ stored' \subseteq stored /\ UNCHANGED <<used, accepted>>
        /\ faults' \in Nat /\ faults <= faults'
    BY <1>0, <1>1, FaultFacts DEF Issue, Increment, IncrementFails, Lockout
  <2>3. Creating' \subseteq Creating /\ \A c \in Challenges : Marking(c)' \subseteq Marking(c)
    BY <2>1 DEF Creating, Marking
  <2> QED  BY <1>0, <2>2, <2>3, StoredKept, UsesKept, SMTT(30) DEF Counts
<1>2. ASSUME NEW k \in Clients, DeleteByEmail(k) PROVE Counts'
  <2>1. /\ req[k].pc = "delete" /\ req'[k].pc = "create" /\ \A j \in Clients \ {k} : req'[j] = req[j]
        /\ UNCHANGED <<used, accepted>>
    BY <1>2, GotoFacts DEF DeleteByEmail, At, PCs
  <2>2. k \notin Creating /\ Creating' = Creating \cup {k}
    BY <2>1 DEF Creating
  <2>3. \A c \in Challenges : Marking(c)' \subseteq Marking(c)
    BY <2>1 DEF Marking
  <2>4. /\ Cardinality(Creating) \in Nat /\ IsFiniteSet(Creating) /\ Cardinality(Clients) \in Nat
        /\ Cardinality(Creating') <= Cardinality(Clients) /\ Cardinality(Creating') \in Nat
    BY ClientSets DEF Creating
  <2>5. Cardinality(Creating') = Cardinality(Creating) + 1
    BY <2>2, <2>4, FS_AddElement, Zenon
  <2>6. CASE stored' = {} /\ UNCHANGED faults
    <3>1. Cardinality(stored') = 0
      BY <2>6, FS_EmptySet
    <3>2. StoredOK'
      <4>1. faults \in Nat /\ faults' = faults /\ Clients' = Clients
        BY <1>0, <2>6 DEF TypeOK
      <4> QED  BY <2>4, <3>1, <4>1 DEF StoredOK
    <3>3. \A c \in Challenges : UsesOK(c)'
      BY <1>0, <2>1, <2>3, UsesKept DEF Counts
    <3> QED  BY <3>2, <3>3 DEF Counts
  <2>7. CASE UNCHANGED stored /\ Fault
    <3>1. Cardinality(stored) \in Nat /\ faults' = faults + 1
      BY <1>0, <2>7, StoredFinite, Zenon DEF TypeOK, Fault
    <3>2. StoredOK'
      BY <1>0, <2>4, <2>5, <2>7, <3>1 DEF StoredOK
    <3> QED  BY <1>0, <2>1, <2>3, <3>2, UsesKept DEF Counts
  <2> QED  BY <1>2, <2>6, <2>7 DEF DeleteByEmail
<1>3. ASSUME NEW k \in Clients, Create(k) PROVE Counts'
  <2>1. /\ req[k].pc = "create" /\ req'[k].pc = "idle" /\ \A j \in Clients \ {k} : req'[j] = req[j]
        /\ UNCHANGED <<used, accepted>> /\ (Fault \/ UNCHANGED faults)
        /\ stored' \in {stored, stored \cup {made + 1}}
    BY <1>3, ReturnFacts DEF Create, At
  <2>2. k \in Creating /\ Creating' = Creating \ {k}
    BY <2>1 DEF Creating
  <2>3. \A c \in Challenges : Marking(c)' \subseteq Marking(c)
    BY <2>1 DEF Marking
  <2>4. /\ Cardinality(Creating) \in Nat /\ IsFiniteSet(Creating) /\ Cardinality(Clients) \in Nat
        /\ Cardinality(Creating') \in Nat
    BY ClientSets DEF Creating
  <2>5. Cardinality(Creating') = Cardinality(Creating) - 1
    BY <2>2, <2>4, FS_RemoveElement
  <2>6. /\ IsFiniteSet(stored) /\ Cardinality(stored) \in Nat
    BY <1>0, StoredFinite, Zenon DEF TypeOK
  <2>7. Cardinality(stored \cup {made + 1}) <= Cardinality(stored) + 1 /\ Cardinality(stored \cup {made + 1}) \in Nat
    BY <2>6, FS_AddElement
  <2>8. faults' \in Nat /\ faults <= faults'
    BY <2>1, FaultFacts
  <2>9. Cardinality(stored') <= Cardinality(stored) + 1 /\ Cardinality(stored') \in Nat
    BY <2>1, <2>6, <2>7
  <2>10. StoredOK'
    BY <1>0, <2>4, <2>5, <2>6, <2>8, <2>9 DEF StoredOK
  <2> QED  BY <1>0, <2>1, <2>3, <2>10, UsesKept DEF Counts
<1>4. ASSUME NEW k \in Clients, MarkUsed(k) PROVE Counts'
  <2>0. PICK c \in Challenges : c = req[k].ch
    <3>1. req[k].ch \in 1..made /\ made \in 0..MaxChallenges
      BY <1>4 DEF MarkUsed, TypeOK
    <3> QED  BY <3>1, ConstantsAssumption DEF Challenges
  <2>1. /\ req[k].pc = "markUsed" /\ req'[k].pc = "idle" /\ \A j \in Clients \ {k} : req'[j] = req[j]
        /\ used' = used \cup {c} /\ UNCHANGED <<stored, faults>>
        /\ accepted' = [accepted EXCEPT ![c] = accepted[c] + 1]
    BY <1>4, <2>0, ReturnFacts DEF MarkUsed, At
  <2>2. StoredOK'
    <3>1. Creating' \subseteq Creating
      BY <2>1 DEF Creating
    <3> QED  BY <1>0, <2>1, <3>1, StoredKept
  <2>3. accepted'[c] = accepted[c] + 1 /\ \A d \in Challenges \ {c} : accepted'[d] = accepted[d]
    BY <2>1 DEF TypeOK
  <2>4. k \in Marking(c) /\ Marking(c)' = Marking(c) \ {k}
    BY <2>0, <2>1 DEF Marking
  <2>5. UsesOK(c)'
    <3>1. /\ Cardinality(Marking(c)) \in Nat /\ IsFiniteSet(Marking(c))
          /\ Cardinality(Clients) \in Nat /\ Cardinality(Marking(c)) <= Cardinality(Clients)
      BY ClientSets DEF Marking
    <3>2. Cardinality(Marking(c)') = Cardinality(Marking(c)) - 1
      <4>1. Cardinality(Marking(c) \ {k}) = Cardinality(Marking(c)) - 1
        BY <2>4, <3>1, FS_RemoveElement, Zenon
      <4> QED  BY <2>4, <4>1
    <3>3. accepted[c] \in Nat /\ accepted[c] + Cardinality(Marking(c)) <= Cardinality(Clients)
      BY <1>0, <2>1, <3>1 DEF UsesOK
    <3>4. accepted'[c] + Cardinality(Marking(c)') <= Cardinality(Clients)
      BY <2>3, <3>1, <3>2, <3>3
    <3>5. c \in used'
      BY <2>1
    <3> QED  BY <3>4, <3>5 DEF UsesOK
  <2>6. ASSUME NEW d \in Challenges \ {c} PROVE UsesOK(d)'
    <3>1. Marking(d)' \subseteq Marking(d) /\ accepted'[d] = accepted[d] /\ (d \in used => d \in used')
      BY <2>0, <2>1, <2>3, <2>6 DEF Marking
    <3> QED  BY <1>0, <3>1, UsesKept
  <2> QED  BY <2>2, <2>5, <2>6 DEF Counts
<1>5. ASSUME NEW k \in Clients, MarkUsedFails(k) PROVE Counts'
  <2>1. /\ req'[k].pc = "idle" /\ \A j \in Clients \ {k} : req'[j] = req[j]
        /\ faults' \in Nat /\ faults <= faults'
        /\ used \subseteq used' /\ UNCHANGED <<stored, accepted>>
    BY <1>0, <1>5, ReturnFacts, FaultFacts DEF MarkUsedFails
  <2>2. Creating' \subseteq Creating /\ \A c \in Challenges : Marking(c)' \subseteq Marking(c)
    BY <2>1 DEF Creating, Marking
  <2> QED  BY <1>0, <2>1, <2>2, StoredKept, UsesKept DEF Counts
<1>6. ASSUME NEW k \in Clients, NEW c \in Challenges, NEW right \in BOOLEAN, Verify(k, c, right)
      PROVE  Counts'
  <2>1. PICK pc \in {"lockout", "markUsed", "increment"} :
          req' = [req EXCEPT ![k] = [pc |-> pc, ch |-> c]]
    BY <1>6, Zenon DEF Verify
  <2>2. /\ req'[k] = [pc |-> pc, ch |-> c] /\ \A j \in Clients \ {k} : req'[j] = req[j]
        /\ c \notin used /\ UNCHANGED <<stored, used, accepted, faults>>
    BY <1>6, <2>1 DEF Verify, Refused, TypeOK
  <2>3. Creating' \subseteq Creating /\ \A d \in Challenges \ {c} : Marking(d)' \subseteq Marking(d)
    BY <2>2 DEF Creating, Marking
  <2> QED  BY <1>0, <2>2, <2>3, StoredKept, UsesKept DEF Counts
<1>7. CASE UNCHANGED vars \/ \E c \in Challenges : Expire(c)
  <2>1. UNCHANGED <<stored, used, accepted, faults, req>>
    BY <1>7 DEF vars, Expire
  <2>2. Creating' = Creating /\ \A c \in Challenges : Marking(c)' = Marking(c)
    BY <2>1 DEF Creating, Marking
  <2> QED  BY <1>0, <2>1, <2>2, StoredKept, UsesKept DEF Counts
<1> QED
  BY <1>1, <1>2, <1>3, <1>4, <1>5, <1>6, <1>7 DEF Next, Step

\* Both counts hold in every reachable state.
THEOREM CountsInvariant == Spec => []Counts
BY InitCounts, NextCounts, Invariance, PTL DEF Spec

\* A challenge lets no more requests through than there are clients whose
\* requests may overlap between GetByID and MarkUsed.
THEOREM UsesAreBounded == Spec => []UsesBounded
<1>1. ASSUME TypeOK, Counts, NEW c \in Challenges PROVE accepted[c] <= Cardinality(Clients)
  <2>1. /\ UsesOK(c) /\ accepted[c] \in Nat
        /\ Cardinality(Marking(c)) \in Nat /\ Cardinality(Clients) \in Nat
    BY <1>1, ClientSets DEF Counts, TypeOK, Marking
  <2> QED  BY <2>1 DEF UsesOK
<1>2. TypeOK /\ Counts => UsesBounded
  BY <1>1 DEF UsesBounded
<1> QED  BY <1>2, TypeCorrect, CountsInvariant, PTL

\* RequestOTP leaves one challenge for each client, and each failed deletion, at
\* most.
THEOREM ChallengesAreBounded == Spec => []ChallengesBounded
<1>1. ASSUME TypeOK, Counts PROVE ChallengesBounded
  <2>1. /\ Cardinality(stored) \in Nat /\ faults \in Nat
        /\ Cardinality(Creating) \in Nat /\ Cardinality(Clients) \in Nat
    <3>1. made \in Nat /\ stored \in SUBSET (1..made) /\ faults \in Nat
      BY <1>1, ConstantsAssumption DEF TypeOK
    <3> QED  BY <3>1, StoredFinite, ClientSets, Zenon DEF Creating
  <2> QED  BY <1>1, <2>1 DEF Counts, StoredOK, ChallengesBounded
<1> QED  BY <1>1, TypeCorrect, CountsInvariant, PTL

(***************************************************************************)
(* The challenge made last.                                                *)
(***************************************************************************)

\* What a counter counts, and what is about to be counted, has been compared.
Compared(c) == attempts[c] + Cardinality(Uncounted(c)) <= tries[c]

\* A request that counts a wrong code or locks a challenge out has read it, and
\* the counter of the one it locks out has reached the limit.
Limited(k) ==
    /\ req[k].pc \in {"increment", "lockout"} => req[k].ch \in 1..made
    /\ req[k].pc = "lockout" => attempts[req[k].ch] >= OTPMaxAttempts

\* Requests of one client do not overlap: until a call fails, it has no challenge
\* but the latest, and none between the deletion and the creation.
Alone ==
    faults = 0 /\ ~ (Cardinality(Clients) > 1) =>
        /\ stored \subseteq {made}
        /\ \A k \in Clients : /\ req[k].pc = "create" => stored = {}
                              /\ req[k].pc \in {"increment", "lockout"} => req[k].ch = made

Latest == /\ LatestStored /\ Alone
          /\ \A c \in Challenges : Compared(c)
          /\ \A k \in Clients : Limited(k)

\* Where there is no more than one client, any two are the same.
LEMMA OneClient ==
    ASSUME NEW j \in Clients, NEW k \in Clients, ~ (Cardinality(Clients) > 1)
    PROVE  j = k
<1> SUFFICES ASSUME j # k PROVE FALSE
  OBVIOUS
<1>1. IsFiniteSet({j}) /\ Cardinality({j}) = 1
  BY FS_Singleton, Zenon
<1>2. Cardinality({j} \cup {k}) = 2
  BY <1>1, FS_AddElement
<1>3. Cardinality({j} \cup {k}) <= Cardinality(Clients) /\ Cardinality(Clients) \in Nat
  BY ConstantsAssumption, FS_Subset, FS_CardinalityType
<1> QED  BY <1>2, <1>3

\* Compared(c) stays true while nothing of c is compared or counted and no further
\* request is about to.
LEMMA ComparedKept ==
    ASSUME Inv, Inv', NEW c \in Challenges, Compared(c),
           tries'[c] >= tries[c], attempts'[c] = attempts[c],
           Uncounted(c)' \subseteq Uncounted(c)
    PROVE  Compared(c)'
<1>1. /\ tries[c] \in Nat /\ tries'[c] \in Nat /\ attempts[c] \in Nat /\ attempts'[c] \in Nat
  BY DEF Inv, TypeOK
<1>2. /\ IsFiniteSet(Uncounted(c)) /\ Cardinality(Uncounted(c)) \in Nat
      /\ Cardinality(Uncounted(c)') \in Nat
  BY UncountedFinite, UncountedFiniteNext
<1>3. Cardinality(Uncounted(c)') <= Cardinality(Uncounted(c))
  BY <1>2, FS_Subset
<1> QED  BY <1>1, <1>2, <1>3 DEF Compared

\* Limited(k) stays true when client k does not move and no counter goes back.
LEMMA LimitedKept ==
    ASSUME Inv, Inv', NEW k \in Clients, Limited(k), req'[k] = req[k], made <= made',
           \A c \in Challenges : attempts'[c] >= attempts[c]
    PROVE  Limited(k)'
<1>1. made \in Nat /\ made' \in Nat /\ 1..made \subseteq Challenges
  BY ConstantsAssumption DEF Inv, TypeOK, Challenges
<1>2. \A c \in Challenges : attempts[c] \in Nat /\ attempts'[c] \in Nat
  BY DEF Inv, TypeOK
<1>3. OTPMaxAttempts \in Nat
  BY ConstantsAssumption
<1> QED  BY <1>1, <1>2, <1>3 DEF Limited

\* LatestStored stays true when nothing is deleted or created.
LEMMA LatestKept ==
    ASSUME Inv, Inv', LatestStored, made' = made, stored' = stored, faults <= faults',
           \A c \in Challenges : tries'[c] >= tries[c],
           \A k \in Clients : req[k].pc = "create" => req'[k].pc = "create"
    PROVE  LatestStored'
<1>1. /\ made \in Nat /\ 1..made \subseteq Challenges
      /\ faults \in Nat /\ faults' \in Nat /\ OTPMaxAttempts \in Nat
  BY ConstantsAssumption DEF Inv, TypeOK, Challenges
<1>2. \A c \in Challenges : tries[c] \in Nat /\ tries'[c] \in Nat
  BY DEF Inv, TypeOK
<1> QED  BY <1>1, <1>2 DEF LatestStored, At

\* Nothing is stored or compared in the beginning.
THEOREM InitLatest == Init => Latest
<1> SUFFICES ASSUME Init PROVE Latest
  OBVIOUS
<1>1. LatestStored /\ Alone /\ \A k \in Clients : Limited(k)
  BY DEF Init, LatestStored, Alone, Limited, Idle
<1>2. ASSUME NEW c \in Challenges PROVE Compared(c)
  <2>1. Uncounted(c) = {}
    BY DEF Init, Uncounted, Idle
  <2> QED  BY <2>1, FS_EmptySet DEF Init, Compared
<1> QED  BY <1>1, <1>2 DEF Latest

\* Every step keeps the latest challenge, or has a reason not to.
THEOREM NextLatest == Inv /\ Inv' /\ Latest /\ [Next]_vars => Latest'
<1> SUFFICES ASSUME Inv, Inv', Latest, [Next]_vars PROVE Latest'
  OBVIOUS
<1>0. /\ TypeOK /\ LatestStored /\ Alone
      /\ \A c \in Challenges : Compared(c)
      /\ \A k \in Clients : Limited(k)
      /\ made \in Nat /\ faults \in Nat /\ OTPMaxAttempts \in Nat
      /\ \A c \in Challenges : attempts[c] \in Nat /\ tries[c] \in Nat
      /\ 1..made \subseteq Challenges
  <2>1. TypeOK
    BY DEF Inv
  <2>2. made \in 0..MaxChallenges
    BY <2>1 DEF TypeOK
  <2>3. made \in Nat /\ 1..made \subseteq Challenges
    BY <2>2, ConstantsAssumption DEF Challenges
  <2> QED  BY <2>1, <2>3, ConstantsAssumption DEF TypeOK, Latest
<1>1. ASSUME UNCHANGED <<made, attempts, tries>>, stored' = stored, faults <= faults',
             NEW k \in Clients, req[k].pc # "create",
             req'[k].pc \in {"idle", "delete", "markUsed"},
             \A j \in Clients \ {k} : req'[j] = req[j]
      PROVE  Latest'
  <2>1. \A c \in Challenges : Uncounted(c)' \subseteq Uncounted(c)
    BY <1>1 DEF Uncounted
  <2>2. \A c \in Challenges : Compared(c)'
    BY <1>0, <1>1, <2>1, ComparedKept
  <2>3. \A j \in Clients : Limited(j)'
    <3>1. Limited(k)'
      BY <1>1 DEF Limited
    <3> QED  BY <1>0, <1>1, <3>1, LimitedKept
  <2>4. LatestStored'
    BY <1>0, <1>1, LatestKept, SMTT(30)
  <2>5. Alone'
    BY <1>0, <1>1 DEF Alone, Inv, TypeOK
  <2> QED  BY <2>2, <2>3, <2>4, <2>5 DEF Latest
<1>2. ASSUME NEW k \in Clients, Issue(k) PROVE Latest'
  <2>1. req'[k].pc = "delete" /\ \A j \in Clients \ {k} : req'[j] = req[j]
    BY <1>0, <1>2 DEF Issue, Goto, TypeOK
  <2>2. req[k].pc = "idle" /\ UNCHANGED <<made, stored, attempts, faults, tries>>
    BY <1>2 DEF Issue, At
  <2>3. faults <= faults'
    BY <1>0, <2>2, SMTT(30)
  <2> QED  BY <1>1, <2>1, <2>2, <2>3
<1>3. ASSUME NEW k \in Clients, MarkUsed(k) \/ MarkUsedFails(k) PROVE Latest'
  <2>1. req'[k].pc = "idle" /\ \A j \in Clients \ {k} : req'[j] = req[j]
    BY <1>0, <1>3, ReturnFacts DEF MarkUsed, MarkUsedFails
  <2>2. faults <= faults'
    BY <1>0, <1>3, FaultFacts DEF MarkUsed, MarkUsedFails
  <2> QED  BY <1>1, <1>3, <2>1, <2>2, SMTT(30) DEF MarkUsed, MarkUsedFails, At
<1>4. ASSUME NEW k \in Clients, DeleteByEmail(k) PROVE Latest'
  <2>1. req'[k].pc = "create" /\ \A j \in Clients \ {k} : req'[j] = req[j]
    BY <1>0, <1>4 DEF DeleteByEmail, Goto, TypeOK
  <2>2. /\ UNCHANGED <<made, attempts, tries>> /\ faults <= faults' /\ faults' \in Nat
        /\ stored' = {} \/ (stored' = stored /\ faults' # 0)
    BY <1>0, <1>4 DEF DeleteByEmail, Fault
  <2>3. \A c \in Challenges : Compared(c)'
    <3>1. \A c \in Challenges : Uncounted(c)' \subseteq Uncounted(c)
      BY <2>1 DEF Uncounted
    <3> QED  BY <1>0, <2>2, <3>1, ComparedKept
  <2>4. \A j \in Clients : Limited(j)'
    <3>1. Limited(k)'
      BY <2>1 DEF Limited
    <3> QED  BY <1>0, <2>1, <2>2, <3>1, LimitedKept
  <2>5. LatestStored'
    BY <2>1 DEF LatestStored, At
  <2>6. Alone'
    BY <1>0, <2>1, <2>2, SMTT(30) DEF Alone
  <2> QED  BY <2>3, <2>4, <2>5, <2>6 DEF Latest
<1>5. ASSUME NEW k \in Clients, Create(k) PROVE Latest'
  <2>1. req[k].pc = "create" /\ req'[k].pc = "idle" /\ \A j \in Clients \ {k} : req'[j] = req[j]
    BY <1>0, <1>5, ReturnFacts DEF Create, At
  <2>2. /\ made' = made + 1 /\ UNCHANGED <<attempts, tries>> /\ faults <= faults' /\ faults' \in Nat
        /\ stored' = stored \cup {made'} \/ faults' # 0
    BY <1>0, <1>5 DEF Create, Fault
  <2>3. \A c \in Challenges : Compared(c)'
    <3>1. \A c \in Challenges : Uncounted(c)' \subseteq Uncounted(c)
      BY <2>1 DEF Uncounted
    <3> QED  BY <1>0, <2>2, <3>1, ComparedKept
  <2>4. \A j \in Clients : Limited(j)'
    <3>1. Limited(k)'
      BY <2>1 DEF Limited
    <3>2. made <= made'
      BY <1>0, <2>2
    <3> QED  BY <1>0, <2>1, <2>2, <3>1, <3>2, LimitedKept
  <2>5. LatestStored'
    BY <2>2 DEF LatestStored
  <2>6. Alone'
    <3> SUFFICES ASSUME faults' = 0, ~ (Cardinality(Clients) > 1)
                 PROVE  /\ stored' \subseteq {made'}
                        /\ \A j \in Clients : req'[j].pc = "idle"
      BY DEF Alone
    <3>1. \A j \in Clients : j = k
      BY OneClient
    <3>2. faults = 0
      BY <1>0, <2>2, SMTT(30)
    <3>3. stored = {}
      BY <1>0, <2>1, <3>2, SMTT(30) DEF Alone
    <3> QED  BY <2>1, <2>2, <3>1, <3>3
  <2> QED  BY <2>3, <2>4, <2>5, <2>6 DEF Latest
<1>6. ASSUME NEW k \in Clients, Lockout(k) PROVE Latest'
  <2>1. req[k].pc = "lockout" /\ req'[k].pc = "idle" /\ \A j \in Clients \ {k} : req'[j] = req[j]
    BY <1>0, <1>6, ReturnFacts DEF Lockout, At
  <2>2. /\ UNCHANGED <<made, attempts, tries>> /\ faults <= faults' /\ faults' \in Nat
        /\ (stored' = {} /\ faults' = faults) \/ faults' # 0
    BY <1>0, <1>6 DEF Lockout, Fault
  <2>3. \A c \in Challenges : Compared(c)'
    <3>1. \A c \in Challenges : Uncounted(c)' \subseteq Uncounted(c)
      BY <2>1 DEF Uncounted
    <3> QED  BY <1>0, <2>2, <3>1, ComparedKept
  <2>4. \A j \in Clients : Limited(j)'
    <3>1. Limited(k)'
      BY <2>1 DEF Limited
    <3> QED  BY <1>0, <2>1, <2>2, <3>1, LimitedKept
  <2>5. LatestStored'
    <3> SUFFICES ASSUME faults' = 0
                 PROVE  \E c \in 1..made : /\ tries[c] >= OTPMaxAttempts
                                           /\ c = made \/ Cardinality(Clients) > 1
      BY <2>2 DEF LatestStored
    <3>1. PICK c : c = req[k].ch
      OBVIOUS
    <3>2. c \in 1..made /\ attempts[c] >= OTPMaxAttempts
      BY <1>0, <2>1, <3>1 DEF Limited
    <3>3. c \in Challenges
      BY <1>0, <3>2
    <3>4. tries[c] >= attempts[c]
      BY <1>0, <3>3, UncountedFinite DEF Compared
    <3>5. tries[c] >= OTPMaxAttempts
      BY <1>0, <3>2, <3>3, <3>4
    <3>6. c = made \/ Cardinality(Clients) > 1
      BY <1>0, <2>1, <2>2, <3>1 DEF Alone
    <3> QED  BY <3>2, <3>5, <3>6
  <2>6. Alone'
    <3>1. faults' = 0 => stored' = {} /\ faults = 0
      BY <1>0, <2>2
    <3> QED  BY <1>0, <2>1, <2>2, <3>1 DEF Alone
  <2> QED  BY <2>3, <2>4, <2>5, <2>6 DEF Latest
<1>7. ASSUME NEW k \in Clients, Increment(k) \/ IncrementFails(k) PROVE Latest'
  <2>1. PICK c : c = req[k].ch
    BY SMTT(30)
  <2>2. /\ req[k].pc = "increment" /\ UNCHANGED <<made, stored, tries>>
        /\ faults <= faults'
    BY <1>0, <1>7, FaultFacts DEF Increment, IncrementFails, At
  <2>3. c \in 1..made /\ c \in Challenges
    BY <1>0, <2>1, <2>2 DEF Limited, TypeOK, Challenges
  <2>4. attempts' = attempts \/ attempts' = [attempts EXCEPT ![c] = @ + 1]
    BY <1>7, <2>1 DEF Increment, IncrementFails
  <2>5. /\ \A d \in Challenges : attempts'[d] >= attempts[d]
        /\ \A d \in Challenges \ {c} : attempts'[d] = attempts[d]
        /\ attempts'[c] \in {attempts[c], attempts[c] + 1}
    BY <1>0, <2>3, <2>4 DEF TypeOK
  <2>6. /\ \A j \in Clients \ {k} : req'[j] = req[j]
        /\ \/ req'[k].pc = "idle"
           \/ /\ req'[k].pc = "lockout" /\ req'[k].ch = c
              /\ attempts'[c] >= OTPMaxAttempts
    <3>1. CASE Return(k)
      BY <1>0, <3>1, ReturnFacts
    <3>2. CASE ~ Return(k)
      <4>1. /\ Goto(k, "lockout") /\ attempts[c] + 1 >= OTPMaxAttempts
            /\ attempts' = [attempts EXCEPT ![c] = @ + 1]
        BY <1>7, <2>1, <3>2 DEF Increment, IncrementFails
      <4>2. attempts'[c] = attempts[c] + 1
        BY <1>0, <2>3, <4>1 DEF TypeOK
      <4>3. /\ req'[k].pc = "lockout" /\ req'[k].ch = c
            /\ \A j \in Clients \ {k} : req'[j] = req[j]
        BY <1>0, <2>1, <4>1 DEF Goto, TypeOK
      <4> QED  BY <1>0, <2>3, <4>1, <4>2, <4>3
    <3> QED  BY <3>1, <3>2
  <2>7. \A d \in Challenges : Compared(d)'
    <3>1. k \in Uncounted(c) /\ Uncounted(c)' = Uncounted(c) \ {k}
      BY <2>1, <2>2, <2>6 DEF Uncounted
    <3>2. Cardinality(Uncounted(c)') = Cardinality(Uncounted(c)) - 1
      <4>1. IsFiniteSet(Uncounted(c)) /\ Cardinality(Uncounted(c)) \in Nat
        BY UncountedFinite
      <4>2. Cardinality(Uncounted(c) \ {k}) = Cardinality(Uncounted(c)) - 1
        BY <3>1, <4>1, FS_RemoveElement
      <4> QED  BY <3>1, <4>2
    <3>3. Compared(c)'
      <4>1. attempts[c] + Cardinality(Uncounted(c)) <= tries[c] /\ tries' = tries
        BY <1>0, <2>2, <2>3 DEF Compared
      <4>2. Cardinality(Uncounted(c)) \in Nat /\ attempts[c] \in Nat /\ tries[c] \in Nat
        BY <1>0, <2>3, UncountedFinite
      <4> QED  BY <2>5, <3>2, <4>1, <4>2 DEF Compared
    <3>4. ASSUME NEW d \in Challenges \ {c} PROVE Compared(d)'
      <4>1. Uncounted(d)' \subseteq Uncounted(d)
        BY <2>1, <2>6, SMTT(30) DEF Uncounted
      <4> QED  BY <1>0, <2>2, <2>5, <4>1, ComparedKept
    <3> QED  BY <3>3, <3>4
  <2>8. \A j \in Clients : Limited(j)'
    <3>1. Limited(k)'
      BY <2>2, <2>3, <2>6 DEF Limited
    <3>2. made <= made'
      BY <1>0, <2>2
    <3> QED  BY <1>0, <2>5, <2>6, <3>1, <3>2, LimitedKept
  <2>9. LatestStored'
    BY <1>0, <2>2, <2>6, LatestKept
  <2>10. Alone'
    <3>1. faults' = 0 => faults = 0
      BY <1>0, <2>2 DEF Inv, TypeOK
    <3> QED  BY <1>0, <2>1, <2>2, <2>6, <3>1 DEF Alone
  <2> QED  BY <2>7, <2>8, <2>9, <2>10 DEF Latest
<1>8. ASSUME NEW k \in Clients, NEW c \in Challenges, NEW right \in BOOLEAN, Verify(k, c, right)
      PROVE  Latest'
  <2>1. PICK pc \in {"lockout", "markUsed", "increment"} :
          /\ req' = [req EXCEPT ![k] = [pc |-> pc, ch |-> c]]
          /\ pc = "lockout" => Locked(c)
          /\ pc = "increment" => ~ Locked(c) /\ ~ right
    BY <1>8, Zenon DEF Verify
  <2>2. /\ req'[k].pc = pc /\ req'[k].ch = c /\ \A j \in Clients \ {k} : req'[j] = req[j]
        /\ req[k].pc = "idle" /\ c \in stored /\ c \in 1..made
        /\ UNCHANGED <<made, stored, attempts, faults>>
    <3>1. /\ req[k].pc = "idle" /\ c \in stored /\ UNCHANGED <<made, stored, attempts, faults>>
      BY <1>8 DEF Verify, Refused, At
    <3>2. /\ req'[k] = [pc |-> pc, ch |-> c] /\ \A j \in Clients \ {k} : req'[j] = req[j]
      BY <1>0, <2>1 DEF TypeOK
    <3>3. c \in 1..made
      BY <1>0, <3>1 DEF TypeOK
    <3> QED  BY <3>1, <3>2, <3>3
  <2>3. /\ \A d \in Challenges : tries'[d] >= tries[d]
        /\ pc = "increment" => tries'[c] = tries[c] + 1
    <3>1. /\ tries' = [tries EXCEPT ![c] = IF Locked(c) \/ right THEN @ ELSE @ + 1]
          /\ pc = "increment" => ~ (Locked(c) \/ right)
      BY <1>8, <2>1 DEF Verify
    <3>2. tries \in [Challenges -> Nat] /\ c \in Challenges
      BY <1>0, <2>2 DEF TypeOK
    <3> QED  BY <3>1, <3>2
  <2>4. \A d \in Challenges : Compared(d)'
    <3>1. ASSUME NEW d \in Challenges, d # c \/ pc # "increment" PROVE Compared(d)'
      <4>1. Uncounted(d)' \subseteq Uncounted(d)
        BY <2>2, <3>1 DEF Uncounted
      <4> QED  BY <1>0, <2>2, <2>3, <4>1, ComparedKept
    <3>2. CASE pc = "increment"
      <4>1. k \notin Uncounted(c) /\ Uncounted(c)' = Uncounted(c) \cup {k}
        BY <2>2, <3>2 DEF Uncounted
      <4>2. Cardinality(Uncounted(c)') = Cardinality(Uncounted(c)) + 1
        BY <4>1, FS_AddElement, UncountedFinite, Zenon
      <4>3. Cardinality(Uncounted(c)) \in Nat /\ attempts[c] \in Nat /\ tries[c] \in Nat
        BY <1>0, UncountedFinite
      <4>4. attempts[c] + Cardinality(Uncounted(c)) <= tries[c] /\ attempts' = attempts
        BY <1>0, <2>2 DEF Compared
      <4> QED  BY <2>3, <3>1, <3>2, <4>2, <4>3, <4>4 DEF Compared
    <3> QED  BY <3>1, <3>2
  <2>5. \A j \in Clients : Limited(j)'
    <3>1. Limited(k)'
      BY <2>1, <2>2 DEF Limited, Locked
    <3>2. made <= made'
      <4>1. made \in Nat /\ made' = made
        BY <1>0, <2>2
      <4> QED  BY <4>1
    <3>3. ASSUME NEW d \in Challenges PROVE attempts'[d] >= attempts[d]
      <4>1. attempts[d] \in Nat /\ attempts' = attempts
        BY <1>0, <2>2
      <4> QED  BY <4>1
    <3> QED  BY <1>0, <2>2, <3>1, <3>2, <3>3, LimitedKept
  <2>6. LatestStored'
    <3>1. faults <= faults' /\ \A j \in Clients : req[j].pc = "create" => req'[j].pc = "create"
      BY <1>0, <2>2
    <3> QED  BY <1>0, <2>2, <2>3, <3>1, LatestKept
  <2>7. Alone'
    BY <1>0, <2>2, SMTT(30) DEF Alone
  <2> QED  BY <2>4, <2>5, <2>6, <2>7 DEF Latest
<1>9. CASE UNCHANGED vars \/ \E c \in Challenges : Expire(c)
  <2>1. UNCHANGED <<made, stored, attempts, faults, req, tries>>
    BY <1>9 DEF vars, Expire
  <2>2. \A c \in Challenges : Uncounted(c)' = Uncounted(c)
    BY <2>1 DEF Uncounted
  <2> QED  BY <1>0, <2>1, <2>2 DEF Latest, LatestStored, Alone, Compared, Limited, At
<1> QED
  BY <1>2, <1>3, <1>4, <1>5, <1>6, <1>7, <1>8, <1>9 DEF Next, Step

\* The code mailed last stays good until a request for a new one deletes it, a call
\* fails or Verify locks out a challenge of the address, for any number of clients.
THEOREM LatestIsKept == Spec => []LatestStored
<1>1. Spec => []Latest
  BY InitLatest, NextLatest, Invariance, PTL DEF Spec
<1>2. Latest => LatestStored
  BY DEF Latest
<1> QED  BY <1>1, <1>2, PTL
=============================================================================
