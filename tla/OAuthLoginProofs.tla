-------------------------- MODULE OAuthLoginProofs --------------------------
(***************************************************************************)
(* Proofs about OAuthLogin, for any accounts and addresses, any number of  *)
(* callbacks served at a time, states, failed calls and changed addresses. *)
(***************************************************************************)
EXTENDS OAuthLogin, SequenceTheorems, FiniteSetTheorems, TLAPS

Request == [pc : PCs, acct : Accounts \cup {NoAccount}, state : 0..MaxStates,
            email : Emails \cup {NoEmail}, row : 0..Len(users)]

\* Row n was made for account a, or for an address that a had.
Self(a, n) ==
  \/ users[n].provider = a.provider /\ users[n].id = a.id
  \/ \E e \in had[a] : Lower[e] = Lower[users[n].email]

\* What a request in flight has established: the account is known from the start,
\* the address is one that the provider has confirmed, the row found is the
\* account's own, and nobody else has its state any more.
Fits(q) ==
  /\ q.pc = "idle" => q.state = 0
  /\ q.pc # "idle" => q.acct \in Accounts
  /\ q.pc \in {"byProvider", "byEmail", "touch", "create"} => q.email \in had[q.acct]
  /\ q.pc = "touch" => q.row \in 1..Len(users) /\ Self(q.acct, q.row)
  /\ q.state # 0 => q.state \in 1..Len(opened) /\ q.state \notin states /\ uses[q.state] = 0

AddressOK ==
  \A a \in Accounts : email[a] \in had[a] /\ (a.provider = "email" => email[a] = a.id)

\* A state is in Redis, with one request, or used up.
StatesOK ==
  /\ \A s \in states : uses[s] = 0
  /\ \A s \in StateTokens : uses[s] <= 1 /\ (s > Len(opened) => uses[s] = 0)
  /\ \A q, r \in Requests : q # r /\ req[q].state # 0 => req[q].state # req[r].state

Inv ==
  /\ TypeOK /\ AddressOK /\ StatesOK /\ LoggedInAsSelf
  /\ \A r \in Requests : Fits(req[r])

\* A request that is not being served (Return).
LEMMA IdleFits ==
  ASSUME TypeOK
  PROVE  Idle \in Request /\ Fits(Idle)
<1>1. Idle \in Request
  BY ConstantsAssumption DEF Idle, Request, PCs, TypeOK
<1> QED BY <1>1 DEF Idle, Fits

\* CreateState makes at most MaxStates states.
LEMMA StateRange == TypeOK => Len(opened) \in Nat /\ 1..Len(opened) \subseteq StateTokens
<1> SUFFICES ASSUME TypeOK PROVE Len(opened) \in Nat /\ 1..Len(opened) \subseteq StateTokens
  OBVIOUS
<1>1. Len(opened) \in Nat /\ Len(opened) <= MaxStates /\ MaxStates \in Nat
  BY ConstantsAssumption DEF TypeOK
<1> QED BY <1>1 DEF StateTokens

\* The invariant holds before the first login: no states, no users, no requests.
THEOREM InitInv == Init => Inv
<1> SUFFICES ASSUME Init PROVE Inv
  OBVIOUS
<1>1. TypeOK
  <2>1. Idle \in Request /\ Len(users) = 0 /\ Len(opened) = 0
    BY ConstantsAssumption DEF Init, Idle, Request, PCs
  <2>2. email \in [Accounts -> Emails]
    BY ConstantsAssumption DEF Init
  <2> QED BY <2>1, <2>2, ConstantsAssumption DEF Init, TypeOK, Request
<1>2. \A r \in Requests : Fits(req[r]) /\ req[r].state = 0
  BY <1>1, IdleFits DEF Init, Idle
<1>3. AddressOK
  BY ConstantsAssumption DEF Init, AddressOK
<1>4. StatesOK /\ LoggedInAsSelf
  BY <1>2 DEF Init, StatesOK, LoggedInAsSelf
<1> QED BY <1>1, <1>2, <1>3, <1>4 DEF Inv

\* A step of request r that stays with the database: it has learnt more, or ends.
LEMMA ReqStep ==
  ASSUME Inv, NEW r \in Requests, NEW new \in Request, req' = [req EXCEPT ![r] = new],
         Fits(new), new.state \in {0, req[r].state}, faults' \in 0..MaxFaults,
         UNCHANGED <<opened, states, users, email, had, into, uses>>
  PROVE  Inv'
<1>1. req \in [Requests -> Request] /\ req[r] \in Request
  BY DEF Inv, TypeOK, Request
<1>2. TypeOK'
  BY <1>1 DEF Inv, TypeOK, Request
<1>3. req'[r] = new /\ \A q \in Requests \ {r} : req'[q] = req[q]
  BY <1>1
<1>4. (\A q \in Requests : Fits(req[q]))'
  <2> SUFFICES ASSUME NEW q \in Requests PROVE Fits(req[q])'
    OBVIOUS
  <2>1. PICK p : p = req'[q]
    OBVIOUS
  <2>2. Fits(p)
    BY <1>3, <2>1 DEF Inv
  <2> QED BY <2>1, <2>2 DEF Fits, Self
<1>5. StatesOK'
  BY <1>3 DEF Inv, StatesOK
<1>6. AddressOK'
  BY DEF Inv, AddressOK
<1>7. LoggedInAsSelf'
  BY DEF Inv, LoggedInAsSelf
<1> QED BY <1>2, <1>4, <1>5, <1>6, <1>7 DEF Inv

\* What Goto, Return and Fault leave.
LEMMA Moves ==
  ASSUME TypeOK, NEW r \in Requests
  PROVE  /\ req[r] \in Request
         /\ \A pc \in PCs : Goto(r, pc) =>
              \E new \in Request : /\ req' = [req EXCEPT ![r] = new] /\ new.pc = pc
                                   /\ new.acct = req[r].acct /\ new.state = req[r].state
                                   /\ new.email = req[r].email /\ new.row = req[r].row
         /\ Return(r) => req' = [req EXCEPT ![r] = Idle]
         /\ Fault => faults' \in 0..MaxFaults
<1>1. req[r] \in Request
  BY DEF TypeOK, Request
<1>2. ASSUME NEW pc \in PCs, Goto(r, pc)
      PROVE  \E new \in Request : /\ req' = [req EXCEPT ![r] = new] /\ new.pc = pc
                                  /\ new.acct = req[r].acct /\ new.state = req[r].state
                                  /\ new.email = req[r].email /\ new.row = req[r].row
  <2>1. PICK new : new = [req[r] EXCEPT !.pc = pc]
    BY Zenon
  <2>2. /\ new \in Request /\ new.pc = pc /\ new.acct = req[r].acct /\ new.state = req[r].state
        /\ new.email = req[r].email /\ new.row = req[r].row
    BY <1>1, <2>1 DEF Request
  <2>3. req' = [req EXCEPT ![r] = new]
    BY <1>2, <2>1 DEF Goto
  <2> QED BY <2>2, <2>3, Zenon
<1>3. Fault => faults' \in 0..MaxFaults
  BY ConstantsAssumption DEF Fault, TypeOK
<1> QED BY <1>1, <1>2, <1>3 DEF Return

\* A request that ends, whatever it was doing.
LEMMA ReturnStep ==
  ASSUME Inv, NEW r \in Requests, Return(r), faults' \in 0..MaxFaults,
         UNCHANGED <<opened, states, users, email, had, into, uses>>
  PROVE  Inv'
<1>1. Idle \in Request /\ Fits(Idle) /\ Idle.state = 0
  BY IdleFits DEF Inv, Idle
<1>2. req' = [req EXCEPT ![r] = Idle]
  BY DEF Return
<1> QED BY <1>1, <1>2, ReqStep, Zenon

\* The provider's answer: an address it has confirmed, or an error.
LEMMA ExchangeStep ==
  ASSUME Inv, NEW r \in Requests, Exchange(r)
  PROVE  Inv'
<1>1. /\ req[r].pc = "exchange" /\ req[r] \in Request /\ Fits(req[r]) /\ req[r].acct \in Accounts
      /\ UNCHANGED <<opened, states, users, email, faults, had, into, uses>>
      /\ faults' \in 0..MaxFaults /\ email[req[r].acct] \in had[req[r].acct]
      /\ had[req[r].acct] \subseteq Emails
  BY Moves DEF Exchange, At, Inv, Fits, AddressOK, TypeOK
<1>2. CASE Return(r)
  BY <1>1, <1>2, ReturnStep
<1>3. ASSUME NEW e \in IF req[r].acct.provider = "github" THEN GitHubEmails(req[r].acct)
                       ELSE GoogleEmails(req[r].acct),
             req' = [req EXCEPT ![r].pc = "byProvider", ![r].email = e]
      PROVE  Inv'
  <2>1. e = email[req[r].acct]
    <3>1. CASE e \in GitHubEmails(req[r].acct)
      BY <3>1 DEF GitHubEmails, fetchUser, fetchPrimaryEmail
    <3>2. CASE e \in GoogleEmails(req[r].acct)
      BY <3>2 DEF GoogleEmails, validateIDToken
    <3> QED BY <1>3, <3>1, <3>2
  <2>2. PICK new : new = [req[r] EXCEPT !.pc = "byProvider", !.email = e]
    OBVIOUS
  <2>3. /\ new \in Request /\ new.pc = "byProvider" /\ new.acct = req[r].acct
        /\ new.state = req[r].state /\ new.email = e
    BY <1>1, <2>1, <2>2, Zenon DEF Request, PCs
  <2>4. req' = [req EXCEPT ![r] = new]
    BY <1>3, <2>2, ZenonT(60)
  <2>5. Fits(new)
    BY <1>1, <2>1, <2>3 DEF Fits
  <2> QED BY <1>1, <2>3, <2>4, <2>5, ReqStep, Zenon
<1> QED BY <1>2, <1>3 DEF Exchange

\* VerifyOTP: the address that the code was sent to is the account.
LEMMA VerifyStep ==
  ASSUME Inv, NEW r \in Requests, NEW a \in Accounts, VerifyOTP(r, a)
  PROVE  Inv'
<1>1. /\ a.provider = "email" /\ req[r].pc = "idle" /\ TypeOK
      /\ UNCHANGED <<opened, states, users, email, faults, had, into, uses>>
  BY DEF VerifyOTP, At, Inv
<1>2. a.id \in had[a] /\ a.id \in Emails
  BY <1>1 DEF Inv, AddressOK, TypeOK
<1>3. PICK new : new = [Idle EXCEPT !.pc = "byEmail", !.acct = a, !.email = a.id]
  OBVIOUS
<1>4. new \in Request /\ new.pc = "byEmail" /\ new.acct = a /\ new.state = 0 /\ new.email = a.id
  <2>1. Idle \in Request /\ Idle.state = 0
    BY <1>1, IdleFits DEF Idle
  <2> QED BY <1>2, <1>3, <2>1, Zenon DEF Request, PCs
<1>5. req' = [req EXCEPT ![r] = new]
  BY <1>3 DEF VerifyOTP
<1>6. Fits(new)
  BY <1>2, <1>4 DEF Fits
<1>7. faults' \in 0..MaxFaults
  BY <1>1 DEF TypeOK
<1> QED BY <1>1, <1>4, <1>5, <1>6, <1>7, ReqStep, Zenon

\* A lookup goes on with a row of the account or of its address, or with none.
LEMMA LookupStep ==
  ASSUME Inv, NEW r \in Requests, GetByProviderID(r) \/ GetByEmail(r)
  PROVE  Inv'
<1>1. PICK a : a = req[r].acct
  OBVIOUS
<1>2. /\ TypeOK /\ req[r] \in Request /\ Fits(req[r]) /\ faults \in 0..MaxFaults
      /\ req[r].pc \in {"byProvider", "byEmail"}
      /\ UNCHANGED <<opened, states, users, email, had, into, uses>>
  BY Moves, SMTT(30) DEF GetByProviderID, GetByEmail, At, Inv, TypeOK
<1>3. a \in Accounts /\ req[r].email \in had[a]
  BY <1>1, <1>2 DEF Fits
<1>4. ASSUME NEW pc \in {"byEmail", "create"}, Goto(r, pc), faults' \in 0..MaxFaults PROVE Inv'
  <2>1. PICK new \in Request :
          /\ req' = [req EXCEPT ![r] = new] /\ new.pc = pc /\ new.acct = req[r].acct
          /\ new.state = req[r].state /\ new.email = req[r].email
    BY <1>2, <1>4, Moves DEF PCs
  <2>2. Fits(new)
    BY <1>1, <1>2, <1>3, <1>4, <2>1 DEF Fits
  <2> QED BY <1>2, <1>4, <2>1, <2>2, ReqStep, Zenon
<1>5. ASSUME NEW n \in 1..Len(users), Self(a, n), faults' \in 0..MaxFaults,
             req' = [req EXCEPT ![r].pc = "touch", ![r].row = n]
      PROVE  Inv'
  <2>1. PICK new : new = [req[r] EXCEPT !.pc = "touch", !.row = n]
    OBVIOUS
  <2>2. /\ new \in Request /\ new.pc = "touch" /\ new.acct = req[r].acct
        /\ new.state = req[r].state /\ new.email = req[r].email /\ new.row = n
    <3>1. n \in 0..Len(users)
      BY <1>5
    <3>2. "touch" \in PCs
      BY DEF PCs
    <3> QED BY <1>2, <2>1, <3>1, <3>2, Zenon DEF Request
  <2>3. req' = [req EXCEPT ![r] = new]
    BY <1>5, <2>1, Zenon
  <2>4. Fits(new)
    BY <1>1, <1>2, <1>3, <1>5, <2>2 DEF Fits
  <2> QED BY <1>2, <1>5, <2>2, <2>3, <2>4, ReqStep, Zenon
<1>6. ASSUME NEW rows, \A n \in rows : n \in 1..Len(users) /\ Self(a, n), NEW pc \in {"byEmail", "create"},
             \E n \in scanUser(rows) : Found(r, n, pc), faults' \in 0..MaxFaults
      PROVE  Inv'
  BY <1>4, <1>5, <1>6 DEF scanUser, Found, NotFound
<1>7. DOMAIN users = 1..Len(users)
  BY <1>2 DEF TypeOK
<1>8. CASE GetByProviderID(r)
  <2>1. PICK pc \in {"byEmail", "create"} :
          \/ (\E n \in scanUser(ByProviderID(a)) : Found(r, n, pc)) /\ faults' = faults
          \/ Fault /\ Goto(r, pc)
    BY <1>1, <1>8 DEF GetByProviderID
  <2>2. \A n \in ByProviderID(a) : n \in 1..Len(users) /\ Self(a, n)
    BY <1>7 DEF ByProviderID, SameAccount, Self
  <2> QED BY <1>2, <1>4, <1>6, <2>1, <2>2, Moves, SMTT(30)
<1>9. CASE GetByEmail(r)
  <2>1. \/ (\E n \in scanUser(ByEmail(req[r].email)) : Found(r, n, "create")) /\ faults' = faults
        \/ Fault /\ (Goto(r, "create") \/ Return(r))
    BY <1>9 DEF GetByEmail
  <2>2. \A n \in ByEmail(req[r].email) : n \in 1..Len(users) /\ Self(a, n)
    BY <1>3, <1>7 DEF ByEmail, Self
  <2>3. CASE Fault /\ Return(r)
    BY <1>2, <2>3, Moves, ReturnStep
  <2> QED BY <1>2, <1>4, <1>6, <2>1, <2>2, <2>3, Moves, SMTT(30)
<1> QED BY <1>8, <1>9

-----------------------------------------------------------------------------
(* Steps that write table users: rows are added, and deleted softly.       *)

Grown ==
  /\ users' \in Seq(Row) /\ Len(users) <= Len(users')
  /\ \A n \in 1..Len(users) : /\ users'[n].provider = users[n].provider
                              /\ users'[n].id = users[n].id /\ users'[n].email = users[n].email

\* What was true of a row remains true.
LEMMA GrownFacts ==
  ASSUME Inv, Grown, had' = had
  PROVE  /\ \A a \in Accounts : \A n \in 1..Len(users) : Self(a, n) => Self(a, n)'
         /\ \A a \in Accounts : \A n \in into[a] : n \in 1..Len(users') /\ Self(a, n)'
         /\ Request \subseteq Request'
<1>1. \A a \in Accounts : \A n \in 1..Len(users) : Self(a, n) => Self(a, n)'
  BY DEF Grown, Self
<1>2. \A a \in Accounts : \A n \in into[a] : n \in 1..Len(users) /\ Self(a, n)
  BY DEF Inv, TypeOK, LoggedInAsSelf, Self
<1>3. Len(users) \in Nat /\ Len(users') \in Nat
  BY DEF Inv, TypeOK, Grown
<1>4. 1..Len(users) \subseteq 1..Len(users') /\ 0..Len(users) \subseteq 0..Len(users')
  BY <1>3 DEF Grown
<1>5. Request \subseteq Request'
  BY <1>4 DEF Request
<1> QED BY <1>1, <1>2, <1>4, <1>5

\* A request that a write of users does not touch goes on as it was.
LEMMA KeptFits ==
  ASSUME Inv, Grown, UNCHANGED <<opened, states, had>>, NEW q \in Requests, req'[q] = req[q],
         req[q].state # 0 => uses'[req[q].state] = 0
  PROVE  Fits(req[q])'
<1>1. Fits(req[q])
  BY DEF Inv
<1>2. PICK a : a = req[q].acct
  OBVIOUS
<1>3. PICK n : n = req[q].row
  OBVIOUS
<1>4. req[q].pc = "touch" => n \in 1..Len(users') /\ Self(a, n)'
  <2> SUFFICES ASSUME req[q].pc = "touch" PROVE n \in 1..Len(users') /\ Self(a, n)'
    OBVIOUS
  <2>1. a \in Accounts /\ n \in 1..Len(users) /\ Self(a, n)
    BY <1>1, <1>2, <1>3 DEF Fits
  <2>2. Len(users) \in Nat /\ Len(users') \in Nat /\ Len(users) <= Len(users')
    BY DEF Inv, TypeOK, Grown
  <2> QED BY <2>1, <2>2, GrownFacts
<1>5. req[q].pc = "touch" => req[q].row \in 1..Len(users') /\ Self(req[q].acct, req[q].row)'
  BY <1>2, <1>3, <1>4 DEF Self
<1> QED BY <1>1, <1>5 DEF Fits

\* A write of users by nobody's login, or by one that fails after it.
LEMMA GrownStep ==
  ASSUME Inv, Grown, faults' \in 0..MaxFaults, UNCHANGED <<opened, states, email, had, into, uses>>,
         req' = req \/ \E r \in Requests : Return(r)
  PROVE  Inv'
<1>1. Request \subseteq Request' /\ Idle \in Request /\ req \in [Requests -> Request]
  BY GrownFacts, IdleFits, SMTT(30) DEF Inv, TypeOK, Request
<1>2. \A q \in Requests : req'[q] = req[q] \/ req'[q] = Idle
  BY <1>1 DEF Return
<1>3. Idle.state = 0 /\ Idle.pc = "idle"
  BY DEF Idle
<1>4. req' \in [Requests -> Request]
  BY <1>1 DEF Return
<1>5. \A a \in Accounts : \A n \in into[a] : n \in 1..Len(users') /\ Self(a, n)'
  BY GrownFacts
<1>6. TypeOK'
  <2>1. into \in [Accounts -> SUBSET (1..Len(users'))]
    BY <1>5 DEF Inv, TypeOK
  <2>2. req' \in [Requests -> Request']
    BY <1>1, <1>4
  <2> QED BY <2>1, <2>2 DEF Inv, TypeOK, Grown, Request
<1>7. LoggedInAsSelf'
  BY <1>5 DEF LoggedInAsSelf, Self
<1>8. StatesOK' /\ AddressOK'
  BY <1>2, <1>3 DEF Inv, StatesOK, AddressOK
<1>9. (\A q \in Requests : Fits(req[q]))'
  <2> SUFFICES ASSUME NEW q \in Requests PROVE Fits(req[q])'
    OBVIOUS
  <2>1. CASE req'[q] = Idle
    BY <1>3, <2>1 DEF Fits
  <2>2. CASE req'[q] = req[q]
    <3>1. req[q].state # 0 => uses'[req[q].state] = 0
      BY DEF Inv, Fits
    <3> QED BY <2>2, <3>1, KeptFits
  <2> QED BY <1>2, <2>1, <2>2
<1> QED BY <1>6, <1>7, <1>8, <1>9 DEF Inv

\* A login as row n: the state of the request is used up with it.
LEMMA LoginStep ==
  ASSUME Inv, Grown, faults' = faults, UNCHANGED <<opened, states, email, had>>,
         NEW r \in Requests, req[r].pc # "idle", NEW a, a = req[r].acct,
         NEW n \in 1..Len(users'), Self(a, n)', LogIn(r, n)
  PROVE  Inv'
<1>1. PICK s : s = req[r].state
  BY SMTT(30)
<1>2. /\ Request \subseteq Request' /\ Idle \in Request /\ req \in [Requests -> Request]
      /\ Fits(req[r]) /\ a \in Accounts /\ TypeOK
  BY GrownFacts, IdleFits, Zenon DEF Inv, TypeOK, Request, Fits
<1>3. /\ into' = [into EXCEPT ![a] = @ \cup {n}] /\ req' = [req EXCEPT ![r] = Idle]
      /\ uses' = IF s = 0 THEN uses ELSE [uses EXCEPT ![s] = @ + 1]
  BY <1>1 DEF LogIn, Return
<1>4. Idle.state = 0 /\ Idle.pc = "idle"
  BY DEF Idle
<1>5. req'[r] = Idle /\ \A q \in Requests \ {r} : req'[q] = req[q]
  BY <1>2, <1>3
<1>6. \A b \in Accounts : \A m \in into'[b] : m \in 1..Len(users') /\ Self(b, m)'
  <2> SUFFICES ASSUME NEW b \in Accounts, NEW m \in into'[b]
               PROVE  m \in 1..Len(users') /\ Self(b, m)'
    OBVIOUS
  <2>1. m \in into[b] \/ (b = a /\ m = n)
    BY <1>2, <1>3 DEF TypeOK
  <2> QED BY <2>1, GrownFacts
<1>7. s # 0 => s \in StateTokens /\ s \in 1..Len(opened) /\ s \notin states /\ uses[s] = 0
  <2>1. s \in 0..MaxStates
    BY <1>1, <1>2 DEF Request
  <2>2. s # 0 => s \in StateTokens
    BY <2>1, ConstantsAssumption DEF StateTokens
  <2> QED BY <1>1, <1>2, <2>2 DEF Fits
<1>8. /\ uses' \in [StateTokens -> Nat] /\ \A t \in StateTokens : t # s => uses'[t] = uses[t]
      /\ s # 0 => uses'[s] = 1
  BY <1>2, <1>3, <1>7, SMTT(30) DEF TypeOK
<1>9. TypeOK'
  <2>1. into' \in [Accounts -> SUBSET (1..Len(users'))]
    BY <1>2, <1>3, <1>6 DEF TypeOK
  <2>2. req' \in [Requests -> Request']
    BY <1>2, <1>3
  <2> QED BY <1>2, <1>8, <2>1, <2>2, SMTT(30) DEF TypeOK, Grown, Request
<1>10. LoggedInAsSelf'
  BY <1>6 DEF LoggedInAsSelf, Self
<1>11. AddressOK'
  BY DEF Inv, AddressOK
<1>12. StatesOK'
  <2>1. (\A t \in states : uses[t] = 0)'
    <3>1. states \subseteq StateTokens
      BY <1>2, StateRange DEF TypeOK
    <3>2. \A t \in states : t # s
      BY <1>7, <3>1 DEF StateTokens
    <3> QED BY <1>8, <3>1, <3>2 DEF Inv, StatesOK
  <2>2. (\A t \in StateTokens : uses[t] <= 1 /\ (t > Len(opened) => uses[t] = 0))'
    <3> SUFFICES ASSUME NEW t \in StateTokens
                 PROVE  uses'[t] <= 1 /\ (t > Len(opened) => uses'[t] = 0)
      OBVIOUS
    <3>1. CASE t = s
      <4>1. s \in 1..Len(opened) /\ uses'[s] = 1 /\ Len(opened) \in Nat
        BY <1>2, <1>7, <1>8, <3>1 DEF StateTokens, TypeOK
      <4> QED BY <3>1, <4>1
    <3>2. CASE t # s
      BY <1>8, <3>2 DEF Inv, StatesOK
    <3> QED BY <3>1, <3>2
  <2>3. (\A q, p \in Requests : q # p /\ req[q].state # 0 => req[q].state # req[p].state)'
    BY <1>4, <1>5 DEF Inv, StatesOK
  <2> QED BY <2>1, <2>2, <2>3 DEF StatesOK
<1>13. (\A q \in Requests : Fits(req[q]))'
  <2> SUFFICES ASSUME NEW q \in Requests PROVE Fits(req[q])'
    OBVIOUS
  <2>1. CASE q = r
    BY <1>4, <1>5, <2>1 DEF Fits
  <2>2. CASE q # r
    <3>1. req[q] \in Request /\ Fits(req[q])
      BY <1>2 DEF Inv
    <3>2. req[q].state # 0 => req[q].state \in StateTokens /\ req[q].state # s /\ uses[req[q].state] = 0
      <4>1. req[q].state # 0 => req[q].state \in 1..Len(opened) /\ uses[req[q].state] = 0
        BY <3>1, SMTT(30) DEF Fits
      <4>2. req[q].state # 0 => req[q].state # s
        BY <1>1, <2>2, SMTT(30) DEF Inv, StatesOK
      <4> QED BY <1>2, <4>1, <4>2, StateRange, SMTT(30)
    <3>3. req[q].state # 0 => uses'[req[q].state] = 0
      BY <1>8, <3>2
    <3> QED BY <1>5, <2>2, <3>3, KeptFits
  <2> QED BY <2>1, <2>2
<1> QED BY <1>9, <1>10, <1>11, <1>12, <1>13 DEF Inv

\* The row that a lookup found is logged in as, or the token stores fail.
LEMMA TouchStep ==
  ASSUME Inv, NEW r \in Requests, Touch(r)
  PROVE  Inv'
<1>1. /\ req[r].pc = "touch" /\ Fits(req[r]) /\ TypeOK
      /\ UNCHANGED <<opened, states, users, email, had>>
  BY DEF Touch, At, Inv
<1>2. CASE LogIn(r, req[r].row) /\ UNCHANGED faults
  <2>1. PICK a : a = req[r].acct
    OBVIOUS
  <2>2. PICK n : n = req[r].row
    OBVIOUS
  <2>3. n \in 1..Len(users') /\ Self(a, n)
    BY <1>1, <2>1, <2>2 DEF Fits
  <2>4. Self(a, n)' /\ Grown
    BY <1>1, <2>3, SMTT(30) DEF Self, Grown, TypeOK
  <2> QED BY <1>1, <1>2, <2>1, <2>2, <2>3, <2>4, LoginStep
<1>3. CASE Fault /\ Return(r) /\ UNCHANGED <<into, uses>>
  BY <1>1, <1>3, Moves, ReturnStep
<1> QED BY <1>2, <1>3 DEF Touch

\* INSERT of a row of the account's own, or an error.
LEMMA CreateStep ==
  ASSUME Inv, NEW r \in Requests, Create(r)
  PROVE  Inv'
<1>1. PICK a : a = req[r].acct
  OBVIOUS
<1>2. PICK row : row = [provider |-> a.provider, id |-> a.id, email |-> req[r].email, active |-> TRUE]
  BY Zenon
<1>3. /\ req[r].pc = "create" /\ Fits(req[r]) /\ TypeOK
      /\ UNCHANGED <<opened, states, email, had>>
  BY DEF Create, At, Inv
<1>4. a \in Accounts /\ req[r].email \in Emails
  BY <1>1, <1>3 DEF Fits, TypeOK
<1>5. CASE users' = Append(users, row)
  <2>1. row \in Row /\ row.provider = a.provider /\ row.id = a.id
    <3>1. a.provider \in Providers /\ a.id \in {b.id : b \in Accounts}
      BY <1>4, ConstantsAssumption
    <3>2. row \in Row
      BY <1>2, <1>4, <3>1 DEF Row
    <3> QED BY <1>2, <3>2
  <2>2. /\ users' \in Seq(Row) /\ Len(users') = Len(users) + 1 /\ users'[Len(users) + 1] = row
        /\ \A n \in 1..Len(users) : users'[n] = users[n]
    BY <1>3, <1>5, <2>1 DEF TypeOK
  <2>3. Len(users) \in Nat
    BY <1>3 DEF TypeOK
  <2>4. Grown
    BY <2>2, <2>3 DEF Grown
  <2>5. CASE LogIn(r, Len(users) + 1) /\ UNCHANGED faults
    <3>1. PICK n : n = Len(users) + 1
      OBVIOUS
    <3>2. n \in 1..Len(users') /\ Self(a, n)'
      BY <2>1, <2>2, <2>3, <3>1, SMTT(30) DEF Self
    <3> QED BY <1>1, <1>3, <2>4, <2>5, <3>1, <3>2, LoginStep
  <2>6. CASE Fault /\ Return(r) /\ UNCHANGED <<into, uses>>
    BY <1>3, <2>4, <2>6, Moves, GrownStep
  <2>7. CASE Return(r) /\ UNCHANGED <<users, faults, into, uses>>
    BY <2>2, <2>3, <2>7
  <2>8. CASE Fault /\ Return(r) /\ UNCHANGED <<users, into, uses>>
    BY <2>2, <2>3, <2>8
  <2> QED BY <2>5, <2>6, <2>7, <2>8 DEF Create
<1>6. CASE Return(r) /\ UNCHANGED <<users, into, uses>> /\ (faults' = faults \/ Fault)
  <2>1. faults' \in 0..MaxFaults
    BY <1>3, <1>6, Moves DEF TypeOK
  <2> QED BY <1>3, <1>6, <2>1, ReturnStep
<1> QED BY <1>1, <1>2, <1>5, <1>6 DEF Create

\* SoftDelete keeps whose row it is.
LEMMA DeleteStep ==
  ASSUME Inv, NEW n \in DOMAIN users, SoftDelete(n)
  PROVE  Inv'
<1>1. TypeOK /\ UNCHANGED <<opened, states, req, email, faults, had, into, uses>>
  BY DEF SoftDelete, Inv
<1>2. users \in Seq(Row) /\ n \in 1..Len(users) /\ users[n] \in Row
  BY <1>1 DEF TypeOK
<1>3. PICK row : row = [users[n] EXCEPT !.active = FALSE]
  BY Zenon
<1>4. row \in Row /\ row.provider = users[n].provider /\ row.id = users[n].id
      /\ row.email = users[n].email
  BY <1>2, <1>3, Zenon DEF Row
<1>5. users' = [users EXCEPT ![n] = row]
  BY <1>3 DEF SoftDelete
<1>6. users' \in Seq(Row) /\ Len(users') = Len(users)
  BY <1>2, <1>4, <1>5, ExceptSeq
<1>7. \A m \in 1..Len(users) : users'[m] = IF m = n THEN row ELSE users[m]
  BY <1>2, <1>5
<1>8. Grown
  BY <1>2, <1>4, <1>6, <1>7 DEF Grown
<1>9. faults' \in 0..MaxFaults
  BY <1>1 DEF TypeOK
<1> QED BY <1>1, <1>8, <1>9, GrownStep

-----------------------------------------------------------------------------
(* States and addresses.                                                   *)

\* AuthURL makes a state that nobody has.
LEMMA AuthURLStep ==
  ASSUME Inv, NEW p \in Providers, AuthURL(p)
  PROVE  Inv'
<1>1. PICK s : s = Len(opened) + 1
  OBVIOUS
<1>2. /\ Len(opened) < MaxStates /\ opened' = Append(opened, p) /\ states' = states \cup {s}
      /\ UNCHANGED <<users, req, email, faults, had, into, uses>> /\ TypeOK
  BY <1>1 DEF AuthURL, CreateState, Inv
<1>3. Len(opened) \in Nat /\ MaxStates \in Nat /\ opened \in Seq(Providers)
  BY <1>2, ConstantsAssumption DEF TypeOK
<1>4. opened' \in Seq(Providers) /\ Len(opened') = s
  BY <1>1, <1>2, <1>3
<1>5. /\ s \in StateTokens /\ s > Len(opened) /\ s \in 1..Len(opened')
      /\ Len(opened') <= MaxStates /\ 1..Len(opened) \subseteq 1..Len(opened')
  BY <1>1, <1>2, <1>3, <1>4 DEF StateTokens
<1>6. TypeOK'
  BY <1>2, <1>4, <1>5 DEF TypeOK
<1>7. uses[s] = 0 /\ \A r \in Requests : req[r].state # s
  <2>1. uses[s] = 0
    BY <1>5, SMTT(30) DEF Inv, StatesOK
  <2>2. ASSUME NEW r \in Requests, req[r].state = s PROVE FALSE
    <3>1. s # 0 /\ s \notin 1..Len(opened)
      BY <1>1, <1>3
    <3> QED BY <2>2, <3>1 DEF Inv, Fits
  <2> QED BY <2>1, <2>2
<1>8. StatesOK'
  <2>1. \A t \in StateTokens : t > Len(opened') => t > Len(opened)
    BY <1>1, <1>3, <1>4, SMTT(30) DEF StateTokens
  <2> QED BY <1>2, <1>7, <2>1 DEF Inv, StatesOK
<1>9. (\A r \in Requests : Fits(req[r]))'
  <2> SUFFICES ASSUME NEW r \in Requests PROVE Fits(req[r])'
    OBVIOUS
  <2>1. Fits(req[r])
    BY DEF Inv
  <2> QED BY <1>2, <1>5, <1>7, <2>1 DEF Fits, Self
<1>10. AddressOK'
  BY <1>2 DEF Inv, AddressOK
<1>11. LoggedInAsSelf'
  BY <1>2 DEF Inv, LoggedInAsSelf
<1> QED BY <1>6, <1>8, <1>9, <1>10, <1>11 DEF Inv

\* A state leaves Redis: it expires, or the GETDEL of a callback fails.
LEMMA ForgetStep ==
  ASSUME Inv, NEW s, states' = states \ {s}, faults' \in 0..MaxFaults,
         UNCHANGED <<opened, users, req, email, had, into, uses>>
  PROVE  Inv'
<1>1. TypeOK'
  BY ZenonT(60) DEF Inv, TypeOK
<1>2. StatesOK'
  BY DEF Inv, StatesOK
<1>3. AddressOK'
  BY DEF Inv, AddressOK
<1>4. LoggedInAsSelf'
  BY DEF Inv, LoggedInAsSelf
<1>5. (\A r \in Requests : Fits(req[r]))'
  <2> SUFFICES ASSUME NEW r \in Requests PROVE Fits(req[r])'
    OBVIOUS
  <2>1. Fits(req[r])
    BY DEF Inv
  <2> QED BY <2>1 DEF Fits, Self
<1> QED BY <1>1, <1>2, <1>3, <1>4, <1>5, SMTT(30) DEF Inv

\* GETDEL hands a state to one callback.
LEMMA CallbackStep ==
  ASSUME Inv, NEW r \in Requests, NEW s \in StateTokens, NEW a \in Accounts, Callback(r, s, a)
  PROVE  Inv'
<1>1. /\ s \in states /\ states' = states \ {s} /\ TypeOK
      /\ UNCHANGED <<opened, users, email, had, into, uses>>
  BY DEF Callback, Inv
<1>2. CASE Fault /\ UNCHANGED req
  BY <1>1, <1>2, Moves, ForgetStep
<1>3. CASE req' = [req EXCEPT ![r] = CallbackRequest(s, a)] /\ UNCHANGED faults
  <2>1. PICK new : new = CallbackRequest(s, a)
    OBVIOUS
  <2>2. new \in Request /\ new.pc = "exchange" /\ new.state = s /\ new.acct = a
    <3>1. Idle \in Request /\ s \in 0..MaxStates
      BY <1>1, IdleFits, ConstantsAssumption DEF StateTokens
    <3> QED BY <2>1, <3>1, Zenon DEF CallbackRequest, Request, PCs
  <2>3. req \in [Requests -> Request] /\ req' = [req EXCEPT ![r] = new]
    BY <1>1, <1>3, <2>1 DEF TypeOK, Request
  <2>4. req'[r] = new /\ \A q \in Requests \ {r} : req'[q] = req[q]
    BY <2>3, SMTT(30)
  <2>5. s # 0 /\ s \in 1..Len(opened) /\ uses[s] = 0 /\ \A q \in Requests : req[q].state # s
    <3>1. s # 0
      BY ConstantsAssumption DEF StateTokens
    <3>2. s \in 1..Len(opened)
      BY <1>1 DEF TypeOK
    <3>3. uses[s] = 0
      BY <1>1 DEF Inv, StatesOK
    <3>4. \A q \in Requests : req[q].state # s
      BY <1>1, <3>1 DEF Inv, Fits
    <3> QED BY <3>1, <3>2, <3>3, <3>4
  <2>6. TypeOK'
    <3>1. req' \in [Requests -> Request]
      BY <2>2, <2>3
    <3> QED BY <1>1, <1>3, <3>1, SMTT(30) DEF TypeOK, Request
  <2>7. StatesOK'
    <3>1. (\A t \in states : uses[t] = 0)'
      BY <1>1 DEF Inv, StatesOK
    <3>2. (\A t \in StateTokens : uses[t] <= 1 /\ (t > Len(opened) => uses[t] = 0))'
      BY <1>1, SMTT(30) DEF Inv, StatesOK
    <3>3. (\A q, p \in Requests : q # p /\ req[q].state # 0 => req[q].state # req[p].state)'
      <4>1. \A q, p \in Requests : q # p /\ req[q].state # 0 => req[q].state # req[p].state
        BY DEF Inv, StatesOK
      <4>2. \A q \in Requests : req'[q].state = IF q = r THEN s ELSE req[q].state
        BY <2>2, <2>4
      <4> QED BY <2>5, <4>1, <4>2
    <3> QED BY <3>1, <3>2, <3>3, SMTT(30) DEF StatesOK
  <2>8. (\A q \in Requests : Fits(req[q]))'
    <3> SUFFICES ASSUME NEW q \in Requests PROVE Fits(req[q])'
      BY SMTT(30)
    <3>1. CASE q = r
      BY <1>1, <2>2, <2>4, <2>5, <3>1, SMTT(30) DEF Fits
    <3>2. CASE q # r
      <4>1. Fits(req[q])
        BY SMTT(30) DEF Inv
      <4> QED BY <1>1, <2>4, <3>2, <4>1 DEF Fits, Self
    <3> QED BY <3>1, <3>2
  <2>9. AddressOK'
    BY <1>1 DEF Inv, AddressOK
  <2>10. LoggedInAsSelf'
    BY <1>1 DEF Inv, LoggedInAsSelf
  <2> QED BY <2>6, <2>7, <2>8, <2>9, <2>10 DEF Inv
<1> QED BY <1>2, <1>3 DEF Callback

\* An address that an account had remains one that it had.
LEMMA ChangeStep ==
  ASSUME Inv, NEW a \in Accounts, NEW e \in Emails, ChangeEmail(a, e)
  PROVE  Inv'
<1>1. /\ UNCHANGED <<opened, states, users, req, faults, into, uses>> /\ a.provider # "email"
      /\ email' = [email EXCEPT ![a] = e] /\ had' = [had EXCEPT ![a] = @ \cup {e}] /\ TypeOK
  BY DEF ChangeEmail, Inv
<1>2. \A b \in Accounts : had[b] \subseteq had'[b]
  BY <1>1 DEF TypeOK
<1>3. TypeOK'
  BY <1>1 DEF TypeOK
<1>4. AddressOK'
  BY <1>1 DEF Inv, AddressOK, TypeOK
<1>5. LoggedInAsSelf'
  <2>1. into' = into /\ users' = users
    BY <1>1
  <2>2. \A b \in Accounts : \A n \in into[b] :
          \/ users[n].provider = b.provider /\ users[n].id = b.id
          \/ \E d \in had'[b] : Lower[d] = Lower[users[n].email]
    BY <1>2 DEF Inv, LoggedInAsSelf
  <2> QED BY <2>1, <2>2 DEF LoggedInAsSelf
<1>6. StatesOK'
  BY <1>1, SMTT(30) DEF Inv, StatesOK
<1>7. (\A r \in Requests : Fits(req[r]))'
  <2> SUFFICES ASSUME NEW r \in Requests PROVE Fits(req[r])'
    OBVIOUS
  <2>1. Fits(req[r])
    BY DEF Inv
  <2> QED BY <1>1, <1>2, <2>1 DEF Fits, Self
<1> QED BY <1>3, <1>4, <1>5, <1>6, <1>7, SMTT(30) DEF Inv

-----------------------------------------------------------------------------
(* Theorems.                                                               *)

\* Every step of the callbacks and of what happens meanwhile keeps the invariant.
THEOREM NextInv == Inv /\ [Next]_vars => Inv'
<1> SUFFICES ASSUME Inv, [Next]_vars PROVE Inv'
  OBVIOUS
<1>1. CASE GitHubLogin \/ GoogleLogin
  BY <1>1, AuthURLStep DEF GitHubLogin, GoogleLogin, Providers
<1>2. ASSUME NEW r \in Requests, Timeout(r) \/ Disconnect(r) PROVE Inv'
  <2>1. Return(r) /\ UNCHANGED <<opened, states, users, email, faults, had, into, uses>>
    BY <1>2 DEF Timeout, Disconnect
  <2>2. faults' \in 0..MaxFaults
    BY <2>1 DEF Inv, TypeOK
  <2> QED BY <2>1, <2>2, ReturnStep, SMTT(30)
<1>3. ASSUME NEW r \in Requests,
             \/ \E s \in StateTokens, a \in Accounts : Callback(r, s, a)
             \/ Exchange(r) \/ Disconnect(r)
             \/ \E a \in Accounts : VerifyOTP(r, a)
             \/ Serve(r)
      PROVE  Inv'
  BY <1>2, <1>3, CallbackStep, ExchangeStep, VerifyStep, LookupStep, TouchStep, CreateStep DEF Serve
<1>4. ASSUME NEW s \in StateTokens, ExpireState(s) PROVE Inv'
  <2>1. states' = states \ {s} /\ UNCHANGED <<opened, users, req, email, faults, had, into, uses>>
    BY <1>4 DEF ExpireState
  <2>2. faults' \in 0..MaxFaults
    BY <2>1 DEF Inv, TypeOK
  <2> QED BY <2>1, <2>2, ForgetStep
<1>5. CASE UNCHANGED vars
  <2>1. /\ UNCHANGED <<opened, states, email, had, into, uses>> /\ req' = req
        /\ users' = users /\ faults' = faults
    BY <1>5 DEF vars
  <2>2. Grown /\ faults' \in 0..MaxFaults
    BY <2>1 DEF Inv, TypeOK, Grown
  <2> QED BY <2>1, <2>2, GrownStep
<1> QED BY <1>1, <1>3, <1>4, <1>5, DeleteStep, ChangeStep DEF Next

\* The invariant holds in every state that logins reach.
THEOREM Invariance == Spec => []Inv
  BY InitInv, NextInv, PTL DEF Spec

\* The variables keep their types: in particular no row is made without an address
\* (GitHubEmails), and no request holds a row that is not there.
THEOREM TypeCorrect == Spec => []TypeOK
  BY Invariance, PTL DEF Inv

\* A state leads to one login at most: GETDEL gives it to one callback, and AuthURL
\* never makes it again.
THEOREM StatesAreSingleUse == Spec => []OneLoginPerState
<1>1. Inv => OneLoginPerState
  BY DEF Inv, StatesOK, OneLoginPerState
<1> QED BY <1>1, Invariance, PTL

\* GetByProviderID, GetByEmail and Create lead to a row of the account itself or of an
\* address that the provider has confirmed.
THEOREM NobodyElse == Spec => []LoggedInAsSelf
  BY Invariance, PTL DEF Inv

-----------------------------------------------------------------------------
(* The same user every time.                                               *)

\* Every row was made for some account with an address of it, and no two rows share
\* their address or their account.
RowsOK ==
  /\ \A n \in 1..Len(users) : \E a \in Accounts :
       users[n].provider = a.provider /\ users[n].id = a.id /\ users[n].email \in had[a]
  /\ \A m, n \in 1..Len(users) :
       m # n => /\ users[m].email # users[n].email
                /\ users[m].provider # users[n].provider \/ users[m].id # users[n].id

\* UNIQUE makes Create keep RowsOK; SoftDelete leaves the row in the table.
LEMMA RowsStep ==
  ASSUME Inv, RowsOK, [Next]_vars
  PROVE  RowsOK'
<1>1. TypeOK /\ Len(users) \in Nat /\ DOMAIN users = 1..Len(users)
  BY SMTT(30) DEF Inv, TypeOK
<1>2. ASSUME NEW r \in Requests, Create(r), users' # users PROVE RowsOK'
  <2>1. PICK a : a = req[r].acct
    OBVIOUS
  <2>2. PICK e : e = req[r].email
    OBVIOUS
  <2>3. PICK row : row = [provider |-> a.provider, id |-> a.id, email |-> e, active |-> TRUE]
    BY Zenon
  <2>4. users' = Append(users, row) /\ ~Taken(a, e) /\ had' = had /\ req[r].pc = "create"
    BY <1>2, <2>1, <2>2, <2>3 DEF Create, At
  <2>5. a \in Accounts /\ e \in had[a] /\ e \in Emails
    BY <2>1, <2>2, <2>4 DEF Inv, Fits, TypeOK
  <2>6. row.provider = a.provider /\ row.id = a.id /\ row.email = e
    BY <2>3
  <2>7. /\ Len(users') = Len(users) + 1 /\ users'[Len(users) + 1] = row
        /\ \A n \in 1..Len(users) : users'[n] = users[n]
    BY <1>1, <2>4 DEF TypeOK
  <2>8. \A n \in 1..Len(users) : users[n].email # e /\ ~(users[n].provider = a.provider /\ users[n].id = a.id)
    BY <1>1, <2>4 DEF Taken, SameAccount
  <2>9. \A n \in 1..Len(users') : n \in 1..Len(users) \/ n = Len(users) + 1
    BY <1>1, <2>7, SMTT(30)
  <2>10. \A n \in 1..Len(users') : \E b \in Accounts :
           users'[n].provider = b.provider /\ users'[n].id = b.id /\ users'[n].email \in had[b]
    BY <2>5, <2>6, <2>7, <2>9 DEF RowsOK
  <2>11. \A m, n \in 1..Len(users') :
           m # n => /\ users'[m].email # users'[n].email
                    /\ users'[m].provider # users'[n].provider \/ users'[m].id # users'[n].id
    BY <2>6, <2>7, <2>8, <2>9 DEF RowsOK
  <2> QED BY <2>4, <2>10, <2>11 DEF RowsOK
<1>3. ASSUME NEW n \in DOMAIN users, SoftDelete(n) PROVE RowsOK'
  <2>1. /\ users[n] \in Row /\ users' = [users EXCEPT ![n].active = FALSE] /\ had' = had
    BY <1>1, <1>3 DEF SoftDelete, TypeOK
  <2>2. PICK row : row = [users[n] EXCEPT !.active = FALSE]
    BY Zenon
  <2>3. /\ row.provider = users[n].provider /\ row.id = users[n].id /\ row.email = users[n].email
        /\ row \in Row
    BY <2>1, <2>2, Zenon DEF Row
  <2>4. users' = [users EXCEPT ![n] = row] /\ n \in 1..Len(users) /\ users \in Seq(Row)
    BY <1>1, <2>1, <2>2 DEF TypeOK
  <2>5. Len(users') = Len(users) /\ \A m \in 1..Len(users) : users'[m] = IF m = n THEN row ELSE users[m]
    BY <2>3, <2>4, ExceptSeq, SMTT(30)
  <2> QED BY <2>1, <2>3, <2>5 DEF RowsOK
<1>4. CASE users' = users /\ \A a \in Accounts : had[a] \subseteq had'[a]
  BY <1>4 DEF RowsOK
<1>5. ASSUME NEW a \in Accounts, NEW e \in Emails, ChangeEmail(a, e) PROVE RowsOK'
  <2>1. users' = users /\ \A b \in Accounts : had[b] \subseteq had'[b]
    BY <1>1, <1>5 DEF ChangeEmail, TypeOK
  <2> QED BY <1>4, <2>1
<1>6. ASSUME NEW r \in Requests,
             \/ \E s \in StateTokens, a \in Accounts : Callback(r, s, a)
             \/ Exchange(r) \/ Disconnect(r)
             \/ \E a \in Accounts : VerifyOTP(r, a)
             \/ Serve(r)
      PROVE  RowsOK'
  <2>1. had' = had /\ (users' = users \/ Create(r))
    BY <1>6, Zenon DEF Callback, Exchange, Disconnect, VerifyOTP, Serve, GetByProviderID, GetByEmail, Touch,
                Create, Timeout
  <2> QED BY <1>2, <1>4, <2>1, SMTT(30)
<1>7. CASE GitHubLogin \/ GoogleLogin \/ (\E s \in StateTokens : ExpireState(s)) \/ UNCHANGED vars
  <2>1. had' = had /\ users' = users
    BY <1>7 DEF GitHubLogin, GoogleLogin, AuthURL, ExpireState, vars
  <2> QED BY <1>4, <2>1
<1> QED BY <1>3, <1>5, <1>6, <1>7 DEF Next

\* An account whose address does not change, and is spelled in one way, is logged in as
\* one user however its callbacks race, fail and fall through: GetByProviderID,
\* GetByEmail and Create can only lead to the one row that has its address.
THEOREM OneUserPerAccount == Spec => []SameUserAgain
<1>1. Init => RowsOK
  BY DEF Init, RowsOK
<1>2. Inv /\ RowsOK => SameUserAgain
  <2> SUFFICES ASSUME Inv, RowsOK, NEW a \in Accounts, ~Moved(a), ~Ambiguous(a)
               PROVE  Cardinality(into[a]) <= 1
    BY DEF SameUserAgain
  <2>1. had[a] = {email[a]} /\ TypeOK /\ into[a] \subseteq 1..Len(users) /\ DOMAIN users = 1..Len(users)
    BY DEF Moved, Inv, TypeOK
  <2>2. \A n \in 1..Len(users) :
          users[n].provider = a.provider /\ users[n].id = a.id => users[n].email = email[a]
    <3> SUFFICES ASSUME NEW n \in 1..Len(users),
                        users[n].provider = a.provider /\ users[n].id = a.id
                 PROVE  users[n].email = email[a]
      OBVIOUS
    <3>1. PICK b \in Accounts :
            users[n].provider = b.provider /\ users[n].id = b.id /\ users[n].email \in had[b]
      BY SMTT(30) DEF RowsOK
    <3>2. b = a
      BY <3>1, ConstantsAssumption, Zenon
    <3> QED BY <2>1, <3>1, <3>2
  <2>3. \A n \in 1..Len(users) : Lower[users[n].email] = Lower[email[a]] => users[n].email = email[a]
    BY <2>1 DEF Ambiguous
  <2>4. \A n \in into[a] : users[n].email = email[a]
    BY <2>1, <2>2, <2>3 DEF Inv, LoggedInAsSelf
  <2>5. \A m, n \in into[a] : m = n
    BY <2>1, <2>4 DEF RowsOK
  <2>6. CASE into[a] = {}
    BY <2>6, FS_EmptySet
  <2>7. CASE into[a] # {}
    <3>1. PICK n \in into[a] : into[a] = {n}
      BY <2>5, <2>7
    <3>2. Cardinality({n}) = 1
      BY FS_Singleton
    <3> QED BY <3>1, <3>2
  <2> QED BY <2>6, <2>7
<1> QED BY <1>1, <1>2, RowsStep, Invariance, PTL DEF Spec
=============================================================================
