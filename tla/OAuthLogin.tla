----------------------------- MODULE OAuthLogin -----------------------------
(***************************************************************************)
(* Login through GitHub and Google (internal/auth/handler/http and         *)
(* internal/auth/adapter/oauth) and by a code sent by email, down to the   *)
(* row of table users that each of them ends in                            *)
(* (internal/auth/adapter/postgres/user_repository.go).                    *)
(*                                                                         *)
(* A browser is sent to a provider with a state token, the provider sends  *)
(* it back with a code, and the callback looks for a user or creates one.  *)
(* A browser may repeat a callback, and several are served at a time.      *)
(* Every call to Redis, Postgres or a provider is a step.  The state token *)
(* stands for its PKCE verifier too, which is stored with it.              *)
(***************************************************************************)
EXTENDS Naturals, Sequences, FiniteSets

CONSTANTS
  Requests,    \* goroutines serving callbacks
  Accounts,    \* accounts: provider and ID; that of an address is the address
  Emails,
  Lower,       \* SQL's LOWER on Emails
  Addresses,   \* the addresses that the accounts may have at first
  MaxStates,   \* bound: state tokens created
  MaxFaults,   \* bound: calls to Redis and Postgres that fail
  MaxChanges   \* bound: accounts whose address changes, each once

Providers == {"github", "google", "email"}

ASSUME ConstantsAssumption ==
  /\ Lower \in [Emails -> Emails]
  /\ \A a \in Accounts : a.provider \in Providers
  /\ \A a, b \in Accounts : a.provider = b.provider /\ a.id = b.id => a = b
  /\ Addresses \subseteq [Accounts -> Emails]
  /\ \A a \in Accounts : a.provider = "email" =>
       a.id \in Emails /\ \A f \in Addresses : f[a] = a.id
  /\ MaxStates \in Nat /\ MaxFaults \in Nat /\ MaxChanges \in Nat

VARIABLES
  opened,    \* opened[s]: the provider for which AuthURL made state s
  states,    \* the keys rftw:oauth:state:<s> in Redis
  users,     \* users[n]: the n-th row of table users
  req,       \* req[r]: the login that goroutine r serves
  email,     \* email[a]: the address the provider knows account a by
  faults,    \* failed calls so far
  had,       \* history: had[a]: every value of email[a]
  into,      \* history: into[a]: the rows that account a was logged in as
  uses       \* history: uses[s]: the logins that state s led to

vars == <<opened, states, users, req, email, faults, had, into, uses>>

StateTokens == 1..MaxStates
NoAccount == [provider |-> "none", id |-> "none"]
NoEmail == "none"
Idle == [pc |-> "idle", acct |-> NoAccount, state |-> 0, email |-> NoEmail, row |-> 0]
PCs == {"idle", "exchange", "byProvider", "byEmail", "touch", "create"}
Row == [provider : Providers, id : {a.id : a \in Accounts}, email : Emails, active : BOOLEAN]

TypeOK ==
  /\ opened \in Seq(Providers) /\ Len(opened) <= MaxStates
  /\ states \subseteq 1..Len(opened)
  /\ users \in Seq(Row)
  /\ req \in [Requests -> [pc : PCs, acct : Accounts \cup {NoAccount},
                           state : 0..MaxStates, email : Emails \cup {NoEmail},
                           row : 0..Len(users)]]
  /\ email \in [Accounts -> Emails]
  /\ faults \in 0..MaxFaults
  /\ had \in [Accounts -> SUBSET Emails]
  /\ into \in [Accounts -> SUBSET (1..Len(users))]
  /\ uses \in [StateTokens -> Nat]

Init ==
  /\ opened = <<>> /\ states = {} /\ users = <<>>
  /\ req = [r \in Requests |-> Idle]
  /\ email \in Addresses
  /\ faults = 0
  /\ had = [a \in Accounts |-> {email[a]}]
  /\ into = [a \in Accounts |-> {}]
  /\ uses = [s \in StateTokens |-> 0]

-----------------------------------------------------------------------------
Fault == faults < MaxFaults /\ faults' = faults + 1
At(r, pc) == req[r].pc = pc
Goto(r, pc) == req' = [req EXCEPT ![r].pc = pc]
Return(r) == req' = [req EXCEPT ![r] = Idle]

\* The handler answers with a session of row n for the account it serves.
LogIn(r, n) ==
  LET a == req[r].acct
      s == req[r].state
  IN  /\ into' = [into EXCEPT ![a] = @ \cup {n}]
      /\ uses' = IF s = 0 THEN uses ELSE [uses EXCEPT ![s] = @ + 1]
      /\ Return(r)

(* GitHubLogin and GoogleLogin redirect to the URL that AuthURL makes.     *)

\* SET rftw:oauth:state:<s> with a lifetime.  When it fails nobody is redirected,
\* and nobody knows the state.
CreateState(p) ==
  /\ Len(opened) < MaxStates
  /\ opened' = Append(opened, p)
  /\ states' = states \cup {Len(opened) + 1}

AuthURL(p) ==
  /\ CreateState(p)
  /\ UNCHANGED <<users, req, email, faults, had, into, uses>>

GitHubLogin == AuthURL("github")

GoogleLogin == AuthURL("google")

-----------------------------------------------------------------------------
(* GitHubCallback and GoogleCallback; VerifyOTP joins them at byEmail.     *)

CallbackRequest(s, a) == [Idle EXCEPT !.pc = "exchange", !.state = s, !.acct = a]

\* Faulty variant: the state is read and not deleted.
CallbackGet(r, s, a) ==
  /\ At(r, "idle") /\ s \in states /\ opened[s] = a.provider
  /\ req' = [req EXCEPT ![r] = CallbackRequest(s, a)]
  /\ UNCHANGED <<opened, states, users, email, faults, had, into, uses>>

\* The provider has sent the browser back with a code for account a.  Verify is
\* GETDEL: a state that is not there, or an error, ends the request.
Callback(r, s, a) ==
  /\ At(r, "idle") /\ s \in states /\ opened[s] = a.provider
  /\ states' = states \ {s}
  /\ \/ /\ req' = [req EXCEPT ![r] = CallbackRequest(s, a)]
        /\ UNCHANGED faults
     \/ Fault /\ UNCHANGED req
  /\ UNCHANGED <<opened, users, email, had, into, uses>>

\* GET /user: the account's ID and the address of its profile, which may show none.
fetchUser(a) == {[id |-> a.id, email |-> e] : e \in {email[a], NoEmail}}

\* GET /user/emails: the primary address, if it is verified.
fetchPrimaryEmail(a) == {email[a], NoEmail}

\* The address of a profile, or the primary one if the profile shows none.
\* Without either the login is refused.
GitHubEmails(a) ==
  UNION {IF u.email # NoEmail THEN {u.email} ELSE fetchPrimaryEmail(a) \ {NoEmail} :
           u \in fetchUser(a)}

\* The claims of an ID token that is in order.
validateIDToken(a) == {[sub |-> a.id, email |-> email[a], verified |-> v] : v \in BOOLEAN}

\* "email not verified by Google" refuses the login.
GoogleEmails(a) == {c.email : c \in {d \in validateIDToken(a) : d.verified}}

\* The code is exchanged for a token, and that for the ID of the account and its
\* address.  Every error ends the login.
Exchange(r) ==
  LET a == req[r].acct
  IN  /\ At(r, "exchange")
      /\ \/ \E e \in IF a.provider = "github" THEN GitHubEmails(a) ELSE GoogleEmails(a) :
              req' = [req EXCEPT ![r].pc = "byProvider", ![r].email = e]
         \/ Return(r)
      /\ UNCHANGED <<opened, states, users, email, faults, had, into, uses>>

\* Faulty variant: no deadline is set for the calls to GitHub.
NoTimeout(r) ==
  /\ FALSE
  /\ UNCHANGED vars

\* GitHubCallback allows its provider 30 seconds.
Timeout(r) ==
  /\ req[r].acct.provider = "github" /\ At(r, "exchange")
  /\ Return(r)
  /\ UNCHANGED <<opened, states, users, email, faults, had, into, uses>>

\* The browser of a callback goes away, which ends the request's context.
Disconnect(r) ==
  /\ At(r, "exchange")
  /\ Return(r)
  /\ UNCHANGED <<opened, states, users, email, faults, had, into, uses>>

\* The code sent to address a.id was right.
VerifyOTP(r, a) ==
  /\ At(r, "idle") /\ a.provider = "email"
  /\ req' = [req EXCEPT ![r] = [Idle EXCEPT !.pc = "byEmail", !.acct = a, !.email = a.id]]
  /\ UNCHANGED <<opened, states, users, email, faults, had, into, uses>>

\* Faulty variant: the provider is not compared.
SameID(n, a) == users[n].id = a.id

SameAccount(n, a) == users[n].provider = a.provider /\ users[n].id = a.id

ByProviderID(a) == {n \in DOMAIN users : SameAccount(n, a) /\ users[n].active}

ByEmail(e) == {n \in DOMAIN users : Lower[users[n].email] = Lower[e] /\ users[n].active}

\* The first row that a query finds, or ErrUserNotFound.
NotFound == 0
scanUser(rows) == IF rows = {} THEN {NotFound} ELSE rows

\* The login goes on with row n, or with step next if there is none.
Found(r, n, next) ==
  IF n = NotFound THEN Goto(r, next)
  ELSE req' = [req EXCEPT ![r].pc = "touch", ![r].row = n]

\* Any error counts as "not found".  Google then looks for the address.
GetByProviderID(r) ==
  LET a == req[r].acct
      next == IF a.provider = "google" THEN "byEmail" ELSE "create"
  IN  /\ At(r, "byProvider")
      /\ \/ /\ \E n \in scanUser(ByProviderID(a)) : Found(r, n, next)
            /\ UNCHANGED faults
         \/ Fault /\ Goto(r, next)
      /\ UNCHANGED <<opened, states, users, email, had, into, uses>>

\* Google creates a user after any error, VerifyOTP only after ErrUserNotFound.
GetByEmail(r) ==
  /\ At(r, "byEmail")
  /\ \/ /\ \E n \in scanUser(ByEmail(req[r].email)) : Found(r, n, "create")
        /\ UNCHANGED faults
     \/ Fault /\ IF req[r].acct.provider = "google" THEN Goto(r, "create") ELSE Return(r)
  /\ UNCHANGED <<opened, states, users, email, had, into, uses>>

\* UpdateGitHubToken and UpdateLastLogin; their errors are dropped, those of the
\* token stores are not.
Touch(r) ==
  /\ At(r, "touch")
  /\ \/ LogIn(r, req[r].row) /\ UNCHANGED faults
     \/ Fault /\ Return(r) /\ UNCHANGED <<into, uses>>
  /\ UNCHANGED <<opened, states, users, email, had>>

\* Faulty variant: only the account is unique.
TakenAccount(a, e) == \E n \in DOMAIN users : SameAccount(n, a)

\* UNIQUE (email) and UNIQUE (provider, provider_id), deleted rows included.
Taken(a, e) ==
  \E n \in DOMAIN users : users[n].email = e \/ SameAccount(n, a)

\* INSERT; a unique violation, like any error, ends the login.
Create(r) ==
  LET a == req[r].acct
      e == req[r].email
      row == [provider |-> a.provider, id |-> a.id, email |-> e, active |-> TRUE]
  IN  /\ At(r, "create")
      /\ \/ /\ ~Taken(a, e)
            /\ users' = Append(users, row)
            /\ \/ LogIn(r, Len(users) + 1) /\ UNCHANGED faults
               \/ Fault /\ Return(r) /\ UNCHANGED <<into, uses>>
         \/ /\ Taken(a, e) /\ Return(r)
            /\ UNCHANGED <<users, faults, into, uses>>
         \/ /\ Fault /\ Return(r)
            /\ UNCHANGED <<users, into, uses>>
      /\ UNCHANGED <<opened, states, email, had>>

-----------------------------------------------------------------------------
(* What happens meanwhile.                                                 *)

\* Ten minutes pass (StateTTL).
ExpireState(s) ==
  /\ s \in states
  /\ states' = states \ {s}
  /\ UNCHANGED <<opened, users, req, email, faults, had, into, uses>>

SoftDelete(n) ==
  /\ users[n].active
  /\ users' = [users EXCEPT ![n].active = FALSE]
  /\ UNCHANGED <<opened, states, req, email, faults, had, into, uses>>

Moved(a) == had[a] # {email[a]}

\* Someone changes the address of their account at the provider.
ChangeEmail(a, e) ==
  /\ a.provider # "email" /\ e # email[a]
  /\ Cardinality({b \in Accounts : Moved(b)}) < MaxChanges /\ ~Moved(a)
  /\ email' = [email EXCEPT ![a] = e]
  /\ had' = [had EXCEPT ![a] = @ \cup {e}]
  /\ UNCHANGED <<opened, states, users, req, faults, into, uses>>

-----------------------------------------------------------------------------
Serve(r) == GetByProviderID(r) \/ GetByEmail(r) \/ Touch(r) \/ Create(r) \/ Timeout(r)

Next ==
  \/ GitHubLogin \/ GoogleLogin
  \/ \E r \in Requests :
       \/ \E s \in StateTokens, a \in Accounts : Callback(r, s, a)
       \/ Exchange(r) \/ Disconnect(r)
       \/ \E a \in Accounts : VerifyOTP(r, a)
       \/ Serve(r)
  \/ \E s \in StateTokens : ExpireState(s)
  \/ \E n \in DOMAIN users : SoftDelete(n)
  \/ \E a \in Accounts, e \in Emails : ChangeEmail(a, e)

Spec == Init /\ [][Next]_vars

\* Google answers or the browser goes away; GitHub need not answer.
GoogleEnds(r) ==
  /\ req[r].acct.provider = "google"
  /\ Exchange(r) \/ Disconnect(r)

FairSpec ==
  Spec /\ \A r \in Requests : WF_vars(Serve(r)) /\ WF_vars(GoogleEnds(r))

-----------------------------------------------------------------------------
(* Properties.                                                             *)

\* "Single-use enforcement": however often a browser repeats its callback, and
\* however many of them are served at once, a state leads to one login at most.
OneLoginPerState == \A s \in StateTokens : uses[s] <= 1

\* Whoever is logged in gets a row made for that very account or for an address
\* which the provider had confirmed, also when lookups fail and fall through to
\* the next one, and when addresses change or rows appear between two lookups.
LoggedInAsSelf ==
  \A a \in Accounts : \A n \in into[a] :
    \/ users[n].provider = a.provider /\ users[n].id = a.id
    \/ \E e \in had[a] : Lower[e] = Lower[users[n].email]

\* The address is spelled in another way in some row (UNIQUE is case-sensitive,
\* GetByEmail is not, and the GitHub callback does not look for it).
Ambiguous(a) ==
  \E n \in DOMAIN users :
    users[n].email # email[a] /\ Lower[users[n].email] = Lower[email[a]]

\* "Should return existing user, not create duplicate": an account whose address
\* does not change, and is spelled in one way, is logged in as the same user
\* every time, although linking by address is not recorded anywhere: not even
\* failing lookups, racing first logins and deleted rows lead it to another one.
SameUserAgain ==
  \A a \in Accounts :
    ~Moved(a) /\ ~Ambiguous(a) => Cardinality(into[a]) <= 1

\* A callback is answered even if GitHub never does; one for Google needs an
\* answer of Google or a browser that gives up, because it sets no deadline.
EveryCallbackReturns == \A r \in Requests : []<>At(r, "idle")
=============================================================================
