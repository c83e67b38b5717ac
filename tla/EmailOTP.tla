------------------------------ MODULE EmailOTP ------------------------------
(***************************************************************************)
(* Login with a code sent by email: RequestOTP and VerifyOTP of the auth   *)
(* service (internal/auth/handler/rpc/auth_handler.go) and the Generator   *)
(* they call (internal/auth/adapter/otp/generator.go), for one address.    *)
(* Every call to the challenge repository is a step, and requests of       *)
(* several clients interleave between them.  The user that a login ends in *)
(* is the subject of OAuthLogin.                                           *)
(*                                                                         *)
(* The repository of challenges is an interface without an implementation  *)
(* in the code; each of its operations is taken to be atomic and to behave *)
(* as the in-memory one of the tests does.  A code is right or wrong.      *)
(***************************************************************************)
EXTENDS Naturals, FiniteSets

CONSTANTS
  Clients,         \* processes that call the service
  OTPMaxAttempts,  \* wrong codes before a challenge is deleted
  MaxChallenges,   \* bound: challenges created
  MaxFaults        \* bound: calls that fail

ASSUME ConstantsAssumption ==
  /\ IsFiniteSet(Clients)
  /\ OTPMaxAttempts \in Nat \ {0} /\ MaxChallenges \in Nat /\ MaxFaults \in Nat

VARIABLES
  made,       \* challenges created so far; the n-th is the number n
  stored,     \* the challenges in the repository
  attempts,   \* attempts[c]: field Attempts
  used,       \* the challenges with field Used set
  expired,    \* the challenges whose ExpiresAt has passed
  req,        \* req[k]: the request client k waits for
  faults,     \* failed calls so far
  tries,      \* history: tries[c]: wrong codes compared with c's
  accepted    \* history: accepted[c]: requests that Verify let through

vars == <<made, stored, attempts, used, expired, req, faults, tries, accepted>>

Challenges == 1..MaxChallenges
PCs == {"idle", "delete", "create", "increment", "lockout", "markUsed"}
Idle == [pc |-> "idle", ch |-> 0]

TypeOK ==
  /\ made \in 0..MaxChallenges
  /\ stored \subseteq 1..made
  /\ attempts \in [Challenges -> Nat]
  /\ used \subseteq 1..made /\ expired \subseteq 1..made
  /\ req \in [Clients -> [pc : PCs, ch : 0..MaxChallenges]]
  /\ \A k \in Clients : req[k].ch <= made
  /\ faults \in 0..MaxFaults
  /\ tries \in [Challenges -> Nat] /\ accepted \in [Challenges -> Nat]

Init ==
  /\ made = 0 /\ stored = {} /\ used = {} /\ expired = {}
  /\ attempts = [c \in Challenges |-> 0]
  /\ req = [k \in Clients |-> Idle]
  /\ faults = 0
  /\ tries = [c \in Challenges |-> 0] /\ accepted = [c \in Challenges |-> 0]

-----------------------------------------------------------------------------
Fault == faults < MaxFaults /\ faults' = faults + 1
At(k, pc) == req[k].pc = pc
Goto(k, pc) == req' = [req EXCEPT ![k].pc = pc]
Return(k) == req' = [req EXCEPT ![k] = Idle]

(* RequestOTP *)

\* Issue.  When the rate limiter refuses the request nothing changes.
Issue(k) ==
  /\ At(k, "idle")
  /\ Goto(k, "delete")
  /\ UNCHANGED <<made, stored, attempts, used, expired, faults, tries, accepted>>

\* Faulty variant: prior challenges are kept.
DeleteByEmailSkipped(k) ==
  /\ At(k, "delete")
  /\ Goto(k, "create")
  /\ UNCHANGED <<made, stored, attempts, used, expired, faults, tries, accepted>>

\* DeleteByEmail; its error is ignored.
DeleteByEmail(k) ==
  /\ At(k, "delete")
  /\ \/ stored' = {} /\ UNCHANGED faults
     \/ UNCHANGED stored /\ Fault
  /\ Goto(k, "create")
  /\ UNCHANGED <<made, attempts, used, expired, tries, accepted>>

\* A fresh challenge is stored and mailed.  That no code can be drawn or hashed for it
\* has the effect of an insert that fails.
Create(k) ==
  /\ At(k, "create") /\ made < MaxChallenges
  /\ made' = made + 1
  /\ \/ stored' = stored \cup {made + 1} /\ UNCHANGED faults
     \/ stored' \in {stored, stored \cup {made + 1}} /\ Fault
  /\ Return(k)
  /\ UNCHANGED <<attempts, used, expired, tries, accepted>>

-----------------------------------------------------------------------------
(* VerifyOTP *)

\* Verify's test of the counter it has read.
Locked(c) == attempts[c] >= OTPMaxAttempts

Refused(c) == c \notin stored \/ c \in used \/ c \in expired

\* Faulty variant: a used challenge is not refused.
VerifyForgetsUsed(k, c, right) ==
  /\ At(k, "idle")
  /\ c \in stored /\ c \notin expired
  /\ req' = [req EXCEPT ![k] = [pc |-> IF Locked(c) THEN "lockout"
                                       ELSE IF right THEN "markUsed" ELSE "increment",
                                ch |-> c]]
  /\ tries' = [tries EXCEPT ![c] = IF Locked(c) \/ right THEN @ ELSE @ + 1]
  /\ UNCHANGED <<made, stored, attempts, used, expired, faults, accepted>>

\* GetByID, the tests of what it returned, and the comparison of the code.
\* A challenge that is refused, or cannot be read, ends the request.
Verify(k, c, right) ==
  /\ At(k, "idle")
  /\ ~ Refused(c)
  /\ req' = [req EXCEPT ![k] = [pc |-> IF Locked(c) THEN "lockout"
                                       ELSE IF right THEN "markUsed" ELSE "increment",
                                ch |-> c]]
  /\ tries' = [tries EXCEPT ![c] = IF Locked(c) \/ right THEN @ ELSE @ + 1]
  /\ UNCHANGED <<made, stored, attempts, used, expired, faults, accepted>>

\* Faulty variant: the attempt is counted on the copy that Verify has read.
IncrementOnCopy(k) ==
  LET c == req[k].ch
  IN  /\ At(k, "increment") /\ c \in stored
      /\ IF attempts[c] + 1 >= OTPMaxAttempts THEN Goto(k, "lockout") ELSE Return(k)
      /\ UNCHANGED <<made, stored, attempts, used, expired, faults, tries, accepted>>

\* Faulty variant: the first wrong code is already one too many.
IncrementImpatient(k) ==
  LET c == req[k].ch
  IN  /\ At(k, "increment") /\ c \in stored
      /\ attempts' = [attempts EXCEPT ![c] = @ + 1]
      /\ IF attempts[c] + 2 >= OTPMaxAttempts THEN Goto(k, "lockout") ELSE Return(k)
      /\ UNCHANGED <<made, stored, used, expired, faults, tries, accepted>>

\* IncrementAttempts of a challenge that is still there.
Increment(k) ==
  LET c == req[k].ch
  IN  /\ At(k, "increment") /\ c \in stored
      /\ attempts' = [attempts EXCEPT ![c] = @ + 1]
      /\ IF attempts[c] + 1 >= OTPMaxAttempts THEN Goto(k, "lockout") ELSE Return(k)
      /\ UNCHANGED <<made, stored, used, expired, faults, tries, accepted>>

\* IncrementAttempts fails, its error is ignored and the count it returns is 0.
IncrementFails(k) ==
  LET c == req[k].ch
  IN  /\ At(k, "increment")
      /\ \/ c \notin stored /\ UNCHANGED <<attempts, faults>>
         \/ c \in stored /\ Fault /\ attempts' \in {attempts, [attempts EXCEPT ![c] = @ + 1]}
      /\ Return(k)
      /\ UNCHANGED <<made, stored, used, expired, tries, accepted>>

\* DeleteByEmail once the limit is reached: it deletes every challenge of the
\* address, not only the one that was read.
Lockout(k) ==
  /\ At(k, "lockout")
  /\ \/ stored' = {} /\ UNCHANGED faults
     \/ UNCHANGED stored /\ Fault
  /\ Return(k)
  /\ UNCHANGED <<made, attempts, used, expired, tries, accepted>>

\* MarkUsed: it does not tell a challenge that was used in the meantime.  The
\* login goes on as VerifyOTP of module OAuthLogin.
MarkUsed(k) ==
  LET c == req[k].ch
  IN  /\ At(k, "markUsed") /\ c \in stored
      /\ used' = used \cup {c}
      /\ accepted' = [accepted EXCEPT ![c] = @ + 1]
      /\ Return(k)
      /\ UNCHANGED <<made, stored, attempts, expired, faults, tries>>

MarkUsedFails(k) ==
  LET c == req[k].ch
  IN  /\ At(k, "markUsed")
      /\ \/ c \notin stored /\ UNCHANGED <<used, faults>>
         \/ c \in stored /\ Fault /\ used' \in {used, used \cup {c}}
      /\ Return(k)
      /\ UNCHANGED <<made, stored, attempts, expired, tries, accepted>>

\* Ten minutes pass.
Expire(c) ==
  /\ c \in stored \ expired
  /\ expired' = expired \cup {c}
  /\ UNCHANGED <<made, stored, attempts, used, req, faults, tries, accepted>>

-----------------------------------------------------------------------------
Step(k) ==
  \/ DeleteByEmail(k) \/ Create(k)
  \/ Increment(k) \/ IncrementFails(k) \/ Lockout(k)
  \/ MarkUsed(k) \/ MarkUsedFails(k)

Next ==
  \/ \E k \in Clients :
       \/ Issue(k) \/ Step(k)
       \/ \E c \in Challenges, right \in BOOLEAN : Verify(k, c, right)
  \/ \E c \in Challenges : Expire(c)

Spec == Init /\ [][Next]_vars

-----------------------------------------------------------------------------
(* Properties.                                                             *)

\* "OTPMaxAttempts is the max verification attempts before challenge deletion":
\* a challenge is compared with no more wrong codes than that, one for each other
\* client whose request had read the counter before the limit was reached, and
\* one for each call that failed to count.
GuessesBounded ==
  \A c \in Challenges : tries[c] < OTPMaxAttempts + Cardinality(Clients) + faults

\* A challenge that has been deleted is not stored again and one that was used
\* stays used, whatever requests still hold a copy of it.
NoRevival ==
  [][\A c \in 1..made : /\ c \in stored' => c \in stored
                        /\ c \in used => c \in used']_vars

\* A challenge lets one request through ("otp has already been used"), or one of
\* each client when they all read it before the first of them marks it used.
UsesBounded == \A c \in Challenges : accepted[c] <= Cardinality(Clients)

\* "Invalidate prior OTPs for this email": one challenge is stored at most for
\* each client, whose requests may overlap between the deletion and the creation,
\* and for each deletion that failed.
ChallengesBounded == Cardinality(stored) <= Cardinality(Clients) + faults

\* The code mailed last can be used until a request for a new one deletes it,
\* unless a call failed or a challenge of the address has reached its limit:
\* its own limit, when requests do not overlap.
LatestStored ==
  made > 0 /\ made \notin stored =>
    \/ faults > 0
    \/ \E k \in Clients : At(k, "create")
    \/ \E c \in 1..made : /\ tries[c] >= OTPMaxAttempts
                          /\ c = made \/ Cardinality(Clients) > 1

=============================================================================
