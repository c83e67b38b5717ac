----------------------------- MODULE Ingestion -----------------------------
(***************************************************************************)
(* The ingestion service: the three requests that change state             *)
(* (SubmitWorkload, AddCloudCredentials and the push webhook), each a      *)
(* sequence of calls to Postgres and to the asynq queue, interleaved with  *)
(* the calls of the other requests.  A call can be refused (no effect, an  *)
(* error), its reply can be lost (the effect, and an error), the client    *)
(* can go away (the request's context is cancelled and every later call is *)
(* refused before it is sent), and the server can crash between two calls. *)
(*                                                                         *)
(* A workload's id is a fresh UUID, so the id of the workload a submission *)
(* creates is the submission itself.  The tables have the columns that     *)
(* queries.go names, as they do in the schemas of the tests; the           *)
(* migrations declare the same keys, which is what the properties rest on, *)
(* but lack some of these columns (see README.md).                         *)
(***************************************************************************)
EXTENDS Naturals, Sequences, FiniteSets

CONSTANTS Requests,    \* requests the service receives
          Names,       \* workload names clients choose
          Descriptors, \* what clients submit, as far as it is checked
          HookName,    \* the name process_webhook.go takes every push to be for
          Ops,         \* the operations of this instance
          Faults,      \* how a call may fail: a subset of {"refused", "lost"}
          MaxFaults,   \* bound on the failed calls of a request
          MaxCancels,  \* bound on the clients that go away
          MaxCrashes   \* bound on crashes of the server

ASSUME ConstantsAssumption ==
    /\ HookName \in Names
    /\ Ops \subseteq {"submit", "credential", "webhook"}
    /\ Faults \subseteq {"refused", "lost"}
    /\ MaxFaults \in Nat
    /\ MaxCancels \in Nat
    /\ MaxCrashes \in Nat

VARIABLES workloads,   \* the table workloads
          credentials, \* the table credentials
          tasks,       \* the tasks in the asynq queues
          req,         \* the requests
          faults,      \* faults[r]: how calls of r failed so far, in order
          crashes      \* crashes so far

vars == <<workloads, credentials, tasks, req, faults, crashes>>

-----------------------------------------------------------------------------

Steps == {"find", "save", "enqueueProvision", "rollback", "findByID",
          "saveCredential", "secret", "findHook", "enqueueBuild"}

\* "gone": the request died with the server.
PCs == Steps \union {"idle", "done", "gone"}

\* What the client is told: the Connect code or HTTP status of the answer.
Results == {"none", "ok", "exists", "invalid", "notfound", "unauthorized", "internal"}

\* WorkloadStatus.  Only NewWorkload assigns one: UpdateStatus has no caller.
Statuses == {"PENDING", "RUNNING", "FAILED"}

Buildable == {"PENDING", "RUNNING"}

Workload == [id : Requests, name : Names, status : Statuses]

Credential == [id : Requests, workload : Requests]

TaskTypes == {"provisioner:deploy", "build:image"}

Task == [type : TaskTypes, workload : Requests, by : Requests]

Request == [op : {"none", "submit", "credential", "webhook"}, pc : PCs,
            name : Names, target : Requests, alive : BOOLEAN, result : Results]

Init == /\ workloads = {}
        /\ credentials = {}
        /\ tasks = {}
        /\ req = [r \in Requests |-> [op |-> "none", pc |-> "idle", name |-> HookName,
                                     target |-> r, alive |-> TRUE, result |-> "none"]]
        /\ faults = [r \in Requests |-> <<>>]
        /\ crashes = 0

Active(r) == req[r].pc \in Steps

\* r goes on to step pc, or ends with the given result.
Goto(r, pc) == req' = [req EXCEPT ![r].pc = pc]

Return(r, result) == req' = [req EXCEPT ![r].pc = "done", ![r].result = result]

(***************************************************************************)
(* How r's next call to Postgres or Redis ends.  A cancelled context       *)
(* refuses the call; otherwise a failure is one of Faults.                 *)
(***************************************************************************)
Call(r, outcome) ==
    \/ /\ req[r].alive /\ outcome = "done"
       /\ UNCHANGED faults
    \/ /\ req[r].alive /\ outcome \in Faults /\ Len(faults[r]) < MaxFaults
       /\ faults' = [faults EXCEPT ![r] = Append(@, outcome)]
    \/ /\ ~ req[r].alive /\ outcome = "refused"
       /\ UNCHANGED faults

Outcomes == {"done", "refused", "lost"}

Takes(outcome) == outcome \in {"done", "lost"}

-----------------------------------------------------------------------------
(* SubmitWorkload *)

\* A descriptor: whether it has a primary region and a name that nameRegex
\* matches, the type of its source, its failover times and standby regions.
Validate(d) ==
    /\ d.wellNamed
    /\ d.source \in {"git", "image"}
    /\ d.rto >= 10 /\ d.rto <= 300
    /\ d.rpo >= 1 /\ d.rpo <= 60
    /\ d.standbys # 0

NewWorkload(d) == d.primary /\ Validate(d)

\* No call is made before the descriptor is found valid.
BeginSubmit(r, name, valid) ==
    /\ req[r].pc = "idle"
    /\ req' = [req EXCEPT ![r].op = "submit", ![r].name = name,
                          ![r].pc = IF valid THEN "find" ELSE "done",
                          ![r].result = IF valid THEN "none" ELSE "invalid"]
    /\ UNCHANGED <<workloads, credentials, tasks, faults, crashes>>

Named(name) == {w \in workloads : w.name = name}

FindByName(r, outcome) ==
    /\ req[r].pc = "find"
    /\ Call(r, outcome)
    /\ \/ outcome = "done" /\ Named(req[r].name) = {} /\ Goto(r, "save")
       \/ outcome = "done" /\ Named(req[r].name) # {} /\ Return(r, "exists")
       \/ outcome # "done" /\ Return(r, "internal")
    /\ UNCHANGED <<workloads, credentials, tasks, crashes>>

\* Faulty variant of Save: the table has no UNIQUE constraint on name.
SaveDuplicates(r, outcome) ==
    /\ req[r].pc = "save"
    /\ Call(r, outcome)
    /\ workloads' = IF Takes(outcome)
                      THEN workloads \union {[id |-> r, name |-> req[r].name,
                                              status |-> "PENDING"]}
                      ELSE workloads
    /\ IF outcome = "done" THEN Goto(r, "enqueueProvision") ELSE Return(r, "internal")
    /\ UNCHANGED <<credentials, tasks, crashes>>

\* Faulty variant of Save: the caller looks at the error of the call and not at the
\* constraint that was violated.
SaveUnchecked(r, outcome) ==
    /\ req[r].pc = "save"
    /\ Call(r, outcome)
    /\ workloads' = IF Takes(outcome) /\ Named(req[r].name) = {}
                      THEN workloads \union {[id |-> r, name |-> req[r].name,
                                              status |-> "PENDING"]}
                      ELSE workloads
    /\ IF outcome = "done" THEN Goto(r, "enqueueProvision") ELSE Return(r, "internal")
    /\ UNCHANGED <<credentials, tasks, crashes>>

\* The insert obeys the UNIQUE constraint on name; the error of a duplicate is
\* not told apart from any other.
Save(r, outcome) ==
    LET unique == Named(req[r].name) = {} IN
    /\ req[r].pc = "save"
    /\ Call(r, outcome)
    /\ workloads' = IF Takes(outcome) /\ unique
                      THEN workloads \union {[id |-> r, name |-> req[r].name,
                                              status |-> "PENDING"]}
                      ELSE workloads
    /\ IF outcome = "done" /\ unique THEN Goto(r, "enqueueProvision")
                                     ELSE Return(r, "internal")
    /\ UNCHANGED <<credentials, tasks, crashes>>

\* Faulty variant of EnqueueProvisionJob: the enqueuer's error is only logged.
EnqueueProvisionJobLogs(r, outcome) ==
    /\ req[r].pc = "enqueueProvision"
    /\ Call(r, outcome)
    /\ tasks' = IF Takes(outcome)
                  THEN tasks \union {[type |-> "provisioner:deploy", workload |-> r, by |-> r]}
                  ELSE tasks
    /\ Return(r, "ok")
    /\ UNCHANGED <<workloads, credentials, crashes>>

EnqueueProvisionJob(r, outcome) ==
    /\ req[r].pc = "enqueueProvision"
    /\ Call(r, outcome)
    /\ tasks' = IF Takes(outcome)
                  THEN tasks \union {[type |-> "provisioner:deploy", workload |-> r, by |-> r]}
                  ELSE tasks
    /\ IF outcome = "done" THEN Return(r, "ok") ELSE Goto(r, "rollback")
    /\ UNCHANGED <<workloads, credentials, crashes>>

\* Faulty variant of Rollback: the row is only forgotten, not deleted.
RollbackSkipped(r, outcome) ==
    /\ req[r].pc = "rollback"
    /\ Call(r, outcome)
    /\ Return(r, "internal")
    /\ UNCHANGED <<workloads, credentials, tasks, crashes>>

\* Faulty variant of Rollback: credentials.workload_id has no REFERENCES clause.
RollbackKeepsCredentials(r, outcome) ==
    /\ req[r].pc = "rollback"
    /\ Call(r, outcome)
    /\ workloads' = IF Takes(outcome) THEN {w \in workloads : w.id # r} ELSE workloads
    /\ Return(r, "internal")
    /\ UNCHANGED <<credentials, tasks, crashes>>

\* The delete uses the request's own context and its error is dropped.  The
\* foreign key of credentials cascades.
Rollback(r, outcome) ==
    /\ req[r].pc = "rollback"
    /\ Call(r, outcome)
    /\ IF Takes(outcome)
         THEN /\ workloads' = {w \in workloads : w.id # r}
              /\ credentials' = {c \in credentials : c.workload # r}
         ELSE UNCHANGED <<workloads, credentials>>
    /\ Return(r, "internal")
    /\ UNCHANGED <<tasks, crashes>>

-----------------------------------------------------------------------------
(* AddCloudCredentials *)

\* A message without credentials is refused.
BeginCredential(r, id, given) ==
    /\ req[r].pc = "idle"
    /\ req' = [req EXCEPT ![r].op = "credential", ![r].target = id,
                          ![r].pc = IF given THEN "findByID" ELSE "done",
                          ![r].result = IF given THEN "none" ELSE "invalid"]
    /\ UNCHANGED <<workloads, credentials, tasks, faults, crashes>>

Exists(id) == \E w \in workloads : w.id = id

\* A payload is refused if it is empty or cannot be encrypted.
NewCloudCredential(empty, encrypted) == ~ empty /\ encrypted

\* FindByID, then NewCloudCredential, whose errors are reported as internal ones.
FindByID(r, outcome, valid) ==
    /\ req[r].pc = "findByID"
    /\ Call(r, outcome)
    /\ \/ outcome = "done" /\ Exists(req[r].target) /\ valid /\ Goto(r, "saveCredential")
       \/ outcome = "done" /\ Exists(req[r].target) /\ ~ valid /\ Return(r, "internal")
       \/ outcome = "done" /\ ~ Exists(req[r].target) /\ Return(r, "notfound")
       \/ outcome # "done" /\ Return(r, "internal")
    /\ UNCHANGED <<workloads, credentials, tasks, crashes>>

\* The insert obeys the foreign key to workloads.
SaveCredential(r, outcome) ==
    /\ req[r].pc = "saveCredential"
    /\ Call(r, outcome)
    /\ credentials' = IF Takes(outcome) /\ Exists(req[r].target)
                        THEN credentials \union {[id |-> r, workload |-> req[r].target]}
                        ELSE credentials
    /\ Return(r, IF outcome = "done" /\ Exists(req[r].target) THEN "ok" ELSE "internal")
    /\ UNCHANGED <<workloads, tasks, crashes>>

-----------------------------------------------------------------------------
(* The push webhook *)

Signatures == {"hmac", "sha256=hmac", "other"}

\* The signature of a push: "hmac" is that of its payload with the secret of the
\* workload, as hex digits; GitHub's has a prefix.
VerifySignature(provider, signature) ==
    \/ provider = "github" /\ signature = "sha256=hmac"
    \/ provider = "gitlab" /\ signature = "hmac"

\* Without a signature header the handler answers at once.
BeginWebhook(r, signed) ==
    /\ req[r].pc = "idle"
    /\ req' = [req EXCEPT ![r].op = "webhook", ![r].name = HookName,
                          ![r].pc = IF signed THEN "secret" ELSE "done",
                          ![r].result = IF signed THEN "none" ELSE "unauthorized"]
    /\ UNCHANGED <<workloads, credentials, tasks, faults, crashes>>

GetSecret(r, outcome, valid) ==
    /\ req[r].pc = "secret"
    /\ Call(r, outcome)
    /\ \/ outcome = "done" /\ valid /\ Goto(r, "findHook")
       \/ outcome = "done" /\ ~ valid /\ Return(r, "unauthorized")
       \/ outcome # "done" /\ Return(r, "internal")
    /\ UNCHANGED <<workloads, credentials, tasks, crashes>>

\* ErrWorkloadNotFound is wrapped, so ServeHTTP's comparison with it fails and
\* a missing workload is answered like any other error.
FindHook(r, outcome) ==
    LET found == {w \in Named(req[r].name) : w.status \in Buildable} IN
    /\ req[r].pc = "findHook"
    /\ Call(r, outcome)
    /\ \/ /\ outcome = "done"
          /\ \E w \in found :
               req' = [req EXCEPT ![r].pc = "enqueueBuild", ![r].target = w.id]
       \/ /\ outcome # "done" \/ found = {}
          /\ Return(r, "internal")
    /\ UNCHANGED <<workloads, credentials, tasks, crashes>>

EnqueueBuildJob(r, outcome) ==
    /\ req[r].pc = "enqueueBuild"
    /\ Call(r, outcome)
    /\ tasks' = IF Takes(outcome)
                  THEN tasks \union {[type |-> "build:image", workload |-> req[r].target,
                                      by |-> r]}
                  ELSE tasks
    /\ Return(r, IF outcome = "done" THEN "ok" ELSE "internal")
    /\ UNCHANGED <<workloads, credentials, crashes>>

-----------------------------------------------------------------------------
(* The environment *)

\* The client disconnects or its deadline passes: r's context is cancelled.
Cancel(r) ==
    /\ Cardinality({q \in Requests : ~ req[q].alive}) < MaxCancels
    /\ Active(r) /\ req[r].alive
    /\ req' = [req EXCEPT ![r].alive = FALSE]
    /\ UNCHANGED <<workloads, credentials, tasks, faults, crashes>>

\* The server dies and restarts: the requests in progress are gone.
Crash ==
    /\ crashes < MaxCrashes
    /\ \E r \in Requests : Active(r)
    /\ req' = [r \in Requests |-> IF Active(r) THEN [req[r] EXCEPT !.pc = "gone"] ELSE req[r]]
    /\ crashes' = crashes + 1
    /\ UNCHANGED <<workloads, credentials, tasks, faults>>

Begin(r) ==
    \/ /\ "submit" \in Ops
       /\ \E name \in Names, valid \in {NewWorkload(d) : d \in Descriptors} :
            BeginSubmit(r, name, valid)
    \/ /\ "credential" \in Ops
       /\ \E id \in Requests, given \in BOOLEAN : BeginCredential(r, id, given)
    \/ /\ "webhook" \in Ops
       /\ \E signed \in BOOLEAN : BeginWebhook(r, signed)

Step(r) ==
    \E outcome \in Outcomes :
        \/ FindByName(r, outcome)
        \/ Save(r, outcome)
        \/ EnqueueProvisionJob(r, outcome)
        \/ Rollback(r, outcome)
        \/ \E valid \in {NewCloudCredential(empty, encrypted) : empty, encrypted \in BOOLEAN} :
             FindByID(r, outcome, valid)
        \/ SaveCredential(r, outcome)
        \/ \E valid \in {VerifySignature(provider, s) : provider \in {"github", "gitlab"},
                                                     s \in Signatures} :
             GetSecret(r, outcome, valid)
        \/ FindHook(r, outcome)
        \/ EnqueueBuildJob(r, outcome)

Next == \/ \E r \in Requests : Begin(r) \/ Step(r) \/ Cancel(r)
        \/ Crash

Spec == Init /\ [][Next]_vars

-----------------------------------------------------------------------------
(* Properties *)

\* Every variable has its type.
TypeOK ==
    /\ workloads \subseteq Workload
    /\ credentials \subseteq Credential
    /\ tasks \subseteq Task
    /\ req \in [Requests -> Request]
    /\ faults \in [Requests -> Seq(Faults)]
    /\ crashes \in 0 .. MaxCrashes

Provisioned(id) == \E t \in tasks : t.type = "provisioner:deploy" /\ t.workload = id

\* No two workloads have the same name, although SubmitWorkload looks the name
\* up in one call and inserts it in another.
UniqueNames == \A v, w \in workloads : v.name = w.name => v = w

\* A submission answered with success has its workload in the table, under the
\* name it asked for, and a provision job in the queue, whatever the other
\* requests, their rollbacks and the faults did meanwhile.
AcknowledgedIsProvisioned ==
    \A r \in Requests :
        req[r].op = "submit" /\ req[r].result = "ok" =>
            /\ \E w \in workloads : w.id = r /\ w.name = req[r].name
            /\ Provisioned(r)

\* A credential belongs to a workload of the table, although AddCredential
\* looks the workload up in one call and inserts the credential in another,
\* between which a rollback may delete the workload.
CredentialsOwned == \A c \in credentials : Exists(c.workload)

\* A workload in the table has a provision job, or the request that saved it is
\* still at work: SubmitWorkload deletes what it saved when one of its calls is
\* refused.  Only the loss of a reply, the failure of the delete as well, the
\* client that went away (the delete uses the context of the request) or a crash
\* leave a workload that nobody provisions.
SavedIsProvisioned ==
    \A w \in workloads :
        (/\ req[w.id].alive /\ req[w.id].pc # "gone"
         /\ faults[w.id] \in {<<>>, <<"refused">>}) => Provisioned(w.id) \/ Active(w.id)

\* The submission of workload id may have been rolled back: a call of its own failed, or
\* its client went away.
Troubled(id) == faults[id] # <<>> \/ ~ req[id].alive

\* A job in the queue is about a workload of the table, unless the submission of that
\* workload was rolled back: a provision job only if the reply to its own enqueue was
\* lost; a build job if a webhook found the workload before it was rolled back.
QueuedIsStored ==
    \A t \in tasks :
        \/ Exists(t.workload)
        \/ t.type = "build:image" /\ Troubled(t.workload)
        \/ \E i \in DOMAIN faults[t.workload] : faults[t.workload][i] = "lost"

=============================================================================
