-------------------------- MODULE IngestionProofs --------------------------
(***************************************************************************)
(* Proofs about Ingestion, for any requests, names, faults and bounds.     *)
(***************************************************************************)
EXTENDS Ingestion, TLAPS

SubmitSteps == {"find", "save", "enqueueProvision", "rollback"}

Saved(r) == \E w \in workloads : w.id = r /\ w.name = req[r].name

\* What is true of a request between its calls.  An answer is given once, at
\* the end; only a submission is at a step of SubmitWorkload; its row is there
\* from the insert until its own rollback.
RequestOK(r) ==
    /\ req[r].pc # "done" => req[r].result = "none"
    /\ req[r].pc \in SubmitSteps => req[r].op = "submit"
    /\ req[r].pc \in Steps \ SubmitSteps => req[r].op # "submit"
    /\ req[r].pc = "enqueueProvision" => Saved(r)
    /\ req[r].op = "submit" /\ req[r].result = "ok" => Saved(r) /\ Provisioned(r)

Inv == TypeOK /\ UniqueNames /\ CredentialsOwned /\ \A r \in Requests : RequestOK(r)

\* The initial state of the service satisfies the invariant.
THEOREM InitInv == Init => Inv
BY ConstantsAssumption
   DEF Init, Inv, TypeOK, UniqueNames, CredentialsOwned, RequestOK, Request, PCs, Steps,
       Results, SubmitSteps

\* A call adds its failure to those of its request and changes no others
\* (pool.Exec, client.EnqueueContext returning an error).
LEMMA CallFacts ==
    ASSUME TypeOK, NEW r \in Requests, NEW outcome, Call(r, outcome)
    PROVE  /\ faults' \in [Requests -> Seq(Faults)]
           /\ \A q \in Requests \ {r} : faults'[q] = faults[q]
           /\ outcome # "done" /\ req[r].alive => faults'[r] = Append(faults[r], outcome)
<1>1. faults \in [Requests -> Seq(Faults)]
  BY DEF TypeOK
<1>2. CASE faults' = faults /\ (outcome = "done" \/ ~ req[r].alive)
  BY <1>1, <1>2
<1>3. CASE outcome \in Faults /\ faults' = [faults EXCEPT ![r] = Append(@, outcome)]
  <2>1. Append(faults[r], outcome) \in Seq(Faults)
    BY <1>1, <1>3
  <2> QED  BY <1>1, <1>3, <2>1
<1> QED  BY <1>2, <1>3 DEF Call

\* A request changes without the others.
LEMMA Update ==
    ASSUME TypeOK, NEW r \in Requests, NEW new \in Request, req' = [req EXCEPT ![r] = new]
    PROVE  /\ req' \in [Requests -> Request] /\ req'[r] = new
           /\ \A q \in Requests \ {r} : req'[q] = req[q]
BY DEF TypeOK

\* An answer ends its request and touches no other one.
LEMMA ReturnFacts ==
    ASSUME TypeOK, NEW r \in Requests, NEW result \in Results, Return(r, result)
    PROVE  /\ req' \in [Requests -> Request]
           /\ req'[r].pc = "done" /\ req'[r].result = result /\ req'[r].op = req[r].op
           /\ req'[r].name = req[r].name /\ req'[r].alive = req[r].alive
           /\ \A q \in Requests \ {r} : req'[q] = req[q]
<1> DEFINE new == [req[r] EXCEPT !.pc = "done", !.result = result]
<1>1. req[r] \in Request
  BY DEF TypeOK
<1>2. /\ new \in Request /\ new.pc = "done" /\ new.result = result /\ new.op = req[r].op
      /\ new.name = req[r].name /\ new.alive = req[r].alive
  BY <1>1, Zenon DEF Request, PCs
<1>3. req' = [req EXCEPT ![r] = new]
  BY Zenon DEF Return, TypeOK
<1> HIDE DEF new
<1> QED  BY <1>2, <1>3, Update, Zenon

\* A request that goes on keeps all but its place, and the others stay where they are.
LEMMA GotoFacts ==
    ASSUME TypeOK, NEW r \in Requests, NEW pc \in Steps, Goto(r, pc)
    PROVE  /\ req' \in [Requests -> Request]
           /\ req'[r].pc = pc /\ req'[r].result = req[r].result /\ req'[r].op = req[r].op
           /\ req'[r].name = req[r].name /\ req'[r].alive = req[r].alive
           /\ \A q \in Requests \ {r} : req'[q] = req[q]
<1> DEFINE new == [req[r] EXCEPT !.pc = pc]
<1>1. req[r] \in Request
  BY DEF TypeOK
<1>2. /\ new \in Request /\ new.pc = pc /\ new.result = req[r].result /\ new.op = req[r].op
      /\ new.name = req[r].name /\ new.alive = req[r].alive
  BY <1>1 DEF Request, PCs
<1>3. req' = [req EXCEPT ![r] = new]
  BY DEF Goto, TypeOK
<1> HIDE DEF new
<1> QED  BY <1>2, <1>3, Update, Zenon

\* A step that leaves the tables and the queue alone, and advances one request
\* without answering it with success, preserves the invariant when the request
\* stays within its own operation (the lookups, and the requests' first steps).
LEMMA ReadStep ==
    ASSUME Inv, NEW r \in Requests,
           UNCHANGED <<workloads, credentials, tasks>>,
           faults' \in [Requests -> Seq(Faults)], crashes' \in 0 .. MaxCrashes,
           req' \in [Requests -> Request],
           \A q \in Requests \ {r} : req'[q] = req[q],
           RequestOK(r)'
    PROVE  Inv'
<1>1. TypeOK' /\ UniqueNames' /\ CredentialsOwned'
  BY DEF Inv, TypeOK, UniqueNames, CredentialsOwned, Exists, Credential
<1>2. ASSUME NEW q \in Requests PROVE RequestOK(q)'
  <2>1. CASE q = r
    BY <2>1
  <2>2. CASE q # r
    <3>1. RequestOK(q) /\ req'[q] = req[q]
      BY <2>2 DEF Inv
    <3>2. (Saved(q)' <=> Saved(q)) /\ (Provisioned(q)' <=> Provisioned(q))
      BY <3>1 DEF Saved, Provisioned
    <3> QED  BY <3>1, <3>2 DEF RequestOK
  <2> QED  BY <2>1, <2>2
<1> QED  BY <1>1, <1>2 DEF Inv

\* Every step of the service preserves the invariant.
THEOREM NextInv == Inv /\ [Next]_vars => Inv'
<1> SUFFICES ASSUME Inv, [Next]_vars PROVE Inv'
  OBVIOUS
<1> USE DEF Inv
<1>1. ASSUME NEW r \in Requests, NEW name \in Names, NEW valid,
             BeginSubmit(r, name, valid)
      PROVE  Inv'
  <2> DEFINE new == [req[r] EXCEPT !.op = "submit", !.name = name,
                                 !.pc = IF valid THEN "find" ELSE "done",
                                 !.result = IF valid THEN "none" ELSE "invalid"]
  <2>1. req[r] \in Request
    BY DEF TypeOK
  <2>2. /\ new \in Request /\ new.op = "submit"
        /\ \/ new.pc = "find" /\ new.result = "none"
           \/ new.pc = "done" /\ new.result = "invalid"
    BY <2>1, Zenon DEF Request, PCs, Steps, Results
  <2>3. req' = [req EXCEPT ![r] = new] /\ UNCHANGED <<workloads, credentials, tasks, faults, crashes>>
    BY <1>1, Zenon DEF BeginSubmit, TypeOK
  <2> HIDE DEF new
  <2>4. /\ req' \in [Requests -> Request] /\ req'[r] = new
        /\ \A q \in Requests \ {r} : req'[q] = req[q]
    BY <2>2, <2>3, Update, Zenon
  <2>5. RequestOK(r)'
    BY <2>2, <2>4 DEF RequestOK, Steps, SubmitSteps
  <2> QED  BY <2>3, <2>4, <2>5, ReadStep DEF TypeOK
<1>2. ASSUME NEW r \in Requests, NEW id \in Requests, NEW given,
             BeginCredential(r, id, given)
      PROVE  Inv'
  <2> DEFINE new == [req[r] EXCEPT !.op = "credential", !.target = id,
                                 !.pc = IF given THEN "findByID" ELSE "done",
                                 !.result = IF given THEN "none" ELSE "invalid"]
  <2>1. req[r] \in Request
    BY DEF TypeOK
  <2>2. /\ new \in Request /\ new.op = "credential"
        /\ \/ new.pc = "findByID" /\ new.result = "none"
           \/ new.pc = "done" /\ new.result = "invalid"
    BY <2>1, Zenon DEF Request, PCs, Steps, Results
  <2>3. req' = [req EXCEPT ![r] = new] /\ UNCHANGED <<workloads, credentials, tasks, faults, crashes>>
    BY <1>2, Zenon DEF BeginCredential, TypeOK
  <2> HIDE DEF new
  <2>4. /\ req' \in [Requests -> Request] /\ req'[r] = new
        /\ \A q \in Requests \ {r} : req'[q] = req[q]
    BY <2>2, <2>3, Update, Zenon
  <2>5. RequestOK(r)'
    BY <2>2, <2>4 DEF RequestOK, Steps, SubmitSteps
  <2> QED  BY <2>3, <2>4, <2>5, ReadStep, Zenon DEF TypeOK
<1>3. ASSUME NEW r \in Requests, NEW signed \in BOOLEAN, BeginWebhook(r, signed)
      PROVE  Inv'
  <2> DEFINE new == [req[r] EXCEPT !.op = "webhook", !.name = HookName,
                                 !.pc = IF signed THEN "secret" ELSE "done",
                                 !.result = IF signed THEN "none" ELSE "unauthorized"]
  <2>1. req[r] \in Request
    BY DEF TypeOK
  <2>2. /\ new \in Request /\ new.op = "webhook"
        /\ \/ new.pc = "secret" /\ new.result = "none"
           \/ new.pc = "done" /\ new.result = "unauthorized"
    BY <2>1, ConstantsAssumption, Zenon DEF Request, PCs, Steps, Results
  <2>3. req' = [req EXCEPT ![r] = new] /\ UNCHANGED <<workloads, credentials, tasks, faults, crashes>>
    BY <1>3, Zenon DEF BeginWebhook, TypeOK
  <2> HIDE DEF new
  <2>4. /\ req' \in [Requests -> Request] /\ req'[r] = new
        /\ \A q \in Requests \ {r} : req'[q] = req[q]
    BY <2>2, <2>3, Update, Zenon
  <2>5. RequestOK(r)'
    BY <2>2, <2>4 DEF RequestOK, Steps, SubmitSteps
  <2> QED  BY <2>3, <2>4, <2>5, ReadStep DEF TypeOK
<1>4. ASSUME NEW r \in Requests, NEW outcome \in Outcomes, FindByName(r, outcome)
      PROVE  Inv'
  <2>1. /\ req' \in [Requests -> Request] /\ RequestOK(r)'
        /\ \A q \in Requests \ {r} : req'[q] = req[q]
    BY <1>4, GotoFacts, ReturnFacts DEF FindByName, RequestOK, Steps, SubmitSteps, Results
  <2> QED  BY <1>4, <2>1, ReadStep, CallFacts, Zenon DEF FindByName, TypeOK
<1>5. ASSUME NEW r \in Requests, NEW outcome \in Outcomes, NEW valid,
             FindByID(r, outcome, valid)
      PROVE  Inv'
  <2>1. /\ req' \in [Requests -> Request] /\ RequestOK(r)'
        /\ \A q \in Requests \ {r} : req'[q] = req[q]
    BY <1>5, GotoFacts, ReturnFacts DEF FindByID, RequestOK, Steps, SubmitSteps, Results
  <2> QED  BY <1>5, <2>1, ReadStep, CallFacts, Zenon DEF FindByID, TypeOK
<1>6. ASSUME NEW r \in Requests, NEW outcome \in Outcomes, NEW valid,
             GetSecret(r, outcome, valid)
      PROVE  Inv'
  <2>1. /\ req' \in [Requests -> Request] /\ RequestOK(r)'
        /\ \A q \in Requests \ {r} : req'[q] = req[q]
    BY <1>6, GotoFacts, ReturnFacts DEF GetSecret, RequestOK, Steps, SubmitSteps, Results
  <2> QED  BY <1>6, <2>1, ReadStep, CallFacts, Zenon DEF GetSecret, TypeOK
<1>7. ASSUME NEW r \in Requests, NEW outcome \in Outcomes, FindHook(r, outcome)
      PROVE  Inv'
  <2>1. req[r].pc = "findHook" /\ req[r].op # "submit" /\ req[r].result = "none"
    BY <1>7 DEF FindHook, RequestOK, Steps, SubmitSteps
  <2>2. CASE Return(r, "internal")
    <3>1. /\ req' \in [Requests -> Request] /\ RequestOK(r)'
          /\ \A q \in Requests \ {r} : req'[q] = req[q]
      BY <2>1, <2>2, ReturnFacts DEF RequestOK, Steps, SubmitSteps, Results
    <3> QED  BY <1>7, <3>1, ReadStep, CallFacts, Zenon DEF FindHook, TypeOK
  <2>3. ASSUME NEW w \in workloads,
               req' = [req EXCEPT ![r].pc = "enqueueBuild", ![r].target = w.id]
        PROVE  Inv'
    <3> DEFINE new == [req[r] EXCEPT !.pc = "enqueueBuild", !.target = w.id]
    <3>1. req[r] \in Request /\ w.id \in Requests
      BY DEF TypeOK, Workload
    <3>2. /\ new \in Request /\ new.pc = "enqueueBuild" /\ new.op = req[r].op
          /\ new.result = req[r].result
      BY <3>1, Zenon DEF Request, PCs, Steps
    <3>3. req' = [req EXCEPT ![r] = new]
      BY <2>3, Zenon DEF TypeOK
    <3> HIDE DEF new
    <3>4. /\ req' \in [Requests -> Request] /\ req'[r] = new
          /\ \A q \in Requests \ {r} : req'[q] = req[q]
      BY <3>2, <3>3, Update, Zenon
    <3>5. RequestOK(r)'
      BY <2>1, <3>2, <3>4 DEF RequestOK, Steps, SubmitSteps
    <3> QED  BY <1>7, <3>4, <3>5, ReadStep, CallFacts, Zenon DEF FindHook, TypeOK
  <2> QED  BY <1>7, <2>2, <2>3 DEF FindHook, Named
<1>8. ASSUME NEW r \in Requests, NEW outcome \in Outcomes, Save(r, outcome)
      PROVE  Inv'
  <2> DEFINE new == [id |-> r, name |-> req[r].name, status |-> "PENDING"]
  <2>1. /\ req' \in [Requests -> Request]
        /\ \A q \in Requests : req'[q].name = req[q].name /\ req'[q].op = req[q].op
        /\ \A q \in Requests \ {r} : req'[q] = req[q]
    BY <1>8, GotoFacts, ReturnFacts DEF Save, Steps, Results
  <2>2. new \in Workload
    BY DEF TypeOK, Request, Workload, Statuses
  <2>3. TypeOK'
    BY <1>8, <2>1, <2>2, CallFacts DEF Save, TypeOK
  <2>4. UniqueNames'
    BY <1>8 DEF Save, UniqueNames, Named
  <2>5. CredentialsOwned'
    BY <1>8 DEF Save, CredentialsOwned, Exists
  <2>6. ASSUME NEW q \in Requests \ {r} PROVE RequestOK(q)'
    BY <1>8, <2>1, <2>6 DEF Save, RequestOK, Saved, Provisioned
  <2>7. RequestOK(r)'
    <3>1. CASE outcome = "done" /\ Named(req[r].name) = {}
      <4>1. /\ req'[r].pc = "enqueueProvision" /\ req'[r].result = req[r].result
            /\ new \in workloads'
        BY <1>8, <3>1 DEF Save, Goto, Takes, TypeOK, Request
      <4>2. Saved(r)'
        BY <4>1, <2>1 DEF Saved
      <4>3. req[r].op = "submit" /\ req[r].result = "none"
        BY <1>8 DEF Save, RequestOK, SubmitSteps
      <4> QED  BY <4>1, <4>2, <4>3, <2>1 DEF RequestOK, SubmitSteps
    <3>2. CASE ~ (outcome = "done" /\ Named(req[r].name) = {})
      <4>1. req'[r].pc = "done" /\ req'[r].result = "internal"
        BY <1>8, <3>2 DEF Save, Return, TypeOK, Request
      <4> QED  BY <4>1, <2>1 DEF RequestOK, SubmitSteps, Steps
    <3> QED  BY <3>1, <3>2
  <2> QED  BY <2>3, <2>4, <2>5, <2>6, <2>7
<1>9. ASSUME NEW r \in Requests, NEW outcome \in Outcomes, EnqueueProvisionJob(r, outcome)
      PROVE  Inv'
  <2> DEFINE new == [type |-> "provisioner:deploy", workload |-> r, by |-> r]
  <2>1. /\ req' \in [Requests -> Request]
        /\ \A q \in Requests : req'[q].name = req[q].name /\ req'[q].op = req[q].op
        /\ \A q \in Requests \ {r} : req'[q] = req[q]
    BY <1>9, GotoFacts, ReturnFacts DEF EnqueueProvisionJob, Steps, Results
  <2>2. new \in Task
    BY DEF Task, TaskTypes
  <2>3. TypeOK'
    BY <1>9, <2>1, <2>2, CallFacts DEF EnqueueProvisionJob, TypeOK
  <2>4. UniqueNames' /\ CredentialsOwned'
    BY <1>9 DEF EnqueueProvisionJob, UniqueNames, CredentialsOwned, Exists
  <2>5. ASSUME NEW q \in Requests \ {r} PROVE RequestOK(q)'
    BY <1>9, <2>1, <2>5 DEF EnqueueProvisionJob, RequestOK, Saved, Provisioned
  <2>6. RequestOK(r)'
    <3>1. Saved(r)'
      BY <1>9, <2>1 DEF EnqueueProvisionJob, RequestOK, Saved
    <3>2. CASE outcome = "done"
      <4>1. req'[r].pc = "done" /\ new \in tasks'
        BY <1>9, <3>2 DEF EnqueueProvisionJob, Return, Takes, TypeOK, Request
      <4>2. Provisioned(r)'
        BY <4>1 DEF Provisioned
      <4> QED  BY <3>1, <4>1, <4>2 DEF RequestOK, SubmitSteps, Steps
    <3>3. CASE outcome # "done"
      <4>1. req'[r].pc = "rollback" /\ req'[r].result = req[r].result
        BY <1>9, <3>3 DEF EnqueueProvisionJob, Goto, TypeOK, Request
      <4>2. req[r].op = "submit" /\ req[r].result = "none"
        BY <1>9 DEF EnqueueProvisionJob, RequestOK, SubmitSteps
      <4> QED  BY <4>1, <4>2, <2>1 DEF RequestOK, SubmitSteps
    <3> QED  BY <3>2, <3>3
  <2> QED  BY <2>3, <2>4, <2>5, <2>6
<1>10. ASSUME NEW r \in Requests, NEW outcome \in Outcomes, Rollback(r, outcome)
       PROVE  Inv'
  <2>1. /\ req' \in [Requests -> Request]
        /\ req'[r].pc = "done" /\ req'[r].result = "internal"
        /\ \A q \in Requests \ {r} : req'[q] = req[q]
    BY <1>10, ReturnFacts DEF Rollback, Results
  <2>2. TypeOK' /\ UniqueNames'
    BY <1>10, <2>1, CallFacts DEF Rollback, TypeOK, UniqueNames
  <2>3. CredentialsOwned'
    BY <1>10 DEF Rollback, CredentialsOwned, Exists
  <2>4. \A w \in workloads : w.id # r => w \in workloads'
    BY <1>10 DEF Rollback
  <2>5. ASSUME NEW q \in Requests \ {r} PROVE RequestOK(q)'
    BY <1>10, <2>1, <2>4, <2>5 DEF Rollback, RequestOK, Saved, Provisioned
  <2>6. RequestOK(r)'
    BY <2>1 DEF RequestOK, SubmitSteps, Steps
  <2> QED  BY <2>2, <2>3, <2>5, <2>6
<1>11. ASSUME NEW r \in Requests, NEW outcome \in Outcomes, SaveCredential(r, outcome)
       PROVE  Inv'
  <2> DEFINE new == [id |-> r, workload |-> req[r].target]
  <2>1. /\ req' \in [Requests -> Request]
        /\ req'[r].pc = "done" /\ req'[r].op = req[r].op
        /\ \A q \in Requests \ {r} : req'[q] = req[q]
    BY <1>11, ReturnFacts DEF SaveCredential, Results
  <2>2. new \in Credential
    BY DEF TypeOK, Request, Credential
  <2>3. TypeOK' /\ UniqueNames'
    BY <1>11, <2>1, <2>2, CallFacts DEF SaveCredential, TypeOK, UniqueNames
  <2>4. CredentialsOwned'
    BY <1>11 DEF SaveCredential, CredentialsOwned, Exists
  <2>5. ASSUME NEW q \in Requests \ {r} PROVE RequestOK(q)'
    BY <1>11, <2>1, <2>5 DEF SaveCredential, RequestOK, Saved, Provisioned
  <2>6. RequestOK(r)'
    <3>1. req[r].op # "submit"
      BY <1>11 DEF SaveCredential, RequestOK, Steps, SubmitSteps
    <3> QED  BY <2>1, <3>1 DEF RequestOK, SubmitSteps, Steps
  <2> QED  BY <2>3, <2>4, <2>5, <2>6
<1>12. ASSUME NEW r \in Requests, NEW outcome \in Outcomes, EnqueueBuildJob(r, outcome)
       PROVE  Inv'
  <2> DEFINE new == [type |-> "build:image", workload |-> req[r].target, by |-> r]
  <2>1. /\ req' \in [Requests -> Request]
        /\ req'[r].pc = "done" /\ req'[r].op = req[r].op
        /\ \A q \in Requests \ {r} : req'[q] = req[q]
    BY <1>12, ReturnFacts DEF EnqueueBuildJob, Results
  <2>2. new \in Task
    BY DEF TypeOK, Request, Task, TaskTypes
  <2>3. TypeOK' /\ UniqueNames' /\ CredentialsOwned'
    BY <1>12, <2>1, <2>2, CallFacts
       DEF EnqueueBuildJob, TypeOK, UniqueNames, CredentialsOwned, Exists
  <2>4. ASSUME NEW q \in Requests \ {r} PROVE RequestOK(q)'
    BY <1>12, <2>1, <2>4 DEF EnqueueBuildJob, RequestOK, Saved, Provisioned
  <2>5. RequestOK(r)'
    <3>1. req[r].op # "submit"
      BY <1>12 DEF EnqueueBuildJob, RequestOK, Steps, SubmitSteps
    <3> QED  BY <2>1, <3>1 DEF RequestOK, SubmitSteps, Steps
  <2> QED  BY <2>3, <2>4, <2>5
<1>13. ASSUME NEW r \in Requests, Cancel(r) PROVE Inv'
  <2>1. /\ req' \in [Requests -> Request]
        /\ req'[r].op = req[r].op /\ req'[r].pc = req[r].pc /\ req'[r].name = req[r].name
        /\ req'[r].result = req[r].result
        /\ \A q \in Requests \ {r} : req'[q] = req[q]
    BY <1>13, ZenonT(60) DEF Cancel, TypeOK, Request
  <2>2. RequestOK(r)'
    BY <1>13, <2>1 DEF Cancel, RequestOK, Saved, Provisioned
  <2> QED  BY <1>13, <2>1, <2>2, ReadStep, Zenon DEF Cancel, TypeOK
<1>14. CASE Crash
  <2>0. ASSUME NEW q \in Requests
        PROVE  /\ req'[q] \in Request /\ req'[q].op = req[q].op /\ req'[q].name = req[q].name
               /\ req'[q].result = req[q].result
               /\ req'[q].pc = IF Active(q) THEN "gone" ELSE req[q].pc
    <3>1. req[q] \in Request
      BY DEF TypeOK
    <3>2. req'[q] = IF Active(q) THEN [req[q] EXCEPT !.pc = "gone"] ELSE req[q]
      BY <1>14 DEF Crash
    <3> QED  BY <3>1, <3>2 DEF Request, PCs
  <2>1. req' \in [Requests -> Request]
    BY <1>14, <2>0 DEF Crash
  <2>2. TypeOK' /\ UniqueNames' /\ CredentialsOwned'
    BY <1>14, <2>1, ConstantsAssumption
       DEF Crash, TypeOK, UniqueNames, CredentialsOwned, Exists
  <2>3. ASSUME NEW q \in Requests PROVE RequestOK(q)'
    BY <1>14, <2>0, <2>3 DEF Crash, Active, RequestOK, Saved, Provisioned, Steps, SubmitSteps
  <2> QED  BY <2>2, <2>3
<1>15. CASE UNCHANGED vars
  BY <1>15 DEF vars, TypeOK, UniqueNames, CredentialsOwned, Exists, RequestOK, Saved, Provisioned
<1>16. ASSUME NEW r \in Requests, Begin(r) PROVE Inv'
  BY <1>16, <1>1, <1>2, <1>3 DEF Begin
<1>17. ASSUME NEW r \in Requests, Step(r) PROVE Inv'
  BY <1>17, <1>4, <1>5, <1>6, <1>7, <1>8, <1>9, <1>10, <1>11, <1>12 DEF Step
<1> QED
  BY <1>13, <1>14, <1>15, <1>16, <1>17 DEF Next

\* The invariant holds throughout every behaviour of the service.
THEOREM Invariance == Spec => []Inv
BY InitInv, NextInv, PTL DEF Spec

\* Every variable of the service always has its type.
THEOREM TypeCorrect == Spec => []TypeOK
BY Invariance, PTL DEF Inv

\* Names stay unique under any interleaving of SubmitWorkload's lookup and
\* insert, however the calls fail and the clients go away.
THEOREM NamesAreUnique == Spec => []UniqueNames
BY Invariance, PTL DEF Inv

\* No interleaving of AddCredential with the rollback of a submission leaves a
\* credential without its workload.
THEOREM CredentialsHaveWorkloads == Spec => []CredentialsOwned
BY Invariance, PTL DEF Inv

\* A submission that Execute answered with success keeps its row and its
\* provision job, whatever other requests, failures and crashes follow.
THEOREM SuccessIsDurable == Spec => []AcknowledgedIsProvisioned
<1>1. Inv => AcknowledgedIsProvisioned
  BY DEF Inv, AcknowledgedIsProvisioned, RequestOK, Saved
<1> QED  BY <1>1, Invariance, PTL

-----------------------------------------------------------------------------
(* Saved workloads are provisioned.                                        *)

RowPCs == {"enqueueProvision", "rollback", "done", "gone"}

Clean(f) == f \in {<<>>, <<"refused">>}

\* Where the request is whose row is in the table; that a rollback is the answer
\* to a failed call unless the client went away; and that a row stays behind only
\* with its job, after two failures, after a lost reply or without a client.
RowOK(r) ==
    /\ Exists(r) => req[r].pc \in RowPCs
    /\ req[r].pc = "rollback" /\ req[r].alive => faults[r] # <<>>
    /\ Exists(r) /\ req[r].pc = "done" /\ req[r].alive /\ Clean(faults[r]) => Provisioned(r)

Rows == \A r \in Requests : RowOK(r)

\* What a further failure makes of the failures of a request: none of the
\* sequences that SavedIsProvisioned speaks of, if it is the second one or a lost
\* reply.
LEMMA AppendFacts ==
    ASSUME NEW f \in Seq(Faults), NEW o \in Outcomes
    PROVE  /\ Append(f, o) # <<>>
           /\ f # <<>> => ~ Clean(Append(f, o))
           /\ o = "lost" => ~ Clean(Append(f, o))
<1>1. /\ Len(Append(f, o)) = Len(f) + 1 /\ Append(f, o)[Len(f) + 1] = o
      /\ Len(f) \in Nat /\ (f # <<>> => Len(f) # 0)
  OBVIOUS
<1>2. Len(<<>>) = 0 /\ Len(<<"refused">>) = 1 /\ <<"refused">>[1] = "refused"
  OBVIOUS
<1>3. ASSUME Append(f, o) = <<>> PROVE FALSE
  BY <1>1, <1>2, <1>3
<1>4. ASSUME Append(f, o) = <<"refused">> PROVE f = <<>> /\ o = "refused"
  BY <1>1, <1>2, <1>4
<1> QED  BY <1>3, <1>4 DEF Clean

\* The request of a row is not disturbed by a step of another request, which
\* neither writes nor provisions anything under its ID.
LEMMA RowKept ==
    ASSUME NEW q, RowOK(q), Exists(q)' => Exists(q), tasks \subseteq tasks',
           req'[q] = req[q], faults'[q] = faults[q]
    PROVE  RowOK(q)'
<1>1. Provisioned(q) => Provisioned(q)'
  BY DEF Provisioned
<1> QED  BY <1>1 DEF RowOK

\* A step that writes no row, of a request that has none.
LEMMA EarlyStep ==
    ASSUME Rows, NEW r \in Requests, req[r].pc \notin RowPCs,
           workloads' = workloads, tasks \subseteq tasks', req'[r].pc # "rollback",
           \A q \in Requests \ {r} : req'[q] = req[q] /\ faults'[q] = faults[q]
    PROVE  Rows'
<1>1. \A q : Exists(q)' <=> Exists(q)
  BY DEF Exists
<1>2. ~ Exists(r)
  BY DEF Rows, RowOK
<1>3. RowOK(r)'
  BY <1>1, <1>2 DEF RowOK
<1>4. ASSUME NEW q \in Requests \ {r} PROVE RowOK(q)'
  BY <1>1, <1>4, RowKept DEF Rows
<1> QED  BY <1>3, <1>4 DEF Rows

\* A request begins with its first call or is refused at once, and nothing else changes.
LEMMA BeginFacts ==
    ASSUME TypeOK, NEW r \in Requests, Begin(r)
    PROVE  /\ req[r].pc = "idle" /\ UNCHANGED <<workloads, tasks, faults>>
           /\ \A q \in Requests \ {r} : req'[q] = req[q]
           /\ req'[r].pc \in {"find", "findByID", "secret", "done"} /\ req'[r].alive = req[r].alive
<1> DEFINE First == /\ req'[r].pc \in {"find", "findByID", "secret", "done"}
                    /\ req'[r].alive = req[r].alive
<1>1. /\ req[r].pc = "idle" /\ UNCHANGED <<workloads, tasks, faults>>
      /\ \A q \in Requests \ {r} : req'[q] = req[q]
  BY Zenon DEF Begin, BeginSubmit, BeginCredential, BeginWebhook, TypeOK
<1>2. req[r] \in Request
  BY DEF TypeOK
<1>3. ASSUME NEW name, NEW valid, BeginSubmit(r, name, valid) PROVE First
  <2>1. req'[r] = [req[r] EXCEPT !.op = "submit", !.name = name,
                                 !.pc = IF valid THEN "find" ELSE "done",
                                 !.result = IF valid THEN "none" ELSE "invalid"]
    BY <1>3 DEF BeginSubmit, TypeOK
  <2> QED  BY <1>2, <2>1 DEF Request
<1>4. ASSUME NEW id, NEW given, BeginCredential(r, id, given) PROVE First
  <2>1. req'[r] = [req[r] EXCEPT !.op = "credential", !.target = id,
                                 !.pc = IF given THEN "findByID" ELSE "done",
                                 !.result = IF given THEN "none" ELSE "invalid"]
    BY <1>4 DEF BeginCredential, TypeOK
  <2> QED  BY <1>2, <2>1 DEF Request
<1>5. ASSUME NEW signed, BeginWebhook(r, signed) PROVE First
  <2>1. req'[r] = [req[r] EXCEPT !.op = "webhook", !.name = HookName,
                                 !.pc = IF signed THEN "secret" ELSE "done",
                                 !.result = IF signed THEN "none" ELSE "unauthorized"]
    BY <1>5 DEF BeginWebhook, TypeOK
  <2> QED  BY <1>2, <2>1 DEF Request
<1>6. First
  BY <1>3, <1>4, <1>5, Zenon DEF Begin
<1> QED  BY <1>1, <1>6

\* Every step of the service keeps rows with their jobs.
THEOREM NextRows == Inv /\ Rows /\ [Next]_vars => Rows'
<1> SUFFICES ASSUME TypeOK, Rows, [Next]_vars PROVE Rows'
  BY DEF Inv
<1>1. ASSUME NEW r \in Requests, Begin(r) PROVE Rows'
  BY <1>1, BeginFacts, EarlyStep, SMTT(30) DEF RowPCs
<1>2. ASSUME NEW r \in Requests, NEW outcome \in Outcomes, NEW valid,
             \/ FindByName(r, outcome) \/ FindByID(r, outcome, valid)
             \/ SaveCredential(r, outcome) \/ GetSecret(r, outcome, valid)
             \/ FindHook(r, outcome) \/ EnqueueBuildJob(r, outcome)
      PROVE  Rows'
  <2>1. /\ req[r].pc \notin RowPCs /\ Call(r, outcome)
        /\ workloads' = workloads /\ tasks \subseteq tasks'
    BY <1>2 DEF FindByName, FindByID, SaveCredential, GetSecret, FindHook, EnqueueBuildJob, RowPCs
  <2>2. /\ req'[r].pc # "rollback"
        /\ \A q \in Requests \ {r} : req'[q] = req[q]
    BY <1>2 DEF FindByName, FindByID, SaveCredential, GetSecret, FindHook, EnqueueBuildJob,
                Goto, Return, TypeOK, Request
  <2> QED  BY <2>1, <2>2, CallFacts, EarlyStep
<1>3. ASSUME NEW r \in Requests, NEW outcome \in Outcomes, Save(r, outcome)
      PROVE  Rows'
  <2>1. /\ Call(r, outcome) /\ req[r].pc = "save" /\ tasks' = tasks
        /\ \A w \in workloads' : w \in workloads \/ w.id = r
    BY <1>3 DEF Save
  <2>2. ~ Exists(r)
    BY <2>1 DEF Rows, RowOK, RowPCs
  <2>3. CASE Goto(r, "enqueueProvision")
    <3>1. RowOK(r)'
      BY <2>3, GotoFacts DEF RowOK, RowPCs, Steps
    <3>2. ASSUME NEW q \in Requests \ {r} PROVE RowOK(q)'
      BY <2>1, <2>3, <3>2, GotoFacts, CallFacts, RowKept DEF Rows, Exists, Steps
    <3> QED  BY <3>1, <3>2 DEF Rows
  <2>4. CASE Return(r, "internal") /\ ~ (outcome = "done" /\ Named(req[r].name) = {})
    <3>1. /\ req'[r].pc = "done" /\ req'[r].alive = req[r].alive
          /\ \A q \in Requests \ {r} : req'[q] = req[q]
      BY <2>4, ReturnFacts DEF Results
    <3>2. ASSUME Exists(r)' PROVE req[r].alive /\ outcome = "lost"
      <4>1. workloads' # workloads
        BY <2>2, <3>2, SMTT(30) DEF Exists
      <4>2. outcome = "lost"
        BY <1>3, <2>4, <4>1 DEF Save, Takes
      <4> QED  BY <2>1, <4>2 DEF Call
    <3>3. ASSUME Exists(r)' PROVE ~ Clean(faults'[r])
      <4>1. faults[r] \in Seq(Faults) /\ faults'[r] = Append(faults[r], outcome)
        BY <2>1, <3>2, <3>3, CallFacts DEF TypeOK
      <4> QED  BY <3>2, <3>3, <4>1, AppendFacts
    <3>4. RowOK(r)'
      BY <3>1, <3>3 DEF RowOK, RowPCs
    <3>5. ASSUME NEW q \in Requests \ {r} PROVE RowOK(q)'
      BY <2>1, <3>1, <3>5, CallFacts, RowKept DEF Rows, Exists
    <3> QED  BY <3>4, <3>5 DEF Rows
  <2> QED  BY <1>3, <2>3, <2>4 DEF Save
<1>4. ASSUME NEW r \in Requests, NEW outcome \in Outcomes, EnqueueProvisionJob(r, outcome)
      PROVE  Rows'
  <2>1. /\ Call(r, outcome) /\ req[r].pc = "enqueueProvision" /\ workloads' = workloads
        /\ tasks \subseteq tasks' /\ (outcome = "done" => Provisioned(r)')
    <3>1. outcome = "done" => [type |-> "provisioner:deploy", workload |-> r, by |-> r] \in tasks'
      BY <1>4 DEF EnqueueProvisionJob, Takes
    <3> QED  BY <1>4, <3>1 DEF EnqueueProvisionJob, Provisioned
  <2>2. /\ req'[r].alive = req[r].alive
        /\ outcome = "done" => req'[r].pc = "done"
        /\ outcome # "done" => req'[r].pc = "rollback"
        /\ \A q \in Requests \ {r} : req'[q] = req[q]
    BY <1>4, GotoFacts, ReturnFacts DEF EnqueueProvisionJob, Results, Steps
  <2>3. RowOK(r)'
    <3>1. CASE outcome = "done"
      BY <2>1, <2>2, <3>1 DEF RowOK, RowPCs
    <3>2. CASE outcome # "done"
      <4>1. ASSUME req[r].alive PROVE faults'[r] # <<>>
        <5>1. faults[r] \in Seq(Faults) /\ faults'[r] = Append(faults[r], outcome)
          BY <2>1, <3>2, <4>1, CallFacts DEF TypeOK
        <5> QED  BY <5>1, AppendFacts
      <4> QED  BY <2>2, <3>2, <4>1 DEF RowOK, RowPCs
    <3> QED  BY <3>1, <3>2
  <2>4. ASSUME NEW q \in Requests \ {r} PROVE RowOK(q)'
    BY <2>1, <2>2, <2>4, CallFacts, RowKept DEF Rows, Exists
  <2> QED  BY <2>3, <2>4 DEF Rows
<1>5. ASSUME NEW r \in Requests, NEW outcome \in Outcomes, Rollback(r, outcome)
      PROVE  Rows'
  <2>1. /\ Call(r, outcome) /\ req[r].pc = "rollback" /\ tasks' = tasks
        /\ workloads' \subseteq workloads
        /\ Takes(outcome) => ~ Exists(r)'
    BY <1>5 DEF Rollback, Exists
  <2>2. /\ req'[r].pc = "done" /\ req'[r].alive = req[r].alive
        /\ \A q \in Requests \ {r} : req'[q] = req[q]
    BY <1>5, ReturnFacts DEF Rollback, Results
  <2>3. ASSUME Exists(r)', req[r].alive PROVE ~ Clean(faults'[r])
    <3>1. outcome # "done" /\ faults[r] # <<>>
      BY <2>1, <2>3 DEF Takes, Rows, RowOK
    <3>2. faults[r] \in Seq(Faults) /\ faults'[r] = Append(faults[r], outcome)
      BY <2>1, <2>3, <3>1, CallFacts DEF TypeOK
    <3> QED  BY <3>1, <3>2, AppendFacts
  <2>4. RowOK(r)'
    BY <2>2, <2>3 DEF RowOK, RowPCs
  <2>5. ASSUME NEW q \in Requests \ {r} PROVE RowOK(q)'
    BY <2>1, <2>2, <2>5, CallFacts, RowKept DEF Rows, Exists
  <2> QED  BY <2>4, <2>5 DEF Rows
<1>6. ASSUME NEW r \in Requests, Cancel(r) PROVE Rows'
  <2>1. /\ req'[r].pc = req[r].pc /\ ~ req'[r].alive
        /\ \A q \in Requests \ {r} : req'[q] = req[q]
        /\ UNCHANGED <<workloads, tasks, faults>>
    BY <1>6 DEF Cancel, TypeOK, Request
  <2>2. RowOK(r)'
    BY <2>1 DEF Rows, RowOK, Exists
  <2>3. ASSUME NEW q \in Requests \ {r} PROVE RowOK(q)'
    BY <2>1, <2>3, RowKept DEF Rows, Exists
  <2> QED  BY <2>2, <2>3 DEF Rows
<1>7. CASE Crash
  <2> SUFFICES ASSUME NEW q \in Requests PROVE RowOK(q)'
    BY DEF Rows
  <2>1. UNCHANGED <<workloads, tasks, faults>>
    BY <1>7 DEF Crash
  <2>2. CASE Active(q)
    <3>1. req'[q].pc = "gone"
      BY <1>7, <2>2 DEF Crash, TypeOK, Request
    <3> QED  BY <3>1 DEF RowOK, RowPCs
  <2>3. CASE ~ Active(q)
    BY <1>7, <2>1, <2>3, RowKept, Zenon DEF Crash, Rows, Exists
  <2> QED  BY <2>2, <2>3
<1>8. CASE UNCHANGED vars
  BY <1>8 DEF vars, Rows, RowOK, Exists, Provisioned
<1>9. ASSUME NEW r \in Requests, Step(r) PROVE Rows'
  BY <1>9, <1>2, <1>3, <1>4, <1>5 DEF Step
<1> QED  BY <1>1, <1>6, <1>7, <1>8, <1>9 DEF Next

\* A workload that Save wrote has its provision job or its submission is still at
\* work, unless a reply was lost, the compensating Delete failed too, the client
\* went away or the server crashed: for any number of requests and failures.
THEOREM RollbackIsEnough == Spec => []SavedIsProvisioned
<1>1. Init => Rows
  BY DEF Init, Rows, RowOK, Exists
<1>2. Inv /\ Rows => SavedIsProvisioned
  <2> SUFFICES ASSUME Inv, Rows, NEW w \in workloads, req[w.id].alive, req[w.id].pc # "gone",
                      Clean(faults[w.id])
               PROVE  Provisioned(w.id) \/ Active(w.id)
    BY DEF SavedIsProvisioned, Clean
  <2>1. w.id \in Requests /\ Exists(w.id)
    BY DEF Inv, TypeOK, Workload, Exists
  <2> QED  BY <2>1 DEF Rows, RowOK, RowPCs, Active, Steps
<1> QED  BY <1>1, <1>2, NextRows, Invariance, PTL DEF Spec

-----------------------------------------------------------------------------
(* Queued jobs have their workloads.                                       *)

Lost(r) == \E i \in DOMAIN faults[r] : faults[r][i] = "lost"

Found(id) == Exists(id) \/ Troubled(id)

\* A provision job comes from a request past its enqueue, which has its row or lost a
\* reply; the request that is about to roll back has failed; and the workload that a
\* webhook found is there or rolled back.
QueueOK(r) ==
    /\ Provisioned(r) => req[r].pc \in {"rollback", "done", "gone"} /\ (Exists(r) \/ Lost(r))
    /\ req[r].pc = "rollback" => Troubled(r) /\ (Provisioned(r) => Lost(r))
    /\ req[r].pc = "enqueueBuild" => Found(req[r].target)

Queue ==
    /\ \A r \in Requests : QueueOK(r)
    /\ \A t \in tasks : t.type = "build:image" => Found(t.workload)

\* Failures are not forgotten.
LEMMA FailuresStay ==
    ASSUME TypeOK, NEW r \in Requests, NEW outcome, Call(r, outcome)
    PROVE  /\ \A q \in Requests : (faults[q] # <<>> => faults'[q] # <<>>) /\ (Lost(q) => Lost(q)')
           /\ outcome # "done" => faults'[r] # <<>> \/ ~ req[r].alive
           /\ outcome = "lost" => Lost(r)'
<1>1. faults \in [Requests -> Seq(Faults)]
  BY DEF TypeOK
<1>2. CASE faults' = faults /\ outcome # "lost" /\ (outcome = "done" \/ ~ req[r].alive)
  BY <1>2 DEF Lost
<1>3. CASE outcome \in Faults /\ faults' = [faults EXCEPT ![r] = Append(@, outcome)]
  <2>1. PICK f \in Seq(Faults) : f = faults[r]
    BY <1>1
  <2>2. faults'[r] = Append(f, outcome) /\ \A q \in Requests \ {r} : faults'[q] = faults[q]
    BY <1>1, <1>3, <2>1
  <2>3. /\ DOMAIN f \subseteq DOMAIN Append(f, outcome)
        /\ \A i \in DOMAIN f : Append(f, outcome)[i] = f[i]
        /\ Len(f) + 1 \in DOMAIN Append(f, outcome) /\ Append(f, outcome)[Len(f) + 1] = outcome
        /\ Append(f, outcome) # <<>>
    BY <1>3
  <2> QED  BY <2>1, <2>2, <2>3 DEF Lost
<1> QED  BY <1>2, <1>3 DEF Call

\* A step of r that keeps what is known of r keeps the invariant, if it deletes no row
\* but that of r and queues jobs only for r or for a workload that was found.
LEMMA QueueStep ==
    ASSUME Queue, NEW r \in Requests,
           \A q \in Requests \ {r} : req'[q] = req[q], ~ req[r].alive => ~ req'[r].alive,
           \A q \in Requests : (faults[q] # <<>> => faults'[q] # <<>>) /\ (Lost(q) => Lost(q)'),
           \A q : Exists(q) => Exists(q)' \/ (q = r /\ Troubled(r)),
           \A t \in tasks' \ tasks : \/ t.type = "build:image" /\ Found(t.workload)
                                     \/ t.type # "build:image" /\ t.workload = r,
           tasks \subseteq Task, tasks' \subseteq Task, \A q \in Requests : req[q] \in Request,
           QueueOK(r)'
    PROVE  Queue'
<1>1. \A q \in Requests : Troubled(q) => Troubled(q)'
  BY DEF Troubled
<1>2. \A q \in Requests : Found(q) => Found(q)'
  BY <1>1 DEF Found
<1>3. ASSUME NEW q \in Requests \ {r} PROVE QueueOK(q)'
  <2>1. Provisioned(q)' => Provisioned(q)
    BY DEF Provisioned
  <2>2. req[q].target \in Requests /\ QueueOK(q) /\ req'[q] = req[q]
    BY DEF Request, Queue
  <2> QED  BY <1>1, <1>2, <2>1, <2>2 DEF QueueOK
<1>4. ASSUME NEW t \in tasks', t.type = "build:image" PROVE Found(t.workload)'
  <2>1. t.workload \in Requests /\ Found(t.workload)
    BY <1>4 DEF Task, Queue
  <2> QED  BY <1>2, <2>1
<1> QED  BY <1>3, <1>4 DEF Queue

\* A request before its provision job is queued.
LEMMA EarlyQueue ==
    ASSUME Queue, NEW r \in Requests, req[r].pc \notin {"rollback", "done", "gone"},
           \A t \in tasks' \ tasks : t.type = "build:image",
           req'[r].pc \notin {"rollback", "enqueueBuild"}
    PROVE  QueueOK(r)'
<1>1. ~ Provisioned(r)
  BY DEF Queue, QueueOK
<1>2. ~ Provisioned(r)'
  BY <1>1 DEF Provisioned
<1> QED  BY <1>2 DEF QueueOK

\* Every step of the service keeps jobs with their workloads.
THEOREM NextQueue == Inv /\ Queue /\ [Next]_vars => Queue'
<1> SUFFICES ASSUME Inv, Queue, [Next]_vars PROVE Queue'
  OBVIOUS
<1>0. /\ TypeOK /\ tasks \subseteq Task /\ \A q \in Requests : req[q] \in Request
      /\ tasks' \subseteq Task
  BY NextInv DEF Inv, TypeOK
<1>1. ASSUME NEW r \in Requests, Begin(r) PROVE Queue'
  <2>1. /\ req[r].pc = "idle" /\ UNCHANGED <<workloads, tasks, faults>>
        /\ \A q \in Requests \ {r} : req'[q] = req[q]
        /\ req'[r].pc \notin {"rollback", "enqueueBuild"} /\ req'[r].alive = req[r].alive
    BY <1>0, <1>1, BeginFacts
  <2>2. QueueOK(r)'
    BY <2>1, EarlyQueue
  <2>3. \A q : (Exists(q)' <=> Exists(q)) /\ (Lost(q)' <=> Lost(q))
    BY <2>1 DEF Exists, Lost
  <2> QED  BY <1>0, <2>1, <2>2, <2>3, QueueStep
<1>2. ASSUME NEW r \in Requests, NEW outcome \in Outcomes, NEW valid,
             \/ FindByName(r, outcome) \/ FindByID(r, outcome, valid)
             \/ SaveCredential(r, outcome) \/ GetSecret(r, outcome, valid) \/ Save(r, outcome)
      PROVE  Queue'
  <2>1. /\ req[r].pc \notin {"rollback", "done", "gone"} /\ Call(r, outcome)
        /\ workloads \subseteq workloads' /\ tasks' = tasks
    BY <1>2 DEF FindByName, FindByID, SaveCredential, GetSecret, Save
  <2>2. /\ req'[r].pc \notin {"rollback", "enqueueBuild"} /\ req'[r].alive = req[r].alive
        /\ \A q \in Requests \ {r} : req'[q] = req[q]
    BY <1>0, <1>2 DEF FindByName, FindByID, SaveCredential, GetSecret, Save, Goto, Return,
                      TypeOK, Request
  <2>3. QueueOK(r)'
    BY <2>1, <2>2, EarlyQueue
  <2>4. \A q : Exists(q) => Exists(q)'
    BY <2>1 DEF Exists
  <2> QED  BY <1>0, <2>1, <2>2, <2>3, <2>4, FailuresStay, QueueStep
<1>3. ASSUME NEW r \in Requests, NEW outcome \in Outcomes, FindHook(r, outcome) PROVE Queue'
  <2>1. /\ req[r].pc = "findHook" /\ Call(r, outcome)
        /\ workloads' = workloads /\ tasks' = tasks
    BY <1>3 DEF FindHook
  <2>2. /\ req'[r].alive = req[r].alive /\ req'[r].pc \in {"enqueueBuild", "done"}
        /\ req'[r].pc = "enqueueBuild" => Exists(req'[r].target)
        /\ \A q \in Requests \ {r} : req'[q] = req[q]
    <3>1. CASE Return(r, "internal")
      BY <1>0, <3>1, ReturnFacts DEF Results
    <3>2. ASSUME NEW w \in workloads,
                 req' = [req EXCEPT ![r].pc = "enqueueBuild", ![r].target = w.id]
          PROVE  /\ req'[r].alive = req[r].alive /\ req'[r].pc = "enqueueBuild"
                 /\ Exists(req'[r].target)
                 /\ \A q \in Requests \ {r} : req'[q] = req[q]
      BY <1>0, <3>2 DEF TypeOK, Request, Exists
    <3> QED  BY <1>3, <3>1, <3>2, Zenon DEF FindHook, Named
  <2>3. \A q : Exists(q)' <=> Exists(q)
    BY <2>1 DEF Exists
  <2>4. ~ Provisioned(r)'
    BY <2>1 DEF Queue, QueueOK, Provisioned
  <2>5. QueueOK(r)'
    BY <2>2, <2>3, <2>4 DEF QueueOK, Found
  <2> QED  BY <1>0, <2>1, <2>2, <2>3, <2>5, FailuresStay, QueueStep
<1>4. ASSUME NEW r \in Requests, NEW outcome \in Outcomes, EnqueueBuildJob(r, outcome)
      PROVE  Queue'
  <2>1. /\ req[r].pc = "enqueueBuild" /\ Call(r, outcome) /\ workloads' = workloads
        /\ \A t \in tasks' \ tasks : t.type = "build:image" /\ t.workload = req[r].target
    BY <1>4 DEF EnqueueBuildJob
  <2>2. /\ req'[r].pc = "done" /\ req'[r].alive = req[r].alive
        /\ \A q \in Requests \ {r} : req'[q] = req[q]
    BY <1>0, <1>4, ReturnFacts DEF EnqueueBuildJob, Results
  <2>3. QueueOK(r)'
    BY <2>1, <2>2, EarlyQueue
  <2>4. Found(req[r].target) /\ \A q : Exists(q)' <=> Exists(q)
    BY <2>1 DEF Queue, QueueOK, Exists
  <2> QED  BY <1>0, <2>1, <2>2, <2>3, <2>4, FailuresStay, QueueStep
<1>5. ASSUME NEW r \in Requests, NEW outcome \in Outcomes, EnqueueProvisionJob(r, outcome)
      PROVE  Queue'
  <2>1. /\ req[r].pc = "enqueueProvision" /\ Call(r, outcome) /\ workloads' = workloads
        /\ \A t \in tasks' \ tasks : t.type # "build:image" /\ t.workload = r
        /\ outcome = "refused" => tasks' = tasks
    BY <1>5 DEF EnqueueProvisionJob, Takes
  <2>2. /\ req'[r].alive = req[r].alive
        /\ outcome = "done" => req'[r].pc = "done"
        /\ outcome # "done" => req'[r].pc = "rollback"
        /\ \A q \in Requests \ {r} : req'[q] = req[q]
    BY <1>0, <1>5, GotoFacts, ReturnFacts DEF EnqueueProvisionJob, Results, Steps
  <2>3. ~ Provisioned(r) /\ Exists(r)
    BY <2>1 DEF Inv, RequestOK, Saved, Exists, Queue, QueueOK
  <2>4. \A q : Exists(q)' <=> Exists(q)
    BY <2>1 DEF Exists
  <2>5. outcome # "done" => Troubled(r)' /\ (Provisioned(r)' => Lost(r)')
    <3>1. outcome = "refused" => ~ Provisioned(r)'
      BY <2>1, <2>3 DEF Provisioned
    <3> QED  BY <1>0, <2>1, <2>2, <3>1, FailuresStay DEF Outcomes, Troubled
  <2>6. QueueOK(r)'
    BY <2>2, <2>3, <2>4, <2>5 DEF QueueOK
  <2> QED  BY <1>0, <2>1, <2>2, <2>4, <2>6, FailuresStay, QueueStep
<1>6. ASSUME NEW r \in Requests, NEW outcome \in Outcomes, Rollback(r, outcome)
      PROVE  Queue'
  <2>1. /\ req[r].pc = "rollback" /\ Call(r, outcome) /\ tasks' = tasks
        /\ \A w \in workloads : w.id # r => w \in workloads'
    BY <1>6 DEF Rollback
  <2>2. /\ req'[r].pc = "done" /\ req'[r].alive = req[r].alive
        /\ \A q \in Requests \ {r} : req'[q] = req[q]
    BY <1>0, <1>6, ReturnFacts DEF Rollback, Results
  <2>3. Troubled(r) /\ (Provisioned(r) => Lost(r))
    BY <2>1 DEF Queue, QueueOK
  <2>4. \A q : Exists(q) => Exists(q)' \/ (q = r /\ Troubled(r))
    BY <2>1, <2>3 DEF Exists
  <2>5. QueueOK(r)'
    BY <1>0, <2>1, <2>2, <2>3, FailuresStay DEF QueueOK, Provisioned
  <2> QED  BY <1>0, <2>1, <2>2, <2>4, <2>5, FailuresStay, QueueStep
<1>7. ASSUME NEW r \in Requests, Cancel(r) PROVE Queue'
  <2>1. /\ req'[r].pc = req[r].pc /\ req'[r].target = req[r].target /\ ~ req'[r].alive
        /\ \A q \in Requests \ {r} : req'[q] = req[q]
        /\ UNCHANGED <<workloads, tasks, faults>>
    BY <1>0, <1>7 DEF Cancel, TypeOK, Request
  <2>2. /\ \A q : (Exists(q)' <=> Exists(q)) /\ (Lost(q)' <=> Lost(q))
        /\ \A q \in Requests : Troubled(q) => Troubled(q)'
        /\ Provisioned(r)' <=> Provisioned(r)
    BY <2>1 DEF Exists, Lost, Troubled, Provisioned
  <2>3. QueueOK(r)'
    BY <1>0, <2>1, <2>2 DEF Queue, QueueOK, Found, Request
  <2> QED  BY <1>0, <2>1, <2>2, <2>3, QueueStep
<1>8. CASE Crash
  <2>1. UNCHANGED <<workloads, tasks, faults>>
    BY <1>8 DEF Crash
  <2>2. \A q \in Requests :
          /\ req'[q].alive = req[q].alive
          /\ req'[q].pc = "gone" \/ (req'[q] = req[q] /\ req[q].pc \notin Steps)
    BY <1>0, <1>8 DEF Crash, Active, TypeOK, Request
  <2>3. \A q \in Requests : /\ (Exists(q)' <=> Exists(q)) /\ (Lost(q)' <=> Lost(q))
                            /\ Troubled(q)' <=> Troubled(q)
                            /\ Provisioned(q)' <=> Provisioned(q)
    BY <2>1, <2>2 DEF Exists, Lost, Troubled, Provisioned
  <2>4. ASSUME NEW q \in Requests PROVE QueueOK(q)'
    BY <2>2, <2>3 DEF Queue, QueueOK, Steps
  <2>5. ASSUME NEW t \in tasks', t.type = "build:image" PROVE Found(t.workload)'
    BY <1>0, <2>1, <2>3, <2>5 DEF Queue, Found, Task
  <2> QED  BY <2>4, <2>5 DEF Queue
<1>9. CASE UNCHANGED vars
  BY <1>9 DEF vars, Queue, QueueOK, Found, Lost, Troubled, Exists, Provisioned
<1>10. ASSUME NEW r \in Requests, Step(r) PROVE Queue'
  BY <1>10, <1>2, <1>3, <1>4, <1>5, <1>6 DEF Step
<1> QED  BY <1>1, <1>7, <1>8, <1>9, <1>10 DEF Next

\* A queued job names a stored workload, unless the reply to its submission's enqueue was
\* lost or, for the build job of a webhook, the submission failed or was cancelled between
\* FindByRepo and the enqueue: for any number of requests and failures.
THEOREM JobsHaveWorkloads == Spec => []QueuedIsStored
<1>1. Init => Queue
  BY DEF Init, Queue, QueueOK, Provisioned
<1>2. Inv /\ Queue => QueuedIsStored
  <2> SUFFICES ASSUME Inv, Queue, NEW t \in tasks PROVE
               \/ Exists(t.workload)
               \/ t.type = "build:image" /\ Troubled(t.workload)
               \/ Lost(t.workload)
    BY DEF QueuedIsStored, Lost
  <2>1. t.workload \in Requests /\ t.type \in TaskTypes
    BY DEF Inv, TypeOK, Task
  <2>2. CASE t.type = "build:image"
    BY <2>2 DEF Queue, Found
  <2>3. CASE t.type = "provisioner:deploy"
    BY <2>1, <2>3 DEF Queue, QueueOK, Provisioned
  <2> QED  BY <2>1, <2>2, <2>3 DEF TaskTypes
<1> QED  BY <1>1, <1>2, NextQueue, Invariance, PTL DEF Spec

=============================================================================
