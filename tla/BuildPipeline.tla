--------------------------- MODULE BuildPipeline ---------------------------
(***************************************************************************)
(* The image build pipeline: the queue handler                             *)
(* (internal/build/worker/worker.go), BuildUseCase.Execute                 *)
(* (internal/build/usecase/build.go), the Kaniko launcher                  *)
(* (internal/build/adapter/kaniko/launcher.go) and the build rows they     *)
(* write (internal/build/adapter/postgres/build_repository.go).            *)
(*                                                                         *)
(* A job is a task of the build queue.  An attempt to process it runs      *)
(* Execute, which writes a row of its own; every database or Kubernetes    *)
(* call of an attempt is a step, and attempts of several jobs interleave.  *)
(* Asynq (the queue), Postgres and Kubernetes are external.                *)
(*                                                                         *)
(* The ID of a build is "b-<workload prefix>-<unix second>".  All jobs of  *)
(* the model share the prefix, so that the second alone tells IDs apart.   *)
(***************************************************************************)
EXTENDS Detection, Integers, Sequences

CONSTANTS
  Jobs,        \* tasks of the build queue
  ShortSHA,    \* the jobs whose commit SHA has fewer than 7 characters
  Sources,     \* sequence of the directories that an attempt may find, not empty
  MaxRetry,    \* asynq.MaxRetry of a build task
  MaxTime,     \* bound: last second of the clock
  MaxFaults    \* bound: database and Kubernetes errors in a behaviour

ASSUME ConstantsAssumption ==
  /\ ShortSHA \subseteq Jobs
  /\ Len(Sources) \in Nat /\ DOMAIN Sources = 1..Len(Sources)
  /\ \A n \in DOMAIN Sources :
       DOMAIN Sources[n] # {} /\ \A f \in DOMAIN Sources[n] : Sources[n][f] \in Contents
  /\ MaxRetry \in Nat /\ MaxTime \in Nat /\ MaxFaults \in Nat

VARIABLES
  now,      \* the clock, in seconds
  task,     \* task[j]: the queue's record of job j
  exec,     \* exec[j]: the attempt in progress at job j; dir: what Detect read,
            \* an index of Sources, or 0
  builds,   \* builds[id]: row of table builds
  kaniko,   \* kaniko[id]: the Kubernetes job kaniko-<id>
  faults,   \* errors so far
  cut       \* history: builds whose attempt was abandoned or panicked, or met
            \* an error in Create, Launch or one of its last writes

vars == <<now, task, exec, builds, kaniko, faults, cut>>

BuildIDs == 0..MaxTime

\* The statuses Execute writes, in the order of the pipeline.
Statuses == <<"CLONING", "DETECTING", "GENERATING", "BUILDING">>
Terminal == {"SUCCEEDED", "FAILED"}
Status == {Statuses[i] : i \in 1..4} \cup Terminal

Row == [status : Status, image : BOOLEAN, completed : BOOLEAN]
NoRow == [status |-> "none", image |-> FALSE, completed |-> FALSE]

\* A Kubernetes job, with what its container leaves as termination message;
\* "gone" once ttlSecondsAfterFinished has passed.
Kaniko == {"none", "running", "failed", "digest", "nodigest", "gone"}

PCs == {"idle", "create", "detect", "generate", "build", "launch", "poll",
        "fail", "imageRef", "complete"}
Causes == {"none", "detection", "dockerfile", "kaniko", "other"}

TypeOK ==
  /\ now \in BuildIDs
  /\ task \in [Jobs -> [state   : {"pending", "active", "done", "archived"},
                        retried : 0..MaxRetry]]
  /\ exec \in [Jobs -> [pc : PCs, id : BuildIDs, cause : Causes,
                        dir : 0..Len(Sources)]]
  /\ builds \in [BuildIDs -> Row \cup {NoRow}]
  /\ kaniko \in [BuildIDs -> Kaniko]
  /\ faults \in 0..MaxFaults
  /\ cut \subseteq BuildIDs

NoExec == [pc |-> "idle", id |-> 0, cause |-> "none", dir |-> 0]

Init ==
  /\ now = 0
  /\ task = [j \in Jobs |-> [state |-> "pending", retried |-> 0]]
  /\ exec = [j \in Jobs |-> NoExec]
  /\ builds = [b \in BuildIDs |-> NoRow]
  /\ kaniko = [b \in BuildIDs |-> "none"]
  /\ faults = 0
  /\ cut = {}

-----------------------------------------------------------------------------
Fault == faults < MaxFaults /\ faults' = faults + 1
Cut(j) == cut' = cut \cup {exec[j].id}

At(j, pc) == exec[j].pc = pc
Goto(j, pc) == exec' = [exec EXCEPT ![j].pc = pc]
FailWith(j, cause) ==
  exec' = [exec EXCEPT ![j].pc = "fail", ![j].cause = cause]

\* UpdateStatus: the pipeline goes on whether or not the write succeeds.
UpdateStatus(j, status) ==
  \/ builds' = [builds EXCEPT ![exec[j].id].status = status] /\ UNCHANGED faults
  \/ Fault /\ UNCHANGED builds

-----------------------------------------------------------------------------
(* The queue.                                                              *)

\* Asynq hands a task to the handler, a retry after any delay.
Start(j) ==
  /\ task[j].state = "pending"
  /\ task' = [task EXCEPT ![j].state = "active"]
  /\ exec' = [exec EXCEPT ![j] = [NoExec EXCEPT !.pc = "create", !.id = now]]
  /\ UNCHANGED <<now, builds, kaniko, faults, cut>>

\* Faulty variant: an attempt does not count as a retry.
RetryUncounted(j) ==
  IF task[j].retried < MaxRetry
  THEN [state |-> "pending", retried |-> task[j].retried]
  ELSE [state |-> "archived", retried |-> task[j].retried]

\* What asynq makes of a task whose attempt failed.
Retry(j) ==
  IF task[j].retried < MaxRetry
  THEN [state |-> "pending", retried |-> task[j].retried + 1]
  ELSE [state |-> "archived", retried |-> task[j].retried]

\* The text of Execute's error: a message of its own, then the cause.
ErrorText(cause) == <<"message", cause>>

\* ProcessTask compares that text with the texts of three domain errors.
SkipRetry(cause) ==
  ErrorText(cause) \in {<<"detection">>, <<"dockerfile">>, <<"kaniko">>}

\* ProcessTask returns the error of Execute.
Failed(j) ==
  /\ task' = [task EXCEPT ![j] = IF SkipRetry(exec[j].cause)
                                 THEN [@ EXCEPT !.state = "archived"]
                                 ELSE Retry(j)]
  /\ exec' = [exec EXCEPT ![j] = NoExec]

\* The task's deadline passes, and the context of the attempt with it: every
\* later call of the attempt fails, including those of failBuild, and asynq
\* fails the task at once.  Or the worker crashes and its lease runs out.
Abandon(j) ==
  /\ exec[j].pc # "idle"
  /\ task' = [task EXCEPT ![j] = Retry(j)]
  /\ exec' = [exec EXCEPT ![j] = NoExec]
  /\ IF At(j, "create") THEN UNCHANGED cut ELSE Cut(j)
  /\ UNCHANGED <<now, builds, kaniko, faults>>

-----------------------------------------------------------------------------
(* Execute.                                                                *)

\* Faulty variant: a row that exists already is taken over.
CreateUpsert(j) ==
  /\ At(j, "create")
  /\ builds' = [builds EXCEPT ![exec[j].id] = [NoRow EXCEPT !.status = "CLONING"]]
  /\ Goto(j, "detect")
  /\ UNCHANGED <<now, task, kaniko, faults, cut>>

\* Faulty variant: the row of a failed attempt is used again.
CreateReopens(j) ==
  /\ At(j, "create")
  /\ IF builds[exec[j].id].status \in {NoRow.status, "FAILED"}
     THEN /\ builds' = [builds EXCEPT ![exec[j].id] =
                                        [NoRow EXCEPT !.status = "CLONING"]]
          /\ Goto(j, "detect")
          /\ UNCHANGED task
     ELSE Failed(j) /\ UNCHANGED builds
  /\ UNCHANGED <<now, kaniko, faults, cut>>

\* INSERT of the row; the primary key rejects an ID that is taken, and
\* Execute returns before failBuild is there to call.
Create(j) ==
  /\ At(j, "create")
  /\ IF builds[exec[j].id] = NoRow
     THEN /\ builds' = [builds EXCEPT ![exec[j].id] =
                                        [NoRow EXCEPT !.status = "CLONING"]]
          /\ Goto(j, "detect")
          /\ UNCHANGED task
     ELSE Failed(j) /\ UNCHANGED builds
  /\ UNCHANGED <<now, kaniko, faults, cut>>

\* The INSERT fails, or commits although its caller sees an error.
CreateFails(j) ==
  /\ At(j, "create") /\ builds[exec[j].id] = NoRow
  /\ \/ UNCHANGED builds
     \/ builds' = [builds EXCEPT ![exec[j].id] = [NoRow EXCEPT !.status = "CLONING"]]
  /\ Fault /\ Cut(j) /\ Failed(j)
  /\ UNCHANGED <<now, kaniko>>

\* An attempt reads its source directory, whatever it holds by then: the clone
\* is simulated.  One that is empty or cannot be read is an error.
Detect(j) ==
  /\ At(j, "detect")
  /\ UpdateStatus(j, "DETECTING")
  /\ \/ \E n \in DOMAIN Sources :
          exec' = [exec EXCEPT ![j].pc = "generate", ![j].dir = n]
     \/ FailWith(j, "detection")
  /\ UNCHANGED <<now, task, kaniko, cut>>

\* os.Stat fails although the file may be there, and fileExists goes on with
\* the information that it did not get; asynq recovers and fails the attempt,
\* whether or not its status was written.
DetectPanics(j) ==
  /\ At(j, "detect")
  /\ builds' = [builds EXCEPT ![exec[j].id].status = "DETECTING"] \/ UNCHANGED builds
  /\ Fault /\ Cut(j) /\ Failed(j)
  /\ UNCHANGED <<now, kaniko>>

\* A Dockerfile is generated unless there is one.
Generate(j) ==
  LET d == Detected(Sources[exec[j].dir])
  IN  /\ At(j, "generate")
      /\ UpdateStatus(j, "GENERATING")
      /\ \/ (d.hasDockerfile \/ Generated(d, TRUE)) /\ Goto(j, "build")
         \/ ~d.hasDockerfile /\ Generated(d, FALSE) /\ FailWith(j, "dockerfile")
      /\ UNCHANGED <<now, task, kaniko, cut>>

\* What the directory holds matters no longer to Execute.
Building(j) ==
  /\ At(j, "build")
  /\ UpdateStatus(j, "BUILDING")
  /\ exec' = [exec EXCEPT ![j].pc = "launch", ![j].dir = 0]
  /\ UNCHANGED <<now, task, kaniko, cut>>

\* The image's tag is the first 7 characters of the SHA.  Without them the
\* slice expression panics; asynq recovers and fails the attempt.
Panic(j) ==
  /\ At(j, "launch") /\ j \in ShortSHA
  /\ Failed(j)
  /\ Cut(j)
  /\ UNCHANGED <<now, builds, kaniko, faults>>

\* Launch creates the Kubernetes job.
Launch(j) ==
  /\ At(j, "launch") /\ j \notin ShortSHA
  /\ kaniko' = [kaniko EXCEPT ![exec[j].id] = "running"]
  /\ Goto(j, "poll")
  /\ UNCHANGED <<now, task, builds, faults, cut>>

\* Launch fails before, while or after it creates the job, or when it opens
\* the log stream.
LaunchFails(j) ==
  /\ At(j, "launch") /\ j \notin ShortSHA
  /\ kaniko' = kaniko \/ kaniko' = [kaniko EXCEPT ![exec[j].id] = "running"]
  /\ Fault /\ Cut(j) /\ FailWith(j, "other")
  /\ UNCHANGED <<now, task, builds>>

\* Faulty variant: the failure of the Kubernetes job is not looked at.
PollIgnoresFailure(j) ==
  LET k == kaniko[exec[j].id]
  IN  /\ At(j, "poll")
      /\ \/ k \in {"digest", "failed"} /\ Goto(j, "imageRef")
         \/ k = "nodigest" /\ FailWith(j, "other")
      /\ UNCHANGED <<now, task, builds, kaniko, faults, cut>>

\* Faulty variant: a job that has not finished yet counts as failed.
PollImpatient(j) ==
  LET k == kaniko[exec[j].id]
  IN  /\ At(j, "poll")
      /\ \/ k = "digest" /\ Goto(j, "imageRef")
         \/ k = "nodigest" /\ FailWith(j, "other")
         \/ k \in {"failed", "running"} /\ FailWith(j, "kaniko")
      /\ UNCHANGED <<now, task, builds, kaniko, faults, cut>>

\* Launch polls the job until it has finished and takes the digest from the
\* pod's termination message.  A job that is gone is polled until the deadline.
Poll(j) ==
  LET k == kaniko[exec[j].id]
  IN  /\ At(j, "poll")
      /\ \/ k = "digest" /\ Goto(j, "imageRef")
         \/ k = "nodigest" /\ FailWith(j, "other")
         \/ k = "failed" /\ FailWith(j, "kaniko")
      /\ UNCHANGED <<now, task, builds, kaniko, faults, cut>>

\* The pod cannot be read once its job has succeeded.
PollFails(j) ==
  /\ At(j, "poll") /\ kaniko[exec[j].id] \in {"digest", "nodigest"}
  /\ Fault /\ FailWith(j, "other")
  /\ UNCHANGED <<now, task, builds, kaniko, cut>>

\* Faulty variant: failBuild logs and returns without writing the status.
FailBuildLogs(j) ==
  /\ At(j, "fail")
  /\ Failed(j)
  /\ UNCHANGED <<now, builds, kaniko, faults, cut>>

\* failBuild: status FAILED and its message, no completed_at.
FailBuild(j) ==
  /\ At(j, "fail")
  /\ UpdateStatus(j, "FAILED")
  /\ IF faults' > faults THEN Cut(j) ELSE UNCHANGED cut
  /\ Failed(j)
  /\ UNCHANGED <<now, kaniko>>

UpdateImageRef(j) ==
  /\ At(j, "imageRef")
  /\ \/ /\ builds' = [builds EXCEPT ![exec[j].id].image = TRUE]
        /\ UNCHANGED <<faults, cut>>
     \/ Fault /\ Cut(j) /\ UNCHANGED builds
  /\ Goto(j, "complete")
  /\ UNCHANGED <<now, task, kaniko>>

\* Execute returns nil even if the row could not be written.
MarkCompleted(j) ==
  /\ At(j, "complete")
  /\ \/ /\ builds' = [builds EXCEPT ![exec[j].id].status = "SUCCEEDED",
                                    ![exec[j].id].completed = TRUE]
        /\ UNCHANGED <<faults, cut>>
     \/ Fault /\ Cut(j) /\ UNCHANGED builds
  /\ task' = [task EXCEPT ![j].state = "done"]
  /\ exec' = [exec EXCEPT ![j] = NoExec]
  /\ UNCHANGED <<now, kaniko>>

-----------------------------------------------------------------------------
(* Kubernetes and the clock.                                               *)

KanikoEnds(id) ==
  /\ kaniko[id] = "running"
  /\ \E k \in {"failed", "digest", "nodigest"} : kaniko' = [kaniko EXCEPT ![id] = k]
  /\ UNCHANGED <<now, task, exec, builds, faults, cut>>

KanikoExpires(id) ==
  /\ kaniko[id] \in {"failed", "digest", "nodigest"}
  /\ kaniko' = [kaniko EXCEPT ![id] = "gone"]
  /\ UNCHANGED <<now, task, exec, builds, faults, cut>>

Tick ==
  /\ now < MaxTime
  /\ now' = now + 1
  /\ UNCHANGED <<task, exec, builds, kaniko, faults, cut>>

-----------------------------------------------------------------------------
Work(j) ==
  \/ Create(j) \/ CreateFails(j) \/ Detect(j) \/ DetectPanics(j) \/ Generate(j)
  \/ Building(j)
  \/ Panic(j) \/ Launch(j) \/ LaunchFails(j) \/ Poll(j) \/ PollFails(j)
  \/ FailBuild(j) \/ UpdateImageRef(j) \/ MarkCompleted(j)

\* Nothing is left to do.
Terminating ==
  /\ \A j \in Jobs : task[j].state \in {"done", "archived"}
  /\ UNCHANGED vars

Next ==
  \/ \E j \in Jobs : Start(j) \/ Work(j) \/ Abandon(j)
  \/ \E id \in BuildIDs : KanikoEnds(id) \/ KanikoExpires(id)
  \/ Tick
  \/ Terminating

Spec == Init /\ [][Next]_vars

\* Asynq hands out a task that waits, and gives an attempt up that has not ended
\* by its deadline (asynq.Timeout).  Neither workers nor Kubernetes need go on.
FairSpec == Spec /\ \A j \in Jobs : WF_vars(Start(j) \/ Abandon(j))

-----------------------------------------------------------------------------
(* Properties.                                                             *)

Rank(status) ==
  CASE status = "none" -> 0
    [] status = "CLONING" -> 1
    [] status = "DETECTING" -> 2
    [] status = "GENERATING" -> 3
    [] status = "BUILDING" -> 4
    [] status \in Terminal -> 5

\* The status of a row only moves forward and a terminal status is final,
\* although attempts are retried, cut short at any call and may be given the
\* same build ID.
StatusForward ==
  [][\A b \in BuildIDs :
       builds'[b].status # builds[b].status =>
         Rank(builds'[b].status) > Rank(builds[b].status)]_vars

\* A row tells the truth about its image.  It is SUCCEEDED or has an image only
\* if its own Kubernetes job has pushed one and reported the digest ("gone" is
\* what such a job becomes); and a SUCCEEDED one has its image ("ImageRef is the
\* full reference to the pushed image") and the time of its completion, unless
\* a write was refused: Execute drops the error of UpdateImageRef.
SucceededMeansPushed ==
  \A b \in BuildIDs :
    /\ builds[b].status = "SUCCEEDED" \/ builds[b].image =>
         kaniko[b] \in {"digest", "gone"}
    /\ builds[b].status = "SUCCEEDED" /\ b \notin cut =>
         builds[b].image /\ builds[b].completed

\* Two attempts never work on one row: the primary key of builds turns an
\* attempt that computed an ID already taken away before it writes.
OneWriter ==
  \A i, j \in Jobs :
    (i # j /\ exec[i].pc \notin {"idle", "create"}
           /\ exec[j].pc \notin {"idle", "create"}) => exec[i].id # exec[j].id

\* A build that no attempt works on any more has a terminal status
\* ("BuildStatusFailed indicates the build process failed at some stage"),
\* unless its attempt was cut short: nothing but a deadline, a crash, a panic
\* or a failed write leaves a row in CLONING to BUILDING for ever.
EndedIsTerminal ==
  \A b \in BuildIDs \ cut :
    (/\ builds[b] # NoRow
     /\ \A j \in Jobs : exec[j].pc \in {"idle", "create"} \/ exec[j].id # b)
    => builds[b].status \in Terminal

\* A Kubernetes job that runs is watched by the attempt that created it, unless
\* that attempt was cut short.
NoOrphanJob ==
  \A b \in BuildIDs \ cut :
    kaniko[b] = "running" => \E j \in Jobs : At(j, "poll") /\ exec[j].id = b

\* Detector, generator and templates agree on the languages: a build fails for want
\* of a valid Dockerfile only if its directory holds none of the files that a
\* language is detected by, or a version that spans several words or lines.
FailedForAReason ==
  \A j \in Jobs :
    LET s == Sources[exec[j].dir]
    IN  exec[j].cause = "dockerfile" =>
          \A f \in Manifests : fileExists(s, f) => \E g \in DOMAIN s : s[g] = "odd"

\* A job is never stuck: it is done or archived in the end, although Launch
\* polls without a limit of its own and a job may vanish while it is polled.
EveryJobEnds ==
  \A j \in Jobs : <>[](task[j].state \in {"done", "archived"})
=============================================================================
