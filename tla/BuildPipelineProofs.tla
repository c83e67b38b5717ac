------------------------- MODULE BuildPipelineProofs -------------------------
(***************************************************************************)
(* Proofs about BuildPipeline, for any number of jobs, retries, seconds,   *)
(* failed calls, deadlines and crashes, and for any source directories.    *)
(***************************************************************************)
EXTENDS BuildPipeline, TLAPS

Exec == [pc : PCs, id : BuildIDs, cause : Causes, dir : 0..Len(Sources)]
Task == [state : {"pending", "active", "done", "archived"}, retried : 0..MaxRetry]

\* The attempt e has its row.
Working(e) == e.pc \notin {"idle", "create"}

\* What an attempt e knows of its row and of its Kubernetes job k, when its build
\* is in lost or not: it has not ended the row, did not start the job before Launch,
\* and goes on to UpdateImageRef only after a digest.
Fits(e, row, k, lost) ==
  /\ row # NoRow /\ row.status \notin Terminal
  /\ e.pc = "detect" => row.status = "CLONING"
  /\ e.pc = "generate" => row.status \in {"CLONING", "DETECTING"}
  /\ e.pc = "build" => row.status \in {"CLONING", "DETECTING", "GENERATING"}
  /\ e.pc \in {"detect", "generate", "build", "launch"} => k = "none"
  /\ e.pc # "complete" => ~row.image
  /\ e.pc \in {"imageRef", "complete"} => k \in {"digest", "gone"}
  /\ e.pc = "complete" => row.image \/ lost

\* What is true of a row and its Kubernetes job, whoever works on them.
RowOK(row, k, lost) ==
  /\ row = NoRow => k = "none"
  /\ row.status = "SUCCEEDED" \/ row.image => k \in {"digest", "gone"}
  /\ row.status = "SUCCEEDED" => (row.image /\ row.completed) \/ lost

Types ==
  /\ now \in BuildIDs /\ task \in [Jobs -> Task] /\ exec \in [Jobs -> Exec]
  /\ builds \in [BuildIDs -> Row \cup {NoRow}] /\ kaniko \in [BuildIDs -> Kaniko]
  /\ faults \in 0..MaxFaults /\ cut \subseteq BuildIDs

Inv ==
  /\ Types
  /\ \A j \in Jobs : LET b == exec[j].id
                     IN  Working(exec[j]) => Fits(exec[j], builds[b], kaniko[b], b \in cut)
  /\ \A b \in BuildIDs : RowOK(builds[b], kaniko[b], b \in cut)
  /\ \A j \in Jobs : exec[j].pc # "idle" => task[j].state = "active"
  /\ OneWriter /\ EndedIsTerminal /\ NoOrphanJob

\* What a step of attempt j may make of its task when it leaves the attempt as e.
Queued(j, e) ==
  \E t \in Task : task' = [task EXCEPT ![j] = t] /\ (e.pc = "idle" \/ t.state = "active")

Forward ==
  \A b \in BuildIDs :
    builds'[b].status # builds[b].status => Rank(builds'[b].status) > Rank(builds[b].status)

Advances(old, new) == new # old => Rank(new) > Rank(old)

\* The attempt that is none (ProcessTask has returned).
LEMMA Constant == NoExec \in Exec /\ ~Working(NoExec)
  BY ConstantsAssumption DEF NoExec, Exec, PCs, Causes, BuildIDs, Working

\* The invariant holds when the worker starts: no row, no Kubernetes job, all tasks pending.
THEOREM InitInv == Init => Inv
<1> SUFFICES ASSUME Init PROVE Inv
  OBVIOUS
<1>1. Types
  BY Constant, ConstantsAssumption DEF Init, Types, Task, BuildIDs, Kaniko
<1>2. \A j \in Jobs : ~Working(exec[j]) /\ exec[j].pc = "idle"
  BY Constant DEF Init, NoExec
<1>3. \A b \in BuildIDs : builds[b] = NoRow /\ kaniko[b] = "none"
  BY DEF Init
<1>4. \A b \in BuildIDs : RowOK(builds[b], kaniko[b], b \in cut)
  BY <1>3 DEF RowOK, NoRow
<1> QED BY <1>1, <1>2, <1>3, <1>4 DEF Inv, OneWriter, EndedIsTerminal, NoOrphanJob

\* A call of attempt j may change its own row, its own Kubernetes job and what j
\* remembers; all else is as before.
LEMMA JobStep ==
  ASSUME Inv, NEW j \in Jobs, NEW b, b = exec[j].id,
         NEW e \in Exec, NEW row \in Row \cup {NoRow}, NEW k \in Kaniko,
         exec' = [exec EXCEPT ![j] = e],
         builds' = [builds EXCEPT ![b] = row],
         kaniko' = [kaniko EXCEPT ![b] = k],
         cut' = cut \/ cut' = cut \cup {b},
         Queued(j, e), faults' \in 0..MaxFaults, now' = now,
         Working(exec[j]) \/ builds[b] = NoRow,
         Working(e) => e.id = b /\ Fits(e, row, k, b \in cut'),
         RowOK(row, k, b \in cut'),
         Working(e) \/ row = NoRow \/ row.status \in Terminal \/ b \in cut',
         k # "running" \/ e.pc = "poll" \/ b \in cut',
         Advances(builds[b].status, row.status)
  PROVE  Inv' /\ Forward
<1>1. Types /\ exec[j] \in Exec /\ b \in BuildIDs
  BY DEF Inv, Types, Exec
<1>2. Types'
  BY <1>1 DEF Types, Queued
<1>3. exec'[j] = e /\ \A i \in Jobs \ {j} : exec'[i] = exec[i]
  BY <1>1 DEF Types
<1>4. /\ builds'[b] = row /\ kaniko'[b] = k
      /\ \A c \in BuildIDs \ {b} : builds'[c] = builds[c] /\ kaniko'[c] = kaniko[c]
                                   /\ (c \in cut' <=> c \in cut)
  BY <1>1 DEF Types
\* Nobody else works on row b.
<1>5. \A i \in Jobs \ {j} : Working(exec[i]) => exec[i].id \in BuildIDs \ {b}
  BY <1>1 DEF Inv, OneWriter, Working, Fits, Types, Exec
<1>6. (\A i \in Jobs : LET c == exec[i].id
                       IN  Working(exec[i]) => Fits(exec[i], builds[c], kaniko[c], c \in cut))'
  <2> SUFFICES ASSUME NEW i \in Jobs, Working(exec'[i])
               PROVE  Fits(exec'[i], builds'[exec'[i].id], kaniko'[exec'[i].id], exec'[i].id \in cut')
    BY DEF Fits, Working
  <2>1. CASE i = j
    BY <1>3, <1>4, <2>1
  <2>2. CASE i # j
    <3>1. /\ exec'[i] = exec[i] /\ exec[i].id \in BuildIDs \ {b}
          /\ Fits(exec[i], builds[exec[i].id], kaniko[exec[i].id], exec[i].id \in cut)
      BY <1>3, <1>5, <2>2 DEF Inv
    <3>2. /\ builds'[exec[i].id] = builds[exec[i].id] /\ kaniko'[exec[i].id] = kaniko[exec[i].id]
          /\ (exec[i].id \in cut' <=> exec[i].id \in cut)
      BY <1>4, <3>1
    <3> QED BY <3>1, <3>2 DEF Fits
  <2> QED BY <2>1, <2>2
<1>7. (\A c \in BuildIDs : RowOK(builds[c], kaniko[c], c \in cut))'
  <2> SUFFICES ASSUME NEW c \in BuildIDs PROVE RowOK(builds'[c], kaniko'[c], c \in cut')
    BY DEF RowOK
  <2>1. CASE c = b
    BY <1>4, <2>1
  <2>2. CASE c # b
    <3>1. RowOK(builds[c], kaniko[c], c \in cut)
      BY DEF Inv
    <3> QED BY <1>4, <2>2, <3>1 DEF RowOK
  <2> QED BY <2>1, <2>2
<1>8. OneWriter'
  BY <1>3, <1>5 DEF Inv, OneWriter, Working
<1>9. EndedIsTerminal'
  <2> SUFFICES ASSUME NEW c \in BuildIDs \ cut', builds'[c] # NoRow,
                      \A i \in Jobs : exec'[i].pc \in {"idle", "create"} \/ exec'[i].id # c
               PROVE  builds'[c].status \in Terminal
    BY DEF EndedIsTerminal
  <2>1. CASE c = b
    BY <1>3, <1>4, <2>1 DEF Working
  <2>2. CASE c # b
    BY <1>3, <1>4, <2>2 DEF Inv, EndedIsTerminal
  <2> QED BY <2>1, <2>2
<1>10. NoOrphanJob'
  <2> SUFFICES ASSUME NEW c \in BuildIDs \ cut', kaniko'[c] = "running"
               PROVE  \E i \in Jobs : exec'[i].pc = "poll" /\ exec'[i].id = c
    BY DEF NoOrphanJob, At
  <2>1. CASE c = b
    BY <1>3, <1>4, <2>1 DEF Working
  <2>2. CASE c # b
    BY <1>3, <1>4, <2>2 DEF Inv, NoOrphanJob, At
  <2> QED BY <2>1, <2>2
<1>11. Forward
  BY <1>4 DEF Forward, Advances
<1>12. (\A i \in Jobs : exec[i].pc # "idle" => task[i].state = "active")'
  BY <1>1, <1>3 DEF Inv, Queued, Types
<1> QED BY <1>2, <1>6, <1>7, <1>8, <1>9, <1>10, <1>11, <1>12 DEF Inv

\* A step of an attempt that has no row, before and after.
LEMMA IdleStep ==
  ASSUME Inv, NEW j \in Jobs, NEW e \in Exec, exec' = [exec EXCEPT ![j] = e],
         ~Working(exec[j]), ~Working(e),
         UNCHANGED <<now, builds, kaniko, faults, cut>>, Queued(j, e)
  PROVE  Inv' /\ Forward
<1>1. Types'
  BY DEF Inv, Types, Queued
<1>2. exec'[j] = e /\ \A i \in Jobs \ {j} : exec'[i] = exec[i]
  BY DEF Inv, Types
<1>3. \A i \in Jobs : Working(exec'[i]) => i # j /\ exec'[i] = exec[i]
  BY <1>2
<1>4. (\A i \in Jobs : LET c == exec[i].id
                       IN  Working(exec[i]) => Fits(exec[i], builds[c], kaniko[c], c \in cut))'
  <2> SUFFICES ASSUME NEW i \in Jobs, Working(exec'[i])
               PROVE  Fits(exec'[i], builds[exec'[i].id], kaniko[exec'[i].id], exec'[i].id \in cut)
    BY DEF Fits, Working
  <2> QED BY <1>3 DEF Inv
<1>5. (\A c \in BuildIDs : RowOK(builds[c], kaniko[c], c \in cut))'
  BY DEF Inv, RowOK
<1>6. OneWriter'
  BY <1>2 DEF Inv, OneWriter, Working
<1>7. EndedIsTerminal' /\ NoOrphanJob'
  BY <1>2 DEF Inv, EndedIsTerminal, NoOrphanJob, Working, At
<1>8. (\A i \in Jobs : exec[i].pc # "idle" => task[i].state = "active")'
  BY <1>2 DEF Inv, Queued, Types
<1> QED BY <1>1, <1>4, <1>5, <1>6, <1>7, <1>8 DEF Inv, Forward

\* What Goto, FailWith and Failed leave of an attempt, and its retries.
LEMMA Moves ==
  ASSUME Types, NEW j \in Jobs
  PROVE  /\ \A pc \in PCs : Goto(j, pc) =>
              \E e \in Exec : exec' = [exec EXCEPT ![j] = e] /\ e.pc = pc /\ e.id = exec[j].id
         /\ \A cause \in Causes : FailWith(j, cause) =>
              \E e \in Exec : exec' = [exec EXCEPT ![j] = e] /\ e.pc = "fail" /\ e.id = exec[j].id
         /\ Failed(j) => exec' = [exec EXCEPT ![j] = NoExec] /\ Queued(j, NoExec)
         /\ Retry(j) \in Task
<1>0. exec[j] \in Exec /\ exec \in [Jobs -> Exec] /\ task[j] \in Task /\ task \in [Jobs -> Task]
  BY DEF Types
<1>1. ASSUME NEW pc \in PCs, Goto(j, pc)
      PROVE  \E e \in Exec : exec' = [exec EXCEPT ![j] = e] /\ e.pc = pc /\ e.id = exec[j].id
  <2>1. PICK e : e = [exec[j] EXCEPT !.pc = pc]
    BY Zenon
  <2>2. e \in Exec /\ e.pc = pc /\ e.id = exec[j].id
    BY <1>0, <2>1 DEF Exec
  <2>3. exec' = [exec EXCEPT ![j] = e]
    BY <1>1, <2>1 DEF Goto
  <2> QED BY <2>2, <2>3, Zenon
<1>2. ASSUME NEW cause \in Causes, FailWith(j, cause)
      PROVE  \E e \in Exec : exec' = [exec EXCEPT ![j] = e] /\ e.pc = "fail" /\ e.id = exec[j].id
  <2>1. PICK e : e = [exec[j] EXCEPT !.pc = "fail", !.cause = cause]
    OBVIOUS
  <2>2. e \in Exec /\ e.pc = "fail" /\ e.id = exec[j].id
    BY <1>0, <2>1, Zenon DEF Exec, PCs
  <2>3. exec' = [exec EXCEPT ![j] = e]
    BY <1>2, <2>1, Zenon DEF FailWith
  <2> QED BY <2>2, <2>3, Zenon
<1>3. Retry(j) \in Task
  BY <1>0, ConstantsAssumption DEF Retry, Task
<1>4. [task[j] EXCEPT !.state = "archived"] \in Task
  BY <1>0 DEF Task
<1>5. ASSUME Failed(j) PROVE exec' = [exec EXCEPT ![j] = NoExec] /\ Queued(j, NoExec)
  BY <1>0, <1>3, <1>4, <1>5, Zenon DEF Failed, Queued, NoExec
<1> QED BY <1>1, <1>2, <1>3, <1>5

\* An attempt that goes on and remembers another directory (Detect, Building).
LEMMA Looks ==
  ASSUME Types, NEW j \in Jobs, NEW pc \in PCs, NEW n \in 0..Len(Sources),
         exec' = [exec EXCEPT ![j].pc = pc, ![j].dir = n]
  PROVE  \E e \in Exec : /\ exec' = [exec EXCEPT ![j] = e] /\ e.pc = pc /\ e.id = exec[j].id
                         /\ e.dir = n /\ e.cause = exec[j].cause
<1>1. exec[j] \in Exec /\ exec \in [Jobs -> Exec]
  BY DEF Types
<1>2. PICK e : e = [exec[j] EXCEPT !.pc = pc, !.dir = n]
  OBVIOUS
<1>3. e \in Exec /\ e.pc = pc /\ e.id = exec[j].id /\ e.dir = n /\ e.cause = exec[j].cause
  BY <1>1, <1>2, Zenon DEF Exec
<1>4. exec' = [exec EXCEPT ![j] = e]
  BY <1>1, <1>2, Zenon
<1> QED BY <1>3, <1>4, Zenon

\* UpdateStatus changes the status of the row, or nothing.
LEMMA StatusWrite ==
  ASSUME Types, NEW j \in Jobs, NEW status \in Status, UpdateStatus(j, status),
         builds[exec[j].id] # NoRow
  PROVE  \E row \in Row :
           /\ builds' = [builds EXCEPT ![exec[j].id] = row]
           /\ row.image = builds[exec[j].id].image /\ row.completed = builds[exec[j].id].completed
           /\ \/ row = builds[exec[j].id] /\ faults' = faults + 1
              \/ row.status = status /\ faults' = faults
           /\ faults' \in 0..MaxFaults
<1>1. PICK b : b = exec[j].id
  OBVIOUS
<1>2. b \in BuildIDs /\ builds[b] \in Row /\ builds \in [BuildIDs -> Row \cup {NoRow}]
  BY <1>1 DEF Types, Exec
<1>3. CASE builds' = [builds EXCEPT ![exec[j].id].status = status] /\ UNCHANGED faults
  <2>1. PICK row : row = [builds[b] EXCEPT !.status = status]
    BY Zenon
  <2>2. row \in Row /\ row.image = builds[b].image /\ row.completed = builds[b].completed
        /\ row.status = status
    BY <1>2, <2>1 DEF Row
  <2>3. builds' = [builds EXCEPT ![b] = row]
    BY <1>1, <1>3, <2>1
  <2> QED BY <1>1, <1>3, <2>2, <2>3, Zenon DEF Types
<1>4. CASE Fault /\ UNCHANGED builds
  <2>1. builds' = [builds EXCEPT ![b] = builds[b]]
    BY <1>2, <1>4
  <2>2. faults' = faults + 1 /\ faults' \in 0..MaxFaults
    BY <1>4, ConstantsAssumption DEF Fault, Types
  <2> QED BY <1>1, <1>2, <2>1, <2>2, Zenon
<1> QED BY <1>3, <1>4 DEF UpdateStatus

\* A step that leaves the task alone.
LEMMA Stays ==
  ASSUME Inv, NEW j \in Jobs, exec[j].pc # "idle", task' = task
  PROVE  \A e : Queued(j, e)
<1>1. task[j] \in Task /\ task[j].state = "active" /\ task = [task EXCEPT ![j] = task[j]]
  BY DEF Inv, Types
<1> QED BY <1>1 DEF Queued

\* A row has one of the statuses.
LEMMA RowStatus ==
  ASSUME NEW row \in Row
  PROVE  /\ row # NoRow
         /\ row.status \in {"CLONING", "DETECTING", "GENERATING", "BUILDING", "SUCCEEDED", "FAILED"}
<1>1. row.status \in {"CLONING", "DETECTING", "GENERATING", "BUILDING", "SUCCEEDED", "FAILED"}
  BY DEF Row, Status, Statuses, Terminal
<1>2. NoRow.status = "none"
  BY DEF NoRow
<1> QED BY <1>1, <1>2

\* What the invariant says of attempt j.
LEMMA Before ==
  ASSUME Inv, NEW j \in Jobs, NEW b, b = exec[j].id
  PROVE  /\ Types /\ b \in BuildIDs /\ builds[b] \in Row \cup {NoRow} /\ kaniko[b] \in Kaniko
         /\ builds = [builds EXCEPT ![b] = builds[b]] /\ kaniko = [kaniko EXCEPT ![b] = kaniko[b]]
         /\ RowOK(builds[b], kaniko[b], b \in cut)
         /\ Working(exec[j]) => /\ Fits(exec[j], builds[b], kaniko[b], b \in cut)
                                /\ builds[b] \in Row
                                /\ kaniko[b] = "running" => exec[j].pc = "poll" \/ b \in cut
<1>1. Types /\ b \in BuildIDs /\ builds[b] \in Row \cup {NoRow} /\ kaniko[b] \in Kaniko
  BY DEF Inv, Types, Exec
<1>2. builds = [builds EXCEPT ![b] = builds[b]] /\ kaniko = [kaniko EXCEPT ![b] = kaniko[b]]
  BY <1>1 DEF Types
<1>3. ASSUME Working(exec[j]), kaniko[b] = "running", b \notin cut PROVE exec[j].pc = "poll"
  <2>1. PICK i \in Jobs : exec[i].pc = "poll" /\ exec[i].id = b
    BY <1>1, <1>3 DEF Inv, NoOrphanJob, At
  <2> QED BY <1>3, <2>1 DEF Inv, OneWriter, Working
<1>4. Working(exec[j]) => Fits(exec[j], builds[b], kaniko[b], b \in cut)
  BY DEF Inv
<1>5. RowOK(builds[b], kaniko[b], b \in cut)
  BY <1>1 DEF Inv
<1> QED BY <1>1, <1>2, <1>3, <1>4, <1>5 DEF Fits

\* The row that Create inserts.
LEMMA NewRow ==
  ASSUME NEW row, row = [NoRow EXCEPT !.status = "CLONING"]
  PROVE  row \in Row /\ row # NoRow /\ row.status = "CLONING" /\ ~row.image
<1>1. row = [status |-> "CLONING", image |-> FALSE, completed |-> FALSE]
  BY Zenon DEF NoRow
<1>2. "CLONING" \in Status
  BY DEF Status, Statuses
<1>3. [status |-> "CLONING", image |-> FALSE, completed |-> FALSE] \in Row
  BY <1>2 DEF Row
<1>4. row.status = "CLONING" /\ NoRow.status = "none"
  BY <1>1 DEF NoRow
<1>5. ~row.image
  BY <1>1
<1> QED BY <1>1, <1>3, <1>4, <1>5, Zenon

\* INSERT, and its errors.
LEMMA CreateStep ==
  ASSUME Inv, NEW j \in Jobs, Create(j) \/ CreateFails(j)
  PROVE  Inv' /\ Forward
<1>1. PICK b : b = exec[j].id
  OBVIOUS
<1>2. PICK row : row = [NoRow EXCEPT !.status = "CLONING"]
  BY Zenon
<1>3. row \in Row /\ row # NoRow /\ row.status = "CLONING" /\ ~row.image
  BY <1>2, NewRow, Zenon
<1>4. /\ Types /\ b \in BuildIDs /\ builds = [builds EXCEPT ![b] = builds[b]]
      /\ kaniko[b] \in Kaniko /\ kaniko = [kaniko EXCEPT ![b] = kaniko[b]]
      /\ RowOK(builds[b], kaniko[b], b \in cut) /\ exec[j].pc = "create" /\ ~Working(exec[j])
  BY <1>1, Before DEF Create, CreateFails, At, Working
<1>5. CASE builds[b] = NoRow
  <2>1. kaniko[b] = "none"
    BY <1>4, <1>5 DEF RowOK
  <2>2. RowOK(row, "none", b \in cut') /\ RowOK(NoRow, "none", b \in cut')
    <3>1. RowOK(row, "none", b \in cut')
      BY <1>3 DEF RowOK
    <3>2. RowOK(NoRow, "none", b \in cut')
      BY DEF RowOK, NoRow
    <3> QED BY <3>1, <3>2
  <2>3. Advances(NoRow.status, row.status) /\ Advances(NoRow.status, NoRow.status)
    <3>1. NoRow.status = "none"
      BY DEF NoRow
    <3> QED BY <1>3, <3>1 DEF Advances, Rank, Terminal
  <2>4. CASE Create(j)
    <3>1. /\ builds' = [builds EXCEPT ![b] = row] /\ Goto(j, "detect")
          /\ UNCHANGED <<now, task, kaniko, faults, cut>>
      BY <1>1, <1>2, <1>5, <2>4 DEF Create
    <3>2. PICK e \in Exec : exec' = [exec EXCEPT ![j] = e] /\ e.pc = "detect" /\ e.id = b
      BY <1>1, <1>4, <3>1, Moves DEF PCs
    <3>3. Working(e) /\ Fits(e, row, "none", b \in cut')
      BY <1>3, <3>2 DEF Working, Fits, Terminal
    <3>4. Queued(j, e) /\ faults' \in 0..MaxFaults
      BY <1>4, <3>1, Stays DEF Types
    <3> QED BY <1>1, <1>3, <1>4, <1>5, <2>1, <2>2, <2>3, <3>1, <3>2, <3>3, <3>4, JobStep, Zenon
  <2>5. CASE CreateFails(j)
    <3>1. /\ builds' = [builds EXCEPT ![b] = NoRow] \/ builds' = [builds EXCEPT ![b] = row]
          /\ Fault /\ cut' = cut \cup {b} /\ Failed(j) /\ UNCHANGED <<now, kaniko>>
      BY <1>1, <1>2, <1>4, <1>5, <2>5 DEF CreateFails, Cut
    <3>2. exec' = [exec EXCEPT ![j] = NoExec] /\ Queued(j, NoExec)
      BY <1>4, <3>1, Moves
    <3>3. faults' \in 0..MaxFaults
      BY <1>4, <3>1, ConstantsAssumption DEF Fault, Types
    <3> QED BY <1>1, <1>3, <1>4, <1>5, <2>1, <2>2, <2>3, <3>1, <3>2, <3>3, Constant, JobStep, Zenon
  <2> QED BY <2>4, <2>5
<1>6. CASE builds[b] # NoRow
  <2>1. Failed(j) /\ UNCHANGED <<now, builds, kaniko, faults, cut>>
    BY <1>1, <1>6 DEF Create, CreateFails
  <2> QED BY <1>4, <2>1, Moves, Constant, IdleStep
<1> QED BY <1>5, <1>6

\* Detect, Generate and Building write the next status, or fail to, and go on.
LEMMA StatusStep ==
  ASSUME Inv, NEW j \in Jobs, Detect(j) \/ Generate(j) \/ Building(j)
  PROVE  Inv' /\ Forward
<1>1. PICK b : b = exec[j].id
  OBVIOUS
<1>2. exec[j].pc \in {"detect", "generate", "build"} /\ Working(exec[j])
  BY Zenon DEF Detect, Generate, Building, At, Working
<1>3. /\ Types /\ b \in BuildIDs /\ kaniko = [kaniko EXCEPT ![b] = kaniko[b]]
      /\ RowOK(builds[b], kaniko[b], b \in cut)
      /\ Fits(exec[j], builds[b], kaniko[b], b \in cut) /\ builds[b] \in Row
  BY <1>1, <1>2, Before
<1>4. kaniko[b] = "none" /\ ~builds[b].image /\ builds[b] # NoRow
  BY <1>2, <1>3 DEF Fits
<1>5. /\ UNCHANGED <<now, task, kaniko, cut>>
      /\ \/ /\ exec[j].pc = "detect" /\ UpdateStatus(j, "DETECTING")
            /\ \/ \E n \in DOMAIN Sources :
                    exec' = [exec EXCEPT ![j].pc = "generate", ![j].dir = n]
               \/ FailWith(j, "detection")
         \/ /\ exec[j].pc = "generate" /\ UpdateStatus(j, "GENERATING")
            /\ Goto(j, "build") \/ FailWith(j, "dockerfile")
         \/ /\ exec[j].pc = "build" /\ UpdateStatus(j, "BUILDING")
            /\ exec' = [exec EXCEPT ![j].pc = "launch", ![j].dir = 0]
  BY Zenon DEF Detect, Generate, Building, At
<1>6. PICK status \in Status :
        /\ UpdateStatus(j, status)
        /\ \/ exec[j].pc = "detect" /\ status = "DETECTING"
           \/ exec[j].pc = "generate" /\ status = "GENERATING"
           \/ exec[j].pc = "build" /\ status = "BUILDING"
  BY <1>5 DEF Status, Statuses
<1>7. PICK row \in Row :
        /\ builds' = [builds EXCEPT ![b] = row] /\ row.image = builds[b].image
        /\ row = builds[b] \/ row.status = status
        /\ faults' \in 0..MaxFaults
  BY <1>1, <1>3, <1>4, <1>6, StatusWrite
<1>8. PICK e \in Exec :
        /\ exec' = [exec EXCEPT ![j] = e] /\ e.id = b
        /\ \/ e.pc = "fail"
           \/ exec[j].pc = "detect" /\ e.pc = "generate"
           \/ exec[j].pc = "generate" /\ e.pc = "build"
           \/ exec[j].pc = "build" /\ e.pc = "launch"
  <2>1. DOMAIN Sources \subseteq 0..Len(Sources) /\ 0 \in 0..Len(Sources)
    BY ConstantsAssumption
  <2>2. {"generate", "build", "launch"} \subseteq PCs /\ {"detection", "dockerfile"} \subseteq Causes
    BY DEF PCs, Causes
  <2>3. CASE exec[j].pc = "detect"
    <3>1. CASE FailWith(j, "detection")
      BY <1>1, <1>3, <2>2, <2>3, <3>1, Moves
    <3>2. ASSUME NEW n \in DOMAIN Sources, exec' = [exec EXCEPT ![j].pc = "generate", ![j].dir = n]
          PROVE  \E e \in Exec : exec' = [exec EXCEPT ![j] = e] /\ e.id = b /\ e.pc = "generate"
      <4>1. n \in 0..Len(Sources) /\ exec[j] \in Exec /\ exec \in [Jobs -> Exec]
        BY <1>3, <2>1 DEF Types
      <4>2. PICK e : e = [exec[j] EXCEPT !.pc = "generate", !.dir = n]
        OBVIOUS
      <4>3. e \in Exec /\ e.id = b /\ e.pc = "generate"
        BY <1>1, <2>2, <4>1, <4>2, Zenon DEF Exec
      <4>4. exec' = [exec EXCEPT ![j] = e]
        BY <3>2, <4>1, <4>2, Zenon
      <4> QED BY <4>3, <4>4, Zenon
    <3> QED BY <1>5, <2>3, <3>1, <3>2
  <2>4. CASE exec[j].pc = "generate"
    BY <1>1, <1>3, <1>5, <2>2, <2>4, Moves
  <2>5. CASE exec[j].pc = "build"
    BY <1>1, <1>3, <1>5, <2>1, <2>2, <2>5, Looks
  <2> QED BY <1>2, <2>3, <2>4, <2>5
<1>9. row.status \notin Terminal /\ row # NoRow /\ Advances(builds[b].status, row.status)
  BY <1>3, <1>6, <1>7 DEF Fits, Terminal, Advances, Rank, NoRow
<1>10. Working(e) /\ Fits(e, row, "none", b \in cut')
  BY <1>2, <1>3, <1>4, <1>6, <1>7, <1>8, <1>9 DEF Working, Fits
<1>11. RowOK(row, "none", b \in cut')
  BY <1>4, <1>7, <1>9 DEF RowOK, Terminal
<1>12. "none" \in Kaniko /\ now' = now /\ cut' = cut /\ kaniko' = [kaniko EXCEPT ![b] = "none"]
  BY <1>3, <1>4, <1>5 DEF Kaniko
<1>13. Queued(j, e)
  BY <1>2, <1>5, Stays, SMTT(30)
<1> QED BY <1>13, <1>1, <1>2, <1>7, <1>8, <1>9, <1>10, <1>11, <1>12, JobStep, Zenon

\* fileExists panics in Detect, once the status is written or not.
LEMMA PanicStep ==
  ASSUME Inv, NEW j \in Jobs, DetectPanics(j)
  PROVE  Inv' /\ Forward
<1>1. PICK b : b = exec[j].id
  OBVIOUS
<1>2. exec[j].pc = "detect" /\ Working(exec[j])
  BY DEF DetectPanics, At, Working
<1>3. /\ Types /\ b \in BuildIDs /\ kaniko[b] \in Kaniko /\ kaniko = [kaniko EXCEPT ![b] = kaniko[b]]
      /\ builds = [builds EXCEPT ![b] = builds[b]] /\ builds \in [BuildIDs -> Row \cup {NoRow}]
      /\ Fits(exec[j], builds[b], kaniko[b], b \in cut) /\ builds[b] \in Row
  BY <1>1, <1>2, Before DEF Types
<1>4. builds[b].status = "CLONING" /\ ~builds[b].image /\ kaniko[b] = "none"
  BY <1>2, <1>3 DEF Fits
<1>5. PICK row \in Row :
        /\ builds' = [builds EXCEPT ![b] = row] /\ row.image = builds[b].image
        /\ row = builds[b] \/ row.status = "DETECTING"
  <2>1. CASE builds' = [builds EXCEPT ![b].status = "DETECTING"]
    <3>1. PICK row : row = [builds[b] EXCEPT !.status = "DETECTING"]
      BY Zenon
    <3>2. row \in Row /\ row.image = builds[b].image /\ row.status = "DETECTING"
      BY <1>3, <3>1 DEF Row, Status, Statuses
    <3>3. builds' = [builds EXCEPT ![b] = row]
      BY <2>1, <3>1
    <3> QED BY <3>2, <3>3, Zenon
  <2>2. CASE UNCHANGED builds
    BY <1>3, <2>2
  <2> QED BY <1>1, <2>1, <2>2 DEF DetectPanics
<1>6. /\ faults' \in 0..MaxFaults /\ cut' = cut \cup {b} /\ now' = now
      /\ kaniko' = [kaniko EXCEPT ![b] = kaniko[b]]
  BY <1>1, <1>3, ConstantsAssumption DEF DetectPanics, Fault, Cut, Types
<1>7. exec' = [exec EXCEPT ![j] = NoExec] /\ Queued(j, NoExec)
  BY <1>3, Moves DEF DetectPanics
<1>8. RowOK(row, kaniko[b], b \in cut')
  <2>1. row # NoRow /\ row.status # "SUCCEEDED" /\ ~row.image
    BY <1>4, <1>5, RowStatus
  <2> QED BY <2>1 DEF RowOK
<1>9. Advances(builds[b].status, row.status)
  BY <1>4, <1>5, SMTT(30) DEF Advances, Rank, Terminal
<1> QED BY <1>1, <1>2, <1>3, <1>5, <1>6, <1>7, <1>8, <1>9, Constant, JobStep, Zenon

\* Launch and Poll leave the row alone, and may change the Kubernetes job.
LEMMA LaunchStep ==
  ASSUME Inv, NEW j \in Jobs, Launch(j) \/ LaunchFails(j) \/ Poll(j) \/ PollFails(j)
  PROVE  Inv' /\ Forward
<1>1. PICK b : b = exec[j].id
  OBVIOUS
<1>2. exec[j].pc \in {"launch", "poll"} /\ Working(exec[j])
  BY DEF Launch, LaunchFails, Poll, PollFails, At, Working
<1>3. /\ Types /\ b \in BuildIDs /\ kaniko[b] \in Kaniko /\ kaniko = [kaniko EXCEPT ![b] = kaniko[b]]
      /\ builds = [builds EXCEPT ![b] = builds[b]] /\ RowOK(builds[b], kaniko[b], b \in cut)
      /\ Fits(exec[j], builds[b], kaniko[b], b \in cut) /\ builds[b] \in Row
  BY <1>1, <1>2, Before
<1>4. /\ builds[b] # NoRow /\ builds[b].status \notin Terminal /\ ~builds[b].image
  BY <1>2, <1>3 DEF Fits
<1>5. /\ builds' = [builds EXCEPT ![b] = builds[b]] /\ now' = now /\ task' = task
      /\ \/ Launch(j) /\ faults' = faults
         \/ LaunchFails(j) /\ Fault
         \/ Poll(j) /\ faults' = faults
         \/ PollFails(j) /\ Fault
  BY <1>3 DEF Launch, LaunchFails, Poll, PollFails
<1>6. faults' \in 0..MaxFaults
  BY <1>3, <1>5, ConstantsAssumption DEF Fault, Types
<1>7. PICK k \in Kaniko :
        /\ kaniko' = [kaniko EXCEPT ![b] = k]
        /\ \/ /\ Goto(j, "poll") /\ k = "running" /\ cut' = cut
           \/ /\ FailWith(j, "other") /\ cut' = cut \cup {b}
           \/ /\ Goto(j, "imageRef") /\ k = "digest" /\ cut' = cut
           \/ /\ FailWith(j, "other") \/ FailWith(j, "kaniko")
              /\ k \in {"digest", "nodigest", "failed"} /\ cut' = cut
  <2>1. CASE Launch(j)
    BY <1>1, <2>1 DEF Launch, Kaniko
  <2>2. CASE LaunchFails(j)
    <3>1. kaniko' = kaniko \/ kaniko' = [kaniko EXCEPT ![b] = "running"]
      BY <1>1, <2>2 DEF LaunchFails
    <3>2. FailWith(j, "other") /\ cut' = cut \cup {b}
      BY <1>1, <2>2 DEF LaunchFails, Cut
    <3> QED BY <1>3, <3>1, <3>2 DEF Kaniko
  <2>3. CASE Poll(j)
    <3>1. /\ kaniko' = [kaniko EXCEPT ![b] = kaniko[b]] /\ cut' = cut
          /\ \/ kaniko[b] = "digest" /\ Goto(j, "imageRef")
             \/ kaniko[b] = "nodigest" /\ FailWith(j, "other")
             \/ kaniko[b] = "failed" /\ FailWith(j, "kaniko")
      BY <1>1, <1>3, <2>3 DEF Poll
    <3> QED BY <1>3, <3>1, Zenon
  <2>4. CASE PollFails(j)
    <3>1. /\ kaniko' = [kaniko EXCEPT ![b] = kaniko[b]] /\ cut' = cut
          /\ kaniko[b] \in {"digest", "nodigest"} /\ FailWith(j, "other")
      BY <1>1, <1>3, <2>4 DEF PollFails
    <3> QED BY <1>3, <3>1, Zenon
  <2> QED BY <2>1, <2>2, <2>3, <2>4
<1>8. PICK e \in Exec :
        /\ exec' = [exec EXCEPT ![j] = e] /\ e.id = b
        /\ \/ e.pc = "poll" /\ k = "running" /\ cut' = cut
           \/ e.pc = "fail" /\ cut' = cut \cup {b}
           \/ e.pc = "imageRef" /\ k = "digest" /\ cut' = cut
           \/ e.pc = "fail" /\ k \in {"digest", "nodigest", "failed"} /\ cut' = cut
  BY <1>1, <1>3, <1>7, Moves DEF PCs, Causes
<1>9. Working(e) /\ Fits(e, builds[b], k, b \in cut')
  BY <1>4, <1>8 DEF Working, Fits
<1>10. RowOK(builds[b], k, b \in cut')
  BY <1>4 DEF RowOK, Terminal
<1>11. /\ cut' = cut \/ cut' = cut \cup {b}
       /\ k # "running" \/ e.pc = "poll" \/ b \in cut'
       /\ Advances(builds[b].status, builds[b].status) /\ Queued(j, e)
  BY <1>2, <1>5, <1>8, Stays, SMTT(30) DEF Advances
<1> QED BY <1>1, <1>2, <1>3, <1>5, <1>6, <1>7, <1>8, <1>9, <1>10, <1>11, JobStep, Zenon

\* failBuild, UpdateImageRef and MarkCompleted, and the loss of their writes.
LEMMA FailStep ==
  ASSUME Inv, NEW j \in Jobs, FailBuild(j)
  PROVE  Inv' /\ Forward
<1>1. PICK b : b = exec[j].id
  OBVIOUS
<1>2. exec[j].pc = "fail" /\ Working(exec[j])
  BY DEF FailBuild, At, Working
<1>3. /\ Types /\ b \in BuildIDs /\ kaniko[b] \in Kaniko /\ kaniko = [kaniko EXCEPT ![b] = kaniko[b]]
      /\ RowOK(builds[b], kaniko[b], b \in cut) /\ (kaniko[b] = "running" => b \in cut)
      /\ Fits(exec[j], builds[b], kaniko[b], b \in cut) /\ builds[b] \in Row
  BY <1>1, <1>2, Before
<1>4. /\ builds[b] # NoRow /\ builds[b].status \notin Terminal /\ ~builds[b].image
  BY <1>2, <1>3 DEF Fits
<1>5. /\ UpdateStatus(j, "FAILED") /\ Failed(j) /\ now' = now
      /\ kaniko' = [kaniko EXCEPT ![b] = kaniko[b]]
      /\ IF faults' > faults THEN cut' = cut \cup {b} ELSE cut' = cut
  BY <1>1, <1>3 DEF FailBuild, Cut
<1>6. PICK row \in Row :
        /\ builds' = [builds EXCEPT ![b] = row] /\ row.image = builds[b].image
        /\ \/ row = builds[b] /\ faults' = faults + 1
           \/ row.status = "FAILED" /\ faults' = faults
        /\ faults' \in 0..MaxFaults
  BY <1>1, <1>3, <1>4, <1>5, StatusWrite DEF Status, Terminal
<1>7. exec' = [exec EXCEPT ![j] = NoExec] /\ Queued(j, NoExec)
  BY <1>3, <1>5, Moves
<1>8. faults \in Nat
  BY <1>3, ConstantsAssumption DEF Types
<1>9. row.status \in Terminal \/ b \in cut'
  BY <1>5, <1>6, <1>8 DEF Terminal
<1>10. RowOK(row, kaniko[b], b \in cut')
  <2>1. row # NoRow
    BY <1>6, RowStatus
  <2>2. row.status # "SUCCEEDED" /\ ~row.image
    BY <1>4, <1>6 DEF Terminal
  <2> QED BY <2>1, <2>2 DEF RowOK
<1>11. Advances(builds[b].status, row.status)
  BY <1>3, <1>4, <1>6 DEF Advances, Rank, Terminal, Row, Status, Statuses
<1>12. cut' = cut \/ cut' = cut \cup {b}
  BY <1>5
<1>13. kaniko[b] # "running" \/ b \in cut'
  BY <1>3, <1>12, SMTT(30)
<1> QED BY <1>1, <1>2, <1>3, <1>5, <1>6, <1>7, <1>9, <1>10, <1>11, <1>12, <1>13, Constant, JobStep, Zenon

\* UpdateImageRef, whose error is dropped.
LEMMA ImageStep ==
  ASSUME Inv, NEW j \in Jobs, UpdateImageRef(j)
  PROVE  Inv' /\ Forward
<1>1. PICK b : b = exec[j].id
  OBVIOUS
<1>2. exec[j].pc = "imageRef" /\ Working(exec[j])
  BY DEF UpdateImageRef, At, Working
<1>3. /\ Types /\ b \in BuildIDs /\ kaniko[b] \in Kaniko /\ kaniko = [kaniko EXCEPT ![b] = kaniko[b]]
      /\ builds = [builds EXCEPT ![b] = builds[b]]
      /\ Fits(exec[j], builds[b], kaniko[b], b \in cut) /\ builds[b] \in Row
  BY <1>1, <1>2, Before
<1>4. builds[b].status \notin Terminal /\ kaniko[b] \in {"digest", "gone"}
  BY <1>2, <1>3 DEF Fits
<1>5. PICK row \in Row :
        /\ builds' = [builds EXCEPT ![b] = row] /\ row.status = builds[b].status
        /\ \/ row.image /\ cut' = cut
           \/ row = builds[b] /\ cut' = cut \cup {b}
        /\ faults' \in 0..MaxFaults
  <2>1. CASE builds' = [builds EXCEPT ![b].image = TRUE] /\ UNCHANGED <<faults, cut>>
    <3>1. PICK row : row = [builds[b] EXCEPT !.image = TRUE]
      BY Zenon
    <3>2. row \in Row /\ row.status = builds[b].status
      BY <1>3, <3>1, Zenon DEF Row
    <3>3. row.image
      BY <1>3, <3>1 DEF Row
    <3>4. builds' = [builds EXCEPT ![b] = row]
      BY <2>1, <3>1
    <3> QED BY <1>3, <2>1, <3>2, <3>3, <3>4, Zenon DEF Types
  <2>2. CASE Fault /\ Cut(j) /\ UNCHANGED builds
    <3>1. faults' \in 0..MaxFaults
      BY <1>3, <2>2, ConstantsAssumption DEF Fault, Types
    <3> QED BY <1>1, <1>3, <2>2, <3>1 DEF Cut
  <2> QED BY <1>1, <2>1, <2>2 DEF UpdateImageRef
<1>6. Goto(j, "complete") /\ UNCHANGED <<now, task, kaniko>>
  BY DEF UpdateImageRef
<1>7. PICK e \in Exec : exec' = [exec EXCEPT ![j] = e] /\ e.pc = "complete" /\ e.id = b
  BY <1>1, <1>3, <1>6, Moves DEF PCs
<1>8. row # NoRow /\ row.status \notin Terminal
  BY <1>4, <1>5, RowStatus
<1>9. Working(e) /\ Fits(e, row, kaniko[b], b \in cut')
  BY <1>4, <1>5, <1>7, <1>8 DEF Working, Fits
<1>10. RowOK(row, kaniko[b], b \in cut')
  BY <1>4, <1>8 DEF RowOK, Terminal
<1>11. /\ cut' = cut \/ cut' = cut \cup {b}
       /\ kaniko[b] # "running" /\ Advances(builds[b].status, row.status)
       /\ Queued(j, e) /\ kaniko' = [kaniko EXCEPT ![b] = kaniko[b]]
  BY <1>2, <1>3, <1>4, <1>5, <1>6, Stays DEF Advances
<1> QED BY <1>1, <1>2, <1>3, <1>5, <1>6, <1>7, <1>9, <1>10, <1>11, JobStep, Zenon

\* MarkCompleted, whose error is dropped too.
LEMMA CompleteStep ==
  ASSUME Inv, NEW j \in Jobs, MarkCompleted(j)
  PROVE  Inv' /\ Forward
<1>1. PICK b : b = exec[j].id
  OBVIOUS
<1>2. exec[j].pc = "complete" /\ Working(exec[j])
  BY DEF MarkCompleted, At, Working
<1>3. /\ Types /\ b \in BuildIDs /\ kaniko[b] \in Kaniko /\ kaniko = [kaniko EXCEPT ![b] = kaniko[b]]
      /\ builds = [builds EXCEPT ![b] = builds[b]] /\ RowOK(builds[b], kaniko[b], b \in cut)
      /\ Fits(exec[j], builds[b], kaniko[b], b \in cut) /\ builds[b] \in Row
  BY <1>1, <1>2, Before
<1>4. /\ builds[b].status \notin Terminal /\ kaniko[b] \in {"digest", "gone"}
      /\ builds[b].image \/ b \in cut
  BY <1>2, <1>3 DEF Fits
<1>5. /\ exec' = [exec EXCEPT ![j] = NoExec] /\ UNCHANGED <<now, kaniko>>
      /\ task' = [task EXCEPT ![j].state = "done"]
  BY DEF MarkCompleted
<1>6. Queued(j, NoExec)
  <2>1. task[j] \in Task
    BY <1>3 DEF Types
  <2>2. [task[j] EXCEPT !.state = "done"] \in Task
    BY <2>1 DEF Task
  <2>3. task' = [task EXCEPT ![j] = [task[j] EXCEPT !.state = "done"]]
    BY <1>5
  <2> QED BY <2>2, <2>3, Zenon DEF Queued, NoExec
<1>7. CASE builds' = [builds EXCEPT ![b].status = "SUCCEEDED", ![b].completed = TRUE]
           /\ UNCHANGED <<faults, cut>>
  <2>1. PICK row : row = [builds[b] EXCEPT !.status = "SUCCEEDED", !.completed = TRUE]
    OBVIOUS
  <2>2. row \in Row /\ row.status = "SUCCEEDED"
    BY <1>3, <2>1, Zenon DEF Row, Status, Terminal
  <2>3. row.completed
    BY <1>3, <2>1 DEF Row
  <2>4. row.image = builds[b].image
    BY <1>3, <2>1 DEF Row
  <2>5. builds' = [builds EXCEPT ![b] = row]
    BY <1>3, <1>7, <2>1, Zenon DEF Types
  <2>6. RowOK(row, kaniko[b], b \in cut')
    BY <1>4, <1>7, <2>2, <2>3, <2>4, RowStatus DEF RowOK
  <2>7. Advances(builds[b].status, row.status)
    BY <1>3, <1>4, <2>2, RowStatus DEF Advances, Rank, Terminal
  <2>8. faults' \in 0..MaxFaults
    BY <1>3, <1>7 DEF Types
  <2> QED BY <1>1, <1>2, <1>3, <1>4, <1>5, <1>6, <1>7, <2>2, <2>5, <2>6, <2>7, <2>8, Constant, JobStep, Zenon
             DEF Terminal
<1>8. CASE Fault /\ Cut(j) /\ UNCHANGED builds
  <2>1. faults' \in 0..MaxFaults
    BY <1>3, <1>8, ConstantsAssumption DEF Fault, Types
  <2>2. cut' = cut \cup {b}
    BY <1>1, <1>8 DEF Cut
  <2>3. RowOK(builds[b], kaniko[b], b \in cut') /\ Advances(builds[b].status, builds[b].status)
    BY <1>3, <2>2 DEF RowOK, Advances
  <2> QED BY <1>1, <1>2, <1>3, <1>4, <1>5, <1>6, <1>8, <2>1, <2>2, <2>3, Constant, JobStep, Zenon
<1> QED BY <1>1, <1>7, <1>8 DEF MarkCompleted

\* An attempt starts, panics, or is given up by the queue.
LEMMA QueueStep ==
  ASSUME Inv, NEW j \in Jobs, Start(j) \/ Panic(j) \/ Abandon(j)
  PROVE  Inv' /\ Forward
<1>1. PICK b : b = exec[j].id
  OBVIOUS
<1>2. /\ Types /\ b \in BuildIDs /\ builds[b] \in Row \cup {NoRow} /\ kaniko[b] \in Kaniko
      /\ builds = [builds EXCEPT ![b] = builds[b]] /\ kaniko = [kaniko EXCEPT ![b] = kaniko[b]]
      /\ RowOK(builds[b], kaniko[b], b \in cut)
  BY <1>1, Before
<1>3. ASSUME Working(exec[j]), exec' = [exec EXCEPT ![j] = NoExec], Queued(j, NoExec),
             cut' = cut \cup {b}, UNCHANGED <<now, builds, kaniko, faults>>
      PROVE  Inv' /\ Forward
  <2>1. RowOK(builds[b], kaniko[b], b \in cut') /\ Advances(builds[b].status, builds[b].status)
    BY <1>2, <1>3 DEF RowOK, Advances
  <2>2. faults' \in 0..MaxFaults
    BY <1>2, <1>3 DEF Types
  <2> QED BY <1>1, <1>2, <1>3, <2>1, <2>2, Constant, JobStep, Zenon
<1>4. CASE Panic(j)
  <2>1. Working(exec[j]) /\ Failed(j) /\ cut' = cut \cup {b} /\ UNCHANGED <<now, builds, kaniko, faults>>
    BY <1>1, <1>4 DEF Panic, Cut, At, Working
  <2> QED BY <1>2, <1>3, <2>1, Moves
<1>5. CASE Abandon(j)
  <2>1. /\ exec[j].pc # "idle" /\ task' = [task EXCEPT ![j] = Retry(j)]
        /\ exec' = [exec EXCEPT ![j] = NoExec] /\ UNCHANGED <<now, builds, kaniko, faults>>
        /\ IF exec[j].pc = "create" THEN UNCHANGED cut ELSE cut' = cut \cup {b}
    BY <1>1, <1>5 DEF Abandon, Cut, At
  <2>2. Queued(j, NoExec)
    BY <1>2, <2>1, Moves, Zenon DEF Queued, NoExec
  <2>3. CASE exec[j].pc = "create"
    BY <2>1, <2>2, <2>3, Constant, IdleStep, Zenon DEF Working
  <2>4. CASE exec[j].pc # "create"
    BY <1>3, <2>1, <2>2, <2>4 DEF Working
  <2> QED BY <2>3, <2>4
<1>6. CASE Start(j)
  <2>1. PICK e : e = [NoExec EXCEPT !.pc = "create", !.id = now]
    OBVIOUS
  <2>2. e \in Exec /\ e.pc = "create"
    BY <1>2, <2>1, Constant, Zenon DEF Types, Exec, PCs, NoExec
  <2>3. exec' = [exec EXCEPT ![j] = e] /\ UNCHANGED <<now, builds, kaniko, faults, cut>>
    BY <1>6, <2>1 DEF Start
  <2>4. Queued(j, e)
    <3>1. task[j] \in Task
      BY <1>2 DEF Types
    <3>2. [task[j] EXCEPT !.state = "active"] \in Task
          /\ [task[j] EXCEPT !.state = "active"].state = "active"
      BY <3>1 DEF Task
    <3>3. task' = [task EXCEPT ![j] = [task[j] EXCEPT !.state = "active"]]
      BY <1>6 DEF Start
    <3> QED BY <3>2, <3>3, Zenon DEF Queued
  <2>5. exec[j].pc = "idle"
    BY <1>6 DEF Start, Inv
  <2> QED BY <2>2, <2>3, <2>4, <2>5, IdleStep, Zenon DEF Working
<1> QED BY <1>4, <1>5, <1>6

\* The Kubernetes job of b ends, or is deleted once it has ended.
LEMMA KanikoStep ==
  ASSUME Inv, NEW b \in BuildIDs, KanikoEnds(b) \/ KanikoExpires(b)
  PROVE  Inv' /\ Forward
<1>1. /\ UNCHANGED <<now, task, exec, builds, faults, cut>> /\ Types
      /\ \/ kaniko[b] = "running"
         \/ kaniko[b] \in {"failed", "digest", "nodigest"}
  BY DEF KanikoEnds, KanikoExpires, Inv
<1>2. PICK k \in {"failed", "digest", "nodigest", "gone"} :
        kaniko' = [kaniko EXCEPT ![b] = k] /\ (kaniko[b] # "running" => k = "gone")
  BY DEF KanikoEnds, KanikoExpires
<1>3. kaniko'[b] = k /\ \A c \in BuildIDs \ {b} : kaniko'[c] = kaniko[c]
  BY <1>1, <1>2 DEF Types
<1>4. Types'
  BY <1>1, <1>2 DEF Types, Kaniko
<1>5. (\A i \in Jobs : LET c == exec[i].id
                       IN  Working(exec[i]) => Fits(exec[i], builds[c], kaniko[c], c \in cut))'
  <2> SUFFICES ASSUME NEW i \in Jobs, Working(exec[i])
               PROVE  Fits(exec[i], builds[exec[i].id], kaniko'[exec[i].id], exec[i].id \in cut)
    BY <1>1 DEF Fits, Working
  <2>1. Fits(exec[i], builds[exec[i].id], kaniko[exec[i].id], exec[i].id \in cut)
        /\ exec[i].id \in BuildIDs
    BY DEF Inv, Types, Exec
  <2>2. CASE exec[i].id = b
    BY <1>1, <1>2, <1>3, <2>1, <2>2 DEF Fits
  <2>3. CASE exec[i].id # b
    BY <1>3, <2>1, <2>3
  <2> QED BY <2>2, <2>3
<1>6. (\A c \in BuildIDs : RowOK(builds[c], kaniko[c], c \in cut))'
  <2> SUFFICES ASSUME NEW c \in BuildIDs PROVE RowOK(builds[c], kaniko'[c], c \in cut)
    BY <1>1 DEF RowOK
  <2>1. RowOK(builds[c], kaniko[c], c \in cut)
    BY DEF Inv
  <2>2. CASE c = b
    BY <1>1, <1>2, <1>3, <2>1, <2>2 DEF RowOK
  <2>3. CASE c # b
    BY <1>3, <2>1, <2>3
  <2> QED BY <2>2, <2>3
<1>7. OneWriter' /\ EndedIsTerminal'
  BY <1>1, SMTT(30) DEF Inv, OneWriter, EndedIsTerminal
<1>8. NoOrphanJob'
  BY <1>1, <1>2, <1>3 DEF Inv, NoOrphanJob, At
<1>9. (\A i \in Jobs : exec[i].pc # "idle" => task[i].state = "active")' /\ Forward
  BY <1>1, SMTT(30) DEF Inv, Forward
<1> QED BY <1>4, <1>5, <1>6, <1>7, <1>8, <1>9 DEF Inv

\* The clock, and steps that change nothing.
LEMMA OtherStep ==
  ASSUME Inv, Tick \/ UNCHANGED vars
  PROVE  Inv' /\ Forward
<1>1. UNCHANGED <<task, exec, builds, kaniko, faults, cut>> /\ now' \in BuildIDs
  BY ConstantsAssumption DEF Tick, vars, Inv, Types, BuildIDs
<1>2. Types' /\ Forward
  BY <1>1, SMTT(30) DEF Inv, Types, Forward
<1>3. (\A i \in Jobs : LET c == exec[i].id
                       IN  Working(exec[i]) => Fits(exec[i], builds[c], kaniko[c], c \in cut))'
  BY <1>1, ZenonT(60) DEF Inv, Working, Fits
<1>4. (\A c \in BuildIDs : RowOK(builds[c], kaniko[c], c \in cut))'
  BY <1>1, ZenonT(60) DEF Inv, RowOK
<1>5. OneWriter' /\ EndedIsTerminal' /\ NoOrphanJob'
  BY <1>1 DEF Inv, OneWriter, EndedIsTerminal, NoOrphanJob, At
<1>6. (\A i \in Jobs : exec[i].pc # "idle" => task[i].state = "active")'
  BY <1>1 DEF Inv
<1> QED BY <1>2, <1>3, <1>4, <1>5, <1>6 DEF Inv

-----------------------------------------------------------------------------
(* Theorems.                                                               *)

\* Every step of the pipeline keeps the invariant and moves statuses forward.
THEOREM NextInv == Inv /\ [Next]_vars => Inv' /\ Forward
<1> SUFFICES ASSUME Inv, [Next]_vars PROVE Inv' /\ Forward
  OBVIOUS
<1>1. ASSUME NEW j \in Jobs, Start(j) \/ Work(j) \/ Abandon(j) PROVE Inv' /\ Forward
  BY <1>1, CreateStep, StatusStep, PanicStep, LaunchStep, FailStep, ImageStep, CompleteStep, QueueStep DEF Work
<1>2. ASSUME NEW b \in BuildIDs, KanikoEnds(b) \/ KanikoExpires(b) PROVE Inv' /\ Forward
  BY <1>2, KanikoStep
<1>3. CASE Tick \/ Terminating \/ UNCHANGED vars
  BY <1>3, OtherStep DEF Terminating
<1> QED BY <1>1, <1>2, <1>3 DEF Next

\* The invariant holds in every state the pipeline reaches.
THEOREM Invariance == Spec => []Inv
  BY InitInv, NextInv, PTL DEF Spec

\* The variables of the pipeline keep their types: no task is retried more often than
\* asynq.MaxRetry allows, and build IDs are seconds of the clock.
THEOREM TypeCorrect == Spec => []TypeOK
<1>1. Inv => TypeOK
  BY DEF Inv, Types, TypeOK, Task, Exec
<1> QED BY <1>1, Invariance, PTL

\* Two attempts never write one row of builds (Create relies on the primary key).
THEOREM RowsHaveOneWriter == Spec => []OneWriter
  BY Invariance, PTL DEF Inv

\* A row says SUCCEEDED or names an image only after its own Kubernetes job has
\* reported a digest, and it is complete when it says so and no write of it was
\* refused.
THEOREM SuccessIsPushed == Spec => []SucceededMeansPushed
<1>1. Inv => SucceededMeansPushed
  BY DEF Inv, RowOK, SucceededMeansPushed
<1> QED  BY <1>1, Invariance, PTL

\* Only an attempt that was cut short leaves a row unfinished (failBuild).
THEOREM EndedRowsAreTerminal == Spec => []EndedIsTerminal
  BY Invariance, PTL DEF Inv

\* Only an attempt that was cut short leaves a Kubernetes job unwatched (Launch).
THEOREM JobsAreWatched == Spec => []NoOrphanJob
  BY Invariance, PTL DEF Inv

\* Statuses only advance, and a terminal one is final (UpdateStatus, MarkCompleted).
THEOREM StatusesAdvance == Spec => StatusForward
<1>1. Inv /\ [Next]_vars => [Forward]_vars
  BY NextInv
<1> QED BY <1>1, Invariance, PTL DEF Spec, StatusForward, Forward

-----------------------------------------------------------------------------
(* Source directories.                                                     *)

\* A directory for which the generation of a Dockerfile may fail.
Excused(s) == \A f \in Manifests : fileExists(s, f) => \E g \in DOMAIN s : s[g] = "odd"

\* Whatever file of Manifests a directory holds, Detect knows what to build.
LEMMA KnownIsFound ==
  ASSUME NEW s, NEW f \in Manifests, fileExists(s, f)
  PROVE  Detected(s).hasDockerfile \/ Detected(s).language \in Templates
BY DEF Manifests, Detected, Templates, Result, Go, Node, Python, Java, Ruby, Rust, Dotnet, fileExists

\* An odd version comes out of a file.
LEMMA OddIsRead ==
  ASSUME NEW s, Detected(s).version = "odd"
  PROVE  \E g \in DOMAIN s : s[g] = "odd"
BY DEF Detected, Result, Go, Node, Python, Java, Ruby, Rust, Dotnet, ReadFile, fileExists

\* What attempt e remembers of its directory.
DirOK(e) ==
  /\ e.pc # "fail" => e.cause = "none"
  /\ e.pc = "generate" => e.dir \in DOMAIN Sources
  /\ e.cause = "dockerfile" => Excused(Sources[e.dir])

Dirs == \A j \in Jobs : DirOK(exec[j])

\* Nobody has read a directory at first.
LEMMA DirsInit == Init => Dirs
  BY DEF Init, Dirs, DirOK, NoExec

\* A step of attempt j that leaves it as e.
LEMMA DirStep ==
  ASSUME Types, Dirs, NEW j \in Jobs, NEW e, exec' = [exec EXCEPT ![j] = e], DirOK(e)
  PROVE  Dirs'
<1>1. \A i \in Jobs : exec'[i] = IF i = j THEN e ELSE exec[i]
  BY DEF Types
<1>2. \A i \in Jobs : DirOK(exec'[i])
  BY <1>1 DEF Dirs
<1> QED BY <1>2 DEF Dirs, DirOK

\* ProcessTask returns and forgets the directory.
LEMMA DirEnds ==
  ASSUME Types, Dirs, NEW j \in Jobs, exec' = [exec EXCEPT ![j] = NoExec]
  PROVE  Dirs'
<1>1. DirOK(NoExec)
  BY DEF DirOK, NoExec
<1> QED BY <1>1, DirStep, Zenon

\* An attempt that has not failed goes on, past the detection.
LEMMA DirGoesOn ==
  ASSUME Types, Dirs, NEW j \in Jobs, NEW pc \in PCs \ {"generate"}, Goto(j, pc),
         exec[j].pc # "fail"
  PROVE  Dirs'
<1>1. PICK e : e = [exec[j] EXCEPT !.pc = pc]
  BY Zenon
<1>2. exec[j] \in Exec /\ DirOK(exec[j])
  BY DEF Types, Dirs
<1>3. e.pc = pc /\ e.cause = exec[j].cause
  BY <1>1, <1>2 DEF Exec
<1>4. DirOK(e)
  BY <1>2, <1>3 DEF DirOK
<1> QED BY <1>1, <1>4, DirStep, Zenon DEF Goto

\* An attempt fails for another reason than its Dockerfile.
LEMMA DirFails ==
  ASSUME Types, Dirs, NEW j \in Jobs, NEW cause \in Causes \ {"dockerfile"}, FailWith(j, cause)
  PROVE  Dirs'
<1>1. PICK e : e = [exec[j] EXCEPT !.pc = "fail", !.cause = cause]
  OBVIOUS
<1>2. exec[j] \in Exec
  BY DEF Types
<1>3. e.pc = "fail" /\ e.cause = cause
  BY <1>1, <1>2 DEF Exec
<1>4. DirOK(e)
  BY <1>3 DEF DirOK
<1> QED BY <1>1, <1>4, DirStep, Zenon DEF FailWith

\* Detect remembers the directory that it read, and Building forgets it.
LEMMA DirRead ==
  ASSUME Types, Dirs, NEW j \in Jobs, Detect(j) \/ Building(j)
  PROVE  Dirs'
<1>1. exec[j] \in Exec /\ exec \in [Jobs -> Exec] /\ DirOK(exec[j]) /\ exec[j].pc \in {"detect", "build"}
  BY DEF Types, Dirs, Detect, Building, At
<1>2. exec[j].cause = "none"
  BY <1>1 DEF DirOK
<1>3. CASE FailWith(j, "detection")
  BY <1>3, DirFails DEF Causes
<1>4. ASSUME NEW n \in DOMAIN Sources, exec' = [exec EXCEPT ![j].pc = "generate", ![j].dir = n]
      PROVE  Dirs'
  <2>1. PICK e : e = [exec[j] EXCEPT !.pc = "generate", !.dir = n]
    OBVIOUS
  <2>2. e.pc = "generate" /\ e.cause = "none" /\ e.dir = n
    BY <1>1, <1>2, <2>1 DEF Exec
  <2>3. DirOK(e)
    BY <1>4, <2>2 DEF DirOK
  <2>4. exec' = [exec EXCEPT ![j] = e]
    BY <1>1, <1>4, <2>1, Zenon
  <2> QED BY <2>3, <2>4, DirStep, Zenon
<1>5. CASE exec' = [exec EXCEPT ![j].pc = "launch", ![j].dir = 0]
  <2>1. PICK e : e = [exec[j] EXCEPT !.pc = "launch", !.dir = 0]
    OBVIOUS
  <2>2. e.pc = "launch" /\ e.cause = "none"
    BY <1>1, <1>2, <2>1 DEF Exec
  <2>3. DirOK(e)
    BY <2>2 DEF DirOK
  <2>4. exec' = [exec EXCEPT ![j] = e]
    BY <1>1, <1>5, <2>1, Zenon
  <2> QED BY <2>3, <2>4, DirStep, Zenon
<1> QED BY <1>3, <1>4, <1>5 DEF Detect, Building

\* Generate goes on, or fails for a directory that is excused.
LEMMA DirGenerated ==
  ASSUME Types, Dirs, NEW j \in Jobs, Generate(j)
  PROVE  Dirs'
<1>1. PICK s : s = Sources[exec[j].dir]
  OBVIOUS
<1>2. exec[j] \in Exec /\ DirOK(exec[j]) /\ exec[j].pc = "generate"
  BY DEF Types, Dirs, Generate, At
<1>3. CASE Goto(j, "build")
  BY <1>2, <1>3, DirGoesOn DEF PCs
<1>4. CASE FailWith(j, "dockerfile") /\ ~Detected(s).hasDockerfile /\ Generated(Detected(s), FALSE)
  <2>1. Excused(s)
    BY <1>4, KnownIsFound, OddIsRead DEF Generated, Excused
  <2>2. PICK e : e = [exec[j] EXCEPT !.pc = "fail", !.cause = "dockerfile"]
    OBVIOUS
  <2>3. e.pc = "fail" /\ e.dir = exec[j].dir
    BY <1>2, <2>2 DEF Exec
  <2>4. DirOK(e)
    BY <1>1, <2>1, <2>3 DEF DirOK
  <2> QED BY <1>4, <2>2, <2>4, DirStep, Zenon DEF FailWith
<1> QED BY <1>1, <1>3, <1>4, Zenon DEF Generate

\* Every other step forgets the directory or goes on without it.
LEMMA DirsStep ==
  ASSUME Types, Dirs, [Next]_vars
  PROVE  Dirs'
<1>1. ASSUME NEW j \in Jobs, Failed(j) \/ MarkCompleted(j) \/ Abandon(j) PROVE Dirs'
  BY <1>1, DirEnds DEF Failed, MarkCompleted, Abandon
<1>2. ASSUME NEW j \in Jobs, Start(j) PROVE Dirs'
  <2>1. PICK e : e = [NoExec EXCEPT !.pc = "create", !.id = now]
    OBVIOUS
  <2>2. DirOK(e)
    BY <2>1 DEF DirOK, NoExec
  <2> QED BY <1>2, <2>1, <2>2, DirStep, Zenon DEF Start
<1>3. ASSUME NEW j \in Jobs, Create(j) PROVE Dirs'
  BY <1>1, <1>3, DirGoesOn DEF Create, At, PCs
<1>4. ASSUME NEW j \in Jobs, Launch(j) \/ LaunchFails(j) \/ Poll(j) \/ PollFails(j) \/ UpdateImageRef(j)
      PROVE  Dirs'
  <2>1. exec[j].pc \in {"launch", "poll", "imageRef"}
    BY <1>4 DEF Launch, LaunchFails, Poll, PollFails, UpdateImageRef, At
  <2>2. \/ Goto(j, "poll") \/ Goto(j, "imageRef") \/ Goto(j, "complete")
        \/ FailWith(j, "other") \/ FailWith(j, "kaniko")
    BY <1>4 DEF Launch, LaunchFails, Poll, PollFails, UpdateImageRef
  <2>3. {"poll", "imageRef", "complete"} \subseteq PCs \ {"generate"}
        /\ {"other", "kaniko"} \subseteq Causes \ {"dockerfile"}
    BY DEF PCs, Causes
  <2> QED BY <2>1, <2>2, <2>3, DirGoesOn, DirFails
<1>5. ASSUME NEW j \in Jobs, Work(j) PROVE Dirs'
  BY <1>1, <1>3, <1>4, <1>5, DirRead, DirGenerated DEF Work, CreateFails, DetectPanics, Panic, FailBuild
<1>6. CASE UNCHANGED exec
  BY <1>6 DEF Dirs
<1> QED BY <1>1, <1>2, <1>5, <1>6
        DEF Next, KanikoEnds, KanikoExpires, Tick, Terminating, vars

\* What attempts remember of their directories is true of them.
LEMMA DirsInvariance == Spec => []Dirs
<1>1. Inv /\ Dirs /\ [Next]_vars => Dirs'
  BY DirsStep DEF Inv
<1> QED BY <1>1, DirsInit, Invariance, PTL DEF Spec

\* Detect and Generate agree on the languages, for every source directory: a build
\* fails for its Dockerfile only if nothing in the directory tells what it holds, or
\* a version is odd.
THEOREM FailuresHaveReasons == Spec => []FailedForAReason
<1>1. Dirs => FailedForAReason
  BY DEF Dirs, DirOK, Excused, FailedForAReason
<1> QED BY <1>1, DirsInvariance, PTL
=============================================================================
