------------------------ MODULE JobSupervisionProofs ------------------------
(***************************************************************************)
(* Proofs about the jobs and what they leave behind, for any tasks, job    *)
(* requests, Gateway processes, capacities and retention runs: what runs   *)
(* is counted, what finished or belongs to a closed task runs no more, no  *)
(* cancelled job passes, and retention removes nothing in use.             *)
(***************************************************************************)
EXTENDS Retention, FiniteSetTheorems, TLAPS

ProcRows == [leader : {"none", "live", "zombie", "gone"}, ok : BOOLEAN, members : BOOLEAN]
SupRows ==
  [pc : {"none", "launch", "spawn", "prepare", "spawned", "watch", "publish", "cleanup", "heads"},
   installed : BOOLEAN, aborted : BOOLEAN, stopping : BOOLEAN,
   killedBy : {"none", "timeout", "rss", "cancel", "failure"}, closed : BOOLEAN, hard : BOOLEAN,
   deadline : BOOLEAN, stray : BOOLEAN]

Typed ==
  /\ history \in Histories
  /\ task \in [Tasks -> {"none", "READY", "closing", "CLOSED"}]
  /\ row \in [Jobs -> RowType] /\ proc \in [Jobs -> ProcRows] /\ sup \in [Jobs -> SupRows]
  /\ gateway \in {"up", "down", "starting"}
  /\ life \in 1..history.lives /\ (gateway = "down" => life < history.lives)
  /\ launching \in {0} \cup Jobs

HoldsLoop == {"launch", "spawn", "spawned"}
BetweenProcesses == {"launch", "spawn", "prepare", "publish", "cleanup", "heads"}

\* A supervisor has a running row of this Gateway, and one in a launch holds the event loop.
SupervisorHasRow(j) ==
  /\ sup[j].pc # "none" => row[j].state = "running" /\ row[j].owner = life /\ gateway = "up"
  /\ launching = j <=> sup[j].pc \in HoldsLoop

\* The phase on record is never behind what may have been spawned.
PhaseIsAhead(j) ==
  /\ row[j].pgid => row[j].phase \in {"running", "uncertain"}
  /\ sup[j].pc = "launch" => row[j].phase = "preparing"
  /\ row[j].state # "none" /\ sup[j].pc \notin {"none", "launch"} => row[j].phase # "preparing"

\* No process before the spawn, nor between two of them; a leader just spawned waits to be reaped.
ProcessFollows(j) ==
  /\ row[j].state = "none" \/ row[j].phase = "preparing" \/ sup[j].pc \in BetweenProcesses =>
       proc[j].leader = "none" /\ ~proc[j].members
  /\ sup[j].pc = "spawned" => proc[j].leader \in {"live", "zombie"}

\* A cancellation on record has reached the supervisor, which is past its launch.
CancelReached(j) ==
  /\ row[j].cancel => Supervised(j) /\ (sup[j].pc # "none" => sup[j].aborted)
  /\ sup[j].pc \in {"launch", "spawn"} \/ row[j].state = "none" => ~sup[j].aborted

\* The properties of one job, as the invariant carries them.
JobSound(j) ==
  /\ Supervised(j) /\ row[j].state \in Terminal => ~Alive(j)
  /\ row[j].state = "running" => task[TaskOf(j)] = "READY"
  /\ row[j].cancel => row[j].state \notin {"passed", "failed"}
  /\ Supervised(j) => ~sup[j].stray

JobOk(j) ==
  SupervisorHasRow(j) /\ PhaseIsAhead(j) /\ ProcessFollows(j) /\ CancelReached(j) /\ JobSound(j)

\* The table never admits more than the policy allows.
Counted ==
  /\ Cardinality(Active) <= history.globalJobs
  /\ \A t \in Tasks : Cardinality(ActiveOf(t)) <= PerTaskJobs
  /\ \A j, k \in Active : Kind(j) = "host-verifier" /\ Kind(k) = "host-verifier" => j = k

JInv ==
  /\ Typed
  /\ \A j \in Jobs : JobOk(j)
  /\ Counted
  /\ todo \subseteq Active /\ (todo # {} => gateway = "starting")
-----------------------------------------------------------------------------
(* A step of one job.                                                       *)

\* The step of job j leaves the other jobs, the tasks and the Gateway as they are.
Only(j) ==
  /\ history' = history /\ life' = life /\ gateway' = gateway /\ task' = task
  /\ row' \in [Jobs -> RowType] /\ proc' \in [Jobs -> ProcRows] /\ sup' \in [Jobs -> SupRows]
  /\ \A k \in Jobs : k # j => row'[k] = row[k] /\ proc'[k] = proc[k] /\ sup'[k] = sup[k]
  /\ launching' = launching \/ {launching, launching'} \subseteq {0, j}

\* Jobs are the positions of a finite plan of known tasks and kinds.
LEMMA Plan ==
  ASSUME history \in Histories
  PROVE  /\ Jobs = 1..Len(history.plan) /\ Len(history.plan) \in Nat /\ 0 \notin Jobs
         /\ IsFiniteSet(Jobs)
         /\ \A j \in Jobs : TaskOf(j) \in Tasks /\ Kind(j) \in Kinds
         /\ history.globalJobs \in Nat \ {0} /\ history.lives \in 1..MaxLives /\ MaxLives \in Nat
<1>1. history.plan \in Seq([task : Tasks, kind : Kinds])
  BY JobSupervisionAssumption
<1>2. Jobs = 1..Len(history.plan) /\ Len(history.plan) \in Nat
  BY <1>1 DEF Jobs
<1>3. \A j \in Jobs : history.plan[j] \in [task : Tasks, kind : Kinds]
  <2> DEFINE R == [task : Tasks, kind : Kinds]
             p == history.plan
  <2>1. p \in Seq(R) /\ Jobs = 1..Len(p)
    BY <1>1, <1>2
  <2> HIDE DEF R, p
  <2>2. \A j \in Jobs : p[j] \in R
    BY <2>1
  <2> QED
    BY <2>2 DEF R, p
<1>4. IsFiniteSet(Jobs)
  BY <1>2, FS_Interval
<1> QED
  BY <1>2, <1>3, <1>4, JobSupervisionAssumption DEF TaskOf, Kind

\* The rows of one job have their fields.
LEMMA Fields ==
  ASSUME Typed, NEW j \in Jobs
  PROVE  row[j] \in RowType /\ proc[j] \in ProcRows /\ sup[j] \in SupRows
  BY DEF Typed

\* What a job step must show: its job stays sound, and runs only if it ran.
LEMMA OneJob ==
  ASSUME JInv, NEW j \in Jobs, Only(j), JobOk(j)',
         todo' \subseteq todo, j \in todo' => row'[j].state = "running"
  PROVE  /\ Typed' /\ (\A k \in Jobs' : JobOk(k)')
         /\ todo' \subseteq Active' /\ (todo' # {} => gateway' = "starting")
         /\ (row'[j].state = "running" => row[j].state = "running") => Counted'
<1>0. Typed /\ (\A k \in Jobs : JobOk(k)) /\ Counted
  BY DEF JInv
<1>1. Jobs' = Jobs /\ \A k \in Jobs : Kind(k)' = Kind(k) /\ TaskOf(k)' = TaskOf(k)
  BY DEF Only, Jobs, Kind, TaskOf
<1>2. launching' \in {0} \cup Jobs
  BY <1>0 DEF Only, Typed
<1>3. Typed'
  BY <1>0, <1>1, <1>2 DEF Only, Typed
<1>4. ASSUME NEW k \in Jobs PROVE JobOk(k)'
  <2>1. CASE k = j
    BY <2>1
  <2>2. CASE k # j
    <3>1. row'[k] = row[k] /\ proc'[k] = proc[k] /\ sup'[k] = sup[k]
      BY <2>2 DEF Only
    <3>2. launching' = k <=> launching = k
      BY <2>2, <1>0, Plan DEF Only, Typed
    <3>3. gateway' = gateway /\ life' = life /\ task' = task
      BY DEF Only
    <3>4. JobOk(k)
      BY <1>0
    <3>5. SupervisorHasRow(k)' /\ PhaseIsAhead(k)' /\ ProcessFollows(k)'
      BY <3>1, <3>2, <3>3, <3>4 DEF JobOk, SupervisorHasRow, PhaseIsAhead, ProcessFollows
    <3>6. CancelReached(k)' /\ JobSound(k)'
      BY <1>1, <3>1, <3>3, <3>4 DEF JobOk, CancelReached, JobSound, Supervised, Alive
    <3> QED
      BY <3>5, <3>6 DEF JobOk
  <2> QED
    BY <2>1, <2>2
<1>5. todo' \subseteq Active' /\ (todo' # {} => gateway' = "starting")
  <2>1. todo \subseteq Active /\ (todo # {} => gateway = "starting")
    BY DEF JInv
  <2> QED
    BY <1>1, <2>1 DEF Only, Active
<1>6. ASSUME row'[j].state = "running" => row[j].state = "running" PROVE Counted'
  <2>1. Active' \subseteq Active /\ \A t \in Tasks : ActiveOf(t)' \subseteq ActiveOf(t)
    BY <1>1, <1>6 DEF Only, Active, ActiveOf
  <2>2. IsFiniteSet(Active) /\ \A t \in Tasks : IsFiniteSet(ActiveOf(t))
    BY <1>0, Plan, FS_Subset DEF Active, ActiveOf, Typed
  <2>3. Cardinality(Active') <= Cardinality(Active) /\ Cardinality(Active') \in Nat /\ Cardinality(Active) \in Nat
    BY <2>1, <2>2, FS_Subset, FS_CardinalityType
  <2>4. \A t \in Tasks : /\ Cardinality(ActiveOf(t)') <= Cardinality(ActiveOf(t))
                         /\ Cardinality(ActiveOf(t)') \in Nat /\ Cardinality(ActiveOf(t)) \in Nat
    BY <2>1, <2>2, FS_Subset, FS_CardinalityType
  <2>5. history.globalJobs \in Nat /\ PerTaskJobs \in Nat
    BY <1>0, Plan, JobSupervisionAssumption DEF Typed
  <2>6. Cardinality(Active') <= history.globalJobs
    BY <1>0, <2>3, <2>5 DEF Counted
  <2>7. \A t \in Tasks : Cardinality(ActiveOf(t)') <= PerTaskJobs
    BY <1>0, <2>4, <2>5 DEF Counted
  <2>8. \A i, k \in Active' : Kind(i)' = "host-verifier" /\ Kind(k)' = "host-verifier" => i = k
    <3>1. Active' \subseteq Jobs
      BY <2>1 DEF Active
    <3> QED
      BY <1>0, <1>1, <2>1, <3>1 DEF Counted
  <2> QED
    BY <2>6, <2>7, <2>8 DEF Counted, Only
<1> QED
  BY <1>1, <1>3, <1>4, <1>5, <1>6

\* ... and a step of one job that starts none keeps the invariant.
LEMMA OneJobKeeps ==
  ASSUME JInv, NEW j \in Jobs, Only(j), JobOk(j)', todo' = todo,
         row'[j].state = row[j].state \/ (row'[j].state # "running" /\ gateway = "up")
  PROVE  JInv'
<1>1. j \in todo => row[j].state = "running" /\ gateway = "starting"
  BY DEF JInv, Active
<1>2. /\ j \in todo' => row'[j].state = "running"
      /\ row'[j].state = "running" => row[j].state = "running"
  BY <1>1
<1>3. Typed' /\ (\A k \in Jobs' : JobOk(k)') /\ todo' \subseteq Active' /\ (todo' # {} => gateway' = "starting")
  BY <1>2, OneJob
<1>4. Counted'
  BY <1>2, OneJob
<1> QED
  BY <1>3, <1>4 DEF JInv

\* What a supervisor's record becomes.
LEMMA SupervisorBecomes ==
  ASSUME Typed, NEW j \in Jobs, NEW s \in SupRows, sup' = [sup EXCEPT ![j] = s]
  PROVE  sup' \in [Jobs -> SupRows] /\ sup'[j] = s /\ \A k \in Jobs : k # j => sup'[k] = sup[k]
  BY DEF Typed

\* What a job's row becomes when it ends.
LEMMA RowEnds ==
  ASSUME Typed, NEW j \in Jobs, NEW v \in Terminal, Finish(j, v)
  PROVE  /\ row' \in [Jobs -> RowType] /\ \A k \in Jobs : k # j => row'[k] = row[k]
         /\ row'[j].state = v /\ row'[j].pgid = row[j].pgid /\ row'[j].phase = row[j].phase
         /\ row'[j].owner = row[j].owner /\ row'[j].cancel = row[j].cancel
<1>1. row[j] \in RowType
  BY DEF Typed
<1>2. row'[j] = [row[j] EXCEPT !.state = v] /\ [row[j] EXCEPT !.state = v] \in RowType
  BY <1>1 DEF Typed, Finish, RowType
<1>3. row' = [row EXCEPT ![j] = [row[j] EXCEPT !.state = v]]
  BY DEF Finish
<1> QED
  BY <1>1, <1>2, <1>3 DEF Typed, RowType

\* A record without a supervisor, and one without a process.
LEMMA Blank ==
  /\ NoSup \in SupRows /\ NoSup.pc = "none" /\ ~NoSup.aborted /\ ~NoSup.stray
  /\ NoProc \in ProcRows /\ NoProc.leader = "none" /\ ~NoProc.members
  BY DEF NoSup, NoProc, SupRows, ProcRows

\* A job that ends with its process gone, its supervisor with it.
LEMMA JobEndsKeeps ==
  ASSUME JInv, NEW j \in Jobs, NEW v \in Terminal, Finish(j, v), sup' = [sup EXCEPT ![j] = NoSup],
         gateway = "up", launching = 0, sup[j].pc # "none", sup[j].pc \notin HoldsLoop,
         sup[j].aborted => v \notin {"passed", "failed"}, Supervised(j) => ~Alive(j),
         UNCHANGED <<history, life, task, proc, gateway, launching, todo>>
  PROVE  JInv'
<1>0. Typed /\ JobOk(j) /\ j # 0
  BY Plan DEF JInv, Typed
<1>1. NoSup \in SupRows /\ NoSup.pc = "none" /\ ~NoSup.aborted /\ ~NoSup.stray
  BY Blank
<1>2. /\ row' \in [Jobs -> RowType] /\ \A k \in Jobs : k # j => row'[k] = row[k]
      /\ row'[j].state = v /\ row'[j].pgid = row[j].pgid /\ row'[j].phase = row[j].phase
      /\ row'[j].cancel = row[j].cancel
  BY <1>0, RowEnds
<1>3. sup' \in [Jobs -> SupRows] /\ sup'[j] = NoSup /\ \A k \in Jobs : k # j => sup'[k] = sup[k]
  BY <1>0, <1>1, SupervisorBecomes
<1>4. Only(j) /\ todo' = todo
  BY <1>0, <1>2, <1>3 DEF Only, Typed
<1>5. row'[j].state # "running" /\ row'[j].state # "none" /\ row[j].state # "none"
  BY <1>0, <1>2 DEF Terminal, JobOk, SupervisorHasRow
<1>6. SupervisorHasRow(j)' /\ PhaseIsAhead(j)' /\ ProcessFollows(j)'
  BY <1>0, <1>1, <1>2, <1>3, <1>5 DEF JobOk, SupervisorHasRow, PhaseIsAhead, ProcessFollows, HoldsLoop, BetweenProcesses
<1>7. CancelReached(j)' /\ JobSound(j)'
  BY <1>0, <1>1, <1>2, <1>3, <1>5 DEF JobOk, CancelReached, JobSound, Supervised, Alive, Kind, TaskOf
<1> QED
  BY <1>4, <1>5, <1>6, <1>7, OneJobKeeps DEF JobOk

\* A verdict is a terminal state, and of an aborted job not that it ran to its end.
LEMMA VerdictIs ==
  ASSUME NEW s \in SupRows, NEW ok \in BOOLEAN
  PROVE  Verdict(s, ok) \in Terminal /\ (s.aborted => Verdict(s, ok) \notin {"passed", "failed"})
<1>1. s.aborted \in BOOLEAN /\ s.killedBy \in {"none", "timeout", "rss", "cancel", "failure"}
  BY DEF SupRows
<1> QED
  BY <1>1 DEF Verdict, Terminal

\* A launch that throws before the spawn leaves nothing behind.
LEMMA LaunchFailsKeeps ==
  ASSUME JInv, NEW j \in Jobs, LaunchFails(j)
  PROVE  JInv'
<1>0. Typed /\ JobOk(j) /\ j # 0
  BY Plan DEF JInv, Typed
<1>1. row[j] \in RowType /\ proc[j] \in ProcRows /\ sup[j] \in SupRows
  BY <1>0, Fields
<1>2. Only(j) /\ todo' = todo
  BY <1>0, <1>1 DEF LaunchFails, Finish, NoSup, Only, Typed, stable, RowType, Terminal, ProcRows, SupRows
<1>3. row'[j].state = row[j].state \/ (row'[j].state # "running" /\ gateway = "up")
  BY <1>0, <1>1 DEF LaunchFails, Finish, NoSup, Typed, RowType, Terminal
<1>4. SupervisorHasRow(j)'
  BY <1>0, <1>1, <1>2 DEF LaunchFails, Finish, NoSup, Only, Typed, RowType, Terminal, ProcRows, SupRows, JobOk, SupervisorHasRow, PhaseIsAhead, ProcessFollows, HoldsLoop
<1>5. PhaseIsAhead(j)' /\ ProcessFollows(j)'
  BY <1>0, <1>1, <1>2 DEF LaunchFails, Finish, NoSup, Only, Typed, RowType, Terminal, ProcRows, SupRows, JobOk, SupervisorHasRow, PhaseIsAhead, ProcessFollows, HoldsLoop, BetweenProcesses
<1>6. CancelReached(j)' /\ JobSound(j)'
  BY <1>0, <1>1, <1>2 DEF LaunchFails, Finish, NoSup, Only, Typed, RowType, Terminal, ProcRows, SupRows, JobOk, SupervisorHasRow, PhaseIsAhead, ProcessFollows, CancelReached, JobSound, HoldsLoop, BetweenProcesses, Alive, Supervised, Kind, TaskOf
<1> QED
  BY <1>2, <1>3, <1>4, <1>5, <1>6, OneJobKeeps DEF JobOk

\* The phase says that a process may come before one does.
LEMMA LaunchesKeeps ==
  ASSUME JInv, NEW j \in Jobs, Launches(j)
  PROVE  JInv'
<1>0. Typed /\ JobOk(j) /\ j # 0
  BY Plan DEF JInv, Typed
<1>1. row[j] \in RowType /\ proc[j] \in ProcRows /\ sup[j] \in SupRows
  BY <1>0, Fields
<1>a. PICK q \in {"prepare", "spawn"} :
        /\ gateway = "up" /\ launching = j /\ sup[j].pc = "launch"
        /\ row' = [row EXCEPT ![j].phase = "launching"] /\ sup' = [sup EXCEPT ![j].pc = q]
        /\ launching' = IF q = "prepare" THEN 0 ELSE j
        /\ UNCHANGED <<history, life, task, proc, gateway, todo>>
  BY DEF Launches, MarkLaunching, stable
<1>b. /\ row'[j] = [row[j] EXCEPT !.phase = "launching"] /\ sup'[j] = [sup[j] EXCEPT !.pc = q]
      /\ proc'[j] = proc[j]
  BY <1>0, <1>a DEF Typed
<1>2. Only(j) /\ todo' = todo
  BY <1>0, <1>1, <1>a, <1>b DEF Only, Typed, RowType, Terminal, ProcRows, SupRows
<1>3. row'[j].state = row[j].state \/ (row'[j].state # "running" /\ gateway = "up")
  BY <1>0, <1>1, <1>a, <1>b DEF Typed, Terminal
<1>4. SupervisorHasRow(j)'
  BY <1>0, <1>1, <1>2, <1>a, <1>b DEF Only, Typed, RowType, Terminal, ProcRows, SupRows, JobOk, SupervisorHasRow, PhaseIsAhead, ProcessFollows, HoldsLoop
<1>5. PhaseIsAhead(j)' /\ ProcessFollows(j)'
  BY <1>0, <1>1, <1>2, <1>a, <1>b DEF Only, Typed, RowType, Terminal, ProcRows, SupRows, JobOk, SupervisorHasRow, PhaseIsAhead, ProcessFollows, HoldsLoop, BetweenProcesses
<1>6. CancelReached(j)' /\ JobSound(j)'
  BY <1>0, <1>1, <1>2, <1>a, <1>b DEF Only, Typed, RowType, Terminal, ProcRows, SupRows, JobOk, SupervisorHasRow, PhaseIsAhead, ProcessFollows, CancelReached, JobSound, HoldsLoop, BetweenProcesses, Alive, Supervised, Kind, TaskOf
<1> QED
  BY <1>2, <1>3, <1>4, <1>5, <1>6, OneJobKeeps DEF JobOk

\* A spawn gives the job its process group.
LEMMA SpawnKeeps ==
  ASSUME JInv, NEW j \in Jobs, Spawn(j)
  PROVE  JInv'
<1>0. Typed /\ JobOk(j) /\ j # 0
  BY Plan DEF JInv, Typed
<1>1. row[j] \in RowType /\ proc[j] \in ProcRows /\ sup[j] \in SupRows
  BY <1>0, Fields
<1>2. Only(j) /\ todo' = todo
  BY <1>0, <1>1 DEF Spawn, NoProc, Free, Only, Typed, stable, RowType, Terminal, ProcRows, SupRows
<1>3. row'[j].state = row[j].state \/ (row'[j].state # "running" /\ gateway = "up")
  BY <1>0, <1>1 DEF Spawn, NoProc, Free, Typed, RowType, Terminal
<1>4. SupervisorHasRow(j)'
  BY <1>0, <1>1, <1>2 DEF Spawn, NoProc, Free, Only, Typed, RowType, Terminal, ProcRows, SupRows, JobOk, SupervisorHasRow, PhaseIsAhead, ProcessFollows, HoldsLoop
<1>5. PhaseIsAhead(j)' /\ ProcessFollows(j)'
  BY <1>0, <1>1, <1>2 DEF Spawn, NoProc, Free, Only, Typed, RowType, Terminal, ProcRows, SupRows, JobOk, SupervisorHasRow, PhaseIsAhead, ProcessFollows, HoldsLoop, BetweenProcesses
<1>6. CancelReached(j)' /\ JobSound(j)'
  BY <1>0, <1>1, <1>2 DEF Spawn, NoProc, Free, Only, Typed, RowType, Terminal, ProcRows, SupRows, JobOk, SupervisorHasRow, PhaseIsAhead, ProcessFollows, CancelReached, JobSound, HoldsLoop, BetweenProcesses, Alive, Supervised, Kind, TaskOf
<1> QED
  BY <1>2, <1>3, <1>4, <1>5, <1>6, OneJobKeeps DEF JobOk

\* The group is put on record.
LEMMA RecordPgidKeeps ==
  ASSUME JInv, NEW j \in Jobs, RecordPgid(j)
  PROVE  JInv'
<1>0. Typed /\ JobOk(j) /\ j # 0
  BY Plan DEF JInv, Typed
<1>1. row[j] \in RowType /\ proc[j] \in ProcRows /\ sup[j] \in SupRows
  BY <1>0, Fields
<1>2. Only(j) /\ todo' = todo
  BY <1>0, <1>1 DEF RecordPgid, WithPgid, RecordsPgid, Only, Typed, stable, RowType, Terminal, ProcRows, SupRows
<1>3. row'[j].state = row[j].state \/ (row'[j].state # "running" /\ gateway = "up")
  BY <1>0, <1>1 DEF RecordPgid, WithPgid, RecordsPgid, Typed, RowType, Terminal
<1>4. SupervisorHasRow(j)'
  BY <1>0, <1>1, <1>2 DEF RecordPgid, WithPgid, RecordsPgid, Only, Typed, RowType, Terminal, ProcRows, SupRows, JobOk, SupervisorHasRow, PhaseIsAhead, ProcessFollows, HoldsLoop
<1>5. PhaseIsAhead(j)' /\ ProcessFollows(j)'
  BY <1>0, <1>1, <1>2 DEF RecordPgid, WithPgid, RecordsPgid, Only, Typed, RowType, Terminal, ProcRows, SupRows, JobOk, SupervisorHasRow, PhaseIsAhead, ProcessFollows, HoldsLoop, BetweenProcesses
<1>6. CancelReached(j)' /\ JobSound(j)'
  BY <1>0, <1>1, <1>2 DEF RecordPgid, WithPgid, RecordsPgid, Only, Typed, RowType, Terminal, ProcRows, SupRows, JobOk, SupervisorHasRow, PhaseIsAhead, ProcessFollows, CancelReached, JobSound, HoldsLoop, BetweenProcesses, Alive, Supervised, Kind, TaskOf
<1> QED
  BY <1>2, <1>3, <1>4, <1>5, <1>6, OneJobKeeps DEF JobOk

\* A group that could not be put on record is stopped, or killed at once.
LEMMA RecordFailsKeeps ==
  ASSUME JInv, NEW j \in Jobs, RecordFails(j)
  PROVE  JInv'
<1>0. Typed /\ JobOk(j) /\ j # 0
  BY Plan DEF JInv, Typed
<1>1. row[j] \in RowType /\ proc[j] \in ProcRows /\ sup[j] \in SupRows
  BY <1>0, Fields
<1>a. /\ gateway = "up" /\ launching = j /\ sup[j].pc = "spawned" /\ launching' = 0
      /\ UNCHANGED <<history, life, task, gateway, todo>>
  BY DEF RecordFails, stable
<1> DEFINE s == [Stopped(sup[j], "failure") EXCEPT !.pc = "watch"]
<1>b. s \in SupRows /\ s.pc = "watch" /\ s.aborted = sup[j].aborted /\ s.stray = sup[j].stray
  BY <1>1 DEF Stopped, SupRows
<1>c. \/ Supervised(j) /\ sup' = [sup EXCEPT ![j] = s] /\ row' = row /\ proc' = proc
      \/ /\ ~Supervised(j) /\ row' = [row EXCEPT ![j].state = "killed"]
         /\ proc' = [proc EXCEPT ![j] = [NoProc EXCEPT !.leader = "gone"]] /\ sup' = [sup EXCEPT ![j] = NoSup]
  BY DEF RecordFails, Finish
<1> HIDE DEF s
<1>d. NoSup \in SupRows /\ [NoProc EXCEPT !.leader = "gone"] \in ProcRows
      /\ [row[j] EXCEPT !.state = "killed"] \in RowType
  BY <1>1 DEF NoSup, NoProc, SupRows, ProcRows, RowType, Terminal
<1>e. CASE Supervised(j)
  <2>1. /\ sup'[j] = s /\ sup' \in [Jobs -> SupRows] /\ row' = row /\ proc' = proc
        /\ \A k \in Jobs : k # j => sup'[k] = sup[k]
    BY <1>0, <1>b, <1>c, <1>e DEF Typed
  <2>2. Only(j) /\ todo' = todo
    BY <1>0, <1>a, <2>1 DEF Only, Typed
  <2>3. SupervisorHasRow(j)' /\ PhaseIsAhead(j)' /\ ProcessFollows(j)'
    BY <1>0, <1>a, <1>b, <2>1 DEF JobOk, SupervisorHasRow, PhaseIsAhead, ProcessFollows, HoldsLoop, BetweenProcesses
  <2>4. CancelReached(j)' /\ JobSound(j)'
    BY <1>0, <1>a, <1>b, <2>1 DEF JobOk, SupervisorHasRow, CancelReached, JobSound, Alive, Supervised, Kind, TaskOf
  <2> QED
    BY <1>a, <2>1, <2>2, <2>3, <2>4, OneJobKeeps DEF JobOk
<1>f. CASE ~Supervised(j)
  <2>1. /\ sup'[j] = NoSup /\ sup' \in [Jobs -> SupRows] /\ row' \in [Jobs -> RowType]
        /\ proc' \in [Jobs -> ProcRows] /\ row'[j] = [row[j] EXCEPT !.state = "killed"]
        /\ \A k \in Jobs : k # j => sup'[k] = sup[k] /\ row'[k] = row[k] /\ proc'[k] = proc[k]
    BY <1>0, <1>c, <1>d, <1>f DEF Typed
  <2>2. Only(j) /\ todo' = todo
    BY <1>0, <1>a, <2>1 DEF Only, Typed
  <2>3. row'[j].state = "killed" /\ row'[j].phase = row[j].phase /\ row'[j].pgid = row[j].pgid
        /\ row'[j].cancel = row[j].cancel
    BY <1>1, <2>1 DEF RowType
  <2>4. SupervisorHasRow(j)' /\ PhaseIsAhead(j)' /\ ProcessFollows(j)'
    <3>1. row[j].state = "running" /\ row[j].phase # "preparing"
      BY <1>0, <1>a DEF JobOk, SupervisorHasRow, PhaseIsAhead
    <3> QED
      BY <1>0, <1>a, <2>1, <2>3, <3>1 DEF NoSup, JobOk, SupervisorHasRow, PhaseIsAhead, ProcessFollows, HoldsLoop, BetweenProcesses
  <2>5. CancelReached(j)' /\ JobSound(j)'
    BY <1>0, <1>a, <1>f, <2>1, <2>3 DEF NoSup, JobOk, CancelReached, JobSound, Supervised, Kind
  <2> QED
    BY <1>a, <2>2, <2>3, <2>4, <2>5, OneJobKeeps DEF JobOk
<1> QED
  BY <1>e, <1>f

\* Only a living leader forks.
LEMMA ForksKeeps ==
  ASSUME JInv, NEW j \in Jobs, Forks(j)
  PROVE  JInv'
<1>0. Typed /\ JobOk(j) /\ j # 0
  BY Plan DEF JInv, Typed
<1>1. row[j] \in RowType /\ proc[j] \in ProcRows /\ sup[j] \in SupRows
  BY <1>0, Fields
<1>2. Only(j) /\ todo' = todo
  BY <1>0, <1>1 DEF Forks, Only, Typed, stable, RowType, Terminal, ProcRows, SupRows
<1>3. row'[j].state = row[j].state \/ (row'[j].state # "running" /\ gateway = "up")
  BY <1>0, <1>1 DEF Forks, Typed, RowType, Terminal
<1>4. SupervisorHasRow(j)'
  BY <1>0, <1>1, <1>2 DEF Forks, Only, Typed, RowType, Terminal, ProcRows, SupRows, JobOk, SupervisorHasRow, PhaseIsAhead, ProcessFollows, HoldsLoop
<1>5. PhaseIsAhead(j)' /\ ProcessFollows(j)'
  BY <1>0, <1>1, <1>2 DEF Forks, Only, Typed, RowType, Terminal, ProcRows, SupRows, JobOk, SupervisorHasRow, PhaseIsAhead, ProcessFollows, HoldsLoop, BetweenProcesses
<1>6. CancelReached(j)' /\ JobSound(j)'
  BY <1>0, <1>1, <1>2 DEF Forks, Only, Typed, RowType, Terminal, ProcRows, SupRows, JobOk, SupervisorHasRow, PhaseIsAhead, ProcessFollows, CancelReached, JobSound, HoldsLoop, BetweenProcesses, Alive, Supervised, Kind, TaskOf
<1> QED
  BY <1>2, <1>3, <1>4, <1>5, <1>6, OneJobKeeps DEF JobOk

\* A leader exits.
LEMMA LeaderExitsKeeps ==
  ASSUME JInv, NEW j \in Jobs, LeaderExits(j)
  PROVE  JInv'
<1>0. Typed /\ JobOk(j) /\ j # 0
  BY Plan DEF JInv, Typed
<1>1. row[j] \in RowType /\ proc[j] \in ProcRows /\ sup[j] \in SupRows
  BY <1>0, Fields
<1>2. Only(j) /\ todo' = todo
  BY <1>0, <1>1 DEF LeaderExits, Only, Typed, stable, RowType, Terminal, ProcRows, SupRows
<1>3. row'[j].state = row[j].state \/ (row'[j].state # "running" /\ gateway = "up")
  BY <1>0, <1>1 DEF LeaderExits, Typed, RowType, Terminal
<1>4. SupervisorHasRow(j)'
  BY <1>0, <1>1, <1>2 DEF LeaderExits, Only, Typed, RowType, Terminal, ProcRows, SupRows, JobOk, SupervisorHasRow, PhaseIsAhead, ProcessFollows, HoldsLoop
<1>5. PhaseIsAhead(j)' /\ ProcessFollows(j)'
  BY <1>0, <1>1, <1>2 DEF LeaderExits, Only, Typed, RowType, Terminal, ProcRows, SupRows, JobOk, SupervisorHasRow, PhaseIsAhead, ProcessFollows, HoldsLoop, BetweenProcesses
<1>6. CancelReached(j)' /\ JobSound(j)'
  BY <1>0, <1>1, <1>2 DEF LeaderExits, Only, Typed, RowType, Terminal, ProcRows, SupRows, JobOk, SupervisorHasRow, PhaseIsAhead, ProcessFollows, CancelReached, JobSound, HoldsLoop, BetweenProcesses, Alive, Supervised, Kind, TaskOf
<1> QED
  BY <1>2, <1>3, <1>4, <1>5, <1>6, OneJobKeeps DEF JobOk

\* The members exit.
LEMMA MembersExitKeeps ==
  ASSUME JInv, NEW j \in Jobs, MembersExit(j)
  PROVE  JInv'
<1>0. Typed /\ JobOk(j) /\ j # 0
  BY Plan DEF JInv, Typed
<1>1. row[j] \in RowType /\ proc[j] \in ProcRows /\ sup[j] \in SupRows
  BY <1>0, Fields
<1>2. Only(j) /\ todo' = todo
  BY <1>0, <1>1 DEF MembersExit, Only, Typed, stable, RowType, Terminal, ProcRows, SupRows
<1>3. row'[j].state = row[j].state \/ (row'[j].state # "running" /\ gateway = "up")
  BY <1>0, <1>1 DEF MembersExit, Typed, RowType, Terminal
<1>4. SupervisorHasRow(j)'
  BY <1>0, <1>1, <1>2 DEF MembersExit, Only, Typed, RowType, Terminal, ProcRows, SupRows, JobOk, SupervisorHasRow, PhaseIsAhead, ProcessFollows, HoldsLoop
<1>5. PhaseIsAhead(j)' /\ ProcessFollows(j)'
  BY <1>0, <1>1, <1>2 DEF MembersExit, Only, Typed, RowType, Terminal, ProcRows, SupRows, JobOk, SupervisorHasRow, PhaseIsAhead, ProcessFollows, HoldsLoop, BetweenProcesses
<1>6. CancelReached(j)' /\ JobSound(j)'
  BY <1>0, <1>1, <1>2 DEF MembersExit, Only, Typed, RowType, Terminal, ProcRows, SupRows, JobOk, SupervisorHasRow, PhaseIsAhead, ProcessFollows, CancelReached, JobSound, HoldsLoop, BetweenProcesses, Alive, Supervised, Kind, TaskOf
<1> QED
  BY <1>2, <1>3, <1>4, <1>5, <1>6, OneJobKeeps DEF JobOk

\* The leader is waited for.
LEMMA ReapKeeps ==
  ASSUME JInv, NEW j \in Jobs, Reap(j)
  PROVE  JInv'
<1>0. Typed /\ JobOk(j) /\ j # 0
  BY Plan DEF JInv, Typed
<1>1. row[j] \in RowType /\ proc[j] \in ProcRows /\ sup[j] \in SupRows
  BY <1>0, Fields
<1>2. Only(j) /\ todo' = todo
  BY <1>0, <1>1 DEF Reap, Watching, Free, Only, Typed, stable, RowType, Terminal, ProcRows, SupRows
<1>3. row'[j].state = row[j].state \/ (row'[j].state # "running" /\ gateway = "up")
  BY <1>0, <1>1 DEF Reap, Watching, Free, Typed, RowType, Terminal
<1>4. SupervisorHasRow(j)'
  BY <1>0, <1>1, <1>2 DEF Reap, Watching, Free, Only, Typed, RowType, Terminal, ProcRows, SupRows, JobOk, SupervisorHasRow, PhaseIsAhead, ProcessFollows, HoldsLoop
<1>5. PhaseIsAhead(j)' /\ ProcessFollows(j)'
  BY <1>0, <1>1, <1>2 DEF Reap, Watching, Free, Only, Typed, RowType, Terminal, ProcRows, SupRows, JobOk, SupervisorHasRow, PhaseIsAhead, ProcessFollows, HoldsLoop, BetweenProcesses
<1>6. CancelReached(j)' /\ JobSound(j)'
  BY <1>0, <1>1, <1>2 DEF Reap, Watching, Free, Only, Typed, RowType, Terminal, ProcRows, SupRows, JobOk, SupervisorHasRow, PhaseIsAhead, ProcessFollows, CancelReached, JobSound, HoldsLoop, BetweenProcesses, Alive, Supervised, Kind, TaskOf
<1> QED
  BY <1>2, <1>3, <1>4, <1>5, <1>6, OneJobKeeps DEF JobOk

\* A job that overruns is stopped.
LEMMA OverrunsKeeps ==
  ASSUME JInv, NEW j \in Jobs, Overruns(j)
  PROVE  JInv'
<1>0. Typed /\ JobOk(j) /\ j # 0
  BY Plan DEF JInv, Typed
<1>1. row[j] \in RowType /\ proc[j] \in ProcRows /\ sup[j] \in SupRows
  BY <1>0, Fields
<1>a. PICK reason \in {"timeout", "rss"} :
        /\ gateway = "up" /\ launching = 0 /\ sup[j].pc = "watch"
        /\ sup' = [sup EXCEPT ![j] = Stopped(sup[j], reason)]
        /\ UNCHANGED <<history, life, task, row, proc, gateway, launching, todo>>
  BY DEF Overruns, Watching, Free, stable
<1>b. /\ Stopped(sup[j], reason) \in SupRows /\ Stopped(sup[j], reason).pc = "watch"
      /\ Stopped(sup[j], reason).aborted = sup[j].aborted /\ Stopped(sup[j], reason).stray = sup[j].stray
  BY <1>1, <1>a DEF Stopped, SupRows
<1>c. /\ sup'[j] = Stopped(sup[j], reason) /\ sup' \in [Jobs -> SupRows]
      /\ \A k \in Jobs : k # j => sup'[k] = sup[k]
  BY <1>0, <1>a, <1>b DEF Typed
<1>2. Only(j) /\ todo' = todo
  BY <1>0, <1>1, <1>a, <1>b, <1>c DEF Only, Typed, RowType, Terminal, ProcRows, SupRows
<1>3. row'[j].state = row[j].state \/ (row'[j].state # "running" /\ gateway = "up")
  BY <1>0, <1>1, <1>a, <1>b, <1>c DEF Typed, Terminal
<1>4. SupervisorHasRow(j)'
  BY <1>0, <1>1, <1>2, <1>a, <1>b, <1>c DEF Only, Typed, RowType, Terminal, ProcRows, SupRows, JobOk, SupervisorHasRow, PhaseIsAhead, ProcessFollows, HoldsLoop
<1>5. PhaseIsAhead(j)' /\ ProcessFollows(j)'
  BY <1>0, <1>1, <1>2, <1>a, <1>b, <1>c DEF Only, Typed, RowType, Terminal, ProcRows, SupRows, JobOk, SupervisorHasRow, PhaseIsAhead, ProcessFollows, HoldsLoop, BetweenProcesses
<1>6. CancelReached(j)' /\ JobSound(j)'
  BY <1>0, <1>1, <1>2, <1>a, <1>b, <1>c DEF Only, Typed, RowType, Terminal, ProcRows, SupRows, JobOk, SupervisorHasRow, PhaseIsAhead, ProcessFollows, CancelReached, JobSound, HoldsLoop, BetweenProcesses, Alive, Supervised, Kind, TaskOf
<1> QED
  BY <1>2, <1>3, <1>4, <1>5, <1>6, OneJobKeeps DEF JobOk

\* The hard kill reaches an owned group only, but for a deployment.
LEMMA HardKillKeeps ==
  ASSUME JInv, NEW j \in Jobs, HardKill(j)
  PROVE  JInv'
<1>0. Typed /\ JobOk(j) /\ j # 0
  BY Plan DEF JInv, Typed
<1>1. row[j] \in RowType /\ proc[j] \in ProcRows /\ sup[j] \in SupRows
  BY <1>0, Fields
<1>a. /\ gateway = "up" /\ launching = 0
      /\ UNCHANGED <<history, life, task, row, gateway, launching, todo>>
  BY DEF HardKill, Free, stable
<1>b. PICK b \in BOOLEAN, d \in BOOLEAN :
        /\ sup' = [sup EXCEPT ![j].hard = FALSE, ![j].stray = b] \/ (sup' = [sup EXCEPT ![j].hard = FALSE] /\ b = sup[j].stray)
        /\ Supervised(j) /\ b => sup[j].stray
        /\ \/ proc' = proc
           \/ proc' = [proc EXCEPT ![j].members = FALSE, ![j].leader = IF @ = "live" THEN "zombie" ELSE @]
  <2>1. CASE LeaderIsOwned(j) \/ ~Supervised(j)
    BY <2>1 DEF HardKill, LeaderIsOwned
  <2>2. CASE ~(LeaderIsOwned(j) \/ ~Supervised(j))
    <3>1. sup[j].stray \in BOOLEAN
      BY <1>1 DEF SupRows
    <3> QED
      BY <2>2, <3>1 DEF HardKill
  <2> QED
    BY <2>1, <2>2
<1>c. /\ sup'[j].pc = sup[j].pc /\ sup'[j].aborted = sup[j].aborted /\ sup'[j].stray = b
      /\ sup' \in [Jobs -> SupRows] /\ \A k \in Jobs : k # j => sup'[k] = sup[k]
  <2> DEFINE s == [sup EXCEPT ![j].hard = FALSE]
  <2>1. /\ s \in [Jobs -> SupRows] /\ \A k \in Jobs : k # j => s[k] = sup[k]
        /\ s[j].pc = sup[j].pc /\ s[j].aborted = sup[j].aborted /\ s[j].stray = sup[j].stray
    BY <1>0, <1>1 DEF Typed, SupRows
  <2>2. sup' = [s EXCEPT ![j].stray = b] \/ (sup' = s /\ b = sup[j].stray)
    BY <1>b
  <2> HIDE DEF s
  <2>3. CASE sup' = [s EXCEPT ![j].stray = b]
    BY <1>1, <2>1, <2>3 DEF SupRows
  <2>4. CASE sup' = s /\ b = sup[j].stray
    BY <2>1, <2>4
  <2> QED
    BY <2>2, <2>3, <2>4
<1>d. /\ proc' \in [Jobs -> ProcRows] /\ \A k \in Jobs : k # j => proc'[k] = proc[k]
      /\ \/ proc'[j] = proc[j]
         \/ proc'[j].members = FALSE /\ proc'[j].leader = IF proc[j].leader = "live" THEN "zombie" ELSE proc[j].leader
  <2>1. CASE proc' = proc
    BY <1>0, <2>1 DEF Typed
  <2>2. CASE proc' = [proc EXCEPT ![j].members = FALSE, ![j].leader = IF @ = "live" THEN "zombie" ELSE @]
    <3> DEFINE p == [proc EXCEPT ![j].members = FALSE]
    <3>1. /\ p \in [Jobs -> ProcRows] /\ \A k \in Jobs : k # j => p[k] = proc[k]
          /\ p[j].members = FALSE /\ p[j].leader = proc[j].leader
      BY <1>0, <1>1 DEF Typed, ProcRows
    <3>2. proc' = [p EXCEPT ![j].leader = IF @ = "live" THEN "zombie" ELSE @]
      BY <2>2
    <3> HIDE DEF p
    <3>3. p[j] \in ProcRows
      BY <3>1
    <3> DEFINE l == IF p[j].leader = "live" THEN "zombie" ELSE p[j].leader
    <3>4. proc' = [p EXCEPT ![j].leader = l] /\ l \in {"none", "live", "zombie", "gone"}
      BY <3>2, <3>3 DEF ProcRows
    <3>5. proc'[j].members = FALSE /\ proc'[j].leader = l
      <4> HIDE DEF l
      <4> QED
        BY <3>1, <3>3, <3>4 DEF ProcRows
    <3>6. proc' \in [Jobs -> ProcRows] /\ \A k \in Jobs : k # j => proc'[k] = p[k]
      <4> HIDE DEF l
      <4> QED
        BY <3>1, <3>3, <3>4 DEF ProcRows
    <3> QED
      BY <3>1, <3>5, <3>6
  <2> QED
    BY <1>b, <2>1, <2>2
<1>2. Only(j) /\ todo' = todo
  BY <1>0, <1>1, <1>a, <1>b, <1>c, <1>d DEF Only, Typed, RowType, Terminal, ProcRows, SupRows
<1>3. row'[j].state = row[j].state \/ (row'[j].state # "running" /\ gateway = "up")
  BY <1>0, <1>1, <1>a, <1>b, <1>c, <1>d DEF Typed, Terminal
<1>4. SupervisorHasRow(j)'
  BY <1>0, <1>1, <1>2, <1>a, <1>b, <1>c, <1>d DEF Only, Typed, RowType, Terminal, ProcRows, SupRows, JobOk, SupervisorHasRow, PhaseIsAhead, ProcessFollows, HoldsLoop
<1>5. PhaseIsAhead(j)' /\ ProcessFollows(j)'
  BY <1>0, <1>1, <1>2, <1>a, <1>b, <1>c, <1>d DEF Only, Typed, RowType, Terminal, ProcRows, SupRows, JobOk, SupervisorHasRow, PhaseIsAhead, ProcessFollows, HoldsLoop, BetweenProcesses
<1>6. CancelReached(j)' /\ JobSound(j)'
  BY <1>0, <1>1, <1>2, <1>a, <1>b, <1>c, <1>d DEF Only, Typed, RowType, Terminal, ProcRows, SupRows, JobOk, SupervisorHasRow, PhaseIsAhead, ProcessFollows, CancelReached, JobSound, HoldsLoop, BetweenProcesses, Alive, Supervised, Kind, TaskOf
<1> QED
  BY <1>2, <1>3, <1>4, <1>5, <1>6, OneJobKeeps DEF JobOk

\* The pipes are shut.
LEMMA ClosesKeeps ==
  ASSUME JInv, NEW j \in Jobs, Closes(j)
  PROVE  JInv'
<1>0. Typed /\ JobOk(j) /\ j # 0
  BY Plan DEF JInv, Typed
<1>1. row[j] \in RowType /\ proc[j] \in ProcRows /\ sup[j] \in SupRows
  BY <1>0, Fields
<1>2. Only(j) /\ todo' = todo
  BY <1>0, <1>1 DEF Closes, Closed, Watching, Free, Only, Typed, stable, RowType, Terminal, ProcRows, SupRows
<1>3. row'[j].state = row[j].state \/ (row'[j].state # "running" /\ gateway = "up")
  BY <1>0, <1>1 DEF Closes, Closed, Watching, Free, Typed, RowType, Terminal
<1>4. SupervisorHasRow(j)'
  BY <1>0, <1>1, <1>2 DEF Closes, Closed, Watching, Free, Only, Typed, RowType, Terminal, ProcRows, SupRows, JobOk, SupervisorHasRow, PhaseIsAhead, ProcessFollows, HoldsLoop
<1>5. PhaseIsAhead(j)' /\ ProcessFollows(j)'
  BY <1>0, <1>1, <1>2 DEF Closes, Closed, Watching, Free, Only, Typed, RowType, Terminal, ProcRows, SupRows, JobOk, SupervisorHasRow, PhaseIsAhead, ProcessFollows, HoldsLoop, BetweenProcesses
<1>6. CancelReached(j)' /\ JobSound(j)'
  BY <1>0, <1>1, <1>2 DEF Closes, Closed, Watching, Free, Only, Typed, RowType, Terminal, ProcRows, SupRows, JobOk, SupervisorHasRow, PhaseIsAhead, ProcessFollows, CancelReached, JobSound, HoldsLoop, BetweenProcesses, Alive, Supervised, Kind, TaskOf
<1> QED
  BY <1>2, <1>3, <1>4, <1>5, <1>6, OneJobKeeps DEF JobOk

\* A quarantined job keeps its slot.
LEMMA UncertainKeeps ==
  ASSUME JInv, NEW j \in Jobs, Uncertain(j)
  PROVE  JInv'
<1>0. Typed /\ JobOk(j) /\ j # 0
  BY Plan DEF JInv, Typed
<1>1. row[j] \in RowType /\ proc[j] \in ProcRows /\ sup[j] \in SupRows
  BY <1>0, Fields
<1>2. Only(j) /\ todo' = todo
  BY <1>0, <1>1 DEF Uncertain, Watching, Free, NoSup, Only, Typed, stable, RowType, Terminal, ProcRows, SupRows
<1>3. row'[j].state = row[j].state \/ (row'[j].state # "running" /\ gateway = "up")
  BY <1>0, <1>1 DEF Uncertain, Watching, Free, NoSup, Typed, RowType, Terminal
<1>4. SupervisorHasRow(j)'
  BY <1>0, <1>1, <1>2 DEF Uncertain, Watching, Free, NoSup, Only, Typed, RowType, Terminal, ProcRows, SupRows, JobOk, SupervisorHasRow, PhaseIsAhead, ProcessFollows, HoldsLoop
<1>5. PhaseIsAhead(j)' /\ ProcessFollows(j)'
  BY <1>0, <1>1, <1>2 DEF Uncertain, Watching, Free, NoSup, Only, Typed, RowType, Terminal, ProcRows, SupRows, JobOk, SupervisorHasRow, PhaseIsAhead, ProcessFollows, HoldsLoop, BetweenProcesses
<1>6. CancelReached(j)' /\ JobSound(j)'
  BY <1>0, <1>1, <1>2 DEF Uncertain, Watching, Free, NoSup, Only, Typed, RowType, Terminal, ProcRows, SupRows, JobOk, SupervisorHasRow, PhaseIsAhead, ProcessFollows, CancelReached, JobSound, HoldsLoop, BetweenProcesses, Alive, Supervised, Kind, TaskOf
<1> QED
  BY <1>2, <1>3, <1>4, <1>5, <1>6, OneJobKeeps DEF JobOk

\* A preparation ends.
LEMMA PrepareEndsKeeps ==
  ASSUME JInv, NEW j \in Jobs, PrepareEnds(j)
  PROVE  JInv'
<1>0. Typed /\ JobOk(j) /\ j # 0
  BY Plan DEF JInv, Typed
<1>1. row[j] \in RowType /\ proc[j] \in ProcRows /\ sup[j] \in SupRows
  BY <1>0, Fields
<1>a. /\ gateway = "up" /\ launching = 0 /\ sup[j].pc = "prepare"
      /\ UNCHANGED <<history, life, task, proc, gateway, launching, todo>>
  BY DEF PrepareEnds, Free, stable
<1>b. ~Alive(j)
  BY <1>0, <1>a DEF JobOk, ProcessFollows, BetweenProcesses, Alive
<1>c. ASSUME Finish(j, IF sup[j].aborted THEN "cancelled" ELSE "failed"), sup' = [sup EXCEPT ![j] = NoSup]
      PROVE  JInv'
  <2> DEFINE v == IF sup[j].aborted THEN "cancelled" ELSE "failed"
  <2>1. v \in Terminal /\ (sup[j].aborted => v \notin {"passed", "failed"}) /\ Finish(j, v)
    BY <1>c DEF Terminal
  <2> HIDE DEF v
  <2> QED
    BY <1>a, <1>b, <1>c, <2>1, JobEndsKeeps DEF HoldsLoop
<1>d. ASSUME row' = row, NEW s \in SupRows, sup' = [sup EXCEPT ![j] = s], s.pc \in {"prepare", "publish"},
             s.aborted = sup[j].aborted, s.stray = sup[j].stray
      PROVE  JInv'
  <2>1. sup' \in [Jobs -> SupRows] /\ sup'[j] = s /\ \A k \in Jobs : k # j => sup'[k] = sup[k]
    BY <1>0, <1>d, SupervisorBecomes
  <2>2. Only(j) /\ todo' = todo
    BY <1>0, <1>a, <1>d, <2>1 DEF Only, Typed
  <2>3. SupervisorHasRow(j)' /\ PhaseIsAhead(j)' /\ ProcessFollows(j)'
    BY <1>0, <1>a, <1>d, <2>1 DEF JobOk, SupervisorHasRow, PhaseIsAhead, ProcessFollows, HoldsLoop, BetweenProcesses
  <2>4. CancelReached(j)' /\ JobSound(j)'
    BY <1>0, <1>a, <1>d, <2>1 DEF JobOk, SupervisorHasRow, CancelReached, JobSound, Supervised, Alive, Kind, TaskOf
  <2> QED
    BY <1>d, <2>2, <2>3, <2>4, OneJobKeeps DEF JobOk
<1>e. [sup[j] EXCEPT !.installed = TRUE] \in SupRows /\ [sup[j] EXCEPT !.pc = "publish"] \in SupRows
  BY <1>1 DEF SupRows
<1>f. /\ [sup[j] EXCEPT !.installed = TRUE].pc = "prepare"
      /\ [sup[j] EXCEPT !.installed = TRUE].aborted = sup[j].aborted
      /\ [sup[j] EXCEPT !.installed = TRUE].stray = sup[j].stray
      /\ [sup[j] EXCEPT !.pc = "publish"].pc = "publish"
      /\ [sup[j] EXCEPT !.pc = "publish"].aborted = sup[j].aborted
      /\ [sup[j] EXCEPT !.pc = "publish"].stray = sup[j].stray
  BY <1>1, <1>a DEF SupRows
<1>g. CASE row' = row /\ sup' = [sup EXCEPT ![j] = [sup[j] EXCEPT !.installed = TRUE]]
  BY <1>d, <1>e, <1>f, <1>g
<1>h. CASE row' = row /\ sup' = [sup EXCEPT ![j] = [sup[j] EXCEPT !.pc = "publish"]]
  BY <1>d, <1>e, <1>f, <1>h
<1> QED
  BY <1>c, <1>g, <1>h DEF PrepareEnds

\* A publication ends.
LEMMA PublishEndsKeeps ==
  ASSUME JInv, NEW j \in Jobs, PublishEnds(j)
  PROVE  JInv'
<1>0. Typed /\ JobOk(j) /\ j # 0
  BY Plan DEF JInv, Typed
<1>1. row[j] \in RowType /\ proc[j] \in ProcRows /\ sup[j] \in SupRows
  BY <1>0, Fields
<1>2. Only(j) /\ todo' = todo
  BY <1>0, <1>1 DEF PublishEnds, Free, Finish, NoSup, Only, Typed, stable, RowType, Terminal, ProcRows, SupRows
<1>3. row'[j].state = row[j].state \/ (row'[j].state # "running" /\ gateway = "up")
  BY <1>0, <1>1 DEF PublishEnds, Free, Finish, NoSup, Typed, RowType, Terminal
<1>4. SupervisorHasRow(j)'
  BY <1>0, <1>1, <1>2 DEF PublishEnds, Free, Finish, NoSup, Only, Typed, RowType, Terminal, ProcRows, SupRows, JobOk, SupervisorHasRow, PhaseIsAhead, ProcessFollows, HoldsLoop
<1>5. PhaseIsAhead(j)' /\ ProcessFollows(j)'
  BY <1>0, <1>1, <1>2 DEF PublishEnds, Free, Finish, NoSup, Only, Typed, RowType, Terminal, ProcRows, SupRows, JobOk, SupervisorHasRow, PhaseIsAhead, ProcessFollows, HoldsLoop, BetweenProcesses
<1>6. CancelReached(j)' /\ JobSound(j)'
  BY <1>0, <1>1, <1>2 DEF PublishEnds, Free, Finish, NoSup, Only, Typed, RowType, Terminal, ProcRows, SupRows, JobOk, SupervisorHasRow, PhaseIsAhead, ProcessFollows, CancelReached, JobSound, HoldsLoop, BetweenProcesses, Alive, Supervised, Kind, TaskOf
<1> QED
  BY <1>2, <1>3, <1>4, <1>5, <1>6, OneJobKeeps DEF JobOk

\* A verifier's heads are read.
LEMMA HeadsEndKeeps ==
  ASSUME JInv, NEW j \in Jobs, HeadsEnd(j)
  PROVE  JInv'
<1>0. Typed /\ JobOk(j) /\ j # 0
  BY Plan DEF JInv, Typed
<1>1. row[j] \in RowType /\ proc[j] \in ProcRows /\ sup[j] \in SupRows
  BY <1>0, Fields
<1>2. Only(j) /\ todo' = todo
  BY <1>0, <1>1 DEF HeadsEnd, HeadsVerdict, Rejected, Free, Finish, NoSup, Only, Typed, stable, RowType, Terminal, ProcRows, SupRows
<1>3. row'[j].state = row[j].state \/ (row'[j].state # "running" /\ gateway = "up")
  BY <1>0, <1>1 DEF HeadsEnd, HeadsVerdict, Rejected, Free, Finish, NoSup, Typed, RowType, Terminal
<1>4. SupervisorHasRow(j)'
  BY <1>0, <1>1, <1>2 DEF HeadsEnd, HeadsVerdict, Rejected, Free, Finish, NoSup, Only, Typed, RowType, Terminal, ProcRows, SupRows, JobOk, SupervisorHasRow, PhaseIsAhead, ProcessFollows, HoldsLoop
<1>5. PhaseIsAhead(j)' /\ ProcessFollows(j)'
  BY <1>0, <1>1, <1>2 DEF HeadsEnd, HeadsVerdict, Rejected, Free, Finish, NoSup, Only, Typed, RowType, Terminal, ProcRows, SupRows, JobOk, SupervisorHasRow, PhaseIsAhead, ProcessFollows, HoldsLoop, BetweenProcesses
<1>6. CancelReached(j)' /\ JobSound(j)'
  BY <1>0, <1>1, <1>2 DEF HeadsEnd, HeadsVerdict, Rejected, Free, Finish, NoSup, Only, Typed, RowType, Terminal, ProcRows, SupRows, JobOk, SupervisorHasRow, PhaseIsAhead, ProcessFollows, CancelReached, JobSound, HoldsLoop, BetweenProcesses, Alive, Supervised, Kind, TaskOf
<1> QED
  BY <1>2, <1>3, <1>4, <1>5, <1>6, OneJobKeeps DEF JobOk

\* A verifier's worktree is removed.
LEMMA CleanupEndsKeeps ==
  ASSUME JInv, NEW j \in Jobs, CleanupEnds(j)
  PROVE  JInv'
<1>0. Typed /\ JobOk(j) /\ j # 0
  BY Plan DEF JInv, Typed
<1>1. row[j] \in RowType /\ proc[j] \in ProcRows /\ sup[j] \in SupRows
  BY <1>0, Fields
<1>a. /\ gateway = "up" /\ launching = 0 /\ sup[j].pc = "cleanup"
      /\ UNCHANGED <<history, life, task, proc, gateway, launching, todo>>
  BY DEF CleanupEnds, Free, stable
<1>b. ~Alive(j)
  BY <1>0, <1>a DEF JobOk, ProcessFollows, BetweenProcesses, Alive
<1>c. ASSUME NEW v \in Terminal, Finish(j, v), sup' = [sup EXCEPT ![j] = NoSup], sup[j].aborted => v \notin {"passed", "failed"}
      PROVE  JInv'
  BY <1>a, <1>b, <1>c, JobEndsKeeps DEF HoldsLoop
<1>d. CASE row' = row /\ sup' = [sup EXCEPT ![j].pc = "heads"]
  <2> DEFINE s == [sup[j] EXCEPT !.pc = "heads"]
  <2>1. s \in SupRows /\ s.pc = "heads" /\ s.aborted = sup[j].aborted /\ s.stray = sup[j].stray
        /\ sup' = [sup EXCEPT ![j] = s]
    BY <1>1, <1>d DEF SupRows
  <2> HIDE DEF s
  <2>2. sup' \in [Jobs -> SupRows] /\ sup'[j] = s /\ \A k \in Jobs : k # j => sup'[k] = sup[k]
    BY <1>0, <2>1, SupervisorBecomes
  <2>3. Only(j) /\ todo' = todo
    BY <1>0, <1>a, <1>d, <2>2 DEF Only, Typed
  <2>4. SupervisorHasRow(j)' /\ PhaseIsAhead(j)' /\ ProcessFollows(j)'
    BY <1>0, <1>a, <1>d, <2>1, <2>2 DEF JobOk, SupervisorHasRow, PhaseIsAhead, ProcessFollows, HoldsLoop, BetweenProcesses
  <2>5. CancelReached(j)' /\ JobSound(j)'
    BY <1>0, <1>a, <1>d, <2>1, <2>2 DEF JobOk, SupervisorHasRow, CancelReached, JobSound, Supervised, Alive, Kind, TaskOf
  <2> QED
    BY <1>d, <2>3, <2>4, <2>5, OneJobKeeps DEF JobOk
<1>e. Verdict(sup[j], proc[j].ok) \in Terminal /\ (sup[j].aborted => Verdict(sup[j], proc[j].ok) \notin {"passed", "failed"})
  <2>1. proc[j].ok \in BOOLEAN
    BY <1>1 DEF ProcRows
  <2> QED
    BY <1>1, <2>1, VerdictIs
<1>f. Rejected(j) \in Terminal /\ (sup[j].aborted => Rejected(j) \notin {"passed", "failed"})
  BY DEF Rejected, Terminal
<1> QED
  <2> DEFINE v == Verdict(sup[j], proc[j].ok)
             w == Rejected(j)
  <2>1. \/ row' = row /\ sup' = [sup EXCEPT ![j].pc = "heads"]
        \/ Finish(j, v) /\ sup' = [sup EXCEPT ![j] = NoSup]
        \/ Finish(j, w) /\ sup' = [sup EXCEPT ![j] = NoSup]
    BY DEF CleanupEnds
  <2> HIDE DEF v, w
  <2> QED
    BY <1>c, <1>d, <1>e, <1>f, <2>1 DEF v, w

\* A supervised job settles when its group is gone.
LEMMA SettlesKeeps ==
  ASSUME JInv, NEW j \in Jobs, Settles(j)
  PROVE  JInv'
<1>0. Typed /\ JobOk(j) /\ j # 0
  BY Plan DEF JInv, Typed
<1>1. row[j] \in RowType /\ proc[j] \in ProcRows /\ sup[j] \in SupRows
  BY <1>0, Fields
<1>a. /\ gateway = "up" /\ launching = 0 /\ sup[j].pc = "watch" /\ Supervised(j) /\ Gone(j)
      /\ UNCHANGED <<history, life, task, gateway, launching, todo>>
  BY DEF Settles, Watching, Free, stable
<1>b. ~Alive(j)
  BY <1>a DEF Gone, Present, Alive
<1>c. ASSUME NEW v \in Terminal, JobEnds(j, v), sup[j].aborted => v \notin {"passed", "failed"}
      PROVE  JInv'
  BY <1>a, <1>b, <1>c, JobEndsKeeps DEF JobEnds, HoldsLoop
<1>d. CASE GoesOn(j)
  <2> DEFINE s == [NoSup EXCEPT !.pc = NextStage(j), !.installed = TRUE, !.aborted = sup[j].aborted,
                     !.killedBy = sup[j].killedBy, !.stray = sup[j].stray]
             p == [NoProc EXCEPT !.ok = proc[j].ok]
  <2>1. NextStage(j) \in {"publish", "prepare", "cleanup"}
    BY DEF NextStage
  <2>2. s \in SupRows /\ s.pc \in {"publish", "prepare", "cleanup"} /\ s.aborted = sup[j].aborted /\ s.stray = sup[j].stray
    BY <1>1, <2>1 DEF NoSup, SupRows
  <2>3. p \in ProcRows /\ p.leader = "none" /\ ~p.members
    BY <1>1 DEF NoProc, ProcRows
  <2>4. sup' = [sup EXCEPT ![j] = s] /\ proc' = [proc EXCEPT ![j] = p] /\ row' = row
    BY <1>d DEF GoesOn
  <2> HIDE DEF s, p
  <2>5. sup' \in [Jobs -> SupRows] /\ sup'[j] = s /\ \A k \in Jobs : k # j => sup'[k] = sup[k]
    BY <1>0, <2>2, <2>4, SupervisorBecomes
  <2>6. proc' \in [Jobs -> ProcRows] /\ proc'[j] = p /\ \A k \in Jobs : k # j => proc'[k] = proc[k]
    BY <1>0, <2>3, <2>4 DEF Typed
  <2>7. Only(j) /\ todo' = todo
    BY <1>0, <1>a, <2>4, <2>5, <2>6 DEF Only, Typed
  <2>8. SupervisorHasRow(j)' /\ PhaseIsAhead(j)' /\ ProcessFollows(j)'
    BY <1>0, <1>a, <2>2, <2>3, <2>4, <2>5, <2>6 DEF JobOk, SupervisorHasRow, PhaseIsAhead, ProcessFollows, HoldsLoop, BetweenProcesses
  <2>9. CancelReached(j)' /\ JobSound(j)'
    BY <1>0, <1>a, <2>2, <2>3, <2>4, <2>5, <2>6 DEF JobOk, SupervisorHasRow, CancelReached, JobSound, Supervised, Alive, Kind, TaskOf
  <2> QED
    BY <2>4, <2>7, <2>8, <2>9, OneJobKeeps DEF JobOk
<1> DEFINE verdict == Verdict(sup[j], proc[j].ok)
           ended == IF Kind(j) = "host-verifier" \/ sup[j].killedBy = "failure" THEN Rejected(j) ELSE verdict
<1>e. verdict \in Terminal /\ (sup[j].aborted => verdict \notin {"passed", "failed"})
  <2>1. proc[j].ok \in BOOLEAN
    BY <1>1 DEF ProcRows
  <2> QED
    BY <1>1, <2>1, VerdictIs
<1>f. ended \in Terminal /\ (sup[j].aborted => ended \notin {"passed", "failed"})
  <2> HIDE DEF verdict
  <2> QED
    BY <1>e DEF Rejected, Terminal
<1>g. JobEnds(j, verdict) \/ GoesOn(j) \/ JobEnds(j, ended)
  BY DEF Settles
<1> HIDE DEF verdict, ended
<1> QED
  BY <1>c, <1>d, <1>e, <1>f, <1>g

\* A deployment settles when its pipes close.
LEMMA HostClosesKeeps ==
  ASSUME JInv, NEW j \in Jobs, HostCloses(j)
  PROVE  JInv'
<1>0. Typed /\ JobOk(j) /\ j # 0
  BY Plan DEF JInv, Typed
<1>1. row[j] \in RowType /\ proc[j] \in ProcRows /\ sup[j] \in SupRows
  BY <1>0, Fields
<1>2. Only(j) /\ todo' = todo
  BY <1>0, <1>1 DEF HostCloses, Verdict, Watching, Free, Finish, NoSup, Only, Typed, stable, RowType, Terminal, ProcRows, SupRows
<1>3. row'[j].state = row[j].state \/ (row'[j].state # "running" /\ gateway = "up")
  BY <1>0, <1>1 DEF HostCloses, Verdict, Watching, Free, Finish, NoSup, Typed, RowType, Terminal
<1>4. SupervisorHasRow(j)'
  BY <1>0, <1>1, <1>2 DEF HostCloses, Verdict, Watching, Free, Finish, NoSup, Only, Typed, RowType, Terminal, ProcRows, SupRows, JobOk, SupervisorHasRow, PhaseIsAhead, ProcessFollows, HoldsLoop
<1>5. PhaseIsAhead(j)' /\ ProcessFollows(j)'
  BY <1>0, <1>1, <1>2 DEF HostCloses, Verdict, Watching, Free, Finish, NoSup, Only, Typed, RowType, Terminal, ProcRows, SupRows, JobOk, SupervisorHasRow, PhaseIsAhead, ProcessFollows, HoldsLoop, BetweenProcesses
<1>6. CancelReached(j)' /\ JobSound(j)'
  BY <1>0, <1>1, <1>2 DEF HostCloses, Verdict, Watching, Free, Finish, NoSup, Only, Typed, RowType, Terminal, ProcRows, SupRows, JobOk, SupervisorHasRow, PhaseIsAhead, ProcessFollows, CancelReached, JobSound, HoldsLoop, BetweenProcesses, Alive, Supervised, Kind, TaskOf
<1> QED
  BY <1>2, <1>3, <1>4, <1>5, <1>6, OneJobKeeps DEF JobOk

\* A cancellation is on record before the supervisor is told.
LEMMA CancelKeeps ==
  ASSUME JInv, NEW j \in Jobs, Cancel(j)
  PROVE  JInv'
<1>0. Typed /\ JobOk(j) /\ j # 0
  BY Plan DEF JInv, Typed
<1>1. row[j] \in RowType /\ proc[j] \in ProcRows /\ sup[j] \in SupRows
  BY <1>0, Fields
<1>2. Only(j) /\ todo' = todo
  BY <1>0, <1>1 DEF Cancel, Stopped, Free, Only, Typed, stable, RowType, Terminal, ProcRows, SupRows
<1>3. row'[j].state = row[j].state \/ (row'[j].state # "running" /\ gateway = "up")
  BY <1>0, <1>1 DEF Cancel, Stopped, Free, Typed, RowType, Terminal
<1>4. SupervisorHasRow(j)'
  BY <1>0, <1>1, <1>2 DEF Cancel, Stopped, Free, Only, Typed, RowType, Terminal, ProcRows, SupRows, JobOk, SupervisorHasRow, PhaseIsAhead, ProcessFollows, HoldsLoop
<1>5. PhaseIsAhead(j)' /\ ProcessFollows(j)'
  BY <1>0, <1>1, <1>2 DEF Cancel, Stopped, Free, Only, Typed, RowType, Terminal, ProcRows, SupRows, JobOk, SupervisorHasRow, PhaseIsAhead, ProcessFollows, HoldsLoop, BetweenProcesses
<1>6. CancelReached(j)' /\ JobSound(j)'
  BY <1>0, <1>1, <1>2 DEF Cancel, Stopped, Free, Only, Typed, RowType, Terminal, ProcRows, SupRows, JobOk, SupervisorHasRow, PhaseIsAhead, ProcessFollows, CancelReached, JobSound, HoldsLoop, BetweenProcesses, Alive, Supervised, Kind, TaskOf
<1> QED
  BY <1>2, <1>3, <1>4, <1>5, <1>6, OneJobKeeps DEF JobOk

\* Admission keeps the counts within the policy.
LEMMA ReserveKeeps ==
  ASSUME JInv, NEW j \in Jobs, Reserve(j)
  PROVE  JInv'
<1>0. Typed /\ JobOk(j) /\ j # 0 /\ Counted
  BY Plan DEF JInv, Typed
<1>1. row[j] \in RowType /\ proc[j] \in ProcRows /\ sup[j] \in SupRows
  BY <1>0, Fields
<1> DEFINE r == [NoRow EXCEPT !.state = "running", !.phase = "preparing", !.owner = life]
           s == [sup[j] EXCEPT !.pc = "launch"]
<1>2. /\ gateway = "up" /\ launching = 0 /\ row[j].state = "none" /\ Admitted(j)
      /\ row' = [row EXCEPT ![j] = r] /\ sup' = [sup EXCEPT ![j] = s] /\ launching' = j
      /\ UNCHANGED <<history, life, task, proc, gateway, todo>>
  BY DEF Reserve, Free, stable
<1>3. life \in 0..MaxLives /\ todo = {}
  BY <1>0, <1>2, Plan DEF Typed, JInv
<1>4. /\ r \in RowType /\ r.state = "running" /\ r.phase = "preparing" /\ r.owner = life
      /\ ~r.pgid /\ ~r.cancel
  BY <1>3 DEF NoRow, RowType
<1>5. s \in SupRows /\ s.pc = "launch" /\ s.aborted = sup[j].aborted /\ s.stray = sup[j].stray
  BY <1>1 DEF SupRows
<1> HIDE DEF r, s
<1>6. row' \in [Jobs -> RowType] /\ row'[j] = r /\ \A k \in Jobs : k # j => row'[k] = row[k]
  BY <1>0, <1>2, <1>4 DEF Typed
<1>7. sup' \in [Jobs -> SupRows] /\ sup'[j] = s /\ \A k \in Jobs : k # j => sup'[k] = sup[k]
  BY <1>0, <1>2, <1>5, SupervisorBecomes
<1>8. Only(j)
  BY <1>0, <1>2, <1>6, <1>7 DEF Only, Typed
<1>9. SupervisorHasRow(j)' /\ PhaseIsAhead(j)' /\ ProcessFollows(j)'
  BY <1>0, <1>2, <1>4, <1>5, <1>6, <1>7 DEF JobOk, SupervisorHasRow, PhaseIsAhead, ProcessFollows, HoldsLoop, BetweenProcesses
<1>10. CancelReached(j)' /\ JobSound(j)'
  BY <1>0, <1>2, <1>4, <1>5, <1>6, <1>7 DEF Admitted, JobOk, CancelReached, JobSound, Terminal, Supervised, Kind, TaskOf
<1>11. /\ Typed' /\ (\A k \in Jobs' : JobOk(k)')
       /\ todo' \subseteq Active' /\ (todo' # {} => gateway' = "starting")
  BY <1>2, <1>3, <1>8, <1>9, <1>10, OneJob DEF JobOk
<1>12. Counted'
  <2>0. Jobs' = Jobs /\ history' = history /\ \A k \in Jobs : Kind(k)' = Kind(k) /\ TaskOf(k)' = TaskOf(k)
    BY <1>2 DEF Jobs, Kind, TaskOf
  <2>1. Active' = Active \cup {j} /\ j \notin Active
    BY <1>2, <1>4, <1>6, <2>0 DEF Active
  <2>2. IsFiniteSet(Active) /\ \A t \in Tasks : IsFiniteSet(ActiveOf(t))
    BY <1>0, Plan, FS_Subset DEF Active, ActiveOf, Typed
  <2>3. Cardinality(Active') = Cardinality(Active) + 1 /\ Cardinality(Active) \in Nat
    BY <2>1, <2>2, FS_AddElement, FS_CardinalityType
  <2>4. Cardinality(Active') <= history'.globalJobs
    <3>1. Cardinality(Active) < history.globalJobs /\ history.globalJobs \in Nat
      BY <1>0, <1>2, Plan DEF Admitted, Typed
    <3> QED
      BY <2>0, <2>3, <3>1
  <2>5. ASSUME NEW t \in Tasks PROVE Cardinality(ActiveOf(t)') <= PerTaskJobs
    <3>1. CASE t = TaskOf(j)
      <4>1. ActiveOf(t)' = ActiveOf(t) \cup {j} /\ j \notin ActiveOf(t)
        BY <2>0, <2>1, <3>1 DEF ActiveOf, Active
      <4>2. Cardinality(ActiveOf(t)') = Cardinality(ActiveOf(t)) + 1 /\ Cardinality(ActiveOf(t)) \in Nat
        BY <2>2, <4>1, FS_AddElement, FS_CardinalityType
      <4>3. Cardinality(ActiveOf(t)) < PerTaskJobs /\ PerTaskJobs \in Nat
        BY <1>2, <3>1, JobSupervisionAssumption DEF Admitted
      <4> QED
        BY <4>2, <4>3
    <3>2. CASE t # TaskOf(j)
      <4>1. ActiveOf(t)' = ActiveOf(t)
        BY <2>0, <2>1, <3>2 DEF ActiveOf, Active
      <4> QED
        BY <1>0, <4>1 DEF Counted
    <3> QED
      BY <3>1, <3>2
  <2>6. \A i, k \in Active' : Kind(i)' = "host-verifier" /\ Kind(k)' = "host-verifier" => i = k
    <3>1. Active \subseteq Jobs
      BY DEF Active
    <3> QED
      BY <1>0, <1>2, <2>0, <2>1, <3>1 DEF Counted, Admitted
  <2> QED
    BY <2>4, <2>5, <2>6 DEF Counted
<1> QED
  BY <1>11, <1>12 DEF JInv

\* A dead Gateway's row ends only when nothing can be left of its job.
LEMMA ReconcileKeeps ==
  ASSUME JInv, NEW j \in Jobs, Reconcile(j)
  PROVE  JInv'
<1>0. Typed /\ JobOk(j) /\ j # 0
  BY Plan DEF JInv, Typed
<1>1. /\ gateway = "starting" /\ j \in todo /\ todo' = todo \ {j}
      /\ UNCHANGED <<history, life, task, proc, sup, gateway, launching>>
  BY DEF Reconcile, stable
<1>2. sup[j].pc = "none" /\ row[j].state = "running"
  BY <1>0, <1>1 DEF JobOk, SupervisorHasRow, JInv, Active
<1>3. CASE row' = row
  <2>1. Only(j)
    BY <1>0, <1>1, <1>3 DEF Only, Typed
  <2>2. SupervisorHasRow(j)' /\ PhaseIsAhead(j)' /\ ProcessFollows(j)'
    BY <1>0, <1>1, <1>3 DEF JobOk, SupervisorHasRow, PhaseIsAhead, ProcessFollows
  <2>3. CancelReached(j)' /\ JobSound(j)'
    BY <1>0, <1>1, <1>3 DEF JobOk, CancelReached, JobSound, Alive, Supervised, Kind, TaskOf
  <2>4. row'[j].state = "running" => row[j].state = "running"
    BY <1>2
  <2> QED
    BY <1>1, <2>1, <2>2, <2>3, <2>4, OneJob DEF JobOk, JInv
<1>4. CASE Finish(j, "killed") /\ ~Unsettled(j) /\ ~(row[j].pgid /\ Present(j))
  <2>1. "killed" \in Terminal
    BY DEF Terminal
  <2> DEFINE v == "killed"
  <2>2. v \in Terminal /\ Finish(j, v) /\ v \notin {"none", "running", "passed", "failed"}
    BY <1>4, <2>1
  <2> HIDE DEF v
  <2>3. /\ row' \in [Jobs -> RowType] /\ \A k \in Jobs : k # j => row'[k] = row[k]
        /\ row'[j].state = v /\ row'[j].pgid = row[j].pgid /\ row'[j].phase = row[j].phase
        /\ row'[j].owner = row[j].owner /\ row'[j].cancel = row[j].cancel
    BY <1>0, <2>2, RowEnds
  <2>4. ~Alive(j)
    <3>1. CASE row[j].pgid
      BY <1>4, <3>1 DEF Present, Alive
    <3>2. CASE ~row[j].pgid
      <4>1. row[j].phase = "preparing"
        BY <1>4, <3>2 DEF Unsettled
      <4> QED
        BY <1>0, <4>1 DEF JobOk, ProcessFollows, Alive
    <3> QED
      BY <3>1, <3>2
  <2>5. Only(j)
    BY <1>0, <1>1, <2>3 DEF Only, Typed
  <2>6. SupervisorHasRow(j)' /\ PhaseIsAhead(j)' /\ ProcessFollows(j)'
    BY <1>0, <1>1, <1>2, <2>2, <2>3 DEF JobOk, SupervisorHasRow, PhaseIsAhead, ProcessFollows, BetweenProcesses
  <2>7. CancelReached(j)' /\ JobSound(j)'
    BY <1>0, <1>1, <1>2, <2>2, <2>3, <2>4 DEF JobOk, CancelReached, JobSound, Alive, Supervised, Kind, TaskOf
  <2> QED
    BY <1>1, <2>2, <2>3, <2>5, <2>6, <2>7, OneJob DEF JobOk, JInv
<1> QED
  BY <1>3, <1>4 DEF Reconcile

\* Steps of the tasks and of the Gateway, which leave the rows alone.
LEMMA RowsStand ==
  ASSUME JInv, history' = history, row' = row, Typed', \A j \in Jobs : JobOk(j)',
         todo' \subseteq Active, todo' # {} => gateway' = "starting"
  PROVE  JInv'
<1>1. Jobs' = Jobs /\ \A k \in Jobs : Kind(k)' = Kind(k) /\ TaskOf(k)' = TaskOf(k)
  BY DEF Jobs, Kind, TaskOf
<1>2. Active' = Active /\ \A t \in Tasks : ActiveOf(t)' = ActiveOf(t)
  BY <1>1 DEF Active, ActiveOf
<1>3. Counted'
  <2>1. Active \subseteq Jobs
    BY DEF Active
  <2> QED
    BY <1>1, <1>2, <2>1 DEF JInv, Counted
<1> QED
  BY <1>1, <1>2, <1>3 DEF JInv

\* A task is opened before its jobs, and closes after them.
LEMMA TaskStepKeeps ==
  ASSUME JInv, NEW t \in Tasks, TaskOpens(t) \/ CloseStarts(t) \/ CloseEnds(t)
  PROVE  JInv'
<1>0. Typed /\ \A j \in Jobs : JobOk(j)
  BY DEF JInv
<1>1. UNCHANGED <<history, life, row, proc, sup, gateway, launching, todo>>
  BY DEF TaskOpens, CloseStarts, CloseEnds, stable
<1>2. PICK v \in {"READY", "closing", "CLOSED"} :
        /\ task' = [task EXCEPT ![t] = v]
        /\ task[t] # "READY" \/ ActiveOf(t) = {}
  BY DEF TaskOpens, CloseStarts, CloseEnds
<1>3. Jobs' = Jobs /\ Typed'
  BY <1>0, <1>1, <1>2 DEF Jobs, Typed
<1>4. ASSUME NEW j \in Jobs PROVE JobOk(j)'
  <2>1. JobOk(j) /\ TaskOf(j) \in Tasks
    BY <1>0, Plan DEF Typed
  <2>2. SupervisorHasRow(j)' /\ PhaseIsAhead(j)' /\ ProcessFollows(j)'
    BY <1>1, <2>1 DEF JobOk, SupervisorHasRow, PhaseIsAhead, ProcessFollows
  <2>3. row[j].state = "running" => task[TaskOf(j)] = "READY" /\ TaskOf(j) # t
    BY <1>2, <2>1 DEF JobOk, JobSound, ActiveOf, Active
  <2>4. row[j].state = "running" => task'[TaskOf(j)] = "READY"
    BY <1>0, <1>2, <2>1, <2>3 DEF Typed
  <2>5. CancelReached(j)' /\ JobSound(j)'
    BY <1>1, <2>1, <2>4 DEF JobOk, CancelReached, JobSound, Alive, Supervised, Kind, TaskOf
  <2> QED
    BY <2>2, <2>5 DEF JobOk
<1> QED
  BY <1>0, <1>1, <1>3, <1>4, RowsStand DEF JInv

\* The Gateway dies: its supervisors are gone, the groups are not.
LEMMA CrashKeeps ==
  ASSUME JInv, Crash
  PROVE  JInv'
<1>0. Typed /\ \A j \in Jobs : JobOk(j) /\ j # 0
  BY Plan DEF JInv, Typed
<1>1. /\ gateway' = "down" /\ life < history.lives /\ launching' = 0 /\ todo' = {}
      /\ sup' = [j \in Jobs |-> NoSup]
      /\ proc' = [j \in Jobs |-> [proc[j] EXCEPT !.leader = IF @ = "zombie" THEN "gone" ELSE @]]
      /\ UNCHANGED <<history, life, task, row>>
  BY DEF Crash, stable
<1>2. \A j \in Jobs : /\ proc'[j] \in ProcRows /\ proc'[j].members = proc[j].members
                      /\ proc'[j].leader = "live" <=> proc[j].leader = "live"
                      /\ proc'[j].leader = "none" <=> proc[j].leader = "none"
  <2> SUFFICES ASSUME NEW j \in Jobs
               PROVE  /\ proc'[j] \in ProcRows /\ proc'[j].members = proc[j].members
                      /\ proc'[j].leader = "live" <=> proc[j].leader = "live"
                      /\ proc'[j].leader = "none" <=> proc[j].leader = "none"
    OBVIOUS
  <2>1. proc[j] \in ProcRows
    BY <1>0 DEF Typed
  <2>2. proc'[j] = [proc[j] EXCEPT !.leader = IF @ = "zombie" THEN "gone" ELSE @]
    BY <1>1
  <2> QED
    BY <2>1, <2>2 DEF ProcRows
<1>3. Jobs' = Jobs /\ Typed'
  <2>1. Jobs' = Jobs
    BY <1>1 DEF Jobs
  <2>2. proc' \in [Jobs -> ProcRows]
    BY <1>1, <1>2
  <2>3. sup' \in [Jobs -> SupRows]
    BY <1>1, Blank
  <2> QED
    BY <1>0, <1>1, <2>1, <2>2, <2>3 DEF Typed
<1>4. ASSUME NEW j \in Jobs PROVE JobOk(j)'
  <2>1. JobOk(j) /\ j # 0
    BY <1>0
  <2>2. sup'[j] = NoSup /\ NoSup.pc = "none" /\ ~NoSup.aborted /\ ~NoSup.stray
    BY <1>1, Blank
  <2>3. SupervisorHasRow(j)' /\ PhaseIsAhead(j)' /\ ProcessFollows(j)'
    BY <1>1, <1>2, <2>1, <2>2 DEF JobOk, SupervisorHasRow, PhaseIsAhead, ProcessFollows, HoldsLoop, BetweenProcesses
  <2>4. CancelReached(j)' /\ JobSound(j)'
    BY <1>1, <1>2, <2>1, <2>2 DEF JobOk, CancelReached, JobSound, Alive, Supervised, Kind, TaskOf
  <2> QED
    BY <2>3, <2>4 DEF JobOk
<1> QED
  BY <1>1, <1>3, <1>4, RowsStand

\* The next Gateway starts up.
LEMMA StartKeeps ==
  ASSUME JInv, Restart \/ Listens
  PROVE  JInv'
<1>0. Typed /\ \A j \in Jobs : JobOk(j)
  BY DEF JInv
<1>1. /\ UNCHANGED <<history, task, row, proc, sup, launching>>
      /\ \/ gateway = "down" /\ gateway' = "starting" /\ life' = life + 1 /\ todo' = Active
         \/ gateway = "starting" /\ gateway' = "up" /\ life' = life /\ todo = {} /\ todo' = {}
  BY DEF Restart, Listens, stable
<1>2. Jobs' = Jobs
  BY <1>1 DEF Jobs
<1>3. Typed'
  <2>1. history.lives \in Nat
    BY <1>0, Plan DEF Typed
  <2> QED
    BY <1>0, <1>1, <1>2, <2>1 DEF Typed
<1>4. ASSUME NEW j \in Jobs PROVE JobOk(j)'
  <2>1. JobOk(j) /\ sup[j].pc = "none"
    BY <1>0, <1>1 DEF JobOk, SupervisorHasRow
  <2>2. SupervisorHasRow(j)' /\ PhaseIsAhead(j)' /\ ProcessFollows(j)'
    BY <1>1, <2>1 DEF JobOk, SupervisorHasRow, PhaseIsAhead, ProcessFollows, HoldsLoop
  <2>3. CancelReached(j)' /\ JobSound(j)'
    BY <1>1, <2>1 DEF JobOk, CancelReached, JobSound, Alive, Supervised, Kind, TaskOf
  <2> QED
    BY <2>2, <2>3 DEF JobOk
<1> QED
  BY <1>1, <1>3, <1>4, RowsStand

\* The invariant holds at the start.
LEMMA JInit == Init => JInv
<1> SUFFICES ASSUME Init PROVE JInv
  OBVIOUS
<1>1. history \in Histories
  BY DEF Init
<1>2. \A j \in Jobs : row[j] = NoRow /\ proc[j] = NoProc /\ sup[j] = NoSup /\ j # 0
  BY <1>1, Plan DEF Init
<1>3. NoRow \in RowType /\ NoRow.state = "none" /\ ~NoRow.pgid /\ ~NoRow.cancel
  BY JobSupervisionAssumption DEF NoRow, RowType
<1>4. Typed
  BY <1>1, <1>3, Blank, Plan DEF Init, Typed
<1>5. ASSUME NEW j \in Jobs PROVE JobOk(j)
  <2>1. row[j] = NoRow /\ proc[j] = NoProc /\ sup[j] = NoSup /\ launching # j /\ launching = 0
    BY <1>2 DEF Init
  <2>2. SupervisorHasRow(j) /\ PhaseIsAhead(j) /\ ProcessFollows(j)
    BY <1>3, <2>1, Blank DEF SupervisorHasRow, PhaseIsAhead, ProcessFollows, HoldsLoop
  <2>3. CancelReached(j) /\ JobSound(j)
    BY <1>3, <2>1, Blank DEF CancelReached, JobSound, Terminal
  <2> QED
    BY <2>2, <2>3 DEF JobOk
<1>6. Active = {} /\ \A t \in Tasks : ActiveOf(t) = {}
  BY <1>2, <1>3 DEF Active, ActiveOf
<1>7. Counted
  <2>1. history.globalJobs \in Nat /\ PerTaskJobs \in Nat
    BY <1>1, Plan, JobSupervisionAssumption
  <2> QED
    BY <1>6, <2>1, FS_EmptySet DEF Counted
<1> QED
  BY <1>4, <1>5, <1>6, <1>7 DEF JInv, Init

\* Every step of the jobs keeps the invariant.
LEMMA JStep == JInv /\ [Next]_vars => JInv'
<1> SUFFICES ASSUME JInv, [Next]_vars PROVE JInv'
  OBVIOUS
<1>1. ASSUME NEW j \in Jobs, Supervise(j) PROVE JInv'
  BY <1>1, LaunchFailsKeeps, LaunchesKeeps, SpawnKeeps, RecordPgidKeeps, RecordFailsKeeps, ReapKeeps,
     HardKillKeeps, UncertainKeeps, SettlesKeeps, PrepareEndsKeeps, PublishEndsKeeps, CleanupEndsKeeps,
     HeadsEndKeeps DEF Supervise
<1>2. ASSUME NEW j \in Jobs,
             \/ Reserve(j) \/ PipesClose(j) \/ Overruns(j) \/ Cancel(j) \/ Reconcile(j)
             \/ Forks(j) \/ LeaderExits(j) \/ MembersExit(j)
      PROVE  JInv'
  BY <1>2, ReserveKeeps, ClosesKeeps, HostClosesKeeps, OverrunsKeeps, CancelKeeps, ReconcileKeeps,
     ForksKeeps, LeaderExitsKeeps, MembersExitKeeps DEF PipesClose
<1>3. ASSUME NEW t \in Tasks, TaskOpens(t) \/ CloseStarts(t) \/ CloseEnds(t) PROVE JInv'
  BY <1>3, TaskStepKeeps
<1>4. CASE Crash
  BY <1>4, CrashKeeps
<1>5. CASE Restart \/ Listens
  BY <1>5, StartKeeps
<1>6. CASE UNCHANGED vars
  <2>0. Typed /\ \A j \in Jobs : JobOk(j)
    BY DEF JInv
  <2>1. UNCHANGED <<history, life, task, row, proc, sup, gateway, launching, todo>>
    BY <1>6 DEF vars, stable
  <2>2. Typed'
    BY <2>0, <2>1 DEF Typed, Jobs
  <2>3. ASSUME NEW j \in Jobs PROVE JobOk(j)'
    <3>1. JobOk(j)
      BY <2>0
    <3>2. SupervisorHasRow(j)' /\ PhaseIsAhead(j)' /\ ProcessFollows(j)'
      BY <2>1, <3>1 DEF JobOk, SupervisorHasRow, PhaseIsAhead, ProcessFollows
    <3>3. CancelReached(j)' /\ JobSound(j)'
      BY <2>1, <3>1 DEF JobOk, CancelReached, JobSound, Alive, Supervised, Kind, TaskOf
    <3> QED
      BY <3>2, <3>3 DEF JobOk
  <2> QED
    BY <2>1, <2>2, <2>3, RowsStand DEF JInv
<1> QED
  BY <1>1, <1>2, <1>3, <1>4, <1>5, <1>6 DEF Next

-----------------------------------------------------------------------------
(* What the invariant says of the jobs, beside retention.                   *)

\* Every step of the host is one of the jobs, or leaves them alone.
LEMMA HostSteps == [HostNext]_hostVars => [Next]_vars
<1> SUFFICES ASSUME [HostNext]_hostVars PROVE [Next]_vars
  OBVIOUS
<1>1. JobStep => Next
  BY DEF JobStep
<1>2. ~JobStep /\ HostNext => UNCHANGED vars
  BY DEF HostNext, MergeRecorded, Plans, Maintains, Commits, RollsBack, Purges, Leaves, Retires, Skips
<1>3. UNCHANGED hostVars => UNCHANGED vars
  BY DEF hostVars
<1> QED
  BY <1>1, <1>2, <1>3

\* The invariant of the jobs holds whatever is retired meanwhile.
THEOREM JInvAlways == HostSpec => []JInv
<1>1. HostInit => JInv
  BY JInit DEF HostInit
<1>2. JInv /\ [HostNext]_hostVars => JInv'
  BY JStep, HostSteps
<1> QED
  BY <1>1, <1>2, PTL DEF HostSpec

\* Whatever lives has a row that runs, if it is supervised.
LEMMA LivingIsActive ==
  ASSUME JInv, NEW j \in Jobs, Supervised(j), Alive(j)
  PROVE  j \in Active
<1>1. row[j] \in RowType /\ JobOk(j)
  BY DEF JInv, Typed
<1>2. row[j].state # "none"
  BY <1>1 DEF JobOk, ProcessFollows, Alive
<1>3. row[j].state \notin Terminal
  BY <1>1 DEF JobOk, JobSound
<1> QED
  BY <1>1, <1>2, <1>3 DEF RowType, Active

\* Neither a finished row nor a closed task has anything left running, through crashes and restarts.
THEOREM NothingEverLeftRunning == HostSpec => []NothingLeftRunning
<1>1. JInv => NothingLeftRunning
  <2> SUFFICES ASSUME JInv PROVE NothingLeftRunning
    OBVIOUS
  <2>1. FinishedIsExtinct
    BY DEF JInv, JobOk, JobSound, FinishedIsExtinct
  <2>2. ClosedIsQuiet
    <3> SUFFICES ASSUME NEW j \in Jobs, Supervised(j), task[TaskOf(j)] # "READY", Alive(j) PROVE FALSE
      BY DEF ClosedIsQuiet
    <3>1. row[j].state = "running"
      BY LivingIsActive DEF Active
    <3> QED
      BY <3>1 DEF JInv, JobOk, JobSound
  <2> QED
    BY <2>1, <2>2 DEF NothingLeftRunning
<1> QED
  BY <1>1, JInvAlways, PTL

\* What runs is counted, signalled by its owner only, and never passes once cancelled.
THEOREM JobInvAlways == HostSpec => []JobInv
<1>1. JInv => JobInv
  <2> SUFFICES ASSUME JInv PROVE JobInv
    OBVIOUS
  <2>0. Typed /\ Counted /\ todo \subseteq Active /\ \A j \in Jobs : JobOk(j)
    BY DEF JInv
  <2>1. TypeOK
    <3>1. \A j \in Jobs : /\ proc[j].leader \in {"none", "live", "zombie", "gone"}
                          /\ sup[j].pc # "none" => row[j].state = "running" /\ row[j].owner = life
                          /\ row[j].pgid => row[j].phase \in {"running", "uncertain"}
      <4> SUFFICES ASSUME NEW j \in Jobs
                   PROVE  /\ proc[j].leader \in {"none", "live", "zombie", "gone"}
                          /\ sup[j].pc # "none" => row[j].state = "running" /\ row[j].owner = life
                          /\ row[j].pgid => row[j].phase \in {"running", "uncertain"}
        OBVIOUS
      <4>1. proc[j] \in ProcRows /\ JobOk(j)
        BY <2>0, Fields
      <4> QED
        BY <4>1 DEF ProcRows, JobOk, SupervisorHasRow, PhaseIsAhead
    <3>2. launching # 0 => sup[launching].pc \in {"launch", "spawn", "spawned"}
      BY <2>0 DEF Typed, JobOk, SupervisorHasRow, HoldsLoop
    <3> QED
      BY <2>0, <3>1, <3>2 DEF TypeOK, Typed
  <2>2. WithinCapacity
    <3> DEFINE live == {j \in Jobs : Supervised(j) /\ Alive(j)}
               verifiers == {j \in live : Kind(j) = "host-verifier"}
    <3>1. live \subseteq Active
      BY LivingIsActive
    <3>2. IsFiniteSet(Active) /\ \A t \in Tasks : IsFiniteSet(ActiveOf(t))
      BY <2>0, Plan, FS_Subset DEF Active, ActiveOf, Typed
    <3>3. Cardinality(live) <= history.globalJobs
      <4>1. Cardinality(live) <= Cardinality(Active) /\ Cardinality(live) \in Nat /\ Cardinality(Active) \in Nat
        BY <3>1, <3>2, FS_Subset, FS_CardinalityType
      <4>2. Cardinality(Active) <= history.globalJobs /\ history.globalJobs \in Nat
        BY <2>0, Plan DEF Counted, Typed
      <4> HIDE DEF live
      <4> QED
        BY <4>1, <4>2
    <3>4. ASSUME NEW t \in Tasks PROVE Cardinality({j \in live : TaskOf(j) = t}) <= PerTaskJobs
      <4> DEFINE mine == {j \in live : TaskOf(j) = t}
      <4>1. mine \subseteq ActiveOf(t)
        BY <3>1 DEF ActiveOf
      <4>2. Cardinality(mine) <= Cardinality(ActiveOf(t)) /\ Cardinality(mine) \in Nat /\ Cardinality(ActiveOf(t)) \in Nat
        BY <3>2, <4>1, FS_Subset, FS_CardinalityType
      <4>3. Cardinality(ActiveOf(t)) <= PerTaskJobs /\ PerTaskJobs \in Nat
        BY <2>0, JobSupervisionAssumption DEF Counted
      <4> HIDE DEF mine
      <4> QED
        BY <4>2, <4>3 DEF mine
    <3>5. Cardinality(verifiers) <= 1
      <4>1. \A j, k \in verifiers : j = k
        BY <2>0, <3>1 DEF Counted
      <4> HIDE DEF verifiers
      <4>2. CASE verifiers = {}
        BY <4>2, FS_EmptySet
      <4>3. CASE verifiers # {}
        <5>1. PICK j : verifiers = {j}
          BY <4>1, <4>3
        <5>2. Cardinality({j}) = 1
          BY FS_Singleton
        <5> QED
          BY <5>1, <5>2
      <4> QED
        BY <4>2, <4>3
    <3> QED
      BY <3>3, <3>4, <3>5 DEF WithinCapacity
  <2>3. OwnedSignals /\ CancelledIsNotPassed
    BY <2>0 DEF OwnedSignals, CancelledIsNotPassed, JobOk, JobSound
  <2> QED
    BY <2>1, <2>2, <2>3 DEF JobInv
<1> QED
  BY <1>1, JInvAlways, PTL

-----------------------------------------------------------------------------
(* Retention.                                                               *)

Objects == [name : Nat, last : Nat, moved : Nat, noted : BOOLEAN, lost : BOOLEAN]
Items   == [res : Resources, at : {"name", "aside"}, stamp : Nat]

\* A deletion has its audit row, one more while the object moved waits to be deleted, and a moved
\* directory on record is named by its job's row.
RInv ==
  /\ history \in Histories
  /\ obj \in [Resources -> Objects]
  /\ recorded \in [Resources -> Nat] /\ deleted \in [Resources -> Nat]
  /\ cli \in [pc : {"idle", "apply", "moved", "committed"}, items : SUBSET Items, item : Items]
  /\ \A r \in Resources : deleted[r] <= recorded[r] /\ (r # Cache /\ recorded[r] > 0 => obj[r].noted)
  /\ cli.pc = "committed" => deleted[cli.item.res] < recorded[cli.item.res]
  /\ cli.pc \in {"moved", "committed"} => obj[cli.item.res].moved > 0

\* Stamps give an object a name and change nothing else of it.
LEMMA StampKeeps ==
  ASSUME NEW o \in Objects
  PROVE  /\ Stamped(o) \in Objects /\ Stamped(o).moved = o.moved /\ Stamped(o).noted = o.noted
         /\ [o EXCEPT !.name = 0] \in Objects /\ [o EXCEPT !.name = 0].moved = o.moved
         /\ [o EXCEPT !.name = 0].noted = o.noted
<1>1. o.last + 1 \in Nat
  BY DEF Objects
<1>2. Stamped(o) \in Objects /\ Stamped(o).moved = o.moved /\ Stamped(o).noted = o.noted
  BY <1>1 DEF Stamped, Objects
<1>3. /\ [o EXCEPT !.name = 0] \in Objects /\ [o EXCEPT !.name = 0].moved = o.moved
      /\ [o EXCEPT !.name = 0].noted = o.noted
  BY DEF Objects
<1> QED
  BY <1>2, <1>3

\* The jobs make, refresh and drop objects, and move none.
LEMMA JobsMoveNothing ==
  ASSUME RInv, JobStep
  PROVE  /\ UNCHANGED <<merged, recorded, deleted, cli, plans, history>>
         /\ obj' \in [Resources -> Objects]
         /\ \A r \in Resources : obj'[r].moved = obj[r].moved /\ obj'[r].noted = obj[r].noted
<1>1. UNCHANGED <<merged, recorded, deleted, cli, plans, history>>
  <2>1. history' = history
    BY DEF JobStep, Next, Supervise, LaunchFails, Launches, Spawn, RecordPgid, RecordFails, Reap, HardKill,
           Uncertain, Settles, PrepareEnds, PublishEnds, CleanupEnds, HeadsEnd, Reserve, PipesClose, Closes,
           HostCloses, Overruns, Cancel, Reconcile, Forks, LeaderExits, MembersExit, TaskOpens, CloseStarts,
           CloseEnds, Crash, Restart, Listens, stable
  <2> QED
    BY <2>1 DEF JobStep
<1>2. PICK touched \in BOOLEAN, dropped \in BOOLEAN :
        obj' = [r \in Resources |->
            CASE r = Cache -> IF touched THEN Stamped(obj[r]) ELSE obj[r]
              [] r # Cache /\ MakesTemp(r) -> Stamped(obj[r])
              [] r # Cache /\ DropsTemp(r) /\ dropped -> [obj[r] EXCEPT !.name = 0]
              [] OTHER -> obj[r]]
  BY DEF JobStep
<1>3. ASSUME NEW r \in Resources
      PROVE  obj'[r] \in Objects /\ obj'[r].moved = obj[r].moved /\ obj'[r].noted = obj[r].noted
  <2>1. obj'[r] \in {Stamped(obj[r]), [obj[r] EXCEPT !.name = 0], obj[r]}
    <3> DEFINE a == Stamped(obj[r])
               b == [obj[r] EXCEPT !.name = 0]
    <3>1. obj'[r] = CASE r = Cache -> IF touched THEN a ELSE obj[r]
              [] r # Cache /\ MakesTemp(r) -> a
              [] r # Cache /\ DropsTemp(r) /\ dropped -> b
              [] OTHER -> obj[r]
      BY <1>2
    <3> HIDE DEF a, b
    <3>2. obj'[r] \in {a, b, obj[r]}
      BY <3>1
    <3> QED
      BY <3>2 DEF a, b
  <2>2. obj[r] \in Objects
    BY DEF RInv
  <2> QED
    BY <2>1, <2>2, StampKeeps
<1>4. obj' \in [Resources -> Objects]
  BY <1>2, <1>3
<1> QED
  BY <1>1, <1>3, <1>4

\* An object moved aside or back is an object, with one more or one less of them aside.
LEMMA MoveKeeps ==
  ASSUME NEW o \in Objects, NEW stamp \in Nat
  PROVE  /\ Aside(o) \in Objects /\ Aside(o).moved = o.moved + 1 /\ Aside(o).noted = o.noted
         /\ o.moved > 0 => /\ Back(o, stamp) \in Objects /\ Back(o, stamp).moved = o.moved - 1
                           /\ Back(o, stamp).noted = o.noted
<1>1. o.moved \in Nat
  BY DEF Objects
<1>2. ASSUME NEW n \in Nat, NEW m \in Nat
      PROVE  /\ [o EXCEPT !.name = n, !.moved = m] \in Objects
             /\ [o EXCEPT !.name = n, !.moved = m].moved = m
             /\ [o EXCEPT !.name = n, !.moved = m].noted = o.noted
  <2> DEFINE a == [o EXCEPT !.name = n]
  <2>1. a \in Objects /\ a.noted = o.noted
    BY DEF Objects
  <2>2. [o EXCEPT !.name = n, !.moved = m] = [a EXCEPT !.moved = m]
    OBVIOUS
  <2> HIDE DEF a
  <2>3. /\ [a EXCEPT !.moved = m] \in Objects /\ [a EXCEPT !.moved = m].moved = m
        /\ [a EXCEPT !.moved = m].noted = a.noted
    BY <2>1 DEF Objects
  <2> QED
    BY <2>1, <2>2, <2>3
<1>3. o.moved + 1 \in Nat /\ (o.moved > 0 => o.moved - 1 \in Nat)
  BY <1>1
<1> QED
  BY <1>2, <1>3 DEF Aside, Back

\* An entry of a listing is an item, and one moved aside is there.
LEMMA ListedItems ==
  ASSUME RInv, NEW r \in Resources, NEW i \in Listed(r)
  PROVE  /\ i \in Items /\ i.res = r
         /\ i.at = "name" \/ obj[r].moved > 0
<1>1. obj[r] \in Objects
  BY DEF RInv
<1>2. \/ i = [res |-> r, at |-> "name", stamp |-> obj[r].name]
      \/ i = [res |-> r, at |-> "aside", stamp |-> 0] /\ obj[r].moved > 0
  BY DEF Listed
<1> QED
  BY <1>1, <1>2 DEF Items, Objects

\* The audit rows and the objects of retention stay in step.
LEMMA RStep == RInv /\ [HostNext]_hostVars => RInv'
<1> SUFFICES ASSUME RInv, [HostNext]_hostVars PROVE RInv'
  OBVIOUS
<1>0. /\ history \in Histories /\ obj \in [Resources -> Objects]
      /\ recorded \in [Resources -> Nat] /\ deleted \in [Resources -> Nat]
      /\ cli.pc \in {"idle", "apply", "moved", "committed"} /\ cli.items \in SUBSET Items /\ cli.item \in Items
      /\ cli.item.res \in Resources
      /\ cli \in [pc : {"idle", "apply", "moved", "committed"}, items : SUBSET Items, item : Items]
  BY DEF RInv, Items
<1>1. CASE JobStep
  <2>1. Resources' = Resources
    BY <1>1, JobsMoveNothing DEF Resources, Jobs
  <2>2. Items' = Items
    BY <2>1 DEF Items
  <2>3. /\ UNCHANGED <<recorded, deleted, cli, history>> /\ obj' \in [Resources -> Objects]
        /\ \A r \in Resources : obj'[r].moved = obj[r].moved /\ obj'[r].noted = obj[r].noted
    BY <1>1, JobsMoveNothing
  <2> QED
    BY <1>0, <2>1, <2>2, <2>3 DEF RInv
<1>2. ASSUME history' = history, obj' \in [Resources -> Objects], recorded' = recorded, deleted' = deleted,
             cli' \in [pc : {"idle", "apply", "moved"}, items : SUBSET Items, item : Items],
             \A r \in Resources : obj'[r].noted = obj[r].noted,
             cli'.pc = "moved" => obj'[cli'.item.res].moved > 0
      PROVE  RInv'
  <2>1. Resources' = Resources
    BY <1>2 DEF Resources, Jobs
  <2>2. Items' = Items
    BY <2>1 DEF Items
  <2>3. cli'.pc # "committed" /\ cli' \in [pc : {"idle", "apply", "moved", "committed"}, items : SUBSET Items, item : Items]
    BY <1>2
  <2> QED
    BY <1>0, <1>2, <2>1, <2>2, <2>3 DEF RInv
<1>3. CASE \E t \in Tasks : MergeRecorded(t)
  <2>1. UNCHANGED <<history, obj, recorded, deleted, cli>>
    BY <1>3 DEF MergeRecorded, vars, stable
  <2> QED
    BY <1>0, <2>1 DEF RInv, Resources, Jobs, Items
<1>4. CASE UNCHANGED hostVars
  <2>1. UNCHANGED <<history, obj, recorded, deleted, cli>>
    BY <1>4 DEF hostVars, kept, vars, stable
  <2> QED
    BY <1>0, <2>1 DEF RInv, Resources, Jobs, Items
<1>5. CASE Plans
  <2>1. PICK items \in SUBSET UNION {Listed(r) : r \in {x \in Resources : ~Held(x)}} :
          cli = NoCli /\ cli' = [NoCli EXCEPT !.pc = "apply", !.items = items]
    BY <1>5 DEF Plans
  <2>2. items \in SUBSET Items
    BY <2>1, ListedItems
  <2>3. cli' \in [pc : {"idle", "apply", "moved"}, items : SUBSET Items, item : Items] /\ cli'.pc = "apply"
    BY <1>0, <2>1, <2>2 DEF NoCli
  <2>4. UNCHANGED <<history, obj, recorded, deleted>>
    BY <1>5 DEF Plans, kept, vars, stable
  <2> QED
    BY <1>0, <1>2, <2>3, <2>4
<1>6. ASSUME NEW i \in cli.items, Retires(i) PROVE RInv'
  <2>1. /\ i \in Listed(i.res) /\ UNCHANGED <<history, recorded, deleted>> /\ i \in Items /\ i.res \in Resources
        /\ obj' = [obj EXCEPT ![i.res] = IF i.at = "name" THEN Aside(@) ELSE @]
        /\ cli' = [cli EXCEPT !.pc = "moved", !.item = i, !.items = @ \ {i}]
    BY <1>0, <1>6 DEF Retires, Retirable, vars, stable, Items
  <2> DEFINE o == Aside(obj[i.res])
             o2 == IF i.at = "name" THEN o ELSE obj[i.res]
  <2>2. obj[i.res] \in Objects
    BY <1>0, <2>1
  <2>3. o \in Objects /\ o.moved > 0 /\ o.noted = obj[i.res].noted
    <3>1. obj[i.res].moved \in Nat /\ obj[i.res].moved + 1 \in Nat /\ obj[i.res].moved + 1 > 0
      BY <2>2 DEF Objects
    <3> QED
      BY <2>2, <3>1, MoveKeeps
  <2>4. obj' = [obj EXCEPT ![i.res] = o2]
    <3>1. CASE i.at = "name"
      <4>1. obj' = [obj EXCEPT ![i.res] = Aside(@)]
        BY <2>1, <3>1
      <4> QED
        BY <3>1, <4>1
    <3>2. CASE i.at # "name"
      <4>1. obj' = [obj EXCEPT ![i.res] = @]
        BY <2>1, <3>2
      <4> QED
        BY <3>2, <4>1
    <3> QED
      BY <3>1, <3>2
  <2> HIDE DEF o
  <2>5. o2 \in Objects /\ o2.moved > 0 /\ o2.noted = obj[i.res].noted
    BY <2>1, <2>2, <2>3, ListedItems
  <2> HIDE DEF o2
  <2>6. obj' \in [Resources -> Objects] /\ obj'[i.res] = o2 /\ \A r \in Resources : obj'[r].noted = obj[r].noted
    BY <1>0, <2>1, <2>4, <2>5
  <2>7. /\ cli' \in [pc : {"idle", "apply", "moved"}, items : SUBSET Items, item : Items]
        /\ cli'.pc = "moved" /\ cli'.item = i
    BY <1>0, <2>1
  <2> QED
    BY <1>2, <2>1, <2>5, <2>6, <2>7
<1>7. ASSUME NEW i \in cli.items, Skips(i) PROVE RInv'
  <2>1. /\ cli.pc = "apply" /\ cli' = [cli EXCEPT !.items = @ \ {i}] /\ UNCHANGED <<history, obj, recorded, deleted>>
    BY <1>7 DEF Skips, vars, stable, kept
  <2>2. cli' \in [pc : {"idle", "apply", "moved"}, items : SUBSET Items, item : Items] /\ cli'.pc = "apply"
    BY <1>0, <2>1
  <2> QED
    BY <1>0, <1>2, <2>1, <2>2
<1>8. CASE Commits
  <2> DEFINE c == cli.item.res
  <2>1. /\ cli.pc = "moved" /\ recorded' = [recorded EXCEPT ![c] = @ + 1]
        /\ obj' = [obj EXCEPT ![c].noted = (c # Cache)] /\ cli' = [cli EXCEPT !.pc = "committed"]
        /\ UNCHANGED <<history, deleted>>
    BY <1>8 DEF Commits, vars, stable
  <2>2. c \in Resources /\ obj[c] \in Objects /\ obj[c].moved > 0
    BY <1>0, <2>1 DEF RInv
  <2>3. /\ obj' \in [Resources -> Objects] /\ obj'[c].moved = obj[c].moved /\ obj'[c].noted = (c # Cache)
        /\ \A r \in Resources : r # c => obj'[r] = obj[r]
    BY <1>0, <2>1, <2>2 DEF Objects
  <2>4. /\ recorded' \in [Resources -> Nat] /\ recorded'[c] = recorded[c] + 1
        /\ \A r \in Resources : r # c => recorded'[r] = recorded[r]
    BY <1>0, <2>1, <2>2
  <2>5. /\ cli' \in [pc : {"idle", "apply", "moved", "committed"}, items : SUBSET Items, item : Items]
        /\ cli'.item.res = c
    BY <1>0, <2>1
  <2> HIDE DEF c
  <2>6. /\ deleted[c] \in Nat /\ recorded[c] \in Nat
        /\ \A r \in Resources : deleted[r] <= recorded[r] /\ (r # Cache /\ recorded[r] > 0 => obj[r].noted)
    BY <1>0, <2>2 DEF RInv
  <2>7. ASSUME NEW r \in Resources
        PROVE  deleted[r] <= recorded'[r] /\ (r # Cache /\ recorded'[r] > 0 => obj'[r].noted)
    <3>1. CASE r = c
      <4>1. deleted[c] <= recorded[c]
        BY <2>2, <2>6
      <4>2. deleted[c] <= recorded[c] + 1
        BY <2>6, <4>1
      <4>3. c # Cache => obj'[c].noted
        BY <2>3
      <4> QED
        BY <2>4, <3>1, <4>2, <4>3
    <3>2. CASE r # c
      <4>1. recorded'[r] = recorded[r] /\ obj'[r] = obj[r]
        BY <2>3, <2>4, <3>2
      <4> QED
        BY <2>6, <4>1
    <3> QED
      BY <3>1, <3>2
  <2>8. deleted[c] < recorded'[c] /\ obj'[c].moved > 0
    BY <2>2, <2>3, <2>4, <2>6
  <2>9. Resources' = Resources
    BY <2>1 DEF Resources, Jobs
  <2>10. Items' = Items
    BY <2>9 DEF Items
  <2> QED
    BY <1>0, <2>1, <2>3, <2>4, <2>5, <2>7, <2>8, <2>9, <2>10 DEF RInv
<1>9. CASE RollsBack
  <2> DEFINE c == cli.item.res
             o == IF cli.item.at = "name"
                  THEN Back(obj[c], cli.item.stamp) ELSE obj[c]
  <2>0. /\ obj' = [obj EXCEPT ![c] = IF cli.item.at = "name"
               THEN Back(@, cli.item.stamp) ELSE @]
        /\ cli.pc = "moved" /\ cli' = [cli EXCEPT !.pc = "apply"]
        /\ UNCHANGED <<history, recorded, deleted>>
    BY <1>9 DEF RollsBack, vars, stable
  <2>1. /\ cli.pc = "moved" /\ obj' = [obj EXCEPT ![c] = o] /\ cli' = [cli EXCEPT !.pc = "apply"]
        /\ UNCHANGED <<history, recorded, deleted>>
    <3>1. CASE cli.item.at = "name"
      <4>1. obj' = [obj EXCEPT ![c] = Back(@, cli.item.stamp)]
        BY <2>0, <3>1
      <4> QED
        BY <2>0, <3>1, <4>1
    <3>2. CASE cli.item.at # "name"
      <4>1. obj' = [obj EXCEPT ![c] = @]
        BY <2>0, <3>2
      <4> QED
        BY <2>0, <3>2, <4>1
    <3> QED
      BY <3>1, <3>2
  <2>2. c \in Resources /\ obj[c] \in Objects /\ obj[c].moved > 0 /\ cli.item.stamp \in Nat
    BY <1>0, <2>1 DEF RInv, Items
  <2>3. o \in Objects /\ o.noted = obj[c].noted
    <3>1. obj[c].moved - 1 \in Nat
      BY <2>2 DEF Objects
    <3> QED
      BY <2>2, <3>1, MoveKeeps
  <2> HIDE DEF o
  <2>4. obj' \in [Resources -> Objects] /\ \A r \in Resources : obj'[r].noted = obj[r].noted
    BY <1>0, <2>1, <2>2, <2>3
  <2>5. cli' \in [pc : {"idle", "apply", "moved"}, items : SUBSET Items, item : Items] /\ cli'.pc = "apply"
    BY <1>0, <2>1
  <2> QED
    BY <1>2, <2>1, <2>4, <2>5
<1>10. CASE Purges
  <2> DEFINE c == cli.item.res
  <2>1. /\ cli.pc = "committed" /\ cli' = [cli EXCEPT !.pc = "apply"] /\ UNCHANGED <<history, recorded>>
        /\ \/ obj' = [obj EXCEPT ![c].moved = @ - 1] /\ deleted' = [deleted EXCEPT ![c] = @ + 1]
           \/ UNCHANGED <<obj, deleted>>
    BY <1>10 DEF Purges, vars, stable
  <2>2. /\ c \in Resources /\ obj[c] \in Objects /\ obj[c].moved > 0 /\ deleted[c] < recorded[c]
        /\ deleted[c] \in Nat /\ recorded[c] \in Nat
    BY <1>0, <2>1 DEF RInv
  <2>3. cli' \in [pc : {"idle", "apply", "moved"}, items : SUBSET Items, item : Items] /\ cli'.pc = "apply"
    BY <1>0, <2>1
  <2>4. CASE UNCHANGED <<obj, deleted>>
    BY <1>0, <1>2, <2>1, <2>3, <2>4
  <2>5. CASE obj' = [obj EXCEPT ![c].moved = @ - 1] /\ deleted' = [deleted EXCEPT ![c] = @ + 1]
    <3>1. obj[c].moved - 1 \in Nat
      BY <2>2 DEF Objects
    <3>2. obj' \in [Resources -> Objects] /\ \A r \in Resources : obj'[r].noted = obj[r].noted
      BY <1>0, <2>2, <2>5, <3>1 DEF Objects
    <3>3. deleted' \in [Resources -> Nat] /\ \A r \in Resources : deleted'[r] <= recorded[r]
      <4>1. deleted'[c] = deleted[c] + 1 /\ \A r \in Resources : r # c => deleted'[r] = deleted[r]
        BY <1>0, <2>2, <2>5
      <4>2. deleted' \in [Resources -> Nat]
        BY <1>0, <2>2, <2>5
      <4> HIDE DEF c
      <4> QED
        BY <2>2, <4>1, <4>2 DEF RInv
    <3>4. Resources' = Resources
      BY <2>1 DEF Resources, Jobs
    <3>5. Items' = Items
      BY <3>4 DEF Items
    <3> HIDE DEF c
    <3> QED
      BY <1>0, <2>1, <2>3, <3>2, <3>3, <3>4, <3>5 DEF RInv
  <2> QED
    BY <2>1, <2>4, <2>5
<1>11. CASE Leaves
  <2>1. /\ cli' = NoCli /\ UNCHANGED <<history, recorded, deleted>>
        /\ obj' = obj \/ obj' = [obj EXCEPT ![cli.item.res].lost = TRUE]
    BY <1>11 DEF Leaves, vars, stable
  <2>2. obj' \in [Resources -> Objects] /\ \A r \in Resources : obj'[r].noted = obj[r].noted
    <3> DEFINE c == cli.item.res
               o == [obj[c] EXCEPT !.lost = TRUE]
    <3>1. obj[c] \in Objects /\ c \in Resources
      BY <1>0
    <3>2. o \in Objects /\ o.noted = obj[c].noted
      BY <3>1 DEF Objects
    <3>3. obj' = obj \/ obj' = [obj EXCEPT ![c] = o]
      <4>1. CASE obj' = obj
        BY <4>1
      <4>2. CASE obj' = [obj EXCEPT ![c].lost = TRUE]
        BY <4>2
      <4> QED
        BY <2>1, <4>1, <4>2
    <3> HIDE DEF c, o
    <3>4. CASE obj' = obj
      BY <1>0, <3>4
    <3>5. CASE obj' = [obj EXCEPT ![c] = o]
      BY <1>0, <3>1, <3>2, <3>5
    <3> QED
      BY <3>3, <3>4, <3>5
  <2>3. NoCli \in [pc : {"idle", "apply", "moved"}, items : SUBSET Items, item : Items] /\ NoCli.pc = "idle"
    <3>1. Cache \in Resources
      BY DEF Resources
    <3> QED
      BY <3>1 DEF NoCli, Items
  <2> QED
    BY <1>2, <2>1, <2>2, <2>3
<1> QED
  BY <1>1, <1>3, <1>4, <1>5, <1>6, <1>7, <1>8, <1>9, <1>10, <1>11 DEF HostNext, Maintains

\* Retention starts with an object of the cache and nothing on record.
LEMMA RInit == HostInit => RInv
<1> SUFFICES ASSUME HostInit PROVE RInv
  OBVIOUS
<1>1. NoObject \in Objects /\ Stamped(NoObject) \in Objects
  <2>1. NoObject \in Objects
    BY DEF NoObject, Objects
  <2> QED
    BY <2>1, StampKeeps
<1>2. Cache \in Resources
  BY DEF Resources
<1>3. NoCli \in [pc : {"idle", "apply", "moved", "committed"}, items : SUBSET Items, item : Items] /\ NoCli.pc = "idle"
  BY <1>2 DEF NoCli, Items
<1> QED
  BY <1>1, <1>3 DEF HostInit, Init, RInv

\* A step that moves an object is a retirement under the lock, of what nobody uses.
LEMMA RetirementStep ==
  ASSUME JInv, RInv, [HostNext]_hostVars, NEW r \in Resources, obj'[r].moved > obj[r].moved
  PROVE  ~InUse(r)
<1>0. obj \in [Resources -> Objects] /\ obj[r].moved \in Nat
  BY DEF RInv, Objects
<1>1. ~JobStep
  BY <1>0, JobsMoveNothing
<1>2. ~(Plans \/ Commits \/ Leaves \/ (\E t \in Tasks : MergeRecorded(t)) \/ (\E i \in cli.items : Skips(i)))
      /\ ~UNCHANGED hostVars
  <2>1. ~UNCHANGED obj
    BY <1>0
  <2>2. ~Commits
    BY <1>0, <2>1 DEF Commits, Objects
  <2>3. ~Leaves
    BY <1>0, <2>1 DEF Leaves, Objects
  <2> QED
    BY <2>1, <2>2, <2>3 DEF Plans, MergeRecorded, Skips, kept, hostVars
<1>3. ~RollsBack /\ ~Purges
  <2> DEFINE c == cli.item.res
  <2>1. c \in Resources /\ obj[c] \in Objects /\ obj[c].moved \in Nat
    BY DEF RInv, Items, Objects
  <2>2. ASSUME NEW o \in Objects, obj' = [obj EXCEPT ![c] = o], o.moved <= obj[c].moved PROVE FALSE
    <3>1. CASE r = c
      <4>1. obj'[r].moved = o.moved /\ o.moved \in Nat
        BY <1>0, <2>2, <3>1 DEF Objects
      <4> HIDE DEF c
      <4> QED
        BY <1>0, <2>2, <3>1, <4>1
    <3>2. CASE r # c
      BY <1>0, <2>2, <3>2
    <3> QED
      BY <3>1, <3>2
  <2>3. ASSUME RollsBack PROVE FALSE
    <3> DEFINE o == IF cli.item.at = "name"
                    THEN Back(obj[c], cli.item.stamp) ELSE obj[c]
    <3>0. /\ cli.pc = "moved"
          /\ obj' = [obj EXCEPT ![c] = IF cli.item.at = "name"
               THEN Back(@, cli.item.stamp) ELSE @]
      BY <2>3 DEF RollsBack
    <3>1. obj[c].moved > 0 /\ obj[c].moved - 1 \in Nat /\ obj[c].moved - 1 <= obj[c].moved /\ cli.item.stamp \in Nat
      BY <2>1, <3>0 DEF RInv, Items
    <3>2. obj' = [obj EXCEPT ![c] = o]
      <4>1. CASE cli.item.at = "name"
        <5>1. obj' = [obj EXCEPT ![c] = Back(@, cli.item.stamp)]
          BY <3>0, <4>1
        <5> QED
          BY <4>1, <5>1
      <4>2. CASE cli.item.at # "name"
        <5>1. obj' = [obj EXCEPT ![c] = @]
          BY <3>0, <4>2
        <5> QED
          BY <4>2, <5>1
      <4> QED
        BY <4>1, <4>2
    <3>3. o \in Objects /\ o.moved <= obj[c].moved
      <4>1. CASE cli.item.at = "name"
        BY <2>1, <3>1, <4>1, MoveKeeps
      <4>2. CASE cli.item.at # "name"
        BY <2>1, <4>2
      <4> QED
        BY <4>1, <4>2
    <3> HIDE DEF o, c
    <3> QED
      BY <2>2, <3>2, <3>3
  <2>4. ASSUME Purges PROVE FALSE
    <3> DEFINE o == [obj[c] EXCEPT !.moved = obj[c].moved - 1]
    <3>1. cli.pc = "committed" /\ obj' = [obj EXCEPT ![c].moved = @ - 1]
      BY <1>0, <2>4 DEF Purges
    <3>2. obj[c].moved - 1 \in Nat /\ obj[c].moved - 1 <= obj[c].moved
      BY <2>1, <3>1 DEF RInv
    <3>3. obj' = [obj EXCEPT ![c] = o]
      BY <3>1
    <3>4. o \in Objects /\ o.moved <= obj[c].moved
      BY <2>1, <3>2 DEF Objects
    <3> HIDE DEF o, c
    <3> QED
      BY <2>2, <3>3, <3>4
  <2> QED
    BY <2>3, <2>4
<1>4. PICK i \in cli.items : Retires(i)
  BY <1>1, <1>2, <1>3 DEF HostNext, Maintains
<1>5. i.res = r /\ ~Held(r)
  BY <1>0, <1>4 DEF Retires, Retirable
<1>6. Typed /\ \A j \in Jobs : JobOk(j)
  BY DEF JInv
<1>7. CASE r = Cache
  <2>1. Active = {}
    BY <1>5, <1>7 DEF Held, CacheHeld
  <2>2. \A j \in Jobs : sup[j].pc = "none"
    BY <1>6, <2>1 DEF JobOk, SupervisorHasRow, Active
  <2> QED
    BY <1>7, <2>2 DEF InUse, UsesCache
<1>8. CASE r # Cache
  <2>1. r \in Jobs
    BY <1>8 DEF Resources
  <2>2. row[r].state \in Terminal /\ ~Obliged(TaskOf(r))
    BY <1>5, <1>8 DEF Held, TempHeld
  <2>3. Supervised(r)
    BY <2>1, <2>2 DEF Obliged, Supervised
  <2>4. ~Alive(r) /\ sup[r].pc = "none"
    BY <1>6, <2>1, <2>2, <2>3 DEF JobOk, JobSound, SupervisorHasRow, Terminal
  <2> QED
    BY <1>8, <2>4 DEF InUse
<1> QED
  BY <1>7, <1>8

\* Retention takes nothing in use, and what it deletes or still has to is on record and found.
THEOREM RetentionAlwaysSafe == HostSpec => RetentionIsSafe
<1>1. HostSpec => []RInv
  BY RInit, RStep, PTL DEF HostSpec
<1>2. RInv => DeletedIsOnRecord
  <2> SUFFICES ASSUME RInv, NEW r \in Resources
               PROVE  /\ deleted[r] <= recorded[r]
                      /\ recorded[r] > deleted[r] /\ cli = NoCli /\ ~obj[r].lost =>
                           obj[r].moved = 0 \/ \E i \in Listed(r) : i.at = "aside"
    BY DEF DeletedIsOnRecord
  <2>1. /\ deleted[r] <= recorded[r] /\ (r # Cache /\ recorded[r] > 0 => obj[r].noted)
        /\ deleted[r] \in Nat /\ recorded[r] \in Nat
    BY DEF RInv
  <2>2. ASSUME recorded[r] > deleted[r], ~obj[r].lost, obj[r].moved # 0
        PROVE  \E i \in Listed(r) : i.at = "aside"
    <3>1. obj[r].moved > 0 /\ (r = Cache \/ obj[r].noted)
      BY <2>1, <2>2 DEF RInv, Objects
    <3>2. [res |-> r, at |-> "aside", stamp |-> 0] \in Listed(r)
      BY <2>2, <3>1 DEF Listed
    <3> QED
      BY <3>2
  <2> QED
    BY <2>1, <2>2
<1> DEFINE Unused == \A r \in Resources : obj'[r].moved > obj[r].moved => ~InUse(r)
<1>3. JInv /\ RInv /\ [HostNext]_hostVars => [Unused]_hostVars
  BY RetirementStep
<1>4. HostSpec => [][Unused]_hostVars
  <2> HIDE DEF Unused
  <2> QED
    BY <1>1, <1>3, JInvAlways, PTL DEF HostSpec
<1>5. HostSpec => []DeletedIsOnRecord
  BY <1>1, <1>2, PTL
<1> QED
  BY <1>4, <1>5 DEF RetentionIsSafe, RetiredIsUnused
=============================================================================
