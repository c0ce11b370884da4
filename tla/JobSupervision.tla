--------------------------- MODULE JobSupervision ---------------------------
(***************************************************************************)
(* The jobs of the Gateway and the processes they own: admission           *)
(* (resourceAdmission.ts), launch and settlement (runner.ts,               *)
(* dependencyBootstrapTools.ts, hostVerifierLauncher.ts,                   *)
(* deploymentHostRunner.ts), supervision of a detached process group       *)
(* (processSupervision.ts), cancellation (jobCancellation.ts) and the      *)
(* reconciliation of the rows a dead Gateway left (jobs.ts,                *)
(* hostVerifierRecovery.ts).                                               *)
(*                                                                         *)
(* A process group outlives the Gateway that spawned it.  The event loop   *)
(* runs one handler at a time, so a launch is not interrupted except by a  *)
(* crash; the processes step at any moment.                                *)
(***************************************************************************)
EXTENDS Naturals, FiniteSets, Sequences

CONSTANTS
  Tasks,
  PerTaskJobs,    \* policy.perTaskJobs
  MaxLives,       \* bound: Gateway processes in any history
  Histories       \* bounds: the job requests of one history (task and kind of each), the
                  \* tasks it opens later and may close, its Gateway processes, its retention
                  \* runs, and policy.globalJobs

Kinds == {"sandbox", "dependency-bootstrap", "host-verifier", "deployment-host"}

ASSUME JobSupervisionAssumption ==
  /\ PerTaskJobs \in Nat \ {0} /\ MaxLives \in Nat \ {0}
  /\ \A h \in Histories :
       /\ h.plan \in Seq([task : Tasks, kind : Kinds])
       /\ h.opens \subseteq Tasks /\ h.closes \subseteq Tasks /\ h.lives \in 1..MaxLives
       /\ h.plans \in Nat /\ h.globalJobs \in Nat \ {0}

VARIABLES
  history,        \* the bounds of this history
  task,           \* none, READY, closing (a durable close intent) or CLOSED
  row,            \* job table
  proc,           \* the process group of each job, as the host has it
  sup,            \* the in-memory supervisor of each job
  gateway,        \* up, down or reconciling at start-up
  life,           \* which Gateway process this is
  reused,         \* dead Gateways whose process id another process now has
  launching,      \* the job whose synchronous launch the event loop is in, or 0
  todo            \* rows the start-up reconciliation has still to look at

stable == <<history, reused, life>>
vars == <<stable, task, row, proc, sup, gateway, launching, todo>>

Jobs == DOMAIN history.plan
AllJobs == UNION {DOMAIN h.plan : h \in Histories}
Kind(j) == history.plan[j].kind
TaskOf(j) == history.plan[j].task
Terminal == {"passed", "failed", "timeout", "killed", "cancelled"}
Supervised(j) == Kind(j) # "deployment-host"

NoRow == [state |-> "none", pgid |-> FALSE, phase |-> "none", owner |-> 0, cancel |-> FALSE]
NoProc == [leader |-> "none", ok |-> FALSE, members |-> FALSE]
NoSup == [pc |-> "none", installed |-> FALSE, aborted |-> FALSE, stopping |-> FALSE,
          killedBy |-> "none", closed |-> FALSE, hard |-> FALSE, deadline |-> FALSE,
          stray |-> FALSE]

Init ==
  /\ history \in Histories
  /\ task = [t \in Tasks |-> IF t \in history.opens THEN "none" ELSE "READY"]
  /\ row = [j \in Jobs |-> NoRow]
  /\ proc = [j \in Jobs |-> NoProc]
  /\ sup = [j \in Jobs |-> NoSup]
  /\ gateway = "up" /\ life = 1 /\ reused = {} /\ launching = 0 /\ todo = {}

Active == {j \in Jobs : row[j].state = "running"}
ActiveOf(t) == {j \in Active : TaskOf(j) = t}

\* kill(-pgid, 0): a leader that was not waited for still holds the group.
Present(j) == proc[j].leader \in {"live", "zombie"} \/ proc[j].members
\* Something of the group can still run.
Alive(j) == proc[j].leader = "live" \/ proc[j].members

Free == gateway = "up" /\ launching = 0

-----------------------------------------------------------------------------
(* Admission and launch.                                                   *)

\* reserveManagedJob: one immediate transaction.
Admitted(j) ==
  /\ task[TaskOf(j)] = "READY"
  /\ Cardinality(ActiveOf(TaskOf(j))) < PerTaskJobs
  /\ Kind(j) = "host-verifier" => \A k \in Active : Kind(k) # "host-verifier"
  /\ Cardinality(Active) < history.globalJobs

Reserve(j) ==
  /\ Free /\ row[j].state = "none" /\ Admitted(j)
  /\ row' = [row EXCEPT ![j] = [NoRow EXCEPT !.state = "running", !.phase = "preparing",
                                             !.owner = life]]
  /\ sup' = [sup EXCEPT ![j].pc = "launch"]
  /\ launching' = j
  /\ UNCHANGED <<stable, task, proc, gateway, todo>>

\* finishJob: compare-and-set on 'running'.
Finish(j, state) == row' = [row EXCEPT ![j].state = state]

\* A step of the launch before the spawn throws.
LaunchFails(j) ==
  /\ gateway = "up" /\ launching = j /\ proc[j].leader = "none"
  /\ Finish(j, "failed")
  /\ sup' = [sup EXCEPT ![j] = NoSup]
  /\ launching' = 0
  /\ UNCHANGED <<stable, task, proc, gateway, todo>>

\* markManagedJobLaunching.  A bootstrap and a verifier go on asynchronously.
MarkLaunching(j) == row' = [row EXCEPT ![j].phase = "launching"]

Launches(j) ==
  /\ gateway = "up" /\ launching = j /\ sup[j].pc = "launch"
  /\ MarkLaunching(j)
  /\ IF Kind(j) \in {"dependency-bootstrap", "host-verifier"}
     THEN sup' = [sup EXCEPT ![j].pc = "prepare"] /\ launching' = 0
     ELSE sup' = [sup EXCEPT ![j].pc = "spawn"] /\ UNCHANGED launching
  /\ UNCHANGED <<stable, task, proc, gateway, todo>>

\* spawn of a detached leader.  An abort before it throws (throwIfAborted).
Spawn(j) ==
  /\ \/ gateway = "up" /\ launching = j /\ sup[j].pc = "spawn"
     \/ Free /\ sup[j].pc = "prepare" /\ ~sup[j].aborted
  /\ proc' = [proc EXCEPT ![j] = [NoProc EXCEPT !.leader = "live"]]
  /\ sup' = [sup EXCEPT ![j].pc = "spawned"]
  /\ launching' = j
  /\ UNCHANGED <<stable, task, row, gateway, todo>>

\* The install of a verifier's preparation records no pgid.
RecordsPgid(j) == Kind(j) = "host-verifier" => sup[j].installed

\* setRunningJobPgid.
WithPgid(r) == [r EXCEPT !.pgid = TRUE, !.phase = "running"]

\* onSpawn, which the install of a verifier's preparation leaves out.
RecordPgid(j) ==
  /\ gateway = "up" /\ launching = j /\ sup[j].pc = "spawned"
  /\ row' = IF RecordsPgid(j) THEN [row EXCEPT ![j] = WithPgid(@)] ELSE row
  /\ sup' = [sup EXCEPT ![j].pc = "watch"]
  /\ launching' = 0
  /\ UNCHANGED <<stable, task, proc, gateway, todo>>

\* stop: once, and never a kill without the two timers behind it.
Stopped_NoDeadline(s, reason) ==
  [s EXCEPT !.stopping = TRUE, !.killedBy = reason, !.hard = TRUE]

Stopped(s, reason) ==
  [s EXCEPT !.stopping = TRUE, !.killedBy = reason, !.hard = TRUE, !.deadline = TRUE]

\* onSpawn throws: the supervisor stops the group, the deployment host kills it and gives up.
RecordFails(j) ==
  /\ gateway = "up" /\ launching = j /\ sup[j].pc = "spawned" /\ RecordsPgid(j)
  /\ launching' = 0
  /\ IF Supervised(j)
     THEN /\ sup' = [sup EXCEPT ![j] = [Stopped(sup[j], "failure") EXCEPT !.pc = "watch"]]
          /\ UNCHANGED <<row, proc>>
     ELSE /\ Finish(j, "killed")
          /\ proc' = [proc EXCEPT ![j] = [NoProc EXCEPT !.leader = "gone"]]
          /\ sup' = [sup EXCEPT ![j] = NoSup]
  /\ UNCHANGED <<stable, task, gateway, todo>>

-----------------------------------------------------------------------------
(* The host: processes fork and exit when they like, SIGTERM or not.       *)

Forks(j) ==
  /\ proc[j].leader = "live" /\ ~proc[j].members
  /\ proc' = [proc EXCEPT ![j].members = TRUE]
  /\ UNCHANGED <<stable, task, row, sup, gateway, launching, todo>>

LeaderExits(j) ==
  /\ proc[j].leader = "live"
  /\ \E ok \in BOOLEAN :
       proc' = [proc EXCEPT ![j].ok = ok,
                            ![j].leader = IF sup[j].pc = "none" THEN "gone" ELSE "zombie"]
  /\ UNCHANGED <<stable, task, row, sup, gateway, launching, todo>>

MembersExit(j) ==
  /\ proc[j].members
  /\ proc' = [proc EXCEPT ![j].members = FALSE]
  /\ UNCHANGED <<stable, task, row, sup, gateway, launching, todo>>

-----------------------------------------------------------------------------
(* superviseOwnedProcess.                                                  *)

Watching(j) == Free /\ sup[j].pc = "watch"

\* onExit: the leader is waited for; its id may belong to anybody from here on.
Reap(j) ==
  /\ Watching(j) /\ proc[j].leader = "zombie"
  /\ proc' = [proc EXCEPT ![j].leader = "gone"]
  /\ UNCHANGED <<stable, task, row, sup, gateway, launching, todo>>

LeaderIsOwned(j) == proc[j].leader \in {"live", "zombie"}

\* timeout and rss; an abort comes through Cancel.
Overruns(j) ==
  /\ Watching(j) /\ ~sup[j].stopping
  /\ \E reason \in {"timeout", "rss"} :
       /\ reason = "timeout" => ~sup[j].closed
       /\ reason = "rss" => LeaderIsOwned(j)
       /\ sup' = [sup EXCEPT ![j] = Stopped(sup[j], reason)]
  /\ UNCHANGED <<stable, task, row, proc, gateway, launching, todo>>

\* SIGKILL after the grace.  The deployment host's timer survives its job.
HardKill(j) ==
  /\ Free /\ sup[j].hard
  /\ IF LeaderIsOwned(j) \/ ~Supervised(j)
     THEN /\ proc' = [proc EXCEPT ![j].members = FALSE,
                                  ![j].leader = IF @ = "live" THEN "zombie" ELSE @]
          /\ sup' = [sup EXCEPT ![j].hard = FALSE, ![j].stray = proc[j].leader = "gone"]
     ELSE sup' = [sup EXCEPT ![j].hard = FALSE] /\ UNCHANGED proc
  /\ UNCHANGED <<stable, task, row, gateway, launching, todo>>

\* onClose: the pipes are shut, which members of the group may delay.
Closed(s) == [s EXCEPT !.closed = TRUE, !.deadline = TRUE, !.hard = FALSE]

Closes(j) ==
  /\ Watching(j) /\ Supervised(j) /\ proc[j].leader = "gone" /\ ~sup[j].closed
  /\ sup' = [sup EXCEPT ![j] = Closed(sup[j])]
  /\ UNCHANGED <<stable, task, row, proc, gateway, launching, todo>>

\* quarantine: extinction is unproven, the row keeps its slot.
Uncertain(j) ==
  /\ Watching(j) /\ Supervised(j) /\ sup[j].deadline /\ (sup[j].hard => sup[j].closed)
  /\ ~(sup[j].closed /\ ~Present(j))
  /\ row' = [row EXCEPT ![j].phase = "uncertain"]
  /\ sup' = [sup EXCEPT ![j] = NoSup]
  /\ UNCHANGED <<stable, task, proc, gateway, launching, todo>>

\* The state a result stands for (runner.ts, executionState, the bootstrap's catch).
Verdict(s, ok) ==
  CASE s.killedBy = "timeout" -> "timeout"
    [] s.killedBy = "rss" -> "killed"
    [] s.killedBy \notin {"timeout", "rss"} /\ (s.aborted \/ s.killedBy = "cancel") -> "cancelled"
    [] ~s.aborted /\ s.killedBy = "failure" -> "killed"
    [] OTHER -> IF ok THEN "passed" ELSE "failed"

\* What the bootstrap and the verifier make of an error.
Rejected(j) == IF sup[j].aborted THEN "cancelled" ELSE "failed"

\* The stage after a process that gave what it was run for.
NextStage(j) ==
  CASE Kind(j) = "dependency-bootstrap" -> "publish"
    [] Kind(j) = "host-verifier" /\ ~sup[j].installed -> "prepare"
    [] OTHER -> "cleanup"

\* inspectExtinction finds the group gone.
Gone(j) == sup[j].closed /\ ~Present(j)

\* The supervisor resolves: the job ends, or goes on to its next stage.
JobEnds(j, state) ==
  Finish(j, state) /\ sup' = [sup EXCEPT ![j] = NoSup] /\ UNCHANGED proc

GoesOn(j) ==
  /\ sup' = [sup EXCEPT ![j] = [NoSup EXCEPT !.pc = NextStage(j), !.installed = TRUE,
                !.aborted = sup[j].aborted, !.killedBy = sup[j].killedBy, !.stray = sup[j].stray]]
  /\ proc' = [proc EXCEPT ![j] = [NoProc EXCEPT !.ok = proc[j].ok]]
  /\ UNCHANGED row

Settles(j) ==
  /\ Watching(j) /\ Supervised(j) /\ Gone(j)
  /\ LET verdict == Verdict(sup[j], proc[j].ok) IN
     CASE Kind(j) = "sandbox" -> JobEnds(j, verdict)
       [] Kind(j) # "sandbox" /\ (NextStage(j) = "cleanup" \/ verdict = "passed") -> GoesOn(j)
       [] OTHER -> JobEnds(j, IF Kind(j) = "host-verifier" \/ sup[j].killedBy = "failure"
                              THEN Rejected(j) ELSE verdict)
  /\ UNCHANGED <<stable, task, gateway, launching, todo>>

-----------------------------------------------------------------------------
(* The asynchronous stages around the process.                             *)

\* Preparation throws, or meets the abort it was given; a verifier's may also skip the install.
PrepareEnds(j) ==
  /\ Free /\ sup[j].pc = "prepare"
  /\ \/ /\ Finish(j, IF sup[j].aborted THEN "cancelled" ELSE "failed")
        /\ sup' = [sup EXCEPT ![j] = NoSup]
     \/ /\ Kind(j) = "host-verifier" /\ ~sup[j].aborted /\ ~sup[j].installed
        /\ sup' = [sup EXCEPT ![j].installed = TRUE]
        /\ UNCHANGED row
     \/ /\ Kind(j) = "dependency-bootstrap" /\ ~sup[j].aborted
        /\ sup' = [sup EXCEPT ![j].pc = "publish"]
        /\ UNCHANGED row
  /\ UNCHANGED <<stable, task, proc, gateway, launching, todo>>

\* The tree is published or found in the cache; an abort is looked at once more.
PublishEnds(j) ==
  /\ Free /\ sup[j].pc = "publish"
  /\ \E ok \in BOOLEAN :
       Finish(j, IF sup[j].aborted THEN "cancelled" ELSE IF ok THEN "passed" ELSE "failed")
  /\ sup' = [sup EXCEPT ![j] = NoSup]
  /\ UNCHANGED <<stable, task, proc, gateway, launching, todo>>

\* The disposable worktree is removed (or cannot be), then the run is judged.
CleanupEnds(j) ==
  /\ Free /\ sup[j].pc = "cleanup"
  /\ LET verdict == Verdict(sup[j], proc[j].ok) IN
       \/ /\ verdict = "passed"
          /\ sup' = [sup EXCEPT ![j].pc = "heads"] /\ UNCHANGED row
       \/ /\ verdict # "passed" /\ sup[j].killedBy # "failure"
          /\ Finish(j, verdict) /\ sup' = [sup EXCEPT ![j] = NoSup]
       \/ Finish(j, Rejected(j)) /\ sup' = [sup EXCEPT ![j] = NoSup]
  /\ UNCHANGED <<stable, task, proc, gateway, launching, todo>>

HeadsVerdict_NoRecheck(j) == {"passed", Rejected(j)}

\* readCurrentHeads awaited GitHub: the abort is looked at again before the row passes.
HeadsVerdict(j) == IF sup[j].aborted THEN {"cancelled"} ELSE {"passed", Rejected(j)}

HeadsEnd(j) ==
  /\ Free /\ sup[j].pc = "heads"
  /\ \E v \in HeadsVerdict(j) : Finish(j, v)
  /\ sup' = [sup EXCEPT ![j] = NoSup]
  /\ UNCHANGED <<stable, task, proc, gateway, launching, todo>>

\* A deployment-host job settles when its pipes close.
HostCloses(j) ==
  /\ Watching(j) /\ ~Supervised(j) /\ proc[j].leader = "gone"
  /\ Finish(j, Verdict(sup[j], proc[j].ok))
  /\ sup' = [sup EXCEPT ![j] = [NoSup EXCEPT !.hard = sup[j].hard]]
  /\ UNCHANGED <<stable, task, proc, gateway, launching, todo>>

-----------------------------------------------------------------------------
(* Cancellation, close, crash and start-up.                                *)

\* requestJobCancellation: durable first, then the abort of this process's supervisor.
Cancel(j) ==
  /\ Free /\ row[j].state = "running" /\ Supervised(j)
  /\ sup[j].pc # "none" /\ ~row[j].cancel
  /\ row' = [row EXCEPT ![j].cancel = TRUE]
  /\ sup' = [sup EXCEPT ![j] =
       LET s == [sup[j] EXCEPT !.aborted = TRUE] IN
       IF s.pc = "watch" /\ ~s.stopping THEN Stopped(s, "cancel") ELSE s]
  /\ UNCHANGED <<stable, task, proc, gateway, launching, todo>>

\* grande_task_open: the row is there before any of its jobs.
TaskOpens(t) ==
  /\ Free /\ task[t] = "none"
  /\ task' = [task EXCEPT ![t] = "READY"]
  /\ UNCHANGED <<stable, row, proc, sup, gateway, launching, todo>>

\* grande_task_close: every job of the task is terminal, then the durable intent, with no
\* await between.  (The command line, another process, may reserve a verifier between the two.)
CloseStarts(t) ==
  /\ Free /\ t \in history.closes /\ task[t] = "READY" /\ ActiveOf(t) = {}
  /\ task' = [task EXCEPT ![t] = "closing"]
  /\ UNCHANGED <<stable, row, proc, sup, gateway, launching, todo>>

\* The worktree is removed, by the handler or by the recovery after a crash.
CloseEnds(t) ==
  /\ Free /\ task[t] = "closing"
  /\ task' = [task EXCEPT ![t] = "CLOSED"]
  /\ UNCHANGED <<stable, row, proc, sup, gateway, launching, todo>>

Crash ==
  /\ gateway # "down" /\ life < history.lives
  /\ gateway' = "down" /\ launching' = 0 /\ todo' = {}
  /\ sup' = [j \in Jobs |-> NoSup]
  /\ proc' = [j \in Jobs |-> [proc[j] EXCEPT !.leader = IF @ = "zombie" THEN "gone" ELSE @]]
  /\ UNCHANGED <<stable, task, row>>

Restart ==
  /\ gateway = "down"
  /\ gateway' = "starting" /\ life' = life + 1 /\ todo' = Active
  /\ reused' \in {reused, reused \cup {life}}
  /\ UNCHANGED <<history, task, row, proc, sup, launching>>

\* hasUnsettledResourceOwner: dead owner, and no process it may have launched unrecorded.
Unsettled_Launching(j) ==
  row[j].owner = life \/ row[j].owner \in reused

Unsettled(j) ==
  \/ row[j].owner = life \/ row[j].owner \in reused
  \/ ~row[j].pgid /\ row[j].phase # "preparing"

\* Start-up: the verifiers first, then the rest (startGateway).
Reconcile(j) ==
  /\ gateway = "starting" /\ j \in todo
  /\ Kind(j) # "host-verifier" => \A k \in todo : Kind(k) # "host-verifier"
  /\ IF Unsettled(j) \/ (row[j].pgid /\ Present(j)) THEN UNCHANGED row ELSE Finish(j, "killed")
  /\ todo' = todo \ {j}
  /\ UNCHANGED <<stable, task, proc, sup, gateway, launching>>

Listens ==
  /\ gateway = "starting" /\ todo = {}
  /\ gateway' = "up"
  /\ UNCHANGED <<stable, task, row, proc, sup, launching, todo>>

Supervise(j) ==
  \/ LaunchFails(j) \/ Launches(j) \/ Spawn(j) \/ RecordPgid(j) \/ RecordFails(j)
  \/ Reap(j) \/ HardKill(j) \/ Uncertain(j) \/ Settles(j)
  \/ PrepareEnds(j) \/ PublishEnds(j) \/ CleanupEnds(j) \/ HeadsEnd(j)

PipesClose(j) == Closes(j) \/ HostCloses(j)

Next ==
  \/ \E j \in Jobs :
       \/ Reserve(j) \/ Supervise(j) \/ PipesClose(j) \/ Overruns(j) \/ Cancel(j) \/ Reconcile(j)
       \/ Forks(j) \/ LeaderExits(j) \/ MembersExit(j)
  \/ \E t \in Tasks : TaskOpens(t) \/ CloseStarts(t) \/ CloseEnds(t)
  \/ Crash \/ Restart \/ Listens

\* The event loop runs what is due: callbacks, and each timer in its turn.  Nobody owes a
\* supervisor that pipes close while members of the group are there to hold them.
Fairness == \A j \in AllJobs :
              /\ WF_vars(j \in Jobs /\ (Supervise(j) \/ (~proc[j].members /\ PipesClose(j))))
              /\ WF_vars(j \in Jobs /\ Overruns(j))

Spec == Init /\ [][Next]_vars
FairSpec == Spec /\ Fairness

-----------------------------------------------------------------------------
(* Properties.                                                             *)

RowType == [state : Terminal \cup {"none", "running"}, pgid : BOOLEAN, owner : 0..MaxLives,
            phase : {"none", "preparing", "launching", "running", "uncertain"},
            cancel : BOOLEAN]

\* The rows, groups and supervisors keep their types, and only the job being
\* launched holds the event loop.
TypeOK ==
  /\ task \in [Tasks -> {"none", "READY", "closing", "CLOSED"}]
  /\ row \in [Jobs -> RowType]
  /\ \A j \in Jobs : /\ proc[j].leader \in {"none", "live", "zombie", "gone"}
                     /\ sup[j].pc # "none" => row[j].state = "running" /\ row[j].owner = life
                     /\ row[j].pgid => row[j].phase \in {"running", "uncertain"}
  /\ launching # 0 => sup[launching].pc \in {"launch", "spawn", "spawned"}
  /\ todo \subseteq Active

\* A job that reads as terminal has nothing left running, whoever wrote the state: its
\* supervisor, or the reconciliation of a later Gateway (finishJob, reconcileRunningJobs).
FinishedIsExtinct ==
  \A j \in Jobs : Supervised(j) /\ row[j].state \in Terminal => ~Alive(j)

\* The policy bounds what runs on the host, not only what the table says: groups, groups of
\* one task, verifiers - through quarantine, crash and restart (reserveManagedJob).
WithinCapacity ==
  LET live == {j \in Jobs : Supervised(j) /\ Alive(j)} IN
  /\ Cardinality(live) <= history.globalJobs
  /\ \A t \in Tasks : Cardinality({j \in live : TaskOf(j) = t}) <= PerTaskJobs
  /\ Cardinality({j \in live : Kind(j) = "host-verifier"}) <= 1

\* A job whose cancellation was accepted never reads as passed or failed, however late the
\* request met its stages (requestJobCancellation, the launchers' throwIfAborted).
CancelledIsNotPassed ==
  \A j \in Jobs : row[j].cancel => row[j].state \notin {"passed", "failed"}

\* A supervisor signals a group only while its leader has not been waited for
\* (superviseOwnedProcess: leaderIsOwned).
OwnedSignals == \A j \in Jobs : Supervised(j) => ~sup[j].stray

\* Nothing of a task's supervised jobs runs in a worktree that is being removed
\* (grande_task_close, reserveManagedJob's close-intent check).
ClosedIsQuiet ==
  \A j \in Jobs : Supervised(j) /\ task[TaskOf(j)] # "READY" => ~Alive(j)

\* Neither a finished row nor a closed task has anything left running.
NothingLeftRunning == FinishedIsExtinct /\ ClosedIsQuiet

\* Whatever runs is counted, signalled only by its owner, and never passes once cancelled.
JobInv == TypeOK /\ WithinCapacity /\ OwnedSignals /\ CancelledIsNotPassed

\* A job being supervised reaches a verdict or quarantine unless its Gateway dies: members
\* that outlive the leader or hold its pipes cannot keep a supervisor waiting for ever.
SupervisionEnds == \A j \in AllJobs :
  (j \in Jobs /\ sup[j].pc # "none") ~> (j \in Jobs /\ sup[j].pc = "none")
=============================================================================
