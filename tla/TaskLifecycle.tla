--------------------------- MODULE TaskLifecycle ---------------------------
(***************************************************************************)
(* Opening, closing and losing a task: its row, its close intent, its      *)
(* branch and its worktree (tasks.ts, taskCloseIntent.ts,                  *)
(* taskLifecycleOps.ts, taskLifecycleToolWiring.ts, worktree.ts), the      *)
(* clean-up of a merged task (mergeReconcile.ts), the reconciliation at    *)
(* start-up and every minute (taskLifecycleRecovery.ts,                    *)
(* taskLifecycleScheduler.ts) and grande gc (worktreeGc.ts).               *)
(*                                                                         *)
(* The Gateway's operations hold the repo write lock and are synchronous:  *)
(* op is the one in progress, and only a crash interrupts it.  People and  *)
(* jobs write in a worktree at any moment.  gc plans in another process    *)
(* without the lock and applies with it.                                   *)
(***************************************************************************)
EXTENDS Naturals, Sequences, FiniteSets

CONSTANTS
  Tasks,          \* tasks of one repository
  BranchOf(_),    \* branch name of a task: two slugs and ids may give the same
  Budgets         \* bounds: tasks, commits, crashes, jobs, gc plans and removals by hand
                  \* of one history

ASSUME LifecycleAssumption ==
  Budgets \subseteq [tasks : SUBSET Tasks, commits : Nat, crashes : Nat, jobs : Nat,
                     gcs : Nat, hands : Nat]

VARIABLES
  left,           \* what is left of the bounds
  row,            \* task table
  intent,         \* task_close_intent
  wt,             \* worktree of a task: none, registered but gone, partial, clean, dirty
  branch,         \* commit of each branch, 0 when there is none
  headLock,       \* HEAD.lock in the worktree's admin directory
  job,            \* the task has a non-terminal job
  made,           \* who made each commit: a task, or the canonical branch
  canonical,      \* HEAD of the canonical checkout
  published,      \* commits contained in it
  receipt,        \* merged head of a task's PR, on record with its merge
  op,             \* the operation that holds the repo write lock
  plan,           \* what a gc found
  lost,           \* work that was removed without being asked for
  raced,          \* tasks whose live worktree a gc took for missing
  halfway         \* merged tasks whose clean-up has removed the worktree

git == <<branch, made, canonical, published>>
vars == <<left, row, intent, wt, headLock, job, git, receipt, op, plan, lost, raced, halfway>>

Branches == {BranchOf(t) : t \in Tasks}
NoRow == [state |-> "none", version |-> 0, base |-> 0]
NoIntent == [version |-> 0, head |-> 0]
Idle == [kind |-> "none"]
NoPlan == [ghosts |-> {}, residuals |-> {}]
Present(t) == wt[t] \in {"partial", "clean", "dirty"}
\* git worktree list still names the branch.
Registered(b) == \E t \in Tasks : BranchOf(t) = b /\ wt[t] # "none"
Tip(t) == branch[BranchOf(t)]

Init ==
  /\ left \in Budgets
  /\ row = [t \in Tasks |-> NoRow] /\ intent = [t \in Tasks |-> NoIntent]
  /\ wt = [t \in Tasks |-> "none"] /\ headLock = [t \in Tasks |-> FALSE]
  /\ job = [t \in Tasks |-> FALSE]
  /\ branch = [b \in Branches |-> 0] /\ made = <<"canonical">> /\ canonical = 1
  /\ published = {1} /\ receipt = [t \in Tasks |-> 0]
  /\ op = Idle /\ plan = NoPlan /\ lost = {} /\ raced = {} /\ halfway = {}

Spend(what) == left[what] > 0 /\ left' = [left EXCEPT ![what] = @ - 1]

\* updateTaskState: compare-and-set on the version.
Became(r, state) == [r EXCEPT !.state = state, !.version = r.version + 1]
SetState(t, state, version) ==
  /\ row[t].version = version
  /\ row' = [row EXCEPT ![t] = Became(row[t], state)]

Step(kind, t, pc) == op.kind = kind /\ op.task = t /\ op.pc = pc
Goes(pc) == op' = [op EXCEPT !.pc = pc]

-----------------------------------------------------------------------------
(* grande_task_open.                                                       *)

\* The canonical branch is refreshed, the plan made and the row persisted.
OpenStarts(t) ==
  /\ op = Idle /\ t \in left.tasks /\ row[t].state = "none" /\ ~Present(t)
  /\ row' = [row EXCEPT ![t] = [state |-> "CREATING", version |-> 1, base |-> canonical]]
  /\ op' = [kind |-> "open", task |-> t, pc |-> "add"]
  /\ UNCHANGED <<left, intent, wt, headLock, job, git, receipt, plan, lost, raced, halfway>>

\* git worktree add -b: the branch, the directory, the checkout.
OpenBranch(t) ==
  /\ Step("open", t, "add") /\ Tip(t) = 0
  /\ branch' = [branch EXCEPT ![BranchOf(t)] = row[t].base]
  /\ Goes("checkout")
  /\ UNCHANGED <<left, row, intent, wt, headLock, job, made, canonical, published, receipt, plan,
                 lost, raced, halfway>>

OpenCheckout(t) ==
  /\ \/ /\ Step("open", t, "checkout")
        /\ wt' = [wt EXCEPT ![t] = "partial"] /\ Goes("files")
     \/ /\ Step("open", t, "files")
        /\ wt' = [wt EXCEPT ![t] = "clean"] /\ Goes("ready")
  /\ UNCHANGED <<left, row, intent, headLock, job, git, receipt, plan, lost, raced, halfway>>

\* A name that is taken, or dependency directories that cannot be cloned: the row stays.
OpenFails(t) ==
  /\ op.kind = "open" /\ op.task = t
  /\ op.pc = "ready" \/ (op.pc = "add" /\ Tip(t) # 0)
  /\ op' = Idle
  /\ UNCHANGED <<left, row, intent, wt, headLock, job, git, receipt, plan, lost, raced, halfway>>

OpenReady(t) ==
  /\ Step("open", t, "ready")
  /\ SetState(t, "READY", 1)
  /\ op' = Idle
  /\ UNCHANGED <<left, intent, wt, headLock, job, git, receipt, plan, lost, raced, halfway>>

-----------------------------------------------------------------------------
(* Work on the task.                                                       *)

Write(t) ==
  /\ wt[t] = "clean" /\ row[t].state \in {"CREATING", "READY"}
  /\ left.commits > 0
  /\ wt' = [wt EXCEPT ![t] = "dirty"]
  /\ UNCHANGED <<left, row, intent, headLock, job, git, receipt, op, plan, lost, raced, halfway>>

Reverts(t) ==
  /\ wt[t] = "dirty"
  /\ wt' = [wt EXCEPT ![t] = "clean"]
  /\ UNCHANGED <<left, row, intent, headLock, job, git, receipt, op, plan, lost, raced, halfway>>

\* A commit by a person at any moment, whatever the Gateway does meanwhile, or by the tool: only
\* HEAD.lock keeps a person out.
Commits(t) ==
  /\ wt[t] = "dirty" /\ ~headLock[t] /\ Spend("commits")
  /\ made' = Append(made, t)
  /\ branch' = [branch EXCEPT ![BranchOf(t)] = Len(made) + 1]
  /\ wt' = [wt EXCEPT ![t] = "clean"]
  /\ UNCHANGED <<row, intent, headLock, job, canonical, published, receipt, op, plan, lost, raced, halfway>>

JobStarts(t) ==
  /\ op = Idle /\ ~job[t] /\ row[t].state = "READY" /\ intent[t] = NoIntent /\ Spend("jobs")
  /\ job' = [job EXCEPT ![t] = TRUE]
  /\ UNCHANGED <<row, intent, wt, headLock, git, receipt, op, plan, lost, raced, halfway>>

JobEnds(t) ==
  /\ job[t]
  /\ job' = [job EXCEPT ![t] = FALSE]
  /\ UNCHANGED <<left, row, intent, wt, headLock, git, receipt, op, plan, lost, raced, halfway>>

\* The PR is merged at its head and the canonical checkout follows.
Merges(t) ==
  /\ op = Idle /\ row[t].state = "READY" /\ Present(t) /\ Tip(t) # row[t].base
  /\ Tip(t) \notin published /\ made[Tip(t)] = t
  /\ made' = Append(made, "canonical") /\ canonical' = Len(made) + 1
  /\ published' = published \cup {Tip(t), Len(made) + 1}
  /\ receipt' = [receipt EXCEPT ![t] = Tip(t)]
  /\ UNCHANGED <<left, row, intent, wt, branch, headLock, job, op, plan, lost, raced, halfway>>

\* A person removes the directory; Git keeps the registration.
RemovedByHand(t) ==
  /\ Present(t) /\ op.kind # "open" /\ Spend("hands")
  /\ wt' = [wt EXCEPT ![t] = "gone"]
  /\ UNCHANGED <<row, intent, headLock, job, git, receipt, op, plan, lost, raced, halfway>>

-----------------------------------------------------------------------------
(* grande_task_close, and the recovery of a close that was cut.            *)

\* saveTaskCloseIntent: the first snapshot stays; a different one is refused.
Intended(t, snapshot) == intent[t] \in {NoIntent, snapshot}

CloseStarts(t) ==
  /\ op = Idle /\ row[t].state \in {"CREATING", "READY"} /\ ~job[t]
  /\ wt[t] = "clean"
  /\ LET snapshot == [version |-> row[t].version, head |-> Tip(t)] IN
       /\ Intended(t, snapshot)
       /\ intent' = [intent EXCEPT ![t] = snapshot]
       /\ op' = [kind |-> "close", task |-> t, pc |-> "lock", head |-> Tip(t),
                 version |-> row[t].version]
  /\ UNCHANGED <<left, row, wt, headLock, job, git, receipt, plan, lost, raced, halfway>>

ResumesAt_Lock(t) == "lock"

ResumesAt(t) == IF Present(t) THEN "lock" ELSE "branch"

\* reconcileRepo takes up an intent; a row that is already CLOSED only loses it.
RecoverClosing(t) ==
  /\ op = Idle /\ intent[t] # NoIntent
  /\ \/ /\ row[t].state = "CLOSED"
        /\ intent' = [intent EXCEPT ![t] = NoIntent] /\ UNCHANGED op
     \/ /\ row[t].state # "CLOSED" /\ row[t].version = intent[t].version /\ ~job[t]
        /\ op' = [kind |-> "close", task |-> t, head |-> intent[t].head,
                  version |-> intent[t].version,
                  pc |-> ResumesAt(t)]
        /\ UNCHANGED intent
  /\ UNCHANGED <<left, row, wt, headLock, job, git, receipt, plan, lost, raced, halfway>>

\* The clean-up of a merged task needs the receipt, the merge in canonical, the same head.
MergedCleanup(t) ==
  /\ op = Idle /\ row[t].state = "READY" /\ ~job[t] /\ wt[t] = "clean"
  /\ receipt[t] # 0 /\ receipt[t] = Tip(t) /\ Tip(t) \in published
  /\ op' = [kind |-> "merged", task |-> t, pc |-> "lock", head |-> Tip(t),
            version |-> row[t].version]
  /\ UNCHANGED <<left, row, intent, wt, headLock, job, git, receipt, plan, lost, raced, halfway>>

Closing(t) == op.kind \in {"close", "merged"} /\ op.task = t

Lockable_Unread(t) == Present(t) /\ ~headLock[t]

Lockable(t) == Present(t) /\ ~headLock[t] /\ Tip(t) = op.head

\* Held by the operation; HEAD is read again under the lock.
TakesHeadLock(t) ==
  /\ Closing(t) /\ op.pc = "lock" /\ Lockable(t)
  /\ headLock' = [headLock EXCEPT ![t] = TRUE]
  /\ Goes("remove")
  /\ UNCHANGED <<left, row, intent, wt, job, git, receipt, plan, lost, raced, halfway>>

\* git worktree remove, without --force.
Removable(t) == wt[t] = "clean"

RemovesWorktree(t) ==
  /\ Closing(t) /\ op.pc = "remove" /\ Removable(t)
  /\ wt' = [wt EXCEPT ![t] = "none"] /\ headLock' = [headLock EXCEPT ![t] = FALSE]
  /\ lost' = IF wt[t] = "dirty" \/ Tip(t) # op.head THEN lost \cup {t} ELSE lost
  /\ halfway' = IF op.kind = "merged" THEN halfway \cup {t} ELSE halfway
  /\ Goes("branch")
  /\ UNCHANGED <<left, row, intent, job, git, receipt, plan, raced>>

\* What deleting branch b at its commit takes with it, when by closes its own task.
Drops(b, by) ==
  {t \in Tasks : branch[b] # 0 /\ made[branch[b]] = t /\ branch[b] \notin published /\ t # by}

\* On a branch no worktree has: update-ref -d with the expected commit, or branch -d, which
\* wants the branch merged.
Deletable(b) ==
  /\ branch[b] # 0 /\ ~Registered(b)
  /\ IF op.kind = "merged" THEN branch[b] \in published ELSE branch[b] = op.head

DeletesBranch(t) ==
  /\ Closing(t) /\ op.pc = "branch"
  /\ \/ /\ Deletable(BranchOf(t))
        /\ branch' = [branch EXCEPT ![BranchOf(t)] = 0]
        /\ lost' = lost \cup Drops(BranchOf(t), t)
     \/ /\ Tip(t) = 0 /\ op.kind = "close"
        /\ UNCHANGED <<branch, lost>>
  /\ Goes("row")
  /\ UNCHANGED <<left, row, intent, wt, headLock, job, made, canonical, published, receipt, plan,
                 raced, halfway>>

ClosesRow(t) ==
  /\ Closing(t) /\ op.pc = "row"
  /\ SetState(t, "CLOSED", op.version)
  /\ IF op.kind = "close" THEN Goes("clear") ELSE op' = Idle
  /\ UNCHANGED <<left, intent, wt, headLock, job, git, receipt, plan, lost, raced, halfway>>

ClearsIntent(t) ==
  /\ Closing(t) /\ op.pc = "clear"
  /\ intent' = [intent EXCEPT ![t] = NoIntent]
  /\ op' = Idle
  /\ UNCHANGED <<left, row, wt, headLock, job, git, receipt, plan, lost, raced, halfway>>

\* A check of the sequence fails: the lock file goes, the intent and the rest stay.
CloseFails(t) ==
  /\ Closing(t)
  /\ \/ op.pc = "lock" /\ ~Lockable(t)
     \/ op.pc = "remove" /\ ~Removable(t)
     \/ op.pc = "branch" /\ ~Deletable(BranchOf(t)) /\ (Tip(t) # 0 \/ op.kind = "merged")
     \/ op.pc = "row" /\ row[t].version # op.version
  /\ headLock' = [headLock EXCEPT ![t] = @ /\ op.pc = "lock"]
  /\ op' = Idle
  /\ UNCHANGED <<left, row, intent, wt, job, git, receipt, plan, lost, raced, halfway>>

-----------------------------------------------------------------------------
(* The recovery of an opening that was cut (recoverCreatingTask).          *)

Whole_Exists(t) == Present(t)

Whole(t) == wt[t] = "clean" /\ Tip(t) = row[t].base

Undoable(t) == ~Present(t) /\ Tip(t) = row[t].base /\ ~Registered(BranchOf(t))

RecoverCreating(t) ==
  /\ op = Idle /\ row[t].state = "CREATING" /\ intent[t] = NoIntent
  /\ \/ /\ Whole(t)
        /\ SetState(t, "READY", row[t].version) /\ UNCHANGED op
     \/ /\ ~Present(t) /\ Tip(t) = 0
        /\ SetState(t, "CLOSED", row[t].version) /\ UNCHANGED op
     \/ /\ Undoable(t)
        /\ op' = [kind |-> "undo", task |-> t, pc |-> "branch"] /\ UNCHANGED row
  /\ UNCHANGED <<left, intent, wt, headLock, job, git, receipt, plan, lost, raced, halfway>>

UndoesBranch(t) ==
  /\ Step("undo", t, "branch")
  /\ branch' = [branch EXCEPT ![BranchOf(t)] = 0]
  /\ lost' = lost \cup Drops(BranchOf(t), t)
  /\ Goes("row")
  /\ UNCHANGED <<left, row, intent, wt, headLock, job, made, canonical, published, receipt, plan,
                 raced, halfway>>

UndoesRow(t) ==
  /\ Step("undo", t, "row")
  /\ SetState(t, "CLOSED", row[t].version)
  /\ op' = Idle
  /\ UNCHANGED <<left, intent, wt, headLock, job, git, receipt, plan, lost, raced, halfway>>

-----------------------------------------------------------------------------
(* grande gc, and crashes.                                                 *)

\* planGc reads the table and the disk at any moment.
GcPlans ==
  /\ plan = NoPlan /\ Spend("gcs")
  /\ plan' = [ghosts |-> {t \in Tasks : row[t].state \in {"CREATING", "READY"} /\ ~Present(t)},
              residuals |-> {t \in Tasks : row[t].state = "CLOSED" /\ Present(t)}]
  /\ UNCHANGED <<row, intent, wt, headLock, job, git, receipt, op, lost, raced, halfway>>

\* A residual is looked at again, a ghost is not.
StillResidual(t) == row[t].state = "CLOSED" /\ Present(t)

GcApplies ==
  /\ plan # NoPlan /\ op = Idle
  /\ LET closed == {t \in plan.ghosts : row[t].state # "CLOSED"}
         removed == {t \in plan.residuals : StillResidual(t)}
     IN /\ row' = [t \in Tasks |-> IF t \in closed
                     THEN Became(row[t], "CLOSED") ELSE row[t]]
        /\ raced' = raced \cup {t \in closed : Present(t)}
        /\ wt' = [t \in Tasks |-> IF t \in removed THEN "none" ELSE wt[t]]
        /\ headLock' = [t \in Tasks |-> headLock[t] /\ t \notin removed]
        /\ branch' = [b \in Branches |->
                        IF \E t \in removed : BranchOf(t) = b THEN 0 ELSE branch[b]]
        /\ lost' = lost \cup {t \in removed : wt[t] = "dirty"}
                        \cup UNION {Drops(BranchOf(t), "gc") : t \in removed}
  /\ plan' = NoPlan
  /\ UNCHANGED <<left, intent, job, made, canonical, published, receipt, op, halfway>>

\* The Gateway dies; HEAD.lock stays where it was taken.
Crash ==
  /\ op # Idle /\ Spend("crashes")
  /\ op' = Idle
  /\ UNCHANGED <<row, intent, wt, headLock, job, git, receipt, plan, lost, raced, halfway>>

Works(t) == OpenBranch(t) \/ OpenCheckout(t) \/ OpenReady(t) \/ OpenFails(t)
            \/ TakesHeadLock(t) \/ RemovesWorktree(t) \/ DeletesBranch(t) \/ ClosesRow(t)
            \/ ClearsIntent(t) \/ CloseFails(t) \/ UndoesBranch(t) \/ UndoesRow(t)

Recovers(t) == RecoverClosing(t) \/ RecoverCreating(t)

Next ==
  \/ \E t \in Tasks :
       \/ OpenStarts(t) \/ Works(t) \/ Recovers(t)
       \/ Write(t) \/ Reverts(t) \/ Commits(t) \/ JobStarts(t) \/ JobEnds(t)
       \/ Merges(t) \/ RemovedByHand(t) \/ CloseStarts(t) \/ MergedCleanup(t)
  \/ GcPlans \/ GcApplies \/ Crash

\* Operations run to their end, and the reconciliation comes round every minute: between
\* other operations, since the write lock is first come, first served.
Fairness == \A t \in Tasks :
              WF_vars(Works(t)) /\ SF_vars(Recovers(t)) /\ WF_vars(JobEnds(t))

Spec == Init /\ [][Next]_vars
FairSpec == Spec /\ Fairness

-----------------------------------------------------------------------------
(* Properties.                                                             *)

\* Rows, intents and worktrees keep their types; a task has a row before it has anything on
\* disk, its version counts its states, and HEAD.lock exists only with a worktree.
TypeOK ==
  /\ \A t \in Tasks :
       /\ row[t].state \in {"none", "CREATING", "READY", "CLOSED"}
       /\ wt[t] \in {"none", "gone", "partial", "clean", "dirty"}
       /\ row[t].state = "none" => wt[t] = "none" /\ intent[t] = NoIntent
       /\ row[t].version \in CASE row[t].state = "none" -> {0} [] row[t].state = "CREATING" -> {1}
                               [] row[t].state = "READY" -> {2} [] OTHER -> {2, 3}
       /\ headLock[t] => wt[t] # "none"
  /\ \A b \in Branches : branch[b] \in 0..Len(made)

\* No removal - close, recovery, clean-up after a merge, gc - takes work nobody closed:
\* uncommitted files, a worktree with a commit made since it was looked at, or commits of a
\* task on a branch name it shares.  The exception is a task that gc planned as a ghost while
\* its opening was under way.
WorkIsKept == lost \subseteq raced

\* A CLOSED task has no worktree of its own left, but for the same race.
ClosedIsGone ==
  \A t \in Tasks : row[t].state = "CLOSED" => ~Present(t) \/ t \in raced

\* A READY task has its worktree, unless it is being closed by an intent on record, somebody
\* removed the directory by hand, or its merge is on record and the clean-up after it, which
\* has no intent, was cut or refused between the worktree and the row.
ReadyHasWorktree ==
  \A t \in Tasks : row[t].state = "READY" =>
    wt[t] # "none" \/ intent[t] # NoIntent \/ (t \in halfway /\ receipt[t] \in published)

\* A task ends without taking anybody's work along, and ends wholly.
TaskInv == TypeOK /\ WorkIsKept /\ ClosedIsGone /\ ReadyHasWorktree

\* A task reads READY only after its whole checkout, at its base: whichever of the handler
\* and the recovery says so, and whatever cut the handler.
ReadyIsWhole ==
  [][\A t \in Tasks : row[t].state = "CREATING" /\ row'[t].state = "READY" =>
       wt[t] \in {"clean", "dirty"} /\ Tip(t) # 0]_vars

\* Somebody has changed what the intent saw, or it is no longer there.
Touched(t) ==
  \/ wt[t] \in {"dirty", "partial", "gone"}
  \/ Tip(t) \notin {0, intent[t].head} \/ row[t].version # intent[t].version
  \/ \E u \in Tasks \ {t} : BranchOf(u) = BranchOf(t) /\ wt[u] # "none"

\* The Gateway's own HEAD.lock, left by a death between taking it and removing the worktree:
\* nothing removes it, and the recovery cannot create it again.
LockLeftBehind(t) == headLock[t]

\* A durable close intent is carried out by the recovery, whatever step of the close was cut,
\* but for two cases in which it stays on record and every round of the recovery leaves it:
\* somebody changed what the intent saw, or the death left the Gateway's own HEAD.lock.
IntentsResolve ==
  \A t \in Tasks :
    (intent[t] # NoIntent) ~> (intent[t] = NoIntent \/ (op = Idle /\ (Touched(t) \/ LockLeftBehind(t))))
=============================================================================
