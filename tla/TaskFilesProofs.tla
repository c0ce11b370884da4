-------------------------- MODULE TaskFilesProofs --------------------------
(***************************************************************************)
(* Proofs about a task's worktree.  TaskLifecycle, for any tasks, branch   *)
(* names and bounds: a task opens whole and ends wholly, whatever dies in  *)
(* between.  RepoEdit, for any paths, contents and bounds: nothing the     *)
(* tools found is lost, and what they report of a batch or of a rollback   *)
(* is what the files are.                                                  *)
(***************************************************************************)
EXTENDS TaskLifecycle, RepoEdit, TLAPS

-----------------------------------------------------------------------------
(* Opening, closing and losing a task (TaskLifecycle).                     *)

\* Steps of an operation: an opening, a close, the clean-up after a merge, an undone opening.
Operation ==
  {Idle} \cup [kind : {"open"}, task : Tasks, pc : {"add", "checkout", "files", "ready"}]
         \cup [kind : {"close", "merged"}, task : Tasks, pc : {"lock", "remove", "branch", "row", "clear"},
               head : Nat, version : Nat]
         \cup [kind : {"undo"}, task : Tasks, pc : {"branch", "row"}]

\* The table, the worktrees, the commits and the operation have their types.
TaskTypes ==
  /\ row \in [Tasks -> [state : {"none", "CREATING", "READY", "CLOSED"}, version : 0..3, base : Nat]]
  /\ intent \in [Tasks -> [version : Nat, head : Nat]]
  /\ wt \in [Tasks -> {"none", "gone", "partial", "clean", "dirty"}]
  /\ headLock \in [Tasks -> BOOLEAN]
  /\ made \in Seq(Tasks \cup {"canonical"}) /\ branch \in [Branches -> {0} \cup DOMAIN made]
  /\ canonical \in published /\ published \subseteq DOMAIN made
  /\ op \in Operation
  /\ plan.ghosts \subseteq {t \in Tasks : row[t].state # "none"} /\ plan.residuals \subseteq Tasks
  /\ receipt \in [Tasks -> Nat]

\* A commit that task t may take with it: its own, or one the canonical branch has.
Owned(c, t) == c \in DOMAIN made /\ (c \in published \/ made[c] = t)

\* What the table says of a task.
RowOk(t) ==
  /\ row[t].state = "none" => row[t].version = 0
  /\ row[t].state = "CREATING" => row[t].version = 1
  /\ row[t].state = "READY" => row[t].version = 2
  /\ row[t].state = "CLOSED" => row[t].version \in {2, 3}
  /\ row[t].state = "none" => wt[t] = "none" /\ intent[t] = NoIntent
  /\ row[t].state # "none" => row[t].base \in published
  /\ headLock[t] => wt[t] # "none"
  /\ intent[t] # NoIntent => Owned(intent[t].head, t)
  /\ row[t].state = "CLOSED" => ~Present(t) \/ t \in raced
  /\ row[t].state = "READY" => wt[t] # "none" \/ intent[t] # NoIntent \/ t \in halfway
  /\ t \in halfway => receipt[t] \in published

RowsInv == \A t \in Tasks : RowOk(t)

\* A branch is registered to one worktree; its tip then is a commit of that task.
BranchesInv ==
  /\ \A t \in Tasks : wt[t] # "none" => Owned(Tip(t), t)
  /\ \A t, u \in Tasks : BranchOf(t) = BranchOf(u) /\ wt[t] # "none" /\ wt[u] # "none" => t = u

\* Where an operation stands, and what it found before it got there.
OpInv ==
  /\ op.kind = "open" =>
       /\ row[op.task].state = "CREATING"
       /\ op.pc = "checkout" => ~Registered(BranchOf(op.task)) /\ Tip(op.task) \in published
       /\ op.pc = "files" => wt[op.task] # "none"
       /\ op.pc = "ready" => wt[op.task] \in {"clean", "dirty"}
  /\ op.kind \in {"close", "merged"} =>
       /\ op.pc # "clear" => row[op.task].state \in {"CREATING", "READY"}
       /\ op.pc \in {"branch", "row"} => ~Present(op.task)
       /\ op.pc = "remove" => headLock[op.task] /\ wt[op.task] # "none" /\ Tip(op.task) = op.head
       /\ op.kind = "close" => Owned(op.head, op.task) /\ intent[op.task] # NoIntent
       /\ op.kind = "close" /\ op.pc = "clear" => row[op.task].state = "CLOSED"
       /\ op.kind = "merged" => op.pc # "clear" /\ receipt[op.task] \in published
  /\ op.kind = "undo" =>
       /\ row[op.task].state = "CREATING" /\ ~Present(op.task)
       /\ op.pc = "branch" => ~Registered(BranchOf(op.task)) /\ Tip(op.task) \in published

\* The inductive invariant.
LifeInv == TaskTypes /\ RowsInv /\ BranchesInv /\ OpInv /\ WorkIsKept

\* The step of an operation that goes on.
LEMMA GoesOn ==
  ASSUME op \in Operation, op # Idle, NEW pc, Goes(pc),
         op.kind = "open" => pc \in {"add", "checkout", "files", "ready"},
         op.kind \in {"close", "merged"} => pc \in {"lock", "remove", "branch", "row", "clear"},
         op.kind = "undo" => pc \in {"branch", "row"}
  PROVE  /\ op' \in Operation /\ op' # Idle /\ op'.kind = op.kind /\ op'.task = op.task /\ op'.pc = pc
         /\ op.kind \in {"close", "merged"} => op'.head = op.head /\ op'.version = op.version
<1>1. CASE op.kind = "open"
  BY <1>1 DEF Operation, Goes, Idle
<1>2. CASE op.kind \in {"close", "merged"}
  BY <1>2 DEF Operation, Goes, Idle
<1>3. CASE op.kind = "undo"
  BY <1>3 DEF Operation, Goes, Idle
<1> QED
  BY <1>1, <1>2, <1>3 DEF Operation, Idle

\* An operation in progress.
LEMMA OpIs ==
  ASSUME op \in Operation
  PROVE  /\ op.kind \in {"none", "open", "close", "merged", "undo"} /\ (op.kind = "none" <=> op = Idle)
         /\ op # Idle => op.task \in Tasks
         /\ op.kind \in {"close", "merged"} => op.head \in Nat /\ op.version \in Nat
BY DEF Operation, Idle

\* A row that a state is set on.
LEMMA RowSet ==
  ASSUME TaskTypes, NEW t \in Tasks, NEW state \in {"READY", "CLOSED"}, NEW v, SetState(t, state, v),
         row[t].version \in 0..2
  PROVE  /\ row' \in [Tasks -> [state : {"none", "CREATING", "READY", "CLOSED"}, version : 0..3, base : Nat]]
         /\ row'[t].state = state /\ row'[t].version = row[t].version + 1 /\ row'[t].base = row[t].base
         /\ row[t].version = v
         /\ \A u \in Tasks \ {t} : row'[u] = row[u]
<1> DEFINE R == [state : {"none", "CREATING", "READY", "CLOSED"}, version : 0..3, base : Nat]
<1>1. row \in [Tasks -> R]
  BY DEF TaskTypes
<1>2. PICK r \in R : r = row[t] /\ r.version \in 0..2
  BY <1>1
<1>6. r.version + 1 \in 0..3
  BY <1>2
<1>3. /\ Became(r, state) \in R /\ Became(r, state).state = state
      /\ Became(r, state).version = r.version + 1 /\ Became(r, state).base = r.base
  BY <1>2, <1>6 DEF Became
<1>4. row' = [row EXCEPT ![t] = Became(r, state)] /\ row[t].version = v
  BY <1>2 DEF SetState
<1> HIDE DEF R
<1>5. row' \in [Tasks -> R] /\ row'[t] = Became(r, state) /\ \A u \in Tasks \ {t} : row'[u] = row[u]
  BY <1>1, <1>3, <1>4
<1> QED
  BY <1>2, <1>3, <1>4, <1>5 DEF R

\* A row that nothing happens to stays as it says.
LEMMA RowKept ==
  ASSUME NEW t \in Tasks, RowOk(t), row'[t] = row[t], intent'[t] = intent[t], wt'[t] = wt[t],
         headLock'[t] = headLock[t], raced \subseteq raced', t \in halfway' <=> t \in halfway,
         UNCHANGED <<made, published, receipt>>
  PROVE  RowOk(t)'
BY DEF RowOk, Owned, Present

\* The initial states satisfy the invariant.
LEMMA TaskInit == Init => LifeInv
<1> SUFFICES ASSUME Init PROVE LifeInv
  OBVIOUS
<1>1. TaskTypes
  <2>1. made \in Seq(Tasks \cup {"canonical"}) /\ DOMAIN made = {1} /\ made[1] = "canonical"
    BY DEF Init
  <2>2. \A t \in Tasks : BranchOf(t) \in Branches
    BY DEF Branches
  <2>3. op \in Operation
    BY DEF Init, Operation
  <2> QED
    BY <2>1, <2>2, <2>3 DEF Init, TaskTypes, NoRow, NoIntent, NoPlan
<1>2. RowsInv
  BY DEF RowsInv, RowOk, Init, NoRow, NoIntent
<1>3. BranchesInv
  BY DEF BranchesInv, Init
<1>4. OpInv
  BY DEF OpInv, Init, Idle
<1>5. WorkIsKept
  BY DEF WorkIsKept, Init
<1> QED
  BY <1>1, <1>2, <1>3, <1>4, <1>5 DEF LifeInv

\* A step on one task leaves the rows of the others as they say.
LEMMA OthersKept ==
  ASSUME LifeInv, NEW t \in Tasks, RowOk(t)', raced \subseteq raced',
         \A u \in Tasks \ {t} : u \in halfway' <=> u \in halfway,
         UNCHANGED <<made, published, receipt>>,
         \A u \in Tasks \ {t} : /\ row'[u] = row[u] /\ intent'[u] = intent[u]
                                /\ wt'[u] = wt[u] /\ headLock'[u] = headLock[u]
  PROVE  RowsInv'
<1>1. \A u \in Tasks \ {t} : RowOk(u)'
  BY RowKept DEF LifeInv, RowsInv
<1> QED
  BY <1>1 DEF RowsInv

\* Branches that no worktree is added to.
LEMMA TreesKept ==
  ASSUME LifeInv, UNCHANGED <<branch, made, published>>,
         \A t \in Tasks : wt'[t] # "none" => wt[t] # "none"
  PROVE  BranchesInv'
BY DEF LifeInv, BranchesInv, Owned, Tip

\* Between operations there is nothing to say of one.
LEMMA NoOp == ASSUME op' = Idle PROVE OpInv' /\ op' \in Operation
BY DEF OpInv, Operation, Idle

\* A branch is one of the repository's.
LEMMA BranchIs ==
  ASSUME TaskTypes, NEW t \in Tasks
  PROVE  BranchOf(t) \in Branches /\ Tip(t) \in {0} \cup DOMAIN made
BY DEF TaskTypes, Branches, Tip

\* What a step leaves out of account.
LEMMA NothingHappens ==
  ASSUME LifeInv, UNCHANGED <<row, intent, wt, headLock, git, op, plan, lost, raced, halfway, receipt>>
  PROVE  LifeInv'
<1>1. TaskTypes'
  BY DEF LifeInv, TaskTypes, git
<1>2. RowsInv'
  BY RowKept DEF LifeInv, RowsInv, git
<1>3. BranchesInv'
  BY TreesKept DEF git
<1>4. OpInv'
  BY DEF LifeInv, OpInv, Registered, Tip, Owned, Present, git
<1>5. WorkIsKept'
  BY DEF LifeInv, WorkIsKept
<1> QED
  BY <1>1, <1>2, <1>3, <1>4, <1>5 DEF LifeInv

\* grande_task_open persists the row.
LEMMA OpenStartsKeeps == ASSUME LifeInv, NEW t \in Tasks, OpenStarts(t) PROVE LifeInv'
<1> DEFINE r == [state |-> "CREATING", version |-> 1, base |-> canonical]
<1>0. /\ row[t].state = "none" /\ op' = [kind |-> "open", task |-> t, pc |-> "add"]
      /\ row' = [row EXCEPT ![t] = r]
      /\ UNCHANGED <<intent, wt, headLock, branch, made, canonical, published, plan, lost, raced, halfway, receipt>>
  BY DEF OpenStarts, git
<1>1. TaskTypes'
  <2>1. DOMAIN made \subseteq Nat /\ canonical \in Nat
    BY DEF LifeInv, TaskTypes
  <2>2. r \in [state : {"none", "CREATING", "READY", "CLOSED"}, version : 0..3, base : Nat]
    BY <2>1
  <2>3. op' \in Operation
    BY <1>0 DEF Operation
  <2>4. plan.ghosts \subseteq {u \in Tasks : row'[u].state # "none"}
    BY <1>0 DEF LifeInv, TaskTypes
  <2> HIDE DEF r
  <2> QED
    BY <1>0, <2>2, <2>3, <2>4 DEF LifeInv, TaskTypes
<1>2. RowsInv'
  <2>1. row'[t] = r /\ \A u \in Tasks \ {t} : row'[u] = row[u]
    BY <1>0 DEF LifeInv, TaskTypes
  <2>2. RowOk(t)'
    BY <1>0, <2>1 DEF LifeInv, TaskTypes, RowsInv, RowOk
  <2> QED
    BY <1>0, <2>1, <2>2, OthersKept
<1>3. BranchesInv'
  BY <1>0, TreesKept
<1>4. OpInv'
  <2>1. row'[t].state = "CREATING"
    BY <1>0 DEF LifeInv, TaskTypes
  <2> QED
    BY <1>0, <2>1 DEF OpInv
<1>5. WorkIsKept'
  BY <1>0 DEF LifeInv, WorkIsKept
<1> QED
  BY <1>1, <1>2, <1>3, <1>4, <1>5 DEF LifeInv

\* The branch of a new task is at its base.
LEMMA OpenBranchKeeps == ASSUME LifeInv, NEW t \in Tasks, OpenBranch(t) PROVE LifeInv'
<1> DEFINE b == BranchOf(t)
<1>0. /\ op.kind = "open" /\ op.task = t /\ Tip(t) = 0 /\ Goes("checkout")
      /\ branch' = [branch EXCEPT ![b] = row[t].base]
      /\ UNCHANGED <<row, intent, wt, headLock, made, canonical, published, plan, lost, raced, halfway, receipt>>
  BY DEF OpenBranch, Step
<1>6. /\ op' \in Operation /\ op'.kind = "open" /\ op'.task = t /\ op'.pc = "checkout"
  <2>1. op \in Operation /\ op # Idle
    BY <1>0, OpIs DEF LifeInv, TaskTypes, Idle
  <2> QED
    BY <1>0, <2>1, GoesOn
<1>7. row[t].state = "CREATING" /\ row[t].base \in published /\ published \subseteq DOMAIN made
  BY <1>0 DEF LifeInv, OpInv, RowsInv, RowOk, TaskTypes
<1>8. ~Registered(b)
  <2>1. 0 \notin DOMAIN made
    BY DEF LifeInv, TaskTypes
  <2> QED
    BY <1>0, <2>1 DEF LifeInv, BranchesInv, Registered, Owned, Tip
<1>9. b \in Branches /\ branch' \in [Branches -> {0} \cup DOMAIN made] /\ branch'[b] = row[t].base
      /\ \A c \in Branches \ {b} : branch'[c] = branch[c]
  BY <1>0, <1>7, BranchIs DEF LifeInv, TaskTypes
<1>1. TaskTypes'
  BY <1>0, <1>6, <1>9 DEF LifeInv, TaskTypes
<1>2. RowsInv'
  BY <1>0, RowKept DEF LifeInv, RowsInv
<1>3. BranchesInv'
  <2>1. \A u \in Tasks : wt[u] # "none" => BranchOf(u) # b /\ BranchOf(u) \in Branches
    BY <1>8 DEF Registered, Branches
  <2> QED
    BY <1>0, <1>9, <2>1 DEF LifeInv, BranchesInv, Owned, Tip
<1>4. OpInv'
  BY <1>0, <1>6, <1>7, <1>8, <1>9 DEF OpInv, Registered, Tip
<1>5. WorkIsKept'
  BY <1>0 DEF LifeInv, WorkIsKept
<1> QED
  BY <1>1, <1>2, <1>3, <1>4, <1>5 DEF LifeInv

\* The checkout registers the worktree on a branch that none had.
LEMMA OpenCheckoutKeeps == ASSUME LifeInv, NEW t \in Tasks, OpenCheckout(t) PROVE LifeInv'
<1>0. /\ op.kind = "open" /\ op.task = t
      /\ UNCHANGED <<row, intent, headLock, branch, made, canonical, published, plan, lost, raced, halfway, receipt>>
  BY DEF OpenCheckout, Step, git
<1>7. PICK w \in {"partial", "clean"} :
        /\ wt' = [wt EXCEPT ![t] = w]
        /\ \/ op.pc = "checkout" /\ Goes("files") /\ w = "partial"
           \/ op.pc = "files" /\ Goes("ready") /\ w = "clean"
  BY DEF OpenCheckout, Step
<1>6. op' \in Operation /\ op'.kind = "open" /\ op'.task = t /\ (op'.pc = "ready" => w = "clean")
      /\ op'.pc \in {"files", "ready"}
  <2>1. op \in Operation /\ op # Idle
    BY <1>0, OpIs DEF LifeInv, TaskTypes, Idle
  <2> QED
    BY <1>0, <1>7, <2>1, GoesOn
<1>8. row[t].state = "CREATING"
  BY <1>0 DEF LifeInv, OpInv
<1>9. wt'[t] = w /\ \A u \in Tasks \ {t} : wt'[u] = wt[u]
  BY <1>7 DEF LifeInv, TaskTypes
<1>1. TaskTypes'
  BY <1>0, <1>6, <1>7 DEF LifeInv, TaskTypes
<1>2. RowsInv'
  <2>1. RowOk(t)'
    BY <1>0, <1>7, <1>8, <1>9 DEF LifeInv, RowsInv, RowOk, Owned
  <2> QED
    BY <1>0, <1>9, <2>1, OthersKept
<1>3. BranchesInv'
  <2>1. CASE op.pc = "checkout"
    <3>1. ~Registered(BranchOf(t)) /\ Owned(Tip(t), t)
      BY <1>0, <2>1 DEF LifeInv, OpInv, Owned, TaskTypes
    <3> QED
      BY <1>0, <1>9, <3>1 DEF LifeInv, BranchesInv, Owned, Tip, Registered
  <2>2. CASE op.pc = "files" /\ wt[t] # "none"
    BY <1>0, <1>9, <2>2, TreesKept
  <2>3. CASE op.pc = "files" /\ wt[t] = "none"
    BY <1>0, <2>3 DEF LifeInv, OpInv
  <2> QED
    BY <1>7, <2>1, <2>2, <2>3
<1>4. OpInv'
  BY <1>0, <1>6, <1>8, <1>9 DEF OpInv
<1>5. WorkIsKept'
  BY <1>0 DEF LifeInv, WorkIsKept
<1> QED
  BY <1>1, <1>2, <1>3, <1>4, <1>5 DEF LifeInv

\* An operation that ends and changes nothing.
LEMMA OpEnds ==
  ASSUME LifeInv, op' = Idle,
         UNCHANGED <<row, intent, wt, headLock, branch, made, canonical, published, plan, lost, raced, halfway, receipt>>
  PROVE  LifeInv'
<1>1. TaskTypes'
  BY NoOp DEF LifeInv, TaskTypes
<1>2. RowsInv'
  BY RowKept DEF LifeInv, RowsInv
<1>3. BranchesInv'
  BY TreesKept
<1>4. OpInv' /\ WorkIsKept'
  BY NoOp DEF LifeInv, WorkIsKept
<1> QED
  BY <1>1, <1>2, <1>3, <1>4 DEF LifeInv

\* A state set on a row that nothing is done to otherwise; the operation is at its end or
\* there is none.
LEMMA StateSet ==
  ASSUME LifeInv, NEW t \in Tasks, NEW state \in {"READY", "CLOSED"}, NEW v, SetState(t, state, v),
         state = "READY" => row[t].state = "CREATING" /\ wt[t] # "none",
         row[t].state \in {"CREATING", "READY"}, state = "CLOSED" => ~Present(t),
         op' \in Operation, OpInv',
         UNCHANGED <<intent, wt, headLock, branch, made, canonical, published, plan, lost, raced, halfway, receipt>>
  PROVE  LifeInv'
<1>0. RowOk(t)
  BY DEF LifeInv, RowsInv
<1>1. row[t].version \in {1, 2} /\ (state = "READY" => row[t].version = 1)
  BY DEF LifeInv, RowsInv, RowOk
<1>2. /\ row' \in [Tasks -> [state : {"none", "CREATING", "READY", "CLOSED"}, version : 0..3, base : Nat]]
      /\ row'[t].state = state /\ row'[t].version = row[t].version + 1 /\ row'[t].base = row[t].base
      /\ \A u \in Tasks \ {t} : row'[u] = row[u]
  BY <1>1, RowSet DEF LifeInv
<1>3. TaskTypes'
  <2>1. plan.ghosts \subseteq {u \in Tasks : row'[u].state # "none"}
    BY <1>2 DEF LifeInv, TaskTypes
  <2> QED
    BY <1>2, <2>1 DEF LifeInv, TaskTypes
<1>4. RowsInv'
  <2>1. row'[t].version \in {2, 3} /\ (state = "READY" => row'[t].version = 2)
    BY <1>1, <1>2
  <2>2. RowOk(t)'
    BY <1>0, <1>2, <2>1 DEF LifeInv, RowsInv, RowOk, Owned, Present
  <2> QED
    BY <1>2, <2>2, OthersKept
<1>5. BranchesInv' /\ WorkIsKept'
  BY TreesKept DEF LifeInv, WorkIsKept
<1> QED
  BY <1>3, <1>4, <1>5 DEF LifeInv

\* The opening is done.
LEMMA OpenReadyKeeps == ASSUME LifeInv, NEW t \in Tasks, OpenReady(t) PROVE LifeInv'
<1>1. /\ op.kind = "open" /\ op.task = t /\ SetState(t, "READY", 1) /\ op' = Idle
      /\ UNCHANGED <<intent, wt, headLock, branch, made, canonical, published, plan, lost, raced, halfway, receipt>>
  BY DEF OpenReady, Step, git
<1>2. row[t].state = "CREATING" /\ wt[t] # "none"
  <2>1. op.pc = "ready"
    BY DEF OpenReady, Step
  <2> QED
    BY <1>1, <2>1 DEF LifeInv, OpInv
<1> QED
  BY <1>1, <1>2, NoOp, StateSet

\* A worktree that somebody writes in, or removes by hand.
LEMMA WorktreeKeeps ==
  ASSUME LifeInv, NEW t \in Tasks, NEW w \in {"gone", "clean", "dirty"}, wt[t] # "none",
         wt' = [wt EXCEPT ![t] = w], w # "gone" => Present(t), w = "gone" => op.kind # "open",
         UNCHANGED <<row, intent, headLock, git, op, plan, lost, raced, halfway, receipt>>
  PROVE  LifeInv'
<1>0. UNCHANGED <<branch, made, canonical, published>>
  BY DEF git
<1>9. wt'[t] = w /\ \A u \in Tasks \ {t} : wt'[u] = wt[u]
  BY DEF LifeInv, TaskTypes
<1>1. TaskTypes'
  BY <1>0 DEF LifeInv, TaskTypes
<1>2. RowsInv'
  <2>1. RowOk(t)'
    BY <1>0, <1>9 DEF LifeInv, RowsInv, RowOk, Owned, Present
  <2> QED
    BY <1>0, <1>9, <2>1, OthersKept
<1>3. BranchesInv'
  BY <1>0, <1>9, TreesKept
<1>4. OpInv'
  <2>1. \A b : Registered(b)' <=> Registered(b)
    BY <1>9 DEF Registered
  <2>2. \A u \in Tasks : ~Present(u) => ~Present(u)'
    BY <1>9 DEF Present
  <2>3. op # Idle => op.task \in Tasks
    BY OpIs DEF LifeInv, TaskTypes
  <2>4. /\ op.kind = "open" /\ op.pc = "ready" => wt'[op.task] \in {"clean", "dirty"}
        /\ op.kind = "open" /\ op.pc = "files" => wt'[op.task] # "none"
    BY <1>9, <2>3 DEF LifeInv, OpInv, Idle
  <2>5. op.kind = "open" => OpInv'
    BY <1>0, <2>1, <2>4 DEF LifeInv, OpInv, Tip
  <2>9. \A u \in Tasks : (wt[u] # "none" => wt'[u] # "none") /\ Tip(u)' = Tip(u)
    BY <1>0, <1>9 DEF Tip
  <2>6. op.kind \in {"close", "merged"} => OpInv'
    BY <1>0, <2>2, <2>3, <2>9 DEF LifeInv, OpInv, Owned, Idle
  <2>7. op.kind = "undo" => OpInv'
    BY <1>0, <2>1, <2>2, <2>3 DEF LifeInv, OpInv, Tip, Idle
  <2>8. op.kind = "none" => OpInv'
    BY DEF OpInv
  <2> QED
    BY <2>5, <2>6, <2>7, <2>8, OpIs DEF LifeInv, TaskTypes
<1>5. WorkIsKept'
  BY DEF LifeInv, WorkIsKept
<1> QED
  BY <1>1, <1>2, <1>3, <1>4, <1>5 DEF LifeInv

\* Writes, reverts and removals of a directory.
LEMMA HandsKeep ==
  ASSUME LifeInv, NEW t \in Tasks, Write(t) \/ Reverts(t) \/ RemovedByHand(t) PROVE LifeInv'
BY WorktreeKeeps DEF Write, Reverts, RemovedByHand, Present

\* A commit that is made keeps the ones there are, and who made them.
LEMMA MadeMore ==
  ASSUME TaskTypes, NEW who \in Tasks \cup {"canonical"}, made' = Append(made, who)
  PROVE  /\ made' \in Seq(Tasks \cup {"canonical"}) /\ DOMAIN made' = DOMAIN made \cup {Len(made) + 1}
         /\ made'[Len(made) + 1] = who /\ \A c \in DOMAIN made : made'[c] = made[c]
         /\ Len(made) + 1 \notin DOMAIN made
BY DEF TaskTypes

\* A commit moves the branch of the task that has it.
LEMMA CommitsKeeps == ASSUME LifeInv, NEW t \in Tasks, Commits(t) PROVE LifeInv'
<1> DEFINE b == BranchOf(t)
           n == Len(made) + 1
<1>0. /\ ~headLock[t] /\ wt[t] = "dirty" /\ made' = Append(made, t) /\ branch' = [branch EXCEPT ![b] = n]
      /\ wt' = [wt EXCEPT ![t] = "clean"]
      /\ UNCHANGED <<row, intent, headLock, canonical, published, op, plan, lost, raced, halfway, receipt>>
  BY DEF Commits
<1>6. /\ made' \in Seq(Tasks \cup {"canonical"}) /\ DOMAIN made' = DOMAIN made \cup {n}
      /\ made'[n] = t /\ \A c \in DOMAIN made : made'[c] = made[c]
  BY <1>0, MadeMore DEF LifeInv
<1> HIDE DEF n
<1>7. b \in Branches /\ branch \in [Branches -> {0} \cup DOMAIN made]
  BY BranchIs DEF LifeInv, TaskTypes
<1>8. branch'[b] = n /\ \A c \in Branches \ {b} : branch'[c] = branch[c]
  BY <1>0, <1>7
<1>9. wt'[t] = "clean" /\ \A u \in Tasks \ {t} : wt'[u] = wt[u]
  BY <1>0 DEF LifeInv, TaskTypes
<1>10. \A c, u : Owned(c, u) => Owned(c, u)'
  BY <1>0, <1>6 DEF Owned
<1>1. TaskTypes'
  <2>1. branch' \in [Branches -> {0} \cup DOMAIN made']
    BY <1>0, <1>6, <1>7
  <2>2. wt' \in [Tasks -> {"none", "gone", "partial", "clean", "dirty"}] /\ published \subseteq DOMAIN made'
    BY <1>0, <1>6 DEF LifeInv, TaskTypes
  <2> QED
    BY <1>0, <1>6, <2>1, <2>2 DEF LifeInv, TaskTypes
<1>2. RowsInv'
  <2>1. \A u \in Tasks : RowOk(u) => RowOk(u)'
    BY <1>0, <1>9, <1>10 DEF RowOk, Present
  <2> QED
    BY <2>1 DEF LifeInv, RowsInv
<1>3. BranchesInv'
  <2>1. \A u \in Tasks : wt'[u] # "none" => wt[u] # "none"
    BY <1>0, <1>9
  <2>2. \A u \in Tasks \ {t} : wt[u] # "none" => BranchOf(u) # b /\ BranchOf(u) \in Branches
    BY <1>0 DEF LifeInv, BranchesInv, Branches
  <2>3. \A u \in Tasks \ {t} : wt[u] # "none" => Tip(u)' = Tip(u)
    BY <1>8, <2>2 DEF Tip
  <2>4. Owned(Tip(t), t)'
    BY <1>6, <1>8 DEF Owned, Tip
  <2> QED
    BY <1>10, <2>1, <2>3, <2>4 DEF LifeInv, BranchesInv
<1>4. WorkIsKept'
  BY <1>0 DEF LifeInv, WorkIsKept
<1>5. OpInv'
  <2> DEFINE u == op.task
  <2>0. op # Idle => u \in Tasks
    BY OpIs DEF LifeInv, TaskTypes
  <2>1. \A c : Registered(c)' <=> Registered(c)
    BY <1>0, <1>9 DEF Registered
  <2>2. \A v \in Tasks : ~Present(v) => ~Present(v)'
    BY <1>0, <1>9 DEF Present
  <2>3. \A v \in Tasks : ~Registered(BranchOf(v)) => Tip(v)' = Tip(v)
    <3>1. Registered(b)
      BY <1>0 DEF Registered
    <3> QED
      BY <1>8, <3>1 DEF Tip, Branches
  <2>4. \A v \in Tasks : headLock[v] /\ wt[v] # "none" => Tip(v)' = Tip(v) /\ wt'[v] # "none"
    <3> SUFFICES ASSUME NEW v \in Tasks, headLock[v], wt[v] # "none"
                 PROVE  Tip(v)' = Tip(v) /\ wt'[v] # "none"
      OBVIOUS
    <3>1. v # t /\ BranchOf(v) # b
      BY <1>0 DEF LifeInv, BranchesInv
    <3> QED
      BY <1>8, <1>9, <3>1 DEF Tip, Branches
  <2>5. CASE op.kind = "open"
    <3>1. op # Idle
      BY <2>5 DEF Idle
    <3>2. u \in Tasks /\ op.pc = "ready" => wt'[u] \in {"clean", "dirty"}
      BY <1>9, <2>5 DEF LifeInv, OpInv
    <3>3. u \in Tasks /\ op.pc = "files" => wt'[u] # "none"
      BY <1>9, <2>5 DEF LifeInv, OpInv
    <3> HIDE DEF u
    <3> QED
      BY <1>0, <2>0, <2>1, <2>3, <2>5, <3>1, <3>2, <3>3 DEF LifeInv, OpInv, u
  <2>6. CASE op.kind \in {"close", "merged"}
    <3>1. op # Idle
      BY <2>6 DEF Idle
    <3> HIDE DEF u
    <3> QED
      BY <1>0, <1>10, <2>0, <2>2, <2>4, <2>6, <3>1 DEF LifeInv, OpInv, u
  <2>7. CASE op.kind = "undo"
    <3>1. op # Idle
      BY <2>7 DEF Idle
    <3> HIDE DEF u
    <3> QED
      BY <1>0, <2>0, <2>1, <2>2, <2>3, <2>7, <3>1 DEF LifeInv, OpInv, u
  <2>8. CASE op.kind = "none"
    BY <1>0, <2>8 DEF OpInv
  <2> QED
    BY <2>5, <2>6, <2>7, <2>8, OpIs DEF LifeInv, TaskTypes
<1> QED
  BY <1>1, <1>2, <1>3, <1>4, <1>5 DEF LifeInv

\* Commits and versions are numbers.
LEMMA NumbersAre ==
  ASSUME TaskTypes, NEW t \in Tasks
  PROVE  Tip(t) \in Nat /\ row[t].version \in Nat
<1>1. DOMAIN made \subseteq Nat
  BY DEF TaskTypes
<1>2. row[t].version \in Nat
  <2>1. row[t].version \in 0..3
    BY DEF TaskTypes
  <2> QED
    BY <2>1
<1> QED
  BY <1>1, <1>2, BranchIs

\* A merge makes the commits of a branch the canonical branch's.
LEMMA MergesKeeps == ASSUME LifeInv, NEW t \in Tasks, Merges(t) PROVE LifeInv'
<1> DEFINE n == Len(made) + 1
<1>0. /\ op = Idle /\ Present(t) /\ made' = Append(made, "canonical") /\ canonical' = n
      /\ published' = published \cup {Tip(t), n} /\ receipt' = [receipt EXCEPT ![t] = Tip(t)]
      /\ UNCHANGED <<row, intent, wt, branch, headLock, op, plan, lost, raced, halfway>>
  BY DEF Merges
<1>6. /\ made' \in Seq(Tasks \cup {"canonical"}) /\ DOMAIN made' = DOMAIN made \cup {n}
      /\ \A c \in DOMAIN made : made'[c] = made[c]
  BY <1>0, MadeMore DEF LifeInv
<1> HIDE DEF n
<1>7. Tip(t) \in DOMAIN made
  BY <1>0 DEF LifeInv, BranchesInv, Owned, Present
<1>8. \A c, u : Owned(c, u) => Owned(c, u)'
  BY <1>0, <1>6 DEF Owned
<1>9. Tip(t) \in Nat
  BY NumbersAre DEF LifeInv
<1>10. /\ receipt' \in [Tasks -> Nat]
       /\ \A u \in Tasks : receipt[u] \in published => receipt'[u] \in published'
  BY <1>0, <1>9 DEF LifeInv, TaskTypes
<1>1. TaskTypes'
  BY <1>0, <1>6, <1>7, <1>10 DEF LifeInv, TaskTypes
<1>2. RowsInv'
  <2>1. \A u \in Tasks : RowOk(u) => RowOk(u)'
    BY <1>0, <1>8, <1>10 DEF RowOk, Present
  <2> QED
    BY <2>1 DEF LifeInv, RowsInv
<1>3. BranchesInv'
  BY <1>0, <1>8 DEF LifeInv, BranchesInv, Tip
<1>4. OpInv' /\ WorkIsKept'
  BY <1>0 DEF LifeInv, WorkIsKept, OpInv, Idle
<1> QED
  BY <1>1, <1>2, <1>3, <1>4 DEF LifeInv

\* A close begins, or is taken up again.
LEMMA Begins ==
  ASSUME LifeInv, op = Idle, NEW t \in Tasks, row[t].state \in {"CREATING", "READY"},
         NEW kind \in {"close", "merged"}, NEW pc \in {"lock", "branch"}, NEW h \in Nat, NEW v \in Nat,
         op' = [kind |-> kind, task |-> t, pc |-> pc, head |-> h, version |-> v],
         kind = "close" => Owned(h, t) /\ intent'[t] # NoIntent, pc = "branch" => ~Present(t),
         kind = "merged" => receipt[t] \in published,
         UNCHANGED <<row, wt, branch, made, published, receipt>>
  PROVE  op' \in Operation /\ OpInv'
<1>1. /\ op' \in Operation /\ op'.kind = kind /\ op'.task = t /\ op'.pc = pc /\ op'.head = h
  BY DEF Operation
<1>2. Owned(h, t) => Owned(h, t)'
  BY DEF Owned
<1> QED
  BY <1>1, <1>2 DEF OpInv, Present

\* A row that only its intent changes.
LEMMA IntentSet ==
  ASSUME LifeInv, NEW t \in Tasks, NEW i \in [version : Nat, head : Nat],
         intent' = [intent EXCEPT ![t] = i],
         i # NoIntent => row[t].state # "none" /\ Owned(i.head, t),
         i = NoIntent => row[t].state = "CLOSED",
         op' \in Operation, OpInv',
         UNCHANGED <<row, wt, headLock, branch, made, canonical, published, plan, lost, raced, halfway, receipt>>
  PROVE  LifeInv'
<1>1. intent'[t] = i /\ \A u \in Tasks \ {t} : intent'[u] = intent[u]
  BY DEF LifeInv, TaskTypes
<1>2. TaskTypes'
  BY DEF LifeInv, TaskTypes
<1>3. RowsInv'
  <2>1. RowOk(t)'
    BY <1>1 DEF LifeInv, RowsInv, RowOk, Owned, Present
  <2> QED
    BY <1>1, <2>1, OthersKept
<1>4. BranchesInv' /\ WorkIsKept'
  BY TreesKept DEF LifeInv, WorkIsKept
<1> QED
  BY <1>2, <1>3, <1>4 DEF LifeInv

\* Only the operation goes on.
LEMMA OnlyOp ==
  ASSUME LifeInv, op' \in Operation, OpInv',
         UNCHANGED <<row, intent, wt, headLock, branch, made, canonical, published, plan, lost, raced, halfway, receipt>>
  PROVE  LifeInv'
<1>1. TaskTypes' /\ RowsInv' /\ WorkIsKept'
  BY RowKept DEF LifeInv, TaskTypes, RowsInv, WorkIsKept
<1> QED
  BY <1>1, TreesKept DEF LifeInv

\* grande_task_close puts what it saw on record.
LEMMA CloseStartsKeeps == ASSUME LifeInv, NEW t \in Tasks, CloseStarts(t) PROVE LifeInv'
<1> DEFINE i == [version |-> row[t].version, head |-> Tip(t)]
<1>0. /\ op = Idle /\ row[t].state \in {"CREATING", "READY"} /\ wt[t] = "clean"
      /\ intent' = [intent EXCEPT ![t] = i]
      /\ op' = [kind |-> "close", task |-> t, pc |-> "lock", head |-> Tip(t), version |-> row[t].version]
      /\ UNCHANGED <<row, wt, headLock, branch, made, canonical, published, plan, lost, raced, halfway, receipt>>
  BY DEF CloseStarts, git
<1>1. Owned(Tip(t), t)
  BY <1>0 DEF LifeInv, BranchesInv
<1>2. Tip(t) \in Nat /\ row[t].version \in Nat
  BY NumbersAre DEF LifeInv
<1>3. i \in [version : Nat, head : Nat] /\ i.head = Tip(t)
  BY <1>2
<1>5. i # NoIntent
  <2>1. row[t].version \in {1, 2}
    BY <1>0 DEF LifeInv, RowsInv, RowOk
  <2> QED
    BY <2>1 DEF NoIntent
<1> HIDE DEF i
<1>6. intent'[t] = i
  BY <1>0 DEF LifeInv, TaskTypes
<1>4. op' \in Operation /\ OpInv'
  BY <1>0, <1>1, <1>2, <1>5, <1>6, Begins
<1> QED
  BY <1>0, <1>1, <1>3, <1>4, <1>5, IntentSet

\* No intent is one.
LEMMA NoIntentIs == NoIntent \in [version : Nat, head : Nat]
BY DEF NoIntent

\* The reconciliation takes up a close, or forgets one that is done.
LEMMA RecoverClosingKeeps == ASSUME LifeInv, NEW t \in Tasks, RecoverClosing(t) PROVE LifeInv'
<1>0. /\ op = Idle /\ intent[t] # NoIntent
      /\ UNCHANGED <<row, wt, headLock, branch, made, canonical, published, plan, lost, raced, halfway, receipt>>
  BY DEF RecoverClosing, git
<1>1. CASE row[t].state = "CLOSED" /\ intent' = [intent EXCEPT ![t] = NoIntent] /\ UNCHANGED op
  <2>1. op' \in Operation /\ OpInv'
    BY <1>0, <1>1, NoOp
  <2> QED
    BY <1>0, <1>1, <2>1, NoIntentIs, IntentSet
<1>2. CASE /\ row[t].state # "CLOSED" /\ UNCHANGED intent
           /\ op' = [kind |-> "close", task |-> t, head |-> intent[t].head,
                     version |-> intent[t].version, pc |-> ResumesAt(t)]
  <2>1. row[t].state \in {"CREATING", "READY"} /\ Owned(intent[t].head, t)
    BY <1>0, <1>2 DEF LifeInv, TaskTypes, RowsInv, RowOk
  <2>2. intent[t].head \in Nat /\ intent[t].version \in Nat
    BY DEF LifeInv, TaskTypes
  <2>3. ResumesAt(t) \in {"lock", "branch"} /\ (ResumesAt(t) = "branch" => ~Present(t))
    BY DEF ResumesAt
  <2>4. op' \in Operation /\ OpInv'
    BY <1>0, <1>2, <2>1, <2>2, <2>3, Begins
  <2> QED
    BY <1>0, <1>2, <2>4, OnlyOp
<1> QED
  BY <1>1, <1>2 DEF RecoverClosing

\* The clean-up of a merged task begins.
LEMMA MergedCleanupKeeps == ASSUME LifeInv, NEW t \in Tasks, MergedCleanup(t) PROVE LifeInv'
<1>0. /\ op = Idle /\ row[t].state = "READY" /\ receipt[t] \in published
      /\ op' = [kind |-> "merged", task |-> t, pc |-> "lock", head |-> Tip(t), version |-> row[t].version]
      /\ UNCHANGED <<row, intent, wt, headLock, branch, made, canonical, published, plan, lost, raced, halfway, receipt>>
  BY DEF MergedCleanup, git
<1>1. Tip(t) \in Nat /\ row[t].version \in Nat
  BY NumbersAre DEF LifeInv
<1>2. op' \in Operation /\ OpInv'
  BY <1>0, <1>1, Begins
<1> QED
  BY <1>0, <1>2, OnlyOp

\* The step of a close: whose it is, and that its row is not CLOSED yet.
LEMMA ClosingIs ==
  ASSUME LifeInv, NEW t \in Tasks, Closing(t)
  PROVE  /\ op \in Operation /\ op # Idle /\ op.task = t /\ op.kind \in {"close", "merged"}
         /\ op.pc # "clear" => row[t].state \in {"CREATING", "READY"}
         /\ op.pc \in {"branch", "row"} => ~Present(t)
         /\ op.pc = "remove" => Tip(t) = op.head
         /\ op.kind = "close" => Owned(op.head, t) /\ intent[t] # NoIntent
         /\ op.kind = "close" /\ op.pc = "clear" => row[t].state = "CLOSED"
         /\ op.kind = "merged" => op.pc # "clear" /\ receipt[t] \in published
BY DEF LifeInv, TaskTypes, OpInv, Closing, Idle

\* A close that goes on.
LEMMA ClosingGoes ==
  ASSUME LifeInv, NEW t \in Tasks, Closing(t), NEW pc \in {"remove", "branch", "row", "clear"}, Goes(pc),
         UNCHANGED <<made, published, intent, receipt>>,
         pc # "clear" => row'[t].state \in {"CREATING", "READY"},
         pc = "clear" => row'[t].state = "CLOSED" /\ op.kind = "close",
         pc = "remove" => headLock'[t] /\ wt'[t] # "none" /\ Tip(t)' = op.head,
         pc \in {"branch", "row"} => ~Present(t)'
  PROVE  op' \in Operation /\ OpInv'
<1>1. /\ op' \in Operation /\ op'.kind = op.kind /\ op'.task = t /\ op'.pc = pc /\ op'.head = op.head
  BY ClosingIs, GoesOn
<1>2. /\ op.kind \in {"close", "merged"} /\ (op.kind = "close" => Owned(op.head, t)' /\ intent[t] # NoIntent)
      /\ op.kind = "merged" => receipt[t] \in published
  BY <1>1, ClosingIs DEF Owned
<1> QED
  BY <1>1, <1>2 DEF OpInv

\* The worktree's HEAD is locked, or its lock goes.
LEMMA LockSet ==
  ASSUME LifeInv, NEW t \in Tasks, NEW l \in BOOLEAN, headLock' = [headLock EXCEPT ![t] = l],
         l => wt[t] # "none", op' \in Operation, OpInv',
         UNCHANGED <<row, intent, wt, branch, made, canonical, published, plan, lost, raced, halfway, receipt>>
  PROVE  LifeInv'
<1>1. headLock'[t] = l /\ \A u \in Tasks \ {t} : headLock'[u] = headLock[u]
  BY DEF LifeInv, TaskTypes
<1>2. TaskTypes'
  BY DEF LifeInv, TaskTypes
<1>3. RowsInv'
  <2>1. RowOk(t)'
    BY <1>1 DEF LifeInv, RowsInv, RowOk, Owned, Present
  <2> QED
    BY <1>1, <2>1, OthersKept
<1>4. BranchesInv' /\ WorkIsKept'
  BY TreesKept DEF LifeInv, WorkIsKept
<1> QED
  BY <1>2, <1>3, <1>4 DEF LifeInv

\* HEAD.lock is taken.
LEMMA TakesHeadLockKeeps == ASSUME LifeInv, NEW t \in Tasks, TakesHeadLock(t) PROVE LifeInv'
<1>0. /\ Closing(t) /\ op.pc = "lock" /\ Present(t) /\ headLock' = [headLock EXCEPT ![t] = TRUE]
      /\ Goes("remove") /\ Tip(t) = op.head
      /\ UNCHANGED <<row, intent, wt, branch, made, canonical, published, plan, lost, raced, halfway, receipt>>
  BY DEF TakesHeadLock, Lockable, git
<1>1. op' \in Operation /\ OpInv'
  <2>1. headLock'[t] /\ wt'[t] # "none" /\ Tip(t)' = op.head
    BY <1>0 DEF LifeInv, TaskTypes, Present, Tip
  <2> QED
    BY <1>0, <2>1, ClosingIs, ClosingGoes
<1> QED
  BY <1>0, <1>1, LockSet DEF Present

\* The worktree is removed: it is clean.
LEMMA RemovesWorktreeKeeps == ASSUME LifeInv, NEW t \in Tasks, RemovesWorktree(t) PROVE LifeInv'
<1>0. /\ Closing(t) /\ op.pc = "remove" /\ wt[t] = "clean" /\ wt' = [wt EXCEPT ![t] = "none"]
      /\ headLock' = [headLock EXCEPT ![t] = FALSE] /\ Goes("branch")
      /\ halfway' = IF op.kind = "merged" THEN halfway \cup {t} ELSE halfway
      /\ lost' = IF wt[t] = "dirty" \/ Tip(t) # op.head THEN lost \cup {t} ELSE lost
      /\ UNCHANGED <<row, intent, branch, made, canonical, published, plan, raced, receipt>>
  BY DEF RemovesWorktree, Removable, git
<1>9. /\ wt'[t] = "none" /\ ~headLock'[t]
      /\ \A u \in Tasks \ {t} : wt'[u] = wt[u] /\ headLock'[u] = headLock[u]
  BY <1>0 DEF LifeInv, TaskTypes
<1>4. op' \in Operation /\ OpInv'
  <2>1. ~Present(t)'
    BY <1>9 DEF Present
  <2> QED
    BY <1>0, <2>1, ClosingIs, ClosingGoes
<1>1. TaskTypes'
  BY <1>0, <1>4 DEF LifeInv, TaskTypes
<1>2. RowsInv'
  <2>1. row[t].state \in {"CREATING", "READY"}
    BY <1>0, ClosingIs
  <2>3. /\ op.kind = "close" => intent[t] # NoIntent
        /\ op.kind = "merged" => t \in halfway' /\ receipt[t] \in published
        /\ op.kind \in {"close", "merged"} /\ (op.kind = "close" => halfway' = halfway)
    BY <1>0, ClosingIs
  <2>2. RowOk(t)'
    BY <1>0, <1>9, <2>1, <2>3 DEF LifeInv, RowsInv, RowOk, Owned
  <2>4. \A u \in Tasks \ {t} : (u \in halfway' <=> u \in halfway)
    BY <1>0
  <2>5. \A u \in Tasks \ {t} : RowOk(u)'
    BY <1>0, <1>9, <2>4 DEF LifeInv, RowsInv, RowOk, Owned, Present
  <2> QED
    BY <2>2, <2>5 DEF RowsInv
<1>3. BranchesInv'
  BY <1>0, <1>9, TreesKept
<1>5. WorkIsKept'
  BY <1>0, ClosingIs DEF LifeInv, WorkIsKept
<1> QED
  BY <1>1, <1>2, <1>3, <1>4, <1>5 DEF LifeInv

\* A branch that no worktree has is deleted.
LEMMA BranchGone ==
  ASSUME LifeInv, NEW t \in Tasks, ~Registered(BranchOf(t)), branch' = [branch EXCEPT ![BranchOf(t)] = 0],
         op' \in Operation, OpInv', lost' = lost,
         UNCHANGED <<row, intent, wt, headLock, made, canonical, published, plan, raced, halfway, receipt>>
  PROVE  LifeInv'
<1> DEFINE b == BranchOf(t)
<1>1. branch' \in [Branches -> {0} \cup DOMAIN made] /\ \A c \in Branches \ {b} : branch'[c] = branch[c]
  BY DEF LifeInv, TaskTypes
<1>2. TaskTypes'
  BY <1>1 DEF LifeInv, TaskTypes
<1>3. RowsInv' /\ WorkIsKept'
  BY RowKept DEF LifeInv, RowsInv, WorkIsKept
<1>4. BranchesInv'
  <2>1. \A u \in Tasks : wt[u] # "none" => BranchOf(u) # b /\ BranchOf(u) \in Branches
    BY DEF Registered, Branches
  <2> QED
    BY <1>1, <2>1 DEF LifeInv, BranchesInv, Owned, Tip
<1> QED
  BY <1>2, <1>3, <1>4 DEF LifeInv

\* The branch of a closed task goes with what is its own, or merged.
LEMMA DeletesBranchKeeps == ASSUME LifeInv, NEW t \in Tasks, DeletesBranch(t) PROVE LifeInv'
<1> DEFINE b == BranchOf(t)
<1>0. /\ Closing(t) /\ op.pc = "branch" /\ Goes("row")
      /\ UNCHANGED <<row, intent, wt, headLock, made, canonical, published, plan, raced, halfway, receipt>>
  BY DEF DeletesBranch
<1>1. op' \in Operation /\ OpInv'
  <2>1. ~Present(t)'
    BY <1>0, ClosingIs DEF Present
  <2> QED
    BY <1>0, <2>1, ClosingIs, ClosingGoes
<1>2. CASE /\ Deletable(b) /\ branch' = [branch EXCEPT ![b] = 0]
           /\ lost' = lost \cup Drops(b, t)
  <2>3. Drops(b, t) = {}
    <3>1. op.kind = "merged" => Drops(b, t) = {}
      BY <1>2 DEF Deletable, Drops
    <3>2. op.kind = "close" => Drops(b, t) = {}
      <4>1. op.kind = "close" => Owned(op.head, t) /\ branch[b] = op.head
        BY <1>0, <1>2, ClosingIs DEF Deletable
      <4> QED
        BY <4>1 DEF Drops, Owned
    <3> QED
      BY <1>0, <3>1, <3>2, ClosingIs
  <2>4. lost' = lost /\ ~Registered(b)
    BY <1>2, <2>3 DEF Deletable
  <2> QED
    BY <1>0, <1>1, <1>2, <2>4, BranchGone
<1>3. CASE UNCHANGED <<branch, lost>>
  BY <1>0, <1>1, <1>3, OnlyOp
<1> QED
  BY <1>2, <1>3 DEF DeletesBranch

\* The row is CLOSED, and the intent of a close is left to clear.
LEMMA ClosesRowKeeps == ASSUME LifeInv, NEW t \in Tasks, ClosesRow(t) PROVE LifeInv'
<1>0. /\ Closing(t) /\ op.pc = "row" /\ SetState(t, "CLOSED", op.version)
      /\ IF op.kind = "close" THEN Goes("clear") ELSE op' = Idle
      /\ UNCHANGED <<intent, wt, headLock, branch, made, canonical, published, plan, lost, raced, halfway, receipt>>
  BY DEF ClosesRow, git
<1>1. op' \in Operation /\ OpInv'
  <2>0. row'[t].state = "CLOSED"
    <3>1. row[t].version \in 0..2
      BY <1>0, ClosingIs DEF LifeInv, RowsInv, RowOk
    <3> QED
      BY <1>0, <3>1, RowSet DEF LifeInv
  <2>1. op.kind = "close" /\ Goes("clear") => op' \in Operation /\ OpInv'
    BY <1>0, <2>0, ClosingGoes
  <2> QED
    BY <1>0, <2>1, NoOp
<1> QED
  BY <1>0, <1>1, ClosingIs, StateSet

\* The intent is cleared.
LEMMA ClearsIntentKeeps == ASSUME LifeInv, NEW t \in Tasks, ClearsIntent(t) PROVE LifeInv'
<1>0. /\ Closing(t) /\ op.pc = "clear" /\ intent' = [intent EXCEPT ![t] = NoIntent] /\ op' = Idle
      /\ UNCHANGED <<row, wt, headLock, branch, made, canonical, published, plan, lost, raced, halfway, receipt>>
  BY DEF ClearsIntent, git
<1> QED
  BY <1>0, ClosingIs, NoOp, NoIntentIs, IntentSet

\* A close that fails leaves all but its lock.
LEMMA CloseFailsKeeps == ASSUME LifeInv, NEW t \in Tasks, CloseFails(t) PROVE LifeInv'
<1> DEFINE l == headLock[t] /\ op.pc = "lock"
<1>0. /\ headLock' = [headLock EXCEPT ![t] = l] /\ op' = Idle
      /\ UNCHANGED <<row, intent, wt, branch, made, canonical, published, plan, lost, raced, halfway, receipt>>
  BY DEF CloseFails, git
<1>1. l \in BOOLEAN /\ (l => wt[t] # "none")
  BY DEF LifeInv, TaskTypes, RowsInv, RowOk
<1> HIDE DEF l
<1> QED
  BY <1>0, <1>1, NoOp, LockSet

\* The recovery of an opening that was cut.
LEMMA RecoverCreatingKeeps == ASSUME LifeInv, NEW t \in Tasks, RecoverCreating(t) PROVE LifeInv'
<1>0. /\ op = Idle /\ row[t].state = "CREATING"
      /\ UNCHANGED <<intent, wt, headLock, branch, made, canonical, published, plan, lost, raced, halfway, receipt>>
  BY DEF RecoverCreating, git
<1>1. UNCHANGED op => op' \in Operation /\ OpInv'
  BY <1>0, NoOp
<1>2. CASE Whole(t) /\ SetState(t, "READY", row[t].version) /\ UNCHANGED op
  <2>1. wt[t] # "none"
    BY <1>2 DEF Whole
  <2> QED
    BY <1>0, <1>1, <1>2, <2>1, StateSet
<1>3. CASE ~Present(t) /\ SetState(t, "CLOSED", row[t].version) /\ UNCHANGED op
  BY <1>0, <1>1, <1>3, StateSet
<1>4. CASE /\ Undoable(t) /\ UNCHANGED row
           /\ op' = [kind |-> "undo", task |-> t, pc |-> "branch"]
  <2>1. Tip(t) \in published
    BY <1>0, <1>4 DEF Undoable, LifeInv, RowsInv, RowOk
  <2>2. op' \in Operation /\ op'.kind = "undo" /\ op'.task = t
    BY <1>4 DEF Operation
  <2>3. OpInv'
    BY <1>0, <1>4, <2>1, <2>2 DEF OpInv, Undoable, Present, Registered, Tip
  <2> QED
    BY <1>0, <1>4, <2>2, <2>3, OnlyOp
<1> QED
  BY <1>2, <1>3, <1>4 DEF RecoverCreating

\* The branch of an undone opening holds nothing of anybody's.
LEMMA UndoesBranchKeeps == ASSUME LifeInv, NEW t \in Tasks, UndoesBranch(t) PROVE LifeInv'
<1> DEFINE b == BranchOf(t)
<1>0. /\ op.kind = "undo" /\ op.task = t /\ op.pc = "branch" /\ Goes("row")
      /\ branch' = [branch EXCEPT ![b] = 0] /\ lost' = lost \cup Drops(b, t)
      /\ UNCHANGED <<row, intent, wt, headLock, made, canonical, published, plan, raced, halfway, receipt>>
  BY DEF UndoesBranch, Step
<1>1. ~Registered(b) /\ Tip(t) \in published /\ row[t].state = "CREATING" /\ ~Present(t)
  BY <1>0 DEF LifeInv, OpInv
<1>2. lost' = lost
  BY <1>0, <1>1 DEF Drops, Tip
<1>3. op' \in Operation /\ op'.kind = "undo" /\ op'.task = t /\ op'.pc = "row"
  <2>1. op \in Operation /\ op # Idle
    BY <1>0, OpIs DEF LifeInv, TaskTypes, Idle
  <2> QED
    BY <1>0, <2>1, GoesOn
<1>4. OpInv'
  BY <1>0, <1>1, <1>3 DEF OpInv, Present
<1> QED
  BY <1>0, <1>1, <1>2, <1>3, <1>4, BranchGone

\* The undone opening is closed.
LEMMA UndoesRowKeeps == ASSUME LifeInv, NEW t \in Tasks, UndoesRow(t) PROVE LifeInv'
<1>0. /\ op.kind = "undo" /\ op.task = t /\ SetState(t, "CLOSED", row[t].version) /\ op' = Idle
      /\ UNCHANGED <<intent, wt, headLock, branch, made, canonical, published, plan, lost, raced, halfway, receipt>>
  BY DEF UndoesRow, Step, git
<1>1. row[t].state = "CREATING" /\ ~Present(t)
  BY <1>0 DEF LifeInv, OpInv
<1> QED
  BY <1>0, <1>1, NoOp, StateSet

\* gc plans: a ghost has a row.
LEMMA GcPlansKeeps == ASSUME LifeInv, GcPlans PROVE LifeInv'
<1>0. UNCHANGED <<row, intent, wt, headLock, branch, made, canonical, published, op, lost, raced, halfway, receipt>>
  BY DEF GcPlans, git
<1>1. plan'.ghosts \subseteq {t \in Tasks : row[t].state # "none"} /\ plan'.residuals \subseteq Tasks
  BY DEF GcPlans
<1>2. TaskTypes'
  BY <1>0, <1>1 DEF LifeInv, TaskTypes
<1>3. RowsInv' /\ WorkIsKept'
  BY <1>0, RowKept DEF LifeInv, RowsInv, WorkIsKept
<1>4. OpInv'
  BY <1>0 DEF LifeInv, OpInv, Registered, Tip, Owned, Present
<1> QED
  BY <1>0, <1>2, <1>3, <1>4, TreesKept DEF LifeInv

\* gc closes what it took for ghosts and removes what it finds to be left behind.
LEMMA GcAppliesKeeps == ASSUME LifeInv, GcApplies PROVE LifeInv'
<1> DEFINE closed == {t \in plan.ghosts : row[t].state # "CLOSED"}
           removed == {t \in plan.residuals : StillResidual(t)}
           R == [state : {"none", "CREATING", "READY", "CLOSED"}, version : 0..3, base : Nat]
<1>0. /\ op = Idle /\ plan' = NoPlan
      /\ row' = [t \in Tasks |-> IF t \in closed THEN Became(row[t], "CLOSED") ELSE row[t]]
      /\ raced' = raced \cup {t \in closed : Present(t)}
      /\ wt' = [t \in Tasks |-> IF t \in removed THEN "none" ELSE wt[t]]
      /\ headLock' = [t \in Tasks |-> headLock[t] /\ t \notin removed]
      /\ branch' = [b \in Branches |->
                      IF \E t \in removed : BranchOf(t) = b THEN 0 ELSE branch[b]]
      /\ lost' = lost \cup {t \in removed : wt[t] = "dirty"}
                      \cup UNION {Drops(BranchOf(t), "gc") : t \in removed}
      /\ UNCHANGED <<intent, made, canonical, published, op, halfway, receipt>>
  BY DEF GcApplies
<1>1. /\ closed \subseteq Tasks /\ \A t \in closed : row[t].state \in {"CREATING", "READY"}
      /\ removed \subseteq Tasks /\ \A t \in removed : row[t].state = "CLOSED" /\ Present(t)
  BY DEF LifeInv, TaskTypes, StillResidual
<1> HIDE DEF closed, removed
<1>2. \A t \in closed : /\ Became(row[t], "CLOSED") \in R /\ Became(row[t], "CLOSED").state = "CLOSED"
                        /\ Became(row[t], "CLOSED").version \in {2, 3}
                        /\ Became(row[t], "CLOSED").base = row[t].base
  <2> SUFFICES ASSUME NEW t \in closed
               PROVE  /\ Became(row[t], "CLOSED") \in R /\ Became(row[t], "CLOSED").state = "CLOSED"
                      /\ Became(row[t], "CLOSED").version \in {2, 3}
                      /\ Became(row[t], "CLOSED").base = row[t].base
    OBVIOUS
  <2>1. row[t].version \in {1, 2} /\ row[t] \in R
    BY <1>1 DEF LifeInv, RowsInv, RowOk, TaskTypes
  <2>2. PICK r \in R : r = row[t] /\ r.version \in {1, 2}
    BY <2>1
  <2>3. r.version + 1 \in {2, 3} /\ r.version + 1 \in 0..3
    BY <2>2
  <2> QED
    BY <2>2, <2>3 DEF Became
<1>3. \A t \in Tasks : /\ t \in closed => row'[t] \in R /\ row'[t].state = "CLOSED"
                                          /\ row'[t].version \in {2, 3} /\ row'[t].base = row[t].base
                       /\ t \notin closed => row'[t] = row[t]
  BY <1>0, <1>2
<1>4. row' \in [Tasks -> R]
  <2>1. \A t \in Tasks : row[t] \in R
    BY DEF LifeInv, TaskTypes
  <2> HIDE DEF R
  <2> QED
    BY <1>0, <1>2, <2>1
<1> HIDE DEF R
<1>5. \A t \in Tasks : /\ wt'[t] = IF t \in removed THEN "none" ELSE wt[t]
                       /\ headLock'[t] <=> (headLock[t] /\ t \notin removed)
  BY <1>0
<1>6. /\ TaskTypes'
  <2>1. wt' \in [Tasks -> {"none", "gone", "partial", "clean", "dirty"}]
    BY <1>0 DEF LifeInv, TaskTypes
  <2>2. headLock' \in [Tasks -> BOOLEAN]
    BY <1>0
  <2>3. branch' \in [Branches -> {0} \cup DOMAIN made]
    BY <1>0 DEF LifeInv, TaskTypes
  <2>4. plan'.ghosts = {} /\ plan'.residuals = {}
    BY <1>0 DEF NoPlan
  <2> QED
    BY <1>0, <1>4, <2>1, <2>2, <2>3, <2>4 DEF LifeInv, TaskTypes, R
<1>7. RowsInv'
  <2> SUFFICES ASSUME NEW t \in Tasks PROVE RowOk(t)'
    BY DEF RowsInv
  <2>1. RowOk(t) /\ raced \subseteq raced'
    BY <1>0 DEF LifeInv, RowsInv
  <2>2. CASE t \in closed
    <3>1. t \notin removed /\ row[t].state # "none"
      BY <1>1, <2>2
    <3>2. Present(t)' => t \in raced'
      BY <1>0, <1>5, <2>2, <3>1 DEF Present
    <3> QED
      BY <1>0, <1>3, <1>5, <2>1, <2>2, <3>1, <3>2 DEF RowOk, Owned
  <2>3. CASE t \in removed
    <3>1. t \notin closed /\ row[t].state = "CLOSED"
      BY <1>1, <2>3
    <3> QED
      BY <1>0, <1>3, <1>5, <2>1, <2>3, <3>1 DEF RowOk, Owned, Present
  <2>4. CASE t \notin closed /\ t \notin removed
    BY <1>0, <1>3, <1>5, <2>1, <2>4 DEF RowOk, Owned, Present
  <2> QED
    BY <2>2, <2>3, <2>4
<1>8. BranchesInv'
  <2>1. \A t \in Tasks : wt'[t] # "none" => wt[t] # "none" /\ t \notin removed
    BY <1>5
  <2>2. \A t \in Tasks : wt'[t] # "none" => ~\E u \in removed : BranchOf(u) = BranchOf(t)
    <3> SUFFICES ASSUME NEW t \in Tasks, wt'[t] # "none", NEW u \in removed, BranchOf(u) = BranchOf(t)
                 PROVE  FALSE
      OBVIOUS
    <3>1. u \in Tasks /\ wt[u] # "none"
      BY <1>1 DEF Present
    <3> QED
      BY <2>1, <3>1 DEF LifeInv, BranchesInv
  <2>3. \A t \in Tasks : wt'[t] # "none" => Tip(t)' = Tip(t)
    BY <1>0, <2>2, BranchIs DEF Tip, LifeInv, Branches
  <2> QED
    BY <1>0, <2>1, <2>3 DEF LifeInv, BranchesInv, Owned
<1>9. WorkIsKept'
  <2>1. removed \subseteq raced
    BY <1>1 DEF LifeInv, RowsInv, RowOk
  <2>2. \A t \in removed : Drops(BranchOf(t), "gc") \subseteq {t}
    <3> SUFFICES ASSUME NEW t \in removed PROVE Drops(BranchOf(t), "gc") \subseteq {t}
      OBVIOUS
    <3>1. Owned(branch[BranchOf(t)], t)
      BY <1>1 DEF LifeInv, BranchesInv, Present, Tip
    <3> QED
      BY <3>1 DEF Drops, Owned
  <2> QED
    BY <1>0, <2>1, <2>2 DEF LifeInv, WorkIsKept
<1>10. OpInv'
  BY <1>0, NoOp
<1> QED
  BY <1>6, <1>7, <1>8, <1>9, <1>10 DEF LifeInv

\* Every step keeps the invariant.
LEMMA TaskStep == LifeInv /\ [Next]_vars => LifeInv'
<1> SUFFICES ASSUME LifeInv, [Next]_vars PROVE LifeInv'
  OBVIOUS
<1>1. ASSUME NEW t \in Tasks, Works(t) PROVE LifeInv'
  <2>1. CASE OpenFails(t)
    BY <2>1, OpEnds DEF OpenFails, git
  <2>2. CASE OpenBranch(t) \/ OpenCheckout(t) \/ OpenReady(t)
    BY <2>2, OpenBranchKeeps, OpenCheckoutKeeps, OpenReadyKeeps
  <2>3. CASE TakesHeadLock(t) \/ RemovesWorktree(t) \/ DeletesBranch(t)
    BY <2>3, TakesHeadLockKeeps, RemovesWorktreeKeeps, DeletesBranchKeeps
  <2>4. CASE ClosesRow(t) \/ ClearsIntent(t) \/ CloseFails(t)
    BY <2>4, ClosesRowKeeps, ClearsIntentKeeps, CloseFailsKeeps
  <2>5. CASE UndoesBranch(t) \/ UndoesRow(t)
    BY <2>5, UndoesBranchKeeps, UndoesRowKeeps
  <2> QED
    BY <1>1, <2>1, <2>2, <2>3, <2>4, <2>5 DEF Works
<1>2. ASSUME NEW t \in Tasks, OpenStarts(t) \/ Recovers(t) \/ CloseStarts(t) \/ MergedCleanup(t)
      PROVE  LifeInv'
  BY <1>2, OpenStartsKeeps, RecoverClosingKeeps, RecoverCreatingKeeps, CloseStartsKeeps,
     MergedCleanupKeeps DEF Recovers
<1>3. ASSUME NEW t \in Tasks, Write(t) \/ Reverts(t) \/ RemovedByHand(t) \/ Commits(t) \/ Merges(t)
      PROVE  LifeInv'
  BY <1>3, HandsKeep, CommitsKeeps, MergesKeeps
<1>4. ASSUME NEW t \in Tasks, JobStarts(t) \/ JobEnds(t) PROVE LifeInv'
  BY <1>4, NothingHappens DEF JobStarts, JobEnds
<1>5. CASE Crash
  BY <1>5, OpEnds DEF Crash, git
<1>6. CASE UNCHANGED vars
  BY <1>6, NothingHappens DEF vars
<1> QED
  BY <1>1, <1>2, <1>3, <1>4, <1>5, <1>6, GcPlansKeeps, GcAppliesKeeps DEF Next

\* The invariant holds whatever the tasks, their names and the bounds of a history.
THEOREM LifeInvariant == Spec => []LifeInv
BY TaskInit, TaskStep, PTL DEF Spec

\* Whatever the tasks, their branch names and the bounds, and however people commit, write and
\* remove, the Gateway dies and gc cuts in: no removal takes work nobody closed and a closed
\* task is gone, but for a task whose opening a gc took for a ghost; and a READY task has its
\* worktree, but for a close on record, a removal by hand and a merged clean-up cut halfway.
THEOREM TasksEndWholly == Spec => []TaskInv
<1>1. LifeInv => TaskInv
  <2> SUFFICES ASSUME LifeInv PROVE TaskInv
    OBVIOUS
  <2>1. \A t \in Tasks : RowOk(t) /\ row[t].state \in {"none", "CREATING", "READY", "CLOSED"}
                         /\ wt[t] \in {"none", "gone", "partial", "clean", "dirty"}
    BY DEF LifeInv, RowsInv, TaskTypes
  <2>2. \A b \in Branches : branch[b] \in 0..Len(made)
    <3>1. DOMAIN made = 1..Len(made) /\ Len(made) \in Nat
      BY DEF LifeInv, TaskTypes
    <3>2. {0} \cup DOMAIN made \subseteq 0..Len(made)
      BY <3>1
    <3> QED
      BY <3>2 DEF LifeInv, TaskTypes
  <2>3. TypeOK
    BY <2>1, <2>2 DEF TypeOK, RowOk
  <2>4. ClosedIsGone
    BY <2>1 DEF ClosedIsGone, RowOk
  <2>5. ReadyHasWorktree
    BY <2>1 DEF ReadyHasWorktree, RowOk
  <2> QED
    BY <2>3, <2>4, <2>5 DEF TaskInv, LifeInv
<1> QED
  BY <1>1, LifeInvariant, PTL

\* A step that makes a row READY finds the checkout whole, on its branch.
LEMMA ReadyStep ==
  ASSUME LifeInv, [Next]_vars, NEW t \in Tasks, row[t].state = "CREATING", row'[t].state = "READY"
  PROVE  wt[t] \in {"clean", "dirty"} /\ Tip(t) # 0
<1>1. ASSUME NEW u \in Tasks, NEW state, NEW v, SetState(u, state, v), row[u].version \in 0..2,
             state \in {"READY", "CLOSED"}
      PROVE  u = t /\ state = "READY"
  BY <1>1, RowSet DEF LifeInv
<1>2. \A u \in Tasks : row[u].state \in {"CREATING", "READY"} => row[u].version \in 0..2
  BY DEF LifeInv, RowsInv, RowOk
<1>3. ASSUME NEW u \in Tasks, OpenReady(u) PROVE wt[t] \in {"clean", "dirty"}
  <2>1. row[u].state = "CREATING" /\ SetState(u, "READY", 1) /\ wt[u] \in {"clean", "dirty"}
    BY <1>3 DEF LifeInv, OpInv, OpenReady, Step
  <2> QED
    BY <1>1, <1>2, <2>1
<1>4. ASSUME NEW u \in Tasks, RecoverCreating(u) PROVE wt[t] \in {"clean", "dirty"}
  <2>1. CASE Whole(u) /\ SetState(u, "READY", row[u].version)
    BY <1>1, <1>2, <1>4, <2>1 DEF RecoverCreating, Whole
  <2>2. CASE SetState(u, "CLOSED", row[u].version)
    BY <1>1, <1>2, <1>4, <2>2 DEF RecoverCreating
  <2>3. CASE UNCHANGED row
    BY <2>3
  <2> QED
    BY <1>4, <2>1, <2>2, <2>3 DEF RecoverCreating
<1>5. ASSUME NEW u \in Tasks, ClosesRow(u) PROVE FALSE
  <2>1. row[u].state \in {"CREATING", "READY"} /\ SetState(u, "CLOSED", op.version)
    BY <1>5, ClosingIs DEF ClosesRow
  <2> QED
    BY <1>1, <1>2, <2>1
<1>6. ASSUME NEW u \in Tasks, UndoesRow(u) PROVE FALSE
  <2>1. row[u].state = "CREATING" /\ SetState(u, "CLOSED", row[u].version)
    BY <1>6 DEF LifeInv, OpInv, UndoesRow, Step
  <2> QED
    BY <1>1, <1>2, <2>1
<1>7. ASSUME NEW u \in Tasks, OpenStarts(u) PROVE FALSE
  BY <1>7 DEF OpenStarts, LifeInv, TaskTypes
<1>8. GcApplies => FALSE
  <2> DEFINE r == row[t]
  <2>2. r \in [state : {"none", "CREATING", "READY", "CLOSED"}, version : 0..3, base : Nat]
    BY DEF LifeInv, TaskTypes
  <2>3. Became(r, "CLOSED").state = "CLOSED"
    BY <2>2 DEF Became
  <2> QED
    BY <2>3 DEF GcApplies
<1>9. wt[t] \in {"clean", "dirty"}
  <2>1. CASE \E u \in Tasks : OpenReady(u) \/ RecoverCreating(u) \/ ClosesRow(u) \/ UndoesRow(u) \/ OpenStarts(u)
    BY <1>3, <1>4, <1>5, <1>6, <1>7, <2>1
  <2> QED
    BY <1>8, <2>1 DEF vars, Next, Works, Recovers, OpenBranch, OpenCheckout, OpenFails, Write, Reverts, Commits,
       JobStarts, JobEnds, Merges, RemovedByHand, CloseStarts, RecoverClosing, MergedCleanup, TakesHeadLock,
       RemovesWorktree, DeletesBranch, ClearsIntent, CloseFails, UndoesBranch, GcPlans, Crash
<1>10. Tip(t) \in DOMAIN made /\ 0 \notin DOMAIN made
  BY <1>9 DEF LifeInv, BranchesInv, Owned, TaskTypes
<1> QED
  BY <1>9, <1>10

\* A task reads READY only after its whole checkout, on a branch that has its base.
THEOREM ReadyWasWhole == Spec => ReadyIsWhole
<1>1. LifeInv /\ [Next]_vars
      => \A t \in Tasks : row[t].state = "CREATING" /\ row'[t].state = "READY" =>
           wt[t] \in {"clean", "dirty"} /\ Tip(t) # 0
  BY ReadyStep
<1> QED
  BY <1>1, LifeInvariant, PTL DEF Spec, ReadyIsWhole

-----------------------------------------------------------------------------
(* The files of a worktree (RepoEdit).                                     *)

\* A batch that has its checkpoint.
Editing == call.kind = "edit" /\ call.pc \in {"write", "restore"}

\* Once a batch has its checkpoint, whatever was found at its paths is kept; so
\* is what was found at the path a restore has just moved aside.
Covered ==
  /\ Editing => \A f \in seen : f[1] \in AffectedPaths(call.batch) => Kept(f)
  /\ call.kind # "none" /\ call.aside =>
       /\ \A f \in seen : f[1] = call.at => Kept(f)
       /\ call.pc = "restore" /\ call.at \in call.left
       /\ call.at \in call.raced \/ tree[call.at] = Absent

\* What a running handler relies on: its row is open, its batch was accepted,
\* and its checkpoint holds the paths of the batch and no other.
Grounded ==
  call.kind # "none" =>
    /\ call.row \in DOMAIN ledger /\ ledger[call.row].state = "EXECUTING"
    /\ call.kind = "edit" =>
         /\ call.batch \in Batches /\ call.next \in 1..(Len(call.batch) + 1)
         /\ call.pc = "snapshot" => call.next = 1
         /\ \A i, j \in DOMAIN call.batch :
              i # j => PathsOf(call.batch[i]) \cap PathsOf(call.batch[j]) = {}
    /\ call.kind = "rollback" => call.batch = <<>> /\ call.pc = "restore"
    /\ call.pc # "snapshot" => call.cp \in DOMAIN checkpoints
    /\ Editing => DOMAIN checkpoints[call.cp] = AffectedPaths(call.batch)

\* Half-way through a batch the operations so far have their outcome and the
\* paths of the rest are as the checkpoint has them; half-way through a
\* restore the paths it is done with are (jobs excepted).
Midway ==
  /\ call.kind = "edit" /\ call.pc = "write" =>
       /\ \A i \in DOMAIN call.batch : i < call.next => Outcome(call.batch[i])
       /\ \A i \in DOMAIN call.batch : i >= call.next =>
            \A p \in PathsOf(call.batch[i]) \ call.raced : tree[p] = checkpoints[call.cp][p]
  /\ call.kind # "none" /\ call.pc = "restore" =>
       /\ call.left \subseteq DOMAIN checkpoints[call.cp]
       /\ \A p \in DOMAIN checkpoints[call.cp] \ (call.left \cup call.raced) :
            tree[p] = checkpoints[call.cp][p]

\* The inductive invariant.
EditInv == FilesInv /\ Covered /\ Grounded /\ Midway

\* A handler is Idle or a running one, and its kind tells which.
LEMMA Kinds ==
  ASSUME call \in Handlers
  PROVE  /\ (call = NoCall) <=> (call.kind = "none")
         /\ call # NoCall => call \in Running /\ call.kind \in {"edit", "rollback"}
BY DEF Handlers, Running, NoCall

\* The moves of a ledger row keep it a row.
LEMMA RowMoves ==
  ASSUME NEW it \in AuditRow
  PROVE  /\ Allowed(it) \in AuditRow /\ Executing(it) \in AuditRow
         /\ Succeeded(it) \in AuditRow /\ Failed(it) \in AuditRow
BY DEF AuditRow, AuditDecision, AuditState, Allowed, Executing, Succeeded, Failed, Undecided,
       MayExecute, Finished

\* The rows a tool adds.
LEMMA NewRows ==
  /\ Executing(Allowed(BeginAudit)) \in AuditRow
  /\ Executing(Allowed(BeginAudit)).state = "EXECUTING"
  /\ Failed(Allowed(BeginAudit)) \in AuditRow
  /\ Failed(Executing(Allowed(BeginAudit))) \in AuditRow
BY DEF AuditRow, AuditDecision, AuditState, Allowed, Executing, Succeeded, Failed, Undecided,
       MayExecute, Finished, BeginAudit

\* What is kept stays kept while the trash and the checkpoints only grow.
LEMMA KeptGrows ==
  ASSUME trash \subseteq trash',
         \A i \in DOMAIN checkpoints : i \in DOMAIN checkpoints' /\ checkpoints'[i] = checkpoints[i]
  PROVE  \A f : Kept(f) => Kept(f)'
BY DEF Kept

\* A found file is a path and its bytes.
LEMMA Pairs ==
  ASSUME seen \subseteq Paths \X Contents
  PROVE  \A f \in seen : f[1] \in Paths /\ f[2] \in Contents /\ f = <<f[1], f[2]>>
BY DEF Kept

\* The invariant holds before anything has happened.
LEMMA InitEditInv == EditInit => EditInv
<1> SUFFICES ASSUME EditInit PROVE EditInv
  OBVIOUS
<1>1. call = NoCall /\ call.kind = "none"
  BY DEF EditInit, NoCall
<1>2. EditTypeOK
  BY RepoEditAssumption DEF EditInit, EditTypeOK, Handlers, RepoEditAssumption
<1>3. NothingLost
  BY DEF EditInit, NothingLost
<1> QED
  BY <1>1, <1>2, <1>3 DEF EditInv, FilesInv, Covered, Editing, Grounded, Midway

\* A handler that ends leaves the files, the checkpoints and the trash alone.
LEMMA GoesIdle ==
  ASSUME EditInv, call' = NoCall, ledger' \in Seq(AuditRow),
         UNCHANGED <<tree, checkpoints, trash, jobWrites, seen>>
  PROVE  EditInv'
<1>1. call'.kind = "none"
  BY DEF NoCall
<1>2. EditTypeOK'
  BY DEF EditInv, FilesInv, EditTypeOK, Handlers
<1>3. NothingLost'
  BY DEF EditInv, FilesInv, NothingLost, Kept
<1> QED
  BY <1>1, <1>2, <1>3 DEF EditInv, FilesInv, Covered, Editing, Grounded, Midway

\* The row of a running handler may end.
LEMMA RowEnds ==
  ASSUME EditInv, call # NoCall, NEW it \in AuditRow
  PROVE  [ledger EXCEPT ![call.row] = it] \in Seq(AuditRow)
BY Kinds DEF EditInv, FilesInv, EditTypeOK, Grounded

\* The invariant survives the ends of a handler.
LEMMA EndsKeep ==
  ASSUME EditInv, EditDone \/ SnapshotFails \/ RestoreFails \/ RestoreDone \/ CallCrash
  PROVE  EditInv'
<1>1. call # NoCall
  BY DEF EditDone, SnapshotFails, RestoreFails, RestoreDone, Restoring, CallCrash
<1>2. ledger[call.row] \in AuditRow /\ ledger \in Seq(AuditRow)
  BY <1>1, Kinds DEF EditInv, FilesInv, EditTypeOK, Grounded
<1>3. ledger' \in Seq(AuditRow)
  BY <1>1, <1>2, RowEnds, RowMoves DEF EditDone, SnapshotFails, RestoreFails, RestoreDone, CallCrash
<1> QED
  BY <1>3, GoesIdle DEF EditDone, SnapshotFails, RestoreFails, RestoreDone, CallCrash

\* What is on disk when a tool starts is kept in the worktree.
LEMMA HereIsThere ==
  ASSUME EditTypeOK, Absent \notin Contents
  PROVE  Here \subseteq Paths \X Contents /\ \A f \in Here : tree[f[1]] = f[2]
BY DEF Here, EditTypeOK, Held, Exists

\* A batch is one or two operations.
LEMMA BatchShape ==
  ASSUME NEW batch \in Batches
  PROVE  batch \in Seq(Ops) /\ Len(batch) \in 1..2 /\ DOMAIN batch = 1..Len(batch)
         /\ \A i \in DOMAIN batch : batch[i] \in Ops
<1>1. CASE \E o \in Ops : batch = <<o>>
  BY <1>1
<1>2. CASE \E o, q \in Ops : batch = <<o, q>>
  BY <1>2
<1>3. ASSUME batch \in Ops \X Ops PROVE \E o, q \in Ops : batch = <<o, q>>
  BY <1>3
<1> QED
  BY <1>1, <1>2, <1>3 DEF Batches

\* The paths of an operation are paths of the worktree.
LEMMA OpPaths ==
  ASSUME NEW o \in Ops
  PROVE  /\ PathsOf(o) \subseteq Paths /\ o.path \in PathsOf(o)
         /\ o.op \in {"create", "modify", "delete", "move"}
         /\ o.op = "move" => o.to \in PathsOf(o) /\ o.to # o.path
         /\ o.op \in {"create", "modify"} => o.content \in Contents
BY DEF Ops, PathsOf

\* The invariant survives the start of an edit.
LEMMA EditKeeps ==
  ASSUME EditInv, NEW batch \in Batches, NEW stale \in BOOLEAN, Edit(batch, stale)
  PROVE  EditInv'
<1> USE RepoEditAssumption DEF RepoEditAssumption
<1>1. EditTypeOK /\ NothingLost /\ ledger \in Seq(AuditRow) /\ Len(ledger) < MaxCalls
  BY DEF EditInv, FilesInv, EditTypeOK, Edit
<1>2. CASE ~Accepted(batch, stale)
  <2>1. ledger' \in Seq(AuditRow) /\ call' = NoCall /\ UNCHANGED <<tree, checkpoints, trash, jobWrites, seen>>
    BY <1>1, <1>2, NewRows DEF Edit
  <2> QED
    BY <2>1, GoesIdle
<1>3. CASE Accepted(batch, stale)
  <2> DEFINE it == Executing(Allowed(BeginAudit))
  <2> DEFINE n == [kind |-> "edit", row |-> Len(ledger) + 1, batch |-> batch, next |-> 1,
                    left |-> {}, cp |-> 0, pc |-> "snapshot", aside |-> FALSE, at |-> Absent, raced |-> {}]
  <2>1. ledger' = Append(ledger, it) /\ call' = n /\ seen' = seen \cup Here
        /\ UNCHANGED <<tree, checkpoints, trash, jobWrites>>
    BY <1>3 DEF Edit
  <2>2. it \in AuditRow /\ it.state = "EXECUTING"
    BY NewRows
  <2> HIDE DEF it
  <2>3. ledger' \in Seq(AuditRow) /\ Len(ledger) + 1 \in DOMAIN ledger' /\ ledger'[Len(ledger) + 1] = it
    BY <1>1, <2>1, <2>2
  <2>4. n \in Running
    BY <1>1, BatchShape DEF Running
  <2>5. seen' \subseteq Paths \X Contents /\ EditTypeOK'
    BY <1>1, <2>1, <2>3, <2>4, HereIsThere DEF EditTypeOK, Handlers
  <2>6. NothingLost'
    BY <1>1, <2>1, HereIsThere DEF NothingLost, Kept
  <2>7. Covered' /\ Midway'
    BY <2>1 DEF Covered, Midway, Editing
  <2>8. Grounded'
    BY <1>3, <2>1, <2>2, <2>3, BatchShape DEF Grounded, Editing, Accepted
  <2> QED
    BY <2>5, <2>6, <2>7, <2>8 DEF EditInv, FilesInv
<1> QED
  BY <1>2, <1>3

\* The invariant survives the start of a rollback.
LEMMA RollbackKeeps ==
  ASSUME EditInv, NEW cp \in 1..MaxCalls, Rollback(cp)
  PROVE  EditInv'
<1> USE RepoEditAssumption DEF RepoEditAssumption
<1>1. EditTypeOK /\ NothingLost /\ ledger \in Seq(AuditRow) /\ Len(ledger) < MaxCalls
  BY DEF EditInv, FilesInv, EditTypeOK, Rollback
<1>2. CASE cp \notin DOMAIN checkpoints
  <2>1. ledger' \in Seq(AuditRow) /\ call' = NoCall /\ UNCHANGED <<tree, checkpoints, trash, jobWrites, seen>>
    BY <1>1, <1>2, NewRows DEF Rollback
  <2> QED
    BY <2>1, GoesIdle
<1>3. CASE cp \in DOMAIN checkpoints
  <2> DEFINE it == Executing(Allowed(BeginAudit))
  <2> DEFINE n == [kind |-> "rollback", row |-> Len(ledger) + 1, batch |-> <<>>, next |-> 1,
                    left |-> DOMAIN checkpoints[cp], cp |-> cp,
                    pc |-> "restore", aside |-> FALSE, at |-> Absent, raced |-> {}]
  <2>1. ledger' = Append(ledger, it) /\ call' = n /\ seen' = seen \cup Here
        /\ UNCHANGED <<tree, checkpoints, trash, jobWrites>>
    BY <1>3 DEF Rollback
  <2>2. it \in AuditRow /\ it.state = "EXECUTING"
    BY NewRows
  <2> HIDE DEF it
  <2>3. ledger' \in Seq(AuditRow) /\ Len(ledger) + 1 \in DOMAIN ledger' /\ ledger'[Len(ledger) + 1] = it
    BY <1>1, <2>1, <2>2
  <2>4. checkpoints[cp] \in UNION {[S -> Held] : S \in SUBSET Paths}
    BY <1>1, <1>3 DEF EditTypeOK
  <2>5. n \in Running
    BY <1>1, <2>4 DEF Running
  <2>6. seen' \subseteq Paths \X Contents /\ EditTypeOK'
    BY <1>1, <2>1, <2>3, <2>5, HereIsThere DEF EditTypeOK, Handlers
  <2>7. NothingLost'
    BY <1>1, <2>1, HereIsThere DEF NothingLost, Kept
  <2>8. Covered' /\ Midway'
    BY <2>1 DEF Covered, Midway, Editing
  <2>9. Grounded'
    BY <1>3, <2>1, <2>2, <2>3 DEF Grounded, Editing
  <2> QED
    BY <2>6, <2>7, <2>8, <2>9 DEF EditInv, FilesInv
<1> QED
  BY <1>2, <1>3

\* The invariant survives the checkpoint of a batch.
LEMMA SnapshotKeeps ==
  ASSUME EditInv, Snapshot
  PROVE  EditInv'
<1> DEFINE c == CheckpointOf(AffectedPaths(call.batch))
<1>1. EditTypeOK /\ NothingLost /\ Grounded /\ call # NoCall /\ call.pc = "snapshot"
  BY DEF EditInv, FilesInv, Snapshot
<1>2. call \in Running /\ call.kind = "edit" /\ call.batch \in Batches
  BY <1>1, Kinds DEF EditTypeOK, Grounded
<1>3. AffectedPaths(call.batch) \subseteq Paths
  BY <1>2, BatchShape, OpPaths DEF AffectedPaths
<1>4. c \in UNION {[S -> Held] : S \in SUBSET Paths} /\ DOMAIN c = AffectedPaths(call.batch)
      /\ \A p \in AffectedPaths(call.batch) : c[p] = tree[p]
  BY <1>1, <1>3 DEF CheckpointOf, EditTypeOK
<1>5. checkpoints' = Append(checkpoints, c) /\ UNCHANGED <<tree, trash, ledger, jobWrites, seen>>
  BY DEF Snapshot
<1> HIDE DEF c
<1>6. /\ checkpoints' \in Seq(UNION {[S -> Held] : S \in SUBSET Paths})
      /\ Len(checkpoints) + 1 \in DOMAIN checkpoints' /\ checkpoints'[Len(checkpoints) + 1] = c
      /\ \A i \in DOMAIN checkpoints : i \in DOMAIN checkpoints' /\ checkpoints'[i] = checkpoints[i]
      /\ Len(checkpoints) + 1 \in Nat
  BY <1>1, <1>4, <1>5 DEF EditTypeOK
<1>7. /\ call' \in Running /\ call'.pc = "write" /\ call'.cp = Len(checkpoints) + 1
      /\ call'.kind = "edit" /\ call'.row = call.row /\ call'.batch = call.batch /\ call'.next = call.next
      /\ call'.aside = call.aside /\ call'.at = call.at /\ call'.raced = call.raced
  BY <1>2, <1>6 DEF Snapshot, Running
<1>8. EditTypeOK'
  BY <1>1, <1>5, <1>6, <1>7 DEF EditTypeOK, Handlers
<1>9. \A f : Kept(f) => Kept(f)'
  BY <1>5, <1>6, KeptGrows
<1>10. NothingLost'
  BY <1>1, <1>5, <1>9 DEF NothingLost
<1>11. \A f \in seen : f[1] \in AffectedPaths(call.batch) => Kept(f)'
  BY <1>1, <1>4, <1>6, <1>9 DEF NothingLost, Kept
<1>12. Covered'
  BY <1>1, <1>2, <1>5, <1>7, <1>11 DEF Covered, EditInv, Editing
<1>13. Grounded'
  BY <1>1, <1>2, <1>4, <1>5, <1>6, <1>7 DEF Grounded, Editing
<1>14. Midway'
  <2>1. call'.next = 1
    BY <1>1, <1>2, <1>7 DEF Grounded
  <2>2. \A i \in DOMAIN call.batch : PathsOf(call.batch[i]) \subseteq AffectedPaths(call.batch)
    BY DEF AffectedPaths
  <2>3. \A i \in DOMAIN call.batch : ~(i < 1)
    BY <1>2, BatchShape
  <2> QED
    BY <1>4, <1>5, <1>6, <1>7, <2>1, <2>2, <2>3 DEF Midway
<1> QED
  BY <1>8, <1>10, <1>12, <1>13, <1>14 DEF EditInv, FilesInv

\* The invariant survives what a job writes.
LEMMA JobKeeps ==
  ASSUME EditInv, NEW p \in Paths, NEW c \in Held, JobWrites(p, c)
  PROVE  EditInv'
<1> USE RepoEditAssumption DEF RepoEditAssumption
<1>1. EditTypeOK /\ NothingLost /\ Covered /\ Grounded /\ Midway
  BY DEF EditInv, FilesInv
<1>2. /\ tree \in [Paths -> Held] /\ tree' \in [Paths -> Held]
      /\ \A q \in Paths : q # p => tree'[q] = tree[q]
      /\ seen' \subseteq seen /\ <<p, tree[p]>> \notin seen'
      /\ UNCHANGED <<checkpoints, trash, ledger>>
      /\ jobWrites' \in 0..MaxJobWrites
  BY <1>1 DEF EditTypeOK, JobWrites
<1>3. \A f : Kept(f) <=> Kept(f)'
  BY <1>2 DEF Kept
<1>4. NothingLost'
  <2> SUFFICES ASSUME NEW f \in seen' PROVE tree'[f[1]] = f[2] \/ Kept(f)'
    BY DEF NothingLost
  <2>1. f \in seen /\ f[1] \in Paths /\ f = <<f[1], f[2]>>
    BY <1>1, <1>2, Pairs DEF EditTypeOK
  <2>2. CASE f[1] = p
    BY <1>1, <1>2, <1>3, <2>1, <2>2 DEF NothingLost
  <2>3. CASE f[1] # p
    BY <1>1, <1>2, <1>3, <2>1, <2>3 DEF NothingLost
  <2> QED
    BY <2>2, <2>3
<1>5. CASE call = NoCall
  <2>1. call' = NoCall /\ call'.kind = "none"
    BY <1>5 DEF JobWrites, NoCall
  <2>2. EditTypeOK'
    BY <1>1, <1>2, <2>1 DEF EditTypeOK, Handlers
  <2> QED
    BY <1>4, <2>1, <2>2 DEF EditInv, FilesInv, Covered, Editing, Grounded, Midway
<1>6. CASE call # NoCall
  <2>1. call \in Running
    BY <1>1, <1>6, Kinds DEF EditTypeOK
  <2>2. /\ call' \in Running /\ call'.raced = call.raced \cup {p}
        /\ call'.kind = call.kind /\ call'.row = call.row /\ call'.batch = call.batch /\ call'.next = call.next
        /\ call'.left = call.left /\ call'.cp = call.cp /\ call'.pc = call.pc /\ call'.aside = call.aside /\ call'.at = call.at
    BY <1>6, <2>1 DEF JobWrites, Running
  <2>3. EditTypeOK'
    BY <1>1, <1>2, <2>2 DEF EditTypeOK, Handlers
  <2>4. Covered'
    <3>1. call.aside /\ call.kind # "none" => call.at \in Paths
      BY <1>1, <2>1 DEF Covered, Running
    <3> QED
      BY <1>1, <1>2, <1>3, <2>2, <3>1 DEF Covered, Editing
  <2>5. Grounded'
    BY <1>1, <1>2, <2>2 DEF Grounded, Editing
  <2>6. Midway'
    <3>1. ASSUME call.kind = "edit", call.pc = "write", NEW i \in DOMAIN call.batch
          PROVE  /\ call.batch[i] \in Ops
                 /\ Outcome(call.batch[i]) => Outcome(call.batch[i])'
                 /\ \A q \in PathsOf(call.batch[i]) \ (call.raced \cup {p}) : tree'[q] = tree[q]
      <4>1. call.batch[i] \in Ops
        BY <1>1, <3>1, BatchShape DEF Grounded
      <4>2. \A q \in PathsOf(call.batch[i]) : q # p => tree'[q] = tree[q]
        BY <1>2, <4>1, OpPaths
      <4>3. Outcome(call.batch[i]) => Outcome(call.batch[i])'
        BY <1>2, <2>2, <4>1, <4>2, OpPaths DEF Outcome
      <4> QED
        BY <4>1, <4>2, <4>3
    <3>2. ASSUME call.kind = "edit", call.pc = "write" PROVE Midway'
      BY <1>1, <1>2, <2>2, <3>1, <3>2 DEF Midway
    <3>3. ASSUME call.pc = "restore" PROVE Midway'
      <4>1. call.cp \in DOMAIN checkpoints /\ DOMAIN checkpoints[call.cp] \subseteq Paths
        BY <1>1, <2>1, <3>3 DEF Grounded, EditTypeOK, Running
      <4> QED
        BY <1>1, <1>2, <2>1, <2>2, <3>3, <4>1 DEF Midway, Running
    <3> QED
      BY <2>2, <3>2, <3>3 DEF Midway
  <2> QED
    BY <1>4, <2>3, <2>4, <2>5, <2>6 DEF EditInv, FilesInv
<1> QED
  BY <1>5, <1>6

\* The invariant survives a file operation that throws.
LEMMA WriteFailsKeeps ==
  ASSUME EditInv, WriteFails
  PROVE  EditInv'
<1>1. EditTypeOK /\ NothingLost /\ Covered /\ Grounded /\ Midway /\ call # NoCall /\ call.pc = "write"
      /\ UNCHANGED <<tree, checkpoints, trash, ledger, jobWrites, seen>>
  BY DEF EditInv, FilesInv, WriteFails, Writing
<1>2. call \in Running /\ call.kind = "edit" /\ call.kind # "none"
  BY <1>1, Kinds DEF EditTypeOK, Grounded
<1>3. call.cp \in DOMAIN checkpoints /\ DOMAIN checkpoints[call.cp] \subseteq Paths
  BY <1>1, <1>2 DEF Grounded, EditTypeOK
<1>4. /\ call' \in Running /\ call'.pc = "restore" /\ call'.left = DOMAIN checkpoints[call.cp]
      /\ call'.kind = call.kind /\ call'.row = call.row /\ call'.batch = call.batch /\ call'.next = call.next
      /\ call'.raced = call.raced /\ call'.cp = call.cp /\ call'.aside = call.aside /\ call'.at = call.at
  BY <1>2, <1>3 DEF WriteFails, Running
<1>5. EditTypeOK'
  BY <1>1, <1>4 DEF EditTypeOK, Handlers
<1>6. NothingLost' /\ \A f : Kept(f) <=> Kept(f)'
  BY <1>1 DEF NothingLost, Kept
<1>7. ~call.aside
  BY <1>1, <1>2 DEF Covered
<1>8. Covered'
  BY <1>1, <1>2, <1>4, <1>6, <1>7 DEF Covered, Editing
<1>9. Grounded'
  BY <1>1, <1>2, <1>4 DEF Grounded, Editing
<1>10. Midway'
  BY <1>1, <1>2, <1>4 DEF Midway
<1> QED
  BY <1>5, <1>6, <1>8, <1>9, <1>10 DEF EditInv, FilesInv

\* What an operation does to the files.
LEMMA AppliedFiles ==
  ASSUME tree \in [Paths -> Held], NEW o \in Ops
  PROVE  /\ Applied(o) \in [Paths -> Held]
         /\ \A p \in Paths \ PathsOf(o) : Applied(o)[p] = tree[p]
         /\ o.op = "move" => Applied(o)[o.path] = Absent /\ Applied(o)[o.to] = tree[o.path]
         /\ o.op = "delete" => Applied(o)[o.path] = Absent
         /\ o.op \in {"create", "modify"} => Applied(o)[o.path] = o.content
<1>1. o.path \in Paths /\ (o.op = "move" => o.to \in Paths /\ o.to # o.path)
  BY OpPaths
<1>2. CASE o.op = "move"
  <2> DEFINE t == [tree EXCEPT ![o.to] = tree[o.path]]
  <2>1. t \in [Paths -> Held] /\ t[o.to] = tree[o.path] /\ \A p \in Paths \ {o.to} : t[p] = tree[p]
    BY <1>1, <1>2
  <2>2. Applied(o) = [t EXCEPT ![o.path] = Absent]
    BY <1>2 DEF Applied
  <2> HIDE DEF t
  <2> QED
    BY <1>1, <1>2, <2>1, <2>2 DEF PathsOf, Held
<1>3. CASE o.op = "delete"
  BY <1>1, <1>3 DEF Applied, PathsOf, Held
<1>4. CASE o.op \in {"create", "modify"}
  BY <1>1, <1>4, OpPaths DEF Applied, PathsOf, Held
<1> QED
  BY <1>2, <1>3, <1>4, OpPaths

\* The invariant survives one operation of a batch.
LEMMA WriteOneKeeps ==
  ASSUME EditInv, WriteOne
  PROVE  EditInv'
<1> DEFINE o == call.batch[call.next]
<1>1. EditTypeOK /\ NothingLost /\ Covered /\ Grounded /\ Midway /\ call # NoCall /\ call.pc = "write"
      /\ call.next <= Len(call.batch)
  BY DEF EditInv, FilesInv, WriteOne, Writing
<1>2. call \in Running /\ call.kind = "edit" /\ call.kind # "none" /\ Editing
  BY <1>1, Kinds DEF EditTypeOK, Grounded, Editing
<1>3. /\ call.batch \in Batches /\ call.next \in DOMAIN call.batch /\ call.next \in Nat
      /\ Len(call.batch) \in 1..2 /\ DOMAIN call.batch = 1..Len(call.batch)
      /\ \A i \in DOMAIN call.batch : call.batch[i] \in Ops
  BY <1>1, <1>2, BatchShape DEF Grounded
<1>4. /\ tree' = Applied(o) /\ (o.op \in {"move", "delete"} => Exists(o.path))
      /\ trash' = IF o.op = "delete" THEN trash \cup {<<o.path, tree[o.path]>>} ELSE trash
      /\ UNCHANGED <<checkpoints, ledger, jobWrites, seen>>
  BY DEF WriteOne
<1>5. o \in Ops /\ PathsOf(o) \subseteq AffectedPaths(call.batch)
  BY <1>3 DEF AffectedPaths
<1>6. /\ call' \in Running /\ call'.next = call.next + 1
      /\ call'.kind = call.kind /\ call'.row = call.row /\ call'.batch = call.batch /\ call'.pc = call.pc
      /\ call'.left = call.left
      /\ call'.raced = call.raced /\ call'.cp = call.cp /\ call'.aside = call.aside /\ call'.at = call.at
  BY <1>2, <1>3 DEF WriteOne, Running
<1> HIDE DEF o
<1>7. tree \in [Paths -> Held] /\ tree' \in [Paths -> Held]
      /\ \A p \in Paths \ PathsOf(o) : tree'[p] = tree[p]
  BY <1>1, <1>4, <1>5, AppliedFiles DEF EditTypeOK
<1>8. EditTypeOK'
  BY <1>1, <1>4, <1>5, <1>6, <1>7, OpPaths DEF EditTypeOK, Handlers, Exists, Held
<1>9. \A f : Kept(f) => Kept(f)'
  BY <1>4, KeptGrows
<1>10. NothingLost'
  <2> SUFFICES ASSUME NEW f \in seen PROVE tree'[f[1]] = f[2] \/ Kept(f)'
    BY <1>4 DEF NothingLost
  <2>1. f[1] \in Paths
    BY <1>1, Pairs DEF EditTypeOK
  <2>2. CASE f[1] \in PathsOf(o)
    BY <1>1, <1>2, <1>5, <1>9, <2>2 DEF Covered
  <2>3. CASE f[1] \notin PathsOf(o)
    BY <1>1, <1>7, <1>9, <2>1, <2>3 DEF NothingLost
  <2> QED
    BY <2>2, <2>3
<1>11. ~call.aside
  BY <1>1, <1>2 DEF Covered
<1>12. Covered'
  BY <1>1, <1>2, <1>4, <1>6, <1>9, <1>11 DEF Covered, Editing
<1>13. Grounded'
  <2>1. call.next + 1 \in 1..(Len(call.batch) + 1)
    BY <1>3
  <2>2. /\ call.row \in DOMAIN ledger /\ ledger[call.row].state = "EXECUTING"
        /\ call.cp \in DOMAIN checkpoints /\ DOMAIN checkpoints[call.cp] = AffectedPaths(call.batch)
        /\ \A i, j \in DOMAIN call.batch :
              i # j => PathsOf(call.batch[i]) \cap PathsOf(call.batch[j]) = {}
    BY <1>1, <1>2 DEF Grounded
  <2>3. call'.pc # "snapshot" /\ call'.kind = "edit"
    BY <1>1, <1>2, <1>6
  <2> QED
    BY <1>3, <1>4, <1>6, <2>1, <2>2, <2>3 DEF Grounded, Editing
<1>14. Midway'
  <2>1. ASSUME NEW i \in DOMAIN call.batch, i # call.next
        PROVE  /\ \A p \in PathsOf(call.batch[i]) : p \in Paths /\ tree'[p] = tree[p]
               /\ Outcome(call.batch[i]) => Outcome(call.batch[i])'
    <3>1. call.batch[i] \in Ops /\ PathsOf(call.batch[i]) \cap PathsOf(o) = {}
      BY <1>1, <1>2, <1>3, <2>1 DEF Grounded, o
    <3>2. \A p \in PathsOf(call.batch[i]) : p \in Paths /\ tree'[p] = tree[p]
      BY <1>7, <3>1, OpPaths
    <3> QED
      BY <1>4, <1>6, <3>1, <3>2, OpPaths DEF Outcome
  <2>2. ASSUME NEW w \in Ops, w = o PROVE Outcome(w)'
    <3>1. \A p \in PathsOf(o) \ call.raced : tree[p] = checkpoints[call.cp][p]
      BY <1>1, <1>2, <1>3 DEF Midway, o
    <3>2. o.path \in PathsOf(o)
      BY <1>5, OpPaths
    <3>3. CASE w.op = "move"
      <4>1. tree'[w.path] = Absent /\ tree'[w.to] = tree[w.path]
        BY <1>4, <1>5, <1>7, <2>2, <3>3, AppliedFiles
      <4> QED
        BY <1>4, <1>6, <2>2, <3>1, <3>2, <3>3, <4>1 DEF Outcome
    <3>4. CASE w.op = "delete"
      BY <1>4, <1>5, <1>7, <2>2, <3>4, AppliedFiles DEF Outcome
    <3>5. CASE w.op \in {"create", "modify"}
      BY <1>4, <1>5, <1>7, <2>2, <3>5, AppliedFiles DEF Outcome
    <3> QED
      BY <2>2, <3>3, <3>4, <3>5, OpPaths
  <2>3. \A i \in DOMAIN call.batch : i < call.next + 1 => Outcome(call.batch[i])'
    <3> SUFFICES ASSUME NEW i \in DOMAIN call.batch, i < call.next + 1 PROVE Outcome(call.batch[i])'
      OBVIOUS
    <3>1. CASE i = call.next
      BY <1>5, <1>6, <2>2, <3>1 DEF o
    <3>2. CASE i # call.next
      <4>1. i < call.next
        BY <1>3, <3>2
      <4> QED
        BY <1>1, <1>2, <2>1, <3>2, <4>1 DEF Midway
    <3> QED
      BY <3>1, <3>2
  <2>4. \A i \in DOMAIN call.batch : i >= call.next + 1 =>
            \A p \in PathsOf(call.batch[i]) \ call.raced : tree'[p] = checkpoints[call.cp][p]
    BY <1>1, <1>2, <1>3, <2>1 DEF Midway
  <2> QED
    BY <1>1, <1>2, <1>4, <1>6, <2>3, <2>4 DEF Midway
<1> QED
  BY <1>8, <1>10, <1>12, <1>13, <1>14 DEF EditInv, FilesInv

\* A restore works on paths of its checkpoint, and what it wants there is
\* something a path can hold.
LEMMA RestoreFacts ==
  ASSUME EditInv, Restoring
  PROVE  /\ call \in Running /\ call.kind # "none" /\ call # NoCall
         /\ call.cp \in DOMAIN checkpoints /\ call.left \subseteq DOMAIN checkpoints[call.cp]
         /\ DOMAIN checkpoints[call.cp] \subseteq Paths
         /\ \A p \in call.left : p \in Paths /\ Wanted(p) \in Held
<1>1. call \in Running /\ call.kind # "none" /\ call # NoCall /\ call.pc = "restore"
  BY Kinds DEF EditInv, FilesInv, EditTypeOK, Restoring
<1>2. call.cp \in DOMAIN checkpoints /\ call.left \subseteq DOMAIN checkpoints[call.cp]
  BY <1>1 DEF EditInv, Grounded, Midway
<1>3. checkpoints[call.cp] \in UNION {[S -> Held] : S \in SUBSET Paths}
  BY <1>2 DEF EditInv, FilesInv, EditTypeOK
<1> QED
  BY <1>1, <1>2, <1>3 DEF Wanted

\* The invariant survives the move of a file to the trash.
LEMMA MoveAsideKeeps ==
  ASSUME EditInv, NEW p \in Paths, MoveAside(p)
  PROVE  EditInv'
<1>1. EditTypeOK /\ NothingLost /\ Covered /\ Grounded /\ Midway /\ Restoring /\ p \in call.left
      /\ call.pc = "restore" /\ Exists(p)
  BY DEF EditInv, FilesInv, MoveAside, Restoring, MustMoveAside
<1>2. /\ call \in Running /\ call.kind # "none" /\ call.cp \in DOMAIN checkpoints
      /\ call.left \subseteq DOMAIN checkpoints[call.cp] /\ DOMAIN checkpoints[call.cp] \subseteq Paths
  BY <1>1, RestoreFacts
<1>3. /\ trash' = trash \cup {<<p, tree[p]>>} /\ tree' = [tree EXCEPT ![p] = Absent]
      /\ UNCHANGED <<checkpoints, ledger, jobWrites, seen>>
  BY DEF MoveAside
<1>4. /\ call' \in Running /\ call'.aside /\ call'.at = p
      /\ call'.kind = call.kind /\ call'.row = call.row /\ call'.batch = call.batch /\ call'.next = call.next
      /\ call'.left = call.left /\ call'.cp = call.cp /\ call'.pc = call.pc /\ call'.raced = call.raced
  BY <1>2 DEF MoveAside, Running
<1>5. /\ tree \in [Paths -> Held] /\ tree' \in [Paths -> Held] /\ tree'[p] = Absent
      /\ \A q \in Paths \ {p} : tree'[q] = tree[q]
  BY <1>1, <1>3 DEF EditTypeOK, Held
<1>6. EditTypeOK'
  BY <1>1, <1>3, <1>4, <1>5 DEF EditTypeOK, Handlers, Exists, Held
<1>7. \A f : Kept(f) => Kept(f)'
  BY <1>3, KeptGrows
<1>8. \A f \in seen : f[1] = p => Kept(f)'
  <2> SUFFICES ASSUME NEW f \in seen, f[1] = p PROVE Kept(f)'
    OBVIOUS
  <2>1. f = <<f[1], f[2]>>
    BY <1>1, Pairs DEF EditTypeOK
  <2>2. CASE tree[p] = f[2]
    BY <1>3, <2>1, <2>2 DEF Kept
  <2>3. CASE tree[p] # f[2]
    BY <1>1, <1>7, <2>3 DEF NothingLost
  <2> QED
    BY <2>2, <2>3
<1>9. NothingLost'
  <2> SUFFICES ASSUME NEW f \in seen PROVE tree'[f[1]] = f[2] \/ Kept(f)'
    BY <1>3 DEF NothingLost
  <2>1. f[1] \in Paths
    BY <1>1, Pairs DEF EditTypeOK
  <2> QED
    BY <1>1, <1>5, <1>7, <1>8, <2>1 DEF NothingLost
<1>10. Covered'
  BY <1>1, <1>3, <1>4, <1>5, <1>7, <1>8 DEF Covered, Editing
<1>11. Grounded'
  BY <1>1, <1>3, <1>4 DEF Grounded, Editing
<1>12. Midway'
  BY <1>1, <1>2, <1>3, <1>4, <1>5 DEF Midway
<1> QED
  BY <1>6, <1>9, <1>10, <1>11, <1>12 DEF EditInv, FilesInv

\* The invariant survives an entry put back.
LEMMA PutBackKeeps ==
  ASSUME EditInv, NEW p \in Paths, PutBack(p)
  PROVE  EditInv'
<1> USE RepoEditAssumption DEF RepoEditAssumption
<1>1. /\ EditTypeOK /\ NothingLost /\ Covered /\ Grounded /\ Midway /\ Restoring /\ p \in call.left
      /\ call.pc = "restore" /\ (call.aside => p = call.at) /\ (~call.aside => ~MustMoveAside(p))
  BY DEF EditInv, FilesInv, PutBack, Restoring
<1>2. /\ call \in Running /\ call.kind # "none" /\ call.cp \in DOMAIN checkpoints
      /\ call.left \subseteq DOMAIN checkpoints[call.cp] /\ DOMAIN checkpoints[call.cp] \subseteq Paths
      /\ Wanted(p) \in Held
  BY <1>1, RestoreFacts
<1>3. /\ tree' = IF Wanted(p) = Absent THEN tree ELSE [tree EXCEPT ![p] = Wanted(p)]
      /\ UNCHANGED <<checkpoints, trash, ledger, jobWrites, seen>>
  BY DEF PutBack
<1>4. /\ call' \in Running /\ call'.aside = FALSE /\ call'.left = call.left \ {p}
      /\ call'.kind = call.kind /\ call'.row = call.row /\ call'.batch = call.batch /\ call'.next = call.next
      /\ call'.cp = call.cp /\ call'.pc = call.pc /\ call'.raced = call.raced
  BY <1>2 DEF PutBack, Running
<1>5. /\ tree \in [Paths -> Held] /\ tree' \in [Paths -> Held]
      /\ \A q \in Paths \ {p} : tree'[q] = tree[q]
      /\ tree'[p] = IF Wanted(p) = Absent THEN tree[p] ELSE Wanted(p)
  BY <1>1, <1>2, <1>3 DEF EditTypeOK
<1>6. EditTypeOK'
  BY <1>1, <1>3, <1>4, <1>5 DEF EditTypeOK, Handlers
<1>7. \A f : Kept(f) <=> Kept(f)'
  BY <1>3 DEF Kept
<1>9. ~call.aside => tree[p] = Absent \/ tree[p] = Wanted(p)
  BY <1>1 DEF MustMoveAside, Exists
<1>10. \A f \in seen : f[1] = p => tree'[p] = f[2] \/ Kept(f)
  <2> SUFFICES ASSUME NEW f \in seen, f[1] = p PROVE tree'[p] = f[2] \/ Kept(f)
    OBVIOUS
  <2>1. f[2] # Absent
    BY <1>1, Pairs DEF EditTypeOK
  <2>2. CASE call.aside
    BY <1>1, <1>2, <2>2 DEF Covered
  <2>3. CASE ~call.aside
    BY <1>1, <1>5, <1>9, <2>1, <2>3 DEF NothingLost
  <2> QED
    BY <2>2, <2>3
<1>11. NothingLost'
  <2> SUFFICES ASSUME NEW f \in seen PROVE tree'[f[1]] = f[2] \/ Kept(f)'
    BY <1>3 DEF NothingLost
  <2>1. f[1] \in Paths
    BY <1>1, Pairs DEF EditTypeOK
  <2> QED
    BY <1>1, <1>5, <1>7, <1>10, <2>1 DEF NothingLost
<1>12. p \notin call.raced => tree'[p] = Wanted(p)
  <2>1. p \notin call.raced => tree[p] = Absent \/ tree[p] = Wanted(p)
    BY <1>1, <1>2, <1>9 DEF Covered
  <2> QED
    BY <1>5, <2>1
<1>13. Covered'
  BY <1>1, <1>3, <1>4, <1>7 DEF Covered, Editing
<1>14. Grounded'
  BY <1>1, <1>3, <1>4 DEF Grounded, Editing
<1>15. Midway'
  BY <1>1, <1>2, <1>3, <1>4, <1>5, <1>12 DEF Midway, Wanted
<1> QED
  BY <1>6, <1>11, <1>13, <1>14, <1>15 DEF EditInv, FilesInv

\* Every step keeps the invariant.
LEMMA StepKeeps == EditInv /\ [EditNext]_editing => EditInv'
<1> SUFFICES ASSUME EditInv, [EditNext]_editing PROVE EditInv'
  OBVIOUS
<1>1. CASE UNCHANGED editing
  BY <1>1 DEF editing, EditInv, FilesInv, EditTypeOK, NothingLost, Kept, Covered, Editing, Grounded, Midway,
              Outcome
<1>2. CASE EditNext
  BY <1>2, EditKeeps, RollbackKeeps, JobKeeps, SnapshotKeeps, WriteOneKeeps, WriteFailsKeeps,
     MoveAsideKeeps, PutBackKeeps, EndsKeep DEF EditNext, CallStep
<1> QED
  BY <1>1, <1>2

\* The inductive invariant.
THEOREM EditInvariant == EditSpec => []EditInv
<1> QED
  BY InitEditInv, StepKeeps, PTL DEF EditSpec

\* Nothing the tools found in the worktree is lost: whatever fails, crashes or
\* is raced by a job, it is still there, in a checkpoint or in the trash.
THEOREM FilesAreKept == EditSpec => []FilesInv
<1>1. EditInv => FilesInv
  BY DEF EditInv
<1> QED
  BY <1>1, EditInvariant, PTL

\* The steps that end a handler leave the files as they are.
LEMMA EndLeavesFiles ==
  ASSUME EditInv, EditNext, call # NoCall, call' = NoCall
  PROVE  tree' = tree
<1>1. call \in Running
  BY Kinds DEF EditInv, FilesInv, EditTypeOK
<1>2. ASSUME NEW p \in Paths, MoveAside(p) \/ PutBack(p) PROVE FALSE
  <2>1. call'.kind = call.kind
    BY <1>1, <1>2 DEF MoveAside, PutBack, Running
  <2> QED
    BY <1>1, <2>1 DEF Running, NoCall
<1>3. ASSUME NEW p \in Paths, NEW c \in Held, JobWrites(p, c) PROVE FALSE
  <2>1. call'.kind = call.kind
    BY <1>1, <1>3 DEF JobWrites, Running
  <2> QED
    BY <1>1, <2>1 DEF Running, NoCall
<1>4. ASSUME WriteOne PROVE FALSE
  <2>1. call'.kind = call.kind
    BY <1>1, <1>4 DEF WriteOne, Running
  <2> QED
    BY <1>1, <2>1 DEF Running, NoCall
<1> QED
  BY <1>2, <1>3, <1>4
     DEF EditNext, CallStep, Edit, Rollback, Snapshot, SnapshotFails, WriteFails, EditDone, RestoreFails,
         RestoreDone, CallCrash

\* What a restore that is through has put back.
LEMMA RestoreStep ==
  ASSUME EditInv, [EditNext]_editing, call # NoCall, call.pc = "restore", call.left = {}, call' = NoCall
  PROVE  \A p \in (DOMAIN checkpoints[call.cp] \cup AffectedPaths(call.batch)) \ call.raced :
           p \in DOMAIN checkpoints[call.cp] /\ tree'[p] = checkpoints[call.cp][p]
<1>1. call \in Running /\ call.kind \in {"edit", "rollback"} /\ Grounded /\ Midway
  BY Kinds DEF EditInv, FilesInv, EditTypeOK
<1>2. tree' = tree
  BY EndLeavesFiles DEF editing
<1>3. \A p \in DOMAIN checkpoints[call.cp] \ call.raced : tree[p] = checkpoints[call.cp][p]
  BY <1>1 DEF Midway
<1>4. CASE call.kind = "edit"
  BY <1>2, <1>3, <1>4, <1>1 DEF Grounded, Editing
<1>5. CASE call.kind = "rollback"
  <2>1. AffectedPaths(call.batch) = {}
    BY <1>1, <1>5 DEF Grounded, AffectedPaths
  <2> QED
    BY <1>2, <1>3, <2>1
<1> QED
  BY <1>1, <1>4, <1>5

\* A tool touches the files while its row says so.
LEMMA EffectStep ==
  ASSUME EditInv, [EditNext]_editing, tree' # tree, jobWrites' = jobWrites
  PROVE  ledger[call.row].state = "EXECUTING" /\ Unfinished(ledger'[call.row])
<1>1. jobWrites \in Nat
  BY RepoEditAssumption DEF EditInv, FilesInv, EditTypeOK, RepoEditAssumption
<1>2. WriteOne \/ \E p \in Paths : MoveAside(p) \/ PutBack(p)
  BY <1>1 DEF editing, EditNext, CallStep, Edit, Rollback, Snapshot, SnapshotFails, WriteFails, EditDone, RestoreFails,
              RestoreDone, CallCrash, JobWrites
<1>3. call # NoCall /\ ledger' = ledger
  BY <1>2 DEF WriteOne, Writing, MoveAside, PutBack, Restoring
<1>4. ledger[call.row].state = "EXECUTING"
  BY <1>3, Kinds DEF EditInv, FilesInv, EditTypeOK, Grounded
<1> QED
  BY <1>3, <1>4 DEF Unfinished, Finished

\* A batch is reported as applied when it is.
LEMMA AppliedStep ==
  ASSUME EditInv, [EditNext]_editing, call # NoCall, call.kind = "edit", ledger'[call.row].state = "SUCCEEDED"
  PROVE  \A i \in DOMAIN call.batch : Outcome(call.batch[i])
<1>1. call \in Running /\ Grounded /\ Midway /\ ledger \in Seq(AuditRow)
  BY Kinds DEF EditInv, FilesInv, EditTypeOK
<1>6. call.row \in DOMAIN ledger /\ ledger[call.row] \in AuditRow /\ ledger[call.row].state = "EXECUTING"
  BY <1>1 DEF Grounded
<1>2. Failed(ledger[call.row]).state = "FAILED"
  BY <1>6 DEF Failed, Finished, AuditRow
<1>3. ledger' # ledger /\ ledger' # [ledger EXCEPT ![call.row] = Failed(@)]
  BY <1>6, <1>2
<1>4. EditDone
  BY <1>3 DEF editing, EditNext, CallStep, Edit, Rollback, Snapshot, SnapshotFails, WriteOne, WriteFails, RestoreFails,
              RestoreDone, CallCrash, JobWrites, MoveAside, PutBack
<1>5. \A i \in DOMAIN call.batch : i < call.next
  BY <1>1, <1>4, BatchShape DEF EditDone, Grounded
<1> QED
  BY <1>1, <1>4, <1>5 DEF Midway, EditDone

\* What the agent is told of a batch or a rollback, and what the ledger shows
\* after a crash, is what the files are.
THEOREM OutcomesTold == EditSpec => OutcomesAreTrue
<1>1. EditInv /\ [EditNext]_editing
      => ( (call # NoCall /\ call.pc = "restore" /\ call.left = {} /\ call' = NoCall)
      => LET cp == checkpoints[call.cp] IN
         \A p \in (DOMAIN cp \cup AffectedPaths(call.batch)) \ call.raced :
           p \in DOMAIN cp /\ tree'[p] = cp[p] )
  BY RestoreStep
<1>2. EditInv /\ [EditNext]_editing
      => ( (tree' # tree /\ jobWrites' = jobWrites)
      => ledger[call.row].state = "EXECUTING" /\ Unfinished(ledger'[call.row]) )
  BY EffectStep
<1>3. EditInv /\ [EditNext]_editing
      => ( (call # NoCall /\ call.kind = "edit" /\ ledger'[call.row].state = "SUCCEEDED")
      => \A i \in DOMAIN call.batch : Outcome(call.batch[i]) )
  BY AppliedStep
<1>4. EditSpec => RestoreIsExact
  BY <1>1, EditInvariant, PTL DEF EditSpec, RestoreIsExact
<1>5. EditSpec => EffectsAreOnRecord
  BY <1>2, EditInvariant, PTL DEF EditSpec, EffectsAreOnRecord
<1>6. EditSpec => AppliedIsWhole
  BY <1>3, EditInvariant, PTL DEF EditSpec, AppliedIsWhole
<1> QED
  BY <1>4, <1>5, <1>6, PTL DEF OutcomesAreTrue
=============================================================================
