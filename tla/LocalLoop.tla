----------------------------- MODULE LocalLoop -----------------------------
(***************************************************************************)
(* The local loop of one task: edit, prepare dependencies, run profiles,   *)
(* commit with an attestation, sync the base, push, open the pull request  *)
(* (localLoopTools.ts, attestation.ts, commit.ts, commitPolicy.ts,         *)
(* dependencyBootstrap*.ts, syncBase.ts, push.ts, prOpen.ts), and what is  *)
(* found out about its pull request once it is closed                      *)
(* (closedTaskReconcile.ts).                                               *)
(*                                                                         *)
(* commit, sync_base, push and the launch of a run are synchronous under   *)
(* the repo write lock, so one runs at a time; the process of a running    *)
(* job writes the worktree between their steps, pr_open awaits GitHub, and *)
(* the Gateway may die anywhere.  One job per task runs at a time          *)
(* (perTaskJobs).                                                          *)
(***************************************************************************)
EXTENDS Integers, Sequences, FiniteSets, AuditLedger, PrReceipt

CONSTANTS
  Trees,          \* contents a worktree can have
  BaseTree,       \* the contents the task started from
  LockOf(_),      \* the dependency identity (lockfile, package manager) of contents
  NoLock,         \* no node_modules, or one without its marker
  Profiles,       \* verification profiles
  Budgets         \* bounds: how many commits, jobs, writes and grande_pr_open calls
                  \* one history has; each history keeps to one of them

ASSUME LocalLoopAssumption ==
  /\ BaseTree \in Trees
  /\ \A t \in Trees : LockOf(t) # NoLock
  /\ {"dependency-bootstrap"} \cap Profiles = {}
  /\ Budgets \subseteq [commits : Nat \ {0}, jobs : Nat, writes : Nat, opens : Nat]

VARIABLES
  budget,         \* the bounds of this history
  commits,        \* every commit: its contents, parents and attestation trailer
  head,           \* the task branch, checked out in the worktree
  tree,           \* the contents of the worktree
  canonical,      \* HEAD of the canonical checkout
  required,       \* requireGreenBeforeCommit
  jobs,           \* jobs of the task, oldest first
  attestations,   \* rows: the job and the commit it vouches for
  modules,        \* node_modules of the worktree: what it was made for, its marker,
                  \* and whether an install went into it without coming to its end
  cache,          \* dependency cache: what the directory of an identity was made for
  op,             \* the commit handler, when it runs; the closed task
  writes,         \* writes so far
  remote,         \* the task branch at origin, 0 when it is not there
  prs,            \* pull requests of that branch, oldest first
  opens,          \* grande_pr_open calls
  receipt         \* task_pr_receipt

worktree == <<commits, head, tree, canonical, modules>>
local == <<budget, worktree, required, jobs, attestations, cache, op, writes>>
github == <<remote, prs, opens, receipt>>
vars == <<local, github>>

Locks == {LockOf(t) : t \in Trees}
Bootstrap == "dependency-bootstrap"
Idle == [pc |-> "none"]
Closed == [pc |-> "closed"]
None == [prepared |-> NoLock, marker |-> NoLock, partial |-> FALSE]

\* A commit and everything it contains: what every set of commits that holds it and the
\* parents of its own holds (isAncestor).
Parents(c) == {commits[c].parent, commits[c].merged} \ {0}
Histories == {S \in SUBSET (DOMAIN commits) : \A c \in S : Parents(c) \subseteq S}
Ancestors(c) == {a \in DOMAIN commits : \A S \in Histories : c \in S => a \in S}

Clean == tree = commits[head].tree
Passed(j) == jobs[j].state = "passed"
Running == {j \in DOMAIN jobs : jobs[j].state = "running"}

\* workspaceDigest: HEAD and the contents, without the ignored node_modules.
Digest_NoHead == [head |-> 1, tree |-> tree]
Digest == [head |-> head, tree |-> tree]

Commit(parent, merged, t, by) ==
  [parent |-> parent, merged |-> merged, tree |-> t, by |-> by, trailer |-> 0, raced |-> FALSE]

Init ==
  /\ budget \in Budgets
  /\ commits = <<Commit(0, 0, BaseTree, "base")>>
  /\ head = 1 /\ canonical = 1 /\ tree = BaseTree
  /\ required \in SUBSET Profiles
  /\ jobs = <<>> /\ attestations = {}
  /\ modules = None /\ cache = [l \in Locks |-> NoLock]
  /\ op = Idle /\ writes = 0
  /\ remote = 0 /\ prs = <<>> /\ opens = <<>> /\ receipt = NoReceipt

-----------------------------------------------------------------------------
(* Writing the worktree                                                    *)

\* What a running job has seen of the worktree, for the history of the model.
Saw(job, t) == [job EXCEPT !.seen = job.seen \cup {t}]
Seen(js, t) ==
  [j \in DOMAIN js |-> IF js[j].state = "running" THEN Saw(js[j], t) ELSE js[j]]

\* grande_repo_edit or grande_rollback, as a whole; nothing keeps it from
\* running while a job does.
Edit(t) ==
  /\ op = Idle /\ writes < budget.writes
  /\ t # tree
  /\ tree' = t
  /\ writes' = writes + 1
  /\ jobs' = Seen(jobs, t)
  /\ UNCHANGED <<budget, commits, head, canonical, modules, required, attestations, cache, op, github>>

\* The process of a running profile writes its worktree, whatever runs here.
JobWrites(t) ==
  /\ writes < budget.writes
  /\ \E j \in Running : jobs[j].profile # Bootstrap
  /\ t # tree
  /\ tree' = t
  /\ writes' = writes + 1
  /\ jobs' = Seen(jobs, t)
  /\ op' = IF op = Idle THEN op ELSE [op EXCEPT !.raced = TRUE]
  /\ UNCHANGED <<budget, commits, head, canonical, modules, required, attestations, cache, github>>

-----------------------------------------------------------------------------
(* grande_run and the dependencies it needs                                *)

Job(profile, lock) ==
  [profile |-> profile, state |-> "running", lock |-> lock, digest |-> Digest,
   head |-> head, tree |-> tree, seen |-> {tree}, bounced |-> FALSE]

\* reserveManagedJob: one execution per task.
Admitted == Running = {}

\* node_modules with an install under way: pnpm changes what is there and leaves the
\* marker, npm ci removes the files, the marker among them.
Underway == IF modules.marker = NoLock THEN None
            ELSE [prepared |-> NoLock, marker |-> modules.marker, partial |-> TRUE]

\* Installs that did not come to an end of their own: under way, cut by a crash, or cancelled.
Interrupted == {j \in DOMAIN jobs : jobs[j].profile = Bootstrap /\ jobs[j].state \in {"running", "killed"}}

\* The digest is taken before the handler and recorded afterwards on the job
\* of the answer, be it the profile's, a new bootstrap or one that runs already.
Run(p) ==
  /\ op = Idle
  /\ LET lock == LockOf(tree)
         same == {j \in Running : jobs[j].profile = Bootstrap /\ jobs[j].lock = lock}
         Start(profile) == Len(jobs) < budget.jobs /\ jobs' = Append(jobs, Job(profile, lock))
     IN
     IF ~Admitted
     THEN /\ same # {}
          /\ jobs' = [j \in DOMAIN jobs |->
                        IF j \in same THEN [jobs[j] EXCEPT !.digest = Digest] ELSE jobs[j]]
          /\ UNCHANGED modules
     ELSE \/ modules.marker = lock /\ Start(p) /\ UNCHANGED modules
          \/ /\ modules.marker # lock /\ cache[lock] # NoLock
             /\ modules' = [prepared |-> cache[lock], marker |-> lock, partial |-> FALSE]
             /\ Start(p)
          \/ /\ modules.marker # lock /\ cache[lock] = NoLock
             /\ Start(Bootstrap) /\ modules' \in {modules, Underway, None}
  /\ UNCHANGED <<budget, commits, head, tree, canonical, required, attestations, cache, op, writes, github>>

End(j, state) == jobs' = [jobs EXCEPT ![j].state = state]

\* The profile ends; the row is written by the event loop, never inside a
\* synchronous handler.
ProfileEnds(j, state) ==
  /\ op = Idle
  /\ j \in Running /\ jobs[j].profile # Bootstrap
  /\ End(j, state)
  /\ UNCHANGED <<budget, worktree, required, attestations, cache, op, writes, github>>

\* assertStableDependencyIdentity compares with the identity it began with.
Stable(j) == LockOf(tree) = jobs[j].lock

\* Whether the lockfile was another one meanwhile, and changed back.
Installed(job) ==
  [job EXCEPT !.state = "passed",
              !.bounced = LockOf(tree) = job.lock /\ \E t \in job.seen : LockOf(t) # job.lock]

\* The install succeeds, for a lockfile the worktree held meanwhile.
BootstrapInstalls(j, lock) ==
  /\ op = Idle
  /\ j \in Running /\ jobs[j].profile = Bootstrap
  /\ lock \in {LockOf(t) : t \in jobs[j].seen}
  /\ IF Stable(j)
     THEN /\ modules' = [prepared |-> lock, marker |-> jobs[j].lock, partial |-> FALSE]
          /\ cache' = [cache EXCEPT ![jobs[j].lock] = IF @ = NoLock THEN lock ELSE @]
          /\ jobs' = [jobs EXCEPT ![j] = Installed(jobs[j])]
     ELSE End(j, "failed") /\ modules' = None /\ UNCHANGED cache
  /\ UNCHANGED <<budget, commits, head, tree, canonical, required, attestations, op, writes, github>>

\* The install fails, times out or is cancelled: node_modules is removed.
BootstrapFails(j) ==
  /\ op = Idle
  /\ j \in Running /\ jobs[j].profile = Bootstrap
  /\ End(j, "failed") /\ modules' = None
  /\ UNCHANGED <<budget, commits, head, tree, canonical, required, attestations, cache, op, writes, github>>

\* A cancellation accepted once the install had succeeded: nothing is published,
\* and node_modules stays, under the marker it had if the install kept one.
BootstrapCancelledLate(j) ==
  /\ op = Idle
  /\ j \in Running /\ jobs[j].profile = Bootstrap
  /\ End(j, "killed") /\ modules' \in {Underway, None}
  /\ UNCHANGED <<budget, commits, head, tree, canonical, required, attestations, cache, op, writes, github>>

-----------------------------------------------------------------------------
(* grande_commit                                                           *)

\* missingProfiles
Green_AnyDigest(p) == \E j \in DOMAIN jobs : jobs[j].profile = p /\ Passed(j)
Green(p) == \E j \in DOMAIN jobs : jobs[j].profile = p /\ Passed(j) /\ jobs[j].digest = Digest

\* assertTaskBranch, the audit row and the commit policy; a refusal only
\* ends the row.
CommitAllowed ==
  /\ op = Idle
  /\ \A p \in required : Green(p)
  /\ op' = [pc |-> "capture", job |-> 0, commit |-> 0, raced |-> FALSE,
            row |-> Executing(Allowed(BeginAudit))]
  /\ UNCHANGED <<budget, worktree, required, jobs, attestations, cache, writes, github>>

\* prepareAttestationCandidate: the latest job of the task that passed on
\* exactly this digest, whatever its profile.
Candidates == {j \in DOMAIN jobs : Passed(j) /\ jobs[j].digest = Digest}
Candidate == IF Candidates = {} THEN 0 ELSE CHOOSE j \in Candidates : \A i \in Candidates : i <= j

Capture ==
  /\ op # Idle /\ op.pc = "capture"
  /\ op' = [op EXCEPT !.pc = "commit", !.job = Candidate]
  /\ UNCHANGED <<budget, worktree, required, jobs, attestations, cache, writes, github>>

\* commitWorktree: git add and commit.  Without changes it answers with HEAD
\* when there is something to attest, and refuses otherwise.
GitCommit ==
  /\ op # Idle /\ op.pc = "commit"
  /\ IF Clean
     THEN /\ IF op.job = 0 THEN op' = Idle ELSE op' = [op EXCEPT !.pc = "attest", !.commit = head]
          /\ UNCHANGED worktree
     ELSE /\ Len(commits) < budget.commits
          /\ commits' = Append(commits, [Commit(head, 0, tree, "task") EXCEPT !.trailer = op.job, !.raced = op.raced])
          /\ head' = Len(commits) + 1
          /\ op' = [op EXCEPT !.pc = "attest", !.commit = Len(commits) + 1]
          /\ UNCHANGED <<tree, canonical, modules>>
  /\ UNCHANGED <<budget, required, jobs, attestations, cache, writes, github>>

\* issueAttestation, the end of the audit row and the answer.
Attest ==
  /\ op # Idle /\ op.pc = "attest"
  /\ attestations' = IF op.job = 0 THEN attestations
                     ELSE attestations \cup {[job |-> op.job, commit |-> op.commit, raced |-> op.raced]}
  /\ op' = Idle
  /\ UNCHANGED <<budget, worktree, required, jobs, cache, writes, github>>

-----------------------------------------------------------------------------
(* grande_sync_base                                                        *)

Relation(ours, theirs) ==
  IF ours = theirs THEN "equal"
  ELSE IF theirs \in Ancestors(ours) THEN "task_ahead"
  ELSE IF ours \in Ancestors(theirs) THEN "canonical_ahead" ELSE "diverged"

\* Equal and task_ahead change nothing; a conflict is aborted.  t: what a
\* merge without conflict makes of the two contents.
SyncBase(t) ==
  /\ op = Idle /\ Clean
  /\ \/ /\ Relation(head, canonical) = "canonical_ahead"
        /\ head' = canonical
        /\ tree' = commits[canonical].tree
        /\ UNCHANGED commits
     \/ /\ Relation(head, canonical) = "diverged"
        /\ Len(commits) < budget.commits
        /\ commits' = Append(commits, Commit(head, canonical, t, "task"))
        /\ head' = Len(commits) + 1
        /\ tree' = t
  /\ jobs' = Seen(jobs, tree')
  /\ UNCHANGED <<budget, canonical, modules, required, attestations, cache, op, writes, github>>

\* refreshCanonical fast-forwards the checkout to what others merged: work of
\* their own, or a pull request of this branch.
CanonicalAdvances(t) ==
  /\ op = Idle
  /\ Len(commits) < budget.commits
  /\ \E m \in {0} \cup {prs[n].head : n \in {k \in DOMAIN prs : prs[k].state = "merged"}} :
       commits' = Append(commits, Commit(canonical, m, t, "others"))
  /\ canonical' = Len(commits) + 1
  /\ UNCHANGED <<budget, head, tree, modules, required, jobs, attestations, cache, op, writes, github>>

-----------------------------------------------------------------------------
(* grande_push and grande_pr_open                                          *)

\* Mutant: git push --force.
Push_Forced ==
  /\ op = Idle
  /\ budget.opens # 0
  /\ head # 1 /\ remote # head
  /\ remote' = head
  /\ UNCHANGED <<local, prs, opens, receipt>>

\* A commit of its own, then the exact remote state is read; only a remote
\* that differs is written, and GitHub takes what is a fast-forward of what it
\* has by then.  Reading again after a failed write changes only the answer.
Push ==
  /\ op = Idle
  /\ budget.opens # 0
  /\ head # 1 /\ remote # head
  /\ remote = 0 \/ remote \in Ancestors(head)
  /\ remote' = head
  /\ UNCHANGED <<local, prs, opens, receipt>>

\* Somebody with access to origin adds a commit to the branch there, at any
\* moment (the steps of a commit here read nothing of origin).
OthersPush(t) ==
  /\ op \in {Idle, Closed}
  /\ budget.opens # 0 /\ remote # 0
  /\ Len(commits) < budget.commits
  /\ commits' = Append(commits, Commit(remote, 0, t, "guest"))
  /\ remote' = Len(commits) + 1
  /\ UNCHANGED <<budget, head, tree, canonical, modules, required, jobs, attestations, cache, op, writes,
                 prs, opens, receipt>>

IsClosed == op.pc \in {"closed", "readback"}
OpenPrs == {n \in DOMAIN prs : prs[n].state = "open"}

OpenStarts ==
  /\ op = Idle
  /\ Len(opens) < budget.opens
  /\ opens' = Append(opens, [pc |-> "find", head |-> head, found |-> 0])
  /\ UNCHANGED <<local, remote, prs, receipt>>

\* recordTaskPrOpened refuses a receipt that says otherwise: the call fails.
Record(seen) ==
  receipt' = IF OpenAccepts(receipt, seen, FALSE) THEN Opened(receipt, seen, FALSE) ELSE receipt

\* The search for an open pull request of the branch answers.  One there is
\* recorded without a head; else HEAD must be there and not have moved since,
\* and the creation is sent.
Found(i) ==
  /\ opens[i].pc = "find"
  /\ op = Idle \/ IsClosed
  /\ \E n \in OpenPrs \cup {0} :
       IF n # 0
       THEN opens' = [opens EXCEPT ![i].pc = "done"] /\ Record(Observation(n, 0, 0))
       ELSE /\ OpenPrs = {}
            /\ opens' = [opens EXCEPT ![i].pc = IF head = opens[i].head /\ ~IsClosed THEN "create" ELSE "done"]
            /\ UNCHANGED receipt
  /\ UNCHANGED <<local, remote, prs>>

\* GitHub creates it when the branch is there and has no open pull request.
Created(i) ==
  /\ opens[i].pc = "create"
  /\ remote # 0 /\ OpenPrs = {} /\ Len(prs) < budget.opens
  /\ prs' = Append(prs, [state |-> "open", head |-> 0])
  /\ opens' = [opens EXCEPT ![i].pc = "answer", ![i].found = Len(prs) + 1]
  /\ UNCHANGED <<local, remote, receipt>>

\* It refuses, or its answer to a creation it did is lost: the newest pull
\* request of the branch is looked up, closed ones included.
LooksAgain(i) ==
  /\ opens[i].pc \in {"create", "answer"}
  /\ opens' = [opens EXCEPT ![i].pc = IF prs = <<>> THEN "done" ELSE "answer", ![i].found = Len(prs)]
  /\ UNCHANGED <<local, remote, prs, receipt>>

Recorded(i) ==
  /\ opens[i].pc = "answer"
  /\ op = Idle \/ IsClosed
  /\ Record(Observation(opens[i].found, opens[i].head, 0))
  /\ opens' = [opens EXCEPT ![i].pc = "done"]
  /\ UNCHANGED <<local, remote, prs>>

\* Others close the pull request, or merge it onto the base.
PrEnds(n, state) ==
  /\ prs[n].state = "open"
  /\ prs' = [prs EXCEPT ![n].state = state, ![n].head = remote]
  /\ UNCHANGED <<local, remote, opens, receipt>>

\* The lifecycle tools read the pull request of the receipt, or the branch's.
ObserveMerged(n) ==
  /\ op = Idle
  /\ prs[n].state = "merged"
  /\ LET seen == Observation(n, prs[n].head, 1) IN
     /\ MergeAccepts(receipt, seen, prs[n].head)
     /\ receipt' = Merged(receipt, seen, prs[n].head)
  /\ UNCHANGED <<local, remote, prs, opens>>

-----------------------------------------------------------------------------
(* grande_pr_merge of a closed task: its worktree is gone, the receipt may  *)
(* still be made good from GitHub.                                         *)

CloseTask ==
  /\ op = Idle /\ Running = {} /\ budget.opens # 0
  /\ op' = Closed
  /\ UNCHANGED <<budget, worktree, required, jobs, attestations, cache, writes, github>>

\* assertClosedTaskReconcileState: the commit of the latest attestation.
TrustedHeads ==
  {a.commit : a \in {b \in attestations : Passed(b.job) /\ \A c \in attestations : c.job <= b.job}}

\* The newest pull request of the branch is the receipt's, if there is one, and merged with
\* the trusted head.  Reading GitHub takes its time.
ReadBack ==
  /\ op = Closed
  /\ prs # <<>>
  /\ LET n == Len(prs) IN
     /\ SameIdentity(receipt, Observation(n, 0, 0))
     /\ prs[n].state = "merged" /\ prs[n].head \in TrustedHeads
     /\ op' = [pc |-> "readback", pr |-> n, head |-> prs[n].head]
  /\ UNCHANGED <<budget, worktree, required, jobs, attestations, cache, writes, github>>

\* recordClosedTaskPrMerged: in one transaction, unless the row now says otherwise.
WriteBack ==
  /\ op.pc = "readback"
  /\ LET seen == Observation(op.pr, op.head, 1) IN
     receipt' = IF /\ receipt.head \in {0, op.head} /\ receipt.base \in {0, 1}
                   /\ MergeAccepts(receipt, seen, op.head)
                THEN Merged(receipt, seen, op.head) ELSE receipt
  /\ op' = Closed
  /\ UNCHANGED <<budget, worktree, required, jobs, attestations, cache, writes, remote, prs, opens>>

-----------------------------------------------------------------------------
\* The Gateway dies and is started again: handlers end where they are, a
\* running job is closed as killed, and node_modules stays as its install left it.
Crash ==
  /\ op \notin {Idle, Closed} \/ Running # {} \/ \E i \in DOMAIN opens : opens[i].pc # "done"
  /\ op' = IF IsClosed THEN Closed ELSE Idle
  /\ jobs' = [j \in DOMAIN jobs |-> IF j \in Running THEN [jobs[j] EXCEPT !.state = "killed"] ELSE jobs[j]]
  /\ opens' = [i \in DOMAIN opens |-> [opens[i] EXCEPT !.pc = "done"]]
  /\ UNCHANGED <<budget, worktree, required, attestations, cache, writes, remote, prs, receipt>>

Next ==
  \/ \E t \in Trees : Edit(t) \/ JobWrites(t) \/ SyncBase(t) \/ CanonicalAdvances(t) \/ OthersPush(t)
  \/ \E p \in Profiles : Run(p)
  \/ \E j \in DOMAIN jobs :
       \/ \E state \in {"passed", "failed"} : ProfileEnds(j, state)
       \/ \E lock \in Locks : BootstrapInstalls(j, lock)
       \/ BootstrapFails(j) \/ BootstrapCancelledLate(j)
  \/ CommitAllowed \/ Capture \/ GitCommit \/ Attest
  \/ Push \/ OpenStarts
  \/ \E i \in DOMAIN opens : Found(i) \/ Created(i) \/ LooksAgain(i) \/ Recorded(i)
  \/ \E n \in DOMAIN prs : \/ \E state \in {"closed", "merged"} : PrEnds(n, state)
                           \/ ObserveMerged(n)
  \/ CloseTask \/ ReadBack \/ WriteBack
  \/ Crash

Spec == Init /\ [][Next]_vars
-----------------------------------------------------------------------------
JobNumbers == 0..budget.jobs
CommitNumbers == 0..budget.commits
CommitRecord == [parent : CommitNumbers, merged : CommitNumbers, tree : Trees,
                 by : {"base", "task", "others", "guest"}, trailer : JobNumbers, raced : BOOLEAN]
JobRecord == [profile : Profiles \cup {Bootstrap}, state : {"running", "passed", "failed", "killed"},
              lock : Locks, digest : [head : CommitNumbers, tree : Trees],
              head : CommitNumbers, tree : Trees, seen : SUBSET Trees, bounced : BOOLEAN]
OpRecord == [pc : {"capture", "commit", "attest"}, job : JobNumbers, commit : CommitNumbers,
             raced : BOOLEAN, row : AuditRow]

TypeOK ==
  /\ budget \in Budgets
  /\ commits \in Seq(CommitRecord)
  /\ {head, canonical} \subseteq DOMAIN commits
  /\ tree \in Trees
  /\ required \subseteq Profiles
  /\ jobs \in Seq(JobRecord)
  /\ Cardinality(Running) <= 1
  /\ attestations \subseteq [job : DOMAIN jobs, commit : DOMAIN commits, raced : BOOLEAN]
  /\ modules \in [prepared : Locks \cup {NoLock}, marker : Locks \cup {NoLock}, partial : BOOLEAN]
  /\ cache \in [Locks -> Locks \cup {NoLock}]
  /\ op \in {Idle, Closed} \cup OpRecord \cup [pc : {"readback"}, pr : DOMAIN prs, head : DOMAIN commits]
  /\ writes \in 0..budget.writes
  /\ remote \in {0} \cup DOMAIN commits
  /\ prs \in Seq([state : {"open", "closed", "merged"}, head : {0} \cup DOMAIN commits])
  /\ opens \in Seq([pc : {"find", "create", "answer", "done"}, head : DOMAIN commits, found : 0..budget.opens])
  /\ receipt.pr \in {0} \cup DOMAIN prs

\* What the repository says a job vouches for: the attestation rows, and the
\* trailers of the commits, which a crash can leave without their row.
Vouched ==
  {<<a.job, a.commit>> : a \in {b \in attestations : ~b.raced}} \cup
  {<<commits[c].trailer, c>> : c \in {d \in DOMAIN commits : commits[d].trailer # 0 /\ ~commits[d].raced}}

\* A commit vouched for by a profile run holds exactly what the worktree held
\* when that run was started, on the HEAD it was started on, and the run
\* passed: not the contents after a later edit, not another commit with the
\* same contents (writes of a job inside the commit handler excepted).
AttestedAsStarted ==
  \A v \in Vouched : LET j == jobs[v[1]] c == commits[v[2]] IN
    j.profile \in Profiles =>
      /\ j.state = "passed"
      /\ j.tree = c.tree
      /\ j.head \in {v[2], c.parent}

\* A commit by the tool was preceded by a passing run of every required
\* profile, started on the same HEAD with the contents that are committed
\* (writes of a job inside the handler excepted).
RequiredGreen ==
  [][ \A c \in DOMAIN commits' \ DOMAIN commits :
        (commits'[c].by = "task" /\ op # Idle /\ ~op.raced) =>
          \A p \in required : \E j \in DOMAIN jobs :
            /\ jobs[j].profile = p /\ Passed(j)
            /\ jobs[j].head = head /\ jobs[j].tree = commits'[c].tree ]_vars

\* No commit is ever lost from a branch: what the task committed or merged in
\* stays an ancestor of HEAD, and what somebody else put on the branch at origin
\* stays an ancestor of what is there, whatever the task pushes afterwards.
NothingDropped ==
  /\ \A c \in DOMAIN commits : commits[c].by = "task" => c \in Ancestors(head)
  /\ \A c \in DOMAIN commits : commits[c].by = "guest" => remote # 0 /\ c \in Ancestors(remote)

\* node_modules that carries the marker of an identity was installed for that
\* identity, in the worktree and in the cache every other task copies from.
\* Two exceptions: an install during which the lockfile changed and changed
\* back, and, in the worktree only, an older marker on what an install did not
\* bring to its end, under way, cut by a crash or cancelled too late.
MarkerIsTrue ==
  LET Bounced(lock) == \E j \in DOMAIN jobs : jobs[j].bounced /\ jobs[j].lock = lock IN
  /\ modules.marker # NoLock =>
       \/ modules.prepared = modules.marker \/ Bounced(modules.marker)
       \/ modules.partial /\ Interrupted # {}
  /\ \A lock \in Locks : cache[lock] \in {NoLock, lock} \/ Bounced(lock)

\* What the branch and the dependency tree have is what they say they have.
LoopInv == TypeOK /\ NothingDropped /\ MarkerIsTrue

\* A receipt with merge evidence names a pull request GitHub merged, with the
\* head it merged, however late an earlier grande_pr_open records what it saw,
\* and whoever observes the merge, the task open or closed.
ReceiptOfTheMerge ==
  receipt.merge # 0 =>
    /\ prs[receipt.pr].state = "merged"
    /\ receipt.head = prs[receipt.pr].head
=============================================================================
