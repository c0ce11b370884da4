-------------------------- MODULE TaskLoopProofs --------------------------
(***************************************************************************)
(* Proofs about the local loop of a task and the lock its writers hold.    *)
(* LocalLoop, whatever the bounds, contents, profiles and lockfiles: what  *)
(* is committed was run, nothing committed drops out of the branch,        *)
(* node_modules is what its marker says, a merge receipt names what was    *)
(* merged.  RepoLock, for any number of processes, calls and deaths: while *)
(* no recovery has removed a lock it had not read, whoever is past the     *)
(* creation of the lock file is the owner on record, and alone.            *)
(***************************************************************************)
EXTENDS LocalLoop, RepoLock, WellFoundedInduction, FiniteSetTheorems, SequenceTheorems, TLAPS

-----------------------------------------------------------------------------
(* The local loop of one task (LocalLoop).                                 *)

\* What commits, jobs and the handler are made of, whatever the bounds.
ACommit == [parent : Nat, merged : Nat, tree : Trees, by : {"base", "task", "others", "guest"},
            trailer : Nat, raced : BOOLEAN]
AJob == [profile : Profiles \cup {Bootstrap}, state : {"running", "passed", "failed", "killed"},
         lock : Locks, digest : [head : Nat, tree : Trees], head : Nat, tree : Trees,
         seen : SUBSET Trees, bounced : BOOLEAN]
AHandler == [pc : {"capture", "commit", "attest"}, job : Nat, commit : Nat, raced : BOOLEAN,
             row : AuditRow]
AReading == [pc : {"readback"}, pr : Nat, head : Nat]
APr == [state : {"open", "closed", "merged"}, head : Nat]
AnOpening == [pc : {"find", "create", "answer", "done"}, head : Nat, found : Nat]

LoopTypes ==
  /\ budget \in Budgets /\ writes \in 0..budget.writes /\ tree \in Trees /\ required \subseteq Profiles
  /\ commits \in Seq(ACommit) /\ head \in DOMAIN commits /\ canonical \in DOMAIN commits
  /\ remote \in {0} \cup DOMAIN commits
  /\ jobs \in Seq(AJob) /\ attestations \subseteq [job : Nat, commit : Nat, raced : BOOLEAN]
  /\ modules \in [prepared : Locks \cup {NoLock}, marker : Locks \cup {NoLock}, partial : BOOLEAN]
  /\ cache \in [Locks -> Locks \cup {NoLock}]
  /\ op \in {Idle, Closed} \cup AHandler \cup AReading
  /\ prs \in Seq(APr) /\ opens \in Seq(AnOpening)
  /\ receipt \in [pr : Nat, head : Nat, base : Nat, merge : Nat]

\* How much of its bounds a history has used, and that one job runs at a time.
Bounded ==
  /\ Len(commits) <= budget.commits /\ Len(jobs) <= budget.jobs /\ Len(prs) <= budget.opens
  /\ \A i, j \in Running : i = j

\* The branch of the task: every commit knows its parents, the task's are in HEAD, and what
\* others put on the branch at origin is in what is there.
BranchInv ==
  /\ \A c \in DOMAIN commits : Parents(c) \subseteq DOMAIN commits
  /\ NothingDropped

\* A job: what it was started on, and what its process has seen.
JobsInv ==
  \A j \in DOMAIN jobs :
    /\ jobs[j].profile \in Profiles => jobs[j].digest = [head |-> jobs[j].head, tree |-> jobs[j].tree]
    /\ jobs[j].lock = LockOf(jobs[j].tree) /\ jobs[j].tree \in jobs[j].seen
    /\ jobs[j].state = "running" => ~jobs[j].bounced
    /\ jobs[j].head \in DOMAIN commits /\ jobs[j].digest.head \in DOMAIN commits

\* The commit handler: the profiles were green on what is checked out, and the job that it
\* attests ran on that.  A closed task has no job.
OpInv ==
  /\ (op.pc \in {"capture", "commit"} /\ ~op.raced) =>
       \A p \in required : \E j \in DOMAIN jobs :
         jobs[j].profile = p /\ Passed(j) /\ jobs[j].head = head /\ jobs[j].tree = tree
  /\ op.pc \in {"capture", "commit"} => op.commit = 0
  /\ op.pc = "capture" => op.job = 0
  /\ (op.pc \in {"commit", "attest"} /\ op.job # 0) => op.job \in DOMAIN jobs /\ Passed(op.job)
  /\ (op.pc = "commit" /\ op.job # 0 /\ jobs[op.job].profile \in Profiles /\ ~op.raced) =>
       jobs[op.job].head = head /\ jobs[op.job].tree = tree
  /\ op.pc = "attest" => op.commit \in DOMAIN commits
  /\ (op.pc = "attest" /\ op.job # 0 /\ jobs[op.job].profile \in Profiles /\ ~op.raced) =>
       /\ jobs[op.job].head \in {op.commit, commits[op.commit].parent}
       /\ jobs[op.job].tree = commits[op.commit].tree
  /\ IsClosed => Running = {}
  /\ op.pc = "readback" =>
       /\ op.pr \in DOMAIN prs /\ op.head \in DOMAIN commits
       /\ prs[op.pr].state = "merged" /\ prs[op.pr].head = op.head

\* Trailers name jobs, and what is vouched for was run.
VouchInv ==
  /\ \A c \in DOMAIN commits : commits[c].trailer \in {0} \cup DOMAIN jobs
  /\ \A a \in attestations : a.job \in DOMAIN jobs /\ a.commit \in DOMAIN commits
  /\ AttestedAsStarted

\* Pull requests are of a branch that was pushed; a receipt names one.
HubInv ==
  /\ prs # <<>> => remote # 0
  /\ \A n \in DOMAIN prs : prs[n].head \in {0} \cup DOMAIN commits
                          /\ (prs[n].state = "merged" => prs[n].head # 0)
  /\ \A i \in DOMAIN opens : opens[i].found \in {0} \cup DOMAIN prs
                            /\ opens[i].head \in DOMAIN commits
  /\ receipt.pr \in {0} \cup DOMAIN prs /\ (receipt.merge # 0 => receipt.pr # 0)
  /\ ReceiptOfTheMerge

\* The inductive invariant.
LocalInv ==
  LoopTypes /\ Bounded /\ BranchInv /\ JobsInv /\ OpInv /\ VouchInv /\ MarkerIsTrue /\ HubInv

\* A sequence that is made element by element.
LEMMA Mapped ==
  ASSUME NEW S, NEW s \in Seq(S), NEW T, NEW g, DOMAIN g = DOMAIN s, g = [i \in DOMAIN g |-> g[i]],
         \A i \in DOMAIN s : g[i] \in T
  PROVE  g \in Seq(T) /\ Len(g) = Len(s)
<1>1. Len(s) \in Nat /\ DOMAIN s = 1..Len(s)
  OBVIOUS
<1>2. g = [i \in 1..Len(s) |-> g[i]] /\ DOMAIN g = 1..Len(s)
  BY <1>1
<1> QED
  BY <1>1, <1>2

\* A sequence of the elements it has.
LEMMA ReadAs ==
  ASSUME NEW S, NEW s \in Seq(S), NEW T, \A i \in DOMAIN s : s[i] \in T
  PROVE  s \in Seq(T)
<1>1. Len(s) \in Nat /\ DOMAIN s = 1..Len(s) /\ s = [i \in 1..Len(s) |-> s[i]]
  OBVIOUS
<1> QED
  BY <1>1

\* One more element.
LEMMA OneMore ==
  ASSUME NEW S, NEW s \in Seq(S), NEW e \in S, NEW t, t = Append(s, e)
  PROVE  /\ t \in Seq(S) /\ Len(t) = Len(s) + 1 /\ DOMAIN t = DOMAIN s \cup {Len(s) + 1}
         /\ t[Len(s) + 1] = e /\ \A i \in DOMAIN s : t[i] = s[i]
         /\ Len(s) + 1 \notin DOMAIN s /\ Len(s) \in Nat
OBVIOUS

\* Everything in a commit is a commit, itself among them.
LEMMA AncestorsAre ==
  ASSUME NEW c \in DOMAIN commits
  PROVE  c \in Ancestors(c) /\ Ancestors(c) \subseteq DOMAIN commits
BY DEF Ancestors

\* What a commit contains, contains what is in it.
LEMMA Transitive ==
  ASSUME NEW c, NEW d \in Ancestors(c)
  PROVE  Ancestors(d) \subseteq Ancestors(c)
BY DEF Ancestors

\* A new commit contains what its parents do, and what the others contain stays.
LEMMA AncestorsGrow ==
  ASSUME LoopTypes, BranchInv, NEW e \in ACommit, {e.parent, e.merged} \ {0} \subseteq DOMAIN commits,
         commits' = Append(commits, e), NEW n, n = Len(commits) + 1
  PROVE  /\ \A c \in DOMAIN commits : Ancestors(c) \subseteq Ancestors(c)'
         /\ \A p \in {e.parent, e.merged} \ {0} : Ancestors(p) \subseteq Ancestors(n)'
         /\ n \in Ancestors(n)' /\ n \in DOMAIN commits' /\ n \notin DOMAIN commits
         /\ \A c \in DOMAIN commits' : Parents(c)' \subseteq DOMAIN commits'
<1>1. /\ DOMAIN commits' = DOMAIN commits \cup {n} /\ n \notin DOMAIN commits /\ commits'[n] = e
      /\ \A c \in DOMAIN commits : commits'[c] = commits[c]
  <2>1. commits \in Seq(ACommit)
    BY DEF LoopTypes
  <2> HIDE DEF ACommit
  <2> QED
    BY <2>1, OneMore
<1>2. \A c \in DOMAIN commits : Parents(c)' = Parents(c) /\ Parents(c) \subseteq DOMAIN commits
  BY <1>1 DEF Parents, BranchInv
<1>3. Parents(n)' = {e.parent, e.merged} \ {0}
  BY <1>1 DEF Parents
<1>4. \A S \in Histories' : S \cap DOMAIN commits \in Histories
  BY <1>1, <1>2 DEF Histories
<1>5. \A S \in Histories' : n \in S => {e.parent, e.merged} \ {0} \subseteq S
  BY <1>3 DEF Histories
<1>6. \A c \in DOMAIN commits : Ancestors(c) \subseteq Ancestors(c)'
  BY <1>1, <1>4 DEF Ancestors
<1>7. \A p \in {e.parent, e.merged} \ {0} : Ancestors(p) \subseteq Ancestors(n)'
  <2> SUFFICES ASSUME NEW p \in {e.parent, e.merged} \ {0}, NEW a \in Ancestors(p),
                      NEW S \in Histories', n \in S
               PROVE  a \in S
    BY <1>1 DEF Ancestors
  <2>1. S \cap DOMAIN commits \in Histories /\ p \in S \cap DOMAIN commits
    BY <1>4, <1>5
  <2> QED
    BY <2>1 DEF Ancestors
<1>8. n \in Ancestors(n)'
  BY <1>1 DEF Ancestors
<1>9. \A c \in DOMAIN commits' : Parents(c)' \subseteq DOMAIN commits'
  BY <1>1, <1>2, <1>3
<1> QED
  BY <1>1, <1>6, <1>7, <1>8, <1>9

\* The initial states satisfy the invariant.
LEMMA LocalInit == Init => LocalInv
<1> SUFFICES ASSUME Init PROVE LocalInv
  OBVIOUS
<1> DEFINE b == Commit(0, 0, BaseTree, "base")
<1>0. /\ commits = <<b>> /\ budget \in Budgets /\ head = 1 /\ canonical = 1 /\ tree = BaseTree
      /\ required \subseteq Profiles /\ jobs = <<>> /\ attestations = {} /\ modules = None
      /\ cache = [l \in Locks |-> NoLock] /\ op = Idle /\ writes = 0
      /\ remote = 0 /\ prs = <<>> /\ opens = <<>> /\ receipt = NoReceipt
  BY DEF Init
<1>1. b \in ACommit /\ b.parent = 0 /\ b.merged = 0 /\ b.by = "base" /\ b.trailer = 0
  BY LocalLoopAssumption DEF Commit, ACommit
<1>2. b = commits[1] /\ DOMAIN commits = {1} /\ commits \in Seq(ACommit) /\ Len(commits) = 1
  <2> HIDE DEF b, ACommit
  <2> QED
    BY <1>0, <1>1
<1> HIDE DEF b
<1>3. /\ budget.commits \in Nat \ {0} /\ budget.jobs \in Nat /\ budget.writes \in Nat /\ budget.opens \in Nat
  BY <1>0, LocalLoopAssumption
<1>4. LoopTypes
  <2>1. writes \in 0..budget.writes /\ tree \in Trees /\ head \in DOMAIN commits /\ canonical \in DOMAIN commits
    BY <1>0, <1>2, <1>3, LocalLoopAssumption
  <2>2. jobs \in Seq(AJob) /\ prs \in Seq(APr) /\ opens \in Seq(AnOpening)
    <3> HIDE DEF AJob, APr, AnOpening
    <3> QED
      BY <1>0
  <2>3. /\ modules \in [prepared : Locks \cup {NoLock}, marker : Locks \cup {NoLock}, partial : BOOLEAN]
        /\ cache \in [Locks -> Locks \cup {NoLock}]
    BY <1>0 DEF None
  <2>4. receipt \in [pr : Nat, head : Nat, base : Nat, merge : Nat]
    BY <1>0 DEF NoReceipt
  <2> QED
    BY <1>0, <1>2, <2>1, <2>2, <2>3, <2>4 DEF LoopTypes
<1>5. Bounded
  <2>1. Len(jobs) = 0 /\ Len(prs) = 0 /\ Running = {}
    BY <1>0 DEF Running
  <2> QED
    BY <1>2, <1>3, <2>1 DEF Bounded
<1>6. BranchInv
  BY <1>0, <1>1, <1>2 DEF BranchInv, NothingDropped, Parents
<1>7. JobsInv /\ OpInv
  BY <1>0 DEF JobsInv, OpInv, Idle, IsClosed
<1>8. VouchInv
  BY <1>0, <1>1, <1>2 DEF VouchInv, AttestedAsStarted, Vouched
<1>9. MarkerIsTrue /\ HubInv
  BY <1>0 DEF MarkerIsTrue, None, HubInv, NoReceipt, ReceiptOfTheMerge
<1> QED
  BY <1>4, <1>5, <1>6, <1>7, <1>8, <1>9 DEF LocalInv

-----------------------------------------------------------------------------
(* What steps leave as it is.                                              *)

\* A job keeps what it was started on, its verdict once it passed, and what it went through.
JobsKept ==
  \A j \in DOMAIN jobs :
    /\ j \in DOMAIN jobs' /\ jobs'[j].profile = jobs[j].profile /\ jobs'[j].lock = jobs[j].lock
    /\ jobs'[j].head = jobs[j].head /\ jobs'[j].tree = jobs[j].tree
    /\ Passed(j) => jobs'[j].state = "passed"
    /\ jobs[j].bounced => jobs'[j].bounced

\* What was vouched for stays.
LEMMA VouchKept ==
  ASSUME LocalInv, JobsKept, UNCHANGED <<commits, attestations>>
  PROVE  VouchInv'
<1>1. /\ \A c \in DOMAIN commits : commits[c].trailer \in {0} \cup DOMAIN jobs
      /\ \A a \in attestations : a.job \in DOMAIN jobs /\ a.commit \in DOMAIN commits
  BY DEF LocalInv, VouchInv
<1>2. \A v \in Vouched : v[1] \in DOMAIN jobs
  BY <1>1 DEF Vouched
<1>3. Vouched' = Vouched
  BY DEF Vouched
<1>4. AttestedAsStarted'
  BY <1>2, <1>3 DEF LocalInv, VouchInv, AttestedAsStarted, JobsKept, Passed
<1>5. DOMAIN jobs \subseteq DOMAIN jobs'
  BY DEF JobsKept
<1> QED
  BY <1>1, <1>4, <1>5 DEF VouchInv

\* node_modules that nobody touches is as good as before, while no install that was cut is
\* forgotten.
LEMMA MarkerKept ==
  ASSUME LocalInv, JobsKept, Interrupted # {} => Interrupted' # {}, UNCHANGED <<modules, cache>>
  PROVE  MarkerIsTrue'
BY DEF LocalInv, MarkerIsTrue, JobsKept

\* So is the branch.
LEMMA BranchKept ==
  ASSUME LocalInv, UNCHANGED <<commits, head, remote>>
  PROVE  BranchInv'
<1>1. \A c : Ancestors(c)' = Ancestors(c)
  BY DEF Ancestors, Histories, Parents
<1> QED
  BY <1>1 DEF LocalInv, BranchInv, NothingDropped, Parents

\* GitHub and the receipt stay while commits are added.
LEMMA HubKept ==
  ASSUME LocalInv, DOMAIN commits \subseteq DOMAIN commits', UNCHANGED github
  PROVE  HubInv'
BY DEF LocalInv, HubInv, ReceiptOfTheMerge, github

\* Jobs stay while commits are added.
LEMMA JobsStay ==
  ASSUME LocalInv, DOMAIN commits \subseteq DOMAIN commits', UNCHANGED jobs
  PROVE  JobsInv' /\ JobsKept /\ Running' = Running /\ Interrupted' = Interrupted
BY DEF LocalInv, JobsInv, JobsKept, Running, Passed, Interrupted

\* No handler runs.
LEMMA NoHandler == ASSUME op' = Idle PROVE OpInv'
BY DEF OpInv, Idle, IsClosed

\* A step on jobs alone, with what their processes write and install.
LEMMA JobsStep ==
  ASSUME LocalInv, op' = Idle, JobsKept, jobs' \in Seq(AJob), JobsInv', Len(jobs') <= budget.jobs,
         \A i, j \in Running' : i = j, writes' \in 0..budget.writes, tree' \in Trees,
         modules' \in [prepared : Locks \cup {NoLock}, marker : Locks \cup {NoLock}, partial : BOOLEAN],
         cache' \in [Locks -> Locks \cup {NoLock}], MarkerIsTrue',
         UNCHANGED <<budget, commits, head, canonical, required, attestations, github>>
  PROVE  LocalInv'
<1>1. LoopTypes'
  BY DEF LocalInv, LoopTypes, github
<1>2. Bounded'
  BY DEF LocalInv, Bounded, github
<1>3. BranchInv' /\ VouchInv' /\ HubInv' /\ OpInv'
  BY BranchKept, VouchKept, HubKept, NoHandler DEF github
<1> QED
  BY <1>1, <1>2, <1>3 DEF LocalInv

\* What running processes see of the worktree.
LEMMA SeenIs ==
  ASSUME LocalInv, NEW t \in Trees, jobs' = Seen(jobs, t), DOMAIN commits \subseteq DOMAIN commits'
  PROVE  /\ jobs' \in Seq(AJob) /\ Len(jobs') = Len(jobs) /\ DOMAIN jobs' = DOMAIN jobs
         /\ \A j \in DOMAIN jobs : /\ jobs'[j].state = jobs[j].state
                                   /\ jobs'[j].digest = jobs[j].digest
         /\ JobsKept /\ JobsInv' /\ Running' = Running /\ Interrupted' = Interrupted
<1>1. jobs \in Seq(AJob)
  BY DEF LocalInv, LoopTypes
<1>2. DOMAIN jobs' = DOMAIN jobs /\ jobs' = [j \in DOMAIN jobs' |-> jobs'[j]]
  BY DEF Seen
<1>3. \A j \in DOMAIN jobs :
        /\ jobs'[j] \in AJob
        /\ jobs'[j].state = jobs[j].state /\ jobs'[j].digest = jobs[j].digest
        /\ jobs'[j].profile = jobs[j].profile /\ jobs'[j].lock = jobs[j].lock
        /\ jobs'[j].head = jobs[j].head /\ jobs'[j].tree = jobs[j].tree
        /\ jobs'[j].bounced = jobs[j].bounced /\ jobs[j].seen \subseteq jobs'[j].seen
  <2> SUFFICES ASSUME NEW j \in DOMAIN jobs
               PROVE  /\ jobs'[j] \in AJob
                      /\ jobs'[j].state = jobs[j].state /\ jobs'[j].digest = jobs[j].digest
                      /\ jobs'[j].profile = jobs[j].profile /\ jobs'[j].lock = jobs[j].lock
                      /\ jobs'[j].head = jobs[j].head /\ jobs'[j].tree = jobs[j].tree
                      /\ jobs'[j].bounced = jobs[j].bounced /\ jobs[j].seen \subseteq jobs'[j].seen
    OBVIOUS
  <2>1. PICK r \in AJob : r = jobs[j]
    BY <1>1
  <2>2. jobs'[j] = r \/ jobs'[j] = Saw(r, t)
    BY <2>1 DEF Seen
  <2>3. /\ Saw(r, t) \in AJob /\ Saw(r, t).state = r.state /\ Saw(r, t).digest = r.digest
        /\ Saw(r, t).profile = r.profile /\ Saw(r, t).lock = r.lock /\ Saw(r, t).head = r.head
        /\ Saw(r, t).tree = r.tree /\ Saw(r, t).bounced = r.bounced /\ r.seen \subseteq Saw(r, t).seen
    BY DEF Saw, AJob
  <2> QED
    BY <2>1, <2>2, <2>3
<1>4. jobs' \in Seq(AJob) /\ Len(jobs') = Len(jobs)
  <2> HIDE DEF AJob
  <2> QED
    BY <1>1, <1>2, <1>3, Mapped
<1>5. JobsKept
  BY <1>2, <1>3 DEF JobsKept, Passed
<1>6. JobsInv'
  BY <1>2, <1>3 DEF LocalInv, JobsInv
<1>7. Running' = Running /\ Interrupted' = Interrupted
  BY <1>2, <1>3 DEF Running, Interrupted
<1> QED
  BY <1>2, <1>3, <1>4, <1>5, <1>6, <1>7

\* A job that is replaced by one that says the same of what it was started on.
LEMMA JobSet ==
  ASSUME LocalInv, NEW j \in DOMAIN jobs, jobs[j].state = "running", NEW r \in AJob,
         jobs' = [jobs EXCEPT ![j] = r], UNCHANGED commits,
         r.profile = jobs[j].profile, r.lock = jobs[j].lock, r.head = jobs[j].head,
         r.tree = jobs[j].tree, r.digest = jobs[j].digest, r.seen = jobs[j].seen,
         jobs[j].bounced => r.bounced, r.state # "running"
  PROVE  /\ jobs' \in Seq(AJob) /\ Len(jobs') = Len(jobs) /\ DOMAIN jobs' = DOMAIN jobs
         /\ jobs'[j] = r /\ JobsKept /\ JobsInv' /\ Running' \subseteq Running
         /\ r.profile # Bootstrap \/ r.state = "killed" => Interrupted' = Interrupted
<1>1. jobs \in Seq(AJob)
  BY DEF LocalInv, LoopTypes
<1>2. /\ jobs' \in Seq(AJob) /\ Len(jobs') = Len(jobs) /\ DOMAIN jobs' = DOMAIN jobs
      /\ jobs'[j] = r /\ \A i \in DOMAIN jobs \ {j} : jobs'[i] = jobs[i]
  <2> HIDE DEF AJob
  <2> QED
    BY <1>1
<1>3. JobsKept
  BY <1>2 DEF JobsKept, Passed
<1>4. JobsInv'
  BY <1>2 DEF LocalInv, JobsInv
<1>5. /\ Running' \subseteq Running
      /\ r.profile # Bootstrap \/ r.state = "killed" => Interrupted' = Interrupted
  BY <1>2 DEF Running, Interrupted
<1> QED
  BY <1>2, <1>3, <1>4, <1>5

-----------------------------------------------------------------------------
(* Writing the worktree, and the jobs.                                     *)

\* No node_modules.
LEMMA NoModules ==
  None \in [prepared : Locks \cup {NoLock}, marker : Locks \cup {NoLock}, partial : BOOLEAN] /\ None.marker = NoLock
BY DEF None

\* node_modules with an install under way.
LEMMA UnderwayIs ==
  ASSUME LocalInv
  PROVE  /\ Underway \in [prepared : Locks \cup {NoLock}, marker : Locks \cup {NoLock}, partial : BOOLEAN]
         /\ Underway.marker # NoLock => Underway.partial
<1>1. modules.marker \in Locks \cup {NoLock}
  BY DEF LocalInv, LoopTypes
<1> QED
  BY <1>1 DEF Underway, None

\* An install that did not end vouches for nothing, and is on record.
LEMMA InstallCut ==
  ASSUME LocalInv, JobsKept, Interrupted' # {}, modules' \in {Underway, None}, UNCHANGED cache
  PROVE  MarkerIsTrue'
<1>1. modules'.marker # NoLock => modules'.partial
  BY UnderwayIs, NoModules
<1>2. \A lock \in Locks : \/ cache'[lock] \in {NoLock, lock}
                         \/ \E j \in DOMAIN jobs' : jobs'[j].bounced /\ jobs'[j].lock = lock
  BY DEF LocalInv, MarkerIsTrue, JobsKept
<1> QED
  BY <1>1, <1>2 DEF MarkerIsTrue

\* A write leaves its bound.
LEMMA OneWrite ==
  ASSUME LocalInv, writes < budget.writes, writes' = writes + 1
  PROVE  writes' \in 0..budget.writes
<1>1. writes \in 0..budget.writes /\ budget.writes \in Nat
  BY LocalLoopAssumption DEF LocalInv, LoopTypes
<1> QED
  BY <1>1

\* What the types say of the state as it is.
LEMMA AsItIs ==
  ASSUME LocalInv
  PROVE  /\ tree \in Trees /\ writes \in 0..budget.writes /\ jobs \in Seq(AJob)
         /\ Len(jobs) <= budget.jobs /\ \A i, j \in Running : i = j
         /\ modules \in [prepared : Locks \cup {NoLock}, marker : Locks \cup {NoLock}, partial : BOOLEAN]
         /\ cache \in [Locks -> Locks \cup {NoLock}]
BY DEF LocalInv, LoopTypes, Bounded

\* An edit or a rollback.
LEMMA EditKeeps == ASSUME LocalInv, NEW t \in Trees, Edit(t) PROVE LocalInv'
<1>1. /\ op' = Idle /\ tree' = t /\ writes' = writes + 1 /\ writes < budget.writes /\ jobs' = Seen(jobs, t)
      /\ UNCHANGED <<budget, commits, head, canonical, modules, required, attestations, cache, github>>
  BY DEF Edit
<1>2. /\ jobs' \in Seq(AJob) /\ Len(jobs') = Len(jobs) /\ JobsKept /\ JobsInv' /\ Running' = Running
      /\ Interrupted' = Interrupted
  BY <1>1, SeenIs
<1>3. MarkerIsTrue'
  BY <1>1, <1>2, MarkerKept
<1> QED
  BY <1>1, <1>2, <1>3, AsItIs, OneWrite, JobsStep

\* The process of a job writes: the handler that runs meanwhile is marked.
LEMMA JobWritesKeeps == ASSUME LocalInv, NEW t \in Trees, JobWrites(t) PROVE LocalInv'
<1>1. /\ tree' = t /\ writes' = writes + 1 /\ writes < budget.writes /\ jobs' = Seen(jobs, t)
      /\ op' = IF op = Idle THEN op ELSE [op EXCEPT !.raced = TRUE]
      /\ UNCHANGED <<budget, commits, head, canonical, modules, required, attestations, cache, github>>
  BY DEF JobWrites
<1>2. /\ jobs' \in Seq(AJob) /\ Len(jobs') = Len(jobs) /\ DOMAIN jobs' = DOMAIN jobs
      /\ JobsKept /\ JobsInv' /\ Running' = Running /\ Interrupted' = Interrupted
      /\ \A j \in DOMAIN jobs : jobs'[j].state = jobs[j].state
  BY <1>1, SeenIs
<1>3. MarkerIsTrue' /\ VouchInv' /\ BranchInv' /\ HubInv'
  BY <1>1, <1>2, MarkerKept, VouchKept, BranchKept, HubKept DEF github
<1>4. CASE op = Idle
  BY <1>1, <1>2, <1>3, <1>4, AsItIs, OneWrite, JobsStep
<1>5. CASE op # Idle
  <2>1. Running # {}
    BY DEF JobWrites
  <2>2. op \in AHandler
    BY <1>5, <2>1 DEF LocalInv, LoopTypes, OpInv, IsClosed, Closed, AReading
  <2>3. PICK o \in AHandler : o = op
    BY <2>2
  <2>4. /\ [o EXCEPT !.raced = TRUE] \in AHandler /\ [o EXCEPT !.raced = TRUE].raced
        /\ [o EXCEPT !.raced = TRUE].pc = o.pc /\ [o EXCEPT !.raced = TRUE].job = o.job
        /\ [o EXCEPT !.raced = TRUE].commit = o.commit
    BY DEF AHandler
  <2>5. op' \in AHandler /\ op'.raced /\ op'.pc = op.pc /\ op'.job = op.job /\ op'.commit = op.commit
    BY <1>1, <1>5, <2>3, <2>4
  <2>6. op'.pc \in {"capture", "commit", "attest"}
    BY <2>5 DEF AHandler
  <2>7. op.job \in DOMAIN jobs /\ Passed(op.job) => op.job \in DOMAIN jobs' /\ jobs'[op.job].state = "passed"
    BY <1>2 DEF Passed
  <2>8. OpInv'
    BY <1>1, <1>2, <2>5, <2>6, <2>7 DEF LocalInv, OpInv, IsClosed, Passed
  <2>9. LoopTypes'
    BY <1>1, <1>2, <2>5, OneWrite DEF LocalInv, LoopTypes, github
  <2>10. Bounded'
    BY <1>1, <1>2 DEF LocalInv, Bounded, github
  <2> QED
    BY <1>2, <1>3, <2>8, <2>9, <2>10 DEF LocalInv
<1> QED
  BY <1>4, <1>5

\* The row of a job that ends.
LEMMA EndIs ==
  ASSUME LocalInv, NEW j \in Running, NEW state \in {"passed", "failed", "killed"}, End(j, state),
         UNCHANGED commits
  PROVE  /\ jobs' \in Seq(AJob) /\ Len(jobs') = Len(jobs) /\ JobsKept /\ JobsInv' /\ Running' \subseteq Running
         /\ jobs[j].profile # Bootstrap \/ state = "killed" => Interrupted' = Interrupted
<1>1. j \in DOMAIN jobs /\ jobs[j].state = "running"
  BY DEF Running
<1>2. PICK r \in AJob : r = jobs[j]
  BY <1>1, AsItIs
<1> DEFINE e == [r EXCEPT !.state = state]
<1>3. /\ e \in AJob /\ e.state = state /\ e.digest = r.digest /\ e.profile = r.profile /\ e.lock = r.lock
      /\ e.head = r.head /\ e.tree = r.tree /\ e.bounced = r.bounced /\ e.seen = r.seen
  BY DEF AJob
<1>4. jobs' = [jobs EXCEPT ![j] = e]
  BY <1>2 DEF End
<1> HIDE DEF e
<1> QED
  BY <1>1, <1>2, <1>3, <1>4, JobSet

\* A profile's run ends.
LEMMA ProfileEndsKeeps ==
  ASSUME LocalInv, NEW j, NEW state \in {"passed", "failed"}, ProfileEnds(j, state)
  PROVE  LocalInv'
<1>1. /\ op' = Idle /\ j \in Running /\ End(j, state) /\ jobs[j].profile # Bootstrap
      /\ UNCHANGED <<budget, commits, head, tree, canonical, modules, required, attestations, cache,
                     writes, github>>
  BY DEF ProfileEnds, worktree
<1>2. /\ jobs' \in Seq(AJob) /\ Len(jobs') = Len(jobs) /\ JobsKept /\ JobsInv' /\ Running' \subseteq Running
      /\ Interrupted' = Interrupted
  BY <1>1, EndIs
<1>3. MarkerIsTrue'
  BY <1>1, <1>2, MarkerKept
<1> QED
  BY <1>1, <1>2, <1>3, AsItIs, JobsStep

\* An install that fails leaves no node_modules.
LEMMA InstallLost ==
  ASSUME LocalInv, NEW j \in Running, End(j, "failed"), modules' = None, op' = Idle,
         UNCHANGED <<budget, commits, head, tree, canonical, required, attestations, cache, writes, github>>
  PROVE  LocalInv'
<1>1. jobs' \in Seq(AJob) /\ Len(jobs') = Len(jobs) /\ JobsKept /\ JobsInv' /\ Running' \subseteq Running
  BY EndIs
<1>2. MarkerIsTrue'
  BY <1>1, NoModules DEF LocalInv, MarkerIsTrue, JobsKept
<1> QED
  BY <1>1, <1>2, AsItIs, NoModules, JobsStep

\* An install marks what it installed for, or knows that the lockfile went and came back.
LEMMA BootstrapInstallsKeeps ==
  ASSUME LocalInv, NEW j, NEW lock \in Locks, BootstrapInstalls(j, lock)
  PROVE  LocalInv'
<1>1. /\ op' = Idle /\ j \in Running
      /\ UNCHANGED <<budget, commits, head, tree, canonical, required, attestations, writes, github>>
  BY DEF BootstrapInstalls
<1>2. CASE ~Stable(j)
  BY <1>1, <1>2, InstallLost DEF BootstrapInstalls
<1>3. CASE Stable(j)
  <2>0. j \in DOMAIN jobs /\ jobs[j].state = "running"
    BY <1>1 DEF Running
  <2>1. PICK r \in AJob : r = jobs[j]
    BY <2>0, AsItIs
  <2>2. /\ modules' = [prepared |-> lock, marker |-> r.lock, partial |-> FALSE]
        /\ cache' = [cache EXCEPT ![r.lock] = IF cache[r.lock] = NoLock THEN lock ELSE cache[r.lock]]
        /\ jobs' = [jobs EXCEPT ![j] = Installed(r)]
        /\ lock \in {LockOf(t) : t \in r.seen} /\ LockOf(tree) = r.lock
    BY <1>3, <2>1 DEF BootstrapInstalls, Stable
  <2> DEFINE e == Installed(r)
  <2>3. /\ e \in AJob /\ e.state = "passed" /\ e.digest = r.digest /\ e.profile = r.profile
        /\ e.lock = r.lock /\ e.head = r.head /\ e.tree = r.tree /\ e.seen = r.seen
        /\ e.bounced <=> \E t \in r.seen : LockOf(t) # r.lock
    BY <2>2 DEF AJob, Installed
  <2>4. r.bounced => e.bounced
    BY <2>1, <2>0, <2>3 DEF LocalInv, JobsInv
  <2> HIDE DEF e
  <2>5. /\ jobs' \in Seq(AJob) /\ Len(jobs') = Len(jobs) /\ DOMAIN jobs' = DOMAIN jobs
        /\ jobs'[j] = e /\ JobsKept /\ JobsInv' /\ Running' \subseteq Running
    BY <1>1, <2>0, <2>1, <2>2, <2>3, <2>4, JobSet DEF e
  <2>6. lock = r.lock \/ (e.bounced /\ e.lock = r.lock)
    BY <2>2, <2>3
  <2>7. r.lock \in Locks
    BY DEF AJob
  <2>8. /\ modules' \in [prepared : Locks \cup {NoLock}, marker : Locks \cup {NoLock}, partial : BOOLEAN]
        /\ cache' \in [Locks -> Locks \cup {NoLock}]
        /\ cache'[r.lock] \in {lock, cache[r.lock]} /\ \A l \in Locks \ {r.lock} : cache'[l] = cache[l]
    BY <2>2, <2>7, AsItIs
  <2>9. MarkerIsTrue'
    BY <2>0, <2>2, <2>5, <2>6, <2>7, <2>8 DEF LocalInv, MarkerIsTrue, JobsKept
  <2> QED
    BY <1>1, <2>5, <2>8, <2>9, AsItIs, JobsStep
<1> QED
  BY <1>2, <1>3

\* A run that finds the task's bootstrap running leaves the digest on it.
LEMMA RunJoins ==
  ASSUME LocalInv, op' = Idle, NEW same \in SUBSET Running, \A j \in same : jobs[j].profile = Bootstrap,
         jobs' = [j \in DOMAIN jobs |-> IF j \in same THEN [jobs[j] EXCEPT !.digest = Digest] ELSE jobs[j]],
         UNCHANGED <<budget, commits, head, tree, canonical, modules, required, attestations, cache,
                     writes, github>>
  PROVE  LocalInv'
<1>1. jobs \in Seq(AJob) /\ head \in DOMAIN commits /\ head \in Nat /\ tree \in Trees
  BY DEF LocalInv, LoopTypes
<1>2. DOMAIN jobs' = DOMAIN jobs /\ jobs' = [j \in DOMAIN jobs' |-> jobs'[j]]
  OBVIOUS
<1>3. \A j \in DOMAIN jobs :
        /\ jobs'[j] \in AJob /\ jobs'[j].state = jobs[j].state
        /\ jobs'[j].digest = jobs[j].digest \/ (j \in same /\ jobs'[j].digest = Digest)
        /\ jobs'[j].profile = jobs[j].profile /\ jobs'[j].lock = jobs[j].lock
        /\ jobs'[j].head = jobs[j].head /\ jobs'[j].tree = jobs[j].tree
        /\ jobs'[j].bounced = jobs[j].bounced /\ jobs'[j].seen = jobs[j].seen
  <2> SUFFICES ASSUME NEW j \in DOMAIN jobs
               PROVE  /\ jobs'[j] \in AJob /\ jobs'[j].state = jobs[j].state
                      /\ jobs'[j].digest = jobs[j].digest \/ (j \in same /\ jobs'[j].digest = Digest)
                      /\ jobs'[j].profile = jobs[j].profile /\ jobs'[j].lock = jobs[j].lock
                      /\ jobs'[j].head = jobs[j].head /\ jobs'[j].tree = jobs[j].tree
                      /\ jobs'[j].bounced = jobs[j].bounced /\ jobs'[j].seen = jobs[j].seen
    OBVIOUS
  <2>1. PICK r \in AJob : r = jobs[j]
    BY <1>1
  <2> DEFINE e == [r EXCEPT !.digest = Digest]
  <2>2. /\ e \in AJob /\ e.state = r.state /\ e.digest = Digest
        /\ e.profile = r.profile /\ e.lock = r.lock /\ e.head = r.head
        /\ e.tree = r.tree /\ e.bounced = r.bounced /\ r.seen = e.seen
    BY <1>1 DEF Digest, AJob
  <2>3. jobs'[j] = IF j \in same THEN e ELSE r
    BY <2>1
  <2> HIDE DEF e
  <2> QED
    BY <2>1, <2>2, <2>3
<1>4. jobs' \in Seq(AJob) /\ Len(jobs') = Len(jobs)
  <2> HIDE DEF AJob
  <2> QED
    BY <1>1, <1>2, <1>3, Mapped
<1>5. JobsKept
  BY <1>2, <1>3 DEF JobsKept, Passed
<1>6. JobsInv'
  <2> SUFFICES ASSUME NEW j \in DOMAIN jobs
               PROVE  /\ jobs'[j].profile \in Profiles =>
                           jobs'[j].digest = [head |-> jobs'[j].head, tree |-> jobs'[j].tree]
                      /\ jobs'[j].lock = LockOf(jobs'[j].tree) /\ jobs'[j].tree \in jobs'[j].seen
                      /\ jobs'[j].state = "running" => ~jobs'[j].bounced
                      /\ jobs'[j].head \in DOMAIN commits' /\ jobs'[j].digest.head \in DOMAIN commits'
    BY <1>2 DEF JobsInv
  <2>1. Digest.head = head /\ Bootstrap \notin Profiles
    BY LocalLoopAssumption DEF Digest, Bootstrap
  <2>2. CASE jobs'[j].digest = jobs[j].digest
    BY <1>3, <2>2 DEF LocalInv, JobsInv
  <2>3. CASE j \in same /\ jobs'[j].digest = Digest
    <3>1. jobs'[j].profile \notin Profiles
      <4>1. jobs'[j].profile = jobs[j].profile /\ jobs[j].profile = Bootstrap
        BY <1>3, <2>3
      <4> QED
        BY <2>1, <4>1
    <3>2. jobs'[j].digest.head \in DOMAIN commits'
      BY <1>1, <2>1, <2>3
    <3>3. /\ jobs'[j].lock = LockOf(jobs'[j].tree) /\ jobs'[j].tree \in jobs'[j].seen
          /\ jobs'[j].state = "running" => ~jobs'[j].bounced
          /\ jobs'[j].head \in DOMAIN commits'
      BY <1>3 DEF LocalInv, JobsInv
    <3> QED
      BY <3>1, <3>2, <3>3
  <2> QED
    BY <1>3, <2>2, <2>3
<1>7. Running' = Running /\ Interrupted' = Interrupted
  BY <1>2, <1>3 DEF Running, Interrupted
<1>8. MarkerIsTrue'
  BY <1>5, <1>7, MarkerKept
<1> QED
  BY <1>4, <1>5, <1>6, <1>7, <1>8, AsItIs, JobsStep

\* A job that is started: one alone, on what is checked out.
LEMMA JobStarts ==
  ASSUME LocalInv, Running = {}, NEW profile \in Profiles \cup {Bootstrap}, Len(jobs) < budget.jobs,
         jobs' = Append(jobs, Job(profile, LockOf(tree))), UNCHANGED commits
  PROVE  /\ jobs' \in Seq(AJob) /\ Len(jobs') <= budget.jobs /\ JobsKept /\ JobsInv'
         /\ \A i, j \in Running' : i = j
         /\ Interrupted \subseteq Interrupted' /\ (profile = Bootstrap => Interrupted' # {})
<1> DEFINE e == Job(profile, LockOf(tree))
           n == Len(jobs) + 1
<1>1. jobs \in Seq(AJob) /\ head \in DOMAIN commits /\ head \in Nat /\ tree \in Trees /\ LockOf(tree) \in Locks
  BY DEF LocalInv, LoopTypes, Locks
<1>2. /\ e \in AJob /\ e.digest = [head |-> e.head, tree |-> e.tree] /\ e.lock = LockOf(e.tree)
      /\ e.tree \in e.seen /\ ~e.bounced /\ e.head \in DOMAIN commits /\ e.digest.head \in DOMAIN commits
      /\ e.profile = profile /\ e.state = "running"
  BY <1>1 DEF Job, Digest, AJob
<1> HIDE DEF e
<1>3. /\ jobs' \in Seq(AJob) /\ Len(jobs') = n /\ DOMAIN jobs' = DOMAIN jobs \cup {n} /\ jobs'[n] = e
      /\ \A i \in DOMAIN jobs : jobs'[i] = jobs[i]
  <2> HIDE DEF AJob
  <2> QED
    BY <1>1, <1>2, OneMore DEF e
<1>4. Len(jobs') <= budget.jobs
  <2>1. Len(jobs) \in Nat /\ budget.jobs \in Nat
    BY <1>1, LocalLoopAssumption DEF LocalInv, LoopTypes
  <2> QED
    BY <1>3, <2>1
<1> HIDE DEF n
<1>5. JobsKept
  BY <1>3 DEF JobsKept, Passed
<1>6. JobsInv'
  <2>1. \A j \in DOMAIN jobs' : j \in DOMAIN jobs \/ j = n
    BY <1>3
  <2> QED
    BY <1>2, <1>3, <2>1 DEF LocalInv, JobsInv
<1>7. \A i, j \in Running' : i = j
  BY <1>3 DEF Running
<1>8. Interrupted \subseteq Interrupted' /\ (profile = Bootstrap => Interrupted' # {})
  BY <1>2, <1>3 DEF Interrupted
<1> QED
  BY <1>3, <1>4, <1>5, <1>6, <1>7, <1>8

\* grande_run.
LEMMA RunKeeps == ASSUME LocalInv, NEW p \in Profiles, Run(p) PROVE LocalInv'
<1> DEFINE lock == LockOf(tree)
<1>1. /\ op' = Idle
      /\ UNCHANGED <<budget, commits, head, tree, canonical, required, attestations, cache, writes, github>>
  BY DEF Run
<1>2. CASE ~Admitted
  <2> DEFINE same == {j \in Running : jobs[j].profile = Bootstrap /\ jobs[j].lock = lock}
  <2>1. /\ jobs' = [j \in DOMAIN jobs |->
                      IF j \in same THEN [jobs[j] EXCEPT !.digest = Digest] ELSE jobs[j]]
        /\ UNCHANGED modules
    BY <1>2 DEF Run
  <2>2. same \in SUBSET Running /\ \A j \in same : jobs[j].profile = Bootstrap
    OBVIOUS
  <2> HIDE DEF same
  <2> QED
    BY <1>1, <2>1, <2>2, RunJoins
<1>3. CASE Admitted
  <2>1. PICK profile \in {p, Bootstrap} :
          /\ Len(jobs) < budget.jobs /\ jobs' = Append(jobs, Job(profile, lock))
          /\ \/ UNCHANGED modules
             \/ /\ cache[lock] # NoLock
                /\ modules' = [prepared |-> cache[lock], marker |-> lock, partial |-> FALSE]
             \/ profile = Bootstrap /\ modules' \in {Underway, None}
    BY <1>3 DEF Run
  <2>2. /\ jobs' \in Seq(AJob) /\ Len(jobs') <= budget.jobs /\ JobsKept /\ JobsInv'
        /\ \A i, j \in Running' : i = j
        /\ Interrupted \subseteq Interrupted' /\ (profile = Bootstrap => Interrupted' # {})
    <3>1. Running = {}
      BY <1>3 DEF Admitted
    <3> QED
      BY <1>1, <2>1, <3>1, JobStarts
  <2>3. lock \in Locks
    BY DEF LocalInv, LoopTypes, Locks
  <2> HIDE DEF lock
  <2>4. modules' \in [prepared : Locks \cup {NoLock}, marker : Locks \cup {NoLock}, partial : BOOLEAN]
    <3> DEFINE M == [prepared : Locks \cup {NoLock}, marker : Locks \cup {NoLock}, partial : BOOLEAN]
    <3>1. cache[lock] \in Locks \cup {NoLock}
      BY <2>3, AsItIs
    <3>2. [prepared |-> cache[lock], marker |-> lock, partial |-> FALSE] \in M
      BY <2>3, <3>1
    <3>3. modules \in M /\ None \in M /\ Underway \in M
      BY AsItIs, NoModules, UnderwayIs
    <3> HIDE DEF M
    <3>4. modules' \in M
      BY <2>1, <3>2, <3>3
    <3> QED
      BY <3>4 DEF M
  <2>5. MarkerIsTrue'
    <3>1. CASE UNCHANGED modules
      BY <1>1, <2>2, <3>1, MarkerKept
    <3>2. CASE profile = Bootstrap /\ modules' \in {Underway, None}
      BY <1>1, <2>2, <3>2, InstallCut
    <3>3. CASE /\ cache[lock] # NoLock
               /\ modules' = [prepared |-> cache[lock], marker |-> lock, partial |-> FALSE]
      BY <1>1, <2>2, <2>3, <3>3 DEF LocalInv, MarkerIsTrue, JobsKept
    <3> QED
      BY <2>1, <3>1, <3>2, <3>3
  <2> QED
    BY <1>1, <2>2, <2>4, <2>5, AsItIs, JobsStep
<1> QED
  BY <1>2, <1>3

-----------------------------------------------------------------------------
(* The commit handler.                                                     *)

\* A set of naturals that is not empty has a least member.
LEMMA Least ==
  ASSUME NEW T \in SUBSET Nat, T # {}
  PROVE  \E x \in T : \A y \in T : x <= y
<1> DEFINE Below(y) == {x \in T : x < y}
           Belows == {Below(y) : y \in T}
           R == StrictSubsetOrdering(T)
<1>0. \A y \in T : y \in Nat
  OBVIOUS
<1>1. ASSUME NEW y \in T PROVE Below(y) \in FiniteSubsetsOf(T)
  <2>1. \A x \in Below(y) : x \in Nat /\ x <= y
    BY <1>0
  <2>2. IsFiniteSet(Below(y))
    <3> HIDE DEF Below
    <3>1. y \in Nat /\ Below(y) \in SUBSET Nat
      BY <1>0, <2>1
    <3> QED
      BY <2>1, <3>1, FS_BoundedSetOfNaturals
  <2>3. Below(y) \subseteq T
    OBVIOUS
  <2> HIDE DEF Below
  <2> QED
    BY <2>2, <2>3 DEF FiniteSubsetsOf
<1>2. IsWellFoundedOn(R, FiniteSubsetsOf(T))
  BY FS_StrictSubsetOrderingWellFounded
<1>3. Belows \subseteq FiniteSubsetsOf(T) /\ Belows # {}
  BY <1>1
<1>4. PICK B \in Belows : \A C \in Belows : <<C, B>> \notin R
  <2> HIDE DEF Belows, R
  <2> QED
    BY <1>2, <1>3, WFMin
<1>5. PICK x \in T : B = Below(x)
  OBVIOUS
<1>6. ASSUME NEW y \in T, y < x PROVE FALSE
  <2>1. \A z \in Below(y) : z \in Below(x)
    BY <1>0, <1>6
  <2>2. y \in Below(x) /\ y \notin Below(y)
    BY <1>0, <1>6
  <2>3. Below(y) \subseteq Below(x) /\ Below(y) # Below(x) /\ Below(y) \in SUBSET T
        /\ Below(x) \in SUBSET T
    BY <2>1, <2>2
  <2>4. <<Below(y), B>> \in R
    <3> HIDE DEF Below
    <3> QED
      BY <1>5, <2>3 DEF StrictSubsetOrdering
  <2>5. Below(y) \in Belows
    OBVIOUS
  <2> QED
    BY <1>4, <2>4, <2>5
<1>7. \A y \in T : x <= y
  BY <1>0, <1>6
<1> QED
  BY <1>7

\* Some rows that are not none have a newest one.
LEMMA Greatest ==
  ASSUME NEW n \in Nat, NEW S \in SUBSET (1..n), S # {}
  PROVE  \E j \in S : \A k \in S : k <= j
<1> DEFINE T == {n - k : k \in S}
<1>1. \A k \in S : k \in Int /\ n - k \in Nat
  OBVIOUS
<1>2. T \in SUBSET Nat /\ T # {}
  BY <1>1
<1>3. PICK x \in T : \A y \in T : x <= y
  <2> HIDE DEF T
  <2> QED
    BY <1>2, Least
<1>4. PICK j \in S : x = n - j
  OBVIOUS
<1>5. \A k \in S : k <= j
  <2> SUFFICES ASSUME NEW k \in S PROVE k <= j
    OBVIOUS
  <2>1. n - j <= n - k
    BY <1>3, <1>4
  <2> QED
    BY <1>1, <2>1
<1> QED
  BY <1>5

\* The job the handler attests passed on what is checked out.
LEMMA CandidateIs ==
  ASSUME LocalInv, Candidate # 0
  PROVE  Candidate \in DOMAIN jobs /\ Passed(Candidate) /\ jobs[Candidate].digest = Digest
<1>1. Candidates # {}
  BY DEF Candidate
<1>2. Candidates \in SUBSET (1..Len(jobs)) /\ Len(jobs) \in Nat
  BY DEF Candidates, LocalInv, LoopTypes
<1>3. \E j \in Candidates : \A i \in Candidates : i <= j
  BY <1>1, <1>2, Greatest
<1>4. Candidate \in Candidates
  BY <1>1, <1>3 DEF Candidate
<1> QED
  BY <1>4 DEF Candidates

\* A profile's run with the digest of what is checked out was started on that.
LEMMA DigestIs ==
  ASSUME LocalInv, NEW j \in DOMAIN jobs, jobs[j].profile \in Profiles, jobs[j].digest = Digest
  PROVE  jobs[j].head = head /\ jobs[j].tree = tree
<1>1. [head |-> jobs[j].head, tree |-> jobs[j].tree] = [head |-> head, tree |-> tree]
  BY DEF LocalInv, JobsInv, Digest
<1> QED
  BY <1>1

\* The ledger row of a handler.
LEMMA HandlerRow == Executing(Allowed(BeginAudit)) \in AuditRow
BY DEF AuditRow, AuditDecision, AuditState, Allowed, Executing, Undecided, MayExecute, BeginAudit

\* A step of the handler alone.
LEMMA OpStep ==
  ASSUME LocalInv, op' \in {Idle, Closed} \cup AHandler \cup AReading, OpInv',
         UNCHANGED <<budget, worktree, required, jobs, attestations, cache, writes, github>>
  PROVE  LocalInv'
<1>1. LoopTypes' /\ Bounded'
  BY DEF LocalInv, LoopTypes, Bounded, Running, worktree, github
<1>2. JobsInv' /\ JobsKept /\ Interrupted' = Interrupted
  BY JobsStay DEF worktree
<1>3. BranchInv' /\ VouchInv' /\ MarkerIsTrue' /\ HubInv'
  BY <1>2, BranchKept, VouchKept, MarkerKept, HubKept DEF worktree, github
<1> QED
  BY <1>1, <1>2, <1>3 DEF LocalInv

\* grande_commit is admitted.
LEMMA CommitAllowedKeeps == ASSUME LocalInv, CommitAllowed PROVE LocalInv'
<1>1. /\ op' = [pc |-> "capture", job |-> 0, commit |-> 0, raced |-> FALSE,
                row |-> Executing(Allowed(BeginAudit))]
      /\ \A p \in required : Green(p)
      /\ UNCHANGED <<budget, worktree, required, jobs, attestations, cache, writes, github>>
  BY DEF CommitAllowed
<1>2. op' \in AHandler /\ op'.pc = "capture" /\ op'.job = 0 /\ op'.commit = 0
  BY <1>1, HandlerRow DEF AHandler
<1>3. \A p \in required : \E j \in DOMAIN jobs :
         jobs[j].profile = p /\ Passed(j) /\ jobs[j].head = head /\ jobs[j].tree = tree
  <2>1. required \subseteq Profiles
    BY DEF LocalInv, LoopTypes
  <2> QED
    BY <1>1, <2>1, DigestIs DEF Green
<1>4. OpInv'
  BY <1>1, <1>2, <1>3 DEF OpInv, IsClosed, worktree, Passed
<1> QED
  BY <1>1, <1>2, <1>4, OpStep

\* The handler takes what it will attest.
LEMMA CaptureKeeps == ASSUME LocalInv, Capture PROVE LocalInv'
<1>1. /\ op.pc = "capture" /\ op' = [op EXCEPT !.pc = "commit", !.job = Candidate]
      /\ UNCHANGED <<budget, worktree, required, jobs, attestations, cache, writes, github>>
  BY DEF Capture
<1>2. PICK o \in AHandler : o = op
  BY <1>1 DEF LocalInv, LoopTypes, Idle, Closed, AReading
<1>3. Candidate \in Nat
  <2>1. DOMAIN jobs \subseteq Nat
    BY AsItIs
  <2> QED
    BY <2>1, CandidateIs
<1>4. op' \in AHandler /\ op'.pc = "commit" /\ op'.job = Candidate /\ op'.commit = op.commit /\ op'.raced = op.raced
  BY <1>1, <1>2, <1>3 DEF AHandler
<1>5. OpInv'
  <2>1. Candidate # 0 => /\ Candidate \in DOMAIN jobs /\ Passed(Candidate)
                         /\ jobs[Candidate].profile \in Profiles =>
                              jobs[Candidate].head = head /\ jobs[Candidate].tree = tree
    BY CandidateIs, DigestIs
  <2> QED
    BY <1>1, <1>4, <2>1 DEF LocalInv, OpInv, IsClosed, worktree, Passed
<1> QED
  BY <1>1, <1>4, <1>5, OpStep

\* A new commit is vouched for by what its trailer says, and the others as before.
LEMMA VouchGrows ==
  ASSUME LocalInv, NEW e \in ACommit, NEW n, n = Len(commits) + 1, commits' = Append(commits, e),
         e.trailer \in {0} \cup DOMAIN jobs,
         (e.trailer # 0 /\ ~e.raced /\ jobs[e.trailer].profile \in Profiles) =>
           /\ Passed(e.trailer) /\ jobs[e.trailer].tree = e.tree
           /\ jobs[e.trailer].head \in {n, e.parent},
         JobsKept, UNCHANGED attestations
  PROVE  VouchInv'
<1>1. /\ DOMAIN commits' = DOMAIN commits \cup {n} /\ n \notin DOMAIN commits /\ commits'[n] = e
      /\ \A c \in DOMAIN commits : commits'[c] = commits[c]
  <2>1. commits \in Seq(ACommit)
    BY DEF LocalInv, LoopTypes
  <2> HIDE DEF ACommit
  <2> QED
    BY <2>1, OneMore
<1>2. /\ \A c \in DOMAIN commits : commits[c].trailer \in {0} \cup DOMAIN jobs
      /\ \A a \in attestations : a.job \in DOMAIN jobs /\ a.commit \in DOMAIN commits
  BY DEF LocalInv, VouchInv
<1>3. DOMAIN jobs \subseteq DOMAIN jobs'
  BY DEF JobsKept
<1>4. \A v \in Vouched : v[1] \in DOMAIN jobs /\ v[2] \in DOMAIN commits
  BY <1>2 DEF Vouched
<1>5. \A v \in Vouched' : v \in Vouched \/ (v = <<e.trailer, n>> /\ e.trailer # 0 /\ ~e.raced)
  BY <1>1 DEF Vouched
<1>6. AttestedAsStarted'
  <2> SUFFICES ASSUME NEW v \in Vouched', jobs'[v[1]].profile \in Profiles
               PROVE  /\ jobs'[v[1]].state = "passed" /\ jobs'[v[1]].tree = commits'[v[2]].tree
                      /\ jobs'[v[1]].head \in {v[2], commits'[v[2]].parent}
    BY DEF AttestedAsStarted
  <2>1. CASE v \in Vouched
    <3>1. v[1] \in DOMAIN jobs /\ commits'[v[2]] = commits[v[2]] /\ jobs[v[1]].profile \in Profiles
      BY <1>1, <1>4, <2>1 DEF JobsKept
    <3>2. jobs[v[1]].state = "passed" /\ jobs[v[1]].tree = commits[v[2]].tree
          /\ jobs[v[1]].head \in {v[2], commits[v[2]].parent}
      BY <2>1, <3>1 DEF LocalInv, VouchInv, AttestedAsStarted
    <3> QED
      BY <3>1, <3>2 DEF JobsKept, Passed
  <2>2. CASE v = <<e.trailer, n>> /\ e.trailer # 0 /\ ~e.raced
    BY <1>1, <2>2 DEF JobsKept, Passed
  <2> QED
    BY <1>5, <2>1, <2>2
<1> QED
  BY <1>1, <1>2, <1>3, <1>6 DEF VouchInv

\* The commits, with one more.
LEMMA CommitsGrow ==
  ASSUME LocalInv, NEW e \in ACommit, NEW n, n = Len(commits) + 1, commits' = Append(commits, e),
         Len(commits) < budget.commits
  PROVE  /\ commits' \in Seq(ACommit) /\ Len(commits') <= budget.commits
         /\ DOMAIN commits' = DOMAIN commits \cup {n} /\ n \notin DOMAIN commits /\ commits'[n] = e
         /\ \A c \in DOMAIN commits : commits'[c] = commits[c]
<1>1. commits \in Seq(ACommit) /\ budget.commits \in Nat
  BY LocalLoopAssumption DEF LocalInv, LoopTypes
<1> HIDE DEF ACommit
<1>2. /\ commits' \in Seq(ACommit) /\ Len(commits') = n /\ Len(commits) \in Nat
      /\ DOMAIN commits' = DOMAIN commits \cup {n} /\ n \notin DOMAIN commits /\ commits'[n] = e
      /\ \A c \in DOMAIN commits : commits'[c] = commits[c]
  BY <1>1, OneMore
<1> QED
  BY <1>1, <1>2

\* The branch, when a commit of the task is added on HEAD, one at origin, or one elsewhere.
LEMMA BranchGrows ==
  ASSUME LocalInv, NEW e \in ACommit, NEW n, n = Len(commits) + 1, commits' = Append(commits, e),
         {e.parent, e.merged} \ {0} \subseteq DOMAIN commits,
         \/ head' = n /\ head = e.parent
         \/ head' = head /\ e.by # "task",
         \/ UNCHANGED remote /\ e.by # "guest"
         \/ remote' = n /\ remote = e.parent /\ remote # 0
  PROVE  BranchInv'
<1>1. LoopTypes /\ BranchInv
  BY DEF LocalInv
<1>2. /\ \A c \in DOMAIN commits : Ancestors(c) \subseteq Ancestors(c)'
      /\ \A p \in {e.parent, e.merged} \ {0} : Ancestors(p) \subseteq Ancestors(n)'
      /\ n \in Ancestors(n)' /\ n \notin DOMAIN commits
      /\ \A c \in DOMAIN commits' : Parents(c)' \subseteq DOMAIN commits'
  BY <1>1, AncestorsGrow
<1>3. /\ DOMAIN commits' = DOMAIN commits \cup {n} /\ commits'[n] = e
      /\ \A c \in DOMAIN commits : commits'[c] = commits[c]
  <2>1. commits \in Seq(ACommit)
    BY <1>1 DEF LoopTypes
  <2> HIDE DEF ACommit
  <2> QED
    BY <2>1, OneMore
<1>4. head \in DOMAIN commits /\ head # 0
  BY <1>1 DEF LoopTypes
<1>5. PICK h \in {head'} : TRUE
  OBVIOUS
<1>6. Ancestors(head) \subseteq Ancestors(h)' /\ (n \in Ancestors(h)' \/ e.by # "task")
  BY <1>2, <1>4, <1>5
<1>7. Ancestors(head)' = Ancestors(h)'
  BY <1>5 DEF Ancestors
<1>8. \A c \in DOMAIN commits' : commits'[c].by = "task" => c \in Ancestors(head)'
  BY <1>1, <1>3, <1>6, <1>7 DEF BranchInv, NothingDropped
<1>9. PICK r \in {remote'} : TRUE
  OBVIOUS
<1>10. remote \in {0} \cup DOMAIN commits /\ n # 0
  <2>1. Len(commits) \in Nat
    BY <1>1 DEF LoopTypes
  <2> QED
    BY <1>1, <2>1 DEF LoopTypes
<1>11. remote # 0 => r # 0 /\ Ancestors(remote) \subseteq Ancestors(r)'
  BY <1>2, <1>9, <1>10
<1>12. e.by = "guest" => r # 0 /\ n \in Ancestors(r)'
  BY <1>2, <1>9, <1>10
<1>13. Ancestors(remote)' = Ancestors(r)'
  BY <1>9 DEF Ancestors
<1>14. \A c \in DOMAIN commits' : commits'[c].by = "guest" => remote' # 0 /\ c \in Ancestors(remote)'
  BY <1>1, <1>3, <1>9, <1>11, <1>12, <1>13 DEF BranchInv, NothingDropped
<1>15. NothingDropped'
  BY <1>8, <1>14 DEF NothingDropped
<1> QED
  BY <1>2, <1>15 DEF BranchInv

\* The commit is made, on what is checked out, with the job that is attested in its trailer.
LEMMA GitCommitKeeps == ASSUME LocalInv, GitCommit PROVE LocalInv'
<1>1. /\ op.pc = "commit" /\ op # Idle
      /\ UNCHANGED <<budget, required, jobs, attestations, cache, writes, github>>
  BY DEF GitCommit
<1>2. PICK o \in AHandler : o = op
  BY <1>1 DEF LocalInv, LoopTypes, Idle, Closed, AReading
<1>3. op.job # 0 => op.job \in DOMAIN jobs /\ Passed(op.job)
  BY <1>1 DEF LocalInv, OpInv
<1>4. (op.job # 0 /\ jobs[op.job].profile \in Profiles /\ ~op.raced) =>
        jobs[op.job].head = head /\ jobs[op.job].tree = tree
  BY <1>1 DEF LocalInv, OpInv
<1>5. head \in DOMAIN commits /\ head \in Nat /\ head # 0 /\ tree \in Trees /\ commits \in Seq(ACommit)
  BY DEF LocalInv, LoopTypes
<1>6. CASE Clean
  <2>1. /\ op' = Idle \/ op' = [op EXCEPT !.pc = "attest", !.commit = head]
        /\ UNCHANGED worktree
    BY <1>1, <1>6 DEF GitCommit
  <2>2. CASE op' = Idle
    BY <1>1, <2>1, <2>2, NoHandler, OpStep
  <2>3. CASE op' = [op EXCEPT !.pc = "attest", !.commit = head]
    <3>1. op' \in AHandler /\ op'.pc = "attest" /\ op'.job = op.job /\ op'.commit = head /\ op'.raced = op.raced
      BY <1>2, <1>5, <2>3 DEF AHandler
    <3>2. tree = commits[head].tree
      BY <1>6 DEF Clean
    <3>3. OpInv'
      BY <1>1, <1>3, <1>4, <1>5, <2>1, <3>1, <3>2 DEF OpInv, IsClosed, worktree, Passed
    <3> QED
      BY <1>1, <2>1, <3>1, <3>3, OpStep
  <2> QED
    BY <2>1, <2>2, <2>3
<1>7. CASE ~Clean
  <2> DEFINE e == [Commit(head, 0, tree, "task") EXCEPT !.trailer = op.job, !.raced = op.raced]
             n == Len(commits) + 1
  <2>1. /\ Len(commits) < budget.commits /\ commits' = Append(commits, e) /\ head' = n
        /\ op' = [op EXCEPT !.pc = "attest", !.commit = n]
        /\ UNCHANGED <<tree, canonical, modules>>
    BY <1>1, <1>7 DEF GitCommit
  <2>2. op.job \in Nat /\ op.raced \in BOOLEAN
    BY <1>2 DEF AHandler
  <2>3. /\ e \in ACommit /\ e.parent = head /\ e.merged = 0 /\ e.tree = tree /\ e.by = "task"
        /\ e.trailer = op.job /\ e.raced = op.raced
    BY <1>5, <2>2 DEF Commit, ACommit
  <2> HIDE DEF e
  <2>4. n \in Nat
    BY <1>5
  <2>5. op' \in AHandler /\ op'.pc = "attest" /\ op'.job = op.job /\ op'.commit = n /\ op'.raced = op.raced
    <3> HIDE DEF n
    <3> QED
      BY <1>2, <2>1, <2>4 DEF AHandler
  <2>6. /\ commits' \in Seq(ACommit) /\ Len(commits') <= budget.commits
        /\ DOMAIN commits' = DOMAIN commits \cup {n} /\ commits'[n] = e
        /\ \A c \in DOMAIN commits : commits'[c] = commits[c]
    BY <2>1, <2>3, CommitsGrow
  <2>7. BranchInv'
    BY <1>1, <1>5, <2>1, <2>3, BranchGrows DEF github
  <2>8. JobsInv' /\ JobsKept /\ HubInv' /\ Running' = Running /\ Interrupted' = Interrupted
    BY <1>1, <2>6, JobsStay, HubKept
  <2>9. VouchInv'
    BY <1>1, <1>3, <1>4, <2>1, <2>3, <2>8, VouchGrows
  <2>10. MarkerIsTrue'
    BY <1>1, <2>1, <2>8, MarkerKept
  <2> HIDE DEF n
  <2>11. OpInv'
    BY <1>1, <1>3, <1>4, <2>1, <2>3, <2>5, <2>6 DEF OpInv, IsClosed, Passed
  <2>12. LoopTypes' /\ Bounded'
    BY <1>1, <2>1, <2>5, <2>6, <2>8 DEF LocalInv, LoopTypes, Bounded, github
  <2> QED
    BY <2>7, <2>8, <2>9, <2>10, <2>11, <2>12 DEF LocalInv
<1> QED
  BY <1>6, <1>7

\* The row is written, of the commit the job ran on.
LEMMA AttestKeeps == ASSUME LocalInv, Attest PROVE LocalInv'
<1>1. /\ op.pc = "attest" /\ op # Idle /\ op' = Idle
      /\ attestations' = IF op.job = 0 THEN attestations
                         ELSE attestations \cup {[job |-> op.job, commit |-> op.commit, raced |-> op.raced]}
      /\ UNCHANGED <<budget, worktree, required, jobs, cache, writes, github>>
  BY DEF Attest
<1>2. PICK o \in AHandler : o = op
  BY <1>1 DEF LocalInv, LoopTypes, Idle, Closed, AReading
<1>3. op.job \in Nat /\ op.commit \in Nat /\ op.raced \in BOOLEAN
  BY <1>2 DEF AHandler
<1>4. /\ op.commit \in DOMAIN commits
      /\ op.job # 0 => op.job \in DOMAIN jobs /\ Passed(op.job)
      /\ (op.job # 0 /\ jobs[op.job].profile \in Profiles /\ ~op.raced) =>
           /\ jobs[op.job].head \in {op.commit, commits[op.commit].parent}
           /\ jobs[op.job].tree = commits[op.commit].tree
  BY <1>1 DEF LocalInv, OpInv
<1>5. UNCHANGED <<commits, jobs>>
  BY <1>1 DEF worktree
<1>6. JobsInv' /\ JobsKept /\ Interrupted' = Interrupted
  BY <1>5, JobsStay
<1>7. BranchInv' /\ MarkerIsTrue' /\ HubInv'
  BY <1>1, <1>6, BranchKept, MarkerKept, HubKept DEF worktree, github
<1>8. OpInv'
  BY <1>1, NoHandler
<1>9. attestations' \subseteq [job : Nat, commit : Nat, raced : BOOLEAN]
  BY <1>1, <1>3 DEF LocalInv, LoopTypes
<1>10. LoopTypes' /\ Bounded'
  BY <1>1, <1>9 DEF LocalInv, LoopTypes, Bounded, Running, worktree, github
<1>11. \A a \in attestations' : \/ a \in attestations
                                \/ op.job # 0 /\ a = [job |-> op.job, commit |-> op.commit, raced |-> op.raced]
  BY <1>1
<1>12. \A v \in Vouched' : v \in Vouched \/ (v = <<op.job, op.commit>> /\ op.job # 0 /\ ~op.raced)
  BY <1>5, <1>11 DEF Vouched
<1>13. AttestedAsStarted'
  BY <1>4, <1>5, <1>12 DEF LocalInv, VouchInv, AttestedAsStarted, Passed
<1>14. VouchInv'
  BY <1>4, <1>5, <1>11, <1>13 DEF LocalInv, VouchInv
<1> QED
  BY <1>6, <1>7, <1>8, <1>10, <1>14 DEF LocalInv

-----------------------------------------------------------------------------
(* The base, and the push.                                                 *)

\* What running jobs see of a worktree that a tool changes, whatever it does to the branch.
LEMMA BranchStep ==
  ASSUME LocalInv, op' = Idle, NEW t \in Trees, tree' = t, jobs' = Seen(jobs, t),
         commits' \in Seq(ACommit), Len(commits') <= budget.commits,
         DOMAIN commits \subseteq DOMAIN commits', head' \in DOMAIN commits', BranchInv', VouchInv',
         UNCHANGED <<budget, canonical, modules, required, attestations, cache, writes, github>>
  PROVE  LocalInv'
<1>1. /\ jobs' \in Seq(AJob) /\ Len(jobs') = Len(jobs) /\ JobsKept /\ JobsInv' /\ Running' = Running
      /\ Interrupted' = Interrupted
  BY SeenIs
<1>2. MarkerIsTrue' /\ HubInv' /\ OpInv'
  BY <1>1, MarkerKept, HubKept, NoHandler
<1>3. LoopTypes' /\ Bounded'
  BY <1>1 DEF LocalInv, LoopTypes, Bounded, github
<1> QED
  BY <1>1, <1>2, <1>3 DEF LocalInv

\* grande_sync_base: HEAD goes forward, or merges what it has not.
LEMMA SyncBaseKeeps == ASSUME LocalInv, NEW t \in Trees, SyncBase(t) PROVE LocalInv'
<1>1. /\ op' = Idle /\ jobs' = Seen(jobs, tree')
      /\ UNCHANGED <<budget, canonical, modules, required, attestations, cache, writes, github>>
  BY DEF SyncBase
<1>2. /\ head \in DOMAIN commits /\ canonical \in DOMAIN commits /\ head \in Nat /\ canonical \in Nat
      /\ commits \in Seq(ACommit) /\ Len(commits) <= budget.commits
  BY DEF LocalInv, LoopTypes, Bounded
<1>3. CASE /\ Relation(head, canonical) = "canonical_ahead" /\ head' = canonical
           /\ tree' = commits[canonical].tree /\ UNCHANGED commits
  <2>1. head \in Ancestors(canonical)
    BY <1>3 DEF Relation
  <2>2. Ancestors(head) \subseteq Ancestors(canonical)
    BY <2>1, Transitive
  <2>3. PICK h \in {head'} : TRUE
    OBVIOUS
  <2>4. Ancestors(head)' = Ancestors(canonical)
    BY <1>3 DEF Ancestors, Histories, Parents
  <2>4a. Ancestors(remote)' = Ancestors(remote)
    BY <1>1, <1>3 DEF Ancestors, Histories, Parents, github
  <2>5. BranchInv'
    BY <1>1, <1>3, <2>2, <2>4, <2>4a DEF LocalInv, BranchInv, NothingDropped, Parents, github
  <2>6. tree' \in Trees
    <3>1. commits[canonical] \in ACommit
      <4> HIDE DEF ACommit
      <4> QED
        BY <1>2
    <3> QED
      BY <1>3, <3>1 DEF ACommit
  <2>7. PICK u \in Trees : u = tree'
    BY <2>6
  <2>8. JobsKept
    BY <1>1, <1>3, <2>7, SeenIs
  <2>9. VouchInv'
    BY <1>1, <1>3, <2>8, VouchKept
  <2> QED
    BY <1>1, <1>2, <1>3, <2>5, <2>7, <2>9, BranchStep
<1>4. CASE /\ Len(commits) < budget.commits
           /\ commits' = Append(commits, Commit(head, canonical, t, "task"))
           /\ head' = Len(commits) + 1 /\ tree' = t
  <2> DEFINE e == Commit(head, canonical, t, "task")
             n == Len(commits) + 1
  <2>1. /\ e \in ACommit /\ e.parent = head /\ e.merged = canonical /\ e.by = "task" /\ e.trailer = 0
    BY <1>2 DEF Commit, ACommit
  <2> HIDE DEF e
  <2>2. commits' = Append(commits, e) /\ head' = n
    BY <1>4 DEF e
  <2>3. /\ commits' \in Seq(ACommit) /\ Len(commits') <= budget.commits
        /\ DOMAIN commits' = DOMAIN commits \cup {n}
    BY <1>4, <2>1, <2>2, CommitsGrow
  <2>4. BranchInv'
    BY <1>1, <1>2, <2>1, <2>2, BranchGrows DEF github
  <2>5. JobsKept
    BY <1>1, <1>4, <2>3, SeenIs
  <2>6. VouchInv'
    BY <1>1, <2>1, <2>2, <2>5, VouchGrows
  <2> HIDE DEF n
  <2> QED
    BY <1>1, <1>4, <2>2, <2>3, <2>4, <2>6, BranchStep
<1> QED
  BY <1>3, <1>4 DEF SyncBase

\* Others merge, and the canonical checkout follows.
LEMMA CanonicalAdvancesKeeps == ASSUME LocalInv, NEW t \in Trees, CanonicalAdvances(t) PROVE LocalInv'
<1>0. PICK m \in {0} \cup {prs[k].head : k \in DOMAIN prs} :
        commits' = Append(commits, Commit(canonical, m, t, "others"))
  BY DEF CanonicalAdvances
<1> DEFINE e == Commit(canonical, m, t, "others")
           n == Len(commits) + 1
<1>1. /\ op' = Idle /\ Len(commits) < budget.commits /\ commits' = Append(commits, e) /\ canonical' = n
      /\ UNCHANGED <<budget, head, tree, modules, required, jobs, attestations, cache, writes, github>>
  BY <1>0 DEF CanonicalAdvances
<1>2. canonical \in DOMAIN commits /\ canonical \in Nat /\ m \in {0} \cup DOMAIN commits /\ m \in Nat
  <2>1. canonical \in DOMAIN commits /\ DOMAIN commits \subseteq Nat
    BY DEF LocalInv, LoopTypes
  <2>2. m \in {0} \cup DOMAIN commits
    BY DEF LocalInv, HubInv
  <2> QED
    BY <2>1, <2>2
<1>3. /\ e \in ACommit /\ e.parent = canonical /\ e.merged = m /\ e.by = "others" /\ e.trailer = 0
  BY <1>2 DEF Commit, ACommit
<1> HIDE DEF e
<1>4. /\ commits' \in Seq(ACommit) /\ Len(commits') <= budget.commits
      /\ DOMAIN commits' = DOMAIN commits \cup {n}
  BY <1>1, <1>3, CommitsGrow
<1>5. BranchInv'
  BY <1>1, <1>2, <1>3, BranchGrows DEF github
<1>6. JobsInv' /\ JobsKept /\ Running' = Running /\ Interrupted' = Interrupted
  BY <1>1, <1>4, JobsStay
<1>7. VouchInv'
  BY <1>1, <1>3, <1>6, VouchGrows
<1> HIDE DEF n
<1>8. MarkerIsTrue' /\ HubInv' /\ OpInv'
  BY <1>1, <1>4, <1>6, MarkerKept, HubKept, NoHandler
<1>9. LoopTypes' /\ Bounded'
  BY <1>1, <1>4, <1>6 DEF LocalInv, LoopTypes, Bounded, github
<1> QED
  BY <1>5, <1>6, <1>7, <1>8, <1>9 DEF LocalInv

\* GitHub moves, the worktree and its jobs stay.
LEMMA HubStep ==
  ASSUME LocalInv, UNCHANGED local, remote' \in {0} \cup DOMAIN commits, prs' \in Seq(APr),
         opens' \in Seq(AnOpening), receipt' \in [pr : Nat, head : Nat, base : Nat, merge : Nat],
         Len(prs') <= budget.opens, HubInv',
         remote' = remote \/ (remote' # 0 /\ (remote # 0 => remote \in Ancestors(remote'))),
         op.pc = "readback" => /\ op.pr \in DOMAIN prs' /\ prs'[op.pr].state = "merged"
                               /\ prs'[op.pr].head = op.head
  PROVE  LocalInv'
<1>1. /\ UNCHANGED <<budget, worktree, required, jobs, attestations, cache, op, writes>>
      /\ UNCHANGED <<commits, head, tree, canonical, modules>>
  BY DEF local, worktree
<1>2. JobsInv' /\ JobsKept /\ Running' = Running /\ Interrupted' = Interrupted
  BY <1>1, JobsStay
<1>3. VouchInv' /\ MarkerIsTrue'
  BY <1>1, <1>2, VouchKept, MarkerKept
<1>4. \A c : Ancestors(c)' = Ancestors(c)
  BY <1>1 DEF Ancestors, Histories, Parents
<1>5. BranchInv'
  <2>1. PICK r \in {remote'} : TRUE
    OBVIOUS
  <2>2. remote # 0 => r # 0 /\ Ancestors(remote) \subseteq Ancestors(r)
    BY <2>1, Transitive
  <2>3. Ancestors(remote)' = Ancestors(r)
    BY <1>1, <2>1 DEF Ancestors, Histories, Parents
  <2>4. Ancestors(head)' = Ancestors(head)
    BY <1>1 DEF Ancestors, Histories, Parents
  <2>5. NothingDropped'
    BY <1>1, <2>1, <2>2, <2>3, <2>4 DEF LocalInv, BranchInv, NothingDropped
  <2> QED
    BY <1>1, <2>5 DEF LocalInv, BranchInv, Parents
<1>6. OpInv'
  BY <1>1, <1>2 DEF LocalInv, OpInv, IsClosed, Passed
<1>7. LoopTypes' /\ Bounded'
  BY <1>1, <1>2 DEF LocalInv, LoopTypes, Bounded
<1> QED
  BY <1>2, <1>3, <1>5, <1>6, <1>7 DEF LocalInv

\* grande_push.
LEMMA PushKeeps == ASSUME LocalInv, Push PROVE LocalInv'
<1>1. /\ remote' = head /\ (remote # 0 => remote \in Ancestors(head))
      /\ UNCHANGED <<local, prs, opens, receipt>>
  BY DEF Push
<1>2. head \in DOMAIN commits /\ head # 0
  BY DEF LocalInv, LoopTypes
<1>3. HubInv'
  BY <1>1, <1>2 DEF LocalInv, HubInv, ReceiptOfTheMerge, local, worktree
<1>4. op.pc = "readback" => /\ op.pr \in DOMAIN prs /\ prs[op.pr].state = "merged"
                            /\ prs[op.pr].head = op.head
  BY DEF LocalInv, OpInv
<1>5. /\ prs \in Seq(APr) /\ opens \in Seq(AnOpening) /\ Len(prs) <= budget.opens
      /\ receipt \in [pr : Nat, head : Nat, base : Nat, merge : Nat]
  BY DEF LocalInv, LoopTypes, Bounded
<1> QED
  BY <1>1, <1>2, <1>3, <1>4, <1>5, HubStep

\* Somebody adds a commit to the branch at origin.
LEMMA OthersPushKeeps == ASSUME LocalInv, NEW t \in Trees, OthersPush(t) PROVE LocalInv'
<1> DEFINE e == Commit(remote, 0, t, "guest")
           n == Len(commits) + 1
<1>1. /\ op \in {Idle, Closed} /\ remote # 0 /\ Len(commits) < budget.commits
      /\ commits' = Append(commits, e) /\ remote' = n
      /\ UNCHANGED <<budget, head, tree, canonical, modules, required, jobs, attestations, cache, op, writes,
                     prs, opens, receipt>>
  BY DEF OthersPush
<1>2. remote \in DOMAIN commits /\ remote \in Nat
  BY <1>1 DEF LocalInv, LoopTypes
<1>3. /\ e \in ACommit /\ e.parent = remote /\ e.merged = 0 /\ e.by = "guest" /\ e.trailer = 0
  BY <1>2 DEF Commit, ACommit
<1> HIDE DEF e
<1>4. /\ commits' \in Seq(ACommit) /\ Len(commits') <= budget.commits
      /\ DOMAIN commits' = DOMAIN commits \cup {n} /\ n # 0
  <2>1. Len(commits) \in Nat
    BY DEF LocalInv, LoopTypes
  <2> QED
    BY <1>1, <1>3, <2>1, CommitsGrow
<1>5. BranchInv'
  BY <1>1, <1>2, <1>3, BranchGrows
<1>6. JobsInv' /\ JobsKept /\ Running' = Running /\ Interrupted' = Interrupted
  BY <1>1, <1>4, JobsStay
<1>7. VouchInv'
  BY <1>1, <1>3, <1>6, VouchGrows
<1> HIDE DEF n
<1>8. MarkerIsTrue'
  BY <1>1, <1>6, MarkerKept
<1>9. HubInv'
  BY <1>1, <1>4 DEF LocalInv, HubInv, ReceiptOfTheMerge
<1>10. OpInv'
  BY <1>1, <1>6 DEF LocalInv, OpInv, Idle, Closed, IsClosed
<1>11. LoopTypes' /\ Bounded'
  BY <1>1, <1>4, <1>6 DEF LocalInv, LoopTypes, Bounded
<1> QED
  BY <1>5, <1>6, <1>7, <1>8, <1>9, <1>10, <1>11 DEF LocalInv

-----------------------------------------------------------------------------
(* grande_pr_open, and the receipt.                                        *)

\* GitHub and the calls to it, as they are.
LEMMA HubIs ==
  ASSUME LocalInv
  PROVE  /\ prs \in Seq(APr) /\ opens \in Seq(AnOpening) /\ Len(prs) <= budget.opens
         /\ receipt \in [pr : Nat, head : Nat, base : Nat, merge : Nat]
         /\ remote \in {0} \cup DOMAIN commits
         /\ op.pc = "readback" => /\ op.pr \in DOMAIN prs /\ prs[op.pr].state = "merged"
                                  /\ prs[op.pr].head = op.head
         /\ DOMAIN commits \subseteq Nat /\ DOMAIN prs \subseteq Nat /\ head \in DOMAIN commits
BY DEF LocalInv, LoopTypes, Bounded, OpInv, BranchInv, NothingDropped

\* A call whose record is replaced.
LEMMA OpeningSet ==
  ASSUME LocalInv, NEW i \in DOMAIN opens, NEW r \in AnOpening, opens' = [opens EXCEPT ![i] = r],
         r.found \in {0} \cup DOMAIN prs', r.head \in DOMAIN commits, DOMAIN prs \subseteq DOMAIN prs'
  PROVE  /\ opens' \in Seq(AnOpening)
         /\ \A k \in DOMAIN opens' : opens'[k].found \in {0} \cup DOMAIN prs' /\ opens'[k].head \in DOMAIN commits
<1>1. opens \in Seq(AnOpening)
  BY HubIs
<1>2. /\ opens' \in Seq(AnOpening) /\ DOMAIN opens' = DOMAIN opens
      /\ opens'[i] = r /\ \A k \in DOMAIN opens \ {i} : opens'[k] = opens[k]
  <2> HIDE DEF AnOpening
  <2> QED
    BY <1>1
<1>3. \A k \in DOMAIN opens : opens[k].found \in {0} \cup DOMAIN prs /\ opens[k].head \in DOMAIN commits
  BY DEF LocalInv, HubInv
<1> QED
  BY <1>2, <1>3

\* What a call can have done to the receipt: merge evidence stays as it is.
LEMMA RecordIs ==
  ASSUME LocalInv, NEW n \in {0} \cup DOMAIN prs, NEW h \in Nat, Record(Observation(n, h, 0))
  PROVE  /\ receipt' \in [pr : Nat, head : Nat, base : Nat, merge : Nat]
         /\ receipt'.pr \in {0} \cup DOMAIN prs /\ receipt'.merge = receipt.merge
         /\ receipt.merge # 0 => receipt' = receipt
<1> DEFINE saw == Observation(n, h, 0)
<1>1. n \in Nat /\ receipt \in [pr : Nat, head : Nat, base : Nat, merge : Nat] /\ receipt.pr \in {0} \cup DOMAIN prs
  BY HubIs DEF LocalInv, HubInv
<1>2. receipt' = receipt \/ receipt' = Opened(receipt, saw, FALSE)
  BY DEF Record
<1>3. CASE receipt.merge # 0
  BY <1>1, <1>2, <1>3 DEF Opened
<1>4. CASE receipt.merge = 0
  <2>1. OrKnown(saw.head, receipt.head) \in Nat /\ OrKnown(saw.base, receipt.base) \in Nat /\ saw.pr = n
    BY <1>1 DEF OrKnown, Observation
  <2> HIDE DEF saw
  <2>2. CASE receipt' = receipt
    BY <1>1, <1>4, <2>2
  <2>3. CASE receipt' = Opened(receipt, saw, FALSE)
    BY <1>1, <1>4, <2>1, <2>3 DEF Opened
  <2> QED
    BY <1>2, <2>2, <2>3 DEF saw
<1> QED
  BY <1>3, <1>4

\* A call moves on, and may record what it saw.
LEMMA OpeningStep ==
  ASSUME LocalInv, NEW i \in DOMAIN opens, NEW r \in AnOpening, opens' = [opens EXCEPT ![i] = r],
         r.found \in {0} \cup DOMAIN prs, r.head \in DOMAIN commits, UNCHANGED <<local, remote, prs>>,
         \/ UNCHANGED receipt
         \/ \E n \in {0} \cup DOMAIN prs, h \in Nat : Record(Observation(n, h, 0))
  PROVE  LocalInv'
<1>1. /\ opens' \in Seq(AnOpening)
      /\ \A k \in DOMAIN opens' : opens'[k].found \in {0} \cup DOMAIN prs /\ opens'[k].head \in DOMAIN commits
  BY OpeningSet
<1>2. /\ receipt' \in [pr : Nat, head : Nat, base : Nat, merge : Nat]
      /\ receipt'.pr \in {0} \cup DOMAIN prs /\ receipt'.merge = receipt.merge
      /\ receipt.merge # 0 => receipt' = receipt
  <2>1. CASE UNCHANGED receipt
    BY <2>1, HubIs DEF LocalInv, HubInv
  <2>2. CASE \E n \in {0} \cup DOMAIN prs, h \in Nat : Record(Observation(n, h, 0))
    BY <2>2, RecordIs
  <2> QED
    BY <2>1, <2>2
<1>3. UNCHANGED commits
  BY DEF local, worktree
<1>4. HubInv'
  BY <1>1, <1>2, <1>3 DEF LocalInv, HubInv, ReceiptOfTheMerge
<1> QED
  BY <1>1, <1>2, <1>4, HubIs, HubStep

\* A call starts.
LEMMA OpenStartsKeeps == ASSUME LocalInv, OpenStarts PROVE LocalInv'
<1> DEFINE r == [pc |-> "find", head |-> head, found |-> 0]
<1>1. opens' = Append(opens, r) /\ UNCHANGED <<local, remote, prs, receipt>>
  BY DEF OpenStarts
<1>2. r \in AnOpening /\ r.found = 0 /\ r.head \in DOMAIN commits
  <2>1. head \in DOMAIN commits /\ head \in Nat
    BY HubIs
  <2> QED
    BY <2>1 DEF AnOpening
<1> HIDE DEF r
<1>3. opens \in Seq(AnOpening)
  BY HubIs
<1> DEFINE m == Len(opens) + 1
<1>4. /\ opens' \in Seq(AnOpening) /\ DOMAIN opens' = DOMAIN opens \cup {m} /\ opens'[m] = r
      /\ \A k \in DOMAIN opens : opens'[k] = opens[k]
  <2> HIDE DEF AnOpening
  <2> QED
    BY <1>1, <1>2, <1>3, OneMore
<1> HIDE DEF m
<1>5. UNCHANGED commits
  BY <1>1 DEF local, worktree
<1>6. HubInv'
  BY <1>1, <1>2, <1>4, <1>5 DEF LocalInv, HubInv, ReceiptOfTheMerge
<1> QED
  BY <1>1, <1>4, <1>6, HubIs, HubStep

\* The search for the pull request answers.
LEMMA FoundKeeps == ASSUME LocalInv, NEW i \in DOMAIN opens, Found(i) PROVE LocalInv'
<1>1. PICK r \in AnOpening : r = opens[i]
  BY HubIs
<1>2. PICK stage \in {"create", "done"} :
        /\ opens' = [opens EXCEPT ![i].pc = stage] /\ UNCHANGED <<local, remote, prs>>
        /\ UNCHANGED receipt \/ \E n \in OpenPrs : Record(Observation(n, 0, 0))
  BY DEF Found
<1> DEFINE e == [r EXCEPT !.pc = stage]
<1>3. e \in AnOpening /\ e.found = r.found /\ e.head = r.head
  BY DEF AnOpening
<1>4. opens' = [opens EXCEPT ![i] = e]
  BY <1>1, <1>2
<1> HIDE DEF e
<1>5. r.found \in {0} \cup DOMAIN prs /\ r.head \in DOMAIN commits
  BY <1>1 DEF LocalInv, HubInv
<1>6. UNCHANGED receipt \/ \E n \in {0} \cup DOMAIN prs, h \in Nat : Record(Observation(n, h, 0))
  <2>1. OpenPrs \subseteq {0} \cup DOMAIN prs /\ 0 \in Nat
    BY DEF OpenPrs
  <2> QED
    BY <1>2, <2>1
<1> QED
  BY <1>2, <1>3, <1>4, <1>5, <1>6, OpeningStep

\* GitHub creates the pull request.
LEMMA CreatedKeeps == ASSUME LocalInv, NEW i \in DOMAIN opens, Created(i) PROVE LocalInv'
<1> DEFINE p == [state |-> "open", head |-> 0]
           m == Len(prs) + 1
<1>1. /\ remote # 0 /\ Len(prs) < budget.opens /\ prs' = Append(prs, p)
      /\ opens' = [opens EXCEPT ![i].pc = "answer", ![i].found = m]
      /\ UNCHANGED <<local, remote, receipt>>
  BY DEF Created
<1>2. PICK r \in AnOpening : r = opens[i]
  BY HubIs
<1>3. prs \in Seq(APr) /\ p \in APr /\ p.state = "open" /\ p.head = 0 /\ budget.opens \in Nat /\ Len(prs) \in Nat
  BY HubIs, LocalLoopAssumption DEF APr, LocalInv, LoopTypes
<1> HIDE DEF p
<1>4. /\ prs' \in Seq(APr) /\ Len(prs') = m /\ DOMAIN prs' = DOMAIN prs \cup {m} /\ prs'[m] = p
      /\ \A k \in DOMAIN prs : prs'[k] = prs[k]
  <2> HIDE DEF APr
  <2> QED
    BY <1>1, <1>3, OneMore
<1>5. Len(prs') <= budget.opens /\ m \in Nat
  BY <1>1, <1>3, <1>4
<1> DEFINE e == [[r EXCEPT !.pc = "answer"] EXCEPT !.found = m]
<1> HIDE DEF m
<1>6. e \in AnOpening /\ e.found = m /\ e.head = r.head
  BY <1>5 DEF AnOpening
<1>7. opens' = [opens EXCEPT ![i] = e]
  BY <1>1, <1>2
<1> HIDE DEF e
<1>8. r.head \in DOMAIN commits
  BY <1>2 DEF LocalInv, HubInv
<1>9. /\ opens' \in Seq(AnOpening)
      /\ \A k \in DOMAIN opens' : opens'[k].found \in {0} \cup DOMAIN prs' /\ opens'[k].head \in DOMAIN commits
  BY <1>4, <1>6, <1>7, <1>8, OpeningSet
<1>10. UNCHANGED commits
  BY <1>1 DEF local, worktree
<1>11. HubInv'
  BY <1>1, <1>3, <1>4, <1>9, <1>10 DEF LocalInv, HubInv, ReceiptOfTheMerge
<1>12. op.pc = "readback" => /\ op.pr \in DOMAIN prs' /\ prs'[op.pr].state = "merged"
                             /\ prs'[op.pr].head = op.head
  BY <1>4, HubIs
<1> QED
  BY <1>1, <1>4, <1>5, <1>9, <1>11, <1>12, HubIs, HubStep

\* The newest pull request is looked up.
LEMMA LooksAgainKeeps == ASSUME LocalInv, NEW i \in DOMAIN opens, LooksAgain(i) PROVE LocalInv'
<1>1. PICK r \in AnOpening : r = opens[i]
  BY HubIs
<1>2. PICK stage \in {"done", "answer"} :
        /\ opens' = [opens EXCEPT ![i].pc = stage, ![i].found = Len(prs)]
        /\ UNCHANGED <<local, remote, prs, receipt>>
  BY DEF LooksAgain
<1>3. Len(prs) \in Nat /\ Len(prs) \in {0} \cup DOMAIN prs
  BY HubIs
<1> DEFINE e == [[r EXCEPT !.pc = stage] EXCEPT !.found = Len(prs)]
<1>4. e \in AnOpening /\ e.found = Len(prs) /\ e.head = r.head
  BY <1>3 DEF AnOpening
<1>5. opens' = [opens EXCEPT ![i] = e]
  BY <1>1, <1>2
<1> HIDE DEF e
<1>6. r.head \in DOMAIN commits
  BY <1>1 DEF LocalInv, HubInv
<1> QED
  BY <1>2, <1>3, <1>4, <1>5, <1>6, OpeningStep

\* A call records the pull request it has found, however late.
LEMMA RecordedKeeps == ASSUME LocalInv, NEW i \in DOMAIN opens, Recorded(i) PROVE LocalInv'
<1>1. PICK r \in AnOpening : r = opens[i]
  BY HubIs
<1>2. /\ opens' = [opens EXCEPT ![i].pc = "done"] /\ Record(Observation(r.found, r.head, 0))
      /\ UNCHANGED <<local, remote, prs>>
  BY <1>1 DEF Recorded
<1> DEFINE e == [r EXCEPT !.pc = "done"]
<1>3. e \in AnOpening /\ e.found = r.found /\ e.head = r.head /\ r.head \in Nat
  BY DEF AnOpening
<1>4. opens' = [opens EXCEPT ![i] = e]
  BY <1>1, <1>2
<1> HIDE DEF e
<1>5. r.found \in {0} \cup DOMAIN prs /\ r.head \in DOMAIN commits
  BY <1>1 DEF LocalInv, HubInv
<1>6. \E n \in {0} \cup DOMAIN prs, h \in Nat : Record(Observation(n, h, 0))
  BY <1>2, <1>3, <1>5
<1> QED
  BY <1>2, <1>3, <1>4, <1>5, <1>6, OpeningStep

\* A pull request ends with the branch as it was pushed.
LEMMA PrEndsKeeps ==
  ASSUME LocalInv, NEW n \in DOMAIN prs, NEW state \in {"closed", "merged"}, PrEnds(n, state)
  PROVE  LocalInv'
<1>1. /\ prs[n].state = "open" /\ prs' = [prs EXCEPT ![n].state = state, ![n].head = remote]
      /\ UNCHANGED <<local, remote, opens, receipt>>
  BY DEF PrEnds
<1>2. PICK r \in APr : r = prs[n]
  BY HubIs
<1>3. remote \in Nat /\ remote \in {0} \cup DOMAIN commits /\ remote # 0
  <2>1. prs # <<>>
    BY HubIs
  <2> QED
    BY <2>1, HubIs DEF LocalInv, HubInv
<1> DEFINE e == [[r EXCEPT !.state = state] EXCEPT !.head = remote]
<1>4. e \in APr /\ e.state = state /\ e.head = remote
  BY <1>3 DEF APr
<1>5. prs' = [prs EXCEPT ![n] = e]
  BY <1>1, <1>2
<1> HIDE DEF e
<1>6. /\ prs' \in Seq(APr) /\ Len(prs') = Len(prs) /\ DOMAIN prs' = DOMAIN prs /\ prs'[n] = e
      /\ \A k \in DOMAIN prs \ {n} : prs'[k] = prs[k]
  <2>1. prs \in Seq(APr)
    BY HubIs
  <2> HIDE DEF APr
  <2> QED
    BY <1>4, <1>5, <2>1
<1>7. receipt.merge # 0 => receipt.pr # n /\ receipt.pr \in DOMAIN prs
  BY <1>1 DEF LocalInv, HubInv, ReceiptOfTheMerge
<1>8. UNCHANGED commits
  BY <1>1 DEF local, worktree
<1>9. HubInv'
  BY <1>1, <1>3, <1>4, <1>6, <1>7, <1>8 DEF LocalInv, HubInv, ReceiptOfTheMerge
<1>10. op.pc = "readback" => /\ op.pr \in DOMAIN prs' /\ prs'[op.pr].state = "merged"
                             /\ prs'[op.pr].head = op.head
  BY <1>1, <1>6, HubIs
<1> QED
  BY <1>1, <1>6, <1>9, <1>10, HubIs, HubStep

\* Merge evidence is of the pull request that was merged, and of the head it merged.
LEMMA MergeRecorded ==
  ASSUME LocalInv, NEW n \in DOMAIN prs, prs[n].state = "merged", NEW h, h = prs[n].head,
         MergeAccepts(receipt, Observation(n, h, 1), h),
         receipt' = Merged(receipt, Observation(n, h, 1), h),
         UNCHANGED <<commits, remote, prs, opens>>
  PROVE  HubInv' /\ receipt' \in [pr : Nat, head : Nat, base : Nat, merge : Nat]
<1> DEFINE saw == Observation(n, h, 1)
           o == Opened(receipt, saw, TRUE)
<1>1. /\ n \in Nat /\ n # 0 /\ h \in Nat /\ h # 0
      /\ receipt \in [pr : Nat, head : Nat, base : Nat, merge : Nat]
  <2>1. prs \in Seq(APr) /\ receipt \in [pr : Nat, head : Nat, base : Nat, merge : Nat]
    BY HubIs
  <2>2. prs[n] \in APr /\ n \in Nat /\ n # 0
    <3> HIDE DEF APr
    <3> QED
      BY <2>1
  <2>3. h # 0
    BY DEF LocalInv, HubInv
  <2> QED
    BY <2>1, <2>2, <2>3 DEF APr
<1>2. saw.pr = n /\ saw.head = h /\ saw.base = 1
  BY DEF Observation
<1>3. SameIdentity(receipt, saw) /\ receipt.pr \in {0, n}
  BY <1>2 DEF MergeAccepts, OpenAccepts, SameIdentity
<1> HIDE DEF saw
<1>4. /\ o \in [pr : Nat, head : Nat, base : Nat, merge : Nat] /\ o.pr = n /\ o.head = h
  <2>1. CASE receipt.merge = 0
    <3>1. OrKnown(saw.head, receipt.head) = h /\ OrKnown(saw.base, receipt.base) = 1
      BY <1>1, <1>2 DEF OrKnown
    <3>2. o = [pr |-> n, head |-> h, base |-> 1, merge |-> 0]
      BY <1>2, <2>1, <3>1 DEF Opened
    <3> HIDE DEF o
    <3> QED
      BY <1>1, <3>2
  <2>2. CASE receipt.merge # 0
    <3>1. receipt.pr = n /\ receipt.head = h
      BY <1>3, <2>2 DEF LocalInv, HubInv, ReceiptOfTheMerge
    <3>2. OrKnown(receipt.base, saw.base) \in Nat
      BY <1>1, <1>2 DEF OrKnown
    <3>3. o = [receipt EXCEPT !.base = OrKnown(receipt.base, saw.base)]
      BY <2>2 DEF Opened
    <3> HIDE DEF o
    <3> QED
      BY <1>1, <3>1, <3>2, <3>3
  <2> QED
    BY <2>1, <2>2
<1>5. receipt' = [o EXCEPT !.merge = h]
  BY DEF Merged, saw
<1> HIDE DEF o
<1>6. /\ receipt' \in [pr : Nat, head : Nat, base : Nat, merge : Nat]
      /\ receipt'.pr = n /\ receipt'.head = h
  BY <1>1, <1>4, <1>5
<1>7. HubInv'
  BY <1>1, <1>6 DEF LocalInv, HubInv, ReceiptOfTheMerge
<1> QED
  BY <1>6, <1>7

\* A lifecycle tool observes the merge.
LEMMA ObserveMergedKeeps == ASSUME LocalInv, NEW n \in DOMAIN prs, ObserveMerged(n) PROVE LocalInv'
<1>1. /\ prs[n].state = "merged" /\ UNCHANGED <<local, remote, prs, opens>>
      /\ MergeAccepts(receipt, Observation(n, prs[n].head, 1), prs[n].head)
      /\ receipt' = Merged(receipt, Observation(n, prs[n].head, 1), prs[n].head)
  BY DEF ObserveMerged
<1>2. PICK h \in {prs[n].head} : TRUE
  OBVIOUS
<1>3. UNCHANGED <<commits, remote, prs, opens>>
  BY <1>1 DEF local, worktree
<1>4. HubInv' /\ receipt' \in [pr : Nat, head : Nat, base : Nat, merge : Nat]
  BY <1>1, <1>2, <1>3, MergeRecorded
<1> QED
  BY <1>1, <1>4, HubIs, HubStep

-----------------------------------------------------------------------------
(* The closed task, and the crash.                                         *)

\* The task is closed.
LEMMA CloseTaskKeeps == ASSUME LocalInv, CloseTask PROVE LocalInv'
<1>1. /\ Running = {} /\ op' = Closed
      /\ UNCHANGED <<budget, worktree, required, jobs, attestations, cache, writes, github>>
  BY DEF CloseTask
<1>2. OpInv'
  BY <1>1 DEF OpInv, IsClosed, Closed, Running
<1> QED
  BY <1>1, <1>2, OpStep

\* The merged pull request of a closed task is read.
LEMMA ReadBackKeeps == ASSUME LocalInv, ReadBack PROVE LocalInv'
<1> DEFINE n == Len(prs)
<1>1. /\ op = Closed /\ prs # <<>> /\ prs[n].state = "merged" /\ prs[n].head \in TrustedHeads
      /\ op' = [pc |-> "readback", pr |-> n, head |-> prs[n].head]
      /\ UNCHANGED <<budget, worktree, required, jobs, attestations, cache, writes, github>>
  BY DEF ReadBack
<1>2. n \in DOMAIN prs /\ n \in Nat
  BY <1>1, HubIs
<1>3. prs[n].head \in DOMAIN commits /\ prs[n].head \in Nat
  BY <1>1, HubIs DEF LocalInv, VouchInv, TrustedHeads
<1> HIDE DEF n
<1>4. op' \in AReading /\ op'.pc = "readback" /\ op'.pr = n /\ op'.head = prs[n].head
  BY <1>1, <1>2, <1>3 DEF AReading
<1>5. Running' = {}
  BY <1>1 DEF LocalInv, OpInv, IsClosed, Closed, Running
<1>6. OpInv'
  BY <1>1, <1>2, <1>3, <1>4, <1>5 DEF OpInv, IsClosed, worktree, github
<1> QED
  BY <1>1, <1>4, <1>6, OpStep

\* What was read is written, unless the receipt now says otherwise.
LEMMA WriteBackKeeps == ASSUME LocalInv, WriteBack PROVE LocalInv'
<1>1. /\ op.pc = "readback" /\ op' = Closed
      /\ UNCHANGED <<budget, worktree, required, jobs, attestations, cache, writes, remote, prs, opens>>
      /\ UNCHANGED <<commits, head, tree, canonical, modules>>
      /\ \/ UNCHANGED receipt
         \/ /\ MergeAccepts(receipt, Observation(op.pr, op.head, 1), op.head)
            /\ receipt' = Merged(receipt, Observation(op.pr, op.head, 1), op.head)
  BY DEF WriteBack, worktree
<1>2. PICK n \in DOMAIN prs, h \in {op.head} : n = op.pr /\ h = op.head /\ prs[n].state = "merged" /\ prs[n].head = h
  BY <1>1, HubIs
<1>3. HubInv' /\ receipt' \in [pr : Nat, head : Nat, base : Nat, merge : Nat]
  <2>1. CASE UNCHANGED receipt
    BY <1>1, <2>1, HubIs, HubKept DEF github
  <2>2. CASE /\ MergeAccepts(receipt, Observation(n, h, 1), h)
             /\ receipt' = Merged(receipt, Observation(n, h, 1), h)
    BY <1>1, <1>2, <2>2, MergeRecorded
  <2> QED
    BY <1>1, <1>2, <2>1, <2>2
<1>4. JobsInv' /\ JobsKept /\ Running' = Running /\ Interrupted' = Interrupted
  BY <1>1, JobsStay
<1>5. VouchInv' /\ MarkerIsTrue' /\ BranchInv'
  BY <1>1, <1>4, VouchKept, MarkerKept, BranchKept
<1>6. OpInv'
  BY <1>1, <1>4 DEF LocalInv, OpInv, IsClosed, Closed
<1>7. LoopTypes' /\ Bounded'
  BY <1>1, <1>3, <1>4 DEF LocalInv, LoopTypes, Bounded
<1> QED
  BY <1>3, <1>4, <1>5, <1>6, <1>7 DEF LocalInv

\* An install fails.
LEMMA BootstrapFailsKeeps == ASSUME LocalInv, NEW j, BootstrapFails(j) PROVE LocalInv'
BY InstallLost DEF BootstrapFails

\* A cancellation that comes too late to stop the install.
LEMMA BootstrapCancelledLateKeeps == ASSUME LocalInv, NEW j, BootstrapCancelledLate(j) PROVE LocalInv'
<1>1. /\ op' = Idle /\ j \in Running /\ jobs[j].profile = Bootstrap
      /\ End(j, "killed") /\ modules' \in {Underway, None}
      /\ UNCHANGED <<budget, commits, head, tree, canonical, required, attestations, cache, writes, github>>
  BY DEF BootstrapCancelledLate
<1>2. /\ jobs' \in Seq(AJob) /\ Len(jobs') = Len(jobs) /\ JobsKept /\ JobsInv' /\ Running' \subseteq Running
      /\ Interrupted' = Interrupted
  BY <1>1, EndIs
<1>3. Interrupted' # {}
  BY <1>1, <1>2 DEF Interrupted, Running
<1>4. MarkerIsTrue'
  BY <1>1, <1>2, <1>3, InstallCut
<1>5. modules' \in [prepared : Locks \cup {NoLock}, marker : Locks \cup {NoLock}, partial : BOOLEAN]
  BY <1>1, UnderwayIs, NoModules
<1> QED
  BY <1>1, <1>2, <1>4, <1>5, AsItIs, JobsStep

\* The Gateway dies, and the jobs are closed as killed.
LEMMA CrashKeeps == ASSUME LocalInv, Crash PROVE LocalInv'
<1>1. /\ op' = IF IsClosed THEN Closed ELSE Idle
      /\ jobs' = [j \in DOMAIN jobs |-> IF j \in Running THEN [jobs[j] EXCEPT !.state = "killed"] ELSE jobs[j]]
      /\ opens' = [i \in DOMAIN opens |-> [opens[i] EXCEPT !.pc = "done"]]
      /\ UNCHANGED <<budget, worktree, required, attestations, cache, writes, remote, prs, receipt>>
      /\ UNCHANGED <<commits, head, tree, canonical, modules>>
  BY DEF Crash, worktree
<1>2. \A j \in DOMAIN jobs :
        /\ jobs'[j] \in AJob
        /\ jobs'[j].state = IF jobs[j].state = "running" THEN "killed" ELSE jobs[j].state
        /\ jobs'[j].digest = jobs[j].digest
        /\ jobs'[j].profile = jobs[j].profile /\ jobs'[j].lock = jobs[j].lock
        /\ jobs'[j].head = jobs[j].head /\ jobs'[j].tree = jobs[j].tree
        /\ jobs'[j].bounced = jobs[j].bounced /\ jobs'[j].seen = jobs[j].seen
  <2> SUFFICES ASSUME NEW j \in DOMAIN jobs
               PROVE  /\ jobs'[j] \in AJob
                      /\ jobs'[j].state = IF jobs[j].state = "running" THEN "killed" ELSE jobs[j].state
                      /\ jobs'[j].digest = jobs[j].digest
                      /\ jobs'[j].profile = jobs[j].profile /\ jobs'[j].lock = jobs[j].lock
                      /\ jobs'[j].head = jobs[j].head /\ jobs'[j].tree = jobs[j].tree
                      /\ jobs'[j].bounced = jobs[j].bounced /\ jobs'[j].seen = jobs[j].seen
    OBVIOUS
  <2>1. PICK r \in AJob : r = jobs[j]
    BY AsItIs
  <2> DEFINE e == [r EXCEPT !.state = "killed"]
  <2>2. /\ e \in AJob /\ e.state = "killed" /\ e.digest = r.digest /\ e.profile = r.profile
        /\ e.lock = r.lock /\ e.head = r.head /\ e.tree = r.tree /\ e.bounced = r.bounced /\ e.seen = r.seen
    BY DEF AJob
  <2>3. jobs'[j] = IF r.state = "running" THEN e ELSE r
    BY <1>1, <2>1 DEF Running
  <2> HIDE DEF e
  <2> QED
    BY <2>1, <2>2, <2>3
<1>3. DOMAIN jobs' = DOMAIN jobs /\ jobs' = [j \in DOMAIN jobs' |-> jobs'[j]]
  BY <1>1
<1>4. jobs' \in Seq(AJob) /\ Len(jobs') = Len(jobs)
  <2>1. jobs \in Seq(AJob)
    BY AsItIs
  <2> HIDE DEF AJob
  <2> QED
    BY <1>2, <1>3, <2>1, Mapped
<1>5. JobsKept
  BY <1>2, <1>3 DEF JobsKept, Passed
<1>6. JobsInv'
  BY <1>1, <1>2, <1>3 DEF LocalInv, JobsInv
<1>7. Running' = {} /\ Interrupted' = Interrupted
  BY <1>2, <1>3 DEF Running, Interrupted
<1>8. \A i \in DOMAIN opens : /\ opens'[i] \in AnOpening /\ opens'[i].found = opens[i].found
                              /\ opens'[i].head = opens[i].head
  <2> SUFFICES ASSUME NEW i \in DOMAIN opens
               PROVE  /\ opens'[i] \in AnOpening /\ opens'[i].found = opens[i].found
                      /\ opens'[i].head = opens[i].head
    OBVIOUS
  <2>1. PICK r \in AnOpening : r = opens[i]
    BY HubIs
  <2>2. opens'[i] = [r EXCEPT !.pc = "done"]
    BY <1>1, <2>1
  <2> QED
    BY <2>1, <2>2 DEF AnOpening
<1>9. DOMAIN opens' = DOMAIN opens /\ opens' = [i \in DOMAIN opens' |-> opens'[i]]
  BY <1>1
<1>10. opens' \in Seq(AnOpening)
  <2>1. opens \in Seq(AnOpening)
    BY HubIs
  <2> HIDE DEF AnOpening
  <2> QED
    BY <1>8, <1>9, <2>1, Mapped
<1>11. VouchInv' /\ MarkerIsTrue' /\ BranchInv'
  BY <1>1, <1>5, <1>7, VouchKept, MarkerKept, BranchKept
<1>12. HubInv'
  BY <1>1, <1>8, <1>9 DEF LocalInv, HubInv, ReceiptOfTheMerge
<1>13. OpInv' /\ op' \in {Idle, Closed}
  BY <1>1, <1>7 DEF OpInv, IsClosed, Closed, Idle
<1>14. LoopTypes' /\ Bounded'
  BY <1>1, <1>4, <1>7, <1>10, <1>13 DEF LocalInv, LoopTypes, Bounded
<1> QED
  BY <1>6, <1>11, <1>12, <1>13, <1>14 DEF LocalInv

\* A step that changes nothing.
LEMMA LocalStutters == ASSUME LocalInv, UNCHANGED vars PROVE LocalInv'
<1>1. /\ UNCHANGED local
      /\ UNCHANGED <<remote, prs, opens, receipt>>
  BY DEF vars, github
<1>2. UNCHANGED commits
  BY <1>1 DEF local, worktree
<1>3. HubInv'
  BY <1>1, <1>2, HubKept DEF github
<1> QED
  BY <1>1, <1>3, HubIs, HubStep

\* Every step keeps the invariant.
LEMMA LocalStep == LocalInv /\ [Next]_vars => LocalInv'
<1> SUFFICES ASSUME LocalInv, [Next]_vars PROVE LocalInv'
  OBVIOUS
<1>1. CASE \E t \in Trees : Edit(t) \/ JobWrites(t) \/ SyncBase(t) \/ CanonicalAdvances(t) \/ OthersPush(t)
  BY <1>1, EditKeeps, JobWritesKeeps, SyncBaseKeeps, CanonicalAdvancesKeeps, OthersPushKeeps
<1>2. CASE \E p \in Profiles : Run(p)
  BY <1>2, RunKeeps
<1>3. CASE \E j \in DOMAIN jobs : \/ \E state \in {"passed", "failed"} : ProfileEnds(j, state)
                                  \/ \E lock \in Locks : BootstrapInstalls(j, lock)
                                  \/ BootstrapFails(j) \/ BootstrapCancelledLate(j)
  BY <1>3, ProfileEndsKeeps, BootstrapInstallsKeeps, BootstrapFailsKeeps, BootstrapCancelledLateKeeps
<1>4. CASE CommitAllowed \/ Capture \/ GitCommit \/ Attest
  BY <1>4, CommitAllowedKeeps, CaptureKeeps, GitCommitKeeps, AttestKeeps
<1>5. CASE Push \/ OpenStarts
  BY <1>5, PushKeeps, OpenStartsKeeps
<1>6. CASE \E i \in DOMAIN opens : Found(i) \/ Created(i) \/ LooksAgain(i) \/ Recorded(i)
  BY <1>6, FoundKeeps, CreatedKeeps, LooksAgainKeeps, RecordedKeeps
<1>7. CASE \E n \in DOMAIN prs : \/ \E state \in {"closed", "merged"} : PrEnds(n, state)
                                 \/ ObserveMerged(n)
  BY <1>7, PrEndsKeeps, ObserveMergedKeeps
<1>8. CASE CloseTask \/ ReadBack \/ WriteBack \/ Crash
  BY <1>8, CloseTaskKeeps, ReadBackKeeps, WriteBackKeeps, CrashKeeps
<1>9. CASE UNCHANGED vars
  BY <1>9, LocalStutters
<1> QED
  BY <1>1, <1>2, <1>3, <1>4, <1>5, <1>6, <1>7, <1>8, <1>9 DEF Next

\* The inductive invariant of the local loop.
THEOREM LocalInvariant == Spec => []LocalInv
<1> QED
  BY LocalInit, LocalStep, PTL DEF Spec

-----------------------------------------------------------------------------
(* What the runs check.                                                    *)

\* The handler keeps to the bounds.
LEMMA HandlerIs ==
  ASSUME LocalInv
  PROVE  op \in {Idle, Closed} \cup OpRecord \cup [pc : {"readback"}, pr : DOMAIN prs, head : DOMAIN commits]
<1>1. /\ DOMAIN jobs = 1..Len(jobs) /\ Len(jobs) \in Nat /\ Len(jobs) <= budget.jobs /\ budget.jobs \in Nat
      /\ DOMAIN commits = 1..Len(commits) /\ Len(commits) \in Nat
      /\ Len(commits) <= budget.commits /\ budget.commits \in Nat
  BY LocalLoopAssumption DEF LocalInv, LoopTypes, Bounded
<1>2. CASE op \in AHandler
  <2>1. op.job \in {0} \cup DOMAIN jobs /\ op.commit \in {0} \cup DOMAIN commits
    <3>1. op.pc \in {"capture", "commit", "attest"}
      BY <1>2 DEF AHandler
    <3> QED
      BY <3>1 DEF LocalInv, OpInv
  <2>2. op.job \in JobNumbers /\ op.commit \in CommitNumbers
    BY <1>1, <2>1 DEF JobNumbers, CommitNumbers
  <2> QED
    BY <1>2, <2>2 DEF AHandler, OpRecord
<1>3. CASE op \in AReading
  <2>1. op.pc = "readback" /\ op.pr \in DOMAIN prs /\ op.head \in DOMAIN commits
    BY <1>3 DEF AReading, LocalInv, OpInv
  <2> QED
    BY <1>3, <2>1 DEF AReading
<1> QED
  BY <1>2, <1>3 DEF LocalInv, LoopTypes

\* The types of the run.
LEMMA LoopIsTyped == ASSUME LocalInv PROVE TypeOK
<1>1. /\ DOMAIN jobs = 1..Len(jobs) /\ Len(jobs) \in Nat /\ Len(jobs) <= budget.jobs /\ budget.jobs \in Nat
      /\ DOMAIN commits = 1..Len(commits) /\ Len(commits) \in Nat
      /\ Len(commits) <= budget.commits /\ budget.commits \in Nat
      /\ DOMAIN prs = 1..Len(prs) /\ Len(prs) \in Nat
      /\ Len(prs) <= budget.opens /\ budget.opens \in Nat
  BY LocalLoopAssumption DEF LocalInv, LoopTypes, Bounded
<1>2. commits \in Seq(ACommit) /\ jobs \in Seq(AJob) /\ prs \in Seq(APr) /\ opens \in Seq(AnOpening)
  BY DEF LocalInv, LoopTypes
<1>3. commits \in Seq(CommitRecord)
  <2>1. ASSUME NEW c \in DOMAIN commits PROVE commits[c] \in CommitRecord
    <3>1. commits[c] \in ACommit
      <4> HIDE DEF ACommit
      <4> QED
        BY <1>2
    <3>2. /\ commits[c].parent \in {0} \cup DOMAIN commits /\ commits[c].merged \in {0} \cup DOMAIN commits
          /\ commits[c].trailer \in {0} \cup DOMAIN jobs
      BY DEF LocalInv, BranchInv, VouchInv, Parents
    <3>3. commits[c].parent \in CommitNumbers /\ commits[c].merged \in CommitNumbers
          /\ commits[c].trailer \in JobNumbers
      BY <1>1, <3>2 DEF CommitNumbers, JobNumbers
    <3> QED
      BY <3>1, <3>3 DEF ACommit, CommitRecord
  <2> HIDE DEF ACommit
  <2> QED
    BY <1>2, <2>1, ReadAs
<1>4. jobs \in Seq(JobRecord)
  <2>1. ASSUME NEW j \in DOMAIN jobs PROVE jobs[j] \in JobRecord
    <3>1. PICK r \in AJob : r = jobs[j]
      <4> HIDE DEF AJob
      <4> QED
        BY <1>2
    <3>2. r.head \in DOMAIN commits /\ r.digest.head \in DOMAIN commits
      BY <3>1 DEF LocalInv, JobsInv
    <3>3. r.head \in CommitNumbers /\ r.digest.head \in CommitNumbers
      BY <1>1, <3>2 DEF CommitNumbers
    <3>4. r.digest \in [head : CommitNumbers, tree : Trees]
      BY <3>3 DEF AJob
    <3>5. r \in JobRecord
      BY <3>3, <3>4 DEF AJob, JobRecord
    <3> QED
      BY <3>1, <3>5
  <2> HIDE DEF AJob
  <2> QED
    BY <1>2, <2>1, ReadAs
<1>5. prs \in Seq([state : {"open", "closed", "merged"}, head : {0} \cup DOMAIN commits])
  <2> DEFINE P == [state : {"open", "closed", "merged"}, head : {0} \cup DOMAIN commits]
  <2>1. ASSUME NEW n \in DOMAIN prs PROVE prs[n] \in P
    <3>1. prs[n] \in APr
      <4> HIDE DEF APr
      <4> QED
        BY <1>2
    <3>2. prs[n].head \in {0} \cup DOMAIN commits
      BY DEF LocalInv, HubInv
    <3> QED
      BY <3>1, <3>2 DEF APr
  <2> HIDE DEF APr, P
  <2>2. prs \in Seq(P)
    BY <1>2, <2>1, ReadAs
  <2> QED
    BY <2>2 DEF P
<1>6. opens \in Seq([pc : {"find", "create", "answer", "done"}, head : DOMAIN commits, found : 0..budget.opens])
  <2> DEFINE P == [pc : {"find", "create", "answer", "done"}, head : DOMAIN commits, found : 0..budget.opens]
  <2>1. ASSUME NEW i \in DOMAIN opens PROVE opens[i] \in P
    <3>1. opens[i] \in AnOpening
      <4> HIDE DEF AnOpening
      <4> QED
        BY <1>2
    <3>2. opens[i].found \in {0} \cup DOMAIN prs /\ opens[i].head \in DOMAIN commits
      BY DEF LocalInv, HubInv
    <3>3. opens[i].found \in 0..budget.opens
      BY <1>1, <3>2
    <3> QED
      BY <3>1, <3>2, <3>3 DEF AnOpening
  <2> HIDE DEF AnOpening, P
  <2>2. opens \in Seq(P)
    BY <1>2, <2>1, ReadAs
  <2> QED
    BY <2>2 DEF P
<1>7. attestations \subseteq [job : DOMAIN jobs, commit : DOMAIN commits, raced : BOOLEAN]
  <2>1. attestations \subseteq [job : Nat, commit : Nat, raced : BOOLEAN]
    BY DEF LocalInv, LoopTypes
  <2>2. \A a \in attestations : a.job \in DOMAIN jobs /\ a.commit \in DOMAIN commits
    BY DEF LocalInv, VouchInv
  <2> QED
    BY <2>1, <2>2
<1>8. Cardinality(Running) <= 1
  <2>1. CASE Running = {}
    BY <2>1, FS_EmptySet
  <2>2. CASE Running # {}
    <3>1. PICK j \in Running : TRUE
      BY <2>2
    <3>2. Running = {j}
      BY <3>1 DEF LocalInv, Bounded
    <3>3. Cardinality({j}) = 1
      BY FS_Singleton, Zenon
    <3> QED
      BY <3>2, <3>3
  <2> QED
    BY <2>1, <2>2
<1>9. receipt.pr \in {0} \cup DOMAIN prs
  BY DEF LocalInv, HubInv
<1>10. /\ budget \in Budgets /\ {head, canonical} \subseteq DOMAIN commits /\ tree \in Trees
       /\ required \subseteq Profiles /\ writes \in 0..budget.writes /\ remote \in {0} \cup DOMAIN commits
       /\ modules \in [prepared : Locks \cup {NoLock}, marker : Locks \cup {NoLock}, partial : BOOLEAN]
       /\ cache \in [Locks -> Locks \cup {NoLock}]
  BY DEF LocalInv, LoopTypes
<1>11. op \in {Idle, Closed} \cup OpRecord \cup [pc : {"readback"}, pr : DOMAIN prs, head : DOMAIN commits]
  BY HandlerIs
<1> QED
  BY <1>3, <1>4, <1>5, <1>6, <1>7, <1>8, <1>9, <1>10, <1>11 DEF TypeOK

\* Whatever the bounds, contents, profiles and lockfiles, and however edits, runs, installs,
\* commits, syncs, pushes and deaths of the Gateway interleave: nothing committed or pushed
\* drops out of the branch, and node_modules that carries a marker was installed for it.
THEOREM BranchIsWhole == Spec => []LoopInv
<1>1. LocalInv => LoopInv
  BY LoopIsTyped DEF LocalInv, BranchInv, LoopInv
<1> QED
  BY <1>1, LocalInvariant, PTL

\* A commit vouched for by a profile's run holds what the run was started on (attestation.ts).
THEOREM VouchedWasRun == Spec => []AttestedAsStarted
<1>1. LocalInv => AttestedAsStarted
  BY DEF LocalInv, VouchInv
<1> QED
  BY <1>1, LocalInvariant, PTL

\* A receipt with merge evidence names what GitHub merged (taskPrReceipt.ts).
THEOREM ReceiptIsTrue == Spec => []ReceiptOfTheMerge
<1>1. LocalInv => ReceiptOfTheMerge
  BY DEF LocalInv, HubInv
<1> QED
  BY <1>1, LocalInvariant, PTL

\* A commit that is added is the handler's, of the contents checked out, or nobody's handler runs.
LEMMA WhoCommits ==
  ASSUME LocalInv, [Next]_vars
  PROVE  \/ UNCHANGED commits
         \/ op = Idle
         \/ /\ op.pc = "commit" /\ \A c \in DOMAIN commits' \ DOMAIN commits : commits'[c].tree = tree
         \/ \A c \in DOMAIN commits' \ DOMAIN commits : commits'[c].by = "guest"
<1>1. CASE \E t \in Trees : Edit(t) \/ JobWrites(t) \/ SyncBase(t) \/ CanonicalAdvances(t) \/ OthersPush(t)
  <2>1. CASE \E t \in Trees : Edit(t) \/ JobWrites(t) \/ SyncBase(t) \/ CanonicalAdvances(t)
    BY <2>1 DEF Edit, JobWrites, SyncBase, CanonicalAdvances
  <2>2. ASSUME NEW t \in Trees, OthersPush(t)
        PROVE  \A c \in DOMAIN commits' \ DOMAIN commits : commits'[c].by = "guest"
    <3> DEFINE e == Commit(remote, 0, t, "guest")
               n == Len(commits) + 1
    <3>1. remote \in Nat /\ Len(commits) < budget.commits /\ commits' = Append(commits, e)
      BY <2>2 DEF OthersPush, LocalInv, LoopTypes
    <3>2. e \in ACommit /\ e.by = "guest"
      BY <3>1 DEF Commit, ACommit
    <3> HIDE DEF e
    <3>3. DOMAIN commits' = DOMAIN commits \cup {n} /\ commits'[n] = e
      BY <3>1, <3>2, CommitsGrow
    <3> HIDE DEF n
    <3> QED
      BY <3>2, <3>3
  <2> QED
    BY <1>1, <2>1, <2>2
<1>2. CASE \E p \in Profiles : Run(p)
  BY <1>2 DEF Run
<1>3. CASE \E j \in DOMAIN jobs : \/ \E state \in {"passed", "failed"} : ProfileEnds(j, state)
                                  \/ \E lock \in Locks : BootstrapInstalls(j, lock)
                                  \/ BootstrapFails(j) \/ BootstrapCancelledLate(j)
  BY <1>3 DEF ProfileEnds, BootstrapInstalls, BootstrapFails, BootstrapCancelledLate
<1>4. CASE CommitAllowed \/ Capture \/ Attest \/ CloseTask \/ ReadBack \/ WriteBack \/ Crash
  BY <1>4 DEF CommitAllowed, Capture, Attest, CloseTask, ReadBack, WriteBack, Crash, worktree
<1>5. CASE GitCommit
  <2>1. CASE Clean
    BY <1>5, <2>1 DEF GitCommit, worktree
  <2>2. CASE ~Clean
    <3> DEFINE e == [Commit(head, 0, tree, "task") EXCEPT !.trailer = op.job, !.raced = op.raced]
               n == Len(commits) + 1
    <3>1. op.pc = "commit" /\ op # Idle /\ Len(commits) < budget.commits /\ commits' = Append(commits, e)
      BY <1>5, <2>2 DEF GitCommit
    <3>2. op \in AHandler
      BY <3>1 DEF LocalInv, LoopTypes, Idle, Closed, AReading
    <3>3. op.job \in Nat /\ op.raced \in BOOLEAN /\ head \in Nat /\ tree \in Trees
      BY <3>2 DEF AHandler, LocalInv, LoopTypes
    <3>4. e \in ACommit /\ e.tree = tree
      BY <3>3 DEF Commit, ACommit
    <3> HIDE DEF e
    <3>5. DOMAIN commits' = DOMAIN commits \cup {n} /\ commits'[n] = e
      BY <3>1, <3>4, CommitsGrow
    <3> HIDE DEF n
    <3> QED
      BY <3>1, <3>4, <3>5
  <2> QED
    BY <2>1, <2>2
<1>6. CASE Push \/ OpenStarts
  BY <1>6 DEF Push, OpenStarts, local, worktree
<1>7. CASE \E i \in DOMAIN opens : Found(i) \/ Created(i) \/ LooksAgain(i) \/ Recorded(i)
  BY <1>7 DEF Found, Created, LooksAgain, Recorded, local, worktree
<1>8. CASE \E n \in DOMAIN prs : \/ \E state \in {"closed", "merged"} : PrEnds(n, state)
                                 \/ ObserveMerged(n)
  BY <1>8 DEF PrEnds, ObserveMerged, local, worktree
<1>9. CASE UNCHANGED vars
  BY <1>9 DEF vars, local, worktree
<1> QED
  BY <1>1, <1>2, <1>3, <1>4, <1>5, <1>6, <1>7, <1>8, <1>9 DEF Next

\* A commit by the tool was preceded by a passing run of every required profile, started on
\* the same HEAD with the contents that are committed (commitPolicy.ts).
THEOREM GreenWasRun == Spec => RequiredGreen
<1>1. LocalInv /\ [Next]_vars =>
        [ \A c \in DOMAIN commits' \ DOMAIN commits :
            (commits'[c].by = "task" /\ op # Idle /\ ~op.raced) =>
              \A p \in required : \E j \in DOMAIN jobs :
                /\ jobs[j].profile = p /\ Passed(j)
                /\ jobs[j].head = head /\ jobs[j].tree = commits'[c].tree ]_vars
  <2> SUFFICES ASSUME LocalInv, [Next]_vars, NEW c \in DOMAIN commits' \ DOMAIN commits,
                      commits'[c].by = "task", op # Idle, ~op.raced, NEW p \in required
               PROVE  \E j \in DOMAIN jobs : /\ jobs[j].profile = p /\ Passed(j)
                                             /\ jobs[j].head = head /\ jobs[j].tree = commits'[c].tree
    OBVIOUS
  <2>1. op.pc = "commit" /\ commits'[c].tree = tree
    BY WhoCommits
  <2> QED
    BY <2>1 DEF LocalInv, OpInv
<1> QED
  BY <1>1, LocalInvariant, PTL DEF Spec, RequiredGreen

-----------------------------------------------------------------------------
(* The repo write lock (RepoLock).                                         *)

Files ==
  {NoFile} \cup [state : {"empty", "whole"}, pid : Procs \X (1..MaxLife), nonce : 1..MaxCalls]

Holding == {"critical", "release", "unlock"}

\* The file is the one this process made, at the stage its own steps left it.
Holds(p) ==
  /\ pc[p] = "write" => file = Lock(p, "empty")
  /\ pc[p] \in Holding => file = Lock(p, "whole")

\* A process id that no living process of ours has, nor will have again.
Dead(pid) == \A q \in Procs : pid = <<q, life[q]>> => ~Live(q)

Past(pid) == \A q \in Procs : pid[1] = q => pid[2] <= life[q]

Typed ==
  /\ pc \in [Procs -> Labels]
  /\ queue \in [Procs -> Seq(1..MaxCalls)]
  /\ seen \in [Procs -> Files]
  /\ retried \in [Procs -> BOOLEAN]
  /\ file \in Files
  /\ life \in [Procs -> 1..MaxLife]
  /\ calls \in 0..MaxCalls
  /\ raced \in BOOLEAN
  /\ \A p \in Procs : (pc[p] = "dead" <=> ~Live(p)) /\ (pc[p] \notin {"idle", "dead"} => queue[p] # <<>>)

Recovering ==
  \A p \in Procs : pc[p] \in {"reread", "unlink"} =>
    seen[p] # NoFile /\ Past(seen[p].pid) /\ Dead(seen[p].pid)

FilePast == file # NoFile => Past(file.pid)

Owners == raced \/ \A p \in Procs : Holds(p)

\* What a recovery has read stays the lock of a dead process, and what a process has made stays
\* its own: the inductive invariant.
LInv == Typed /\ Recovering /\ FilePast /\ Owners

-----------------------------------------------------------------------------
\* The lock a process would make is a file, and names a process of this life.
LEMMA LockTyped ==
  ASSUME Typed, NEW p \in Procs, queue[p] # <<>>, NEW s \in {"empty", "whole"}
  PROVE  /\ Lock(p, s) \in Files /\ Lock(p, s) # NoFile /\ Lock(p, s).state = s
         /\ Lock(p, s).pid = <<p, life[p]>> /\ Past(Lock(p, s).pid)
<1>1. Head(queue[p]) \in 1..MaxCalls
  BY HeadTailProperties DEF Typed
<1> QED
  BY <1>1 DEF Lock, Files, NoFile, Typed, Past

\* A file that is not there is NoFile; any other is empty or whole.
LEMMA FileStates ==
  ASSUME NEW f \in Files
  PROVE  /\ f.state = "none" <=> f = NoFile
         /\ f # NoFile => f.state \in {"empty", "whole"} /\ f.pid \in Procs \X (1..MaxLife)
  BY DEF Files, NoFile

\* Leaving takes the head off the queue.
LEMMA LeaveTyped ==
  ASSUME Typed, NEW p \in Procs, queue[p] # <<>>, Leave(p)
  PROVE  /\ queue' \in [Procs -> Seq(1..MaxCalls)]
         /\ pc' \in [Procs -> Labels] /\ pc'[p] = "idle"
         /\ \A q \in Procs \ {p} : queue'[q] = queue[q] /\ pc'[q] = pc[q]
<1>1. Tail(queue[p]) \in Seq(1..MaxCalls)
  BY HeadTailProperties DEF Typed
<1> QED
  BY <1>1 DEF Leave, Goto, Typed, Labels

\* A process at work is alive, so that a lock judged dead is not its own.
LEMMA HolderLives ==
  ASSUME Typed, NEW p \in Procs, pc[p] # "dead", NEW pid, Dead(pid)
  PROVE  pid # <<p, life[p]>>
  BY DEF Typed, Dead

-----------------------------------------------------------------------------
(* One lemma per step.                                                      *)

\* A call that queues up behind others leaves the head of the queue, and with it the lock, alone.
LEMMA EnqueueKeeps ==
  ASSUME LInv, NEW p \in Procs, Enqueue(p)
  PROVE  LInv'
<1>1. /\ queue' = [queue EXCEPT ![p] = Append(@, calls + 1)] /\ calls' = calls + 1 /\ calls < MaxCalls
      /\ UNCHANGED <<pc, seen, retried, file, raced, life, pids>>
  BY DEF Enqueue, world
<1>2. queue'[p] \in Seq(1..MaxCalls) /\ queue'[p] # <<>>
      /\ (queue[p] # <<>> => Head(queue'[p]) = Head(queue[p]))
  <2>1. calls + 1 \in 1..MaxCalls /\ queue[p] \in Seq(1..MaxCalls) /\ queue'[p] = Append(queue[p], calls + 1)
    BY <1>1, LockAssumption DEF LInv, Typed
  <2> QED
    BY <2>1, AppendProperties
<1>3. \A q \in Procs \ {p} : queue'[q] = queue[q]
  BY <1>1 DEF LInv, Typed
<1>4. Typed'
  BY <1>1, <1>2, <1>3, LockAssumption DEF LInv, Typed, Live
<1>5. Recovering' /\ FilePast'
  BY <1>1 DEF LInv, Recovering, FilePast, Past, Dead, Live
<1>6. \A q \in Procs : pc[q] \notin {"idle", "dead"} => Head(queue'[q]) = Head(queue[q])
  BY <1>2, <1>3 DEF LInv, Typed
<1>7. Owners'
  BY <1>1, <1>6 DEF LInv, Owners, Holds, Holding, Lock
<1> QED
  BY <1>4, <1>5, <1>7 DEF LInv

\* The steps of a head that leave the file as it is and hold it no longer than before.
Walks(p) ==
  \/ Begin(p) \/ Exists(p) \/ Reread(p) \/ Finish(p) \/ Release(p)

\* Those steps keep the invariant.
LEMMA WalksKeeps ==
  ASSUME LInv, NEW p \in Procs, Walks(p)
  PROVE  LInv'
<1>1. /\ UNCHANGED <<seen, file, calls, raced, life, pids>>
      /\ retried' \in [Procs -> BOOLEAN]
      /\ pc[p] \notin {"idle", "dead"} => queue[p] # <<>>
  BY DEF LInv, Typed, Walks, Begin, Exists, Reread, Finish, Release, world
<1>2. /\ queue' \in [Procs -> Seq(1..MaxCalls)] /\ pc' \in [Procs -> Labels]
      /\ \A q \in Procs \ {p} : queue'[q] = queue[q] /\ pc'[q] = pc[q]
      /\ pc'[p] \in {"create", "read", "unlink", "release", "unlock"} => queue'[p] = queue[p] /\ queue[p] # <<>>
      /\ pc'[p] \in {"create", "read", "unlink", "release", "unlock", "idle"}
      /\ pc'[p] = "unlink" => pc[p] = "reread"
      /\ pc'[p] \in Holding => pc[p] \in Holding
      /\ pc[p] # "dead"
  <2>1. CASE Leave(p) /\ pc[p] \in {"reread", "release"}
    BY <1>1, <2>1, LeaveTyped DEF LInv, Holding
  <2>2. CASE UNCHANGED queue
    BY <2>2, <1>1 DEF LInv, Typed, Walks, Begin, Exists, Reread, Finish, Release, Goto, Labels, Holding, Leave
  <2> QED
    BY <2>1, <2>2 DEF Walks, Begin, Exists, Reread, Finish, Release
<1>3. Typed'
  BY <1>1, <1>2 DEF LInv, Typed, Live
<1>4. Recovering' /\ FilePast'
  BY <1>1, <1>2 DEF LInv, Recovering, FilePast, Past, Dead, Live
<1>5. Owners'
  BY <1>1, <1>2 DEF LInv, Owners, Holds, Holding, Lock
<1> QED
  BY <1>3, <1>4, <1>5 DEF LInv

\* Creation is exclusive: nobody held a file, and now the creator does.
LEMMA CreateKeeps ==
  ASSUME LInv, NEW p \in Procs, Create(p)
  PROVE  LInv'
<1>1. /\ pc[p] = "create" /\ queue[p] # <<>> /\ file = NoFile
      /\ file' = Lock(p, "empty") /\ pc' = [pc EXCEPT ![p] = "write"]
      /\ UNCHANGED <<queue, seen, retried, calls, raced, life, pids>>
  BY FileStates DEF LInv, Typed, Create, Goto, world
<1>2. file' \in Files /\ Past(file'.pid)
  BY <1>1, LockTyped DEF LInv
<1>3. Typed'
  BY <1>1, <1>2 DEF LInv, Typed, Live, Labels
<1>4. Recovering' /\ FilePast'
  BY <1>1, <1>2 DEF LInv, Typed, Recovering, FilePast, Past, Dead, Live
<1>5. ASSUME ~raced, NEW q \in Procs PROVE Holds(q)'
  <2>1. CASE q = p
    BY <1>1, <2>1 DEF LInv, Typed, Holds, Holding, Lock
  <2>2. CASE q # p
    <3>1. pc[q] \notin Holding /\ pc[q] # "write"
      <4>1. ASSUME pc[q] \in Holding \cup {"write"} PROVE FALSE
        <5>1. queue[q] # <<>>
          BY <4>1 DEF LInv, Typed, Holding
        <5>2. Lock(q, "empty") # NoFile /\ Lock(q, "whole") # NoFile
          BY <5>1, LockTyped DEF LInv
        <5> QED
          BY <1>1, <1>5, <4>1, <5>2 DEF LInv, Owners, Holds
      <4> QED
        BY <4>1
    <3> QED
      BY <1>1, <2>2, <3>1 DEF LInv, Typed, Holds
  <2> QED
    BY <2>1, <2>2
<1>6. Owners'
  BY <1>1, <1>5 DEF Owners
<1> QED
  BY <1>3, <1>4, <1>6 DEF LInv

\* Two processes at work never hold one file.
LEMMA OneHolder ==
  ASSUME LInv, ~raced, NEW p \in Procs, NEW q \in Procs,
         pc[p] \in Holding \cup {"write"}, pc[q] \in Holding \cup {"write"}
  PROVE  p = q
<1>1. queue[p] # <<>> /\ queue[q] # <<>>
  BY DEF LInv, Typed, Holding
<1>2. \A s \in {"empty", "whole"} :
        Lock(p, s).pid = <<p, life[p]>> /\ Lock(q, s).pid = <<q, life[q]>>
  BY <1>1, LockTyped DEF LInv
<1>3. file.pid = <<p, life[p]>> /\ file.pid = <<q, life[q]>>
  BY <1>2 DEF LInv, Owners, Holds
<1> QED
  BY <1>3

\* The content is written to the file this process made, unless somebody removed it.
LEMMA WriteKeeps ==
  ASSUME LInv, NEW p \in Procs, Write(p)
  PROVE  LInv'
<1>1. /\ pc[p] = "write" /\ queue[p] # <<>>
      /\ file' = IF file = Lock(p, "empty") THEN Lock(p, "whole") ELSE file
      /\ pc' = [pc EXCEPT ![p] = "critical"]
      /\ UNCHANGED <<queue, seen, retried, calls, raced, life, pids>>
  BY DEF LInv, Typed, Write, Goto, world
<1>2. file' \in Files /\ (file' # NoFile => Past(file'.pid))
  BY <1>1, LockTyped DEF LInv, Typed, FilePast
<1>3. Typed'
  BY <1>1, <1>2 DEF LInv, Typed, Live, Labels
<1>4. Recovering' /\ FilePast'
  BY <1>1, <1>2 DEF LInv, Typed, Recovering, FilePast, Past, Dead, Live
<1>5. ASSUME ~raced, NEW q \in Procs PROVE Holds(q)'
  <2>1. CASE q = p
    BY <1>1, <1>5, <2>1 DEF LInv, Typed, Owners, Holds, Holding, Lock
  <2>2. CASE q # p
    <3>1. pc[q] \notin Holding \cup {"write"}
      BY <1>1, <1>5, <2>2, OneHolder DEF Holding
    <3> QED
      BY <1>1, <2>2, <3>1 DEF LInv, Typed, Holds
  <2> QED
    BY <2>1, <2>2
<1>6. Owners'
  BY <1>1, <1>5 DEF Owners
<1> QED
  BY <1>3, <1>4, <1>6 DEF LInv

\* Only the lock of a dead process is taken for stale.
LEMMA ReadKeeps ==
  ASSUME LInv, NEW p \in Procs, Read(p)
  PROVE  LInv'
<1>1. /\ pc[p] = "read" /\ queue[p] # <<>>
      /\ UNCHANGED <<retried, file, calls, raced, life, pids>>
  BY DEF LInv, Typed, Read, world
<1>2. CASE Stale(p)
  <2>1. seen' = [seen EXCEPT ![p] = file] /\ pc' = [pc EXCEPT ![p] = "reread"] /\ UNCHANGED queue
    BY <1>2 DEF Read, Goto
  <2>2. file # NoFile /\ Past(file.pid) /\ Dead(file.pid)
    BY <1>2, FileStates DEF LInv, Typed, FilePast, Stale, Dead, Live
  <2>3. Typed'
    BY <1>1, <2>1 DEF LInv, Typed, Live, Labels
  <2>4. Recovering' /\ FilePast'
    BY <1>1, <2>1, <2>2 DEF LInv, Typed, Recovering, FilePast, Past, Dead, Live
  <2>5. Owners'
    BY <1>1, <2>1 DEF LInv, Typed, Owners, Holds, Holding, Lock
  <2> QED
    BY <2>3, <2>4, <2>5 DEF LInv
<1>3. CASE ~Stale(p)
  <2>1. Leave(p) /\ UNCHANGED seen
    BY <1>3 DEF Read
  <2>2. /\ queue' \in [Procs -> Seq(1..MaxCalls)] /\ pc' \in [Procs -> Labels] /\ pc'[p] = "idle"
        /\ \A q \in Procs \ {p} : queue'[q] = queue[q] /\ pc'[q] = pc[q]
    BY <1>1, <2>1, LeaveTyped DEF LInv
  <2>3. Typed'
    BY <1>1, <2>1, <2>2 DEF LInv, Typed, Live
  <2>4. Recovering' /\ FilePast'
    BY <1>1, <2>1, <2>2 DEF LInv, Recovering, FilePast, Past, Dead, Live
  <2>5. Owners'
    BY <1>1, <2>1, <2>2 DEF LInv, Owners, Holds, Holding, Lock
  <2> QED
    BY <2>3, <2>4, <2>5 DEF LInv
<1> QED
  BY <1>2, <1>3

\* A recovery that removes what it read removes nobody's lock; another removal is the race.
LEMMA UnlinkKeeps ==
  ASSUME LInv, NEW p \in Procs, Unlink(p)
  PROVE  LInv'
<1>1. /\ pc[p] = "unlink" /\ queue[p] # <<>>
      /\ UNCHANGED <<seen, calls, life, pids>>
  BY DEF LInv, Typed, Unlink, world
<1>2. CASE file.state = "none"
  <2>1. Leave(p) /\ UNCHANGED <<file, retried, raced>>
    BY <1>2 DEF Unlink
  <2>2. /\ queue' \in [Procs -> Seq(1..MaxCalls)] /\ pc' \in [Procs -> Labels] /\ pc'[p] = "idle"
        /\ \A q \in Procs \ {p} : queue'[q] = queue[q] /\ pc'[q] = pc[q]
    BY <1>1, <2>1, LeaveTyped DEF LInv
  <2>3. Typed'
    BY <1>1, <2>1, <2>2 DEF LInv, Typed, Live
  <2>4. Recovering' /\ FilePast'
    BY <1>1, <2>1, <2>2 DEF LInv, Recovering, FilePast, Past, Dead, Live
  <2>5. Owners'
    BY <1>1, <2>1, <2>2 DEF LInv, Owners, Holds, Holding, Lock
  <2> QED
    BY <2>3, <2>4, <2>5 DEF LInv
<1>3. CASE file.state # "none"
  <2>1. /\ file' = NoFile /\ raced' = (raced \/ file # seen[p])
        /\ retried' = [retried EXCEPT ![p] = TRUE] /\ pc' = [pc EXCEPT ![p] = "create"]
        /\ UNCHANGED queue
    BY <1>3 DEF Unlink, Goto
  <2>2. Typed'
    <3>1. raced' \in BOOLEAN /\ file' \in Files /\ retried' \in [Procs -> BOOLEAN]
      BY <2>1 DEF LInv, Typed, Files
    <3> QED
      BY <1>1, <2>1, <3>1 DEF LInv, Typed, Live, Labels
  <2>3. Recovering' /\ FilePast'
    BY <1>1, <2>1 DEF LInv, Typed, Recovering, FilePast, Past, Dead, Live
  <2>4. ASSUME ~raced' PROVE \A q \in Procs : pc[q] \notin Holding \cup {"write"}
    <3>1. ~raced /\ Dead(file.pid)
      BY <1>1, <2>1, <2>4 DEF LInv, Recovering
    <3>2. ASSUME NEW q \in Procs, pc[q] \in Holding \cup {"write"} PROVE FALSE
      <4>1. queue[q] # <<>> /\ pc[q] # "dead"
        BY <3>2 DEF LInv, Typed, Holding
      <4>2. file.pid = <<q, life[q]>>
        BY <3>1, <3>2, <4>1, LockTyped DEF LInv, Owners, Holds
      <4> QED
        BY <3>1, <4>1, <4>2, HolderLives DEF LInv
    <3> QED
      BY <3>2
  <2>5. Owners'
    <3> SUFFICES ASSUME ~raced', NEW q \in Procs PROVE Holds(q)'
      BY DEF Owners
    <3>1. pc'[q] \notin Holding \cup {"write"}
      BY <2>1, <2>4 DEF LInv, Typed, Holding
    <3> QED
      BY <3>1 DEF Holds
  <2> QED
    BY <2>2, <2>3, <2>5 DEF LInv
<1> QED
  BY <1>2, <1>3

\* The owner removes its lock and is no longer a holder; nobody else was one.
LEMMA UnlockKeeps ==
  ASSUME LInv, NEW p \in Procs, Unlock(p)
  PROVE  LInv'
<1>1. /\ pc[p] = "unlock" /\ queue[p] # <<>> /\ file' = NoFile /\ Leave(p)
      /\ UNCHANGED <<seen, retried, calls, raced, life, pids>>
  BY DEF LInv, Typed, Unlock, world
<1>2. /\ queue' \in [Procs -> Seq(1..MaxCalls)] /\ pc' \in [Procs -> Labels] /\ pc'[p] = "idle"
      /\ \A q \in Procs \ {p} : queue'[q] = queue[q] /\ pc'[q] = pc[q]
  BY <1>1, LeaveTyped DEF LInv
<1>3. Typed'
  <2>1. file' \in Files
    BY <1>1 DEF Files
  <2> QED
    BY <1>1, <1>2, <2>1 DEF LInv, Typed, Live
<1>4. Recovering' /\ FilePast'
  BY <1>1, <1>2 DEF LInv, Recovering, FilePast, Past, Dead, Live
<1>5. Owners'
  <2> SUFFICES ASSUME ~raced', NEW q \in Procs PROVE Holds(q)'
    BY DEF Owners
  <2>1. q # p => pc[q] \notin Holding \cup {"write"}
    BY <1>1, OneHolder DEF Holding
  <2> QED
    BY <1>2, <2>1 DEF Holds, Holding
<1> QED
  BY <1>3, <1>4, <1>5 DEF LInv

-----------------------------------------------------------------------------
(* Deaths, starts and recycled ids.                                         *)

\* A process that dies leaves its lock file behind as the lock of a dead process.
LEMMA DieKeeps ==
  ASSUME LInv, NEW p \in Procs, Die(p)
  PROVE  LInv'
<1>1. /\ pids' = pids \ {<<p, life[p]>>} /\ pc' = [pc EXCEPT ![p] = "dead"]
      /\ queue' = [queue EXCEPT ![p] = <<>>]
      /\ UNCHANGED <<seen, retried, file, life, calls, raced>>
  BY DEF Die, Goto
<1>2. Typed'
  <2>1. queue' \in [Procs -> Seq(1..MaxCalls)]
    BY <1>1, EmptySeq DEF LInv, Typed
  <2>2. \A q \in Procs : Live(q)' <=> (Live(q) /\ q # p)
    BY <1>1 DEF Live
  <2> QED
    BY <1>1, <2>1, <2>2 DEF LInv, Typed, Labels
<1>3. Recovering' /\ FilePast'
  BY <1>1 DEF LInv, Typed, Recovering, FilePast, Past, Dead, Live
<1>4. Owners'
  BY <1>1 DEF LInv, Typed, Owners, Holds, Holding, Lock
<1> QED
  BY <1>2, <1>3, <1>4 DEF LInv

\* A new life has an id no lock bears yet.
LEMMA StartKeeps ==
  ASSUME LInv, NEW p \in Procs, Start(p)
  PROVE  LInv'
<1>1. /\ ~Live(p) /\ life[p] < MaxLife /\ life' = [life EXCEPT ![p] = @ + 1]
      /\ pids' = pids \cup {<<p, life[p] + 1>>} /\ pc' = [pc EXCEPT ![p] = "idle"]
      /\ UNCHANGED <<queue, seen, retried, file, calls, raced>>
  BY DEF Start, Goto
<1>2. /\ life[p] \in 1..MaxLife /\ life'[p] = life[p] + 1
      /\ \A q \in Procs \ {p} : life'[q] = life[q]
  BY <1>1 DEF LInv, Typed
<1>3. \A q \in Procs : Live(q)' <=> (Live(q) \/ q = p)
  BY <1>1, <1>2 DEF Live
<1>4. Typed'
  <2>1. life' \in [Procs -> 1..MaxLife]
    BY <1>1, <1>2, LockAssumption DEF LInv, Typed
  <2> QED
    BY <1>1, <1>3, <2>1 DEF LInv, Typed, Labels
<1>5. ASSUME NEW f \in Files, f # NoFile, Past(f.pid)
      PROVE  Past(f.pid)' /\ (Dead(f.pid) => Dead(f.pid)')
  <2>1. ASSUME NEW q \in Procs PROVE life[q] \in Nat /\ life'[q] >= life[q]
    <3>1. life[q] \in 1..MaxLife
      BY DEF LInv, Typed
    <3>2. CASE q = p
      BY <1>2, <3>1, <3>2
    <3>3. CASE q # p
      BY <1>2, <3>1, <3>3
    <3> QED
      BY <3>2, <3>3
  <2>2. f.pid \in Procs \X (1..MaxLife)
    BY <1>5, FileStates
  <2>3. f.pid # <<p, life'[p]>>
    BY <1>2, <1>5, <2>2 DEF Past
  <2> QED
    BY <1>1, <1>2, <1>3, <1>5, <2>1, <2>2, <2>3 DEF Past, Dead
<1>6. Recovering' /\ FilePast'
  BY <1>1, <1>5 DEF LInv, Typed, Recovering, FilePast
<1>7. Owners'
  BY <1>1, <1>2 DEF LInv, Typed, Owners, Holds, Holding, Lock
<1> QED
  BY <1>4, <1>6, <1>7 DEF LInv

\* Another program may get the id of an earlier life, which no process of ours has.
LEMMA RecycledKeeps ==
  ASSUME LInv, Recycled
  PROVE  LInv'
<1>1. /\ file # NoFile /\ pids' = pids \cup {file.pid}
      /\ UNCHANGED <<queue, pc, seen, retried, file, life, calls, raced>>
  BY FileStates DEF LInv, Typed, Recycled
<1>2. \A q \in Procs : file.pid # <<q, life[q]>>
  BY DEF Recycled, LInv, Typed
<1>3. \A q \in Procs : Live(q)' <=> Live(q)
  BY <1>1, <1>2 DEF Live
<1>4. Typed'
  BY <1>1, <1>3 DEF LInv, Typed
<1>5. Recovering' /\ FilePast'
  BY <1>1, <1>3 DEF LInv, Recovering, FilePast, Past, Dead
<1>6. Owners'
  BY <1>1 DEF LInv, Owners, Holds, Lock
<1> QED
  BY <1>4, <1>5, <1>6 DEF LInv

-----------------------------------------------------------------------------
(* The theorems.                                                            *)

\* At the start there is no lock file, and nobody is at work.
LEMMA LockInvInit == LockInit => LInv
<1> SUFFICES ASSUME LockInit PROVE LInv
  OBVIOUS
<1>1. Typed
  <2>1. pc \in [Procs -> Labels] /\ seen \in [Procs -> Files] /\ retried \in [Procs -> BOOLEAN]
        /\ file \in Files /\ raced \in BOOLEAN
    BY DEF LockInit, Files, Labels
  <2>2. queue \in [Procs -> Seq(1..MaxCalls)]
    <3>1. <<>> \in Seq(1..MaxCalls)
      BY EmptySeq
    <3> QED
      BY <3>1 DEF LockInit
  <2>3. life \in [Procs -> 1..MaxLife] /\ calls \in 0..MaxCalls
    BY LockAssumption DEF LockInit
  <2>4. \A p \in Procs : Live(p) /\ pc[p] = "idle"
    BY DEF LockInit, Live
  <2> QED
    BY <2>1, <2>2, <2>3, <2>4 DEF Typed
<1>2. Recovering /\ FilePast /\ Owners
  BY DEF LockInit, Recovering, FilePast, Owners, Holds, Holding
<1> QED
  BY <1>1, <1>2 DEF LInv

\* Every step of the lock keeps the invariant.
LEMMA LockStep == LInv /\ [LockNext]_lvars => LInv'
<1> SUFFICES ASSUME LInv, [LockNext]_lvars PROVE LInv'
  OBVIOUS
<1>1. ASSUME NEW p \in Procs, Enqueue(p) \/ HeadSteps(p) \/ Die(p) \/ Start(p)
      PROVE  LInv'
  BY <1>1, EnqueueKeeps, WalksKeeps, CreateKeeps, WriteKeeps, ReadKeeps, UnlinkKeeps, UnlockKeeps,
     DieKeeps, StartKeeps DEF HeadSteps, Walks
<1>2. CASE Recycled
  BY <1>2, RecycledKeeps
<1>3. CASE UNCHANGED lvars
  <2>1. UNCHANGED <<queue, pc, seen, retried, file, life, pids, calls, raced>>
    BY <1>3 DEF lvars
  <2>2. Typed'
    BY <2>1 DEF LInv, Typed, Live
  <2>3. Recovering' /\ FilePast' /\ Owners'
    BY <2>1 DEF LInv, Recovering, FilePast, Owners, Past, Dead, Live, Holds, Lock
  <2> QED
    BY <2>2, <2>3 DEF LInv
<1> QED
  BY <1>1, <1>2, <1>3 DEF LockNext

\* Owners of one file are one process.
LEMMA LockMeaning == LInv => LockInv
<1> SUFFICES ASSUME LInv PROVE LockInv
  OBVIOUS
<1>1. LockTypeOK
  BY FileStates, LockAssumption DEF LInv, Typed, LockTypeOK, NoFile
<1>2. WriterHoldsFile
  BY DEF LInv, Owners, Holds, Holding, WriterHoldsFile
<1>3. ASSUME ~raced PROVE Cardinality(Writers) <= 1
  <2>1. CASE Writers = {}
    BY <2>1, FS_EmptySet
  <2>2. CASE Writers # {}
    <3>1. PICK p \in Procs : p \in Writers
      BY <2>2 DEF Writers
    <3>2. Writers = {p}
      BY <1>3, <3>1, OneHolder DEF Writers, Holding
    <3>3. Cardinality({p}) = 1
      BY FS_Singleton, Zenon
    <3> QED
      BY <3>2, <3>3
  <2> QED
    BY <2>1, <2>2
<1> QED
  BY <1>1, <1>2, <1>3 DEF LockInv, OneWriter

\* At most one process writes to the repository, and its lock file stays until it removes it,
\* for any number of processes, calls, deaths and recycled ids, unless a recovery removed a
\* file other than the one it had read (withRepoWriteLock, acquireRepoProcessLock).
THEOREM OneWriterAlways == LockSpec => []LockInv
<1> QED
  BY LockInvInit, LockStep, LockMeaning, PTL DEF LockSpec
=============================================================================
