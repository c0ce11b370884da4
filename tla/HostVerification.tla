-------------------------- MODULE HostVerification --------------------------
(***************************************************************************)
(* Verification of a pull request's head on the host: the gate of          *)
(* grande_pr_merge (prLifecycle.ts, prHostVerification.ts), the one-shot   *)
(* verifier it starts (hostVerifier.ts, hostVerifierLauncher.ts,           *)
(* hostVerifierRuntime.ts), the operator's grande outer-test (cli.ts), the *)
(* receipts (outerTestReceipt.ts), the recovery at start-up                *)
(* (hostVerifierRecovery.ts) and the status (hostVerifierStatus.ts).       *)
(*                                                                         *)
(* One task with an open pull request.  Commits are numbered; the process  *)
(* side of a verifier job is JobSupervision's.                             *)
(***************************************************************************)
EXTENDS HostPlan, Integers, Sequences

CONSTANTS
  Modes,          \* hostVerification.mode: "auto", "manual"
  Changes,        \* sets of kinds of files a commit can differ from the base in
  Budgets         \* bounds of one history, by event

Events == {"commits", "reds", "infras", "cancels", "crashes", "humans", "upgrades"}

ASSUME VerificationAssumption ==
  /\ Modes \subseteq {"auto", "manual"} /\ Changes \subseteq SUBSET ChangeKinds
  /\ Budgets \subseteq [Events -> Nat]

VARIABLES
  left,           \* what is left of the bounds
  mode,           \* activation of the automatic verifier
  policy,         \* HOST_VERIFIER_POLICY_VERSION of the running build
  changed,        \* files changed from the base to each commit
  attested,       \* commits that grande_commit attested; one made by hand is not
  dirty,          \* uncommitted work in the task's worktree
  prHead,         \* head of the pull request on GitHub
  up,             \* the Gateway runs
  jobs,           \* host-verifier rows, oldest first
  receipt,        \* outer_test_receipt of the task
  suite,          \* commit the operator's full suite runs on, 0 when none
  disturbed,      \* somebody wrote in the worktree since that suite began
  merged,         \* commit the gate let through, 0 when none
  proved,         \* what really passed: commit, files, policy, and whether the tree it
                  \* ran in was nobody else's the whole time
  tries           \* results of automatic runs on a commit, in a row: since one that passed,
                  \* was cancelled, or a person took the commit up

world == <<mode, changed, attested, dirty, prHead, disturbed>>
vars == <<left, policy, up, jobs, receipt, suite, merged, proved, tries, world>>

TaskTip == Len(changed)      \* HEAD of the task's worktree
PlanOf(c) == Plan(changed[c])
NoReceipt == [version |-> 0, commit |-> 0]
Ended(j) == jobs[j].pc \in {"persist", "done"}
Busy == \E j \in DOMAIN jobs : ~Ended(j)

Init ==
  /\ left \in Budgets /\ mode \in Modes
  /\ policy = 1 /\ changed \in {<<c>> : c \in Changes} /\ attested = {1}
  /\ dirty = FALSE /\ prHead = 1 /\ disturbed = FALSE
  /\ up = TRUE /\ jobs = <<>> /\ receipt = NoReceipt /\ suite = 0 /\ merged = 0
  /\ proved = {} /\ tries = <<<<>>>>

Spend(what) == left[what] > 0 /\ left' = [left EXCEPT ![what] = @ - 1]

-----------------------------------------------------------------------------
(* What the rows say of a commit (prHostVerification.ts).                  *)

FailureClass_NoStale(j) ==
  IF jobs[j].result \in {"candidate", "infrastructure"} THEN jobs[j].result ELSE "none"

\* jobFailureClass.  A run that passed or was cancelled is no failure.
FailureClass(j) ==
  CASE jobs[j].result = "stale" -> "integrity"
    [] jobs[j].result \in {"candidate", "infrastructure"} -> jobs[j].result
    [] OTHER -> "none"

\* Runs on a commit, and the newest of some runs.
RunsOn(c) == {j \in DOMAIN jobs : jobs[j].commit = c}
Newest(runs) == CHOOSE j \in runs : \A k \in runs : k <= j

\* Failures of the machinery in a row, counted from the newest run.
InfraTail(c) ==
  {j \in RunsOn(c) : \A k \in RunsOn(c) : k >= j => FailureClass(k) = "infrastructure"}
InfraFailures(c) == Cardinality(InfraTail(c))

\* latestMatchingAttempt.
Attempt(c) ==
  LET newest == Newest(RunsOn(c)) IN
    IF RunsOn(c) = {} THEN "none"
    ELSE IF ~Ended(newest) THEN "running" ELSE FailureClass(newest)

\* v2MatchesTrustedJob: the row the receipt names, against the running build's plan.
MatchesTrustedJob(c) ==
  LET j == receipt.job IN
    /\ jobs[j].result = "passed" /\ Sufficient(jobs[j].level, PlanOf(c).level)
    /\ jobs[j].policy = policy
    /\ IF PlanOf(c).manualOnly
       THEN receipt.mode = "manual" /\ PlanOf(c).required \subseteq jobs[j].files
       ELSE jobs[j].files = HostFiles(jobs[j].level, {"auto"})

IsV2For(c) == receipt.version = 2 /\ receipt.commit = c

Current(c) ==
  /\ receipt.version = 1 /\ receipt.commit = c
  /\ PlanOf(c).required \subseteq receipt.files

\* inspectCurrentHostVerification.
Eligible(c) ==
  \/ PlanOf(c).level = "none"
  \/ Current(c)
  \/ IsV2For(c) /\ Sufficient(receipt.level, PlanOf(c).level) /\ MatchesTrustedJob(c)

IntegrityFailure(c) ==
  IF IsV2For(c) THEN ~Eligible(c) ELSE Attempt(c) = "integrity"

\* readDeliveryHostVerification.
CountsFor(c) == c = TaskTip /\ Eligible(c) /\ IsV2For(c)

\* The answer of the gate, about a commit that is pushed and attested.
HostAnswer(c) ==
  CASE Eligible(c) -> "merge"
    [] ~Eligible(c) /\ PlanOf(c).manualOnly -> "human"
    [] ~Eligible(c) /\ ~PlanOf(c).manualOnly /\ mode # "auto" -> "manual"
    [] OTHER ->
       CASE Attempt(c) = "running" -> "running"
         [] Attempt(c) = "candidate" -> "failed"
         [] Attempt(c) # "candidate" /\ Attempt(c) # "running" /\ IntegrityFailure(c) -> "human"
         [] ~IntegrityFailure(c) /\ Attempt(c) = "infrastructure" /\ InfraFailures(c) >= 2 -> "human"
         [] OTHER -> "start"

\* The answer of the gate: it looks at no uncommitted work.
GateAnswer(c) ==
  IF prHead # c THEN "push" ELSE IF c \notin attested THEN "attest" ELSE HostAnswer(c)

\* Mutant: the second failure of the machinery still promises a retry.
Progress_ThirdRetry(c) ==
  IF PlanOf(c).level = "none" THEN "not-required"
  ELSE IF Eligible(c) THEN "passed"
  ELSE IF IntegrityFailure(c) THEN "integrity-failure"
  ELSE CASE Attempt(c) = "running" -> "running"
         [] Attempt(c) = "candidate" -> "failed"
         [] Attempt(c) = "infrastructure" ->
              IF InfraFailures(c) > 2 THEN "retry-exhausted" ELSE "retryable-failure"
         [] OTHER -> IF PlanOf(c).manualOnly \/ mode = "manual" THEN "manual-required" ELSE "required"

\* projectHostVerificationProgress: what grande_task_status shows.
Progress(c) ==
  IF PlanOf(c).level = "none" THEN "not-required"
  ELSE IF Eligible(c) THEN "passed"
  ELSE IF IntegrityFailure(c) THEN "integrity-failure"
  ELSE CASE Attempt(c) = "running" -> "running"
         [] Attempt(c) = "candidate" -> "failed"
         [] Attempt(c) = "infrastructure" ->
              IF InfraFailures(c) >= 2 THEN "retry-exhausted" ELSE "retryable-failure"
         [] OTHER -> IF PlanOf(c).manualOnly \/ mode = "manual" THEN "manual-required" ELSE "required"

\* hostBlocker: what stands in the way of any other advice.
HostBlocker(c) ==
  CASE Progress(c) = "failed" -> "fix"
    [] Progress(c) \in {"integrity-failure", "retry-exhausted", "manual-required"} -> "person"
    [] OTHER -> "none"

\* stages.tests: nothing uncommitted, and an attested HEAD.
TestsDone(c) == ~dirty /\ c \in attested

\* nextForPr: what the agent is told to do next.
Advice(c) ==
  IF HostBlocker(c) # "none" THEN HostBlocker(c)
  ELSE IF ~TestsDone(c) THEN "commit"
  ELSE IF Progress(c) = "running" THEN "wait" ELSE "pr_merge"

\* projectHostVerifierOperationalStatus.
TaskStatus ==
  IF Busy THEN "running"
  ELSE IF jobs = <<>> THEN "idle"
  ELSE LET class == FailureClass(Len(jobs))
           before == RunsOn(jobs[Len(jobs)].commit) \ {Len(jobs)}
       IN IF \/ class \in {"candidate", "integrity"}
             \/ /\ class = "infrastructure" /\ before # {}
                /\ FailureClass(Newest(before)) = "infrastructure"
          THEN "blocked" ELSE "idle"

-----------------------------------------------------------------------------
(* The merge call and the verifier.                                        *)

NewJob(by, c) ==
  [commit |-> c, by |-> by, level |-> PlanOf(c).level,
   files |-> HostFiles(PlanOf(c).level, {"auto"}), policy |-> policy,
   pc |-> "prepare", result |-> "none", headIsIt |-> FALSE]

Admitted_NeverCleared(by) == jobs = <<>>

\* The coordinator of the process has no run, and admission finds no other one in the table.
Admitted(by) == ~Busy

Launch(by, c) == Admitted(by) /\ jobs' = Append(jobs, NewJob(by, c))

\* The Gateway is not inside a settlement it runs without an await.
Free == up /\ \A j \in DOMAIN jobs : ~(jobs[j].pc = "persist" /\ jobs[j].by = "gateway")

MergeCall ==
  /\ Free /\ merged = 0
  /\ \/ GateAnswer(TaskTip) = "merge" /\ merged' = TaskTip /\ UNCHANGED jobs
     \/ GateAnswer(TaskTip) = "start" /\ Launch("gateway", TaskTip) /\ UNCHANGED merged
  /\ UNCHANGED <<left, policy, up, receipt, suite, proved, tries, world>>

Marked(j, pc, result) == [jobs EXCEPT ![j] = [@ EXCEPT !.pc = pc, !.result = result]]

Settle(j, result) ==
  /\ jobs' = Marked(j, "done", result)
  /\ tries' = IF jobs[j].by = "gateway"
                THEN [tries EXCEPT ![jobs[j].commit] = Append(@, result)] ELSE tries

\* The disposable checkout is made from a clean task HEAD that still is the commit.
Prepare(j) ==
  /\ jobs[j].pc = "prepare"
  /\ IF ~dirty /\ TaskTip = jobs[j].commit
     THEN jobs' = [jobs EXCEPT ![j].pc = "execute"] /\ UNCHANGED tries
     ELSE Settle(j, "infrastructure")
  /\ UNCHANGED <<left, policy, up, receipt, suite, merged, proved, world>>

\* The run ends, and its checkout is removed before its verdict counts.
Execute(j) ==
  /\ jobs[j].pc = "execute"
  /\ \/ jobs' = [jobs EXCEPT ![j].pc = "heads"] /\ UNCHANGED <<left, tries>>
     \/ Spend("reds") /\ Settle(j, "candidate")
  /\ UNCHANGED <<policy, up, receipt, suite, merged, proved, world>>

\* A time-out, the memory limit, a clean-up or a request to GitHub that fails.
Breaks(j) ==
  /\ jobs[j].pc \in {"prepare", "execute", "heads", "pr"} /\ Spend("infras")
  /\ Settle(j, "infrastructure")
  /\ UNCHANGED <<policy, up, receipt, suite, merged, proved, world>>

\* An extinction that cannot be observed leaves the row and its slot as they are.
Quarantine(j) ==
  /\ jobs[j].pc \in {"prepare", "execute"} /\ Spend("infras")
  /\ jobs' = [jobs EXCEPT ![j].pc = "orphan"]
  /\ UNCHANGED <<policy, up, receipt, suite, merged, proved, tries, world>>

\* readCurrentHeads: the task's HEAD, then GitHub is asked for the pull request's.
TaskHead(j) ==
  /\ jobs[j].pc = "heads"
  /\ jobs' = [jobs EXCEPT ![j] = [@ EXCEPT !.pc = "pr",
                             !.headIsIt = ~dirty /\ TaskTip = jobs[j].commit]]
  /\ UNCHANGED <<left, policy, up, receipt, suite, merged, proved, tries, world>>

StillCurrent(j) == jobs[j].headIsIt /\ (jobs[j].by = "cli" \/ prHead = jobs[j].commit)

PrHead(j) ==
  /\ jobs[j].pc = "pr"
  /\ proved' = proved \cup {[commit |-> jobs[j].commit, files |-> jobs[j].files,
                             policy |-> jobs[j].policy, apart |-> TRUE]}
  /\ IF StillCurrent(j)
     THEN /\ jobs' = Marked(j, "persist", "passed")
          /\ tries' = [tries EXCEPT ![jobs[j].commit] = <<>>]
     ELSE Settle(j, "stale")
  /\ UNCHANGED <<left, policy, up, receipt, suite, merged, world>>

\* persistTrustedOuterTestPassV2.
Persist(j) ==
  /\ jobs[j].pc = "persist"
  /\ receipt' = [version |-> 2, commit |-> jobs[j].commit, level |-> jobs[j].level, job |-> j,
                 mode |-> IF jobs[j].by = "cli" THEN "manual" ELSE "auto"]
  /\ jobs' = [jobs EXCEPT ![j].pc = "done"]
  /\ UNCHANGED <<left, policy, up, suite, merged, proved, tries, world>>

\* grande_job_cancel: the Gateway holds the control of its own runs only.
Cancel(j) ==
  /\ Free /\ jobs[j].by = "gateway" /\ jobs[j].pc \in {"prepare", "execute", "heads", "pr"}
  /\ Spend("cancels")
  /\ jobs' = Marked(j, "done", "cancelled")
  /\ tries' = [tries EXCEPT ![jobs[j].commit] = <<>>]
  /\ UNCHANGED <<policy, up, receipt, suite, merged, proved, world>>

-----------------------------------------------------------------------------
(* The operator: grande outer-test --run.                                  *)

HumanRun ==
  /\ suite = 0 /\ ~dirty /\ PlanOf(TaskTip).level # "none" /\ Spend("humans")
  /\ tries' = [tries EXCEPT ![TaskTip] = <<>>]
  /\ \/ PlanOf(TaskTip).manualOnly /\ suite' = TaskTip /\ UNCHANGED jobs
     \/ ~PlanOf(TaskTip).manualOnly /\ Launch("cli", TaskTip) /\ UNCHANGED suite
  /\ disturbed' = FALSE
  /\ UNCHANGED <<policy, up, receipt, merged, proved, mode, changed, attested, dirty, prHead>>

Signs_AnyHead(c) == ~dirty

\* recordOuterTestPass: the commit the suite began on, and clean again.
Signs(c) == ~dirty /\ TaskTip = c

\* The suite runs in the task's own worktree: what somebody wrote there and took back
\* leaves no trace in what is signed.
SuiteEnds ==
  /\ suite # 0
  /\ suite' = 0
  /\ \/ UNCHANGED <<receipt, proved>>
     \/ /\ LET files == HostFiles("full", {"auto", "manualOnly"}) IN
             /\ proved' = proved \cup {[commit |-> suite, files |-> files, policy |-> policy,
                                        apart |-> ~disturbed]}
             /\ receipt' = IF Signs(suite)
                             THEN [version |-> 1, commit |-> TaskTip, files |-> files]
                             ELSE receipt
  /\ UNCHANGED <<left, policy, up, jobs, merged, tries, world>>

-----------------------------------------------------------------------------
(* The author, crashes and restarts.                                       *)

Edit ==
  /\ dirty' = ~dirty /\ (dirty \/ left.commits > 0 \/ suite # 0)
  /\ disturbed' = (suite # 0)
  /\ UNCHANGED <<left, policy, up, jobs, receipt, suite, merged, proved, tries, mode, changed,
                 attested, prHead>>

\* grande_commit attests what it commits; a commit by hand is not attested.
Commit ==
  /\ dirty /\ merged = 0 /\ Spend("commits")
  /\ \E c \in Changes : changed' = Append(changed, c)
  /\ attested' \in {attested, attested \cup {TaskTip + 1}}
  /\ dirty' = FALSE /\ tries' = Append(tries, <<>>)
  /\ UNCHANGED <<policy, up, jobs, receipt, suite, merged, proved, mode, prHead, disturbed>>

Push ==
  /\ prHead # TaskTip /\ prHead' = TaskTip
  /\ UNCHANGED <<left, policy, up, jobs, receipt, suite, merged, proved, tries, mode, changed,
                 attested, dirty, disturbed>>

\* The owner of a run dies: between the row and the receipt, the row stays passed.
Dead(by) == [j \in DOMAIN jobs |->
  IF jobs[j].by # by THEN jobs[j]
  ELSE [jobs[j] EXCEPT !.pc = IF Ended(j) THEN "done" ELSE "orphan"]]

Crash ==
  /\ Spend("crashes")
  /\ \/ up /\ up' = FALSE /\ jobs' = Dead("gateway") /\ UNCHANGED suite
     \/ /\ suite # 0 \/ \E j \in DOMAIN jobs : jobs[j].by = "cli" /\ jobs[j].pc # "done"
        /\ suite' = 0 /\ jobs' = Dead("cli") /\ UNCHANGED up
  /\ UNCHANGED <<policy, receipt, merged, proved, tries, world>>

\* reconcileHostVerifierJobsAtStartup: a group that is alive keeps its row.
Restart ==
  /\ ~up /\ up' = TRUE
  /\ \E alive \in SUBSET {j \in DOMAIN jobs : jobs[j].pc = "orphan"} :
       LET killed == {j \in DOMAIN jobs : jobs[j].pc = "orphan"} \ alive IN
         /\ jobs' = [j \in DOMAIN jobs |->
                       IF j \in killed
                         THEN [jobs[j] EXCEPT !.pc = "done", !.result = "infrastructure"]
                         ELSE jobs[j]]
         /\ tries' = [c \in DOMAIN tries |->
                        IF \E j \in killed : jobs[j].commit = c /\ jobs[j].by = "gateway"
                          THEN Append(tries[c], "infrastructure") ELSE tries[c]]
  /\ \/ UNCHANGED <<left, policy>>
     \/ Spend("upgrades") /\ policy' = policy + 1
  /\ UNCHANGED <<receipt, suite, merged, proved, world>>

Runs(j) == Prepare(j) \/ Execute(j) \/ TaskHead(j) \/ PrHead(j) \/ Persist(j)

Next ==
  \/ MergeCall \/ HumanRun \/ SuiteEnds \/ Edit \/ Commit \/ Push \/ Crash \/ Restart
  \/ \E j \in DOMAIN jobs : Runs(j) \/ Breaks(j) \/ Quarantine(j) \/ Cancel(j)

\* The client calls again, a run goes on, the Gateway is started again.
Fairness ==
  /\ WF_vars(MergeCall) /\ WF_vars(Restart) /\ WF_vars(Push)
  /\ \A j \in 1..10 : WF_vars(j \in DOMAIN jobs /\ Runs(j))

Spec == Init /\ [][Next]_vars
FairSpec == Spec /\ Fairness

-----------------------------------------------------------------------------
(* Properties.                                                             *)

\* Rows and receipts keep their types; a receipt of the verifier names a row that passed, of
\* its commit and mode; two runs are never in progress together.
TypeOK ==
  /\ \A j \in DOMAIN jobs :
       /\ jobs[j].pc \in {"prepare", "execute", "heads", "pr", "persist", "done", "orphan"}
       /\ (jobs[j].result = "none") <=> ~Ended(j)
       /\ jobs[j].commit \in DOMAIN changed
  /\ receipt.version = 2 =>
       /\ jobs[receipt.job].result = "passed" /\ jobs[receipt.job].commit = receipt.commit
       /\ receipt.mode = IF jobs[receipt.job].by = "cli" THEN "manual" ELSE "auto"
  /\ Cardinality({j \in DOMAIN jobs : ~Ended(j)}) <= 1
  /\ Len(tries) = Len(changed)

Covered(c, version) ==
  \E p \in proved : p.commit = c /\ p.apart /\ PlanOf(c).required \subseteq p.files
                    /\ (version = 0 \/ p.policy = version)

\* What automatic delivery takes for evidence is a run of the restricted verifier that
\* passed on exactly the current head, under the policy of the running build, with every
\* file the change needs; never the operator's own suite.
EvidenceIsARun ==
  CountsFor(TaskTip) => Covered(TaskTip, policy) /\ ~PlanOf(TaskTip).manualOnly

\* The operator's suite passed while somebody wrote in the worktree it ran in.
RanDisturbed(c) ==
  PlanOf(c).manualOnly
    /\ \E p \in proved : p.commit = c /\ ~p.apart /\ PlanOf(c).required \subseteq p.files

\* The gate lets a head through only when grande_commit attested it and something passed on
\* exactly that commit with every host file its change needs, whatever was committed, pushed,
\* crashed or upgraded meanwhile.  Exception: a change at the manual-only boundary, whose
\* suite ran in a worktree that somebody wrote in and put back.
MergedIsVerified ==
  [][merged' # merged =>
       /\ merged' \in attested
       /\ PlanOf(merged').level = "none" \/ Covered(merged', 0) \/ RanDisturbed(merged')]_vars

\* An automatic run is repeated on the same commit once, and only after a failure of the
\* machinery, until a person cancels it or runs the suite.
NoBlindRetry ==
  [][\A c \in DOMAIN changed :
       (Len(jobs') > Len(jobs) /\ jobs'[Len(jobs')].by = "gateway"
          /\ jobs'[Len(jobs')].commit = c) =>
         Len(tries[c]) < 2 /\ \A i \in DOMAIN tries[c] : tries[c][i] = "infrastructure"]_vars

\* The Console's status and the gate tell the same story of a head that is pushed and
\* attested: blocked where the gate wants a person or new code, running where it waits.
StatusIsTheGates ==
  LET last == jobs[Len(jobs)].commit IN
    (/\ jobs # <<>> /\ last = TaskTip /\ mode = "auto" /\ ~PlanOf(TaskTip).manualOnly
     /\ prHead = TaskTip /\ TaskTip \in attested /\ ~Eligible(TaskTip) /\ ~IsV2For(TaskTip)) =>
      /\ (TaskStatus = "blocked") <=> (GateAnswer(TaskTip) \in {"failed", "human"})
      /\ (TaskStatus = "running") <=> (GateAnswer(TaskTip) = "running")

\* With the automatic verifier on and the head pushed, the agent that follows the task's
\* progress is never sent to the gate, or told to wait for it, to be refused; and it is kept
\* from a gate that would act only to commit first what is uncommitted, which the gate would
\* leave out of the merge: the projection and the gate read the same rows in a different
\* order.  (A receipt of the verifier that the running build no longer accepts hides a later
\* run from the progress but not from the gate.)
AdviceMeetsTheGate ==
  (mode = "auto" /\ prHead = TaskTip /\ ~IsV2For(TaskTip)) =>
    LET advice == Advice(TaskTip)
        answer == GateAnswer(TaskTip)
    IN /\ advice = "pr_merge" => answer \in {"merge", "start"}
       /\ advice = "wait" => answer = "running"
       /\ answer \in {"merge", "start"} => advice = IF dirty THEN "commit" ELSE "pr_merge"
       /\ answer = "running" => advice = IF dirty THEN "commit" ELSE "wait"
       /\ answer = "attest" => advice \in {"commit", "fix", "person"}
       /\ answer = "failed" => advice = "fix"
       /\ answer = "human" => advice = "person"

\* A receipt is as good as the run behind it, and Console, agent and gate are told the same
\* of a head.
GateInv == TypeOK /\ EvidenceIsARun /\ StatusIsTheGates /\ AdviceMeetsTheGate

\* A client that keeps calling is told in the end to merge, to change or attest the code or
\* to get a person - unless a run was orphaned, which only a restart of the Gateway looks at.
GateDecides ==
  <>[](\/ merged # 0 \/ dirty
       \/ GateAnswer(TaskTip) \in {"merge", "human", "manual", "failed", "attest"}
       \/ \E j \in DOMAIN jobs : jobs[j].pc = "orphan")
=============================================================================
