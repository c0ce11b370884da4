# Verification of grande-gpt

grande-gpt is a local Gateway that gives a remote coding agent a set of tools over
Git repositories: it opens a task in its own worktree, edits, runs and commits there, opens a
pull request, and, for tasks whose delivery target is `deploy`, carries the change through
merge, deployment and verification under one approval a Human gives in a Console.

This directory models what the Gateway keeps state about: the authorized delivery first, then
the local loop that produces a pull request, the jobs and processes it runs, the locks, files
and ledger under them, host verification, access, and capabilities. Paths below are relative to
the repository's `src/` directory.

## The system

| Component | State | Operations | Interacts with |
|---|---|---|---|
| Delivery authorization (`deliveryAuthorization.ts`, `authorizationExpiry.ts`) | table `delivery_authorization` | create, rotate challenge, approve, reject, begin, transition, expire | Console routes, merge, deploy, verify, scheduler |
| Readiness (`deliveryReadiness*.ts`) | none of its own | prepare and revalidate a binding from fresh evidence | GitHub, worktree, authorization table |
| Authorized merge (`prLifecycle.ts`, `prMergeD2Core.ts`, `deliveryMerge.ts`) | merge receipt files, pinned release sources | `grande_pr_merge`, observation after a lost response | GitHub, canonical checkout, authorization table |
| Authorized deploy (`deployment.ts`) | deployment receipts | `grande_deploy`, `grande_deploy_verify`, `grande_rollback` | capabilities, deployment-host jobs, authorization table |
| Task progress (`taskProgressCore.ts`) | none of its own | project gate, delivery and next action from all tables | every stage above |
| Jobs (`runner.ts`, `jobs.ts`, `processSupervision.ts`, `jobCancellation.ts`, `resourceAdmission.ts`, the launchers) | table `job`, process groups | reserve, launch, supervise, time out, cancel, settle, reconcile at start-up | deploy, host verification, dependency bootstrap |
| Retention (`resourceRetention.ts`, `resourceMaintenanceCli.ts`) | job directories, prepared dependencies, retention records | plan, apply, in a process of its own | jobs, tasks, pull request receipts |
| Repo write lock (`repoWriteLock.ts`, `repoProcessLock.ts`) | in-process queue, lock file | queue, acquire, recover a stale lock, release | every repo-writing tool, `grande gc` |
| Audit ledger (`audit.ts`) | table `audit` | begin, allow, deny, execute, succeed, fail | every side effect |
| Editing and rollback (`repoFile.ts`, `checkpoint.ts`, `trash.ts`, `toolsCore.ts`) | worktree files, checkpoints, trash | edit batch, restore on failure, `grande_rollback` | running jobs, ledger |
| Local loop (`localLoopTools.ts`, `attestation.ts`, `commit*.ts`, `syncBase.ts`, `push.ts`, `dependencyBootstrap*.ts`) | attestations, commits and trailers, dependency markers | run, bootstrap, commit, sync base, push | running jobs, GitHub |
| Pull request receipts (`prOpen.ts`, `taskPrReceipt.ts`, `closedTaskReconcile.ts`, `prMergeD2.ts`) | table `task_pr_receipt` | open, observe, record merged, reconcile a closed task | GitHub |
| Host verification (`hostVerif*.ts`, `prHostVerification.ts`, `outerTestReceipt.ts`, `cli.ts`) | verifier jobs, receipts | gate, start, retry, persist, recover; `grande outer-test` | merge gate, jobs, progress |
| Task lifecycle (`taskLifecycle*.ts`, `worktree*.ts`, `taskCloseIntent.ts`, `mergeReconcile.ts`) | table `task`, close intents, worktrees, branches | open, close, merged clean-up, periodic recovery, gc | jobs, receipts, write lock |
| OAuth and access (`oauth.ts`, `tokenEpoch.ts`, `accessGate.ts`, `consoleAuth.ts`) | codes, refresh tokens, epoch | register, authorize, exchange, rotate, revoke | every request |
| Capabilities (`capabilities.ts`) | configuration, audit rows | inspect, gate, record, list again, call | remote providers, ledger |
| Policy, sandbox, onboarding, command line, read tools | configuration, files | see PROJECT.json | |

What is hard about it: a handler runs alone between two `await`s and with everything else
at each one; processes outlive the Gateway that started them, and write the worktree while its
tools do; the command line and the maintenance process share the database and the files with the
Gateway; GitHub and the deployment target may act although the answer is lost; the Gateway may
die between two durable writes; and requests may be repeated at any time. `PROJECT.json` lists
each place as a hazard, with the properties that would catch it.

## Modules

Every component module declares its bounds as CONSTANTS ("bound" in the comment), has one action
per operation or, where a handler awaits or may die, one per segment, and ends with its
properties. **MC\*** are the instances for TLC, **\*Proofs** the theorems about a module, or about two whose
subjects touch ("Proofs" says which); components that share such a module name their specification and
state after themselves (`TableSpec`, `EditSpec`, `call`). Definitions named `X_Something` are variants
of `X` with a plausible bug in them; no specification uses them, and the property named for them in
PROJECT.json must fail when they take the place of `X`.

### Authorized delivery

- **DeliveryContract** is the promise to the Human: a grant is offered, given, used once and
  closed; a task has one live grant; under a used grant each effect of the plan is sent at
  most once and in order, and once more only when a crash took the record of the last one sent
  (`cut`).
- **DeliveryAuthorization** models the table. `status`, `binding`, `nonce`, `executingAt`,
  `deadline` are its columns; `now` is the clock and `issued` counts the nonces drawn;
  `consent`, `toldApproved` and `toldRejected` are history. Each exported function is one
  `BEGIN IMMEDIATE` transaction and one action. A digest is the binding it identifies; a request
  may carry any digest and nonce ever issued, which is how delayed, repeated and superseded
  requests are covered.
- **MergeStage** models `grande_pr_merge` of an explicit deploy task under its wrapper. `mcall` is
  the running call at one of its awaits; `github` the pull request and base branch; `local` the
  worktree HEAD and the action it resolves to; `inFlight` the requests GitHub has not
  processed. Commits are numbers: base commits 0..MaxBase, heads 1 (reviewed) and 2 (made later).
  Gates that read nothing modelled here are `GiveUp`.
- **DeployStage** models `v2Deploy` and `v2Verify`, and what progress shows of them (`Shown`,
  `NextAction`): `drec` is the task's deployment receipt, `jobs` its deployment-host jobs, `dcall`
  and `vcall` the calls at their awaits. `grande_deploy` holds the repo write lock;
  `grande_deploy_verify` does not (`tools.ts:55-63`), so there are several of it. A segment that
  writes twice has a second action in which the Gateway dies between the writes. A job ends
  `exact`, `other` (evidence for another source), `missing` or `failed`; a restart makes it `lost`
  or `orphan`.
- **Delivery** composes the two over the same authorizations, receipts, lock and crashes.

### Work in a repository

- **RepoLock** has one action per file operation of the lock file, for each of the two processes,
  and the in-process queue before it. `raced` remembers the one interleaving the code does not
  exclude (below).
- **AuditLedger** holds the five moves of an audit row as operators, each a compare-and-set.
  RepoEdit and Capability keep their rows with them.
- **RepoEdit** models an edit batch (checkpoint, operation by operation, restore on failure) and
  `grande_rollback`; `call` is the handler in progress, `JobWrites` the process of a running job
  between its steps. `seen` is history: the bytes the handlers found.
- **PrReceipt** holds the transactions over the receipt of a pull request as operators.
- **LocalLoop** models the tools from edit to pull request for one task, and the reconciliation of
  a pull request after the task closed. Commits carry their parents, tree and attestation trailer;
  a job carries what it was started on; `pr_open` calls are at their awaits. `raced` on a commit
  and `bounced` on an install mark the writes of a job that no check of the code can see. Somebody
  else may push to the branch at origin (`OthersPush`). `modules` keeps what node_modules was made
  for apart from its marker, as a pnpm install changes the one and leaves the other.
- **TaskLifecycle** models rows, intents, branches, worktrees and `HEAD.lock` of the tasks of one
  repository, with people and jobs writing in the worktrees, and gc in another process. A person
  commits at any moment, inside the steps of the Gateway too, and only HEAD.lock keeps a commit out.
  `halfway` is history: the merged tasks whose clean-up has removed the worktree.

### Jobs and the host

- **JobSupervision** models a job of each kind from reservation to settlement: `row` is the
  database row, `proc` the process group (leader and members apart), `sup` the supervisor in the
  life of the Gateway that spawned it. `launching` is the job whose launch holds the event loop,
  `todo` what the recovery at start-up has left to do.
- **Retention** extends it with what jobs leave on disk (`obj`) and the process that removes it
  (`cli`, one action per step of `applyResourceRetention`). The stamp of an object stands for its
  identity, contents and age.
- **HostPlan** is the pure plan: which host files a set of changed files needs.
- **HostVerification** models the gate of `grande_pr_merge`, the verifier job it starts, the
  operator's own run, receipts by version and policy, recovery, and the two projections a person or
  an agent reads: `TaskStatus`, and `Advice`, the next action of a task whose target is a pull request
  or a deployment (`nextForPr`, behind the blockers of `hostBlocker`). `GateAnswer` is the gate from
  the comparison of heads on, CI and mergeability taken to be green. `disturbed` remembers whether
  somebody wrote in the worktree the operator's suite is running in.

### Access

- **OAuthContract** promises that an authorization is offered as a code, redeemed at most once,
  carried by one refresh token at a time, and that it does not come back once ended.
- **OAuth** models `/register`, `/authorize`, `/token` (two segments around the signature), bearer
  verification, both ways of revoking, and a restart on another endpoint. `RevokeAllCut` is the stop
  between the two writes of a revoke-all; `disconnected` is history.
- **Capability** models a call through the Gateway's own tools, a skill file or a remote provider,
  with the operator editing `capabilities.yaml` and the provider changing its annotations between
  the two listings.

## Runs and what they show

A property of several named parts is the conjunction defined at the end of its module; the parts
are stated and commented one by one there.

| Run | Instance | Properties and what they show |
|---|---|---|
| authorization | 2 tasks, 3 rows, 2 nonces, clock 0..3 | `ConsentGiven`: approval names this binding and its last challenge. `TableInv`: one active row per task, executions in time, no answer contradicted. `ImplementsContract`. `PendingEnds`: the sweep ends what nobody answers |
| merge | 2 authorizations, 1 push to base, 1 crash | `ReceiptIsExact`. `MergeInv`: nothing condemned before it is merged, refused proposals sent nothing. `ImplementsContract`. `MergeSettled`: a lost exact merge is found |
| deploy | 2 authorizations, capabilities or profiles, 4 jobs, 2 crashes | `SuccessIsProven`: SUCCEEDED rests on receipts and these on jobs with the evidence. `DeployInv`: effects once, on record, in order. `StatusIsHonest`: progress never shows as over what is not. `NothingAfterDeadline`. `DeliveryEnds` |
| delivery | 2 authorizations, profile deploy and verify, 1 push, 1 crash | `DeliveryInv`: only the exact merge is deployed, SUCCEEDED means all three stages. `DeliveryImplementsContract`: one merge and one deploy per grant, and one deploy more for a crash before its receipt. `DeployStageSuffices`: the stand-alone deploy stage covers this |
| oauth | 2 authorizations, 2 requests, 4 rows, 1 restart | `AccessInv`: revoked tokens refused, issued ones usable, no token exchanged twice, each door its own. `RevocationIsWhole`: reuse ends the successor, and what a completed revoke-all disconnected never comes back. `ImplementsContract` |
| repolock | 2 processes, 4 calls, 2 lives each | `LockInv`: one writer, whose file stays, except for the race of `raced`. `QueueDrains`: every queued call is served or refused |
| repoedit | 3 paths, 2 contents, 2 calls, 1 job write | `FilesInv`: no bytes destroyed. `OutcomesAreTrue`: restores exact, applied batches whole, no change without an EXECUTING row |
| localloop | 3 trees of 2 lockfiles, four budgets | `AttestedAsStarted` and `RequiredGreen`: what a commit vouches for is what a green run was started on. `LoopInv`: no commit dropped, of the task or of others on its branch, no marker of a lock that was not installed, interrupted installs apart. `ReceiptOfTheMerge`: merge evidence names the merged pull request and head |
| jobs | 2 tasks, 7 histories of up to 2 jobs, 3 lives, 2 plans | `NothingLeftRunning`: no finished row and no closing task with live processes. `JobInv`: capacity counts what runs, signals go only to own groups, cancelled never passes. `SupervisionEnds`. `RetentionIsSafe`: nothing is retired from under its user, nothing deleted without record |
| lifecycle | 2 tasks of one branch name, four budgets | `TaskInv`: no work lost, no worktree left, none missing under a READY row but half-way through a merged clean-up. `ReadyIsWhole`. `IntentsResolve`: an accepted close is carried out, or somebody interfered, or its own HEAD.lock is in the way |
| hostver | 2 modes, 3 kinds of change, four budgets | `GateInv`: evidence is a passed run on this head; of a pushed head status, next action and gate agree. `MergedIsVerified`: what is merged was attested and run. `NoBlindRetry`. `GateDecides` |
| capability | 2 calls, 3 providers, 2 changes | `CallInv`: guarded effects are allowed and on record, SUCCEEDED if and only if answered. `RowsEnd`: a row is finished unless the Gateway dies |

### Where code and documents disagree

Found while modelling. The properties state what the code promises; where the code falls
short of a comment or of the designs (`docs/superpowers/specs/2026-09-04-…-terminal-delivery-design.md`,
"design"; `2026-08-21-…-host-verifier-design.md`, "verifier design"), the model follows the code and
the property names the exception.

Delivery:

- A task HEAD that moved after the merge leaves the authorization EXECUTING (design 438-440:
  UNCERTAIN); so does a merge GitHub refused (design 508: FAILED; `prLifecycle.ts:767`), and a lost
  merge response (design section 11: UNCERTAIN), where observing again is the better behaviour and
  what `MergeSettled` checks.
- An exact merge is condemned as UNCERTAIN when the local refresh after it fails
  (`prLifecycle.ts:822`; design 510 keeps the evidence).
- Two `grande_deploy_verify` calls waiting at the role check both invoke a verify capability
  (`deployment.ts:836-841` says never twice). The deploy run has one such caller.
- An execution whose deadline passed is refused every stage and never ended (`deployment.ts:427`;
  design 279: EXPIRED). A capability is invoked after the awaited role check and may start late
  (design 278); profile jobs may not (`NothingAfterDeadline`).
- Deployment jobs run in the canonical checkout (`deploymentHostRunner.ts:195`; design 442: the
  pinned source), and settle when the leader closes, without waiting for the group
  (`deploymentHostRunner.ts:136-150`); `Supervised` leaves them out of the properties of groups.
- A deploy job starts before its receipt is durable (`deployment.ts:601-614`); after a crash between
  the two the next call starts a second one under the same grant, where the comment promises exactly
  one (`deployment.ts:597`). `DeliveryContract` allows that job and no other (`cut`).
- A deploy job lost in a restart is judged FAILED
  (`deployment.ts:720`; design 487: UNCERTAIN), so no property says that FAILED means not done.
- A task whose authorization failed at deploy cannot deploy again under another one: its one
  receipt is in the way.
- Progress shows a deploy job that ended and was not collected as "pending", a failed one as
  "blocked", so that its advice never leads to the call that ends the authorization; it does the
  same for a capability deploy of unknown outcome, and does not compare the receipt's
  authorization (`taskProgressCore.ts`). `StatusIsHonest` says what does hold.
- The readiness reader of production binds only profile actions
  (`deliveryReadinessProduction.ts:119-127`); capabilities are reached only with another reader, as
  in the tests. The delivery run takes the profiles, the deploy run both.

Repository:

- The stale-lock recovery compares the content and then unlinks by name
  (`repoProcessLock.ts:142-146`): a lock taken between the two system calls is removed. `LockInv`
  says that this is the only way to a second writer.
- A dependency bootstrap that passed is a green run like any other and is attested
  (`attestation.ts:73-76` has the contents verified); an edit that is undone while a job runs is
  not seen by the digests.
- A crash while dependencies are replaced leaves `.grande-dependency-backup-*` in the worktree
  (`dependencyBootstrap.ts:219-235`), which the next commit may take in.
- `pnpm install` works in the node_modules it finds (`dependencyBootstrap.ts:111-115`), so an install
  that a crash cuts, or that is cancelled after it succeeded (`:343`), leaves changed modules under the
  earlier marker, which a later bootstrap for that identity takes for prepared (`:133-141`).
  `MarkerIsTrue` excepts it, in the worktree only: the cache is published after the check.
- A pull request closed by hand and opened anew is refused by its receipt for ever
  (`taskPrReceipt.ts:117-123`). `grande_pr_open` records the local HEAD it last compared
  (`prOpen.ts:237`), so a push in between makes the reconciliation of the closed task refuse.

Task lifecycle:

- The HEAD.lock of a close or of a merged clean-up stays when the Gateway dies before the worktree is
  gone (`taskLifecycleOps.ts:150-162`). The recovery opens the same file exclusively
  (`taskLifecycleRecovery.ts:73`), fails on it in every round and keeps the intent for ever.
  `IntentsResolve` names it (`LockLeftBehind`).
- The clean-up after a merge keeps no intent: cut or refused between the removal of the worktree
  (`mergeReconcile.ts:113`) and the row, it leaves a READY task without worktree that nothing
  finishes. `ReadyHasWorktree` names it (`halfway`).

Jobs and host verification:

- A job orphaned by a crash is looked at only at the next start of the Gateway (`server.ts:522`).
- A maintenance process that dies between rename and commit leaves the directory or the output of
  a job under a name no later plan lists (`resourceRetention.ts:296` calls a failed purge retryable,
  which it is only once on record); dependencies are found by listing. `DeletedIsOnRecord` excepts it.
- A red verification is repeated on the same commit when an operator's run ended in an
  infrastructure failure after it (`prHostVerification.ts:175-236`; verifier design 436).
- The next action does not ask whether the head was pushed: `nextForPr` advises the merge and the gate
  refuses with STALE_STATE (`prLifecycle.ts:530-536`). With uncommitted work it advises to verify and
  commit (`deliveryTarget.ts:104`) where the gate would merge the attested head without it; a
  candidate failure or a person's turn comes before that. `AdviceMeetsTheGate` says this of a pushed
  head. The projection of tasks without a target, which only `cli.ts:120` shows unchanged, asks for
  CI first (`taskProgressCore.ts:618-620`) and is not modelled.
- The suite of a manual-only change runs in the task's own worktree (`cli.ts:417`, `:525`), and its
  receipt compares HEAD and cleanness before and after (`outerTestReceipt.ts:356-381`; `:349-351`: a
  pass of the exact clean HEAD): an edit taken back while it runs was tested and is not seen.
  `MergedIsVerified` names it (`RanDisturbed`).
- A red run does not void an eligible receipt of the same head; a change that is manual-only never
  gets evidence for automatic delivery; a receipt the running build no longer accepts hides a
  running job from progress; in mode manual progress advises a retry the gate answers
  with "manual".

Access and capabilities:

- Revoking everything in the Console is two statements, the epoch (`consoleRoutes.ts:198`) and the
  refresh rows (`:199`): a stop between them refuses every access token and leaves the refresh tokens
  valid under the new epoch, where the comment has both (`:178-183`). The command line writes only the
  first. `RevocationIsWhole` speaks of a revoke-all that completed.
- A code or a rotation at its signature when everything is revoked survives it; the successor of a
  reused token is spent, but its own successor, inserted by a request then at its signature, is not.
  `RevocationIsWhole` says what is guaranteed.
- A remote tool inspected as "read" and listed as "write" at the call runs without task and row
  (`capabilities.ts:623`); providers that answer with an error envelope are recorded SUCCEEDED.

### Bounds

Three rows are needed for a proposal of one task to follow another while a second task has
its own; two nonces for one to supersede another; a clock of three units with lifetimes
of two for a request to arrive before, at and after expiry. One push moves the base between
read and merge, or canonical past the merge; a second adds no case since only equality is
compared. Two crashes allow a recovery to be interrupted. Four jobs are a deploy and a verify
for each of two authorizations. The composed run takes a profile deploy and a profile verify, the
plan production binds, with one crash, which may fall between the start of the job and its receipt;
two jobs are then a deploy and the verify, or the deploy twice. The theorems hold for any plan.

In oauth two requests make every pair of segments overlap, and four refresh rows are two
authorizations with a successor each or one with three; two epochs are before and after. In repolock two
calls per process put one behind another, and a second life is a recycled process id. In repoedit a batch
of all three paths can move, delete and overwrite in one another's way; one job write may fall
between any two steps. localloop, lifecycle, hostver and jobs take a set of budgets instead of one large bound:
each history draws the bound of one kind of event (commits, jobs, crashes, gc plans, retention
plans) high and the others low, so that each pair of hazards meets in some budget. The two tasks of
lifecycle share a branch name, which the code's naming allows. In localloop one of the commits may be
somebody else's push; in hostver the three changes need nothing, ordinary files, and a person, and
any commit may be made by hand. In capability the provider may say "read" or "write" of its tool.

`Create` is refused when the bounded clock could not reach the expiry, so the bound never
hides one. `CHECK_DEADLOCK FALSE` is set because these systems really stop: with every row
terminal and every bound reached nothing remains to do. Symmetry is used only in runs without
liveness properties.

### Fairness

- The sweep of `taskLifecycleScheduler.ts` runs at start-up and by timer whatever fails
  (weak fairness of `ExpireIfDue` and of time in the table); the reconciliation of lifecycles comes round
  every minute, between other operations that hold the lock (strong fairness of `Recovers`).
- A call returns, because every request has a timeout (weak fairness of the steps of a call, in
  the merge, deploy and capability runs). The second listing of a provider's tools is one such step;
  it is a loop over pages (`capabilities.ts:337-346`), taken to end: a provider whose cursor never does
  is not modelled. The agent keeps calling, as each tool's hint tells it to. A
  read that is retried for ever eventually succeeds (strong fairness of `GithubAnswers` and of the
  conclusion of an observation, which a failing read keeps disabling).
- A process goes on with its queue unless it dies (weak fairness of `HeadSteps`). The event loop
  runs callbacks and timers that are due (weak fairness of `Supervise` and `Overruns`); nothing is
  assumed of members of a group that hold its pipes.
- A job ends, because its runner kills it at the timeout. Nothing is assumed of a job orphaned by a
  crash. In hostver the Gateway is started again and committed heads are pushed.
- The maintenance process goes on or dies (weak fairness of `Maintains`); writers that wait for its
  transaction get the lock within SQLite's `busy_timeout` of five seconds, whose failure is not
  modelled.
- Nothing is assumed of the Human, of other users, or of GitHub processing a request.

## Proofs

TLAPS proves every safety property of the runs, the action properties and the refinements, for every
value of the constants under the named assumptions in the modules (lifetimes are positive, bounds
are naturals, `NoId` is no id, a history plans jobs of known tasks and kinds, a local loop has its base
commit). What is proved of each component, and the inductive invariant it takes, since few of the
properties are inductive: a handler acts after an await on what it read before it.

### Authorized delivery

- **DeliveryAuthorization** (DeliveryGateProofs): `TableInv` with its parts (`TableTypeOK`,
  `OneActivePerTask`, `StartedInTime`, `RejectionFinal`, `ApprovalTold`), `ConsentGiven`, and that the
  table implements DeliveryContract. `IInv` is their conjunction: they need each other, since a
  replayed approval is answered for an EXECUTING row only because consent exists for it.
- **MergeStage** (MergeStageProofs): `MergeInv` with its parts (`TypeOK`, hence at most one merge
  request per grant, `CondemnedOnlyIfMerged`, `RefusedSentNothing`), `ReceiptIsExact`, and that the
  stage implements DeliveryContract with the plan "merge". `MInv` adds that the row a call works for
  exists and, past `Begin`, is EXECUTING and has sent nothing (`CallOwnsRow`), that an answer "merged"
  stays true (`AnswersAreTrue`), that a row not in use sent nothing (`UnusedSentNothing`), and that
  a receipt has a row (`ReceiptHasRow`).
- **DeployStage** (DeployStageProofs): `DeployInv`, `SuccessIsProven`, `StatusIsHonest` and
  `NothingAfterDeadline`. `DInv` says whose the receipt is (`Owned`), that its jobs carry the success it
  claims (`Backed`), that a call at an await holds the receipt that is still on disk (`DeployCall`,
  `VerifyCall`), and counts each request against the crashes and the receipt that pay for it
  (`DeploysSent`, `VerifiesSent` with `MayInvoke`). `VerifyCall` fails for two capability verify calls
  at once, which both invoke and overwrite each other ("Where code and documents disagree" above):
  `DeployInv` and `SuccessIsProven` are proved under `OneVerifier` (a verify profile, or one verify call
  at a time), the other two, and the types, without it.
- **Delivery** (DeliveryProofs): `DeliveryInv` under the same `OneVerifier`, and its first part,
  `DeployOnlyExactMerge`, without it. The proof reuses both stages' invariants by INSTANCE, each
  over what it sees of the shared state (`AuthD`, `LocalD`, `SentM`, `WriterM`), and shows that a step
  of the other stage keeps them. `LinkInv` adds what ties the stages: a call has the lock (`Locked`),
  a recorded merge has a spent row (`ReceiptIsSpent`, `CallIsUnpaid`), and whatever was deployed has
  an exact merge (`Paid`).
- **Its refinements** (DeliveryProofs): `DeployStageSuffices`, from `HandInv`, which adds to
  `LinkInv` that one row is active (`OneActiveRow`) and that the call that sent a merge
  request keeps its row executing until the merge is recorded (`MergingOwns`); a row is therefore handed
  over at most once, as the environment of the stand-alone stage does it. And
  `DeliveryImplementsContract`, from `GrantInv`, of every plan and any number of verify calls: a
  capability deploy goes out after its receipt, nothing is verified before, and its row is in use until
  then (`DeployUnsent`); a deploy job goes out when its row has no receipt, so that whatever it sent
  before was the merge, or jobs whose record a crash took, which is what `cut` allows again.

Where `OneVerifier` is a hypothesis it restricts `plan` and `Verifiers`, which never change, so it
describes deliveries and not states; the deploy and delivery runs are of such deliveries.

### Work in a repository

- **RepoLock** (TaskLoopProofs): `LockInv`, for any number of processes, calls, deaths and recycled
  process ids. A recovery acts on what it read two steps ago: `LInv` adds that what it has read is the
  lock of a dead process (`Recovering`), that no lock bears an id of a life still to come (`FilePast`), so
  that a dead owner stays dead, and that, as long as no recovery removed a file it had not read,
  whoever is past the creation of the lock file owns the file as it is (`Owners`).
- **LocalLoop** (TaskLoopProofs): `AttestedAsStarted`, `RequiredGreen`, `LoopInv` and
  `ReceiptOfTheMerge`. `LocalInv` says what a job keeps of its start and what its process has seen
  (`JobsInv`), that between two steps of a commit the required profiles are still green on what is
  checked out and the job to be attested ran on that, unless a job wrote in between (`OpInv`, whose
  exceptions are the marks `raced`), that what is vouched for names jobs that exist (`VouchInv`), and
  that pull requests are of a branch that was pushed (`HubInv`). That a push keeps what others put
  on the branch is the refusal of a push that is no fast-forward; that a marker stands on interrupted
  modules only where an install was interrupted is carried through the jobs (`Interrupted`).
  `Ancestors` is the least set of
  commits closed under parents, so that "HEAD keeps every commit of the task" is proved through
  squashes and merges without recursion.
- **RepoEdit** (TaskFilesProofs): `FilesInv` and `OutcomesAreTrue`, for any paths, contents, calls
  and job writes. `EditInv` adds that once a batch has its checkpoint everything found at its paths
  is in it, in the trash or still in place (`Covered`), what a running handler relies on
  (`Grounded`), and that half-way through a batch the operations done have their outcome and the
  paths of the others are as the checkpoint has them, likewise half-way through a restore (`Midway`).
- **TaskLifecycle** (TaskFilesProofs): `TaskInv` and `ReadyIsWhole`, for any tasks, branch names and
  histories. `LifeInv` says what a row tells of worktree, branch and intent (`RowsInv`), that a branch is
  registered to one worktree and its tip is then a commit of that task (`BranchesInv`), though names are
  reused, and where an operation may stand when the Gateway dies (`OpInv`): under HEAD.lock the head
  is the one it looked at, which is what keeps a person's commit from being removed, and only the
  removal after a merge takes the worktree of a READY row without an intent.

### Jobs and the host

- **JobSupervision** and **Retention** (JobSupervisionProofs): `NothingLeftRunning`, `JobInv` and
  `RetentionIsSafe`, of `HostSpec`, the two together. `JInv` relates row, process and supervisor of a
  job: a supervisor has a running row of this life (`SupervisorHasRow`), the phase on record is ahead of
  what was spawned (`PhaseIsAhead`), no process exists outside the phases that allow it
  (`ProcessFollows`), a cancellation on record has reached the supervisor (`CancelReached`), and the table
  counts at least what lives (`Counted`). That a living job has a running row (`LivingIsActive`) gives
  the capacity and the safety of retention, whose own `RInv` keeps audit rows ahead of deletions.
- **HostVerification** (DeliveryGateProofs): `GateInv`, `MergedIsVerified` and `NoBlindRetry`. `HostInv`
  says that a passed row and a receipt stand for a run on the head they name (`RowsInv`,
  `ReceiptInv`), and that the failures counted since the last change are the results of the newest
  runs on that head, after one infrastructure failure at most one more (`TriesInv`); the operator's
  suite runs only for a manual-only change, so that `RanDisturbed` excuses no other. That a head with
  runs has a newest one, which the gate reads, comes from the least element of a set of naturals.

### Access

- **OAuth** (AccessProofs): `AccessInv`, `RevocationIsWhole`, and that the server implements OAuthContract.
  `OInv` says that a successor comes after its parent, which is spent and has no other
  (`RowsInOrder`, `SpentBefore`), that a request between its segments holds what it took alone
  (`HoldsAlone`), that a code not yet claimed has left nothing (`NothingBeforeClaim`), that an
  authorization is carried by one request or one valid row (`OneCarrier`), and that tokens claim what
  they were signed with (`TokensTrue`). For what was disconnected `DInv` adds that its access tokens are
  of epochs before the current one. The revocation on reuse walks down the successors by a
  recursive function over the rows; `WalkDefined` shows that there is one, from the least set of rows
  closed under succession.
- **Capability** (AccessProofs): `CallInv`, for any calls, providers, configurations, edits and crashes.
  `CallsInv` says what the gate has established at each point of a call: one that waits for the
  second listing has its row unless its tool was read-only when inspected (`Gated`), one that may be
  carried out, or was, is allowed besides (`Vouched`), and a row that ended tells whether the answer came
  (`RowTells`). The first two speak of the entry the call began with, which no edit changes.

### Only model-checked

Liveness: `PendingEnds`, `MergeSettled`, `DeliveryEnds`, `QueueDrains`, `SupervisionEnds`, `IntentsResolve`,
`GateDecides` and `RowsEnd`. They rest on fairness, and the prover has neither ENABLED nor fairness.
Everything else the runs check is proved, `DeployInv`, `SuccessIsProven` and `DeliveryInv` under
`OneVerifier`.
The prover cannot instantiate induction theorems for an operator either, so no module that is
proved about declares a recursive operator, and what would be an induction is a least element or a
least closed set.

## Not modelled

The legacy merge and deploy paths of tasks without an authorization; `v2Rollback`, as nothing
under `src/` creates a rollback authorization yet; reopening a closed pull request; retention of
retained output and logs, which follows the steps of Retention under other conditions; a branch
deleted or rewritten at origin by others; a group recorded by an older build, which start-up kills
without its identity (`hostVerifierRecovery.ts:109`); the command line reserving a verifier between
the job check and the intent of a close (`taskLifecycleToolWiring.ts:121`, `taskLifecycleOps.ts:94`),
two steps the Gateway runs without an await; failed-attempt limits, PKCE and key handling of OAuth, which compare data; the sandbox profile a job runs in; the Console's
onboarding of repositories. Text handling (diffs, searches, policy files, reports) has no state over
time and is left out. PROJECT.json gives the reason for each component.
