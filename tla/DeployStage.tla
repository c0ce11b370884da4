---------------------------- MODULE DeployStage ----------------------------
(***************************************************************************)
(* The deploy and verify stages of one task's authorized delivery:         *)
(* v2Deploy and v2Verify of src/src/deployment.ts, the deployment-host     *)
(* jobs they start (src/src/deploymentHostRunner.ts) and what a restart    *)
(* makes of those (src/src/jobs.ts).                                       *)
(*                                                                         *)
(* grande_deploy runs under the repo write lock, grande_deploy_verify does *)
(* not: several verify calls may be at their awaits together.  A segment   *)
(* between two awaits is one action; where it makes two durable writes, a  *)
(* crash may fall between them.                                            *)
(***************************************************************************)
EXTENDS Naturals, Sequences, FiniteSets

CONSTANTS
  Ids,          \* authorization ids
  NoId,
  Plans,        \* how deploy.yaml may name the two actions: by "capability" or "profile"
  Verifiers,    \* concurrent grande_deploy_verify calls
  MaxJobs,      \* bound: deployment-host jobs
  MaxCrash      \* bound: Gateway crashes

Kinds == {"capability", "profile"}

ASSUME PlanAssumption == Plans \subseteq [deploy : Kinds, verify : Kinds]
ASSUME DeployAssumption == NoId \notin Ids /\ MaxJobs \in Nat /\ MaxCrash \in Nat

VARIABLES
  plan,         \* how this task's deploy.yaml names its actions
  local,        \* the action the task's deploy.yaml resolves to (refs)
  auth,         \* rows of delivery_authorization
  mrec,         \* exact merge receipts
  sent,         \* history: external effects sent under each authorization
  writer,       \* holder of the repo write lock
  crashes,
  overdue,      \* authorizations whose executionDeadlineAt has passed
  drec,         \* the task's deployment_receipt row
  jobs,         \* the task's deployment-host jobs, in the order they started
  dcall,        \* the running grande_deploy call, at one of its awaits
  vcall         \* the running grande_deploy_verify calls

shared == <<local, auth, mrec, sent, writer, crashes>>
own    == <<plan, overdue, drec, jobs, dcall, vcall>>
dvars  == <<shared, own>>

Active == {"READY", "APPROVED", "EXECUTING"}
ActiveIds == {i \in Ids : auth[i].status \in Active}

NoReceipt == [auth |-> NoId, refs |-> 1, deploy |-> "none", verify |-> "pending", djob |-> 0, vjob |-> 0]
Receipts == [auth : Ids \cup {NoId}, refs : {1, 2},
             deploy : {"none", "running", "succeeded", "failed", "uncertain"},
             verify : {"pending", "running", "succeeded", "failed", "uncertain"},
             djob : 0..MaxJobs, vjob : 0..MaxJobs]

(* A job's row: running while its Gateway lives; orphan once that died and  *)
(* its process group is still there; lost once a restart closed it without  *)
(* a result; otherwise what it ended with: its evidence names exactly the   *)
(* authorized source, another one (it ran where a later merge was pulled),  *)
(* or none, or it failed.                                                   *)
JobEnds   == {"exact", "other", "missing", "failed"}
JobStates == {"running", "orphan", "lost"} \cup JobEnds
Job(role, i) == [role |-> role, auth |-> i, state |-> "running"]

Idle == [pc |-> "idle", receipt |-> NoReceipt]

DInit ==
  /\ plan \in Plans
  /\ overdue = {}
  /\ drec = NoReceipt
  /\ jobs = <<>>
  /\ dcall = Idle
  /\ vcall = [v \in Verifiers |-> Idle]

-----------------------------------------------------------------------------
\* Mutants: the deadline, or the merge receipt, is not looked at.
Authorized_NoDeadline(i) ==
  i \in Ids /\ auth[i].status = "EXECUTING" /\ mrec[i] = "ok" /\ auth[i].refs = local.refs

Authorized_NoMerge(i) ==
  i \in Ids /\ auth[i].status = "EXECUTING" /\ i \notin overdue /\ auth[i].refs = local.refs

(* requireV2Authorization: checked right before a side effect is prepared.  *)
Authorized(i) ==
  /\ i \in Ids
  /\ auth[i].status = "EXECUTING"
  /\ i \notin overdue
  /\ mrec[i] = "ok"
  /\ auth[i].refs = local.refs

(* v2Transition: compare-and-set from EXECUTING; the receipt is already     *)
(* saved when it finds that somebody else ended the authorization.          *)
EndAs(i, s) ==
  auth' = IF s # "EXECUTING" /\ auth[i].status = "EXECUTING"
          THEN [auth EXCEPT ![i].status = s] ELSE auth

(* The Gateway dies and takes all its calls with it.                        *)
CallsLost == dcall' = Idle /\ vcall' = [v \in Verifiers |-> Idle]

Restart ==
  /\ crashes < MaxCrash
  /\ crashes' = crashes + 1
  /\ writer' = "nobody"
  /\ CallsLost

(* reconcileRunningJobs, at start-up: a job whose process is gone is closed *)
(* as killed, whatever it did; one whose process lives stays running, and   *)
(* nobody waits for it any more.                                            *)
Restarted(js) ==
  {[k \in DOMAIN js |-> IF js[k].state \in {"running", "orphan"}
                        THEN [js[k] EXCEPT !.state = IF k \in gone THEN "lost" ELSE "orphan"]
                        ELSE js[k]] : gone \in SUBSET DOMAIN js}

Crash ==
  /\ Restart
  /\ jobs' \in Restarted(jobs)
  /\ UNCHANGED <<plan, local, auth, mrec, sent, overdue, drec>>

-----------------------------------------------------------------------------
(* The results a deploy can be judged by: receipt to save, status to set.   *)
DeployOutcome(r, e) ==
  CASE e = "exact" -> [receipt |-> [r EXCEPT !.deploy = "succeeded"], status |-> "EXECUTING"]
    [] e \in {"other", "failed", "lost"} -> [receipt |-> [r EXCEPT !.deploy = "failed"], status |-> "FAILED"]
    [] OTHER -> [receipt |-> [r EXCEPT !.deploy = "uncertain"], status |-> "UNCERTAIN"]

\* Mutant: an answer without evidence counts as success.
VerifyOutcome_NoEvidence(r, e) ==
  IF e \in {"other", "failed", "lost"}
  THEN [receipt |-> [r EXCEPT !.verify = "failed"], status |-> "FAILED"]
  ELSE [receipt |-> [r EXCEPT !.verify = IF e = "exact" THEN "succeeded" ELSE "uncertain"],
        status |-> "SUCCEEDED"]

VerifyOutcome(r, e) ==
  CASE e = "exact" -> [receipt |-> [r EXCEPT !.verify = "succeeded"], status |-> "SUCCEEDED"]
    [] e \in {"other", "failed", "lost"} -> [receipt |-> [r EXCEPT !.verify = "failed"], status |-> "FAILED"]
    [] OTHER -> [receipt |-> [r EXCEPT !.verify = "uncertain"], status |-> "UNCERTAIN"]

(* An outcome: saveReceipt of the whole receipt, then the transition.       *)
Judge(o) ==
  /\ drec' = o.receipt
  /\ EndAs(o.receipt.auth, o.status)

Started(role, i) == Append(jobs, Job(role, i))

StartJob(role, i) ==
  /\ Len(jobs) < MaxJobs
  /\ sent' = [sent EXCEPT ![i] = Append(@, role)]

\* Mutant: an earlier receipt does not stand in the way.
MayDeploy_Again(i) == writer = "nobody" /\ Authorized(i)

(* v2Deploy, first segment: without a receipt of this task, and authorized. *)
(* (With a receipt it only reports what the receipt says.)                  *)
MayDeploy(i) == writer = "nobody" /\ drec = NoReceipt /\ Authorized(i)

NewReceipt(i) == [NoReceipt EXCEPT !.auth = i, !.refs = local.refs, !.deploy = "running"]

DeployProfile(i) ==
  /\ plan.deploy = "profile"
  /\ MayDeploy(i)
  /\ StartJob("deploy", i)
  /\ jobs' = Started("deploy", i)
  /\ drec' = [NewReceipt(i) EXCEPT !.djob = Len(jobs) + 1]
  /\ UNCHANGED <<plan, local, auth, mrec, writer, crashes, overdue, dcall, vcall>>

(* The job is started and the Gateway dies before saveReceipt.              *)
DeployProfileCrash(i) ==
  /\ plan.deploy = "profile"
  /\ MayDeploy(i)
  /\ StartJob("deploy", i)
  /\ jobs' \in Restarted(Started("deploy", i))
  /\ Restart
  /\ UNCHANGED <<plan, local, auth, mrec, overdue, drec>>

DeployCapability(i) ==
  /\ plan.deploy = "capability"
  /\ MayDeploy(i)
  /\ writer' = "deploy"
  /\ dcall' = [pc |-> "role", receipt |-> NewReceipt(i)]
  /\ UNCHANGED <<plan, local, auth, mrec, sent, crashes, overdue, drec, jobs, vcall>>

(* The role check is refused, or its answer lost.                           *)
DeployRefused ==
  /\ dcall.pc = "role"
  /\ dcall' = Idle
  /\ writer' = "nobody"
  /\ UNCHANGED <<plan, local, auth, mrec, sent, crashes, overdue, drec, jobs, vcall>>

\* Mutant: the receipt is saved only after the call.
SaveDeployIntent_Late ==
  /\ dcall.pc = "role"
  /\ dcall' = [dcall EXCEPT !.pc = "saved"]
  /\ UNCHANGED <<plan, shared, overdue, drec, jobs, vcall>>

(* Uncertainty first: the receipt says deployUncertain before the call.     *)
SaveDeployIntent ==
  /\ dcall.pc = "role"
  /\ drec' = dcall.receipt
  /\ dcall' = [dcall EXCEPT !.pc = "saved"]
  /\ UNCHANGED <<plan, shared, overdue, jobs, vcall>>

InvokeDeploy ==
  /\ dcall.pc = "saved"
  /\ sent' = [sent EXCEPT ![dcall.receipt.auth] = Append(@, "deploy")]
  /\ dcall' = [dcall EXCEPT !.pc = "invoking"]
  /\ UNCHANGED <<plan, local, auth, mrec, writer, crashes, overdue, drec, jobs, vcall>>

DeployAnswered ==
  /\ dcall.pc = "invoking"
  /\ \E e \in {"exact", "other", "missing"} : Judge(DeployOutcome(dcall.receipt, e))
  /\ dcall' = Idle
  /\ writer' = "nobody"
  /\ UNCHANGED <<plan, local, mrec, sent, crashes, overdue, jobs, vcall>>

(* The receipt is saved and the Gateway dies before the transition.         *)
DeployAnsweredCrash ==
  /\ dcall.pc = "invoking"
  /\ \E e \in {"exact", "other", "missing"} : drec' = DeployOutcome(dcall.receipt, e).receipt
  /\ Restart
  /\ jobs' \in Restarted(jobs)
  /\ UNCHANGED <<plan, local, auth, mrec, sent, overdue>>

-----------------------------------------------------------------------------
(* v2Verify enters only with a receipt of the present action, not one of an *)
(* older authorization, not one of unknown outcome, and not when done.      *)
MayVerify(v) ==
  /\ vcall[v] = Idle
  /\ drec # NoReceipt
  /\ drec.refs = local.refs
  /\ ActiveIds \subseteq {drec.auth}
  /\ ~(plan.deploy = "capability" /\ drec.deploy \in {"running", "uncertain"})
  /\ drec.verify # "succeeded"

\* Mutant: only a job that succeeded is taken to have ended.
Ended_ExactOnly(k) == k # 0 /\ jobs[k].state = "exact"

(* A deploy job that ended badly ends the authorization.                    *)
Ended(k) == k # 0 /\ jobs[k].state \notin {"running", "orphan"}

DeployJobEnded(v) ==
  /\ MayVerify(v)
  /\ drec.deploy # "succeeded"
  /\ Ended(drec.djob)
  /\ Authorized(drec.auth)

(* The receipts a verify call goes on with: deployed before, or just found  *)
(* deployed.                                                                *)
Deployed(v) ==
  {r \in {[drec EXCEPT !.deploy = "succeeded"]} :
     /\ MayVerify(v)
     /\ \/ drec.deploy = "succeeded"
        \/ DeployJobEnded(v) /\ jobs[drec.djob].state = "exact"
     /\ Authorized(drec.auth)}

VerifyProfile(v) ==
  /\ plan.verify = "profile"
  /\ \E r \in Deployed(v) :
       /\ r.vjob = 0
       /\ StartJob("verify", r.auth)
       /\ jobs' = Started("verify", r.auth)
       /\ drec' = [r EXCEPT !.vjob = Len(jobs) + 1, !.verify = "running"]
  /\ UNCHANGED <<plan, local, auth, mrec, writer, crashes, overdue, dcall, vcall>>

(* The deploy is recorded and the verify job cannot be started.             *)
VerifyNotStarted(v) ==
  /\ plan.verify = "profile"
  /\ drec' \in {r \in Deployed(v) : r.vjob = 0}
  /\ UNCHANGED <<plan, shared, overdue, jobs, dcall, vcall>>

(* The verify job is started and the Gateway dies before saveReceipt.       *)
VerifyProfileCrash(v) ==
  /\ plan.verify = "profile"
  /\ \E r \in Deployed(v) :
       /\ r.vjob = 0
       /\ StartJob("verify", r.auth)
       /\ jobs' \in Restarted(Started("verify", r.auth))
       /\ drec' = r
  /\ Restart
  /\ UNCHANGED <<plan, local, auth, mrec, overdue>>

(* A capability verify checks its role first; the receipt it will save      *)
(* later is the one it holds now.                                           *)
VerifyCapability(v) ==
  /\ plan.verify = "capability"
  /\ \E r \in Deployed(v) :
       /\ drec' = r
       /\ vcall' = [vcall EXCEPT ![v] = [pc |-> "role", receipt |-> r]]
  /\ UNCHANGED <<plan, shared, overdue, jobs, dcall>>

VerifyReturns(v) ==
  /\ vcall[v].pc = "role"
  /\ vcall' = [vcall EXCEPT ![v] = Idle]
  /\ UNCHANGED <<plan, shared, overdue, drec, jobs, dcall>>

(* Uncertainty first, unless the receipt already said running when this    *)
(* call loaded it.                                                          *)
SaveVerifyIntent(v) ==
  /\ vcall[v].pc = "role"
  /\ vcall[v].receipt.verify # "running"
  /\ drec' = [vcall[v].receipt EXCEPT !.verify = "running"]
  /\ vcall' = [vcall EXCEPT ![v] = [pc |-> "saved", receipt |-> drec']]
  /\ UNCHANGED <<plan, shared, overdue, jobs, dcall>>

InvokeVerify(v) ==
  /\ vcall[v].pc = "saved"
  /\ sent' = [sent EXCEPT ![vcall[v].receipt.auth] = Append(@, "verify")]
  /\ vcall' = [vcall EXCEPT ![v].pc = "invoking"]
  /\ UNCHANGED <<plan, local, auth, mrec, writer, crashes, overdue, drec, jobs, dcall>>

(* What a verify call can conclude in its present segment: a deploy job     *)
(* that ended badly; a verify job that ended; a receipt that said running   *)
(* when the call loaded it, so that an earlier call's outcome is unknown;   *)
(* the answer of the capability.                                            *)
Conclusions(v) ==
  {DeployOutcome(drec, jobs[k].state) :
     k \in {k \in {drec.djob} : DeployJobEnded(v) /\ jobs[k].state # "exact"}}
  \cup {VerifyOutcome(r, jobs[r.vjob].state) :
     r \in {r \in Deployed(v) : plan.verify = "profile" /\ Ended(r.vjob)}}
  \cup {VerifyOutcome(c.receipt, "missing") :
     c \in {c \in {vcall[v]} : c.pc = "role" /\ c.receipt.verify = "running"}}
  \cup {VerifyOutcome(c.receipt, e) :
     c \in {c \in {vcall[v]} : c.pc = "invoking"}, e \in {"exact", "other", "missing"}}

Conclude(v) ==
  /\ \E o \in Conclusions(v) : Judge(o)
  /\ vcall' = [vcall EXCEPT ![v] = Idle]
  /\ UNCHANGED <<plan, local, mrec, sent, writer, crashes, overdue, jobs, dcall>>

(* The receipt is saved and the Gateway dies before the transition.         *)
ConcludeCrash(v) ==
  /\ \E o \in Conclusions(v) : drec' = o.receipt
  /\ Restart
  /\ jobs' \in Restarted(jobs)
  /\ UNCHANGED <<plan, local, auth, mrec, sent, overdue>>

-----------------------------------------------------------------------------
(* What grande_task_status shows of the delivery (taskProgressCore.ts): it  *)
(* reads the rows and writes nothing.                                       *)
\* Mutant: a job nobody has collected yet counts as not started.
StageFromJob_Collected(k) ==
  IF k # 0 /\ jobs[k].state \in {"failed", "lost"} THEN "blocked" ELSE "pending"

StageFromJob(k) ==
  CASE k # 0 /\ ~Ended(k) -> "running"
    [] Ended(k) /\ jobs[k].state \in {"failed", "lost"} -> "blocked"
    [] OTHER -> "pending"

DeployShown == IF drec.deploy = "succeeded" THEN "done" ELSE StageFromJob(drec.djob)

VerifyShown ==
  CASE drec.verify = "succeeded" -> "done"
    [] drec.verify # "succeeded" /\ DeployShown = "blocked" -> "pending"
    [] OTHER -> StageFromJob(drec.vjob)

(* deriveExecutingStage does not ask whose receipt it reads.                *)
StageShown ==
  CASE drec = NoReceipt -> "merge"
    [] drec.verify # "pending" \/ drec.deploy = "succeeded" -> "verify"
    [] OTHER -> "deploy"

(* projectDeliveryAuthorization, for the latest row of the task.            *)
Shown(i) ==
  CASE auth[i].status = "EXECUTING" -> StageShown
    [] auth[i].status = "SUCCEEDED" /\ drec.auth = i /\ drec.verify = "succeeded" -> "done"
    [] auth[i].status = "SUCCEEDED" /\ ~(drec.auth = i /\ drec.verify = "succeeded") -> "failed"
    [] OTHER -> auth[i].status

(* nextAction of a merged task.                                             *)
NextAction ==
  CASE "blocked" \in {DeployShown, VerifyShown} -> "repair"
    [] DeployShown = "pending" -> "deploy"
    [] "blocked" \notin {DeployShown, VerifyShown} /\ "running" \in {DeployShown, VerifyShown} -> "wait"
    [] DeployShown = "done" /\ VerifyShown = "pending" -> "deploy_verify"
    [] OTHER -> "nothing"

-----------------------------------------------------------------------------
(* The runner collects a job it started; the execution deadline passes.     *)
JobFinishes(k) ==
  /\ jobs[k].state = "running"
  /\ \E e \in JobEnds : jobs' = [jobs EXCEPT ![k].state = e]
  /\ UNCHANGED <<plan, shared, overdue, drec, dcall, vcall>>

DeadlinePasses(i) ==
  /\ auth[i].status = "EXECUTING"
  /\ i \notin overdue
  /\ overdue' = overdue \cup {i}
  /\ UNCHANGED <<plan, shared, drec, jobs, dcall, vcall>>

Deploys ==
  \/ \E i \in Ids : DeployProfile(i) \/ DeployProfileCrash(i) \/ DeployCapability(i)
  \/ DeployRefused \/ SaveDeployIntent \/ InvokeDeploy \/ DeployAnswered \/ DeployAnsweredCrash

Verifies(v) ==
  \/ VerifyProfile(v) \/ VerifyNotStarted(v) \/ VerifyProfileCrash(v)
  \/ VerifyCapability(v) \/ VerifyReturns(v)
  \/ SaveVerifyIntent(v) \/ InvokeVerify(v) \/ Conclude(v) \/ ConcludeCrash(v)

Around ==
  \/ \E k \in DOMAIN jobs : JobFinishes(k)
  \/ \E i \in Ids : DeadlinePasses(i)

DeployNext == Deploys \/ (\E v \in Verifiers : Verifies(v)) \/ Around

-----------------------------------------------------------------------------
(* The stage on its own: the merge stage (module MergeStage) appears as the *)
(* authorizations it hands over, already merged and recorded (perhaps after *)
(* the deadline, or after the action changed), and as the re-entered        *)
(* reconciliation that condemns one; the action may change.                 *)
Init ==
  /\ local = [refs |-> 1]
  /\ auth = [i \in Ids |-> [status |-> "NONE", refs |-> 1]]
  /\ mrec = [i \in Ids |-> "none"]
  /\ sent = [i \in Ids |-> <<>>]
  /\ writer = "nobody"
  /\ crashes = 0
  /\ DInit

Granted(i) ==
  /\ writer = "nobody"
  /\ ActiveIds = {}
  /\ auth[i].status = "NONE"
  /\ \E r \in {1, local.refs} : auth' = [auth EXCEPT ![i] = [status |-> "EXECUTING", refs |-> r]]
  /\ mrec' = [mrec EXCEPT ![i] = "ok"]
  /\ overdue' \in {overdue, overdue \cup {i}}
  /\ UNCHANGED <<plan, local, sent, writer, crashes, drec, jobs, dcall, vcall>>

Condemned(i) ==
  /\ writer = "nobody"
  /\ auth[i].status = "EXECUTING"
  /\ EndAs(i, "UNCERTAIN")
  /\ UNCHANGED <<local, mrec, sent, writer, crashes, own>>

ActionChanges ==
  /\ local' = [local EXCEPT !.refs = 2]
  /\ UNCHANGED <<auth, mrec, sent, writer, crashes, own>>

Next ==
  \/ DeployNext
  \/ Crash \/ ActionChanges
  \/ \E i \in Ids : Granted(i) \/ Condemned(i)

\* The agent keeps calling the two tools, and a deployment-host job ends: its
\* runner kills it at the profile's timeout.
Fairness ==
  /\ \A v \in Verifiers : WF_dvars(Conclude(v)) /\ WF_dvars(VerifyProfile(v))
  /\ \A k \in 1..MaxJobs : WF_dvars(k \in DOMAIN jobs /\ JobFinishes(k))

Spec == Init /\ [][Next]_dvars
FairSpec == Spec /\ Fairness

-----------------------------------------------------------------------------
Count(s, x) == Cardinality({n \in DOMAIN s : s[n] = x})
Did(i, x) == \E n \in DOMAIN sent[i] : sent[i][n] = x

TypeOK ==
  /\ plan \in Plans
  /\ local.refs \in {1, 2}
  /\ \A i \in Ids :
       /\ auth[i].status \in {"NONE", "READY", "APPROVED", "EXECUTING", "REJECTED", "REVOKED",
                               "STALE", "EXPIRED", "SUCCEEDED", "FAILED", "UNCERTAIN"}
       /\ mrec[i] \in {"none", "ok", "torn"}
       /\ \A n \in DOMAIN sent[i] : sent[i][n] \in {"merge", "deploy", "verify"}
  /\ writer \in {"nobody", "pr_merge", "deploy"}
  /\ crashes \in 0..MaxCrash
  /\ overdue \subseteq Ids
  /\ drec \in Receipts
  /\ \A k \in DOMAIN jobs : jobs[k] \in [role : {"deploy", "verify"}, auth : Ids,
                                        state : JobStates]
  /\ dcall \in [pc : {"idle", "role", "saved", "invoking"}, receipt : Receipts]
  /\ vcall \in [Verifiers -> [pc : {"idle", "role", "saved", "invoking"}, receipt : Receipts]]

(* A task is deployed at most once, whatever is called again, lost or       *)
(* crashed, and under whichever authorization: its one receipt stands in    *)
(* the way of a second deploy.  (A job is started before its receipt is     *)
(* saved, so for profiles a crash between the two allows another.)          *)
DeployedOnce ==
  \A i, j \in Ids :
    /\ Count(sent[i], "deploy") <= 1 + (IF plan.deploy = "profile" THEN crashes ELSE 0)
    /\ Did(i, "deploy") /\ Did(j, "deploy") =>
         i = j \/ (plan.deploy = "profile" /\ crashes > 0)

(* However often the tools are called, a verification is started at most    *)
(* once, and once more for each time the Gateway died.                      *)
OncePerLife == \A i \in Ids : Count(sent[i], "verify") <= 1 + crashes

(* A deploy whose request may have gone out is always on record, under the  *)
(* authorization that paid for it: no crash can make it look not started    *)
(* (but a job's, see above).                                                *)
DeployOnRecord ==
  \A i \in Ids : Did(i, "deploy") =>
    drec.auth = i \/ (plan.deploy = "profile" /\ crashes > 0)

(* SUCCEEDED rests on receipts: the deploy and the verification of this     *)
(* authorization both ended with exactly its evidence.                      *)
SucceededIsProven ==
  \A i \in Ids : auth[i].status = "SUCCEEDED" =>
    drec.auth = i /\ drec.deploy = "succeeded" /\ drec.verify = "succeeded"

(* Verification never starts for a deploy that failed or whose outcome is   *)
(* unknown, or for another authorization's deploy.                          *)
VerifyFollowsDeploy ==
  \A i \in Ids : Did(i, "verify") => drec.auth = i /\ drec.deploy = "succeeded"

(* A deploy or verify job is recorded before its result can count: a        *)
(* receipt that claims success points at jobs that ended with the evidence. *)
SuccessHasItsJob ==
  /\ (plan.deploy = "profile" /\ drec.deploy = "succeeded") => jobs[drec.djob].state = "exact"
  /\ (plan.verify = "profile" /\ drec.verify = "succeeded") =>
       jobs[drec.vjob].state = "exact" /\ jobs[drec.vjob].role = "verify" /\ drec.djob < drec.vjob

(* However calls, losses and crashes fall, a deployment and a verification  *)
(* are each started once, on record, the second after the first.            *)
DeployInv == TypeOK /\ DeployedOnce /\ OncePerLife /\ DeployOnRecord /\ VerifyFollowsDeploy

(* Success rests on receipts, and receipts on jobs that ended with exactly  *)
(* the evidence they claim.                                                 *)
SuccessIsProven == SucceededIsProven /\ SuccessHasItsJob

(* The status never misleads about a delivery by jobs: what succeeded is    *)
(* shown as done, verification is advised only where a call can start or    *)
(* conclude it, waiting only while a job has not ended, and nothing only at *)
(* the end.                                                                 *)
StatusIsHonest ==
  plan = [deploy |-> "profile", verify |-> "profile"] =>
    \A i \in Ids :
      /\ auth[i].status = "SUCCEEDED" => Shown(i) = "done"
      /\ (drec.auth = i /\ Authorized(i)) =>
           /\ NextAction = "deploy_verify" =>
                \A v \in Verifiers : Conclusions(v) # {} \/ \E r \in Deployed(v) : r.vjob = 0
           /\ NextAction = "wait" => \E k \in DOMAIN jobs : jobs[k].auth = i /\ ~Ended(k)
           /\ NextAction # "nothing" \/ crashes > 0

(* Design 8.2: after the deadline no job is started, by whichever call and  *)
(* however long it waited before.                                           *)
NothingAfterDeadline ==
  [][Len(jobs') > Len(jobs) => jobs'[Len(jobs')].auth \notin overdue]_dvars

(* A recorded deployment by jobs is carried to an end by further verify     *)
(* calls, unless its deadline passes, its action changes or the Gateway     *)
(* restarts.                                                                *)
DeliveryEnds ==
  \A i \in Ids :
    (auth[i].status = "EXECUTING" /\ drec.auth = i /\ plan.deploy = "profile")
      ~> \/ auth[i].status # "EXECUTING"
         \/ i \in overdue \/ local.refs # drec.refs \/ crashes > 0
=============================================================================
