------------------------------- MODULE Delivery -------------------------------
(***************************************************************************)
(* One task's authorized delivery from end to end: the merge stage (module *)
(* MergeStage) and the deploy and verify stages (module DeployStage) over  *)
(* the same authorizations, merge receipts, repo write lock and process.   *)
(* A crash ends every call of both stages.                                 *)
(***************************************************************************)
EXTENDS MergeStage, FiniteSets

CONSTANTS Plans, Verifiers, MaxJobs

VARIABLES plan, overdue, drec, jobs, dcall, vcall

Deploy == INSTANCE DeployStage

ASSUME DeliveryAssumption ==
  Plans \subseteq [deploy : Deploy!Kinds, verify : Deploy!Kinds] /\ MaxJobs \in Nat

own   == <<plan, overdue, drec, jobs, dcall, vcall>>
dvars == <<mvars, own>>

DeliveryInit == Init /\ Deploy!DInit

(* A step of the merge stage leaves the deploy stage alone, or is a crash.  *)
MergeStep ==
  /\ Next
  /\ IF crashes' = crashes
     THEN UNCHANGED own
     ELSE /\ Deploy!CallsLost
          /\ jobs' \in Deploy!Restarted(jobs)
          /\ UNCHANGED <<plan, overdue, drec>>

(* A step of the deploy stage, or a crash outside a merge call.             *)
DeployStep ==
  /\ Deploy!DeployNext \/ Deploy!Crash
  /\ mcall' = IF crashes' = crashes THEN mcall ELSE Idle
  /\ UNCHANGED <<github, inFlight>>

DeliveryNext == MergeStep \/ DeployStep

DeliverySpec == DeliveryInit /\ [][DeliveryNext]_dvars

-----------------------------------------------------------------------------
DeliveryTypeOK ==
  /\ Deploy!TypeOK
  /\ github \in Github
  /\ inFlight \subseteq Ids
  /\ mcall \in Calls

(* Nothing is deployed or verified but the commit GitHub made from exactly  *)
(* the approved head on exactly the approved base, whoever merged it, and   *)
(* whatever was lost, refused or restarted on the way.                      *)
DeployOnlyExactMerge ==
  \A i \in Ids : (\E n \in DOMAIN sent[i] : sent[i][n] # "merge") => ExactFor(i)

(* SUCCEEDED says that all three stages of this authorization are proven.   *)
SucceededMeansDelivered ==
  \A i \in Ids : auth[i].status = "SUCCEEDED" =>
    /\ ExactFor(i) /\ mrec[i] = "ok"
    /\ drec.auth = i /\ drec.deploy = "succeeded" /\ drec.verify = "succeeded"

(* The delivery as a whole: only the approved change reaches the target,    *)
(* and SUCCEEDED is said of nothing less.                                   *)
DeliveryInv == DeliveryTypeOK /\ DeployOnlyExactMerge /\ SucceededMeansDelivered

(* Before its verifications, which come last or the contract is broken.     *)
BeforeVerify(s) == SubSeq(s, 1, Cardinality({n \in DOMAIN s : s[n] # "verify"}))

GrantTask   == [i \in Ids |-> IF auth[i].status = "NONE" THEN "" ELSE "task"]
Grants      == [i \in Ids |-> GrantOf(auth[i].status)]
GrantedSent == [i \in Ids |-> BeforeVerify(sent[i])]
Unrecorded  == {i \in Ids : Deploy!Did(i, "deploy") /\ drec.auth # i}

DeliveryContract == INSTANCE DeliveryContract WITH
  Tasks <- {"task"}, Plan <- <<"merge", "deploy">>,
  taskOf <- GrantTask, grant <- Grants, sent <- GrantedSent, cut <- Unrecorded

(* A grant is used once and pays for at most one merge request followed by  *)
(* at most one deploy.  A deploy job is started before its receipt is saved *)
(* (a capability is invoked after): a crash between the two, and nothing    *)
(* else, lets the same grant pay for the job again.  (This is               *)
(* DeliveryContract!Spec with an explicit stutter, as below.)               *)
DeliveryImplementsContract ==
  /\ DeliveryContract!Init
  /\ [][UNCHANGED DeliveryContract!vars \/ DeliveryContract!Next]_(DeliveryContract!vars)

(* What module DeployStage assumes of the merge stage, as a refinement: an  *)
(* authorization exists for the deploy stage once its merge is recorded.    *)
HandedOver(i) == mrec[i] = "ok" /\ auth[i].status \notin {"NONE", "READY", "APPROVED"}

(* After its merge request, which comes first or the stage is not covered.  *)
AfterMerge(s) == IF s # <<>> /\ Head(s) = "merge" THEN Tail(s) ELSE s

HandedAuth    == [i \in Ids |-> IF HandedOver(i) THEN [status |-> auth[i].status, refs |-> auth[i].refs]
                                 ELSE [status |-> "NONE", refs |-> 1]]
HandedMrec    == [i \in Ids |-> IF HandedOver(i) THEN "ok" ELSE "none"]
HandedLocal   == [refs |-> local.refs]
HandedSent    == [i \in Ids |-> AfterMerge(sent[i])]
HandedWriter  == IF writer = "deploy" THEN "deploy" ELSE "nobody"
HandedOverdue == {i \in overdue : HandedOver(i)}

Handover == INSTANCE DeployStage WITH
  auth <- HandedAuth, mrec <- HandedMrec, local <- HandedLocal, sent <- HandedSent,
  writer <- HandedWriter, overdue <- HandedOverdue

(* The deploy stage checked on its own has every behaviour it shows behind  *)
(* the real merge stage.  (This is Handover!Spec; the explicit stutter lets *)
(* TLC settle the many steps of the merge stage first.)                     *)
DeployStageSuffices ==
  Handover!Init /\ [][UNCHANGED Handover!dvars \/ Handover!Next]_(Handover!dvars)
=============================================================================
