-------------------------- MODULE DeployStageProofs --------------------------
(***************************************************************************)
(* Proofs about DeployStage, for any number of authorizations, jobs and    *)
(* crashes, whichever way the two actions are named: a deployment and its  *)
(* verification are each started once, on record, in order, and success is *)
(* said only of what is proven.                                            *)
(***************************************************************************)
EXTENDS DeployStage, FiniteSetTheorems, SequenceTheorems, TLAPS

(* Two verify calls that wait for the role check of a capability both go on *)
(* to invoke it, and the later one overwrites what the first concluded; the *)
(* theorems are about every other delivery: one verified by a job, or with  *)
(* one verify call at a time.                                               *)
OneVerifier == plan.verify = "profile" \/ \A v, w \in Verifiers : v = w

Statuses == {"NONE", "READY", "APPROVED", "EXECUTING", "REJECTED", "REVOKED",
             "STALE", "EXPIRED", "SUCCEEDED", "FAILED", "UNCERTAIN"}
Unused   == {"NONE", "READY", "APPROVED"}
Rows     == [status : Statuses, refs : {1, 2}]
JobRows  == [role : {"deploy", "verify"}, auth : Ids, state : JobStates]
Calls    == [pc : {"idle", "role", "saved", "invoking"}, receipt : Receipts]
Effects  == {"merge", "deploy", "verify"}

Typed ==
  /\ plan \in Plans
  /\ local \in [refs : {1, 2}]
  /\ auth \in [Ids -> Rows]
  /\ mrec \in [Ids -> {"none", "ok", "torn"}]
  /\ sent \in [Ids -> Seq(Effects)]
  /\ writer \in {"nobody", "pr_merge", "deploy"}
  /\ crashes \in 0..MaxCrash
  /\ overdue \subseteq Ids
  /\ drec \in Receipts
  /\ jobs \in Seq(JobRows) /\ Len(jobs) <= MaxJobs
  /\ dcall \in Calls
  /\ vcall \in [Verifiers -> Calls]

\* A receipt names a row that was used, and the action that row was approved for.
Owned(r) ==
  \/ r = NoReceipt
  \/ r.auth \in Ids /\ r.refs = auth[r.auth].refs /\ auth[r.auth].status \notin Unused

\* Its jobs are its own, in order, and carry the success it claims.
Backed(r) ==
  /\ r.djob \in 0..Len(jobs) /\ r.vjob \in 0..Len(jobs)
  /\ r.djob # 0 => jobs[r.djob].auth = r.auth
  /\ r.vjob # 0 => jobs[r.vjob].auth = r.auth /\ jobs[r.vjob].role = "verify" /\ r.djob < r.vjob
  /\ (plan.deploy = "profile" /\ r.deploy = "succeeded") => r.djob # 0 /\ jobs[r.djob].state = "exact"
  /\ (plan.verify = "profile" /\ r.verify = "succeeded") => r.vjob # 0 /\ jobs[r.vjob].state = "exact"

\* The deploy call holds the lock; what it will save is a new receipt, and nobody else saves one.
DeployCall ==
  dcall.pc # "idle" =>
    /\ plan.deploy = "capability" /\ writer = "deploy"
    /\ dcall.receipt.auth \in Ids /\ Owned(dcall.receipt)
    /\ dcall.receipt.deploy = "running" /\ dcall.receipt.verify = "pending"
    /\ dcall.receipt.djob = 0 /\ dcall.receipt.vjob = 0
    /\ drec = IF dcall.pc = "role" THEN NoReceipt ELSE dcall.receipt

\* A verify call holds the receipt as it is on disk.
VerifyCall(v) ==
  IF vcall[v].pc = "idle" THEN vcall[v] = Idle
  ELSE /\ plan.verify = "capability"
       /\ vcall[v].receipt = drec /\ drec.auth \in Ids /\ drec.deploy = "succeeded"
       /\ drec.verify # "succeeded"
       /\ vcall[v].pc # "role" => drec.verify = "running"

\* Deploys that were paid for, and whether another may still go out.
DeploysSent ==
  \A i \in Ids : Count(sent[i], "deploy") <=
    (IF plan.deploy = "profile" THEN crashes ELSE 0)
    + (IF drec = NoReceipt \/ dcall.pc = "saved" THEN 0 ELSE 1)

\* A verification may be started that this life of the Gateway has not paid for yet.
MayInvoke ==
  IF plan.verify = "profile" THEN drec.vjob = 0
  ELSE \/ \E v \in Verifiers : vcall[v].pc = "saved"
       \/ /\ drec.verify # "running"
          /\ \/ \E v \in Verifiers : vcall[v].pc = "role"
             \/ drec.auth \in Ids /\ auth[drec.auth].status = "EXECUTING"

VerifiesSent ==
  \A i \in Ids : Count(sent[i], "verify") <= crashes + (IF MayInvoke THEN 0 ELSE 1)

OneActive == \A i, j \in Ids : auth[i].status \in Active /\ auth[j].status \in Active => i = j

\* A verification that succeeded has ended its authorization, unless the Gateway died in between.
SuccessIsFinal ==
  drec.auth \in Ids /\ drec.verify = "succeeded" /\ crashes = 0 => auth[drec.auth].status # "EXECUTING"

\* The receipt on disk, what the calls hold of it, and what was sent: the inductive invariant.
DInv ==
  /\ Typed
  /\ Owned(drec) /\ Backed(drec)
  /\ DeployCall /\ (\A v \in Verifiers : VerifyCall(v))
  /\ DeploysSent /\ DeployOnRecord
  /\ VerifiesSent /\ VerifyFollowsDeploy
  /\ SucceededIsProven /\ SuccessIsFinal
  /\ OneActive
-----------------------------------------------------------------------------
(* What was sent.                                                           *)

\* Counting is sound: a number, zero for what was never sent, and one more after each request.
LEMMA Counts ==
  ASSUME NEW s \in Seq(Effects), NEW x
  PROVE  /\ IsFiniteSet({n \in DOMAIN s : s[n] = x}) /\ Count(s, x) \in Nat
         /\ (~\E n \in DOMAIN s : s[n] = x) => Count(s, x) = 0
<1>1. DOMAIN s = 1..Len(s) /\ Len(s) \in Nat
  BY LenProperties
<1>2. IsFiniteSet(1..Len(s))
  BY <1>1, FS_Interval
<1>3. IsFiniteSet({n \in DOMAIN s : s[n] = x})
  BY <1>1, <1>2, FS_Subset
<1>4. Count(s, x) \in Nat
  BY <1>3, FS_CardinalityType DEF Count
<1>5. ASSUME ~\E n \in DOMAIN s : s[n] = x PROVE Count(s, x) = 0
  <2>1. {n \in DOMAIN s : s[n] = x} = {}
    BY <1>5
  <2> QED
    BY <2>1, FS_EmptySet DEF Count
<1> QED
  BY <1>3, <1>4, <1>5

\* One request more.
LEMMA CountAppend ==
  ASSUME NEW s \in Seq(Effects), NEW y \in Effects, NEW x
  PROVE  /\ Count(Append(s, y), x) = Count(s, x) + (IF x = y THEN 1 ELSE 0)
         /\ (\E n \in DOMAIN Append(s, y) : Append(s, y)[n] = x) <=> (\E n \in DOMAIN s : s[n] = x) \/ x = y
<1> DEFINE t == Append(s, y)
           S == {n \in DOMAIN s : s[n] = x}
           T == {n \in DOMAIN t : t[n] = x}
<1>1. /\ Len(s) \in Nat /\ DOMAIN s = 1..Len(s) /\ DOMAIN t = 1..Len(s) + 1
      /\ \A n \in 1..Len(s) : t[n] = s[n]
      /\ t[Len(s) + 1] = y
  BY LenProperties, AppendProperties
<1> HIDE DEF t
<1>2. IsFiniteSet(S)
  BY Counts
<1>3. Cardinality(S) \in Nat /\ Len(s) + 1 \notin S
  BY <1>1, <1>2, FS_CardinalityType
<1>4. /\ Count(t, x) = Cardinality(T) /\ Count(s, x) = Cardinality(S)
      /\ (\E n \in DOMAIN t : t[n] = x) <=> T # {}
      /\ (\E n \in DOMAIN s : s[n] = x) <=> S # {}
  BY DEF Count
<1>5. CASE x = y
  <2>1. T = S \cup {Len(s) + 1}
    BY <1>1, <1>5
  <2>2. Cardinality(T) = Cardinality(S) + 1 /\ T # {}
    BY <1>2, <1>3, <2>1, FS_AddElement
  <2> QED
    BY <1>4, <1>5, <2>2 DEF t
<1>6. CASE x # y
  <2>1. T = S
    BY <1>1, <1>6
  <2> HIDE DEF S, T
  <2> QED
    BY <1>3, <1>4, <1>6, <2>1 DEF t
<1> QED
  BY <1>5, <1>6

\* A request under one authorization is on its own list only.
LEMMA Sends ==
  ASSUME Typed, NEW i \in Ids, NEW y \in Effects, sent' = [sent EXCEPT ![i] = Append(@, y)]
  PROVE  /\ sent' \in [Ids -> Seq(Effects)]
         /\ \A j \in Ids, x \in Effects :
              /\ Did(j, x)' <=> Did(j, x) \/ (j = i /\ x = y)
              /\ Count(sent'[j], x) = Count(sent[j], x) + (IF j = i /\ x = y THEN 1 ELSE 0)
              /\ Count(sent[j], x) \in Nat
<1>1. sent' \in [Ids -> Seq(Effects)]
  BY AppendProperties DEF Typed
<1>2. ASSUME NEW j \in Ids, NEW x \in Effects
      PROVE  /\ Did(j, x)' <=> Did(j, x) \/ (j = i /\ x = y)
             /\ Count(sent'[j], x) = Count(sent[j], x) + (IF j = i /\ x = y THEN 1 ELSE 0)
             /\ Count(sent[j], x) \in Nat
  <2>1. Count(sent[j], x) \in Nat /\ sent[j] \in Seq(Effects)
    BY Counts DEF Typed
  <2>2. CASE j = i
    <3>1. sent'[j] = Append(sent[j], y)
      BY <2>2 DEF Typed
    <3> QED
      BY <2>1, <2>2, <3>1, CountAppend DEF Did
  <2>3. CASE j # i
    <3>1. sent'[j] = sent[j]
      BY <2>3 DEF Typed
    <3> QED
      BY <2>1, <2>3, <3>1 DEF Did
  <2> QED
    BY <2>2, <2>3
<1> QED
  BY <1>1, <1>2

\* Nothing was sent under an authorization that the record does not show.
LEMMA NotSent ==
  ASSUME Typed, NEW i \in Ids, NEW x \in Effects
  PROVE  Count(sent[i], x) \in Nat /\ (~Did(i, x) => Count(sent[i], x) = 0)
  BY Counts DEF Typed, Did

-----------------------------------------------------------------------------
(* What happens to jobs and rows.                                           *)

\* Jobs are added; those there keep their task, and a success stays one.
JobsKept ==
  /\ jobs' \in Seq(JobRows) /\ Len(jobs) <= Len(jobs') /\ Len(jobs') <= MaxJobs
  /\ \A k \in 1..Len(jobs) :
       /\ jobs'[k].auth = jobs[k].auth /\ jobs'[k].role = jobs[k].role
       /\ jobs[k].state = "exact" => jobs'[k].state = "exact"

\* A job is added at the end.
LEMMA StartedJob ==
  ASSUME Typed, NEW role \in {"deploy", "verify"}, NEW i \in Ids, Len(jobs) < MaxJobs
  PROVE  /\ Started(role, i) \in Seq(JobRows) /\ Len(Started(role, i)) = Len(jobs) + 1
         /\ \A k \in 1..Len(jobs) : Started(role, i)[k] = jobs[k]
         /\ Started(role, i)[Len(jobs) + 1] = Job(role, i)
         /\ Job(role, i) \in JobRows /\ Job(role, i).auth = i /\ Job(role, i).role = role
         /\ Len(jobs) \in Nat
<1>1. Job(role, i) \in JobRows
  BY DEF Job, JobRows, JobStates, Typed
<1>2. Job(role, i).auth = i /\ Job(role, i).role = role
  BY DEF Job
<1> QED
  BY <1>1, <1>2, AppendProperties, LenProperties DEF Typed, Started

\* A restart closes jobs that were running, and no others.
LEMMA RestartedJobs ==
  ASSUME NEW js \in Seq(JobRows), NEW ks \in Restarted(js)
  PROVE  /\ ks \in Seq(JobRows) /\ Len(ks) = Len(js)
         /\ \A k \in 1..Len(js) :
              /\ ks[k].auth = js[k].auth /\ ks[k].role = js[k].role
              /\ js[k].state = "exact" => ks[k].state = "exact"
<1>1. PICK gone \in SUBSET DOMAIN js :
        ks = [k \in DOMAIN js |-> IF js[k].state \in {"running", "orphan"}
                                  THEN [js[k] EXCEPT !.state = IF k \in gone THEN "lost" ELSE "orphan"]
                                  ELSE js[k]]
  BY DEF Restarted
<1>2. Len(js) \in Nat /\ DOMAIN js = 1..Len(js) /\ \A k \in 1..Len(js) : js[k] \in JobRows
  BY LenProperties, ElementOfSeq
<1>3. ASSUME NEW k \in 1..Len(js)
      PROVE  /\ ks[k] \in JobRows /\ ks[k].auth = js[k].auth /\ ks[k].role = js[k].role
             /\ js[k].state = "exact" => ks[k].state = "exact"
  BY <1>1, <1>2 DEF JobRows, JobStates
<1>4. ks \in [1..Len(js) -> JobRows]
  BY <1>1, <1>2, <1>3
<1>5. ks \in Seq(JobRows) /\ Len(ks) = Len(js)
  BY <1>2, <1>4, IsASeq, LenProperties
<1> QED
  BY <1>3, <1>5

\* A receipt keeps the jobs behind it.
LEMMA BackedStays ==
  ASSUME Typed, JobsKept, UNCHANGED plan, NEW r \in Receipts, Backed(r)
  PROVE  Backed(r)'
<1>1. Len(jobs) \in Nat /\ Len(jobs') \in Nat /\ r.djob \in Nat /\ r.vjob \in Nat
  BY LenProperties, DeployAssumption DEF Typed, JobsKept, Receipts
<1> QED
  BY <1>1 DEF Backed, JobsKept

\* A row in use keeps the action it is for, and does not become unused.
RowsKept ==
  /\ auth' \in [Ids -> Rows]
  /\ \A i \in Ids : auth[i].status \notin Unused =>
       auth'[i].refs = auth[i].refs /\ auth'[i].status \notin Unused

\* A receipt keeps its row.
LEMMA OwnedStays ==
  ASSUME RowsKept, NEW r, Owned(r)
  PROVE  Owned(r)'
  BY DEF RowsKept, Owned

\* v2Transition moves an EXECUTING row, and nothing else.
LEMMA EndsRow ==
  ASSUME Typed, NEW i \in Ids, NEW s \in {"SUCCEEDED", "FAILED", "UNCERTAIN", "EXECUTING"}, EndAs(i, s)
  PROVE  /\ RowsKept
         /\ \A j \in Ids : \/ auth'[j].status = auth[j].status
                           \/ j = i /\ auth'[j].status = s /\ s # "EXECUTING"
         /\ s # "EXECUTING" => auth'[i].status # "EXECUTING"
<1>1. CASE s # "EXECUTING" /\ auth[i].status = "EXECUTING"
  <2>1. auth' = [auth EXCEPT ![i].status = s]
    BY <1>1 DEF EndAs
  <2>2. auth'[i] = [auth[i] EXCEPT !.status = s] /\ \A j \in Ids \ {i} : auth'[j] = auth[j]
    BY <2>1 DEF Typed
  <2>3. auth[i] \in Rows /\ s \in Statuses /\ s \notin Unused
    BY DEF Typed, Statuses, Unused
  <2>4. auth'[i] \in Rows /\ auth'[i].status = s /\ auth'[i].refs = auth[i].refs
    BY <2>2, <2>3 DEF Rows
  <2>5. auth' \in [Ids -> Rows]
    BY <2>1, <2>2, <2>4 DEF Typed
  <2> QED
    BY <1>1, <2>2, <2>3, <2>4, <2>5 DEF RowsKept
<1>2. CASE ~(s # "EXECUTING" /\ auth[i].status = "EXECUTING")
  BY <1>2 DEF EndAs, Typed, RowsKept
<1> QED
  BY <1>1, <1>2
-----------------------------------------------------------------------------
(* The world outside, and the death of the Gateway.                         *)

\* What the merge stage, the Human and the agent may do to what the stages share.
Outside ==
  /\ local' \in [refs : {1, 2}] /\ mrec' \in [Ids -> {"none", "ok", "torn"}]
  /\ RowsKept
  /\ \A i \in Ids :
       /\ auth'[i].status = "SUCCEEDED" => auth[i].status = "SUCCEEDED"
       /\ auth'[i].status = "EXECUTING" => auth[i].status \in Unused \cup {"EXECUTING"}
  /\ OneActive'
  /\ UNCHANGED sent \/ \E i \in Ids : sent' = [sent EXCEPT ![i] = Append(@, "merge")]

\* The stage's own state does not move: a running deploy call keeps the lock.
Stays ==
  /\ UNCHANGED <<plan, drec, jobs, dcall, vcall, crashes>>
  /\ overdue' \subseteq Ids
  /\ writer' \in {"nobody", "pr_merge", "deploy"} /\ (dcall.pc # "idle" => writer' = writer)

Dies == Restart /\ jobs' \in Restarted(jobs) /\ UNCHANGED <<plan, overdue, drec>>

\* No call, no receipt of one.
LEMMA IdleCall == Idle \in Calls /\ NoReceipt \in Receipts /\ Idle.pc = "idle" /\ NoReceipt.auth = NoId
  BY DeployAssumption DEF Idle, Calls, Receipts, NoReceipt

\* A receipt that names a row of the table is not NoReceipt.
LEMMA Named ==
  ASSUME Typed
  PROVE  /\ drec = NoReceipt => drec.auth \notin Ids
         /\ drec # NoReceipt /\ Owned(drec) => drec.auth \in Ids
  BY DeployAssumption DEF Owned, NoReceipt

\* What is sent to others than the target leaves deploys and verifications as they were.
LEMMA OutsideSends ==
  ASSUME Typed, Outside
  PROVE  /\ sent' \in [Ids -> Seq(Effects)]
         /\ \A i \in Ids, x \in {"deploy", "verify"} :
              (Did(i, x)' <=> Did(i, x)) /\ Count(sent'[i], x) = Count(sent[i], x)
<1>1. CASE UNCHANGED sent
  BY <1>1 DEF Typed, Did
<1>2. ASSUME NEW i \in Ids, sent' = [sent EXCEPT ![i] = Append(@, "merge")]
      PROVE  /\ sent' \in [Ids -> Seq(Effects)]
             /\ \A j \in Ids, x \in {"deploy", "verify"} :
                  (Did(j, x)' <=> Did(j, x)) /\ Count(sent'[j], x) = Count(sent[j], x)
  <2>1. "merge" \in Effects /\ {"deploy", "verify"} \subseteq Effects
    BY DEF Effects
  <2>2. ASSUME NEW j \in Ids, NEW x \in {"deploy", "verify"}
        PROVE  (Did(j, x)' <=> Did(j, x)) /\ Count(sent'[j], x) = Count(sent[j], x)
    <3>1. /\ Did(j, x)' <=> Did(j, x) \/ (j = i /\ x = "merge")
          /\ Count(sent'[j], x) = Count(sent[j], x) + (IF j = i /\ x = "merge" THEN 1 ELSE 0)
          /\ Count(sent[j], x) \in Nat
      BY <1>2, <2>1, Sends
    <3> QED
      BY <3>1
  <2> QED
    BY <1>2, <2>1, <2>2, Sends
<1> QED
  BY <1>1, <1>2 DEF Outside

\* The stage stays, or dies: neither loses what is on record.
LEMMA OutsideKeeps ==
  ASSUME DInv, Outside, Stays \/ Dies
  PROVE  DInv'
<1>1. /\ sent' \in [Ids -> Seq(Effects)]
      /\ \A i \in Ids, x \in {"deploy", "verify"} :
           (Did(i, x)' <=> Did(i, x)) /\ Count(sent'[i], x) = Count(sent[i], x)
  BY OutsideSends DEF DInv
<1>2. /\ UNCHANGED <<plan, drec>> /\ RowsKept /\ JobsKept
      /\ overdue' \subseteq Ids /\ writer' \in {"nobody", "pr_merge", "deploy"}
  <2>1. JobsKept
    <3>1. Len(jobs) \in Nat
      BY LenProperties DEF DInv, Typed
    <3>2. CASE Stays
      BY <3>1, <3>2 DEF DInv, Typed, JobsKept, Stays
    <3>3. CASE Dies
      BY <3>1, <3>3, RestartedJobs DEF DInv, Typed, JobsKept, Dies
    <3> QED
      BY <3>2, <3>3
  <2> QED
    BY <2>1 DEF Outside, Stays, Dies, Restart, DInv, Typed
<1>3. Owned(drec)' /\ Backed(drec)'
  <2>1. drec \in Receipts
    BY DEF DInv, Typed
  <2> QED
    BY <1>2, <2>1, OwnedStays, BackedStays DEF DInv, Owned, Backed
<1>4. DeployOnRecord' /\ VerifyFollowsDeploy' /\ SucceededIsProven' /\ OneActive'
  <2>1. crashes' >= crashes /\ crashes \in Nat /\ crashes' \in Nat
    BY DEF Stays, Dies, Restart, DInv, Typed
  <2>2. DeployOnRecord' /\ VerifyFollowsDeploy'
    <3>1. \A i \in Ids : (Did(i, "deploy")' <=> Did(i, "deploy")) /\ (Did(i, "verify")' <=> Did(i, "verify"))
      BY <1>1
    <3>2. DeployOnRecord'
      BY <1>2, <2>1, <3>1 DEF DInv, DeployOnRecord
    <3>3. VerifyFollowsDeploy'
      BY <1>2, <3>1 DEF DInv, VerifyFollowsDeploy
    <3> QED
      BY <3>2, <3>3
  <2>3. SucceededIsProven'
    BY <1>2 DEF DInv, SucceededIsProven, Outside
  <2> QED
    BY <2>2, <2>3 DEF Outside
<1>5. \A i \in Ids : Count(sent[i], "deploy") \in Nat /\ Count(sent[i], "verify") \in Nat
  BY NotSent DEF DInv, Effects
<1>6. \A i \in Ids : drec.auth = i /\ auth'[i].status = "EXECUTING" => auth[i].status = "EXECUTING"
  BY Named DEF DInv, Owned, Outside
<1>7. CASE Stays
  <2>1. Typed'
    BY <1>1, <1>2, <1>7 DEF DInv, Typed, Outside, RowsKept, Stays
  <2>2. DeployCall'
    <3>1. Owned(dcall.receipt) => Owned(dcall.receipt)'
      BY <1>2, <1>7, OwnedStays DEF Stays, Owned
    <3> QED
      BY <1>7, <3>1 DEF DInv, DeployCall, Stays
  <2>3. \A v \in Verifiers : VerifyCall(v)'
    BY <1>7 DEF DInv, VerifyCall, Stays
  <2>4. DeploysSent'
    BY <1>1, <1>7 DEF DInv, DeploysSent, Stays
  <2>5. VerifiesSent'
    <3>1. MayInvoke' => MayInvoke
      BY <1>6, <1>7 DEF MayInvoke, Stays
    <3>2. crashes \in Nat
      BY DEF DInv, Typed
    <3> QED
      BY <1>1, <1>5, <1>7, <3>1, <3>2 DEF DInv, VerifiesSent, Stays
  <2>6. SuccessIsFinal'
    BY <1>6, <1>7 DEF DInv, SuccessIsFinal, Stays
  <2> QED
    BY <1>3, <1>4, <2>1, <2>2, <2>3, <2>4, <2>5, <2>6 DEF DInv
<1>8. CASE Dies
  <2>1. /\ crashes' = crashes + 1 /\ crashes \in Nat /\ crashes' \in 0..MaxCrash
        /\ dcall' = Idle /\ vcall' = [v \in Verifiers |-> Idle]
    BY <1>8, DeployAssumption DEF Dies, Restart, CallsLost, DInv, Typed
  <2>2. Typed'
    BY <1>1, <1>2, <2>1, IdleCall DEF DInv, Typed, Outside, RowsKept, JobsKept
  <2>3. DeployCall' /\ \A v \in Verifiers : VerifyCall(v)'
    BY <2>1, IdleCall DEF DeployCall, VerifyCall
  <2>4. DeploysSent'
    BY <1>1, <1>2, <1>5, <2>1, IdleCall DEF DInv, DeploysSent
  <2>5. VerifiesSent'
    BY <1>1, <1>5, <2>1 DEF DInv, VerifiesSent
  <2>6. SuccessIsFinal'
    BY <2>1 DEF SuccessIsFinal
  <2> QED
    BY <1>3, <1>4, <2>2, <2>3, <2>4, <2>5, <2>6 DEF DInv
<1> QED
  BY <1>7, <1>8

-----------------------------------------------------------------------------
(* The steps of a deploy.                                                   *)

\* The Gateway's death ends all calls.
LEMMA RestartEnds ==
  ASSUME Typed, Restart
  PROVE  /\ crashes \in Nat /\ crashes' = crashes + 1 /\ crashes' \in 0..MaxCrash
         /\ writer' = "nobody" /\ dcall' = Idle /\ vcall' = [v \in Verifiers |-> Idle]
         /\ dcall' \in Calls /\ vcall' \in [Verifiers -> Calls] /\ dcall'.pc = "idle"
         /\ DeployCall' /\ \A v \in Verifiers : VerifyCall(v)'
<1>1. /\ crashes \in Nat /\ crashes' = crashes + 1 /\ crashes' \in 0..MaxCrash
      /\ writer' = "nobody" /\ dcall' = Idle /\ vcall' = [v \in Verifiers |-> Idle]
  BY DeployAssumption DEF Typed, Restart, CallsLost
<1> QED
  BY <1>1, IdleCall DEF DeployCall, VerifyCall

\* Without a receipt nothing is known to have been sent, unless a crash lost it.
LEMMA Fresh ==
  ASSUME DInv, drec = NoReceipt
  PROVE  /\ \A v \in Verifiers : vcall[v] = Idle
         /\ \A i \in Ids :
              /\ auth[i].status # "SUCCEEDED"
              /\ ~Did(i, "verify") /\ Count(sent[i], "verify") = 0
              /\ Did(i, "deploy") => plan.deploy = "profile" /\ crashes > 0
              /\ Count(sent[i], "deploy") \in Nat
              /\ Count(sent[i], "deploy") <= (IF plan.deploy = "profile" THEN crashes ELSE 0)
         /\ crashes \in Nat
<1>1. drec.auth \notin Ids /\ crashes \in Nat
  BY Named DEF DInv, Typed
<1>2. \A v \in Verifiers : vcall[v] = Idle
  BY <1>1 DEF DInv, VerifyCall
<1>3. ASSUME NEW i \in Ids
      PROVE  /\ auth[i].status # "SUCCEEDED" /\ ~Did(i, "verify")
             /\ Did(i, "deploy") => plan.deploy = "profile" /\ crashes > 0
  BY <1>1 DEF DInv, SucceededIsProven, VerifyFollowsDeploy, DeployOnRecord
<1>4. ASSUME NEW i \in Ids
      PROVE  /\ Count(sent[i], "verify") = 0 /\ Count(sent[i], "deploy") \in Nat
             /\ Count(sent[i], "deploy") <= (IF plan.deploy = "profile" THEN crashes ELSE 0)
  <2>1. "verify" \in Effects /\ "deploy" \in Effects
    BY DEF Effects
  <2>2. Count(sent[i], "verify") = 0 /\ Count(sent[i], "deploy") \in Nat
    BY <1>3, <2>1, NotSent DEF DInv
  <2>3. Count(sent[i], "deploy") <= (IF plan.deploy = "profile" THEN crashes ELSE 0) + 0
    BY DEF DInv, DeploysSent
  <2> QED
    BY <1>1, <2>2, <2>3
<1> QED
  BY <1>1, <1>2, <1>3, <1>4

\* The receipt of a deploy that is about to start, with its job.
NewRecord(i, d) ==
  [auth |-> i, refs |-> local.refs, deploy |-> "running", verify |-> "pending", djob |-> d, vjob |-> 0]

\* It is what v2Deploy writes, with and without the job.
LEMMA NewReceiptIs ==
  ASSUME NEW i, NEW d
  PROVE  [NewReceipt(i) EXCEPT !.djob = d] = NewRecord(i, d) /\ NewReceipt(i) = NewRecord(i, 0)
<1>1. NewReceipt(i) = NewRecord(i, 0)
  <2> DEFINE a == [NoReceipt EXCEPT !.auth = i]
             b == [a EXCEPT !.refs = local.refs]
  <2>1. a = [auth |-> i, refs |-> 1, deploy |-> "none", verify |-> "pending", djob |-> 0, vjob |-> 0]
    BY DEF NoReceipt
  <2>2. NewReceipt(i) = [b EXCEPT !.deploy = "running"]
    BY DEF NewReceipt
  <2> HIDE DEF a
  <2>3. b = [auth |-> i, refs |-> local.refs, deploy |-> "none", verify |-> "pending", djob |-> 0, vjob |-> 0]
    BY <2>1
  <2> HIDE DEF b
  <2> QED
    BY <2>2, <2>3 DEF NewRecord
<1>2. [NewRecord(i, 0) EXCEPT !.djob = d] = NewRecord(i, d)
  BY DEF NewRecord
<1> QED
  BY <1>1, <1>2

\* It is a receipt of its authorization, of the present action, and of a deploy that runs.
LEMMA NewReceiptSound ==
  ASSUME Typed, NEW i \in Ids, Authorized(i), NEW d \in 0..MaxJobs
  PROVE  /\ NewRecord(i, d) \in Receipts /\ NewRecord(i, d) # NoReceipt /\ Owned(NewRecord(i, d))
         /\ NewRecord(i, d).auth = i /\ NewRecord(i, d).refs = local.refs
         /\ NewRecord(i, d).deploy = "running" /\ NewRecord(i, d).verify = "pending"
         /\ NewRecord(i, d).djob = d /\ NewRecord(i, d).vjob = 0
<1>1. local.refs \in {1, 2} /\ 0 \in 0..MaxJobs /\ i \in Ids \cup {NoId}
  BY DeployAssumption DEF Typed
<1>2. NewRecord(i, d) \in Receipts
  BY <1>1 DEF Receipts, NewRecord
<1>3. NewRecord(i, d) # NoReceipt
  BY DeployAssumption DEF NoReceipt, NewRecord
<1>4. Owned(NewRecord(i, d))
  BY DEF Owned, Authorized, Unused, NewRecord
<1> QED
  BY <1>2, <1>3, <1>4 DEF NewRecord

\* A deploy job is started and recorded.
LEMMA DeployProfileKeeps ==
  ASSUME DInv, NEW i \in Ids, DeployProfile(i)
  PROVE  DInv'
<1>1. /\ plan.deploy = "profile" /\ drec = NoReceipt /\ Authorized(i) /\ Len(jobs) < MaxJobs
      /\ sent' = [sent EXCEPT ![i] = Append(@, "deploy")] /\ jobs' = Started("deploy", i)
      /\ drec' = [NewReceipt(i) EXCEPT !.djob = Len(jobs) + 1]
      /\ UNCHANGED <<plan, local, auth, mrec, writer, crashes, overdue, dcall, vcall>>
  BY DEF DeployProfile, MayDeploy, StartJob
<1>2. /\ JobsKept /\ jobs'[Len(jobs) + 1].auth = i /\ Len(jobs') = Len(jobs) + 1
      /\ Len(jobs) + 1 \in 1..MaxJobs
  BY <1>1, StartedJob, DeployAssumption DEF DInv, JobsKept
<1>3. /\ drec' \in Receipts /\ drec' # NoReceipt
      /\ drec'.auth = i /\ drec'.refs = local.refs /\ drec'.deploy = "running" /\ drec'.verify = "pending"
      /\ drec'.djob = Len(jobs) + 1 /\ drec'.vjob = 0 /\ Owned(drec')
  <2>1. Len(jobs) + 1 \in 0..MaxJobs
    BY <1>2
  <2> QED
    <3>1. drec' = NewRecord(i, Len(jobs) + 1)
      BY <1>1, NewReceiptIs
    <3>2. Typed /\ Authorized(i)
      BY <1>1 DEF DInv
    <3> DEFINE r == NewRecord(i, Len(jobs) + 1)
    <3>3. /\ r \in Receipts /\ r # NoReceipt /\ Owned(r)
          /\ r.auth = i /\ r.refs = local.refs /\ r.deploy = "running" /\ r.verify = "pending"
          /\ r.djob = Len(jobs) + 1 /\ r.vjob = 0
      BY <2>1, <3>2, NewReceiptSound
    <3> HIDE DEF r
    <3> QED
      BY <3>1, <3>3 DEF r
<1>4. /\ sent' \in [Ids -> Seq(Effects)]
      /\ \A j \in Ids : /\ Did(j, "deploy")' <=> Did(j, "deploy") \/ j = i
                        /\ Did(j, "verify")' <=> Did(j, "verify")
                        /\ Count(sent'[j], "deploy") = Count(sent[j], "deploy") + (IF j = i THEN 1 ELSE 0)
                        /\ Count(sent'[j], "verify") = Count(sent[j], "verify") + 0
  BY <1>1, Sends DEF DInv, Effects
<1>5. dcall.pc = "idle"
  BY <1>1 DEF DInv, DeployCall
<1>6. Typed'
  BY <1>1, <1>2, <1>3, <1>4 DEF DInv, Typed, JobsKept
<1>7. Owned(drec)' /\ Backed(drec)'
  <2>1. Owned(drec)'
    BY <1>1, <1>3 DEF Owned
  <2> QED
    BY <1>1, <1>2, <1>3, <2>1 DEF Backed
<1>8. DeployCall' /\ \A v \in Verifiers : VerifyCall(v)'
  BY <1>1, <1>5, Fresh, IdleCall DEF DeployCall, VerifyCall
<1>9. DeploysSent' /\ DeployOnRecord'
  <2>1. DeploysSent'
    BY <1>1, <1>3, <1>4, <1>5, Fresh DEF DeploysSent
  <2>2. DeployOnRecord'
    BY <1>1, <1>3, <1>4, Fresh DEF DeployOnRecord
  <2> QED
    BY <2>1, <2>2
<1>10. VerifiesSent' /\ VerifyFollowsDeploy'
  BY <1>1, <1>4, Fresh DEF VerifiesSent, VerifyFollowsDeploy
<1>11. SucceededIsProven' /\ SuccessIsFinal' /\ OneActive'
  BY <1>1, <1>3, Fresh DEF DInv, SucceededIsProven, SuccessIsFinal, OneActive
<1> QED
  BY <1>6, <1>7, <1>8, <1>9, <1>10, <1>11 DEF DInv

\* A deploy job is started and the Gateway dies: nothing is on record but the crash.
LEMMA DeployProfileCrashKeeps ==
  ASSUME DInv, NEW i \in Ids, DeployProfileCrash(i)
  PROVE  DInv'
<1>1. /\ plan.deploy = "profile" /\ drec = NoReceipt /\ Authorized(i) /\ Len(jobs) < MaxJobs
      /\ sent' = [sent EXCEPT ![i] = Append(@, "deploy")] /\ jobs' \in Restarted(Started("deploy", i))
      /\ Restart
      /\ UNCHANGED <<plan, local, auth, mrec, overdue, drec>>
  BY DEF DeployProfileCrash, MayDeploy, StartJob
<1>2. JobsKept
  <2> DEFINE js == Started("deploy", i)
  <2>1. /\ js \in Seq(JobRows) /\ Len(js) = Len(jobs) + 1 /\ Len(jobs) \in Nat
        /\ \A k \in 1..Len(jobs) : js[k] = jobs[k]
    BY <1>1, StartedJob DEF DInv
  <2> HIDE DEF js
  <2>2. /\ jobs' \in Seq(JobRows) /\ Len(jobs') = Len(js)
        /\ \A k \in 1..Len(js) : /\ jobs'[k].auth = js[k].auth /\ jobs'[k].role = js[k].role
                                 /\ js[k].state = "exact" => jobs'[k].state = "exact"
    BY <1>1, <2>1, RestartedJobs DEF js
  <2> QED
    BY <1>1, <2>1, <2>2, DeployAssumption DEF JobsKept
<1>3. /\ sent' \in [Ids -> Seq(Effects)]
      /\ \A j \in Ids : /\ Did(j, "verify")' <=> Did(j, "verify")
                        /\ Count(sent'[j], "deploy") = Count(sent[j], "deploy") + (IF j = i THEN 1 ELSE 0)
                        /\ Count(sent'[j], "verify") = Count(sent[j], "verify") + 0
  BY <1>1, Sends DEF DInv, Effects
<1>4. /\ crashes \in Nat /\ crashes' = crashes + 1 /\ crashes' \in 0..MaxCrash
      /\ writer' = "nobody" /\ dcall' \in Calls /\ vcall' \in [Verifiers -> Calls]
      /\ DeployCall' /\ \A v \in Verifiers : VerifyCall(v)'
  BY <1>1, RestartEnds DEF DInv
<1>5. Typed'
  BY <1>1, <1>2, <1>3, <1>4 DEF DInv, Typed, JobsKept
<1>6. Owned(drec)' /\ Backed(drec)'
  BY <1>1, <1>2, BackedStays DEF DInv, Owned, Typed
<1>7. DeploysSent' /\ DeployOnRecord'
  BY <1>1, <1>3, <1>4, Fresh DEF DeploysSent, DeployOnRecord
<1>8. VerifiesSent' /\ VerifyFollowsDeploy'
  BY <1>1, <1>3, <1>4, Fresh DEF VerifiesSent, VerifyFollowsDeploy
<1>9. SucceededIsProven' /\ SuccessIsFinal' /\ OneActive'
  BY <1>1, <1>4, Fresh DEF DInv, SucceededIsProven, SuccessIsFinal, OneActive
<1> QED
  BY <1>4, <1>5, <1>6, <1>7, <1>8, <1>9 DEF DInv

\* A capability deploy takes the lock and holds its receipt for later.
LEMMA DeployCapabilityKeeps ==
  ASSUME DInv, NEW i \in Ids, DeployCapability(i)
  PROVE  DInv'
<1>1. /\ plan.deploy = "capability" /\ drec = NoReceipt /\ Authorized(i)
      /\ writer' = "deploy" /\ dcall' = [pc |-> "role", receipt |-> NewReceipt(i)]
      /\ UNCHANGED <<plan, local, auth, mrec, sent, crashes, overdue, drec, jobs, vcall>>
  BY DEF DeployCapability, MayDeploy
<1>2. /\ NewReceipt(i) \in Receipts /\ Owned(NewReceipt(i))
      /\ NewReceipt(i).auth = i /\ NewReceipt(i).deploy = "running" /\ NewReceipt(i).verify = "pending"
      /\ NewReceipt(i).djob = 0 /\ NewReceipt(i).vjob = 0
  <2>1. NewReceipt(i) = NewRecord(i, 0) /\ 0 \in 0..MaxJobs
    BY NewReceiptIs, DeployAssumption
  <2> QED
    BY <1>1, <2>1, NewReceiptSound DEF DInv
<1>3. Typed'
  BY <1>1, <1>2 DEF DInv, Typed, Calls
<1>4. Owned(drec)' /\ Backed(drec)'
  BY <1>1 DEF DInv, Owned, Backed
<1>5. DeployCall' /\ \A v \in Verifiers : VerifyCall(v)'
  <2>1. DeployCall'
    BY <1>1, <1>2 DEF DeployCall, Owned
  <2> QED
    BY <1>1, <2>1 DEF DInv, VerifyCall
<1>6. DeploysSent' /\ DeployOnRecord'
  BY <1>1, Fresh DEF DInv, DeploysSent, DeployOnRecord, Did
<1>7. VerifiesSent' /\ VerifyFollowsDeploy'
  BY <1>1, Fresh DEF DInv, VerifiesSent, VerifyFollowsDeploy, Did
<1>8. SucceededIsProven' /\ SuccessIsFinal' /\ OneActive'
  BY <1>1 DEF DInv, SucceededIsProven, SuccessIsFinal, OneActive
<1> QED
  BY <1>3, <1>4, <1>5, <1>6, <1>7, <1>8 DEF DInv

\* What the receipt becomes by a deploy's outcome, and what its row.
LEMMA DeployOutcomes ==
  ASSUME NEW r \in Receipts, NEW e \in {"exact", "other", "missing", "failed", "lost"}
  PROVE  LET o == DeployOutcome(r, e) IN
         /\ o.receipt \in Receipts
         /\ o.receipt.auth = r.auth /\ o.receipt.refs = r.refs /\ o.receipt.verify = r.verify
         /\ o.receipt.djob = r.djob /\ o.receipt.vjob = r.vjob
         /\ o.receipt.deploy \in {"succeeded", "failed", "uncertain"}
         /\ o.receipt.deploy = "succeeded" <=> e = "exact"
         /\ o.status \in {"EXECUTING", "FAILED", "UNCERTAIN"}
         /\ o.status = "EXECUTING" <=> e = "exact"
<1>1. CASE e = "exact"
  <2>1. DeployOutcome(r, e) = [receipt |-> [r EXCEPT !.deploy = "succeeded"], status |-> "EXECUTING"]
    BY <1>1 DEF DeployOutcome
  <2> QED
    BY <1>1, <2>1 DEF Receipts
<1>2. CASE e \in {"other", "failed", "lost"}
  <2>1. DeployOutcome(r, e) = [receipt |-> [r EXCEPT !.deploy = "failed"], status |-> "FAILED"]
    BY <1>2 DEF DeployOutcome
  <2> QED
    BY <1>2, <2>1 DEF Receipts
<1>3. CASE e = "missing"
  <2>1. DeployOutcome(r, e) = [receipt |-> [r EXCEPT !.deploy = "uncertain"], status |-> "UNCERTAIN"]
    BY <1>3 DEF DeployOutcome
  <2> QED
    BY <1>3, <2>1 DEF Receipts
<1> QED
  BY <1>1, <1>2, <1>3

\* While a deploy call is under way nothing is verified, and nobody else writes the receipt.
LEMMA DeployHolds ==
  ASSUME DInv, dcall.pc # "idle"
  PROVE  /\ plan.deploy = "capability" /\ writer = "deploy"
         /\ dcall.receipt \in Receipts /\ dcall.receipt.auth \in Ids /\ Owned(dcall.receipt)
         /\ dcall.receipt.deploy = "running" /\ dcall.receipt.verify = "pending"
         /\ dcall.receipt.djob = 0 /\ dcall.receipt.vjob = 0
         /\ drec = IF dcall.pc = "role" THEN NoReceipt ELSE dcall.receipt
         /\ dcall.receipt # NoReceipt
         /\ \A v \in Verifiers : vcall[v] = Idle
         /\ \A i \in Ids : auth[i].status # "SUCCEEDED" /\ ~Did(i, "verify")
                           /\ Count(sent[i], "verify") = 0 /\ Count(sent[i], "deploy") \in Nat
                           /\ (Did(i, "deploy") => drec.auth = i)
<1>1. /\ plan.deploy = "capability" /\ writer = "deploy"
      /\ dcall.receipt \in Receipts /\ dcall.receipt.auth \in Ids /\ Owned(dcall.receipt)
      /\ dcall.receipt.deploy = "running" /\ dcall.receipt.verify = "pending"
      /\ dcall.receipt.djob = 0 /\ dcall.receipt.vjob = 0
      /\ drec = IF dcall.pc = "role" THEN NoReceipt ELSE dcall.receipt
  BY DEF DInv, Typed, Calls, DeployCall
<1>2. dcall.receipt # NoReceipt
  BY <1>1, DeployAssumption DEF NoReceipt
<1>3. drec.deploy # "succeeded"
  BY <1>1 DEF NoReceipt
<1>4. \A v \in Verifiers : vcall[v] = Idle
  BY <1>3 DEF DInv, VerifyCall
<1>5. ASSUME NEW i \in Ids
      PROVE  auth[i].status # "SUCCEEDED" /\ ~Did(i, "verify") /\ (Did(i, "deploy") => drec.auth = i)
  BY <1>1, <1>3 DEF DInv, SucceededIsProven, VerifyFollowsDeploy, DeployOnRecord
<1>6. ASSUME NEW i \in Ids
      PROVE  Count(sent[i], "verify") = 0 /\ Count(sent[i], "deploy") \in Nat
  BY <1>5, NotSent DEF DInv, Effects
<1> QED
  BY <1>1, <1>2, <1>4, <1>5, <1>6

\* The role check is refused.
LEMMA DeployRefusedKeeps ==
  ASSUME DInv, DeployRefused
  PROVE  DInv'
<1>1. /\ dcall.pc = "role" /\ dcall' = Idle /\ writer' = "nobody"
      /\ UNCHANGED <<plan, local, auth, mrec, sent, crashes, overdue, drec, jobs, vcall>>
  BY DEF DeployRefused
<1>2. Typed'
  BY <1>1, IdleCall DEF DInv, Typed
<1>3. DeployCall' /\ \A v \in Verifiers : VerifyCall(v)'
  BY <1>1, IdleCall DEF DInv, DeployCall, VerifyCall
<1>4. Owned(drec)' /\ Backed(drec)' /\ DeploysSent' /\ DeployOnRecord'
  BY <1>1, IdleCall DEF DInv, Owned, Backed, DeploysSent, DeployOnRecord, Did
<1>5. VerifiesSent' /\ VerifyFollowsDeploy'
  BY <1>1 DEF DInv, VerifiesSent, MayInvoke, VerifyFollowsDeploy, Did
<1>6. SucceededIsProven' /\ SuccessIsFinal' /\ OneActive'
  BY <1>1 DEF DInv, SucceededIsProven, SuccessIsFinal, OneActive
<1> QED
  BY <1>2, <1>3, <1>4, <1>5, <1>6 DEF DInv

\* The receipt is on disk before the capability is invoked.
LEMMA SaveDeployIntentKeeps ==
  ASSUME DInv, SaveDeployIntent
  PROVE  DInv'
<1>1. /\ dcall.pc = "role" /\ drec' = dcall.receipt /\ dcall' = [dcall EXCEPT !.pc = "saved"]
      /\ UNCHANGED <<plan, local, auth, mrec, sent, writer, crashes, overdue, jobs, vcall>>
  BY DEF SaveDeployIntent, shared
<1>2. dcall' \in Calls /\ dcall'.pc = "saved" /\ dcall'.receipt = dcall.receipt
  BY <1>1 DEF DInv, Typed, Calls
<1>3. drec = NoReceipt
  BY <1>1, DeployHolds
<1>4. Typed'
  BY <1>1, <1>2, DeployHolds DEF DInv, Typed
<1>5. DeployCall' /\ \A v \in Verifiers : VerifyCall(v)'
  BY <1>1, <1>2, DeployHolds, IdleCall DEF DeployCall, VerifyCall, Owned
<1>6. Owned(drec)' /\ Backed(drec)'
  <2>1. Len(jobs) \in Nat
    BY LenProperties DEF DInv, Typed
  <2> QED
    BY <1>1, <2>1, DeployHolds DEF Owned, Backed
<1>7. DeploysSent' /\ DeployOnRecord'
  BY <1>1, <1>2, <1>3, DeployHolds, Fresh DEF DeploysSent, DeployOnRecord, Did
<1>8. VerifiesSent' /\ VerifyFollowsDeploy'
  BY <1>1, <1>3, DeployHolds, Fresh DEF VerifiesSent, VerifyFollowsDeploy, Did
<1>9. SucceededIsProven' /\ SuccessIsFinal' /\ OneActive'
  BY <1>1, DeployHolds DEF DInv, SucceededIsProven, SuccessIsFinal, OneActive
<1> QED
  BY <1>4, <1>5, <1>6, <1>7, <1>8, <1>9 DEF DInv

\* The one request goes out.
LEMMA InvokeDeployKeeps ==
  ASSUME DInv, InvokeDeploy
  PROVE  DInv'
<1> DEFINE i == dcall.receipt.auth
<1>1. /\ dcall.pc = "saved" /\ sent' = [sent EXCEPT ![i] = Append(@, "deploy")]
      /\ dcall' = [dcall EXCEPT !.pc = "invoking"]
      /\ UNCHANGED <<plan, local, auth, mrec, writer, crashes, overdue, drec, jobs, vcall>>
  BY DEF InvokeDeploy
<1>2. dcall' \in Calls /\ dcall'.pc = "invoking" /\ dcall'.receipt = dcall.receipt
  BY <1>1 DEF DInv, Typed, Calls
<1>3. i \in Ids /\ drec = dcall.receipt /\ drec # NoReceipt
  BY <1>1, DeployHolds
<1>4. /\ sent' \in [Ids -> Seq(Effects)]
      /\ \A j \in Ids : /\ Did(j, "deploy")' <=> Did(j, "deploy") \/ j = i
                        /\ Did(j, "verify")' <=> Did(j, "verify")
                        /\ Count(sent'[j], "deploy") = Count(sent[j], "deploy") + (IF j = i THEN 1 ELSE 0)
                        /\ Count(sent'[j], "verify") = Count(sent[j], "verify") + 0
  <2> HIDE DEF i
  <2> QED
    BY <1>1, <1>3, Sends DEF DInv, Effects
<1>5. Typed'
  BY <1>1, <1>2, <1>4 DEF DInv, Typed
<1>6. DeployCall' /\ \A v \in Verifiers : VerifyCall(v)'
  BY <1>1, <1>2, <1>3, DeployHolds, IdleCall DEF DeployCall, VerifyCall, Owned
<1>7. Owned(drec)' /\ Backed(drec)'
  BY <1>1 DEF DInv, Owned, Backed
<1>8. DeploysSent' /\ DeployOnRecord'
  <2>1. \A j \in Ids : Count(sent[j], "deploy") \in Nat /\ Count(sent[j], "deploy") <= 0
    BY <1>1, DeployHolds DEF DInv, DeploysSent
  <2>2. DeploysSent'
    BY <1>1, <1>2, <1>3, <1>4, <2>1, DeployHolds DEF DeploysSent
  <2>3. DeployOnRecord'
    BY <1>1, <1>3, <1>4, DeployHolds DEF DeployOnRecord
  <2> QED
    BY <2>2, <2>3
<1>9. VerifiesSent' /\ VerifyFollowsDeploy'
  BY <1>1, <1>4, DeployHolds DEF DInv, Typed, VerifiesSent, VerifyFollowsDeploy
<1>10. SucceededIsProven' /\ SuccessIsFinal' /\ OneActive'
  BY <1>1 DEF DInv, SucceededIsProven, SuccessIsFinal, OneActive
<1> QED
  BY <1>5, <1>6, <1>7, <1>8, <1>9, <1>10 DEF DInv

\* The answer is judged, or the Gateway dies after saving it.
LEMMA DeployAnsweredKeeps ==
  ASSUME DInv, DeployAnswered \/ DeployAnsweredCrash
  PROVE  DInv'
<1>1. PICK e \in {"exact", "other", "missing"} :
        /\ dcall.pc = "invoking" /\ drec' = DeployOutcome(dcall.receipt, e).receipt
        /\ UNCHANGED <<plan, local, mrec, sent, overdue>>
        /\ \/ /\ EndAs(drec'.auth, DeployOutcome(dcall.receipt, e).status)
              /\ dcall' = Idle /\ writer' = "nobody" /\ UNCHANGED <<crashes, jobs, vcall>>
           \/ Restart /\ jobs' \in Restarted(jobs) /\ UNCHANGED auth
  BY DEF DeployAnswered, DeployAnsweredCrash, Judge
<1>2. /\ drec' \in Receipts /\ drec'.auth = drec.auth /\ drec'.refs = drec.refs
      /\ drec'.verify = "pending" /\ drec'.djob = 0 /\ drec'.vjob = 0
      /\ drec = dcall.receipt /\ drec.auth \in Ids /\ drec # NoReceipt /\ drec' # NoReceipt
      /\ DeployOutcome(dcall.receipt, e).status \in {"EXECUTING", "FAILED", "UNCERTAIN"}
  BY <1>1, DeployHolds, DeployOutcomes, DeployAssumption DEF NoReceipt
<1>3. JobsKept /\ RowsKept
  <2>1. Len(jobs) \in Nat
    BY LenProperties DEF DInv, Typed
  <2>2. JobsKept
    BY <1>1, <2>1, RestartedJobs DEF DInv, Typed, JobsKept
  <2>3. RowsKept
    BY <1>1, <1>2, EndsRow DEF DInv, Typed, RowsKept
  <2> QED
    BY <2>2, <2>3
<1>4. \A j \in Ids : auth'[j].status \in {auth[j].status, "FAILED", "UNCERTAIN"}
  BY <1>1, <1>2, EndsRow DEF DInv
<1>5. /\ crashes \in Nat /\ crashes' \in 0..MaxCrash /\ crashes' >= crashes
      /\ writer' = "nobody" /\ dcall' \in Calls /\ vcall' \in [Verifiers -> Calls] /\ dcall'.pc = "idle"
      /\ DeployCall' /\ \A v \in Verifiers : VerifyCall(v)'
  <2>1. CASE Restart
    BY <2>1, RestartEnds DEF DInv
  <2>2. CASE dcall' = Idle /\ writer' = "nobody" /\ UNCHANGED <<crashes, jobs, vcall>>
    BY <1>1, <2>2, IdleCall, DeployHolds DEF DInv, Typed, DeployCall, VerifyCall
  <2> QED
    BY <1>1, <2>1, <2>2
<1>6. Typed'
  BY <1>1, <1>2, <1>3, <1>5 DEF DInv, Typed, JobsKept, RowsKept
<1>7. Owned(drec)' /\ Backed(drec)'
  <2>1. Owned(drec)'
    BY <1>2, <1>3 DEF DInv, Owned, RowsKept
  <2>2. Backed(drec)'
    BY <1>1, <1>2, <1>3, LenProperties, DeployHolds DEF Backed, JobsKept
  <2> QED
    BY <2>1, <2>2
<1>8. DeploysSent' /\ DeployOnRecord'
  BY <1>1, <1>2, <1>5, DeployHolds DEF DInv, DeploysSent, DeployOnRecord, Did
<1>9. VerifiesSent' /\ VerifyFollowsDeploy'
  BY <1>1, <1>2, <1>5, DeployHolds DEF VerifiesSent, VerifyFollowsDeploy, Did
<1>10. SucceededIsProven' /\ SuccessIsFinal'
  BY <1>1, <1>2, <1>4, DeployHolds DEF SucceededIsProven, SuccessIsFinal
<1>11. OneActive'
  BY <1>4 DEF DInv, OneActive, Active
<1> QED
  BY <1>5, <1>6, <1>7, <1>8, <1>9, <1>10, <1>11 DEF DInv

-----------------------------------------------------------------------------
(* The steps of a verification.                                             *)

\* What the receipt becomes by a verification's outcome, and what its row.
LEMMA VerifyOutcomes ==
  ASSUME NEW r \in Receipts, NEW e \in {"exact", "other", "missing", "failed", "lost"}
  PROVE  LET o == VerifyOutcome(r, e) IN
         /\ o.receipt \in Receipts
         /\ o.receipt.auth = r.auth /\ o.receipt.refs = r.refs /\ o.receipt.deploy = r.deploy
         /\ o.receipt.djob = r.djob /\ o.receipt.vjob = r.vjob
         /\ o.receipt.verify \in {"succeeded", "failed", "uncertain"}
         /\ o.receipt.verify = "succeeded" <=> e = "exact"
         /\ o.status \in {"SUCCEEDED", "FAILED", "UNCERTAIN"}
         /\ o.status = "SUCCEEDED" <=> e = "exact"
<1>1. CASE e = "exact"
  <2>1. VerifyOutcome(r, e) = [receipt |-> [r EXCEPT !.verify = "succeeded"], status |-> "SUCCEEDED"]
    BY <1>1 DEF VerifyOutcome
  <2> QED
    BY <1>1, <2>1 DEF Receipts
<1>2. CASE e \in {"other", "failed", "lost"}
  <2>1. VerifyOutcome(r, e) = [receipt |-> [r EXCEPT !.verify = "failed"], status |-> "FAILED"]
    BY <1>2 DEF VerifyOutcome
  <2> QED
    BY <1>2, <2>1 DEF Receipts
<1>3. CASE e = "missing"
  <2>1. VerifyOutcome(r, e) = [receipt |-> [r EXCEPT !.verify = "uncertain"], status |-> "UNCERTAIN"]
    BY <1>3 DEF VerifyOutcome
  <2> QED
    BY <1>3, <2>1 DEF Receipts
<1> QED
  BY <1>1, <1>2, <1>3

\* Only one verify call holds a receipt.
LEMMA Alone ==
  ASSUME DInv, OneVerifier, NEW v \in Verifiers, NEW w \in Verifiers, w # v
  PROVE  vcall[w] = Idle
<1>1. vcall[w].pc # "idle" => plan.verify = "capability"
  BY DEF DInv, VerifyCall
<1>2. plan.verify = "capability" => \A x, y \in Verifiers : x = y
  BY DEF OneVerifier
<1> QED
  BY <1>1, <1>2 DEF DInv, VerifyCall

\* A verify call that may enter finds no deploy call, and the receipt of a row.
LEMMA Enters ==
  ASSUME DInv, NEW v \in Verifiers, MayVerify(v)
  PROVE  /\ dcall.pc = "idle" /\ drec # NoReceipt /\ drec \in Receipts /\ drec.auth \in Ids
         /\ vcall[v] = Idle /\ drec.verify # "succeeded"
         /\ Owned(drec) /\ Backed(drec)
<1>1. drec # NoReceipt /\ vcall[v] = Idle /\ drec.verify # "succeeded"
  BY DEF MayVerify
<1>2. dcall.pc = "idle"
  <2> SUFFICES ASSUME dcall.pc # "idle" PROVE FALSE
    OBVIOUS
  <2>1. plan.deploy = "capability" /\ drec.deploy = "running"
    BY <1>1, DeployHolds
  <2> QED
    BY <2>1 DEF MayVerify
<1>3. drec.auth \in Ids
  BY <1>1, Named DEF DInv
<1> QED
  BY <1>1, <1>2, <1>3 DEF DInv, Typed

\* No verification is on record for a deploy that is not, and none succeeded.
LEMMA NotVerified ==
  ASSUME DInv
  PROVE  /\ crashes \in Nat
         /\ \A i \in Ids :
              /\ Count(sent[i], "verify") \in Nat /\ Count(sent[i], "deploy") \in Nat
              /\ drec.deploy # "succeeded" => ~Did(i, "verify") /\ Count(sent[i], "verify") = 0
              /\ drec.verify # "succeeded" => auth[i].status # "SUCCEEDED"
              /\ Count(sent[i], "verify") <= crashes + 1
<1>1. crashes \in Nat
  BY DEF DInv, Typed
<1>2. ASSUME NEW i \in Ids
      PROVE  /\ Count(sent[i], "verify") \in Nat /\ Count(sent[i], "deploy") \in Nat
             /\ drec.deploy # "succeeded" => ~Did(i, "verify") /\ Count(sent[i], "verify") = 0
             /\ drec.verify # "succeeded" => auth[i].status # "SUCCEEDED"
             /\ Count(sent[i], "verify") <= crashes + 1
  <2>1. "verify" \in Effects /\ "deploy" \in Effects
    BY DEF Effects
  <2>2. Count(sent[i], "verify") \in Nat /\ Count(sent[i], "deploy") \in Nat
        /\ (~Did(i, "verify") => Count(sent[i], "verify") = 0)
    BY <2>1, NotSent DEF DInv
  <2>3. Count(sent[i], "verify") <= crashes + 1
    BY <1>1, <2>2 DEF DInv, VerifiesSent
  <2> QED
    BY <2>2, <2>3 DEF DInv, VerifyFollowsDeploy, SucceededIsProven
<1> QED
  BY <1>1, <1>2

\* The receipt a verify call goes on with says deployed, and rests on a job that ended so.
LEMMA DeployedIs ==
  ASSUME DInv, OneVerifier, NEW v \in Verifiers, NEW r \in Deployed(v)
  PROVE  /\ dcall.pc = "idle" /\ drec # NoReceipt /\ drec \in Receipts /\ drec.auth \in Ids
         /\ drec.verify # "succeeded"
         /\ r \in Receipts /\ r # NoReceipt /\ r.auth = drec.auth /\ r.refs = drec.refs /\ r.deploy = "succeeded"
         /\ r.verify = drec.verify /\ r.djob = drec.djob /\ r.vjob = drec.vjob
         /\ auth[r.auth].status = "EXECUTING"
         /\ Owned(r) /\ Backed(r)
         /\ \A w \in Verifiers : vcall[w] = Idle
<1>1. /\ r = [drec EXCEPT !.deploy = "succeeded"] /\ MayVerify(v) /\ Authorized(drec.auth)
      /\ drec.deploy = "succeeded" \/ (DeployJobEnded(v) /\ jobs[drec.djob].state = "exact")
  BY DEF Deployed
<1>2. /\ dcall.pc = "idle" /\ drec # NoReceipt /\ drec \in Receipts /\ drec.auth \in Ids
      /\ vcall[v] = Idle /\ drec.verify # "succeeded" /\ Owned(drec) /\ Backed(drec)
  BY <1>1, Enters
<1>3. /\ r \in Receipts /\ r.auth = drec.auth /\ r.refs = drec.refs /\ r.deploy = "succeeded"
      /\ r.verify = drec.verify /\ r.djob = drec.djob /\ r.vjob = drec.vjob
  BY <1>1, <1>2 DEF Receipts
<1>4. Backed(r)
  <2>1. drec.deploy # "succeeded" => drec.djob # 0 /\ jobs[drec.djob].state = "exact"
    BY <1>1 DEF DeployJobEnded, Ended
  <2> QED
    BY <1>2, <1>3, <2>1 DEF Backed
<1>5. Owned(r) /\ r # NoReceipt
  BY <1>2, <1>3, Named DEF DInv, Owned, NoReceipt
<1>6. auth[r.auth].status = "EXECUTING"
  BY <1>1, <1>3 DEF Authorized
<1>7. \A w \in Verifiers : vcall[w] = Idle
  BY <1>2, Alone
<1> QED
  BY <1>2, <1>3, <1>4, <1>5, <1>6, <1>7

\* A receipt on disk that keeps its row and its deploy keeps what was sent on record.
LEMMA RecordKept ==
  ASSUME DInv, drec # NoReceipt, drec' # NoReceipt, dcall.pc = "idle", dcall'.pc = "idle",
         drec'.auth = drec.auth, UNCHANGED plan, crashes' \in Nat, crashes' >= crashes,
         drec.deploy = "succeeded" => drec'.deploy = "succeeded",
         \A i \in Ids : /\ Did(i, "deploy")' <=> Did(i, "deploy")
                        /\ Did(i, "verify")' => Did(i, "verify") \/ (i = drec.auth /\ drec'.deploy = "succeeded")
                        /\ Count(sent'[i], "deploy") = Count(sent[i], "deploy")
  PROVE  DeploysSent' /\ DeployOnRecord' /\ VerifyFollowsDeploy'
<1>1. DeploysSent'
  BY NotVerified DEF DInv, DeploysSent
<1>2. DeployOnRecord'
  BY NotVerified DEF DInv, DeployOnRecord
<1>3. VerifyFollowsDeploy'
  BY DEF DInv, VerifyFollowsDeploy
<1> QED
  BY <1>1, <1>2, <1>3

\* The receipt of a verify job that was just started.
LEMMA VerifyRecord ==
  ASSUME NEW r \in Receipts, NEW n \in 0..MaxJobs
  PROVE  LET s == [r EXCEPT !.vjob = n, !.verify = "running"] IN
         /\ s \in Receipts /\ s.auth = r.auth /\ s.refs = r.refs /\ s.deploy = r.deploy
         /\ s.djob = r.djob /\ s.vjob = n /\ s.verify = "running"
<1> DEFINE s == [r EXCEPT !.vjob = n, !.verify = "running"]
           a == [r EXCEPT !.vjob = n]
<1>1. /\ a \in Receipts /\ a.auth = r.auth /\ a.refs = r.refs /\ a.deploy = r.deploy
      /\ a.djob = r.djob /\ a.vjob = n
  BY DEF Receipts
<1>2. s = [a EXCEPT !.verify = "running"]
  OBVIOUS
<1> HIDE DEF s, a
<1>3. /\ s \in Receipts /\ s.auth = a.auth /\ s.refs = a.refs /\ s.deploy = a.deploy
      /\ s.djob = a.djob /\ s.vjob = a.vjob /\ s.verify = "running"
  BY <1>1, <1>2 DEF Receipts
<1> QED
  BY <1>1, <1>3 DEF s

\* A verify job is started and recorded.
LEMMA VerifyProfileKeeps ==
  ASSUME DInv, OneVerifier, NEW v \in Verifiers, VerifyProfile(v)
  PROVE  DInv'
<1>1. PICK r \in Deployed(v) :
        /\ plan.verify = "profile" /\ r.vjob = 0 /\ Len(jobs) < MaxJobs
        /\ sent' = [sent EXCEPT ![r.auth] = Append(@, "verify")]
        /\ jobs' = Started("verify", r.auth)
        /\ drec' = [r EXCEPT !.vjob = Len(jobs) + 1, !.verify = "running"]
        /\ UNCHANGED <<plan, local, auth, mrec, writer, crashes, overdue, dcall, vcall>>
  BY DEF VerifyProfile, StartJob
<1> DEFINE i == r.auth
<1>2. /\ dcall.pc = "idle" /\ drec # NoReceipt /\ drec.auth = i /\ i \in Ids
      /\ r \in Receipts /\ r.refs = drec.refs /\ r.deploy = "succeeded"
      /\ r.verify = drec.verify /\ r.djob = drec.djob /\ r.vjob = drec.vjob
      /\ drec.verify # "succeeded" /\ auth[i].status = "EXECUTING" /\ Owned(r) /\ Backed(r)
      /\ \A w \in Verifiers : vcall[w] = Idle
  BY DeployedIs
<1> HIDE DEF i
<1>3. /\ JobsKept /\ Len(jobs') = Len(jobs) + 1 /\ Len(jobs) + 1 \in 1..MaxJobs
      /\ jobs'[Len(jobs) + 1].auth = i /\ jobs'[Len(jobs) + 1].role = "verify"
  BY <1>1, <1>2, StartedJob, DeployAssumption DEF DInv, JobsKept, i
<1>4. /\ drec' \in Receipts /\ drec'.auth = i /\ drec'.refs = r.refs /\ drec'.deploy = "succeeded"
      /\ drec'.djob = r.djob /\ drec'.vjob = Len(jobs) + 1 /\ drec'.verify = "running"
  <2> DEFINE n == Len(jobs) + 1
             s == [r EXCEPT !.vjob = n, !.verify = "running"]
  <2>1. n \in 0..MaxJobs /\ r \in Receipts
    BY <1>2, <1>3
  <2> HIDE DEF n
  <2>2. /\ s \in Receipts /\ s.auth = r.auth /\ s.refs = r.refs /\ s.deploy = r.deploy
        /\ s.djob = r.djob /\ s.vjob = n /\ s.verify = "running"
    BY <2>1, VerifyRecord
  <2>3. drec' = s
    BY <1>1 DEF n
  <2> HIDE DEF s
  <2> QED
    BY <1>2, <2>2, <2>3 DEF i, n
<1>5. /\ sent' \in [Ids -> Seq(Effects)]
      /\ \A j \in Ids : /\ Did(j, "deploy")' <=> Did(j, "deploy")
                        /\ Did(j, "verify")' <=> Did(j, "verify") \/ j = i
                        /\ Count(sent'[j], "deploy") = Count(sent[j], "deploy") + 0
                        /\ Count(sent'[j], "verify") = Count(sent[j], "verify") + (IF j = i THEN 1 ELSE 0)
  BY <1>1, <1>2, Sends DEF DInv, Effects, i
<1>6. Typed'
  BY <1>1, <1>3, <1>4, <1>5 DEF DInv, Typed, JobsKept
<1>7. Owned(drec)' /\ Backed(drec)'
  <2>1. Owned(drec)'
    BY <1>1, <1>2, <1>4, DeployAssumption DEF Owned, NoReceipt
  <2>2. Len(jobs) \in Nat /\ r.djob \in 0..Len(jobs)
    BY <1>2, <1>3, LenProperties DEF DInv, Typed, Backed
  <2>3. Backed(drec)'
    BY <1>1, <1>2, <1>3, <1>4, <2>2 DEF Backed, JobsKept
  <2> QED
    BY <2>1, <2>3
<1>8. DeployCall' /\ \A w \in Verifiers : VerifyCall(w)'
  BY <1>1, <1>2, IdleCall DEF DeployCall, VerifyCall
<1>9. DeploysSent' /\ DeployOnRecord' /\ VerifyFollowsDeploy'
  <2>1. drec' # NoReceipt
    BY <1>2, <1>4, DeployAssumption DEF NoReceipt
  <2> QED
    BY <1>1, <1>2, <1>4, <1>5, <2>1, RecordKept, NotVerified
<1>10. VerifiesSent'
  <2>1. MayInvoke /\ ~MayInvoke'
    BY <1>1, <1>2, <1>3, <1>4 DEF MayInvoke
  <2>2. \A j \in Ids : Count(sent[j], "verify") <= crashes + 0
    BY <2>1 DEF DInv, VerifiesSent
  <2> QED
    BY <1>1, <1>5, <2>1, <2>2, NotVerified DEF VerifiesSent
<1>11. SucceededIsProven' /\ SuccessIsFinal' /\ OneActive'
  BY <1>1, <1>2, <1>4, NotVerified DEF DInv, SucceededIsProven, SuccessIsFinal, OneActive
<1> QED
  BY <1>6, <1>7, <1>8, <1>9, <1>10, <1>11 DEF DInv

\* A verify job is started and the Gateway dies: the next call starts another.
LEMMA VerifyProfileCrashKeeps ==
  ASSUME DInv, OneVerifier, NEW v \in Verifiers, VerifyProfileCrash(v)
  PROVE  DInv'
<1>1. PICK r \in Deployed(v) :
        /\ plan.verify = "profile" /\ r.vjob = 0 /\ Len(jobs) < MaxJobs
        /\ sent' = [sent EXCEPT ![r.auth] = Append(@, "verify")]
        /\ jobs' \in Restarted(Started("verify", r.auth))
        /\ drec' = r /\ Restart
        /\ UNCHANGED <<plan, local, auth, mrec, overdue>>
  BY DEF VerifyProfileCrash, StartJob
<1> DEFINE i == r.auth
<1>2. /\ dcall.pc = "idle" /\ drec # NoReceipt /\ drec.auth = i /\ i \in Ids
      /\ r \in Receipts /\ r # NoReceipt /\ r.deploy = "succeeded" /\ r.verify = drec.verify
      /\ drec.verify # "succeeded" /\ Owned(r) /\ Backed(r)
  BY DeployedIs
<1> HIDE DEF i
<1>3. JobsKept
  <2> DEFINE js == Started("verify", i)
  <2>1. /\ js \in Seq(JobRows) /\ Len(js) = Len(jobs) + 1 /\ Len(jobs) \in Nat
        /\ \A k \in 1..Len(jobs) : js[k] = jobs[k]
    BY <1>1, <1>2, StartedJob DEF DInv
  <2> HIDE DEF js
  <2>2. /\ jobs' \in Seq(JobRows) /\ Len(jobs') = Len(js)
        /\ \A k \in 1..Len(js) : /\ jobs'[k].auth = js[k].auth /\ jobs'[k].role = js[k].role
                                 /\ js[k].state = "exact" => jobs'[k].state = "exact"
    BY <1>1, <2>1, RestartedJobs DEF js, i
  <2> QED
    BY <1>1, <2>1, <2>2, DeployAssumption DEF JobsKept
<1>4. /\ sent' \in [Ids -> Seq(Effects)]
      /\ \A j \in Ids : /\ Did(j, "deploy")' <=> Did(j, "deploy")
                        /\ Did(j, "verify")' <=> Did(j, "verify") \/ j = i
                        /\ Count(sent'[j], "deploy") = Count(sent[j], "deploy") + 0
                        /\ Count(sent'[j], "verify") = Count(sent[j], "verify") + (IF j = i THEN 1 ELSE 0)
  BY <1>1, <1>2, Sends DEF DInv, Effects, i
<1>5. /\ crashes \in Nat /\ crashes' = crashes + 1 /\ crashes' \in 0..MaxCrash
      /\ writer' = "nobody" /\ dcall' \in Calls /\ vcall' \in [Verifiers -> Calls] /\ dcall'.pc = "idle"
      /\ DeployCall' /\ \A w \in Verifiers : VerifyCall(w)'
  BY <1>1, RestartEnds DEF DInv
<1>6. Typed'
  BY <1>1, <1>2, <1>3, <1>4, <1>5 DEF DInv, Typed, JobsKept
<1>7. Owned(drec)' /\ Backed(drec)'
  <2>1. Owned(drec)'
    BY <1>1, <1>2 DEF Owned
  <2>2. Backed(r)'
    BY <1>1, <1>2, <1>3, BackedStays DEF DInv
  <2>3. Backed(drec)'
    BY <1>1, <2>2 DEF Backed
  <2> QED
    BY <2>1, <2>3
<1>8. DeploysSent' /\ DeployOnRecord' /\ VerifyFollowsDeploy'
  BY <1>1, <1>2, <1>4, <1>5, RecordKept, NotVerified DEF i
<1>9. VerifiesSent'
  <2>1. ASSUME NEW j \in Ids PROVE Count(sent'[j], "verify") <= crashes' + (IF MayInvoke' THEN 0 ELSE 1)
    <3>1. CASE plan.verify = "profile" /\ drec.vjob = 0
      <4>1. Count(sent[j], "verify") <= crashes + 0
        BY <3>1 DEF DInv, VerifiesSent, MayInvoke
      <4> QED
        BY <1>4, <1>5, <4>1, NotVerified
    <3>2. CASE ~(plan.verify = "profile" /\ drec.vjob = 0)
      BY <1>1, <3>2, DeployedIs
    <3> QED
      BY <3>1, <3>2
  <2> QED
    BY <2>1 DEF VerifiesSent
<1>10. SucceededIsProven' /\ SuccessIsFinal' /\ OneActive'
  BY <1>1, <1>2, <1>5, NotVerified DEF DInv, SucceededIsProven, SuccessIsFinal, OneActive
<1> QED
  BY <1>5, <1>6, <1>7, <1>8, <1>9, <1>10 DEF DInv

\* The deploy is recorded as succeeded, and nothing is started.
LEMMA VerifyNotStartedKeeps ==
  ASSUME DInv, OneVerifier, NEW v \in Verifiers, VerifyNotStarted(v)
  PROVE  DInv'
<1>1. /\ drec' \in Deployed(v) /\ plan.verify = "profile"
      /\ UNCHANGED <<plan, local, auth, mrec, sent, writer, crashes, overdue, jobs, dcall, vcall>>
  BY DEF VerifyNotStarted, shared
<1>2. /\ dcall.pc = "idle" /\ drec # NoReceipt /\ drec'.auth = drec.auth
      /\ drec' \in Receipts /\ drec' # NoReceipt /\ drec'.deploy = "succeeded" /\ drec'.verify = drec.verify
      /\ drec'.vjob = drec.vjob
      /\ drec.verify # "succeeded" /\ Owned(drec') /\ Backed(drec')
      /\ \A w \in Verifiers : vcall[w] = Idle
  BY <1>1, DeployedIs
<1>3. Typed'
  BY <1>1, <1>2 DEF DInv, Typed
<1>4. Owned(drec)' /\ Backed(drec)'
  BY <1>1, <1>2 DEF Owned, Backed
<1>5. DeployCall' /\ \A w \in Verifiers : VerifyCall(w)'
  BY <1>1, <1>2, IdleCall DEF DeployCall, VerifyCall
<1>6. DeploysSent' /\ DeployOnRecord' /\ VerifyFollowsDeploy'
  <2>1. crashes \in Nat
    BY NotVerified
  <2> QED
    BY <1>1, <1>2, <2>1, RecordKept DEF Did
<1>7. VerifiesSent'
  <2>1. MayInvoke' <=> MayInvoke
    BY <1>1, <1>2 DEF MayInvoke
  <2> QED
    BY <1>1, <2>1 DEF DInv, VerifiesSent
<1>8. SucceededIsProven' /\ SuccessIsFinal' /\ OneActive'
  BY <1>1, <1>2, NotVerified DEF DInv, SucceededIsProven, SuccessIsFinal, OneActive
<1> QED
  BY <1>3, <1>4, <1>5, <1>6, <1>7, <1>8 DEF DInv

\* A capability's verification: the deploy is recorded, the role check goes out.
LEMMA VerifyCapabilityKeeps ==
  ASSUME DInv, OneVerifier, NEW v \in Verifiers, VerifyCapability(v)
  PROVE  DInv'
<1>1. /\ drec' \in Deployed(v) /\ plan.verify = "capability"
      /\ vcall' = [vcall EXCEPT ![v] = [pc |-> "role", receipt |-> drec']]
      /\ UNCHANGED <<plan, local, auth, mrec, sent, writer, crashes, overdue, jobs, dcall>>
  BY DEF VerifyCapability, shared
<1>2. /\ dcall.pc = "idle" /\ drec # NoReceipt /\ drec.auth \in Ids /\ drec'.auth = drec.auth
      /\ drec' \in Receipts /\ drec' # NoReceipt /\ drec'.deploy = "succeeded" /\ drec'.verify = drec.verify
      /\ drec.verify # "succeeded" /\ Owned(drec') /\ Backed(drec') /\ auth[drec.auth].status = "EXECUTING"
      /\ \A w \in Verifiers : vcall[w] = Idle
  BY <1>1, DeployedIs
<1>3. /\ vcall'[v] = [pc |-> "role", receipt |-> drec'] /\ vcall' \in [Verifiers -> Calls]
      /\ \A w \in Verifiers : w # v => vcall'[w] = Idle
  BY <1>1, <1>2 DEF DInv, Typed, Calls
<1>4. Typed'
  BY <1>1, <1>2, <1>3 DEF DInv, Typed
<1>5. Owned(drec)' /\ Backed(drec)'
  BY <1>1, <1>2 DEF Owned, Backed
<1>6. DeployCall' /\ \A w \in Verifiers : VerifyCall(w)'
  BY <1>1, <1>2, <1>3, IdleCall DEF DeployCall, VerifyCall
<1>7. DeploysSent' /\ DeployOnRecord' /\ VerifyFollowsDeploy'
  <2>1. crashes \in Nat
    BY NotVerified
  <2> QED
    BY <1>1, <1>2, <2>1, RecordKept DEF Did
<1>8. VerifiesSent'
  <2>1. MayInvoke' => MayInvoke
    BY <1>1, <1>2, <1>3, IdleCall DEF MayInvoke
  <2> QED
    BY <1>1, <2>1, NotVerified DEF DInv, VerifiesSent
<1>9. SucceededIsProven' /\ SuccessIsFinal' /\ OneActive'
  BY <1>1, <1>2, NotVerified DEF DInv, SucceededIsProven, SuccessIsFinal, OneActive
<1> QED
  BY <1>4, <1>5, <1>6, <1>7, <1>8, <1>9 DEF DInv

\* What a verify call at one of its awaits knows: the receipt is as it loaded it, and nobody else holds it.
LEMMA VerifyHolds ==
  ASSUME DInv, OneVerifier, NEW v \in Verifiers, vcall[v].pc # "idle"
  PROVE  /\ plan.verify = "capability" /\ vcall[v].receipt = drec
         /\ drec \in Receipts /\ drec # NoReceipt /\ drec.auth \in Ids
         /\ drec.deploy = "succeeded" /\ drec.verify # "succeeded"
         /\ vcall[v].pc # "role" => drec.verify = "running"
         /\ dcall.pc = "idle" /\ Owned(drec) /\ Backed(drec)
         /\ \A w \in Verifiers : w # v => vcall[w] = Idle
<1>1. /\ plan.verify = "capability" /\ vcall[v].receipt = drec /\ drec.auth \in Ids
      /\ drec.deploy = "succeeded" /\ drec.verify # "succeeded"
      /\ vcall[v].pc # "role" => drec.verify = "running"
  BY DEF DInv, VerifyCall
<1>2. drec # NoReceipt /\ dcall.pc = "idle"
  BY <1>1, DeployHolds DEF NoReceipt
<1> QED
  BY <1>1, <1>2, Alone DEF DInv, Typed

\* The role check is refused or lost.
LEMMA VerifyReturnsKeeps ==
  ASSUME DInv, OneVerifier, NEW v \in Verifiers, VerifyReturns(v)
  PROVE  DInv'
<1>1. /\ vcall[v].pc = "role" /\ vcall' = [vcall EXCEPT ![v] = Idle]
      /\ UNCHANGED <<plan, local, auth, mrec, sent, writer, crashes, overdue, drec, jobs, dcall>>
  BY DEF VerifyReturns, shared
<1>2. \A w \in Verifiers : vcall'[w] = Idle
  BY <1>1, VerifyHolds DEF DInv, Typed
<1>3. Typed'
  BY <1>1, IdleCall DEF DInv, Typed
<1>4. Owned(drec)' /\ Backed(drec)' /\ DeployCall' /\ \A w \in Verifiers : VerifyCall(w)'
  <2>1. Owned(drec)' /\ Backed(drec)'
    BY <1>1 DEF DInv, Owned, Backed
  <2>2. DeployCall'
    BY <1>1, VerifyHolds DEF DeployCall
  <2> QED
    BY <1>2, <2>1, <2>2, IdleCall DEF VerifyCall
<1>5. DeploysSent' /\ DeployOnRecord' /\ VerifyFollowsDeploy'
  BY <1>1 DEF DInv, DeploysSent, DeployOnRecord, VerifyFollowsDeploy, Did
<1>6. VerifiesSent'
  <2>1. MayInvoke' => MayInvoke
    BY <1>1, <1>2, IdleCall DEF MayInvoke
  <2> QED
    BY <1>1, <2>1, NotVerified DEF DInv, VerifiesSent
<1>7. SucceededIsProven' /\ SuccessIsFinal' /\ OneActive'
  BY <1>1 DEF DInv, SucceededIsProven, SuccessIsFinal, OneActive
<1> QED
  BY <1>3, <1>4, <1>5, <1>6, <1>7 DEF DInv

\* The receipt says running before the capability is invoked.
LEMMA SaveVerifyIntentKeeps ==
  ASSUME DInv, OneVerifier, NEW v \in Verifiers, SaveVerifyIntent(v)
  PROVE  DInv'
<1>1. /\ vcall[v].pc = "role" /\ vcall[v].receipt.verify # "running"
      /\ drec' = [vcall[v].receipt EXCEPT !.verify = "running"]
      /\ vcall' = [vcall EXCEPT ![v] = [pc |-> "saved", receipt |-> drec']]
      /\ UNCHANGED <<plan, local, auth, mrec, sent, writer, crashes, overdue, jobs, dcall>>
  BY DEF SaveVerifyIntent, shared
<1>2. /\ plan.verify = "capability" /\ vcall[v].receipt = drec
      /\ drec \in Receipts /\ drec # NoReceipt /\ drec.auth \in Ids
      /\ drec.deploy = "succeeded" /\ drec.verify # "succeeded"
      /\ dcall.pc = "idle" /\ Owned(drec) /\ Backed(drec)
      /\ \A w \in Verifiers : w # v => vcall[w] = Idle
  BY <1>1, VerifyHolds
<1>3. /\ drec' \in Receipts /\ drec'.auth = drec.auth /\ drec'.refs = drec.refs /\ drec'.deploy = "succeeded"
      /\ drec'.djob = drec.djob /\ drec'.vjob = drec.vjob /\ drec'.verify = "running"
  BY <1>1, <1>2 DEF Receipts
<1>4. /\ vcall'[v] = [pc |-> "saved", receipt |-> drec'] /\ vcall' \in [Verifiers -> Calls]
      /\ \A w \in Verifiers : w # v => vcall'[w] = Idle
  BY <1>1, <1>2, <1>3 DEF DInv, Typed, Calls
<1>5. Typed'
  BY <1>1, <1>3, <1>4 DEF DInv, Typed
<1>6. Owned(drec)' /\ Backed(drec)'
  <2>1. Owned(drec)'
    BY <1>1, <1>2, <1>3 DEF Owned, DInv
  <2>2. Backed(drec)'
    BY <1>1, <1>2, <1>3 DEF Backed
  <2> QED
    BY <2>1, <2>2
<1>7. DeployCall' /\ \A w \in Verifiers : VerifyCall(w)'
  BY <1>1, <1>2, <1>3, <1>4, IdleCall DEF DeployCall, VerifyCall
<1>8. DeploysSent' /\ DeployOnRecord' /\ VerifyFollowsDeploy'
  <2>1. crashes \in Nat /\ drec' # NoReceipt
    BY <1>2, <1>3, NotVerified DEF NoReceipt
  <2> QED
    BY <1>1, <1>2, <1>3, <2>1, RecordKept DEF Did
<1>9. VerifiesSent'
  <2>1. MayInvoke
    BY <1>1, <1>2 DEF MayInvoke
  <2> QED
    BY <1>1, <2>1, NotVerified DEF DInv, VerifiesSent
<1>10. SucceededIsProven' /\ SuccessIsFinal' /\ OneActive'
  BY <1>1, <1>2, <1>3, NotVerified DEF DInv, SucceededIsProven, SuccessIsFinal, OneActive
<1> QED
  BY <1>5, <1>6, <1>7, <1>8, <1>9, <1>10 DEF DInv

\* The one verification goes out.
LEMMA InvokeVerifyKeeps ==
  ASSUME DInv, OneVerifier, NEW v \in Verifiers, InvokeVerify(v)
  PROVE  DInv'
<1> DEFINE i == vcall[v].receipt.auth
<1>1. /\ vcall[v].pc = "saved" /\ sent' = [sent EXCEPT ![i] = Append(@, "verify")]
      /\ vcall' = [vcall EXCEPT ![v].pc = "invoking"]
      /\ UNCHANGED <<plan, local, auth, mrec, writer, crashes, overdue, drec, jobs, dcall>>
  BY DEF InvokeVerify
<1>2. /\ plan.verify = "capability" /\ vcall[v].receipt = drec
      /\ drec \in Receipts /\ drec # NoReceipt /\ drec.auth = i /\ i \in Ids
      /\ drec.deploy = "succeeded" /\ drec.verify = "running"
      /\ dcall.pc = "idle" /\ Owned(drec) /\ Backed(drec)
      /\ \A w \in Verifiers : w # v => vcall[w] = Idle
  BY <1>1, VerifyHolds
<1> HIDE DEF i
<1>3. /\ vcall'[v].pc = "invoking" /\ vcall'[v].receipt = drec /\ vcall' \in [Verifiers -> Calls]
      /\ \A w \in Verifiers : w # v => vcall'[w] = Idle
  BY <1>1, <1>2 DEF DInv, Typed, Calls
<1>4. /\ sent' \in [Ids -> Seq(Effects)]
      /\ \A j \in Ids : /\ Did(j, "deploy")' <=> Did(j, "deploy")
                        /\ Did(j, "verify")' <=> Did(j, "verify") \/ j = i
                        /\ Count(sent'[j], "deploy") = Count(sent[j], "deploy") + 0
                        /\ Count(sent'[j], "verify") = Count(sent[j], "verify") + (IF j = i THEN 1 ELSE 0)
  BY <1>1, <1>2, Sends DEF DInv, Effects
<1>5. Typed'
  BY <1>1, <1>3, <1>4 DEF DInv, Typed
<1>6. Owned(drec)' /\ Backed(drec)'
  BY <1>1, <1>2 DEF Owned, Backed
<1>7. DeployCall' /\ \A w \in Verifiers : VerifyCall(w)'
  BY <1>1, <1>2, <1>3, IdleCall DEF DeployCall, VerifyCall
<1>8. DeploysSent' /\ DeployOnRecord' /\ VerifyFollowsDeploy'
  <2>1. crashes \in Nat
    BY NotVerified
  <2>2. \A j \in Ids : Count(sent'[j], "deploy") = Count(sent[j], "deploy")
    BY <1>4, NotVerified
  <2> QED
    BY <1>1, <1>2, <1>4, <2>1, <2>2, RecordKept
<1>9. VerifiesSent'
  <2>1. MayInvoke
    BY <1>1, <1>2 DEF MayInvoke
  <2>2. ~MayInvoke'
    BY <1>1, <1>2, <1>3, IdleCall DEF MayInvoke
  <2>3. \A j \in Ids : Count(sent[j], "verify") <= crashes + 0
    BY <2>1 DEF DInv, VerifiesSent
  <2> QED
    BY <1>1, <1>4, <2>2, <2>3, NotVerified DEF VerifiesSent
<1>10. SucceededIsProven' /\ SuccessIsFinal' /\ OneActive'
  BY <1>1 DEF DInv, SucceededIsProven, SuccessIsFinal, OneActive
<1> QED
  BY <1>5, <1>6, <1>7, <1>8, <1>9, <1>10 DEF DInv

\* A job that ended did so in one of the ways an outcome is judged by.
LEMMA EndedJob ==
  ASSUME Typed, NEW k \in 0..Len(jobs), Ended(k)
  PROVE  k \in 1..Len(jobs) /\ jobs[k].state \in {"exact", "other", "missing", "failed", "lost"}
<1>1. k \in 1..Len(jobs) /\ jobs[k].state \notin {"running", "orphan"}
  BY LenProperties DEF Ended, Typed
<1>2. jobs[k] \in JobRows
  BY <1>1, ElementOfSeq DEF Typed
<1> QED
  BY <1>1, <1>2 DEF JobRows, JobStates, JobEnds

\* What a verify call concludes with: the receipt's own row and jobs, and success only of what succeeded.
Concluded(o) ==
  /\ o.receipt \in Receipts /\ o.receipt.auth = drec.auth /\ o.receipt.refs = drec.refs
  /\ o.receipt.vjob = drec.vjob
  /\ Backed(o.receipt)
  /\ drec.deploy = "succeeded" => o.receipt.deploy = "succeeded"
  /\ o.status \in {"SUCCEEDED", "FAILED", "UNCERTAIN"}
  /\ o.status = "SUCCEEDED" => o.receipt.deploy = "succeeded" /\ o.receipt.verify = "succeeded"

\* A receipt that keeps its jobs, and claims no more than they show, stays backed.
LEMMA BackedBy ==
  ASSUME NEW r, Backed(r), NEW s, s.auth = r.auth, s.djob = r.djob, s.vjob = r.vjob,
         s.deploy = "succeeded" => r.deploy = "succeeded",
         (plan.verify = "profile" /\ s.verify = "succeeded") => s.vjob # 0 /\ jobs[s.vjob].state = "exact"
  PROVE  Backed(s)
  BY DEF Backed

\* Whatever a verify call concludes, it is about the receipt on disk, which had not yet succeeded.
LEMMA ConclusionIs ==
  ASSUME DInv, OneVerifier, NEW v \in Verifiers, NEW o \in Conclusions(v)
  PROVE  /\ Concluded(o)
         /\ drec \in Receipts /\ drec # NoReceipt /\ drec.auth \in Ids /\ drec.verify # "succeeded"
         /\ dcall.pc = "idle" /\ Owned(drec)
         /\ \A w \in Verifiers : w # v => vcall[w] = Idle
<1>1. CASE \E k \in {drec.djob} : /\ DeployJobEnded(v) /\ jobs[k].state # "exact"
                                  /\ o = DeployOutcome(drec, jobs[k].state)
  <2> DEFINE e == jobs[drec.djob].state
  <2>1. MayVerify(v) /\ drec.deploy # "succeeded" /\ Ended(drec.djob) /\ e # "exact" /\ o = DeployOutcome(drec, e)
    BY <1>1 DEF DeployJobEnded
  <2>2. /\ dcall.pc = "idle" /\ drec # NoReceipt /\ drec \in Receipts /\ drec.auth \in Ids
        /\ vcall[v] = Idle /\ drec.verify # "succeeded" /\ Owned(drec) /\ Backed(drec)
    BY <2>1, Enters
  <2>3. e \in {"other", "missing", "failed", "lost"}
    <3>1. drec.djob \in 0..Len(jobs)
      BY <2>2 DEF Backed
    <3> QED
      BY <2>1, <3>1, EndedJob DEF DInv
  <2> HIDE DEF e
  <2>4. /\ o.receipt \in Receipts /\ o.receipt.auth = drec.auth /\ o.receipt.refs = drec.refs
        /\ o.receipt.verify = drec.verify /\ o.receipt.djob = drec.djob /\ o.receipt.vjob = drec.vjob
        /\ o.receipt.deploy # "succeeded" /\ o.status \in {"FAILED", "UNCERTAIN"}
    BY <2>1, <2>2, <2>3, DeployOutcomes
  <2>5. Backed(o.receipt)
    BY <2>2, <2>4, BackedBy
  <2> QED
    BY <2>1, <2>2, <2>4, <2>5, Alone DEF Concluded
<1>2. CASE \E r \in Deployed(v) : /\ plan.verify = "profile" /\ Ended(r.vjob)
                                  /\ o = VerifyOutcome(r, jobs[r.vjob].state)
  <2>1. PICK r \in Deployed(v) : /\ plan.verify = "profile" /\ Ended(r.vjob)
                                 /\ o = VerifyOutcome(r, jobs[r.vjob].state)
    BY <1>2
  <2> DEFINE e == jobs[r.vjob].state
  <2>2. /\ dcall.pc = "idle" /\ drec # NoReceipt /\ drec \in Receipts /\ drec.auth \in Ids
        /\ drec.verify # "succeeded" /\ Backed(r)
        /\ r \in Receipts /\ r.auth = drec.auth /\ r.refs = drec.refs /\ r.deploy = "succeeded"
        /\ r.djob = drec.djob /\ r.vjob = drec.vjob
        /\ \A w \in Verifiers : vcall[w] = Idle
    BY DeployedIs
  <2>3. r.vjob # 0 /\ e \in {"exact", "other", "missing", "failed", "lost"}
    <3>1. r.vjob \in 0..Len(jobs)
      BY <2>2 DEF Backed
    <3>2. e \in {"exact", "other", "missing", "failed", "lost"}
      BY <2>1, <3>1, EndedJob DEF DInv
    <3> QED
      BY <2>1, <3>2 DEF Ended
  <2>4. o = VerifyOutcome(r, e) /\ (e = "exact" <=> jobs[r.vjob].state = "exact")
    BY <2>1
  <2> HIDE DEF e
  <2>5. /\ o.receipt \in Receipts /\ o.receipt.auth = r.auth /\ o.receipt.refs = r.refs
        /\ o.receipt.deploy = r.deploy /\ o.receipt.djob = r.djob /\ o.receipt.vjob = r.vjob
        /\ o.receipt.verify = "succeeded" <=> e = "exact"
        /\ o.status \in {"SUCCEEDED", "FAILED", "UNCERTAIN"} /\ (o.status = "SUCCEEDED" <=> e = "exact")
    BY <2>2, <2>3, <2>4, VerifyOutcomes
  <2>6. Backed(o.receipt)
    BY <2>2, <2>3, <2>4, <2>5, BackedBy
  <2>7. Owned(drec)
    BY DEF DInv
  <2> QED
    BY <2>2, <2>5, <2>6, <2>7 DEF Concluded
<1>3. CASE \E e \in {"exact", "other", "missing"} :
             /\ vcall[v].pc # "idle" /\ o = VerifyOutcome(vcall[v].receipt, e)
  <2>1. PICK e \in {"exact", "other", "missing"} :
               vcall[v].pc # "idle" /\ o = VerifyOutcome(vcall[v].receipt, e)
    BY <1>3
  <2>2. /\ plan.verify = "capability" /\ vcall[v].receipt = drec
        /\ drec \in Receipts /\ drec # NoReceipt /\ drec.auth \in Ids
        /\ drec.deploy = "succeeded" /\ drec.verify # "succeeded"
        /\ dcall.pc = "idle" /\ Owned(drec) /\ Backed(drec)
        /\ \A w \in Verifiers : w # v => vcall[w] = Idle
    BY <2>1, VerifyHolds
  <2>3. /\ o.receipt \in Receipts /\ o.receipt.auth = drec.auth /\ o.receipt.refs = drec.refs
        /\ o.receipt.deploy = drec.deploy /\ o.receipt.djob = drec.djob /\ o.receipt.vjob = drec.vjob
        /\ o.receipt.verify = "succeeded" <=> e = "exact"
        /\ o.status \in {"SUCCEEDED", "FAILED", "UNCERTAIN"} /\ (o.status = "SUCCEEDED" <=> e = "exact")
    BY <2>1, <2>2, VerifyOutcomes
  <2>4. Backed(o.receipt)
    BY <2>2, <2>3, BackedBy
  <2> QED
    BY <2>2, <2>3, <2>4 DEF Concluded
<1> QED
  BY <1>1, <1>2, <1>3 DEF Conclusions

\* The verification is judged, or the Gateway dies after saving the receipt.
LEMMA ConcludeKeeps ==
  ASSUME DInv, OneVerifier, NEW v \in Verifiers, Conclude(v) \/ ConcludeCrash(v)
  PROVE  DInv'
<1>1. PICK o \in Conclusions(v) :
        /\ drec' = o.receipt /\ UNCHANGED <<plan, local, mrec, sent, overdue>>
        /\ \/ /\ EndAs(drec'.auth, o.status) /\ vcall' = [vcall EXCEPT ![v] = Idle]
              /\ UNCHANGED <<writer, crashes, jobs, dcall>>
           \/ Restart /\ jobs' \in Restarted(jobs) /\ UNCHANGED auth
  BY DEF Conclude, ConcludeCrash, Judge
<1>2. /\ Concluded(o)
      /\ drec \in Receipts /\ drec # NoReceipt /\ drec.auth \in Ids /\ drec.verify # "succeeded"
      /\ dcall.pc = "idle" /\ Owned(drec)
      /\ \A w \in Verifiers : w # v => vcall[w] = Idle
  BY ConclusionIs
<1>3. /\ drec' \in Receipts /\ drec'.auth = drec.auth /\ drec'.refs = drec.refs /\ drec'.vjob = drec.vjob
      /\ Backed(drec') /\ drec' # NoReceipt
      /\ drec.deploy = "succeeded" => drec'.deploy = "succeeded"
      /\ o.status \in {"SUCCEEDED", "FAILED", "UNCERTAIN"}
      /\ o.status = "SUCCEEDED" => drec'.deploy = "succeeded" /\ drec'.verify = "succeeded"
  BY <1>1, <1>2, DeployAssumption DEF Concluded, NoReceipt
<1>4. JobsKept /\ RowsKept
  <2>1. Len(jobs) \in Nat
    BY LenProperties DEF DInv, Typed
  <2>2. JobsKept
    <3>1. CASE jobs' = jobs
      BY <2>1, <3>1 DEF DInv, Typed, JobsKept
    <3>2. CASE jobs' \in Restarted(jobs)
      BY <2>1, <3>2, RestartedJobs DEF DInv, Typed, JobsKept
    <3> QED
      BY <1>1, <3>1, <3>2
  <2>3. RowsKept
    BY <1>1, <1>2, <1>3, EndsRow DEF DInv, Typed, RowsKept
  <2> QED
    BY <2>2, <2>3
<1>5. /\ \A j \in Ids : auth'[j].status = auth[j].status \/ (j = drec.auth /\ auth'[j].status = o.status)
      /\ auth'[drec.auth].status # "EXECUTING" \/ crashes' > 0
  BY <1>1, <1>2, <1>3, EndsRow, RestartEnds DEF DInv
<1>6. /\ crashes \in Nat /\ crashes' \in 0..MaxCrash /\ crashes' >= crashes
      /\ writer' \in {"nobody", "pr_merge", "deploy"} /\ dcall' \in Calls /\ vcall' \in [Verifiers -> Calls]
      /\ dcall'.pc = "idle" /\ \A w \in Verifiers : vcall'[w] = Idle
  <2>1. CASE Restart
    BY <2>1, RestartEnds DEF DInv
  <2>2. CASE /\ vcall' = [vcall EXCEPT ![v] = Idle] /\ UNCHANGED <<writer, crashes, jobs, dcall>>
    BY <1>2, <2>2, IdleCall DEF DInv, Typed
  <2> QED
    BY <1>1, <2>1, <2>2
<1>7. Typed'
  BY <1>1, <1>3, <1>4, <1>6 DEF DInv, Typed, JobsKept, RowsKept
<1>8. Owned(drec)' /\ Backed(drec)'
  <2>1. Owned(drec)'
    BY <1>2, <1>3, <1>4 DEF Owned, RowsKept
  <2>2. Backed(o.receipt)'
    BY <1>1, <1>3, <1>4, BackedStays DEF DInv
  <2>3. Backed(drec)'
    BY <1>1, <2>2 DEF Backed
  <2> QED
    BY <2>1, <2>3
<1>9. DeployCall' /\ \A w \in Verifiers : VerifyCall(w)'
  BY <1>6, IdleCall DEF DeployCall, VerifyCall
<1>10. DeploysSent' /\ DeployOnRecord' /\ VerifyFollowsDeploy'
  BY <1>1, <1>2, <1>3, <1>6, RecordKept DEF Did
<1>11. VerifiesSent'
  <2>1. CASE crashes' = crashes + 1
    BY <1>1, <1>6, <2>1, NotVerified DEF VerifiesSent
  <2>2. CASE UNCHANGED crashes
    <3>1. crashes' = crashes /\ auth'[drec.auth].status # "EXECUTING"
      BY <1>1, <1>2, <1>3, <1>6, <2>2, EndsRow, RestartEnds DEF DInv
    <3>2. plan.verify = "profile" => (MayInvoke' <=> MayInvoke)
      BY <1>1, <1>3 DEF MayInvoke
    <3>3. plan.verify # "profile" => ~MayInvoke'
      BY <1>1, <1>3, <1>6, <3>1, IdleCall DEF MayInvoke
    <3> QED
      BY <1>1, <3>1, <3>2, <3>3, NotVerified DEF DInv, VerifiesSent
  <2> QED
    BY <1>1, <2>1, <2>2, RestartEnds DEF DInv
<1>12. SucceededIsProven' /\ SuccessIsFinal'
  <2>1. SuccessIsFinal'
    BY <1>3, <1>5, <1>6 DEF SuccessIsFinal
  <2>2. SucceededIsProven'
    BY <1>2, <1>3, <1>5, NotVerified DEF SucceededIsProven
  <2> QED
    BY <2>1, <2>2
<1>13. OneActive'
  BY <1>3, <1>5 DEF DInv, OneActive, Active
<1> QED
  BY <1>6, <1>7, <1>8, <1>9, <1>10, <1>11, <1>12, <1>13 DEF DInv

-----------------------------------------------------------------------------
(* The steps of the world around, and all steps together.                   *)

\* A job ends as it does; what is on record about it stays.
LEMMA JobFinishesKeeps ==
  ASSUME DInv, NEW k \in DOMAIN jobs, JobFinishes(k)
  PROVE  DInv'
<1>1. PICK e \in JobEnds :
        /\ jobs[k].state = "running" /\ jobs' = [jobs EXCEPT ![k].state = e]
        /\ UNCHANGED <<plan, local, auth, mrec, sent, writer, crashes, overdue, drec, dcall, vcall>>
  BY DEF JobFinishes, shared
<1>2. JobsKept
  <2> DEFINE row == [jobs[k] EXCEPT !.state = e]
  <2>1. k \in 1..Len(jobs) /\ Len(jobs) \in Nat /\ jobs[k] \in JobRows /\ jobs \in Seq(JobRows) /\ Len(jobs) <= MaxJobs
    BY LenProperties, ElementOfSeq DEF DInv, Typed
  <2>2. row \in JobRows /\ row.auth = jobs[k].auth /\ row.role = jobs[k].role
    BY <2>1 DEF JobRows, JobStates
  <2>3. jobs' = [jobs EXCEPT ![k] = row]
    BY <1>1
  <2> HIDE DEF row
  <2>4. /\ jobs' \in Seq(JobRows) /\ Len(jobs') = Len(jobs)
        /\ \A n \in 1..Len(jobs) : jobs'[n] = IF n = k THEN row ELSE jobs[n]
    BY <2>1, <2>2, <2>3, ExceptSeq
  <2> QED
    BY <1>1, <2>1, <2>2, <2>4 DEF JobsKept
<1>3. Typed'
  BY <1>1, <1>2 DEF DInv, Typed, JobsKept
<1>4. Owned(drec)' /\ Backed(drec)'
  BY <1>1, <1>2, BackedStays DEF DInv, Typed, Owned
<1>5. DeployCall' /\ \A v \in Verifiers : VerifyCall(v)'
  BY <1>1 DEF DInv, DeployCall, VerifyCall, Owned
<1>6. DeploysSent' /\ DeployOnRecord' /\ VerifiesSent' /\ VerifyFollowsDeploy'
  BY <1>1 DEF DInv, DeploysSent, DeployOnRecord, VerifiesSent, MayInvoke, VerifyFollowsDeploy, Did
<1>7. SucceededIsProven' /\ SuccessIsFinal' /\ OneActive'
  BY <1>1 DEF DInv, SucceededIsProven, SuccessIsFinal, OneActive
<1> QED
  BY <1>3, <1>4, <1>5, <1>6, <1>7 DEF DInv

\* What nobody's call does leaves what is on record alone.
LEMMA QuietKeeps ==
  ASSUME DInv, UNCHANGED <<plan, shared, drec, jobs, dcall, vcall>>,
         overdue' \subseteq Ids
  PROVE  DInv'
<1>1. UNCHANGED <<plan, local, auth, mrec, sent, writer, crashes, drec, jobs, dcall, vcall>>
  BY DEF shared
<1>2. Typed'
  BY <1>1 DEF DInv, Typed
<1>3. Owned(drec)' /\ Backed(drec)' /\ DeployCall' /\ \A v \in Verifiers : VerifyCall(v)'
  BY <1>1 DEF DInv, DeployCall, VerifyCall, Owned, Backed
<1>4. DeploysSent' /\ DeployOnRecord' /\ VerifiesSent' /\ VerifyFollowsDeploy'
  BY <1>1 DEF DInv, DeploysSent, DeployOnRecord, VerifiesSent, MayInvoke, VerifyFollowsDeploy, Did
<1>5. SucceededIsProven' /\ SuccessIsFinal' /\ OneActive'
  BY <1>1 DEF DInv, SucceededIsProven, SuccessIsFinal, OneActive
<1> QED
  BY <1>2, <1>3, <1>4, <1>5 DEF DInv

\* Every step of the two tools and of the jobs keeps the invariant.
LEMMA DeployNextKeeps ==
  ASSUME DInv, OneVerifier, DeployNext
  PROVE  DInv'
<1>1. CASE Deploys
  BY <1>1, DeployProfileKeeps, DeployProfileCrashKeeps, DeployCapabilityKeeps, DeployRefusedKeeps,
     SaveDeployIntentKeeps, InvokeDeployKeeps, DeployAnsweredKeeps DEF Deploys
<1>2. ASSUME NEW v \in Verifiers, Verifies(v) PROVE DInv'
  BY <1>2, VerifyProfileKeeps, VerifyProfileCrashKeeps, VerifyNotStartedKeeps, VerifyCapabilityKeeps,
     VerifyReturnsKeeps, SaveVerifyIntentKeeps, InvokeVerifyKeeps, ConcludeKeeps DEF Verifies
<1>3. CASE Around
  <2>1. ASSUME NEW i \in Ids, DeadlinePasses(i) PROVE DInv'
    BY <2>1, QuietKeeps DEF DeadlinePasses, DInv, Typed
  <2> QED
    BY <1>3, <2>1, JobFinishesKeeps DEF Around
<1> QED
  BY <1>1, <1>2, <1>3 DEF DeployNext

\* Every step of the stage on its own keeps the invariant.
LEMMA DeployStep ==
  ASSUME DInv, OneVerifier, [Next]_dvars
  PROVE  DInv'
<1>1. CASE DeployNext
  BY <1>1, DeployNextKeeps
<1>2. CASE Crash
  <2>1. Outside /\ Dies
    BY <1>2 DEF Crash, Outside, Dies, RowsKept, DInv, Typed, OneActive
  <2> QED
    BY <2>1, OutsideKeeps
<1>3. CASE ActionChanges
  <2>1. UNCHANGED <<auth, mrec, sent, writer, crashes, plan, overdue, drec, jobs, dcall, vcall>>
    BY <1>3 DEF ActionChanges, own
  <2>2. local' \in [refs : {1, 2}]
    BY <1>3 DEF ActionChanges, DInv, Typed
  <2>3. Outside /\ Stays
    BY <2>1, <2>2 DEF Outside, Stays, RowsKept, DInv, Typed, OneActive
  <2> QED
    BY <2>3, OutsideKeeps
<1>4. ASSUME NEW i \in Ids, Granted(i) PROVE DInv'
  <2>1. PICK r \in {1, local.refs} : auth' = [auth EXCEPT ![i] = [status |-> "EXECUTING", refs |-> r]]
    BY <1>4 DEF Granted
  <2>2. /\ ActiveIds = {} /\ auth[i].status = "NONE" /\ writer = "nobody"
        /\ mrec' = [mrec EXCEPT ![i] = "ok"] /\ overdue' \in {overdue, overdue \cup {i}}
        /\ UNCHANGED <<plan, local, sent, writer, crashes, drec, jobs, dcall, vcall>>
    BY <1>4 DEF Granted
  <2>3. /\ auth' \in [Ids -> Rows] /\ auth'[i].status = "EXECUTING"
        /\ \A j \in Ids \ {i} : auth'[j] = auth[j]
    BY <2>1 DEF DInv, Typed, Rows, Statuses
  <2>4. \A j \in Ids : auth[j].status \notin Active
    BY <2>2 DEF ActiveIds
  <2>5. RowsKept /\ OneActive'
    BY <2>2, <2>3, <2>4 DEF RowsKept, OneActive, Unused
  <2>6. mrec' \in [Ids -> {"none", "ok", "torn"}]
    BY <2>2 DEF DInv, Typed
  <2>7. Outside /\ Stays
    BY <2>2, <2>3, <2>5, <2>6 DEF Outside, Stays, Unused, DInv, Typed
  <2> QED
    BY <2>7, OutsideKeeps
<1>5. ASSUME NEW i \in Ids, Condemned(i) PROVE DInv'
  <2>1. /\ EndAs(i, "UNCERTAIN")
        /\ UNCHANGED <<local, mrec, sent, writer, crashes, plan, overdue, drec, jobs, dcall, vcall>>
    BY <1>5 DEF Condemned, own
  <2>2. RowsKept /\ \A j \in Ids : auth'[j].status \in {auth[j].status, "UNCERTAIN"}
    BY <2>1, EndsRow DEF DInv
  <2>3. Outside /\ Stays
    BY <2>1, <2>2 DEF Outside, Stays, OneActive, Active, DInv, Typed
  <2> QED
    BY <2>3, OutsideKeeps
<1>6. CASE UNCHANGED dvars
  BY <1>6, QuietKeeps DEF dvars, own, DInv, Typed
<1> QED
  BY <1>1, <1>2, <1>3, <1>4, <1>5, <1>6 DEF Next

\* Nothing was granted, deployed or started yet.
LEMMA DeployInit ==
  ASSUME Init
  PROVE  DInv
<1>1. /\ local = [refs |-> 1] /\ auth = [i \in Ids |-> [status |-> "NONE", refs |-> 1]]
      /\ mrec = [i \in Ids |-> "none"] /\ sent = [i \in Ids |-> <<>>] /\ writer = "nobody" /\ crashes = 0
      /\ plan \in Plans /\ overdue = {} /\ drec = NoReceipt /\ jobs = <<>>
      /\ dcall = Idle /\ vcall = [v \in Verifiers |-> Idle]
  BY DEF Init, DInit
<1>2. <<>> \in Seq(Effects) /\ <<>> \in Seq(JobRows) /\ Len(jobs) = 0
  BY <1>1
<1>3. Typed
  BY <1>1, <1>2, IdleCall, DeployAssumption DEF Typed, Rows, Statuses
<1>4. \A i \in Ids, x \in Effects : Count(sent[i], x) = 0 /\ ~Did(i, x)
  <2>1. ASSUME NEW i \in Ids, NEW x \in Effects PROVE Count(sent[i], x) = 0 /\ ~Did(i, x)
    <3>1. sent[i] = <<>> /\ ~\E n \in DOMAIN sent[i] : sent[i][n] = x
      BY <1>1
    <3> QED
      BY <1>2, <3>1, Counts DEF Did
  <2> QED
    BY <2>1
<1>5. Owned(drec) /\ Backed(drec) /\ DeployCall /\ \A v \in Verifiers : VerifyCall(v)
  BY <1>1, <1>2, IdleCall DEF Owned, Backed, DeployCall, VerifyCall, NoReceipt
<1>6. DeploysSent /\ DeployOnRecord /\ VerifiesSent /\ VerifyFollowsDeploy
  BY <1>1, <1>4 DEF DeploysSent, DeployOnRecord, VerifiesSent, VerifyFollowsDeploy, Effects
<1>7. SucceededIsProven /\ SuccessIsFinal /\ OneActive
  BY <1>1, DeployAssumption DEF SucceededIsProven, SuccessIsFinal, OneActive, Active, NoReceipt
<1> QED
  BY <1>3, <1>5, <1>6, <1>7 DEF DInv

-----------------------------------------------------------------------------
(* What the invariant means.                                                *)

\* One deployment, on record; one verification for each life of the Gateway, after it.
LEMMA DInvMeansDeployInv ==
  ASSUME DInv
  PROVE  DeployInv
<1>1. TypeOK
  <2>1. \A i \in Ids : \A n \in DOMAIN sent[i] : sent[i][n] \in {"merge", "deploy", "verify"}
    BY LenProperties, ElementOfSeq DEF DInv, Typed, Effects
  <2>2. \A k \in DOMAIN jobs : jobs[k] \in JobRows
    BY LenProperties, ElementOfSeq DEF DInv, Typed
  <2>3. \A i \in Ids : auth[i].status \in Statuses /\ mrec[i] \in {"none", "ok", "torn"}
    BY DEF DInv, Typed, Rows
  <2> QED
    BY <2>1, <2>2, <2>3 DEF DInv, Typed, TypeOK, Statuses, JobRows, Calls
<1>2. DeployedOnce
  <2>1. ASSUME NEW i \in Ids
        PROVE  Count(sent[i], "deploy") <= 1 + (IF plan.deploy = "profile" THEN crashes ELSE 0)
    BY NotVerified DEF DInv, DeploysSent
  <2>2. ASSUME NEW i \in Ids, NEW j \in Ids, Did(i, "deploy"), Did(j, "deploy")
        PROVE  i = j \/ (plan.deploy = "profile" /\ crashes > 0)
    BY <2>2 DEF DInv, DeployOnRecord
  <2> QED
    BY <2>1, <2>2 DEF DeployedOnce
<1>3. OncePerLife
  <2>1. \A i \in Ids : Count(sent[i], "verify") <= 1 + crashes
    BY NotVerified
  <2> QED
    BY <2>1 DEF OncePerLife
<1> QED
  BY <1>1, <1>2, <1>3 DEF DInv, DeployInv

\* Success is the receipt's, and the receipt's is its jobs'.
LEMMA DInvMeansProven ==
  ASSUME DInv
  PROVE  SuccessIsProven
<1>1. drec \in Receipts
  BY DEF DInv, Typed
<1>2. SuccessHasItsJob
  BY <1>1 DEF DInv, Backed, SuccessHasItsJob
<1> QED
  BY <1>2 DEF DInv, SuccessIsProven

\* Where verification is advised it can be started or concluded, where waiting is, a job has not ended.
LEMMA DInvMeansHonest ==
  ASSUME DInv
  PROVE  StatusIsHonest
<1> SUFFICES ASSUME plan = [deploy |-> "profile", verify |-> "profile"], NEW i \in Ids
             PROVE  /\ auth[i].status = "SUCCEEDED" => Shown(i) = "done"
                    /\ (drec.auth = i /\ Authorized(i)) =>
                         /\ NextAction = "deploy_verify" =>
                              \A v \in Verifiers : Conclusions(v) # {} \/ \E r \in Deployed(v) : r.vjob = 0
                         /\ NextAction = "wait" => \E k \in DOMAIN jobs : jobs[k].auth = i /\ ~Ended(k)
                         /\ NextAction # "nothing" \/ crashes > 0
  BY DEF StatusIsHonest
<1>1. auth[i].status = "SUCCEEDED" => Shown(i) = "done"
  BY DEF DInv, SucceededIsProven, Shown
<1> SUFFICES ASSUME drec.auth = i, Authorized(i)
             PROVE  /\ NextAction = "deploy_verify" =>
                         \A v \in Verifiers : Conclusions(v) # {} \/ \E r \in Deployed(v) : r.vjob = 0
                    /\ NextAction = "wait" => \E k \in DOMAIN jobs : jobs[k].auth = i /\ ~Ended(k)
                    /\ NextAction # "nothing" \/ crashes > 0
  BY <1>1
<1>2. /\ drec \in Receipts /\ drec # NoReceipt /\ drec.refs = local.refs /\ auth[i].status = "EXECUTING"
      /\ plan.deploy = "profile" /\ plan.verify = "profile" /\ Backed(drec)
      /\ ActiveIds \subseteq {drec.auth}
  <2>1. drec \in Receipts /\ Backed(drec) /\ auth[i].status = "EXECUTING"
    BY DEF DInv, Typed, Authorized
  <2>2. drec # NoReceipt /\ drec.refs = local.refs
    BY Named DEF DInv, Owned, Authorized
  <2>3. ActiveIds \subseteq {drec.auth}
    BY <2>1 DEF DInv, OneActive, ActiveIds, Active
  <2> QED
    BY <2>1, <2>2, <2>3
<1>3. /\ StageFromJob(drec.djob) \in {"running", "blocked", "pending"}
      /\ StageFromJob(drec.vjob) \in {"running", "blocked", "pending"}
  BY DEF StageFromJob
<1>4. ASSUME NextAction = "deploy_verify", NEW v \in Verifiers
      PROVE  Conclusions(v) # {} \/ \E r \in Deployed(v) : r.vjob = 0
  <2>1. DeployShown = "done" /\ VerifyShown = "pending"
    BY <1>4 DEF NextAction
  <2>2. drec.deploy = "succeeded"
    BY <1>3, <2>1 DEF DeployShown
  <2>3. drec.verify # "succeeded" /\ StageFromJob(drec.vjob) = "pending"
    BY <2>1 DEF VerifyShown
  <2>4. drec.vjob = 0 \/ Ended(drec.vjob)
    BY <2>3 DEF StageFromJob
  <2>5. vcall[v] = Idle
    BY <1>2 DEF DInv, VerifyCall
  <2>6. MayVerify(v)
    BY <1>2, <2>3, <2>5 DEF MayVerify
  <2> DEFINE r == [drec EXCEPT !.deploy = "succeeded"]
  <2>7. r \in Deployed(v) /\ r.vjob = drec.vjob
    BY <1>2, <2>2, <2>6 DEF Deployed, Receipts
  <2> HIDE DEF r
  <2>8. CASE drec.vjob = 0
    BY <2>7, <2>8
  <2>9. CASE Ended(drec.vjob)
    <3>1. VerifyOutcome(r, jobs[r.vjob].state) \in Conclusions(v)
      BY <1>2, <2>7, <2>9 DEF Conclusions
    <3> QED
      BY <3>1
  <2> QED
    BY <2>4, <2>8, <2>9
<1>5. ASSUME NextAction = "wait"
      PROVE  \E k \in DOMAIN jobs : jobs[k].auth = i /\ ~Ended(k)
  <2>1. "running" \in {DeployShown, VerifyShown}
    BY <1>5 DEF NextAction
  <2>2. \E k \in {drec.djob, drec.vjob} : k # 0 /\ ~Ended(k)
    <3>1. \A k : StageFromJob(k) = "running" => k # 0 /\ ~Ended(k)
      BY DEF StageFromJob
    <3> QED
      BY <2>1, <3>1 DEF DeployShown, VerifyShown
  <2>3. PICK k \in {drec.djob, drec.vjob} : k # 0 /\ ~Ended(k)
    BY <2>2
  <2>4. k \in DOMAIN jobs /\ jobs[k].auth = i
    BY <1>2, <2>3, LenProperties DEF DInv, Typed, Backed
  <2> QED
    BY <2>3, <2>4
<1>6. NextAction # "nothing" \/ crashes > 0
  <2> SUFFICES ASSUME NextAction = "nothing", crashes = 0 PROVE FALSE
    BY NotVerified
  <2>1. drec.verify # "succeeded"
    BY <1>2 DEF DInv, SuccessIsFinal
  <2>2. DeployShown \in {"done", "running", "blocked", "pending"}
    BY <1>3 DEF DeployShown
  <2>3. VerifyShown \in {"running", "blocked", "pending"}
    BY <1>3, <2>1 DEF VerifyShown
  <2> QED
    BY <2>2, <2>3 DEF NextAction
<1> QED
  BY <1>4, <1>5, <1>6

-----------------------------------------------------------------------------
(* The theorems.                                                            *)

\* deploy.yaml is read once: no step changes how the actions are named.
LEMMA PlanFixed ==
  ASSUME [Next]_dvars
  PROVE  plan' = plan
<1>1. CASE Deploys
  BY <1>1 DEF Deploys, DeployProfile, DeployProfileCrash, DeployCapability, DeployRefused,
     SaveDeployIntent, InvokeDeploy, DeployAnswered, DeployAnsweredCrash
<1>2. ASSUME NEW v \in Verifiers, Verifies(v) PROVE plan' = plan
  BY <1>2 DEF Verifies, VerifyProfile, VerifyNotStarted, VerifyProfileCrash, VerifyCapability,
     VerifyReturns, SaveVerifyIntent, InvokeVerify, Conclude, ConcludeCrash
<1>3. CASE Around
  BY <1>3 DEF Around, JobFinishes, DeadlinePasses
<1>4. CASE Crash \/ ActionChanges \/ \E i \in Ids : Granted(i) \/ Condemned(i)
  BY <1>4 DEF Crash, ActionChanges, Granted, Condemned, own
<1>5. CASE UNCHANGED dvars
  BY <1>5 DEF dvars, own
<1> QED
  BY <1>1, <1>2, <1>3, <1>4, <1>5 DEF Next, DeployNext

\* The invariant holds in every state.
THEOREM DInvAlways == Spec => [](OneVerifier => DInv)
<1>1. Init => (OneVerifier => DInv)
  BY DeployInit
<1>2. (OneVerifier => DInv) /\ [Next]_dvars => (OneVerifier => DInv)'
  <2> SUFFICES ASSUME OneVerifier => DInv, [Next]_dvars, OneVerifier' PROVE DInv'
    OBVIOUS
  <2>1. OneVerifier
    BY PlanFixed DEF OneVerifier
  <2> QED
    BY <2>1, DeployStep
<1> QED
  BY <1>1, <1>2, PTL DEF Spec

\* However calls, losses and crashes fall, a deployment and its verification are each
\* started once (once more for each crash that lost the record of it), on record, in order.
THEOREM DeployInvAlways == Spec => [](OneVerifier => DeployInv)
<1>1. (OneVerifier => DInv) => (OneVerifier => DeployInv)
  BY DInvMeansDeployInv
<1> QED
  BY <1>1, DInvAlways, PTL

\* SUCCEEDED rests on the receipt, and the receipt's success on jobs that ended with exactly its evidence.
THEOREM SuccessAlwaysProven == Spec => [](OneVerifier => SuccessIsProven)
<1>1. (OneVerifier => DInv) => (OneVerifier => SuccessIsProven)
  BY DInvMeansProven
<1> QED
  BY <1>1, DInvAlways, PTL

\* What grande_task_status advises about a delivery by jobs can be done, or waited for,
\* however many verify calls run.
THEOREM StatusAlwaysHonest == Spec => []StatusIsHonest
<1>1. (OneVerifier => DInv) => StatusIsHonest
  <2>1. plan = [deploy |-> "profile", verify |-> "profile"] => OneVerifier
    BY DEF OneVerifier
  <2>2. ~(plan = [deploy |-> "profile", verify |-> "profile"]) => StatusIsHonest
    BY DEF StatusIsHonest
  <2> QED
    BY <2>1, <2>2, DInvMeansHonest
<1> QED
  BY <1>1, DInvAlways, PTL

-----------------------------------------------------------------------------
(* However many verify calls run: types, and the deadline.                  *)

\* Every outcome is a receipt, and ends a row or leaves it.
LEMMA OutcomesTyped ==
  ASSUME NEW r \in Receipts, NEW e
  PROVE  /\ DeployOutcome(r, e).receipt \in Receipts
         /\ DeployOutcome(r, e).status \in {"EXECUTING", "FAILED", "UNCERTAIN"}
         /\ VerifyOutcome(r, e).receipt \in Receipts
         /\ VerifyOutcome(r, e).status \in {"SUCCEEDED", "FAILED", "UNCERTAIN"}
<1>1. \E d \in {"succeeded", "failed", "uncertain"}, s \in {"EXECUTING", "FAILED", "UNCERTAIN"} :
        DeployOutcome(r, e) = [receipt |-> [r EXCEPT !.deploy = d], status |-> s]
  BY DEF DeployOutcome
<1>2. \E d \in {"succeeded", "failed", "uncertain"}, s \in {"SUCCEEDED", "FAILED", "UNCERTAIN"} :
        VerifyOutcome(r, e) = [receipt |-> [r EXCEPT !.verify = d], status |-> s]
  BY DEF VerifyOutcome
<1>3. \A d \in {"succeeded", "failed", "uncertain"} :
        [r EXCEPT !.deploy = d] \in Receipts /\ [r EXCEPT !.verify = d] \in Receipts
  BY DEF Receipts
<1> QED
  BY <1>1, <1>2, <1>3

\* The receipt a verify call goes on with names an authorization whose deadline has not passed.
LEMMA DeployedTyped ==
  ASSUME Typed, NEW v \in Verifiers, NEW r \in Deployed(v)
  PROVE  r \in Receipts /\ r.auth \in Ids /\ r.auth \notin overdue
<1>1. r = [drec EXCEPT !.deploy = "succeeded"] /\ Authorized(drec.auth)
  BY DEF Deployed
<1>2. r \in Receipts /\ r.auth = drec.auth
  BY <1>1 DEF Typed, Receipts
<1> QED
  BY <1>1, <1>2 DEF Authorized

\* What a verify call concludes is an outcome of a receipt.
LEMMA ConclusionsTyped ==
  ASSUME Typed, NEW v \in Verifiers, NEW o \in Conclusions(v)
  PROVE  /\ o.receipt \in Receipts
         /\ o.status \in {"EXECUTING", "SUCCEEDED", "FAILED", "UNCERTAIN"}
<1>1. drec \in Receipts /\ vcall[v].receipt \in Receipts
  BY DEF Typed, Calls
<1>2. \E r \in Receipts : \E e : o = DeployOutcome(r, e) \/ o = VerifyOutcome(r, e)
  BY <1>1, DeployedTyped DEF Conclusions
<1> QED
  BY <1>2, OutcomesTyped

\* v2Transition keeps the table's type.
LEMMA EndsTyped ==
  ASSUME Typed, NEW i, NEW s \in {"EXECUTING", "SUCCEEDED", "FAILED", "UNCERTAIN"}, EndAs(i, s)
  PROVE  auth' \in [Ids -> Rows]
<1>1. CASE i \in Ids
  BY <1>1, EndsRow DEF RowsKept
<1>2. CASE i \notin Ids
  <2>1. auth' = auth
    BY <1>2 DEF EndAs, Typed
  <2> QED
    BY <2>1 DEF Typed
<1> QED
  BY <1>1, <1>2

\* A job is started for an authorization whose deadline has not passed; it is the only one added.
StartsOne ==
  \E role \in {"deploy", "verify"}, i \in Ids :
    /\ i \notin overdue /\ Len(jobs) < MaxJobs
    /\ sent' = [sent EXCEPT ![i] = Append(@, role)]
    /\ jobs' = Started(role, i) \/ jobs' \in Restarted(Started(role, i))

\* The jobs stay typed, and the last of them is in time.
LEMMA StartsInTime ==
  ASSUME Typed, StartsOne
  PROVE  /\ jobs' \in Seq(JobRows) /\ Len(jobs') <= MaxJobs /\ jobs'[Len(jobs')].auth \notin overdue
         /\ sent' \in [Ids -> Seq(Effects)]
<1>1. PICK role \in {"deploy", "verify"}, i \in Ids :
        /\ i \notin overdue /\ Len(jobs) < MaxJobs
        /\ sent' = [sent EXCEPT ![i] = Append(@, role)]
        /\ jobs' = Started(role, i) \/ jobs' \in Restarted(Started(role, i))
  BY DEF StartsOne
<1> DEFINE js == Started(role, i)
<1>2. /\ js \in Seq(JobRows) /\ Len(js) = Len(jobs) + 1 /\ Len(jobs) \in Nat
      /\ js[Len(jobs) + 1].auth = i
  BY <1>1, StartedJob
<1>3. jobs' = js \/ jobs' \in Restarted(js)
  BY <1>1
<1> HIDE DEF js
<1>4. /\ jobs' \in Seq(JobRows) /\ Len(jobs') = Len(js)
      /\ \A k \in 1..Len(js) : jobs'[k].auth = js[k].auth
  <2>1. CASE jobs' = js
    BY <1>2, <2>1
  <2>2. CASE jobs' \in Restarted(js)
    BY <1>2, <2>2, RestartedJobs
  <2> QED
    BY <1>3, <2>1, <2>2
<1>5. sent' \in [Ids -> Seq(Effects)]
  BY <1>1, Sends DEF Effects
<1> QED
  BY <1>1, <1>2, <1>4, <1>5, DeployAssumption

\* The jobs stay, close or end: none is added.
AddsNone ==
  \/ jobs' = jobs \/ jobs' \in Restarted(jobs)
  \/ \E k \in DOMAIN jobs, e \in JobEnds : jobs' = [jobs EXCEPT ![k].state = e]

\* They stay typed and as many.
LEMMA NoneAdded ==
  ASSUME Typed, AddsNone
  PROVE  jobs' \in Seq(JobRows) /\ Len(jobs') = Len(jobs) /\ Len(jobs') <= MaxJobs
<1>1. Len(jobs) \in Nat /\ jobs \in Seq(JobRows) /\ Len(jobs) <= MaxJobs
  BY LenProperties DEF Typed
<1>2. CASE jobs' = jobs \/ jobs' \in Restarted(jobs)
  BY <1>1, <1>2, RestartedJobs
<1>3. ASSUME NEW k \in DOMAIN jobs, NEW e \in JobEnds, jobs' = [jobs EXCEPT ![k].state = e]
      PROVE  jobs' \in Seq(JobRows) /\ Len(jobs') = Len(jobs)
  <2> DEFINE row == [jobs[k] EXCEPT !.state = e]
  <2>1. k \in 1..Len(jobs) /\ jobs[k] \in JobRows
    BY <1>1, LenProperties, ElementOfSeq
  <2>2. row \in JobRows
    BY <2>1 DEF JobRows, JobStates
  <2>3. jobs' = [jobs EXCEPT ![k] = row]
    BY <1>3
  <2> HIDE DEF row
  <2> QED
    BY <1>1, <2>1, <2>2, <2>3, ExceptSeq
<1> QED
  BY <1>1, <1>2, <1>3 DEF AddsNone

\* The part of the type that is not about jobs and effects.
Rest ==
  /\ plan \in Plans /\ local \in [refs : {1, 2}] /\ auth \in [Ids -> Rows]
  /\ mrec \in [Ids -> {"none", "ok", "torn"}] /\ writer \in {"nobody", "pr_merge", "deploy"}
  /\ crashes \in 0..MaxCrash /\ overdue \subseteq Ids
  /\ drec \in Receipts /\ dcall \in Calls /\ vcall \in [Verifiers -> Calls]

\* A step of a deploy.
LEMMA DeploysTyped ==
  ASSUME Typed, Deploys
  PROVE  Rest' /\ (StartsOne \/ (AddsNone /\ sent' \in [Ids -> Seq(Effects)]))
<1>1. ASSUME NEW i \in Ids, DeployProfile(i) \/ DeployProfileCrash(i)
      PROVE  Rest' /\ StartsOne
  <2>1. /\ Authorized(i) /\ Len(jobs) < MaxJobs /\ sent' = [sent EXCEPT ![i] = Append(@, "deploy")]
        /\ jobs' = Started("deploy", i) \/ jobs' \in Restarted(Started("deploy", i))
    BY <1>1 DEF DeployProfile, DeployProfileCrash, MayDeploy, StartJob
  <2>2. StartsOne
    BY <2>1 DEF StartsOne, Authorized
  <2>3. CASE DeployProfile(i)
    <3>1. drec' = [NewReceipt(i) EXCEPT !.djob = Len(jobs) + 1]
      BY <2>3 DEF DeployProfile
    <3> DEFINE n == Len(jobs) + 1
    <3>2. n \in 0..MaxJobs
      BY <2>1, LenProperties, DeployAssumption DEF Typed
    <3> HIDE DEF n
    <3>3. NewRecord(i, n) \in Receipts
      BY <2>1, <3>2, NewReceiptSound
    <3>4. drec' \in Receipts
      BY <3>1, <3>3, NewReceiptIs DEF n
    <3> QED
      BY <2>2, <2>3, <3>4 DEF DeployProfile, Typed, Rest
  <2>4. CASE DeployProfileCrash(i)
    BY <2>2, <2>4, RestartEnds DEF DeployProfileCrash, Typed, Rest
  <2> QED
    BY <1>1, <2>3, <2>4
<1>2. ASSUME NEW i \in Ids, DeployCapability(i)
      PROVE  Rest' /\ AddsNone /\ sent' \in [Ids -> Seq(Effects)]
  <2>1. NewReceipt(i) = NewRecord(i, 0) /\ 0 \in 0..MaxJobs /\ Authorized(i)
    BY <1>2, NewReceiptIs, DeployAssumption DEF DeployCapability, MayDeploy
  <2>2. NewReceipt(i) \in Receipts
    BY <2>1, NewReceiptSound
  <2> QED
    BY <1>2, <2>2 DEF DeployCapability, Typed, Rest, Calls, AddsNone
<1>3. CASE DeployRefused \/ SaveDeployIntent
  BY <1>3, IdleCall DEF DeployRefused, SaveDeployIntent, shared, Typed, Rest, Calls, AddsNone
<1>4. CASE InvokeDeploy
  <2>1. sent' \in [Ids -> Seq(Effects)]
    <3> DEFINE i == dcall.receipt.auth
    <3>1. sent' = [sent EXCEPT ![i] = Append(@, "deploy")]
      BY <1>4 DEF InvokeDeploy
    <3> HIDE DEF i
    <3>2. CASE i \in Ids
      BY <3>1, <3>2, Sends DEF Effects
    <3>3. CASE i \notin Ids
      BY <3>1, <3>3 DEF Typed
    <3> QED
      BY <3>2, <3>3
  <2> QED
    BY <1>4, <2>1 DEF InvokeDeploy, Typed, Rest, Calls, AddsNone
<1>5. CASE DeployAnswered \/ DeployAnsweredCrash
  <2>1. PICK e \in {"exact", "other", "missing"} :
          /\ drec' = DeployOutcome(dcall.receipt, e).receipt
          /\ UNCHANGED <<plan, local, mrec, sent, overdue>>
          /\ \/ /\ EndAs(drec'.auth, DeployOutcome(dcall.receipt, e).status)
                /\ dcall' = Idle /\ writer' = "nobody" /\ UNCHANGED <<crashes, jobs, vcall>>
             \/ Restart /\ jobs' \in Restarted(jobs) /\ UNCHANGED auth
    BY <1>5 DEF DeployAnswered, DeployAnsweredCrash, Judge
  <2>2. drec' \in Receipts /\ DeployOutcome(dcall.receipt, e).status \in {"EXECUTING", "FAILED", "UNCERTAIN"}
    BY <2>1, OutcomesTyped DEF Typed, Calls
  <2>3. auth' \in [Ids -> Rows]
    BY <2>1, <2>2, EndsTyped DEF Typed
  <2>4. AddsNone /\ sent' \in [Ids -> Seq(Effects)]
    BY <2>1 DEF AddsNone, Typed
  <2> QED
    BY <2>1, <2>2, <2>3, <2>4, RestartEnds, IdleCall DEF Typed, Rest
<1> QED
  BY <1>1, <1>2, <1>3, <1>4, <1>5 DEF Deploys

\* A step of a verification.
LEMMA VerifiesTyped ==
  ASSUME Typed, NEW v \in Verifiers, Verifies(v)
  PROVE  Rest' /\ (StartsOne \/ (AddsNone /\ sent' \in [Ids -> Seq(Effects)]))
<1>1. CASE VerifyProfile(v) \/ VerifyProfileCrash(v)
  <2>1. PICK r \in Deployed(v) :
          /\ Len(jobs) < MaxJobs /\ sent' = [sent EXCEPT ![r.auth] = Append(@, "verify")]
          /\ UNCHANGED <<plan, local, auth, mrec, overdue>>
          /\ \/ /\ jobs' = Started("verify", r.auth)
                /\ drec' = [r EXCEPT !.vjob = Len(jobs) + 1, !.verify = "running"]
                /\ UNCHANGED <<writer, crashes, dcall, vcall>>
             \/ jobs' \in Restarted(Started("verify", r.auth)) /\ drec' = r /\ Restart
    BY <1>1 DEF VerifyProfile, VerifyProfileCrash, StartJob
  <2>2. r \in Receipts /\ r.auth \in Ids /\ r.auth \notin overdue
    BY DeployedTyped
  <2>3. StartsOne
    BY <2>1, <2>2 DEF StartsOne
  <2>4. drec' \in Receipts
    <3> DEFINE n == Len(jobs) + 1
               s == [r EXCEPT !.vjob = n, !.verify = "running"]
    <3>1. n \in 0..MaxJobs
      BY <2>1, LenProperties, DeployAssumption DEF Typed
    <3> HIDE DEF n
    <3>2. s \in Receipts
      BY <2>2, <3>1, VerifyRecord
    <3>3. drec' = s \/ drec' = r
      BY <2>1 DEF n
    <3> QED
      BY <2>2, <3>2, <3>3
  <2> QED
    BY <2>1, <2>3, <2>4, RestartEnds DEF Typed, Rest
<1>2. CASE VerifyNotStarted(v)
  BY <1>2, DeployedTyped DEF VerifyNotStarted, shared, Typed, Rest, AddsNone
<1>3. CASE VerifyCapability(v)
  <2>1. /\ drec' \in Deployed(v) /\ vcall' = [vcall EXCEPT ![v] = [pc |-> "role", receipt |-> drec']]
        /\ UNCHANGED <<plan, local, auth, mrec, sent, writer, crashes, overdue, jobs, dcall>>
    BY <1>3 DEF VerifyCapability, shared
  <2>2. drec' \in Receipts
    BY <2>1, DeployedTyped
  <2> QED
    BY <2>1, <2>2 DEF Typed, Rest, Calls, AddsNone
<1>4. CASE VerifyReturns(v)
  BY <1>4, IdleCall DEF VerifyReturns, shared, Typed, Rest, AddsNone
<1>5. CASE SaveVerifyIntent(v)
  <2>1. /\ drec' = [vcall[v].receipt EXCEPT !.verify = "running"]
        /\ vcall' = [vcall EXCEPT ![v] = [pc |-> "saved", receipt |-> drec']]
        /\ UNCHANGED <<plan, local, auth, mrec, sent, writer, crashes, overdue, jobs, dcall>>
    BY <1>5 DEF SaveVerifyIntent, shared
  <2>2. drec' \in Receipts
    BY <2>1 DEF Typed, Calls, Receipts
  <2> QED
    BY <2>1, <2>2 DEF Typed, Rest, Calls, AddsNone
<1>6. CASE InvokeVerify(v)
  <2>1. sent' \in [Ids -> Seq(Effects)]
    <3> DEFINE i == vcall[v].receipt.auth
    <3>1. sent' = [sent EXCEPT ![i] = Append(@, "verify")]
      BY <1>6 DEF InvokeVerify
    <3> HIDE DEF i
    <3>2. CASE i \in Ids
      BY <3>1, <3>2, Sends DEF Effects
    <3>3. CASE i \notin Ids
      BY <3>1, <3>3 DEF Typed
    <3> QED
      BY <3>2, <3>3
  <2> QED
    BY <1>6, <2>1 DEF InvokeVerify, Typed, Rest, Calls, AddsNone
<1>7. CASE Conclude(v) \/ ConcludeCrash(v)
  <2>1. PICK o \in Conclusions(v) :
          /\ drec' = o.receipt /\ UNCHANGED <<plan, local, mrec, sent, overdue>>
          /\ \/ /\ EndAs(drec'.auth, o.status) /\ vcall' = [vcall EXCEPT ![v] = Idle]
                /\ UNCHANGED <<writer, crashes, jobs, dcall>>
             \/ Restart /\ jobs' \in Restarted(jobs) /\ UNCHANGED auth
    BY <1>7 DEF Conclude, ConcludeCrash, Judge
  <2>2. drec' \in Receipts /\ o.status \in {"EXECUTING", "SUCCEEDED", "FAILED", "UNCERTAIN"}
    BY <2>1, ConclusionsTyped
  <2>3. auth' \in [Ids -> Rows]
    BY <2>1, <2>2, EndsTyped DEF Typed
  <2>4. AddsNone /\ sent' \in [Ids -> Seq(Effects)]
    BY <2>1 DEF AddsNone, Typed
  <2> QED
    BY <2>1, <2>2, <2>3, <2>4, RestartEnds, IdleCall DEF Typed, Rest
<1> QED
  BY <1>1, <1>2, <1>3, <1>4, <1>5, <1>6, <1>7 DEF Verifies

\* Any step keeps the types, and adds a job only in time.
LEMMA StepTyped ==
  ASSUME Typed, [Next]_dvars
  PROVE  Typed' /\ (Len(jobs') > Len(jobs) => jobs'[Len(jobs')].auth \notin overdue)
<1>1. Rest' /\ (StartsOne \/ (AddsNone /\ sent' \in [Ids -> Seq(Effects)]))
  <2>1. CASE Around
    <3>1. ASSUME NEW k \in DOMAIN jobs, JobFinishes(k)
          PROVE  Rest' /\ AddsNone /\ sent' \in [Ids -> Seq(Effects)]
      BY <3>1 DEF JobFinishes, shared, Typed, Rest, AddsNone
    <3>2. ASSUME NEW i \in Ids, DeadlinePasses(i)
          PROVE  Rest' /\ AddsNone /\ sent' \in [Ids -> Seq(Effects)]
      BY <3>2 DEF DeadlinePasses, shared, Typed, Rest, AddsNone
    <3> QED
      BY <2>1, <3>1, <3>2 DEF Around
  <2>2. CASE Crash
    BY <2>2, RestartEnds DEF Crash, Typed, Rest, AddsNone
  <2>3. CASE ActionChanges
    BY <2>3 DEF ActionChanges, own, Typed, Rest, AddsNone
  <2>4. ASSUME NEW i \in Ids, Granted(i)
        PROVE  Rest' /\ AddsNone /\ sent' \in [Ids -> Seq(Effects)]
    <3>1. auth' \in [Ids -> Rows]
      BY <2>4 DEF Granted, Typed, Rows, Statuses
    <3> QED
      BY <2>4, <3>1 DEF Granted, Typed, Rest, AddsNone
  <2>5. ASSUME NEW i \in Ids, Condemned(i)
        PROVE  Rest' /\ AddsNone /\ sent' \in [Ids -> Seq(Effects)]
    <3>1. auth' \in [Ids -> Rows]
      BY <2>5, EndsTyped DEF Condemned
    <3> QED
      BY <2>5, <3>1 DEF Condemned, own, Typed, Rest, AddsNone
  <2>6. CASE UNCHANGED dvars
    BY <2>6 DEF dvars, shared, own, Typed, Rest, AddsNone
  <2> QED
    BY <2>1, <2>2, <2>3, <2>4, <2>5, <2>6, DeploysTyped, VerifiesTyped DEF Next, DeployNext
<1>2. CASE StartsOne
  BY <1>1, <1>2, StartsInTime DEF Rest, Typed
<1>3. CASE AddsNone /\ sent' \in [Ids -> Seq(Effects)]
  <2>1. Len(jobs) \in Nat
    BY LenProperties DEF Typed
  <2> QED
    BY <1>1, <1>3, <2>1, NoneAdded DEF Rest, Typed
<1> QED
  BY <1>1, <1>2, <1>3

\* The types hold in every state, however many verify calls run.
THEOREM TypedAlways == Spec => []Typed
<1>1. Init => Typed
  BY DeployInit DEF DInv
<1>2. Typed /\ [Next]_dvars => Typed'
  BY StepTyped
<1> QED
  BY <1>1, <1>2, PTL DEF Spec

\* Design 8.2: after the deadline no job is started, by whichever call and however
\* long it waited before.
THEOREM NoJobAfterDeadline == Spec => NothingAfterDeadline
<1>1. Typed /\ [Next]_dvars =>
        [Len(jobs') > Len(jobs) => jobs'[Len(jobs')].auth \notin overdue]_dvars
  BY StepTyped
<1> QED
  BY <1>1, TypedAlways, PTL DEF Spec, NothingAfterDeadline

-----------------------------------------------------------------------------
(* What the stage owes to the one before it (used by module DeliveryProofs).*)

\* Nothing was deployed or verified, and no call goes on to, without an exact merge receipt.
PaidFor(i) == i \in Ids => mrec[i] = "ok"

Paid ==
  /\ PaidFor(drec.auth) /\ PaidFor(dcall.receipt.auth)
  /\ \A v \in Verifiers : PaidFor(vcall[v].receipt.auth)
  /\ \A i \in Ids : Did(i, "deploy") \/ Did(i, "verify") => mrec[i] = "ok"

\* What is sent is sent under an authorization that is paid for.
SendsPaid ==
  \/ UNCHANGED sent
  \/ \E x \in {"deploy", "verify"} : \E i : PaidFor(i) /\ sent' = [sent EXCEPT ![i] = Append(@, x)]

\* One effect is such a sending.
LEMMA SendsOne ==
  ASSUME NEW i, NEW x \in {"deploy", "verify"}, PaidFor(i), sent' = [sent EXCEPT ![i] = Append(@, x)]
  PROVE  SendsPaid
  BY DEF SendsPaid

\* Its record stays paid for, and no merge is sent.
LEMMA PaidSends ==
  ASSUME Typed, Paid, mrec' = mrec, SendsPaid
  PROVE  /\ \A i \in Ids : (Did(i, "deploy") \/ Did(i, "verify"))' => mrec'[i] = "ok"
         /\ \A i \in Ids : Did(i, "merge")' <=> Did(i, "merge")
<1>1. CASE UNCHANGED sent
  BY <1>1 DEF Paid, Did
<1>2. ASSUME NEW i, NEW x \in {"deploy", "verify"}, PaidFor(i), sent' = [sent EXCEPT ![i] = Append(@, x)]
      PROVE  /\ \A j \in Ids : (Did(j, "deploy") \/ Did(j, "verify"))' => mrec'[j] = "ok"
             /\ \A j \in Ids : Did(j, "merge")' <=> Did(j, "merge")
  <2>1. CASE i \in Ids
    <3>1. x \in Effects /\ {"merge", "deploy", "verify"} \subseteq Effects
      BY DEF Effects
    <3>2. \A j \in Ids, y \in {"merge", "deploy", "verify"} : Did(j, y)' <=> Did(j, y) \/ (j = i /\ y = x)
      BY <1>2, <2>1, <3>1, Sends
    <3>3. ASSUME NEW j \in Ids
          PROVE  /\ (Did(j, "deploy") \/ Did(j, "verify"))' => mrec'[j] = "ok"
                 /\ Did(j, "merge")' <=> Did(j, "merge")
      <4>1. /\ Did(j, "deploy")' <=> Did(j, "deploy") \/ (j = i /\ "deploy" = x)
            /\ Did(j, "verify")' <=> Did(j, "verify") \/ (j = i /\ "verify" = x)
            /\ Did(j, "merge")' <=> Did(j, "merge") \/ (j = i /\ "merge" = x)
        BY <3>2
      <4> QED
        BY <1>2, <2>1, <4>1 DEF Paid, PaidFor
    <3> QED
      BY <3>3
  <2>2. CASE i \notin Ids
    <3>1. sent' = sent
      BY <1>2, <2>2 DEF Typed
    <3> QED
      BY <1>1, <3>1
  <2> QED
    BY <2>1, <2>2
<1> QED
  BY <1>1, <1>2 DEF SendsPaid

\* A receipt that is judged keeps its authorization.
LEMMA OutcomeNames ==
  ASSUME NEW r \in Receipts, NEW e
  PROVE  DeployOutcome(r, e).receipt.auth = r.auth /\ VerifyOutcome(r, e).receipt.auth = r.auth
<1>1. \E d \in {"succeeded", "failed", "uncertain"} : DeployOutcome(r, e).receipt = [r EXCEPT !.deploy = d]
  BY DEF DeployOutcome
<1>2. \E d \in {"succeeded", "failed", "uncertain"} : VerifyOutcome(r, e).receipt = [r EXCEPT !.verify = d]
  BY DEF VerifyOutcome
<1> QED
  BY <1>1, <1>2 DEF Receipts

\* What a verify call goes on with, or concludes, is paid for.
LEMMA ConclusionsPaid ==
  ASSUME Typed, Paid, NEW v \in Verifiers
  PROVE  /\ \A r \in Deployed(v) : PaidFor(r.auth)
         /\ \A o \in Conclusions(v) : PaidFor(o.receipt.auth)
<1>1. drec \in Receipts /\ vcall[v].receipt \in Receipts
  BY DEF Typed, Calls
<1>2. ASSUME NEW r \in Deployed(v) PROVE r \in Receipts /\ PaidFor(r.auth)
  <2>1. r = [drec EXCEPT !.deploy = "succeeded"]
    BY DEF Deployed
  <2> QED
    BY <1>1, <2>1 DEF Receipts, Paid
<1>3. ASSUME NEW o \in Conclusions(v) PROVE PaidFor(o.receipt.auth)
  <2>1. \E r \in Receipts : \E e : PaidFor(r.auth) /\ (o = DeployOutcome(r, e) \/ o = VerifyOutcome(r, e))
    BY <1>1, <1>2 DEF Conclusions, Paid
  <2> QED
    BY <2>1, OutcomeNames
<1> QED
  BY <1>2, <1>3

\* The receipts after a step.
HeldPaid ==
  /\ PaidFor(drec'.auth) /\ PaidFor(dcall'.receipt.auth)
  /\ \A v \in Verifiers : PaidFor(vcall'[v].receipt.auth)

\* A deploy touches nothing of the merge stage but the row it ends, and that one was merged.
LEMMA DeploysPaid ==
  ASSUME Typed, Paid, Deploys
  PROVE  HeldPaid /\ SendsPaid /\ UNCHANGED mrec
<1>1. PaidFor(NoReceipt.auth) /\ PaidFor(Idle.receipt.auth) /\ (Restart => dcall' = Idle /\ \A v \in Verifiers : vcall'[v] = Idle)
  BY DeployAssumption DEF PaidFor, NoReceipt, Idle, Restart, CallsLost
<1>2. ASSUME NEW i \in Ids, DeployProfile(i) \/ DeployProfileCrash(i)
      PROVE  HeldPaid /\ SendsPaid /\ UNCHANGED mrec
  <2>1. /\ Authorized(i) /\ sent' = [sent EXCEPT ![i] = Append(@, "deploy")] /\ mrec' = mrec
        /\ \/ drec' = [NewReceipt(i) EXCEPT !.djob = Len(jobs) + 1] /\ UNCHANGED <<dcall, vcall>>
           \/ drec' = drec /\ Restart
    BY <1>2 DEF DeployProfile, DeployProfileCrash, MayDeploy, StartJob
  <2>2. PaidFor(i) /\ NewRecord(i, Len(jobs) + 1).auth = i
    BY <2>1 DEF PaidFor, Authorized, NewRecord
  <2>3. PaidFor(drec'.auth)
    BY <2>1, <2>2, NewReceiptIs DEF Paid
  <2>4. SendsPaid
    BY <2>1, <2>2, SendsOne
  <2> QED
    BY <1>1, <2>1, <2>3, <2>4 DEF HeldPaid, Paid
<1>3. ASSUME NEW i \in Ids, DeployCapability(i)
      PROVE  HeldPaid /\ SendsPaid /\ UNCHANGED mrec
  <2>1. Authorized(i) /\ dcall' = [pc |-> "role", receipt |-> NewReceipt(i)] /\ UNCHANGED <<mrec, sent, drec, vcall>>
    BY <1>3 DEF DeployCapability, MayDeploy
  <2>2. PaidFor(i) /\ NewRecord(i, 0).auth = i
    BY <2>1 DEF PaidFor, Authorized, NewRecord
  <2> QED
    BY <2>1, <2>2, NewReceiptIs DEF HeldPaid, SendsPaid, Paid
<1>4. CASE DeployRefused \/ SaveDeployIntent \/ InvokeDeploy
  <2>1. /\ drec' \in {drec, dcall.receipt} /\ UNCHANGED <<mrec, vcall>>
        /\ dcall'.receipt \in {dcall.receipt, Idle.receipt}
    BY <1>4 DEF DeployRefused, SaveDeployIntent, InvokeDeploy, shared, Typed, Calls
  <2>2. SendsPaid
    <3>1. CASE UNCHANGED sent
      BY <3>1 DEF SendsPaid
    <3>2. CASE sent' = [sent EXCEPT ![dcall.receipt.auth] = Append(@, "deploy")]
      BY <3>2, SendsOne DEF Paid
    <3> QED
      BY <1>4, <3>1, <3>2 DEF DeployRefused, SaveDeployIntent, InvokeDeploy, shared
  <2> QED
    BY <1>1, <2>1, <2>2 DEF HeldPaid, Paid
<1>5. CASE DeployAnswered \/ DeployAnsweredCrash
  <2>1. PICK e \in {"exact", "other", "missing"} :
          /\ drec' = DeployOutcome(dcall.receipt, e).receipt /\ UNCHANGED <<mrec, sent>>
          /\ (dcall' = Idle /\ UNCHANGED vcall) \/ Restart
    BY <1>5 DEF DeployAnswered, DeployAnsweredCrash, Judge
  <2>2. PaidFor(drec'.auth)
    BY <2>1, OutcomeNames DEF Typed, Calls, Paid
  <2> QED
    BY <1>1, <2>1, <2>2 DEF HeldPaid, SendsPaid, Paid
<1> QED
  BY <1>2, <1>3, <1>4, <1>5 DEF Deploys

\* And so does a verification.
LEMMA VerifiesPaid ==
  ASSUME Typed, Paid, NEW v \in Verifiers, Verifies(v)
  PROVE  HeldPaid /\ SendsPaid /\ UNCHANGED mrec
<1>1. PaidFor(Idle.receipt.auth) /\ (Restart => dcall' = Idle /\ \A w \in Verifiers : vcall'[w] = Idle)
  BY DeployAssumption DEF PaidFor, NoReceipt, Idle, Restart, CallsLost
<1>2. /\ \A r \in Deployed(v) : PaidFor(r.auth) /\ r \in Receipts
      /\ \A o \in Conclusions(v) : PaidFor(o.receipt.auth)
      /\ vcall \in [Verifiers -> Calls]
  BY ConclusionsPaid, DeployedTyped DEF Typed
<1>3. CASE VerifyProfile(v) \/ VerifyProfileCrash(v)
  <2>1. PICK r \in Deployed(v) :
          /\ Len(jobs) < MaxJobs /\ sent' = [sent EXCEPT ![r.auth] = Append(@, "verify")] /\ mrec' = mrec
          /\ \/ drec' = [r EXCEPT !.vjob = Len(jobs) + 1, !.verify = "running"] /\ UNCHANGED <<dcall, vcall>>
             \/ drec' = r /\ Restart
    BY <1>3 DEF VerifyProfile, VerifyProfileCrash, StartJob
  <2>2. drec'.auth = r.auth
    <3> DEFINE n == Len(jobs) + 1
               s == [r EXCEPT !.vjob = n, !.verify = "running"]
    <3>1. n \in 0..MaxJobs
      BY <2>1, LenProperties, DeployAssumption DEF Typed
    <3> HIDE DEF n
    <3>2. s.auth = r.auth
      BY <1>2, <3>1, VerifyRecord
    <3>3. drec' = s \/ drec' = r
      BY <2>1 DEF n
    <3> QED
      BY <3>2, <3>3
  <2>3. SendsPaid
    BY <1>2, <2>1, SendsOne
  <2> QED
    BY <1>1, <1>2, <2>1, <2>2, <2>3 DEF HeldPaid, Paid
<1>4. CASE VerifyNotStarted(v)
  BY <1>2, <1>4 DEF VerifyNotStarted, shared, HeldPaid, SendsPaid, Paid
<1>5. CASE VerifyCapability(v)
  BY <1>2, <1>5 DEF VerifyCapability, shared, HeldPaid, SendsPaid, Paid
<1>6. CASE VerifyReturns(v)
  BY <1>1, <1>2, <1>6 DEF VerifyReturns, shared, HeldPaid, SendsPaid, Paid
<1>7. CASE SaveVerifyIntent(v)
  <2>1. /\ drec' = [vcall[v].receipt EXCEPT !.verify = "running"]
        /\ vcall' = [vcall EXCEPT ![v] = [pc |-> "saved", receipt |-> drec']]
        /\ UNCHANGED <<mrec, sent, dcall>>
    BY <1>7 DEF SaveVerifyIntent, shared
  <2>2. drec'.auth = vcall[v].receipt.auth
    BY <1>2, <2>1 DEF Calls, Receipts
  <2> QED
    BY <1>2, <2>1, <2>2 DEF HeldPaid, SendsPaid, Paid
<1>8. CASE InvokeVerify(v)
  <2>1. /\ sent' = [sent EXCEPT ![vcall[v].receipt.auth] = Append(@, "verify")]
        /\ vcall' = [vcall EXCEPT ![v].pc = "invoking"]
        /\ UNCHANGED <<mrec, drec, dcall>>
    BY <1>8 DEF InvokeVerify
  <2>2. \A w \in Verifiers : vcall'[w].receipt = vcall[w].receipt
    BY <1>2, <2>1 DEF Calls
  <2>3. SendsPaid
    BY <2>1, SendsOne DEF Paid
  <2> QED
    BY <2>1, <2>2, <2>3 DEF HeldPaid, Paid
<1>9. CASE Conclude(v) \/ ConcludeCrash(v)
  <2>1. PICK o \in Conclusions(v) :
          /\ drec' = o.receipt /\ UNCHANGED <<mrec, sent>>
          /\ (vcall' = [vcall EXCEPT ![v] = Idle] /\ UNCHANGED dcall) \/ Restart
    BY <1>9 DEF Conclude, ConcludeCrash, Judge
  <2> QED
    BY <1>1, <1>2, <2>1 DEF HeldPaid, SendsPaid, Paid
<1> QED
  BY <1>3, <1>4, <1>5, <1>6, <1>7, <1>8, <1>9 DEF Verifies

\* Every step of the stage keeps what is deployed paid for, and sends no merge.
LEMMA PaidKept ==
  ASSUME Typed, Paid, DeployNext \/ Crash
  PROVE  Paid' /\ UNCHANGED mrec /\ \A i \in Ids : Did(i, "merge")' <=> Did(i, "merge")
<1>1. HeldPaid /\ SendsPaid /\ UNCHANGED mrec
  <2>1. CASE Around \/ Crash
    <3>1. PaidFor(Idle.receipt.auth)
      BY DeployAssumption DEF PaidFor, NoReceipt, Idle
    <3> QED
      BY <2>1, <3>1 DEF Around, JobFinishes, DeadlinePasses, Crash, Restart, CallsLost,
         shared, HeldPaid, SendsPaid, Paid
  <2> QED
    BY <2>1, DeploysPaid, VerifiesPaid DEF DeployNext
<1> QED
  BY <1>1, PaidSends DEF HeldPaid, Paid, PaidFor

\* A running deploy call holds the repo write lock; no call of the stage touches another's hold.
LockHeld == dcall.pc # "idle" => writer = "deploy"

\* A deploy call keeps its hold until it returns; a crash frees the lock and moves no row.
LEMMA LockKept ==
  ASSUME Typed, LockHeld, DeployNext \/ Crash
  PROVE  /\ LockHeld'
         /\ \/ crashes' = crashes /\ (writer' = "pr_merge" <=> writer = "pr_merge")
            \/ /\ crashes < MaxCrash /\ crashes' = crashes + 1 /\ writer' = "nobody" /\ UNCHANGED auth
               /\ CallsLost /\ UNCHANGED overdue
         /\ overdue \subseteq overdue'
<1>1. CASE Restart /\ UNCHANGED <<auth, overdue>>
  BY <1>1, IdleCall DEF Restart, CallsLost, LockHeld
<1>2. CASE Deploys
  BY <1>1, <1>2, IdleCall DEF Deploys, DeployProfile, DeployProfileCrash, DeployCapability, MayDeploy, DeployRefused,
     SaveDeployIntent, InvokeDeploy, DeployAnswered, DeployAnsweredCrash, shared, LockHeld, Typed, Calls
<1>3. ASSUME NEW v \in Verifiers, Verifies(v) PROVE UNCHANGED <<writer, crashes, dcall, overdue>> \/ (Restart /\ UNCHANGED <<auth, overdue>>)
  BY <1>3 DEF Verifies, VerifyProfile, VerifyNotStarted, VerifyProfileCrash, VerifyCapability,
     VerifyReturns, SaveVerifyIntent, InvokeVerify, Conclude, ConcludeCrash, shared
<1>4. CASE Around
  BY <1>4 DEF Around, JobFinishes, DeadlinePasses, shared, LockHeld
<1>5. CASE Crash
  BY <1>1, <1>5 DEF Crash
<1> QED
  BY <1>1, <1>2, <1>3, <1>4, <1>5 DEF DeployNext, LockHeld

\* The receipt on disk names one authorization for good: that of every call under way,
\* and of every verification that was sent.
HeldRecord ==
  /\ drec = NoReceipt \/ drec.auth \in Ids
  /\ dcall.pc # "idle" => /\ plan.deploy = "capability" /\ dcall.receipt.auth \in Ids
                          /\ IF dcall.pc = "role" THEN drec = NoReceipt ELSE drec.auth = dcall.receipt.auth
  /\ \A v \in Verifiers : vcall[v].pc # "idle" => drec.auth \in Ids /\ vcall[v].receipt.auth = drec.auth
VerifyOnRecord == \A i \in Ids : Did(i, "verify") => drec.auth = i
OnRecord == HeldRecord /\ VerifyOnRecord

\* What a verify call goes on with, or concludes, is about that authorization.
LEMMA ConclusionsNamed ==
  ASSUME Typed, OnRecord, NEW v \in Verifiers
  PROVE  /\ \A r \in Deployed(v) : r \in Receipts /\ drec.auth \in Ids /\ r.auth = drec.auth
         /\ \A o \in Conclusions(v) : drec.auth \in Ids /\ o.receipt.auth = drec.auth
<1>1. drec \in Receipts /\ vcall[v].receipt \in Receipts
  BY DEF Typed, Calls
<1>2. ASSUME NEW r \in Deployed(v) PROVE r \in Receipts /\ drec.auth \in Ids /\ r.auth = drec.auth
  <2>1. r = [drec EXCEPT !.deploy = "succeeded"] /\ Authorized(drec.auth)
    BY DEF Deployed
  <2> QED
    BY <1>1, <2>1 DEF Receipts, Authorized
<1>3. ASSUME NEW o \in Conclusions(v) PROVE drec.auth \in Ids /\ o.receipt.auth = drec.auth
  <2>1. \E r \in Receipts : \E e : /\ drec.auth \in Ids /\ r.auth = drec.auth
                                   /\ (o = DeployOutcome(r, e) \/ o = VerifyOutcome(r, e))
    BY <1>1, <1>2 DEF Conclusions, OnRecord, HeldRecord, DeployJobEnded, Authorized
  <2> QED
    BY <2>1, OutcomeNames
<1> QED
  BY <1>2, <1>3

\* A new receipt names the authorization it is written for.
LEMMA NamesIt == \A i, d : NewRecord(i, d).auth = i
  BY DEF NewRecord

\* A deploy is about that authorization, or about the first one that gets this far.
LEMMA DeploysOnRecord ==
  ASSUME Typed, LockHeld, OnRecord, Deploys
  PROVE  /\ HeldRecord'
         /\ \/ drec'.auth = drec.auth
            \/ drec = NoReceipt /\ (SaveDeployIntent \/ \E i \in Ids : DeployProfile(i) /\ drec'.auth = i)
<1>1. /\ Idle.pc = "idle" /\ (Restart => dcall' = Idle /\ \A v \in Verifiers : vcall'[v] = Idle)
      /\ dcall \in Calls /\ drec \in Receipts
  BY DEF Idle, Restart, CallsLost, Typed
<1>2. NoReceipt.auth \notin Ids
  BY DeployAssumption DEF NoReceipt
<1>3. ASSUME NEW i \in Ids, DeployProfile(i)
      PROVE  HeldRecord' /\ drec = NoReceipt /\ drec'.auth = i
  <2>1. /\ writer = "nobody" /\ drec = NoReceipt /\ drec' = [NewReceipt(i) EXCEPT !.djob = Len(jobs) + 1]
        /\ UNCHANGED <<dcall, vcall, plan>>
    BY <1>3 DEF DeployProfile, MayDeploy
  <2>2. drec'.auth = i
    <3>1. drec' = NewRecord(i, Len(jobs) + 1) /\ NewRecord(i, Len(jobs) + 1).auth = i
      BY <2>1, NewReceiptIs, NamesIt
    <3> QED
      BY <3>1
  <2>3. dcall.pc = "idle" /\ \A v \in Verifiers : vcall[v].pc = "idle"
    BY <1>2, <2>1 DEF LockHeld, OnRecord, HeldRecord
  <2> QED
    BY <2>1, <2>2, <2>3 DEF HeldRecord
<1>4. ASSUME NEW i \in Ids, DeployProfileCrash(i) PROVE HeldRecord' /\ drec' = drec
  BY <1>1, <1>4 DEF DeployProfileCrash, OnRecord, HeldRecord
<1>5. ASSUME NEW i \in Ids, DeployCapability(i) PROVE HeldRecord' /\ drec' = drec
  <2>1. /\ drec = NoReceipt /\ plan.deploy = "capability" /\ dcall' = [pc |-> "role", receipt |-> NewReceipt(i)]
        /\ UNCHANGED <<drec, vcall, plan>>
    BY <1>5 DEF DeployCapability, MayDeploy
  <2>2. dcall'.pc = "role" /\ dcall'.receipt.auth = i
    <3>1. NewReceipt(i) = NewRecord(i, 0) /\ NewRecord(i, 0).auth = i
      BY NewReceiptIs, NamesIt
    <3> QED
      BY <2>1, <3>1
  <2> QED
    BY <2>1, <2>2 DEF OnRecord, HeldRecord
<1>6. CASE DeployRefused
  BY <1>1, <1>6 DEF DeployRefused, OnRecord, HeldRecord
<1>7. CASE SaveDeployIntent
  <2>1. /\ dcall.pc = "role" /\ drec' = dcall.receipt /\ dcall'.pc = "saved" /\ dcall'.receipt = dcall.receipt
        /\ UNCHANGED <<vcall, plan>>
    BY <1>1, <1>7 DEF SaveDeployIntent, Calls
  <2>2. drec = NoReceipt /\ \A v \in Verifiers : vcall[v].pc = "idle"
    BY <1>2, <2>1 DEF OnRecord, HeldRecord
  <2> QED
    BY <1>7, <2>1, <2>2 DEF OnRecord, HeldRecord
<1>8. CASE InvokeDeploy
  <2>1. /\ dcall.pc = "saved" /\ dcall'.pc = "invoking" /\ dcall'.receipt = dcall.receipt
        /\ UNCHANGED <<drec, vcall, plan>>
    BY <1>1, <1>8 DEF InvokeDeploy, Calls
  <2> QED
    BY <2>1 DEF OnRecord, HeldRecord
<1>9. CASE DeployAnswered \/ DeployAnsweredCrash
  <2>1. PICK e \in {"exact", "other", "missing"} :
          /\ dcall.pc = "invoking" /\ drec' = DeployOutcome(dcall.receipt, e).receipt /\ UNCHANGED plan
          /\ (dcall' = Idle /\ UNCHANGED vcall) \/ Restart
    BY <1>9 DEF DeployAnswered, DeployAnsweredCrash, Judge
  <2>2. drec'.auth = drec.auth /\ drec.auth \in Ids
    BY <1>1, <2>1, OutcomeNames DEF Calls, OnRecord, HeldRecord
  <2> QED
    BY <1>1, <2>1, <2>2 DEF OnRecord, HeldRecord
<1> QED
  BY <1>3, <1>4, <1>5, <1>6, <1>7, <1>8, <1>9 DEF Deploys

\* A verify call leaves it the receipt of that authorization, and sends nothing but that
\* one's verification.
LEMMA VerifiesOnRecord ==
  ASSUME Typed, OnRecord, NEW v \in Verifiers, Verifies(v)
  PROVE  /\ HeldRecord' /\ drec'.auth = drec.auth
         /\ \/ UNCHANGED sent
            \/ drec.auth \in Ids /\ UNCHANGED auth /\ sent' = [sent EXCEPT ![drec.auth] = Append(@, "verify")]
<1>1. /\ Idle.pc = "idle" /\ (Restart => dcall' = Idle /\ \A w \in Verifiers : vcall'[w] = Idle)
      /\ vcall \in [Verifiers -> Calls] /\ drec \in Receipts
  BY DEF Idle, Restart, CallsLost, Typed
<1>2. /\ \A r \in Deployed(v) : r \in Receipts /\ drec.auth \in Ids /\ r.auth = drec.auth
      /\ \A o \in Conclusions(v) : drec.auth \in Ids /\ o.receipt.auth = drec.auth
  BY ConclusionsNamed
<1>3. ASSUME drec.auth \in Ids, drec'.auth = drec.auth, UNCHANGED plan, UNCHANGED dcall \/ dcall' = Idle,
             dcall.pc = "role" => dcall' = Idle \/ drec = NoReceipt,
             \A w \in Verifiers : vcall'[w] \in {vcall[w], Idle} \/ vcall'[w].receipt.auth = drec.auth
      PROVE  HeldRecord'
  <2>1. NoReceipt.auth \notin Ids
    BY DeployAssumption DEF NoReceipt
  <2> QED
    BY <1>1, <1>3, <2>1 DEF OnRecord, HeldRecord
<1>4. CASE VerifyProfile(v) \/ VerifyProfileCrash(v)
  <2>1. PICK r \in Deployed(v) :
          /\ Len(jobs) < MaxJobs /\ sent' = [sent EXCEPT ![r.auth] = Append(@, "verify")]
          /\ UNCHANGED <<plan, auth>>
          /\ \/ drec' = [r EXCEPT !.vjob = Len(jobs) + 1, !.verify = "running"] /\ UNCHANGED <<dcall, vcall>>
             \/ drec' = r /\ Restart
    <3>1. CASE VerifyProfile(v)
      BY <3>1 DEF VerifyProfile, StartJob
    <3>2. CASE VerifyProfileCrash(v)
      BY <3>2 DEF VerifyProfileCrash, StartJob
    <3> QED
      BY <1>4, <3>1, <3>2
  <2>2. Len(jobs) + 1 \in 0..MaxJobs
    BY <2>1, LenProperties, DeployAssumption DEF Typed
  <2>3. drec'.auth = drec.auth
    <3> DEFINE n == Len(jobs) + 1
               t == [r EXCEPT !.vjob = n, !.verify = "running"]
    <3> HIDE DEF n
    <3>1. t.auth = r.auth
      BY <1>2, <2>2, VerifyRecord DEF n
    <3>2. drec' = t \/ drec' = r
      BY <2>1 DEF n
    <3> QED
      BY <1>2, <3>1, <3>2
  <2>4. HeldRecord'
    BY <1>1, <1>2, <1>3, <2>1, <2>3 DEF OnRecord, HeldRecord
  <2> QED
    BY <1>2, <2>1, <2>3, <2>4
<1>5. CASE VerifyNotStarted(v)
  BY <1>2, <1>3, <1>5 DEF VerifyNotStarted, shared, OnRecord, HeldRecord
<1>6. CASE VerifyCapability(v)
  <2>1. PICK r \in Deployed(v) : drec' = r /\ vcall' = [vcall EXCEPT ![v] = [pc |-> "role", receipt |-> r]]
    BY <1>6 DEF VerifyCapability
  <2>2. \A w \in Verifiers : vcall'[w] = vcall[w] \/ vcall'[w].receipt.auth = drec.auth
    BY <1>1, <1>2, <2>1
  <2> QED
    BY <1>2, <1>3, <1>6, <2>1, <2>2 DEF VerifyCapability, shared, OnRecord, HeldRecord
<1>7. CASE VerifyReturns(v)
  <2>1. vcall[v].pc = "role" /\ \A w \in Verifiers : vcall'[w] \in {vcall[w], Idle}
    BY <1>1, <1>7 DEF VerifyReturns
  <2> QED
    BY <1>3, <1>7, <2>1 DEF VerifyReturns, shared, OnRecord, HeldRecord
<1>8. CASE SaveVerifyIntent(v)
  <2>1. /\ vcall[v].pc = "role" /\ drec' = [vcall[v].receipt EXCEPT !.verify = "running"]
        /\ vcall' = [vcall EXCEPT ![v] = [pc |-> "saved", receipt |-> drec']]
    BY <1>8 DEF SaveVerifyIntent
  <2>2. drec'.auth = drec.auth /\ drec.auth \in Ids
    BY <1>1, <2>1 DEF Calls, Receipts, OnRecord, HeldRecord
  <2>3. \A w \in Verifiers : vcall'[w] = vcall[w] \/ vcall'[w].receipt.auth = drec.auth
    BY <1>1, <2>1, <2>2
  <2> QED
    BY <1>3, <1>8, <2>2, <2>3 DEF SaveVerifyIntent, shared, OnRecord, HeldRecord
<1>9. CASE InvokeVerify(v)
  <2>1. /\ vcall[v].pc = "saved" /\ sent' = [sent EXCEPT ![vcall[v].receipt.auth] = Append(@, "verify")]
        /\ vcall' = [vcall EXCEPT ![v].pc = "invoking"] /\ UNCHANGED <<auth, plan, drec, dcall>>
    BY <1>9 DEF InvokeVerify
  <2>2. vcall[v].receipt.auth = drec.auth /\ drec.auth \in Ids
    BY <2>1 DEF OnRecord, HeldRecord
  <2>3. \A w \in Verifiers : vcall'[w] = vcall[w] \/ vcall'[w].receipt.auth = drec.auth
    BY <1>1, <2>1, <2>2 DEF Calls
  <2> QED
    BY <1>3, <2>1, <2>2, <2>3 DEF OnRecord, HeldRecord
<1>10. CASE Conclude(v) \/ ConcludeCrash(v)
  <2>1. PICK o \in Conclusions(v) :
          /\ drec' = o.receipt /\ UNCHANGED <<plan, sent>>
          /\ (vcall' = [vcall EXCEPT ![v] = Idle] /\ UNCHANGED dcall) \/ Restart
    BY <1>10 DEF Conclude, ConcludeCrash, Judge
  <2>2. \A w \in Verifiers : vcall'[w] \in {vcall[w], Idle}
    BY <1>1, <2>1
  <2>3. HeldRecord'
    BY <1>1, <1>2, <1>3, <2>1, <2>2 DEF OnRecord, HeldRecord
  <2> QED
    BY <1>2, <2>1, <2>3
<1> QED
  BY <1>4, <1>5, <1>6, <1>7, <1>8, <1>9, <1>10 DEF Verifies

\* Every step of the stage keeps the receipt's name, and sends under it alone, until a
\* deploy sets it.
LEMMA ReceiptKept ==
  ASSUME Typed, LockHeld, OnRecord, DeployNext \/ Crash
  PROVE  /\ OnRecord'
         /\ \/ /\ UNCHANGED sent /\ (drec'.auth = drec.auth \/ SaveDeployIntent)
            \/ /\ drec'.auth = drec.auth /\ drec.auth \in Ids /\ UNCHANGED auth
               /\ sent' = [sent EXCEPT ![drec.auth] = Append(@, "verify")]
            \/ InvokeDeploy
            \/ \E i \in Ids : /\ sent' = [sent EXCEPT ![i] = Append(@, "deploy")] /\ drec = NoReceipt
                              /\ \/ DeployProfile(i) /\ drec'.auth = i
                                 \/ DeployProfileCrash(i)
<1> DEFINE Sent == \/ UNCHANGED sent
                   \/ drec.auth \in Ids /\ UNCHANGED auth /\ sent' = [sent EXCEPT ![drec.auth] = Append(@, "verify")]
<1>1. CASE Deploys
  <2>1. /\ HeldRecord'
        /\ \/ drec'.auth = drec.auth
           \/ drec = NoReceipt /\ (SaveDeployIntent \/ \E i \in Ids : DeployProfile(i) /\ drec'.auth = i)
    BY <1>1, DeploysOnRecord
  <2>2. /\ NoReceipt.auth \notin Ids
        /\ \A i \in Ids : DeployProfile(i) => drec = NoReceipt /\ drec'.auth = i
    <3> SUFFICES ASSUME NEW i \in Ids, DeployProfile(i) PROVE drec = NoReceipt /\ drec'.auth = i
      BY DeployAssumption DEF NoReceipt
    <3>1. drec = NoReceipt /\ drec' = NewRecord(i, Len(jobs) + 1) /\ NewRecord(i, Len(jobs) + 1).auth = i
      BY NewReceiptIs, NamesIt DEF DeployProfile, MayDeploy
    <3> QED
      BY <3>1
  <2>3. ASSUME NEW i \in Ids, DeployProfile(i) \/ DeployProfileCrash(i)
        PROVE  drec = NoReceipt /\ sent' = [sent EXCEPT ![i] = Append(@, "deploy")]
    BY <2>3 DEF DeployProfile, DeployProfileCrash, MayDeploy, StartJob
  <2>4. ASSUME NEW i, NEW j \in Ids, sent' = [sent EXCEPT ![i] = Append(@, "deploy")],
               i \in Ids => drec.auth = i \/ drec = NoReceipt, Did(j, "verify")'
        PROVE  Did(j, "verify") /\ drec = drec
    <3>1. CASE i \in Ids
      <4>1. "deploy" \in Effects /\ "verify" \in Effects
        BY DEF Effects
      <4> QED
        BY <2>4, <3>1, <4>1, Sends
    <3>2. CASE i \notin Ids
      BY <2>4, <3>2 DEF Typed, Did
    <3> QED
      BY <3>1, <3>2
  <2>5. UNCHANGED sent => \A j \in Ids : Did(j, "verify")' <=> Did(j, "verify")
    BY DEF Did
  <2>6. ASSUME NEW j \in Ids, Did(j, "verify")' PROVE Did(j, "verify")
    <3>1. CASE InvokeDeploy
      BY <2>4, <2>6, <3>1 DEF InvokeDeploy, OnRecord, HeldRecord
    <3>2. CASE UNCHANGED sent
      BY <2>5, <2>6, <3>2
    <3>3. CASE \E i \in Ids : DeployProfile(i) \/ DeployProfileCrash(i)
      BY <2>3, <2>4, <2>6, <3>3
    <3> QED
      BY <1>1, <3>1, <3>2, <3>3 DEF Deploys, DeployCapability, DeployRefused, SaveDeployIntent, DeployAnswered,
         DeployAnsweredCrash, shared
  <2>7. VerifyOnRecord'
    BY <2>1, <2>2, <2>6 DEF OnRecord, VerifyOnRecord, SaveDeployIntent
  <2>8. \/ UNCHANGED sent /\ (drec'.auth = drec.auth \/ SaveDeployIntent)
        \/ InvokeDeploy
        \/ \E i \in Ids : /\ sent' = [sent EXCEPT ![i] = Append(@, "deploy")] /\ drec = NoReceipt
                          /\ \/ DeployProfile(i) /\ drec'.auth = i
                             \/ DeployProfileCrash(i)
    <3>1. CASE \E i \in Ids : DeployProfile(i) \/ DeployProfileCrash(i)
      BY <2>2, <2>3, <3>1
    <3>2. CASE DeployRefused \/ SaveDeployIntent \/ DeployAnswered \/ DeployAnsweredCrash \/ \E i \in Ids : DeployCapability(i)
      <4>1. UNCHANGED sent
        BY <3>2 DEF DeployCapability, DeployRefused, SaveDeployIntent, DeployAnswered, DeployAnsweredCrash, shared
      <4>2. (\E i \in Ids : DeployProfile(i)) => drec = NoReceipt /\ drec' # NoReceipt
        BY <2>2
      <4> QED
        BY <2>1, <2>3, <3>1, <4>1
    <3> QED
      BY <1>1, <3>1, <3>2 DEF Deploys
  <2> QED
    BY <2>1, <2>7, <2>8 DEF OnRecord
<1>2. ASSUME NEW v \in Verifiers, Verifies(v)
      PROVE  HeldRecord' /\ drec'.auth = drec.auth /\ Sent
  BY <1>2, VerifiesOnRecord
<1>3. ASSUME Around \/ Crash PROVE HeldRecord' /\ drec'.auth = drec.auth /\ Sent
  <2>1. /\ UNCHANGED <<plan, sent, drec>>
        /\ UNCHANGED <<dcall, vcall>> \/ (dcall' = Idle /\ \A v \in Verifiers : vcall'[v] = Idle)
    BY <1>3 DEF Around, JobFinishes, DeadlinePasses, Crash, Restart, CallsLost, shared
  <2>2. HeldRecord'
    BY <2>1 DEF OnRecord, HeldRecord, Idle
  <2> QED
    BY <2>1, <2>2
<1>4. ASSUME HeldRecord', drec'.auth = drec.auth, Sent PROVE OnRecord'
  <2>1. ASSUME NEW j \in Ids, Did(j, "verify")' PROVE Did(j, "verify") \/ j = drec.auth
    <3>1. CASE UNCHANGED sent
      BY <2>1, <3>1 DEF Did
    <3>2. CASE drec.auth \in Ids /\ sent' = [sent EXCEPT ![drec.auth] = Append(@, "verify")]
      <4>1. "verify" \in Effects
        BY DEF Effects
      <4> QED
        BY <2>1, <3>2, <4>1, Sends
    <3> QED
      BY <1>4, <3>1, <3>2
  <2> QED
    BY <1>4, <2>1 DEF OnRecord, VerifyOnRecord
<1> HIDE DEF Sent
<1>5. CASE (\E v \in Verifiers : Verifies(v)) \/ Around \/ Crash
  <2>1. HeldRecord' /\ drec'.auth = drec.auth /\ Sent
    BY <1>2, <1>3, <1>5 DEF Sent
  <2> QED
    BY <1>4, <2>1 DEF Sent
<1> QED
  BY <1>1, <1>5 DEF DeployNext
==============================================================================
