------------------------ MODULE DeliveryGateProofs ------------------------
(***************************************************************************)
(* Proofs about what a delivery waits for.  HostVerification, for any      *)
(* changes, policies and bounds: what is merged was verified on the host,  *)
(* under a policy that covers it, and a run is retried only as allowed.    *)
(* DeliveryAuthorization, for any tasks, rows, evidence, lifetimes and     *)
(* bounds: the safety properties of the authorization table and its        *)
(* refinement of the contract with the Human.                              *)
(***************************************************************************)
EXTENDS HostVerification, DeliveryAuthorization, WellFoundedInduction, FiniteSetTheorems, TLAPS

-----------------------------------------------------------------------------
(* Verification of a head on the host (HostVerification).                  *)

\* What a failed automatic run is put down to.
Verdicts == {"infrastructure", "candidate", "stale"}

HostJob ==
  [commit : Nat, by : {"gateway", "cli"}, level : {"smoke", "full"},
   files : SUBSET {"server-auto", "git-hook", "tools", "sandbox"}, policy : Nat,
   pc : {"prepare", "execute", "heads", "pr", "persist", "done", "orphan"},
   result : {"none", "passed", "cancelled"} \cup Verdicts, headIsIt : BOOLEAN]

\* The rows, the commits and the history have their types.
HostTypes ==
  /\ changed \in Seq(SUBSET ChangeKinds) /\ Len(changed) >= 1
  /\ tries \in Seq(Seq(Verdicts)) /\ Len(tries) = Len(changed)
  /\ jobs \in Seq(HostJob) /\ \A j \in DOMAIN jobs : jobs[j].commit \in DOMAIN changed
  /\ policy \in Nat /\ suite \in {0} \cup DOMAIN changed
  /\ mode \in {"auto", "manual"}

\* A row is a restricted run of the files its commit needs; it has a result once it has
\* ended, only the newest one has not, and one that passed did pass.
RowsInv ==
  \A j \in DOMAIN jobs :
    /\ PlanOf(jobs[j].commit).level = jobs[j].level /\ ~PlanOf(jobs[j].commit).manualOnly
    /\ jobs[j].files = HostFiles(jobs[j].level, {"auto"})
    /\ (jobs[j].result = "none") <=> ~Ended(j)
    /\ jobs[j].pc = "persist" => jobs[j].result = "passed"
    /\ ~Ended(j) => j = Len(jobs)
    /\ jobs[j].result = "passed" =>
         \E p \in proved : p.apart /\ p.commit = jobs[j].commit /\ p.files = jobs[j].files
                           /\ p.policy = jobs[j].policy

\* A receipt stands for a row that passed, or for the operator's suite, which runs for a
\* change that only a person may verify.
ReceiptInv ==
  /\ receipt.version \in {0, 1, 2}
  /\ suite # 0 => suite \in DOMAIN changed /\ PlanOf(suite).manualOnly
  /\ receipt.version = 1 =>
       /\ receipt.commit \in DOMAIN changed /\ PlanOf(receipt.commit).manualOnly
       /\ \E p \in proved : p.commit = receipt.commit /\ p.files = receipt.files
  /\ receipt.version = 2 =>
       /\ receipt.job \in DOMAIN jobs /\ jobs[receipt.job].result = "passed"
       /\ jobs[receipt.job].commit = receipt.commit
       /\ receipt.mode = IF jobs[receipt.job].by = "cli" THEN "manual" ELSE "auto"

\* The failures counted for a commit are the results of its newest runs, and a new run
\* goes on after one failure of the machinery only.
TriesOk(c) ==
  LET t == tries[c] IN
    /\ Len(t) <= 2
    /\ t # <<>> =>
         \E j \in RunsOn(c) :
           /\ jobs[j].result = t[Len(t)]
           /\ \A k \in RunsOn(c) : k > j =>
                jobs[k].result = "none" /\ jobs[k].by = "gateway" /\ t = <<"infrastructure">>
           /\ Len(t) = 2 =>
                /\ t[1] = "infrastructure"
                /\ \E i \in RunsOn(c) :
                     /\ i < j /\ jobs[i].result = "infrastructure"
                     /\ \A k \in RunsOn(c) : k < j => k <= i

TriesInv == \A c \in DOMAIN tries : TriesOk(c)

\* The inductive invariant.
HostInv == HostTypes /\ RowsInv /\ ReceiptInv /\ TriesInv

\* What a plan asks for.
LEMMA PlanFacts ==
  ASSUME NEW k \in SUBSET ChangeKinds
  PROVE  /\ Plan(k).level \in {"none", "smoke", "full"} /\ Plan(k).manualOnly \in BOOLEAN
         /\ Plan(k).level = "none" => Plan(k).required = {} /\ ~Plan(k).manualOnly
         /\ ~Plan(k).manualOnly => Plan(k).required = HostFiles(Plan(k).level, {"auto"})
<1>1. Level(k) \in {"none", "smoke", "full"}
  BY DEF Level
<1>2. HostFiles("none", {"auto"}) = {}
  BY DEF HostFiles, Manifest
<1> QED
  BY <1>1, <1>2 DEF Plan

\* The files of a run are files of the manifest.
LEMMA FileNames ==
  ASSUME NEW l, NEW e
  PROVE  HostFiles(l, e) \in SUBSET {"server-auto", "git-hook", "tools", "sandbox"}
BY DEF HostFiles, Manifest

\* A commit keeps its plan.
LEMMA PlanKept ==
  ASSUME HostTypes, changed' = changed \/ \E k \in SUBSET ChangeKinds : changed' = Append(changed, k)
  PROVE  \A c \in DOMAIN changed :
           c \in DOMAIN changed' /\ PlanOf(c)' = PlanOf(c) /\ changed[c] \in SUBSET ChangeKinds
BY DEF HostTypes, PlanOf

\* A row that is not at its end is the newest one.
LEMMA OpenRow ==
  ASSUME HostInv, NEW j \in DOMAIN jobs, ~Ended(j)
  PROVE  j = Len(jobs) /\ jobs[j] \in HostJob /\ jobs[j].result = "none"
BY DEF HostInv, HostTypes, RowsInv

\* What a receipt stands for stays.
LEMMA ReceiptKept ==
  ASSUME HostTypes, ReceiptInv, receipt' = receipt, suite' \in {0, suite}, proved \subseteq proved',
         changed' = changed \/ \E k \in SUBSET ChangeKinds : changed' = Append(changed, k),
         \A i \in DOMAIN jobs : /\ i \in DOMAIN jobs' /\ jobs'[i].commit = jobs[i].commit
                                /\ jobs'[i].by = jobs[i].by
                                /\ jobs[i].result = "passed" => jobs'[i].result = "passed"
  PROVE  ReceiptInv'
<1>1. \A c \in DOMAIN changed : c \in DOMAIN changed' /\ PlanOf(c)' = PlanOf(c)
  BY PlanKept
<1> QED
  BY <1>1 DEF ReceiptInv

\* Nothing is counted against a commit whose history was cleared.
LEMMA TriesCleared ==
  ASSUME NEW c, tries'[c] = <<>>
  PROVE  TriesOk(c)'
BY DEF TriesOk

\* ... nor anything new against one none of whose runs has changed.
LEMMA TriesSame ==
  ASSUME NEW c, TriesOk(c), tries'[c] = tries[c], RunsOn(c)' = RunsOn(c),
         \A j \in RunsOn(c) : jobs'[j].result = jobs[j].result /\ jobs'[j].by = jobs[j].by
  PROVE  TriesOk(c)'
BY DEF TriesOk

\* One row changes: it keeps what it is a run of.
LEMMA RowChanges ==
  ASSUME HostInv, NEW j \in DOMAIN jobs, NEW it \in HostJob,
         jobs' = [jobs EXCEPT ![j] = it], changed' = changed, proved \subseteq proved',
         it.commit = jobs[j].commit, it.by = jobs[j].by, it.level = jobs[j].level,
         it.files = jobs[j].files, it.policy = jobs[j].policy,
         (it.result = "none") <=> it.pc \notin {"persist", "done"},
         it.pc = "persist" => it.result = "passed",
         it.result = "none" => ~Ended(j),
         it.result = "passed" => \E p \in proved' : p.apart /\ p.commit = it.commit /\ p.files = it.files
                                                     /\ p.policy = it.policy
  PROVE  /\ jobs' \in Seq(HostJob) /\ DOMAIN jobs' = DOMAIN jobs /\ Len(jobs') = Len(jobs)
         /\ \A i \in DOMAIN jobs : jobs'[i].commit \in DOMAIN changed'
         /\ \A i \in DOMAIN jobs : jobs'[i].commit = jobs[i].commit /\ jobs'[i].by = jobs[i].by
         /\ \A i \in DOMAIN jobs : i # j => jobs'[i] = jobs[i]
         /\ jobs'[j] = it
         /\ \A c : RunsOn(c)' = RunsOn(c)
         /\ RowsInv'
<1>1. jobs \in Seq(HostJob) /\ \A i \in DOMAIN jobs : jobs[i].commit \in DOMAIN changed
  BY DEF HostInv, HostTypes
<1>2. /\ jobs' \in Seq(HostJob) /\ DOMAIN jobs' = DOMAIN jobs /\ Len(jobs') = Len(jobs)
      /\ \A i \in DOMAIN jobs : i # j => jobs'[i] = jobs[i]
      /\ jobs'[j] = it
  BY <1>1
<1>3. \A i \in DOMAIN jobs : jobs'[i].commit = jobs[i].commit /\ jobs'[i].by = jobs[i].by
  BY <1>2
<1>4. \A c : RunsOn(c)' = RunsOn(c)
  BY <1>2, <1>3 DEF RunsOn
<1>5. \A c : PlanOf(c)' = PlanOf(c)
  BY DEF PlanOf
<1>6. RowsInv'
  <2> SUFFICES ASSUME NEW i \in DOMAIN jobs
               PROVE  /\ PlanOf(jobs'[i].commit).level = jobs'[i].level
                      /\ ~PlanOf(jobs'[i].commit).manualOnly
                      /\ jobs'[i].files = HostFiles(jobs'[i].level, {"auto"})
                      /\ (jobs'[i].result = "none") <=> jobs'[i].pc \notin {"persist", "done"}
                      /\ jobs'[i].pc = "persist" => jobs'[i].result = "passed"
                      /\ jobs'[i].pc \notin {"persist", "done"} => i = Len(jobs)
                      /\ jobs'[i].result = "passed" =>
                           \E p \in proved' : p.apart /\ p.commit = jobs'[i].commit /\ p.files = jobs'[i].files
                                              /\ p.policy = jobs'[i].policy
    BY <1>2, <1>5 DEF RowsInv, Ended
  <2>1. CASE i = j
    BY <1>2, <2>1, OpenRow DEF HostInv, RowsInv
  <2>2. CASE i # j
    BY <1>2, <2>2 DEF HostInv, RowsInv, Ended
  <2> QED
    BY <2>1, <2>2
<1> QED
  BY <1>1, <1>2, <1>3, <1>4, <1>6

\* The invariant holds before anything has happened.
LEMMA HostInit == Init => HostInv
<1> SUFFICES ASSUME Init PROVE HostInv
  OBVIOUS
<1>1. PICK k \in Changes : changed = <<k>>
  BY DEF Init
<1>2. changed \in Seq(SUBSET ChangeKinds) /\ Len(changed) = 1 /\ tries = <<<<>>>> /\ jobs = <<>>
  BY <1>1, VerificationAssumption DEF Init, VerificationAssumption
<1>3. HostTypes
  BY <1>2, VerificationAssumption DEF Init, HostTypes, VerificationAssumption
<1>4. RowsInv /\ ReceiptInv
  BY <1>2 DEF Init, RowsInv, ReceiptInv, NoReceipt
<1>5. TriesInv
  BY <1>2 DEF TriesInv, TriesOk
<1> QED
  BY <1>3, <1>4, <1>5 DEF HostInv

\* The newest of some runs.
LEMMA NewestIs ==
  ASSUME NEW S \in SUBSET Int, NEW j \in S, \A k \in S : k <= j
  PROVE  Newest(S) = j
<1>1. \A i \in S : (\A k \in S : k <= i) => i = j
  OBVIOUS
<1> QED
  BY <1>1 DEF Newest

\* The failures in a row are two when two runs end the row.
LEMMA TwoFailures ==
  ASSUME HostTypes, NEW c
  PROVE  InfraFailures(c) >= 2 <=> \E i, j \in InfraTail(c) : i # j
<1>1. InfraTail(c) \subseteq 1..Len(jobs) /\ Len(jobs) \in Nat
  BY DEF InfraTail, RunsOn, HostTypes
<1>2. IsFiniteSet(InfraTail(c)) /\ Cardinality(InfraTail(c)) \in Nat
  <2>1. IsFiniteSet(1..Len(jobs))
    BY <1>1, FS_Interval
  <2> QED
    BY <1>1, <2>1, FS_Subset, FS_CardinalityType
<1>3. ASSUME NEW i \in InfraTail(c), NEW j \in InfraTail(c), i # j
      PROVE  Cardinality(InfraTail(c)) >= 2
  <2>1. IsFiniteSet({i}) /\ Cardinality({i}) = 1
    BY FS_Singleton
  <2>2. IsFiniteSet({i} \cup {j}) /\ Cardinality({i} \cup {j}) = 2
    BY <1>3, <2>1, FS_AddElement
  <2> QED
    BY <1>2, <2>2, FS_Subset
<1>4. ASSUME \A i, j \in InfraTail(c) : i = j
      PROVE  ~(Cardinality(InfraTail(c)) >= 2)
  <2>1. CASE InfraTail(c) = {}
    BY <2>1, FS_EmptySet
  <2>2. CASE InfraTail(c) # {}
    <3>1. PICK i \in InfraTail(c) : TRUE
      BY <2>2
    <3>2. InfraTail(c) = {i}
      BY <1>4, <3>1
    <3> QED
      <4>1. Cardinality(InfraTail(c)) = 1
        BY <3>2, FS_Singleton
      <4> QED
        BY <4>1
  <2> QED
    BY <2>1, <2>2
<1> QED
  BY <1>3, <1>4 DEF InfraFailures

\* The gate starts a run only on a commit that needs one the verifier can make, and only
\* when nothing, or one failure of the machinery, is counted against the commit.
LEMMA StartFacts ==
  ASSUME HostInv, ~Busy, NEW c \in DOMAIN changed, GateAnswer(c) = "start"
  PROVE  /\ PlanOf(c).level # "none" /\ ~PlanOf(c).manualOnly
         /\ tries[c] = <<>> \/ tries[c] = <<"infrastructure">>
<1>1. ~Eligible(c)
  BY DEF GateAnswer, HostAnswer
<1>2. PlanOf(c).level # "none"
  BY <1>1 DEF Eligible
<1>3. ~PlanOf(c).manualOnly
  BY <1>1 DEF GateAnswer, HostAnswer
<1>4. /\ Attempt(c) # "candidate" /\ ~IntegrityFailure(c)
      /\ Attempt(c) = "infrastructure" => ~(InfraFailures(c) >= 2)
  BY <1>1, <1>3 DEF GateAnswer, HostAnswer
<1>5. tries \in Seq(Seq(Verdicts)) /\ c \in DOMAIN tries /\ TriesOk(c) /\ HostTypes /\ RowsInv
  BY DEF HostInv, HostTypes, TriesInv
<1>6. Attempt(c) # "integrity"
  BY <1>1, <1>4 DEF IntegrityFailure
<1> DEFINE t == tries[c]
<1>7. t \in Seq(Verdicts)
  BY <1>5
<1>8. ASSUME t # <<>> PROVE t = <<"infrastructure">>
  <2>1. Len(t) \in 1..2 /\ t[Len(t)] \in Verdicts
    <3>1. Len(t) \in Nat /\ Len(t) # 0 /\ Len(t) <= 2
      BY <1>5, <1>7, <1>8 DEF TriesOk
    <3>2. Len(t) \in DOMAIN t
      BY <1>7, <3>1
    <3>3. t[Len(t)] \in Verdicts
      BY <1>7, <3>2
    <3>4. \A n \in Nat : n # 0 /\ n <= 2 => n \in 1..2
      OBVIOUS
    <3> QED
      BY <3>1, <3>3, <3>4
  <2>2. PICK j \in RunsOn(c) :
           /\ jobs[j].result = t[Len(t)]
           /\ \A k \in RunsOn(c) : k > j => jobs[k].result = "none"
           /\ Len(t) = 2 =>
                \E i \in RunsOn(c) :
                     /\ i < j /\ jobs[i].result = "infrastructure"
                     /\ \A k \in RunsOn(c) : k < j => k <= i
    BY <1>5, <1>8 DEF TriesOk
  <2>3. RunsOn(c) \subseteq Nat /\ RunsOn(c) \subseteq DOMAIN jobs
    BY <1>5 DEF RunsOn, HostTypes
  <2>4. \A k \in RunsOn(c) : k <= j
    BY <1>5, <2>2, <2>3 DEF RowsInv, Busy
  <2>5. Newest(RunsOn(c)) = j
    BY <2>3, <2>4, NewestIs
  <2>6. Attempt(c) = FailureClass(j)
    BY <2>2, <2>3, <2>5 DEF Attempt, Busy
  <2>7. jobs[j].result = "infrastructure"
    BY <1>4, <1>6, <2>1, <2>2, <2>6 DEF FailureClass, Verdicts
  <2>8. Len(t) # 2
    <3> SUFFICES ASSUME Len(t) = 2 PROVE FALSE
      OBVIOUS
    <3>1. PICK i \in RunsOn(c) : /\ i < j /\ jobs[i].result = "infrastructure"
                                 /\ \A k \in RunsOn(c) : k < j => k <= i
      BY <2>2
    <3>2. i \in InfraTail(c) /\ j \in InfraTail(c)
      <4>1. \A k \in RunsOn(c) : k >= i => k = i \/ k = j
        BY <2>3, <2>4, <3>1
      <4>2. FailureClass(i) = "infrastructure" /\ FailureClass(j) = "infrastructure"
        BY <2>7, <3>1 DEF FailureClass
      <4> QED
        BY <2>3, <2>4, <4>1, <4>2 DEF InfraTail
    <3>3. i # j
      BY <2>3, <3>1
    <3> QED
      BY <1>4, <1>5, <2>6, <2>7, <3>2, <3>3, TwoFailures DEF FailureClass
  <2>9. Len(t) = 1 /\ t[1] = "infrastructure"
    <3>1. Len(t) = 1
      BY <2>1, <2>8
    <3> QED
      BY <2>2, <2>7, <3>1
  <2> QED
    BY <1>7, <2>9
<1> QED
  BY <1>2, <1>3, <1>8

\* A run is started: the rows before it are as they were.
LEMMA Launched ==
  ASSUME HostInv, NEW by \in {"gateway", "cli"}, NEW c \in DOMAIN changed, Launch(by, c),
         PlanOf(c).level # "none", ~PlanOf(c).manualOnly, changed' = changed, proved' = proved
  PROVE  /\ jobs' \in Seq(HostJob) /\ \A i \in DOMAIN jobs' : jobs'[i].commit \in DOMAIN changed'
         /\ ~Busy /\ Len(jobs') = Len(jobs) + 1 /\ Len(jobs) + 1 \in DOMAIN jobs'
         /\ jobs'[Len(jobs) + 1].commit = c /\ jobs'[Len(jobs) + 1].by = by
         /\ jobs'[Len(jobs) + 1].result = "none"
         /\ \A i \in DOMAIN jobs : i \in DOMAIN jobs' /\ jobs'[i] = jobs[i] /\ i < Len(jobs) + 1
         /\ \A d : d # c => RunsOn(d)' = RunsOn(d)
         /\ RunsOn(c)' = RunsOn(c) \cup {Len(jobs) + 1}
         /\ RowsInv'
<1> DEFINE n == NewJob(by, c)
<1>1. jobs \in Seq(HostJob) /\ \A i \in DOMAIN jobs : jobs[i].commit \in DOMAIN changed
  BY DEF HostInv, HostTypes
<1>2. n \in HostJob /\ n.commit = c /\ n.by = by /\ n.result = "none" /\ n.pc = "prepare"
      /\ n.level = PlanOf(c).level /\ n.files = HostFiles(n.level, {"auto"})
  <2>1. changed[c] \in SUBSET ChangeKinds /\ c \in Nat /\ policy \in Nat
    BY DEF HostInv, HostTypes
  <2>2. PlanOf(c).level \in {"smoke", "full"}
    BY <2>1, PlanFacts DEF PlanOf
  <2> QED
    BY <2>1, <2>2, FileNames DEF NewJob, HostJob
<1>3. jobs' = Append(jobs, n) /\ ~Busy
  BY DEF Launch, Admitted
<1> HIDE DEF n
<1>4. /\ jobs' \in Seq(HostJob) /\ Len(jobs') = Len(jobs) + 1 /\ Len(jobs) + 1 \in DOMAIN jobs'
      /\ jobs'[Len(jobs) + 1] = n
      /\ \A i \in DOMAIN jobs : i \in DOMAIN jobs' /\ jobs'[i] = jobs[i] /\ i < Len(jobs) + 1
      /\ \A i \in DOMAIN jobs' : i \in DOMAIN jobs \/ i = Len(jobs) + 1
  BY <1>1, <1>2, <1>3
<1>5. (\A d : d # c => RunsOn(d)' = RunsOn(d)) /\ RunsOn(c)' = RunsOn(c) \cup {Len(jobs) + 1}
  BY <1>2, <1>4 DEF RunsOn
<1>6. \A d : PlanOf(d)' = PlanOf(d)
  BY DEF PlanOf
<1>7. RowsInv'
  <2>1. \A i \in DOMAIN jobs : Ended(i) /\ Ended(i)'
    BY <1>3, <1>4 DEF Busy, Ended
  <2> QED
    BY <1>2, <1>4, <1>6, <2>1 DEF RowsInv, HostInv, Ended
<1> QED
  BY <1>1, <1>2, <1>3, <1>4, <1>5, <1>7

\* The last failure of a sequence of them.
LEMMA LastVerdict ==
  ASSUME NEW t \in Seq(Verdicts), t # <<>>
  PROVE  Len(t) \in DOMAIN t /\ t[Len(t)] \in Verdicts /\ t[Len(t)] # "none"
<1>1. Len(t) \in Nat /\ Len(t) # 0
  OBVIOUS
<1>2. Len(t) \in DOMAIN t
  BY <1>1
<1> QED
  BY <1>2 DEF Verdicts

\* While a run goes on, what is counted against its commit is nothing, or one failure of
\* the machinery in the run before; nothing when it is the operator's.
LEMMA OpenTries ==
  ASSUME HostInv, NEW j \in DOMAIN jobs, ~Ended(j), tries[jobs[j].commit] # <<>>
  PROVE  /\ tries[jobs[j].commit] = <<"infrastructure">> /\ jobs[j].by = "gateway"
         /\ \E i \in RunsOn(jobs[j].commit) :
              /\ i < j /\ jobs[i].result = "infrastructure"
              /\ \A k \in RunsOn(jobs[j].commit) : k < j => k <= i
<1> DEFINE c == jobs[j].commit
           t == tries[c]
<1>1. /\ j = Len(jobs) /\ jobs[j].result = "none" /\ jobs \in Seq(HostJob)
      /\ c \in DOMAIN tries /\ t \in Seq(Verdicts) /\ TriesOk(c)
  BY OpenRow DEF HostInv, HostTypes, TriesInv
<1>2. PICK i \in RunsOn(c) :
        /\ jobs[i].result = t[Len(t)]
        /\ \A k \in RunsOn(c) : k > i =>
             jobs[k].result = "none" /\ jobs[k].by = "gateway" /\ t = <<"infrastructure">>
  BY <1>1 DEF TriesOk
<1>3. j \in RunsOn(c) /\ RunsOn(c) \subseteq 1..j /\ j \in Nat
  BY <1>1 DEF RunsOn
<1>4. i # j
  BY <1>1, <1>2, LastVerdict
<1>5. i < j
  BY <1>3, <1>4
<1>6. t = <<"infrastructure">> /\ jobs[j].by = "gateway"
  BY <1>2, <1>3, <1>5
<1>7. ASSUME NEW k \in RunsOn(c), k < j PROVE k <= i
  <2>1. jobs[k].result # "none"
    BY <1>1, <1>3, <1>7 DEF HostInv, RowsInv, RunsOn
  <2> QED
    BY <1>2, <1>3, <2>1
<1> QED
  BY <1>2, <1>5, <1>6, <1>7

\* What counts against a commit after a step, when its newest run has ended.
LEMMA TriesOkNext ==
  ASSUME NEW c, NEW t, t = tries'[c], NEW j \in RunsOn(c)', jobs'[j].result = t[Len(t)],
         Len(t) <= 2, \A k \in RunsOn(c)' : ~(k > j),
         Len(t) = 2 =>
           /\ t[1] = "infrastructure"
           /\ \E i \in RunsOn(c)' :
                /\ i < j /\ jobs'[i].result = "infrastructure"
                /\ \A k \in RunsOn(c)' : k < j => k <= i
  PROVE  TriesOk(c)'
BY DEF TriesOk

\* The invariant survives the end of a run without a pass.
LEMMA SettleKeeps ==
  ASSUME HostInv, NEW j \in DOMAIN jobs, ~Ended(j), NEW r \in Verdicts, Settle(j, r),
         UNCHANGED <<receipt, suite, changed, mode>>, policy' \in Nat, proved \subseteq proved'
  PROVE  HostInv'
<1>0. PICK c \in {jobs[j].commit} : c = jobs[j].commit
  OBVIOUS
<1> DEFINE it == [jobs[j] EXCEPT !.pc = "done", !.result = r]
<1>1. /\ j = Len(jobs) /\ jobs[j] \in HostJob /\ jobs[j].result = "none" /\ j \in Nat
      /\ jobs \in Seq(HostJob) /\ c \in DOMAIN tries /\ tries \in Seq(Seq(Verdicts))
  BY <1>0, OpenRow DEF HostInv, HostTypes
<1>2. it \in HostJob /\ it.pc = "done" /\ it.result = r /\ r \notin {"none", "passed"}
      /\ it.commit = c /\ it.by = jobs[j].by /\ it.level = jobs[j].level
      /\ it.files = jobs[j].files /\ it.policy = jobs[j].policy
  BY <1>0, <1>1 DEF HostJob, Verdicts
<1>3. jobs' = [jobs EXCEPT ![j] = it]
  BY DEF Settle, Marked
<1> HIDE DEF it
<1>4. /\ jobs' \in Seq(HostJob) /\ DOMAIN jobs' = DOMAIN jobs /\ Len(jobs') = Len(jobs)
      /\ \A i \in DOMAIN jobs : jobs'[i].commit \in DOMAIN changed'
      /\ \A i \in DOMAIN jobs : jobs'[i].commit = jobs[i].commit /\ jobs'[i].by = jobs[i].by
      /\ \A i \in DOMAIN jobs : i # j => jobs'[i] = jobs[i]
      /\ jobs'[j] = it
      /\ \A d : RunsOn(d)' = RunsOn(d)
      /\ RowsInv'
  BY <1>0, <1>2, <1>3, RowChanges
<1>5. /\ jobs[j].by = "gateway" => tries' = [tries EXCEPT ![c] = Append(@, r)]
      /\ jobs[j].by # "gateway" => tries' = tries
  BY <1>0 DEF Settle
<1>6. /\ tries' \in Seq(Seq(Verdicts)) /\ Len(tries') = Len(tries)
      /\ DOMAIN tries' = DOMAIN tries /\ \A d \in DOMAIN tries : d # c => tries'[d] = tries[d]
      /\ jobs[j].by = "gateway" => tries'[c] = Append(tries[c], r)
  <2> DEFINE more == Append(tries[c], r)
  <2>1. more \in Seq(Verdicts)
    BY <1>1
  <2>2. jobs[j].by = "gateway" => tries' = [tries EXCEPT ![c] = more]
    BY <1>5
  <2> HIDE DEF more
  <2>3. tries' = tries \/ tries' = [tries EXCEPT ![c] = more]
    BY <1>5, <2>2
  <2>4. /\ tries' \in Seq(Seq(Verdicts)) /\ Len(tries') = Len(tries) /\ DOMAIN tries' = DOMAIN tries
        /\ \A d \in DOMAIN tries : d # c => tries'[d] = tries[d]
    <3>1. CASE tries' = tries
      BY <1>1, <3>1
    <3>2. CASE tries' = [tries EXCEPT ![c] = more]
      BY <1>1, <2>1, <3>2
    <3> QED
      BY <2>3, <3>1, <3>2
  <2>5. jobs[j].by = "gateway" => tries'[c] = more
    BY <1>1, <2>2
  <2> QED
    BY <2>4, <2>5 DEF more
<1>7. HostTypes'
  BY <1>4, <1>6 DEF HostInv, HostTypes
<1>8. ReceiptInv'
  BY <1>1, <1>4, ReceiptKept DEF HostInv
<1>9. ASSUME NEW d \in DOMAIN tries, d # c PROVE TriesOk(d)'
  <2>1. \A i \in RunsOn(d) : i \in DOMAIN jobs /\ i # j
    BY <1>0, <1>9 DEF RunsOn
  <2> QED
    BY <1>4, <1>6, <1>9, <2>1, TriesSame DEF HostInv, TriesInv
<1>10. TriesOk(c)'
  <2>1. CASE jobs[j].by # "gateway"
    <3>1. tries'[c] = <<>>
      BY <1>0, <1>5, <2>1, OpenTries
    <3> QED
      BY <3>1, TriesCleared
  <2>2. CASE jobs[j].by = "gateway" /\ tries[c] = <<>>
    <3>0. PICK t \in {tries'[c]} : t = tries'[c]
      OBVIOUS
    <3>1. t = <<r>>
      BY <1>6, <2>2, <3>0
    <3>2. Len(t) = 1 /\ t[Len(t)] = r
      BY <3>1
    <3>3. j \in RunsOn(c)' /\ \A k \in RunsOn(c)' : ~(k > j)
      BY <1>0, <1>1, <1>4 DEF RunsOn
    <3>4. t = tries'[c] /\ jobs'[j].result = r
      BY <1>2, <1>4, <3>0
    <3>5. jobs'[j].result = t[Len(t)] /\ Len(t) <= 2 /\ ~(Len(t) = 2)
      BY <3>2, <3>4
    <3> QED
      BY <3>0, <3>3, <3>5, TriesOkNext
  <2>3. CASE jobs[j].by = "gateway" /\ tries[c] # <<>>
    <3>0. PICK t \in {tries'[c]} : t = tries'[c]
      OBVIOUS
    <3>1. t = <<"infrastructure", r>>
      <4>1. tries[c] = <<"infrastructure">>
        BY <1>0, <2>3, OpenTries
      <4> QED
        BY <1>6, <2>3, <3>0, <4>1
    <3>2. Len(t) = 2 /\ t[Len(t)] = r /\ t[1] = "infrastructure"
      BY <3>1
    <3>3. j \in RunsOn(c)' /\ \A k \in RunsOn(c)' : ~(k > j)
      BY <1>0, <1>1, <1>4 DEF RunsOn
    <3>4. \E i \in RunsOn(c)' :
              /\ i < j /\ jobs'[i].result = "infrastructure"
              /\ \A k \in RunsOn(c)' : k < j => k <= i
      <4>1. PICK i \in RunsOn(c) :
              /\ i < j /\ jobs[i].result = "infrastructure"
              /\ \A k \in RunsOn(c) : k < j => k <= i
        BY <1>0, <2>3, OpenTries
      <4>2. i # j /\ i \in DOMAIN jobs
        BY <1>1, <4>1 DEF RunsOn
      <4> QED
        BY <1>4, <4>1, <4>2
    <3>5. t = tries'[c] /\ jobs'[j].result = r
      BY <1>2, <1>4, <3>0
    <3>6. jobs'[j].result = t[Len(t)] /\ Len(t) <= 2
      BY <3>2, <3>5
    <3> QED
      BY <3>0, <3>2, <3>3, <3>4, <3>6, TriesOkNext
  <2> QED
    BY <2>1, <2>2, <2>3
<1>11. TriesInv'
  BY <1>6, <1>9, <1>10 DEF TriesInv
<1> QED
  BY <1>4, <1>7, <1>8, <1>11 DEF HostInv

\* No failure is a history.
LEMMA NoVerdict == <<>> \in Seq(Verdicts)
OBVIOUS

\* The history of one commit is replaced.
LEMMA ReplacedAt ==
  ASSUME NEW f \in Seq(Seq(Verdicts)), NEW c \in DOMAIN f, NEW t \in Seq(Verdicts)
  PROVE  [f EXCEPT ![c] = t] \in Seq(Seq(Verdicts))
OBVIOUS

\* The history of one commit is cleared.
LEMMA ClearedAt ==
  ASSUME tries \in Seq(Seq(Verdicts)), NEW c \in DOMAIN tries, tries' = [tries EXCEPT ![c] = <<>>]
  PROVE  /\ tries' \in Seq(Seq(Verdicts)) /\ Len(tries') = Len(tries) /\ DOMAIN tries' = DOMAIN tries
         /\ tries'[c] = <<>> /\ \A d \in DOMAIN tries : d # c => tries'[d] = tries[d]
<1>1. tries' \in Seq(Seq(Verdicts))
  BY NoVerdict, ReplacedAt
<1>2. DOMAIN tries' = DOMAIN tries /\ \A d \in DOMAIN tries : d # c => tries'[d] = tries[d]
  OBVIOUS
<1>3. tries'[c] = <<>>
  OBVIOUS
<1>4. Len(tries') = Len(tries)
  BY <1>1, <1>2
<1> QED
  BY <1>1, <1>2, <1>3, <1>4

\* The invariant survives a step of a row that gives it no result.
LEMMA RowMoveKeeps ==
  ASSUME HostInv, NEW j \in DOMAIN jobs, NEW it \in HostJob,
         jobs' = [jobs EXCEPT ![j] = it], UNCHANGED <<policy, suite, changed, mode, tries>>,
         proved \subseteq proved',
         it.commit = jobs[j].commit, it.by = jobs[j].by, it.level = jobs[j].level,
         it.files = jobs[j].files, it.policy = jobs[j].policy, it.result = jobs[j].result,
         (it.result = "none") <=> it.pc \notin {"persist", "done"},
         it.pc = "persist" => it.result = "passed"
  PROVE  HostTypes' /\ RowsInv' /\ TriesInv' /\ (receipt' = receipt => ReceiptInv')
<1>1. (it.result = "none" => ~Ended(j)) /\ (it.result = "passed" =>
        \E p \in proved' : p.apart /\ p.commit = it.commit /\ p.files = it.files /\ p.policy = it.policy)
  BY DEF HostInv, RowsInv
<1>2. /\ jobs' \in Seq(HostJob) /\ DOMAIN jobs' = DOMAIN jobs
      /\ \A i \in DOMAIN jobs : jobs'[i].commit \in DOMAIN changed'
      /\ \A i \in DOMAIN jobs : jobs'[i].commit = jobs[i].commit /\ jobs'[i].by = jobs[i].by
      /\ \A i \in DOMAIN jobs : i # j => jobs'[i] = jobs[i]
      /\ jobs'[j] = it
      /\ \A d : RunsOn(d)' = RunsOn(d)
      /\ RowsInv'
  BY <1>1, RowChanges
<1>3. HostTypes'
  BY <1>2 DEF HostInv, HostTypes
<1>4. \A i \in DOMAIN jobs : jobs'[i].result = jobs[i].result
  BY <1>2
<1>5. receipt' = receipt => ReceiptInv'
  BY <1>2, <1>4, ReceiptKept DEF HostInv
<1>6. TriesInv'
  <2>1. ASSUME NEW d \in DOMAIN tries PROVE TriesOk(d)'
    <3>1. \A i \in RunsOn(d) : i \in DOMAIN jobs
      BY DEF RunsOn
    <3> QED
      BY <1>2, <1>4, <3>1, TriesSame DEF HostInv, TriesInv
  <2> QED
    BY <2>1 DEF TriesInv
<1> QED
  BY <1>2, <1>3, <1>5, <1>6

\* The invariant survives the end of a run that clears the history of its commit.
LEMMA ClearedKeeps ==
  ASSUME HostInv, NEW j \in DOMAIN jobs, ~Ended(j), NEW pc \in {"persist", "done"},
         NEW r \in {"passed", "cancelled"}, jobs' = Marked(j, pc, r),
         tries' = [tries EXCEPT ![jobs[j].commit] = <<>>], pc = "persist" => r = "passed",
         r = "passed" => \E p \in proved' : p.apart /\ p.commit = jobs[j].commit /\ p.files = jobs[j].files
                                            /\ p.policy = jobs[j].policy,
         UNCHANGED <<policy, receipt, suite, changed, mode>>, proved \subseteq proved'
  PROVE  HostInv'
<1>0. PICK c \in {jobs[j].commit} : c = jobs[j].commit
  OBVIOUS
<1> DEFINE it == [jobs[j] EXCEPT !.pc = pc, !.result = r]
<1>1. /\ jobs[j] \in HostJob /\ jobs[j].result = "none"
      /\ jobs \in Seq(HostJob) /\ c \in DOMAIN tries /\ tries \in Seq(Seq(Verdicts))
  BY <1>0, OpenRow DEF HostInv, HostTypes
<1>2. it \in HostJob /\ it.pc = pc /\ it.result = r
      /\ it.commit = c /\ it.by = jobs[j].by /\ it.level = jobs[j].level
      /\ it.files = jobs[j].files /\ it.policy = jobs[j].policy
  BY <1>0, <1>1 DEF HostJob
<1>3. jobs' = [jobs EXCEPT ![j] = it]
  BY DEF Marked
<1> HIDE DEF it
<1>4. /\ jobs' \in Seq(HostJob) /\ DOMAIN jobs' = DOMAIN jobs
      /\ \A i \in DOMAIN jobs : jobs'[i].commit \in DOMAIN changed'
      /\ \A i \in DOMAIN jobs : jobs'[i].commit = jobs[i].commit /\ jobs'[i].by = jobs[i].by
      /\ \A i \in DOMAIN jobs : i # j => jobs'[i] = jobs[i]
      /\ jobs'[j] = it
      /\ \A d : RunsOn(d)' = RunsOn(d)
      /\ RowsInv'
  <2>1. /\ it.result # "none" /\ it.pc \in {"persist", "done"}
        /\ it.pc = "persist" => it.result = "passed"
        /\ it.result = "passed" =>
             \E p \in proved' : p.apart /\ p.commit = it.commit /\ p.files = it.files /\ p.policy = it.policy
    BY <1>0, <1>2
  <2> QED
    BY <1>0, <1>2, <1>3, <2>1, RowChanges
<1>5. tries' = [tries EXCEPT ![c] = <<>>]
  BY <1>0
<1>6. /\ tries' \in Seq(Seq(Verdicts)) /\ Len(tries') = Len(tries)
      /\ DOMAIN tries' = DOMAIN tries /\ \A d \in DOMAIN tries : d # c => tries'[d] = tries[d]
      /\ tries'[c] = <<>>
  BY <1>1, <1>5, ClearedAt
<1>7. HostTypes'
  BY <1>4, <1>6 DEF HostInv, HostTypes
<1>8. ReceiptInv'
  BY <1>1, <1>4, ReceiptKept DEF HostInv
<1>9. ASSUME NEW d \in DOMAIN tries, d # c PROVE TriesOk(d)'
  <2>1. \A i \in RunsOn(d) : i \in DOMAIN jobs /\ i # j
    BY <1>0, <1>9 DEF RunsOn
  <2> QED
    BY <1>4, <1>6, <1>9, <2>1, TriesSame DEF HostInv, TriesInv
<1>10. TriesInv'
  BY <1>6, <1>9, TriesCleared DEF TriesInv
<1> QED
  BY <1>4, <1>7, <1>8, <1>10 DEF HostInv

\* The invariant survives the steps of a run.
LEMMA RunKeeps ==
  ASSUME HostInv, NEW j \in DOMAIN jobs,
         Runs(j) \/ Breaks(j) \/ Quarantine(j) \/ Cancel(j)
  PROVE  HostInv'
<1>1. jobs[j] \in HostJob /\ jobs \in Seq(HostJob)
  BY DEF HostInv, HostTypes
<1>2. ~Ended(j) <=> jobs[j].result = "none"
  BY DEF HostInv, RowsInv
<1>3. ASSUME NEW pc \in {"execute", "heads", "orphan", "pr"}, NEW b \in BOOLEAN, ~Ended(j),
             jobs' = [jobs EXCEPT ![j] = [jobs[j] EXCEPT !.pc = pc, !.headIsIt = b]],
             UNCHANGED <<policy, receipt, suite, proved, tries, changed, mode>>
      PROVE  HostInv'
  <2> DEFINE it == [jobs[j] EXCEPT !.pc = pc, !.headIsIt = b]
  <2>1. it \in HostJob /\ it.pc = pc /\ it.result = jobs[j].result
        /\ it.commit = jobs[j].commit /\ it.by = jobs[j].by /\ it.level = jobs[j].level
        /\ it.files = jobs[j].files /\ it.policy = jobs[j].policy
    BY <1>1 DEF HostJob
  <2>2. jobs' = [jobs EXCEPT ![j] = it]
    BY <1>3
  <2> HIDE DEF it
  <2>3. it.result = "none" /\ it.pc \notin {"persist", "done"}
    BY <1>2, <1>3, <2>1
  <2> QED
    BY <1>3, <2>1, <2>2, <2>3, RowMoveKeeps DEF HostInv
<1>4. ASSUME NEW pc \in {"execute", "heads", "orphan"}, ~Ended(j),
             jobs' = [jobs EXCEPT ![j].pc = pc],
             UNCHANGED <<policy, receipt, suite, proved, tries, changed, mode>>
      PROVE  HostInv'
  <2> DEFINE it == [jobs[j] EXCEPT !.pc = pc]
  <2>1. it \in HostJob /\ it.pc = pc /\ it.result = jobs[j].result
        /\ it.commit = jobs[j].commit /\ it.by = jobs[j].by /\ it.level = jobs[j].level
        /\ it.files = jobs[j].files /\ it.policy = jobs[j].policy
    BY <1>1 DEF HostJob
  <2>2. jobs' = [jobs EXCEPT ![j] = it]
    BY <1>4
  <2> HIDE DEF it
  <2>3. it.result = "none" /\ it.pc \notin {"persist", "done"}
    BY <1>2, <1>4, <2>1
  <2> QED
    BY <1>4, <2>1, <2>2, <2>3, RowMoveKeeps DEF HostInv
<1>0. policy \in Nat
  BY DEF HostInv, HostTypes
<1>5. CASE Prepare(j)
  BY <1>0, <1>4, <1>5, SettleKeeps DEF Prepare, Ended, world, Verdicts
<1>6. CASE Execute(j)
  BY <1>0, <1>4, <1>6, SettleKeeps DEF Execute, Ended, world, Verdicts
<1>7. CASE TaskHead(j)
  <2>1. (~dirty /\ TaskTip = jobs[j].commit) \in BOOLEAN /\ ~Ended(j)
    BY <1>7 DEF TaskHead, Ended
  <2> QED
    BY <1>3, <1>7, <2>1 DEF TaskHead, world
<1>8. CASE PrHead(j)
  <2>a. PICK run \in proved' : /\ run.apart /\ run.commit = jobs[j].commit /\ run.files = jobs[j].files
                    /\ run.policy = jobs[j].policy /\ proved' = proved \cup {run}
    BY <1>8 DEF PrHead
  <2>1. /\ ~Ended(j) /\ proved \subseteq proved' /\ "stale" \in Verdicts
        /\ \E p \in proved' : p.apart /\ p.commit = jobs[j].commit /\ p.files = jobs[j].files
                               /\ p.policy = jobs[j].policy
        /\ UNCHANGED <<policy, receipt, suite, changed, mode>>
    BY <1>8, <2>a DEF PrHead, Ended, world, Verdicts
  <2>2. CASE StillCurrent(j)
    <3>1. jobs' = Marked(j, "persist", "passed") /\ tries' = [tries EXCEPT ![jobs[j].commit] = <<>>]
      BY <1>8, <2>2 DEF PrHead
    <3> QED
      BY <2>1, <3>1, ClearedKeeps
  <2>3. CASE ~StillCurrent(j)
    <3>1. Settle(j, "stale")
      BY <1>8, <2>3 DEF PrHead
    <3> QED
      BY <1>0, <2>1, <3>1, SettleKeeps
  <2> QED
    BY <2>2, <2>3
<1>9. CASE Persist(j)
  <2> DEFINE it == [jobs[j] EXCEPT !.pc = "done"]
  <2>1. it \in HostJob /\ it.pc = "done" /\ it.result = jobs[j].result
        /\ it.commit = jobs[j].commit /\ it.by = jobs[j].by /\ it.level = jobs[j].level
        /\ it.files = jobs[j].files /\ it.policy = jobs[j].policy
    BY <1>1 DEF HostJob
  <2>2. jobs' = [jobs EXCEPT ![j] = it]
    BY <1>9 DEF Persist
  <2>3. jobs[j].result = "passed" /\ jobs[j].pc = "persist"
    BY <1>9 DEF HostInv, RowsInv, Persist
  <2> HIDE DEF it
  <2>4. HostTypes' /\ RowsInv' /\ TriesInv'
    BY <1>9, <2>1, <2>2, <2>3, RowMoveKeeps DEF Persist, world
  <2>5. jobs'[j] = it /\ DOMAIN jobs' = DOMAIN jobs
    BY <1>1, <2>1, <2>2
  <2>6. receipt'.version = 2 /\ receipt'.job = j /\ receipt'.commit = jobs[j].commit
        /\ receipt'.mode = IF jobs[j].by = "cli" THEN "manual" ELSE "auto"
    BY <1>9 DEF Persist
  <2>8. suite' = suite /\ changed' = changed /\ ReceiptInv
    BY <1>9 DEF Persist, world, HostInv
  <2>9. suite' # 0 => suite' \in DOMAIN changed' /\ PlanOf(suite)'.manualOnly
    BY <2>8 DEF ReceiptInv, PlanOf
  <2>7. ReceiptInv'
    BY <2>1, <2>3, <2>5, <2>6, <2>9 DEF ReceiptInv
  <2> QED
    BY <2>4, <2>7 DEF HostInv
<1>10. CASE Breaks(j)
  BY <1>0, <1>10, SettleKeeps DEF Breaks, Ended, world, Verdicts
<1>11. CASE Quarantine(j)
  BY <1>4, <1>11 DEF Quarantine, Ended, world
<1>12. CASE Cancel(j)
  BY <1>12, ClearedKeeps DEF Cancel, Ended, world
<1> QED
  BY <1>5, <1>6, <1>7, <1>8, <1>9, <1>10, <1>11, <1>12 DEF Runs

\* The invariant survives the death of the owner of a run.
LEMMA DeadKeeps ==
  ASSUME HostInv, NEW by \in {"gateway", "cli"}, jobs' = Dead(by),
         UNCHANGED <<policy, receipt, changed, mode, tries, proved>>, suite' \in {0, suite}
  PROVE  HostInv'
<1>1. jobs \in Seq(HostJob) /\ DOMAIN jobs = 1..Len(jobs) /\ Len(jobs) \in Nat
      /\ \A i \in DOMAIN jobs : jobs[i] \in HostJob /\ jobs[i].commit \in DOMAIN changed
  BY DEF HostInv, HostTypes
<1>2. /\ DOMAIN jobs' = DOMAIN jobs
      /\ \A i \in DOMAIN jobs : jobs'[i] = jobs[i] \/
           jobs'[i] = [jobs[i] EXCEPT !.pc = IF Ended(i) THEN "done" ELSE "orphan"]
  BY DEF Dead
<1>3. ASSUME NEW i \in DOMAIN jobs
      PROVE  /\ jobs'[i] \in HostJob /\ jobs'[i].commit = jobs[i].commit /\ jobs'[i].by = jobs[i].by
             /\ jobs'[i].level = jobs[i].level /\ jobs'[i].files = jobs[i].files
             /\ jobs'[i].policy = jobs[i].policy /\ jobs'[i].result = jobs[i].result
             /\ Ended(i)' <=> Ended(i)
             /\ jobs'[i].pc = "persist" => jobs[i].pc = "persist"
  <2>1. CASE jobs'[i] = jobs[i]
    BY <1>1, <2>1 DEF Ended
  <2>2. CASE jobs'[i] = [jobs[i] EXCEPT !.pc = IF Ended(i) THEN "done" ELSE "orphan"]
    <3>1. PICK pc \in {"done", "orphan"} : pc = IF Ended(i) THEN "done" ELSE "orphan"
      OBVIOUS
    <3>2. jobs'[i] = [jobs[i] EXCEPT !.pc = pc] /\ jobs[i] \in HostJob
      BY <1>1, <2>2, <3>1
    <3>3. /\ jobs'[i] \in HostJob /\ jobs'[i].commit = jobs[i].commit /\ jobs'[i].by = jobs[i].by
          /\ jobs'[i].level = jobs[i].level /\ jobs'[i].files = jobs[i].files
          /\ jobs'[i].policy = jobs[i].policy /\ jobs'[i].result = jobs[i].result
          /\ jobs'[i].pc = pc
      BY <3>2 DEF HostJob
    <3> QED
      BY <3>1, <3>3 DEF Ended
  <2> QED
    BY <1>2, <2>1, <2>2
<1>4. jobs' \in Seq(HostJob) /\ Len(jobs') = Len(jobs)
  <2>1. jobs' = [i \in 1..Len(jobs) |-> jobs'[i]]
    BY <1>1 DEF Dead
  <2>2. \A i \in 1..Len(jobs) : jobs'[i] \in HostJob
    BY <1>1, <1>3
  <2> QED
    BY <1>1, <2>1, <2>2
<1>5. HostTypes'
  BY <1>1, <1>2, <1>3, <1>4 DEF HostInv, HostTypes
<1>6. \A d : PlanOf(d)' = PlanOf(d)
  BY DEF PlanOf
<1>7. RowsInv'
  BY <1>2, <1>3, <1>4, <1>6 DEF HostInv, RowsInv
<1>8. ReceiptInv'
  BY <1>2, <1>3, ReceiptKept DEF HostInv
<1>9. \A d : RunsOn(d)' = RunsOn(d) /\ \A i \in RunsOn(d) : i \in DOMAIN jobs
  BY <1>2, <1>3 DEF RunsOn
<1>10. TriesInv'
  BY <1>3, <1>9, TriesSame DEF HostInv, TriesInv
<1> QED
  BY <1>5, <1>7, <1>8, <1>10 DEF HostInv

\* The invariant survives a start of the Gateway, which ends the run whose group is gone.
LEMMA RestartKeeps ==
  ASSUME HostInv, Restart
  PROVE  HostInv'
<1>1. /\ jobs \in Seq(HostJob) /\ tries \in Seq(Seq(Verdicts)) /\ policy \in Nat
      /\ DOMAIN jobs = 1..Len(jobs) /\ jobs = [j \in DOMAIN jobs |-> jobs[j]]
      /\ DOMAIN tries = 1..Len(tries) /\ tries = [c \in DOMAIN tries |-> tries[c]]
  BY DEF HostInv, HostTypes
<1>2. UNCHANGED <<receipt, suite, proved, changed, mode>> /\ policy' \in Nat
  <2>1. policy' = policy \/ policy' = policy + 1
    BY DEF Restart
  <2>2. UNCHANGED <<receipt, suite, proved, changed, mode>>
    BY DEF Restart, world
  <2>3. policy' \in Nat
    BY <1>1, <2>1
  <2> QED
    BY <2>2, <2>3
<1>3. PICK killed \in SUBSET {j \in DOMAIN jobs : jobs[j].pc = "orphan"} :
         /\ jobs' = [j \in DOMAIN jobs |->
                       IF j \in killed
                         THEN [jobs[j] EXCEPT !.pc = "done", !.result = "infrastructure"]
                         ELSE jobs[j]]
         /\ tries' = [c \in DOMAIN tries |->
                        IF \E j \in killed : jobs[j].commit = c /\ jobs[j].by = "gateway"
                          THEN Append(tries[c], "infrastructure") ELSE tries[c]]
  BY DEF Restart
<1>4. CASE killed = {}
  <2>1. jobs' = jobs /\ tries' = tries
    BY <1>1, <1>3, <1>4
  <2>2. HostTypes' /\ RowsInv' /\ ReceiptInv'
    BY <1>2, <2>1 DEF HostInv, HostTypes, RowsInv, ReceiptInv, PlanOf, Ended
  <2>3. \A d : RunsOn(d)' = RunsOn(d)
    BY <2>1 DEF RunsOn
  <2>4. TriesInv'
    BY <2>1, <2>3, TriesSame DEF HostInv, TriesInv
  <2> QED
    BY <2>2, <2>4 DEF HostInv
<1>5. CASE killed # {}
  <2>1. PICK j \in killed : TRUE
    BY <1>5
  <2>2. j \in DOMAIN jobs /\ ~Ended(j)
    BY DEF Ended
  <2>3. killed = {j}
    BY <2>2, OpenRow DEF Ended
  <2> DEFINE it == [jobs[j] EXCEPT !.pc = "done", !.result = "infrastructure"]
  <2>4. jobs' = Marked(j, "done", "infrastructure")
    <3>1. jobs' = [i \in DOMAIN jobs |-> IF i = j THEN it ELSE jobs[i]]
      BY <1>3, <2>3
    <3>2. [jobs EXCEPT ![j] = it] = [i \in DOMAIN jobs |-> IF i = j THEN it ELSE jobs[i]]
      BY <1>1
    <3> QED
      BY <3>1, <3>2 DEF Marked
  <2>5. tries' = IF jobs[j].by = "gateway"
                THEN [tries EXCEPT ![jobs[j].commit] = Append(@, "infrastructure")] ELSE tries
    <3>1. CASE jobs[j].by = "gateway"
      <4>1. tries' = [c \in DOMAIN tries |->
                        IF c = jobs[j].commit THEN Append(tries[c], "infrastructure") ELSE tries[c]]
        BY <1>3, <2>3, <3>1
      <4> QED
        BY <1>1, <3>1, <4>1
    <3>2. CASE jobs[j].by # "gateway"
      BY <1>1, <1>3, <2>3, <3>2
    <3> QED
      BY <3>1, <3>2
  <2>6. Settle(j, "infrastructure")
    BY <2>4, <2>5 DEF Settle
  <2> QED
    BY <1>2, <2>2, <2>6, SettleKeeps DEF Verdicts
<1> QED
  BY <1>4, <1>5

\* Every commit has its history.
LEMMA TriesAt ==
  ASSUME HostTypes, NEW c \in DOMAIN changed
  PROVE  c \in DOMAIN tries /\ tries[c] \in Seq(Verdicts)
BY DEF HostTypes

\* A new run leaves every receipt, every other commit and every older row as they were.
LEMMA LaunchedKeeps ==
  ASSUME HostInv, NEW by \in {"gateway", "cli"}, NEW c \in DOMAIN changed, Launch(by, c),
         PlanOf(c).level # "none", ~PlanOf(c).manualOnly,
         UNCHANGED <<policy, receipt, suite, changed, mode, proved>>,
         tries' \in Seq(Seq(Verdicts)), DOMAIN tries' = DOMAIN tries, Len(tries') = Len(tries),
         \A d \in DOMAIN tries : d # c => tries'[d] = tries[d],
         by = "cli" => tries'[c] = <<>>,
         by = "gateway" => tries' = tries /\ (tries[c] = <<>> \/ tries[c] = <<"infrastructure">>)
  PROVE  HostInv'
<1>1. /\ jobs' \in Seq(HostJob) /\ \A i \in DOMAIN jobs' : jobs'[i].commit \in DOMAIN changed'
      /\ ~Busy /\ Len(jobs') = Len(jobs) + 1 /\ Len(jobs) + 1 \in DOMAIN jobs'
      /\ jobs'[Len(jobs) + 1].commit = c /\ jobs'[Len(jobs) + 1].by = by
      /\ jobs'[Len(jobs) + 1].result = "none"
      /\ \A i \in DOMAIN jobs : i \in DOMAIN jobs' /\ jobs'[i] = jobs[i] /\ i < Len(jobs) + 1
      /\ \A d : d # c => RunsOn(d)' = RunsOn(d)
      /\ RunsOn(c)' = RunsOn(c) \cup {Len(jobs) + 1}
      /\ RowsInv'
  BY Launched
<1>2. HostTypes'
  BY <1>1 DEF HostInv, HostTypes
<1>3. ReceiptInv'
  BY <1>1, ReceiptKept DEF HostInv
<1>4. ASSUME NEW d \in DOMAIN tries, d # c PROVE TriesOk(d)'
  <2>1. \A i \in RunsOn(d) : i \in DOMAIN jobs
    BY DEF RunsOn
  <2>2. RunsOn(d)' = RunsOn(d) /\ tries'[d] = tries[d] /\ TriesOk(d)
    BY <1>1, <1>4 DEF HostInv, TriesInv
  <2>3. \A i \in RunsOn(d) : jobs'[i].result = jobs[i].result /\ jobs'[i].by = jobs[i].by
    BY <1>1, <2>1
  <2> QED
    BY <2>2, <2>3, TriesSame
<1>5. TriesOk(c)'
  <2>1. CASE tries'[c] = <<>>
    BY <2>1, TriesCleared
  <2>2. CASE by = "gateway" /\ tries[c] = <<"infrastructure">>
    <3>1. PICK t \in Seq(Verdicts) : t = tries[c] /\ t = tries'[c]
      <4>1. c \in DOMAIN tries /\ tries[c] \in Seq(Verdicts)
        BY TriesAt DEF HostInv
      <4> QED
        BY <2>2, <4>1
    <3>2. t = <<"infrastructure">> /\ Len(t) = 1 /\ t[Len(t)] = "infrastructure" /\ t # <<>>
      BY <2>2, <3>1
    <3>3. PICK j \in RunsOn(c) : jobs[j].result = "infrastructure"
                       /\ \A k \in RunsOn(c) : k > j => jobs[k].result = "none"
      <4>1. TriesOk(c)
        BY DEF HostInv, TriesInv, HostTypes
      <4>2. \E j \in RunsOn(c) : jobs[j].result = t[Len(t)]
                       /\ \A k \in RunsOn(c) : k > j => jobs[k].result = "none"
        BY <3>1, <3>2, <4>1 DEF TriesOk
      <4> QED
        BY <3>2, <4>2
    <3>4. \A k \in RunsOn(c) : k \in DOMAIN jobs /\ jobs[k].result # "none"
      BY <1>1 DEF Busy, RunsOn, HostInv, RowsInv
    <3>5. \A k \in RunsOn(c)' : k > j => k = Len(jobs) + 1
      BY <1>1, <3>3, <3>4
    <3>6. /\ j \in RunsOn(c)' /\ jobs'[j].result = t[Len(t)]
          /\ \A k \in RunsOn(c)' : k > j =>
                jobs'[k].result = "none" /\ jobs'[k].by = "gateway" /\ t = <<"infrastructure">>
      BY <1>1, <2>2, <3>2, <3>3, <3>4, <3>5
    <3>7. Len(t) <= 2 /\ ~(Len(t) = 2)
      BY <3>2
    <3> QED
      BY <3>1, <3>6, <3>7 DEF TriesOk
  <2> QED
    BY <2>1, <2>2
<1>6. TriesInv'
  BY <1>4, <1>5 DEF TriesInv
<1> QED
  BY <1>1, <1>2, <1>3, <1>6 DEF HostInv

\* The invariant survives a call of grande_pr_merge.
LEMMA MergeCallKeeps ==
  ASSUME HostInv, MergeCall
  PROVE  HostInv'
<1>1. /\ UNCHANGED <<policy, receipt, suite, changed, mode, proved, tries>>
      /\ tries \in Seq(Seq(Verdicts)) /\ DOMAIN tries = DOMAIN changed /\ TaskTip \in DOMAIN changed
  BY DEF MergeCall, world, HostInv, HostTypes, TaskTip
<1>2. CASE UNCHANGED jobs
  <2>1. HostTypes' /\ RowsInv' /\ ReceiptInv'
    BY <1>1, <1>2 DEF HostInv, HostTypes, RowsInv, ReceiptInv, PlanOf, Ended
  <2>2. \A d : RunsOn(d)' = RunsOn(d)
    BY <1>2 DEF RunsOn
  <2>3. TriesInv'
    BY <1>1, <1>2, <2>2, TriesSame DEF HostInv, TriesInv
  <2> QED
    BY <2>1, <2>3 DEF HostInv
<1>3. CASE GateAnswer(TaskTip) = "start" /\ Launch("gateway", TaskTip)
  <2>1. ~Busy
    BY <1>3 DEF Launch, Admitted
  <2>2. PICK c \in DOMAIN changed : c = TaskTip
    BY <1>1
  <2>3. /\ PlanOf(c).level # "none" /\ ~PlanOf(c).manualOnly /\ Launch("gateway", c)
        /\ tries[c] = <<>> \/ tries[c] = <<"infrastructure">>
    BY <1>3, <2>1, <2>2, StartFacts
  <2> QED
    BY <1>1, <2>3, LaunchedKeeps
<1> QED
  BY <1>2, <1>3 DEF MergeCall

\* The invariant survives the start of a run by the operator.
LEMMA HumanRunKeeps ==
  ASSUME HostInv, HumanRun
  PROVE  HostInv'
<1>1. /\ UNCHANGED <<policy, receipt, changed, mode, proved>>
      /\ tries \in Seq(Seq(Verdicts)) /\ DOMAIN tries = DOMAIN changed /\ Len(tries) = Len(changed)
      /\ TaskTip \in DOMAIN changed /\ TaskTip = Len(changed) /\ PlanOf(TaskTip).level # "none"
  BY DEF HumanRun, world, HostInv, HostTypes, TaskTip
<1>2. PICK c \in DOMAIN changed : c = TaskTip
  BY <1>1
<1>3. tries' = [tries EXCEPT ![c] = <<>>]
  BY <1>2 DEF HumanRun
<1>4. /\ tries' \in Seq(Seq(Verdicts)) /\ Len(tries') = Len(tries) /\ DOMAIN tries' = DOMAIN tries
      /\ tries'[c] = <<>> /\ \A d \in DOMAIN tries : d # c => tries'[d] = tries[d]
  BY <1>1, <1>3, ClearedAt
<1>5. CASE PlanOf(TaskTip).manualOnly /\ suite' = TaskTip /\ UNCHANGED jobs
  <2>1. HostTypes' /\ RowsInv' /\ ReceiptInv'
    BY <1>1, <1>4, <1>5 DEF HostInv, HostTypes, RowsInv, ReceiptInv, PlanOf, Ended
  <2>2. \A d : RunsOn(d)' = RunsOn(d)
    BY <1>5 DEF RunsOn
  <2>3. TriesInv'
    BY <1>4, <1>5, <2>2, TriesSame, TriesCleared DEF HostInv, TriesInv
  <2> QED
    BY <2>1, <2>3 DEF HostInv
<1>6. CASE ~PlanOf(TaskTip).manualOnly /\ Launch("cli", TaskTip) /\ UNCHANGED suite
  <2>1. Launch("cli", c) /\ ~PlanOf(c).manualOnly /\ PlanOf(c).level # "none"
    BY <1>1, <1>2, <1>6
  <2> QED
    BY <1>1, <1>4, <1>6, <2>1, LaunchedKeeps
<1> QED
  BY <1>5, <1>6 DEF HumanRun

\* The invariant survives the end of the operator's suite.
LEMMA SuiteEndsKeeps ==
  ASSUME HostInv, SuiteEnds
  PROVE  HostInv'
<1>1. /\ UNCHANGED <<policy, jobs, changed, mode, tries>> /\ suite' = 0
      /\ proved \subseteq proved'
  BY DEF SuiteEnds, world
<1>2. HostTypes' /\ RowsInv'
  BY <1>1 DEF HostInv, HostTypes, RowsInv, PlanOf, Ended
<1>3. ReceiptInv'
  <2>1. CASE receipt' = receipt
    BY <1>1, <2>1, ReceiptKept DEF HostInv
  <2>2. CASE receipt' # receipt
    <3> DEFINE files == HostFiles("full", {"auto", "manualOnly"})
               run == [commit |-> suite, files |-> files, policy |-> policy, apart |-> ~disturbed]
    <3>1. /\ receipt' = [version |-> 1, commit |-> TaskTip, files |-> files]
          /\ TaskTip = suite /\ proved' = proved \cup {run}
      BY <2>2 DEF SuiteEnds, Signs
    <3>2. run.commit = suite /\ run.files = files /\ run \in proved'
      BY <3>1
    <3> HIDE DEF files, run
    <3>3. receipt'.version = 1 /\ receipt'.commit = suite /\ receipt'.files = files
      BY <3>1
    <3>4. suite # 0 /\ changed' = changed /\ suite' = 0 /\ ReceiptInv
      BY <1>1 DEF SuiteEnds, HostInv
    <3>5. receipt'.commit \in DOMAIN changed' /\ PlanOf(suite).manualOnly
      BY <3>3, <3>4 DEF ReceiptInv
    <3>6. PlanOf(suite).manualOnly => PlanOf(receipt.commit)'.manualOnly
      BY <3>3, <3>4 DEF PlanOf
    <3> QED
      BY <3>2, <3>3, <3>4, <3>5, <3>6 DEF ReceiptInv
  <2> QED
    BY <2>1, <2>2
<1>4. \A d : RunsOn(d)' = RunsOn(d)
  BY <1>1 DEF RunsOn
<1>5. TriesInv'
  BY <1>1, <1>4, TriesSame DEF HostInv, TriesInv
<1> QED
  BY <1>2, <1>3, <1>5 DEF HostInv

\* The invariant survives a commit.
LEMMA CommitKeeps ==
  ASSUME HostInv, Commit
  PROVE  HostInv'
<1>1. UNCHANGED <<policy, jobs, receipt, suite, proved, mode>>
  BY DEF Commit
<1>2. PICK k \in SUBSET ChangeKinds : changed' = Append(changed, k)
  BY VerificationAssumption DEF Commit, VerificationAssumption
<1>3. /\ changed \in Seq(SUBSET ChangeKinds) /\ tries \in Seq(Seq(Verdicts)) /\ Len(tries) = Len(changed)
      /\ tries' = Append(tries, <<>>)
  BY DEF HostInv, HostTypes, Commit
<1>4. /\ changed' \in Seq(SUBSET ChangeKinds) /\ Len(changed') = Len(changed) + 1
      /\ DOMAIN changed \subseteq DOMAIN changed'
  BY <1>2, <1>3
<1>5. /\ tries' \in Seq(Seq(Verdicts)) /\ Len(tries') = Len(tries) + 1
      /\ \A d \in DOMAIN tries' : tries'[d] = <<>> \/ (d \in DOMAIN tries /\ tries'[d] = tries[d])
  BY <1>3, NoVerdict
<1>6. HostTypes'
  BY <1>1, <1>3, <1>4, <1>5 DEF HostInv, HostTypes
<1>7. \A c \in DOMAIN changed : PlanOf(c)' = PlanOf(c)
  BY <1>2, PlanKept DEF HostInv
<1>8. RowsInv'
  BY <1>1, <1>7 DEF HostInv, HostTypes, RowsInv, Ended
<1>9. ReceiptInv'
  BY <1>1, <1>2, ReceiptKept DEF HostInv
<1>10. \A d : RunsOn(d)' = RunsOn(d)
  BY <1>1 DEF RunsOn
<1>11. TriesInv'
  BY <1>1, <1>5, <1>10, TriesSame, TriesCleared DEF HostInv, TriesInv
<1> QED
  BY <1>6, <1>8, <1>9, <1>11 DEF HostInv

\* Every step keeps the invariant.
LEMMA HostStep == HostInv /\ [Next]_vars => HostInv'
<1> SUFFICES ASSUME HostInv, [Next]_vars PROVE HostInv'
  OBVIOUS
<1>1. CASE UNCHANGED <<policy, jobs, receipt, suite, proved, tries, mode, changed>>
  <2>1. HostTypes' /\ RowsInv' /\ ReceiptInv'
    BY <1>1 DEF HostInv, HostTypes, RowsInv, ReceiptInv, PlanOf, Ended
  <2>2. \A d : RunsOn(d)' = RunsOn(d)
    BY <1>1 DEF RunsOn
  <2>3. TriesInv'
    BY <1>1, <2>2, TriesSame DEF HostInv, TriesInv
  <2> QED
    BY <2>1, <2>3 DEF HostInv
<1>2. CASE Edit \/ Push \/ UNCHANGED vars
  BY <1>1, <1>2 DEF Edit, Push, vars, world
<1>3. CASE Crash
  <2>1. 0 \in {0, suite} /\ suite \in {0, suite}
    OBVIOUS
  <2> QED
    BY <1>3, <2>1, DeadKeeps DEF Crash, world
<1> QED
  BY <1>2, <1>3, MergeCallKeeps, HumanRunKeeps, SuiteEndsKeeps, CommitKeeps, RestartKeeps, RunKeeps DEF Next

\* The inductive invariant.
THEOREM HostInvariant == Spec => []HostInv
<1> QED
  BY HostInit, HostStep, PTL DEF Spec

\* A set of naturals that is not empty has a least member.
LEMMA Least ==
  ASSUME NEW T \in SUBSET Nat, T # {}
  PROVE  \E x \in T : \A y \in T : x <= y
<1> DEFINE Below(y) == {x \in T : x < y}
           Belows == {Below(y) : y \in T}
           R == StrictSubsetOrdering(T)
<1>0. \A y \in T : y \in Nat
  OBVIOUS
<1>1. ASSUME NEW y \in T PROVE Below(y) \in FiniteSubsetsOf(T)
  <2>1. \A x \in Below(y) : x \in Nat /\ x <= y
    BY <1>0
  <2>2. IsFiniteSet(Below(y))
    <3> HIDE DEF Below
    <3>1. y \in Nat /\ Below(y) \in SUBSET Nat
      BY <1>0, <2>1
    <3> QED
      BY <2>1, <3>1, FS_BoundedSetOfNaturals
  <2>3. Below(y) \subseteq T
    OBVIOUS
  <2> HIDE DEF Below
  <2> QED
    BY <2>2, <2>3 DEF FiniteSubsetsOf
<1>2. IsWellFoundedOn(R, FiniteSubsetsOf(T))
  BY FS_StrictSubsetOrderingWellFounded
<1>3. Belows \subseteq FiniteSubsetsOf(T) /\ Belows # {}
  BY <1>1
<1>4. PICK B \in Belows : \A C \in Belows : <<C, B>> \notin R
  <2> HIDE DEF Belows, R
  <2> QED
    BY <1>2, <1>3, WFMin
<1>5. PICK x \in T : B = Below(x)
  OBVIOUS
<1>6. ASSUME NEW y \in T, y < x PROVE FALSE
  <2>1. \A z \in Below(y) : z \in Below(x)
    BY <1>0, <1>6
  <2>2. y \in Below(x) /\ y \notin Below(y)
    BY <1>0, <1>6
  <2>3. Below(y) \subseteq Below(x) /\ Below(y) # Below(x) /\ Below(y) \in SUBSET T
        /\ Below(x) \in SUBSET T
    BY <2>1, <2>2
  <2>4. <<Below(y), B>> \in R
    <3> HIDE DEF Below
    <3> QED
      BY <1>5, <2>3 DEF StrictSubsetOrdering
  <2>5. Below(y) \in Belows
    OBVIOUS
  <2> QED
    BY <1>4, <2>4, <2>5
<1>7. \A y \in T : x <= y
  BY <1>0, <1>6
<1> QED
  BY <1>7

\* Some rows that are not none have a newest one.
LEMMA NewestOf ==
  ASSUME HostTypes, NEW S \in SUBSET (DOMAIN jobs), S # {}
  PROVE  Newest(S) \in S /\ \A k \in S : k <= Newest(S)
<1> DEFINE n == Len(jobs)
           T == {n - k : k \in S}
<1>1. n \in Nat /\ \A k \in S : k \in 1..n
  BY DEF HostTypes
<1>2. T \in SUBSET Nat /\ T # {}
  BY <1>1
<1>3. PICK x \in T : \A y \in T : x <= y
  <2> HIDE DEF T
  <2> QED
    BY <1>2, Least
<1>4. PICK j \in S : x = n - j
  OBVIOUS
<1>5. \A k \in S : k <= j
  <2> SUFFICES ASSUME NEW k \in S PROVE k <= j
    OBVIOUS
  <2>1. n - j <= n - k
    BY <1>3, <1>4
  <2> QED
    BY <1>1, <2>1
<1>6. S \in SUBSET Int
  BY <1>1
<1> QED
  BY <1>5, <1>6, NewestIs

\* The tip is a commit.
LEMMA TipIs ==
  ASSUME HostTypes
  PROVE  /\ TaskTip \in DOMAIN changed
         /\ \A c \in DOMAIN changed :
              /\ PlanOf(c).level \in {"none", "smoke", "full"} /\ PlanOf(c).manualOnly \in BOOLEAN
              /\ PlanOf(c).level = "none" => PlanOf(c).required = {} /\ ~PlanOf(c).manualOnly
              /\ ~PlanOf(c).manualOnly => PlanOf(c).required = HostFiles(PlanOf(c).level, {"auto"})
<1>1. changed \in Seq(SUBSET ChangeKinds) /\ Len(changed) \in Nat /\ Len(changed) >= 1
      /\ DOMAIN changed = 1..Len(changed)
  BY DEF HostTypes
<1>2. TaskTip \in DOMAIN changed
  BY <1>1 DEF TaskTip
<1>3. \A c \in DOMAIN changed : changed[c] \in SUBSET ChangeKinds
  BY <1>1
<1> QED
  BY <1>2, <1>3, PlanFacts DEF PlanOf

\* A receipt of the verifier on a commit: what ran was the restricted suite, on that
\* commit, with every file the commit needs.
LEMMA ReceiptIsARun ==
  ASSUME HostInv, NEW c \in DOMAIN changed, IsV2For(c)
  PROVE  /\ ~PlanOf(c).manualOnly /\ PlanOf(c).level # "none" /\ receipt.job \in DOMAIN jobs
         /\ Covered(c, 0) /\ Covered(c, jobs[receipt.job].policy)
<1> DEFINE j == receipt.job
<1>1. j \in DOMAIN jobs /\ jobs[j].result = "passed" /\ jobs[j].commit = c
  BY DEF HostInv, ReceiptInv, IsV2For
<1>5. jobs[j].level # "none"
  <2>1. jobs \in Seq(HostJob)
    BY DEF HostInv, HostTypes
  <2>2. jobs[j] \in HostJob
    BY <1>1, <2>1
  <2> QED
    BY <2>2 DEF HostJob
<1>2. /\ PlanOf(c).level = jobs[j].level /\ ~PlanOf(c).manualOnly /\ jobs[j].level # "none"
      /\ jobs[j].files = HostFiles(jobs[j].level, {"auto"})
  BY <1>1, <1>5 DEF HostInv, RowsInv
<1>3. PICK p \in proved : /\ p.apart /\ p.commit = c
                          /\ p.files = jobs[j].files /\ p.policy = jobs[j].policy
  BY <1>1 DEF HostInv, RowsInv
<1>4. PlanOf(c).required = jobs[j].files
  BY <1>2, TipIs DEF HostInv
<1> QED
  BY <1>1, <1>2, <1>3, <1>4 DEF Covered

\* The gate finds a head eligible when something passed on it, or it needs nothing.
LEMMA EligibleIsProved ==
  ASSUME HostInv, NEW c \in DOMAIN changed, Eligible(c)
  PROVE  PlanOf(c).level = "none" \/ Covered(c, 0) \/ RanDisturbed(c)
<1>1. CASE Current(c)
  BY <1>1 DEF Current, Covered, RanDisturbed, HostInv, ReceiptInv
<1>2. CASE IsV2For(c)
  BY <1>2, ReceiptIsARun
<1> QED
  BY <1>1, <1>2 DEF Eligible

\* What automatic delivery takes for evidence is a run of the restricted verifier.
LEMMA EvidenceHolds ==
  ASSUME HostInv
  PROVE  EvidenceIsARun
<1> SUFFICES ASSUME CountsFor(TaskTip)
             PROVE  Covered(TaskTip, policy) /\ ~PlanOf(TaskTip).manualOnly
  BY DEF EvidenceIsARun
<1>1. TaskTip \in DOMAIN changed /\ IsV2For(TaskTip) /\ Eligible(TaskTip)
  BY TipIs DEF CountsFor, HostInv
<1>2. MatchesTrustedJob(TaskTip)
  BY <1>1, ReceiptIsARun DEF Eligible, Current, IsV2For
<1>3. jobs[receipt.job].policy = policy
  BY <1>2 DEF MatchesTrustedJob
<1> QED
  BY <1>1, <1>3, ReceiptIsARun

\* The types, and one run at a time.
LEMMA HostTypeOK ==
  ASSUME HostInv
  PROVE  TypeOK
<1>1. jobs \in Seq(HostJob) /\ Len(jobs) \in Nat /\ Len(tries) = Len(changed)
      /\ \A j \in DOMAIN jobs : jobs[j] \in HostJob /\ jobs[j].commit \in DOMAIN changed
  BY DEF HostInv, HostTypes
<1>2. Cardinality({j \in DOMAIN jobs : ~Ended(j)}) <= 1
  <2>1. {j \in DOMAIN jobs : ~Ended(j)} \subseteq {Len(jobs)}
    BY OpenRow
  <2>2. {j \in DOMAIN jobs : ~Ended(j)} = {} \/ {j \in DOMAIN jobs : ~Ended(j)} = {Len(jobs)}
    BY <2>1
  <2>3. Cardinality({}) = 0 /\ Cardinality({Len(jobs)}) = 1
    BY FS_EmptySet, FS_Singleton
  <2> QED
    BY <2>2, <2>3
<1>3. \A j \in DOMAIN jobs :
        /\ jobs[j].pc \in {"prepare", "execute", "heads", "pr", "persist", "done", "orphan"}
        /\ (jobs[j].result = "none") <=> ~Ended(j)
  BY <1>1 DEF HostJob, HostInv, RowsInv
<1> QED
  BY <1>1, <1>2, <1>3 DEF TypeOK, HostInv, ReceiptInv

\* What can be said of a commit, and that a commit only a person may verify has no run.
LEMMA Attempts ==
  ASSUME HostInv, NEW c
  PROVE  /\ Attempt(c) \in {"none", "running", "candidate", "integrity", "infrastructure"}
         /\ PlanOf(c).manualOnly => Attempt(c) = "none"
<1>1. Attempt(c) \in {"none", "running", "candidate", "integrity", "infrastructure"}
  BY DEF Attempt, FailureClass
<1>2. PlanOf(c).manualOnly => RunsOn(c) = {}
  BY DEF RunsOn, HostInv, RowsInv
<1> QED
  BY <1>1, <1>2 DEF Attempt

\* The progress and the gate judge a commit alike.
LEMMA ProgressMeetsAnswer ==
  ASSUME HostInv, NEW c, mode = "auto", ~IsV2For(c)
  PROVE  \/ HostAnswer(c) = "merge" /\ Progress(c) \in {"not-required", "passed"}
         \/ HostAnswer(c) = "start" /\ Progress(c) \in {"required", "retryable-failure"}
         \/ HostAnswer(c) = "running" /\ Progress(c) = "running"
         \/ HostAnswer(c) = "failed" /\ Progress(c) = "failed"
         \/ /\ HostAnswer(c) = "human"
            /\ Progress(c) \in {"integrity-failure", "retry-exhausted", "manual-required"}
<1>0. IntegrityFailure(c) <=> Attempt(c) = "integrity"
  BY DEF IntegrityFailure
<1>1. CASE Eligible(c)
  BY <1>1 DEF HostAnswer, Progress
<1>2. CASE ~Eligible(c) /\ PlanOf(c).manualOnly
  <2>1. HostAnswer(c) = "human" /\ Attempt(c) = "none" /\ PlanOf(c).level # "none"
    BY <1>2, Attempts DEF HostAnswer, Eligible
  <2>2. Progress(c) = "manual-required"
    BY <1>0, <1>2, <2>1 DEF Progress
  <2> QED
    BY <2>1, <2>2
<1>3. CASE ~Eligible(c) /\ ~PlanOf(c).manualOnly
  <2>1. PlanOf(c).level # "none"
    BY <1>3 DEF Eligible
  <2>2. CASE Attempt(c) = "running"
    BY <1>0, <1>3, <2>1, <2>2 DEF HostAnswer, Progress
  <2>3. CASE Attempt(c) = "candidate"
    BY <1>0, <1>3, <2>1, <2>3 DEF HostAnswer, Progress
  <2>4. CASE Attempt(c) = "integrity"
    BY <1>0, <1>3, <2>1, <2>4 DEF HostAnswer, Progress
  <2>5. CASE Attempt(c) = "infrastructure" /\ InfraFailures(c) >= 2
    BY <1>0, <1>3, <2>1, <2>5 DEF HostAnswer, Progress
  <2>6. CASE Attempt(c) = "infrastructure" /\ ~(InfraFailures(c) >= 2)
    BY <1>0, <1>3, <2>1, <2>6 DEF HostAnswer, Progress
  <2>7. CASE Attempt(c) = "none"
    BY <1>0, <1>3, <2>1, <2>7 DEF HostAnswer, Progress
  <2> QED
    BY <2>2, <2>3, <2>4, <2>5, <2>6, <2>7, Attempts
<1> QED
  BY <1>1, <1>2, <1>3

\* The agent is not sent to a gate that refuses, nor kept from one that would act.
LEMMA AdviceHolds ==
  ASSUME HostInv
  PROVE  AdviceMeetsTheGate
<1> DEFINE c == TaskTip
<1> SUFFICES ASSUME mode = "auto", prHead = c, ~IsV2For(c)
             PROVE  LET advice == Advice(c)
                        answer == GateAnswer(c)
                    IN /\ advice = "pr_merge" => answer \in {"merge", "start"}
                       /\ advice = "wait" => answer = "running"
                       /\ answer \in {"merge", "start"} =>
                            advice = IF dirty THEN "commit" ELSE "pr_merge"
                       /\ answer = "running" => advice = IF dirty THEN "commit" ELSE "wait"
                       /\ answer = "attest" => advice \in {"commit", "fix", "person"}
                       /\ answer = "failed" => advice = "fix"
                       /\ answer = "human" => advice = "person"
  BY DEF AdviceMeetsTheGate
<1>1. GateAnswer(c) = IF c \in attested THEN HostAnswer(c) ELSE "attest"
  BY DEF GateAnswer
<1>2. TestsDone(c) <=> ~dirty /\ c \in attested
  BY DEF TestsDone
<1>3. HostAnswer(c) \in {"merge", "start", "running", "failed", "human"}
  BY ProgressMeetsAnswer
<1>4. CASE HostAnswer(c) = "failed" \/ HostAnswer(c) = "human"
  <2>1. \/ HostAnswer(c) = "failed" /\ Advice(c) = "fix"
        \/ HostAnswer(c) = "human" /\ Advice(c) = "person"
    BY <1>4, ProgressMeetsAnswer DEF Advice, HostBlocker
  <2> QED
    BY <1>1, <2>1
<1>5. CASE HostAnswer(c) \in {"merge", "start", "running"}
  <2>1. HostBlocker(c) = "none" /\ (Progress(c) = "running" <=> HostAnswer(c) = "running")
    BY <1>5, ProgressMeetsAnswer DEF HostBlocker
  <2>2. Advice(c) = IF ~TestsDone(c) THEN "commit"
                    ELSE IF HostAnswer(c) = "running" THEN "wait" ELSE "pr_merge"
    BY <2>1 DEF Advice
  <2> QED
    BY <1>1, <1>2, <1>5, <2>2
<1> QED
  BY <1>3, <1>4, <1>5

\* The Console's status is the gate's answer.
LEMMA StatusHolds ==
  ASSUME HostInv
  PROVE  StatusIsTheGates
<1> DEFINE c == TaskTip
           n == Len(jobs)
<1> SUFFICES ASSUME jobs # <<>>, jobs[n].commit = c, mode = "auto", ~PlanOf(c).manualOnly,
                    prHead = c, c \in attested, ~Eligible(c), ~IsV2For(c)
             PROVE  /\ (TaskStatus = "blocked") <=> (GateAnswer(c) \in {"failed", "human"})
                    /\ (TaskStatus = "running") <=> (GateAnswer(c) = "running")
  BY DEF StatusIsTheGates
<1>g. GateAnswer(c) = HostAnswer(c)
  BY DEF GateAnswer
<1>0. IntegrityFailure(c) <=> Attempt(c) = "integrity"
  BY DEF IntegrityFailure
<1>1. HostTypes /\ jobs \in Seq(HostJob) /\ n \in Nat /\ n # 0 /\ DOMAIN jobs = 1..n
  BY DEF HostInv, HostTypes
<1>2. n \in DOMAIN jobs /\ n \in RunsOn(c) /\ RunsOn(c) \subseteq 1..n
  BY <1>1 DEF RunsOn
<1>3. Newest(RunsOn(c)) = n
  BY <1>1, <1>2, NewestIs
<1>4. Attempt(c) = IF ~Ended(n) THEN "running" ELSE FailureClass(n)
  BY <1>2, <1>3 DEF Attempt
<1>5. Busy <=> ~Ended(n)
  BY <1>2, OpenRow DEF Busy
<1>6. FailureClass(n) \in {"none", "candidate", "integrity", "infrastructure"}
  BY DEF FailureClass
<1>7. CASE Busy
  <2>1. TaskStatus = "running" /\ Attempt(c) = "running"
    BY <1>4, <1>5, <1>7 DEF TaskStatus
  <2>2. GateAnswer(c) = "running"
    BY <1>g, <2>1 DEF HostAnswer
  <2> QED
    BY <2>1, <2>2
<1> DEFINE before == RunsOn(c) \ {n}
           second == before # {} /\ FailureClass(Newest(before)) = "infrastructure"
<1>8. ASSUME FailureClass(n) = "infrastructure" PROVE second <=> InfraFailures(c) >= 2
  <2>1. ASSUME second PROVE InfraFailures(c) >= 2
    <3>1. PICK m \in before : m = Newest(before) /\ \A k \in before : k <= m
      <4>1. before \in SUBSET (DOMAIN jobs)
        BY <1>1, <1>2
      <4> HIDE DEF before
      <4> QED
        BY <1>1, <2>1, <4>1, NewestOf
    <3>4. m \in 1..n /\ n \in 1..n /\ m # n /\ m \in RunsOn(c)
      BY <1>1, <1>2, <3>1
    <3>2. ASSUME NEW k \in RunsOn(c), k >= m PROVE k = m \/ k = n
      <4>1. k \in 1..n /\ (k # n => k <= m)
        BY <1>2, <3>1, <3>2
      <4>0. n \in Nat
        BY <1>1
      <4> HIDE DEF n, before
      <4>4. k \in Int /\ m \in Int
        BY <3>4, <4>0, <4>1
      <4>2. n \in Int
        BY <4>0
      <4>3. \A a, b, d \in Int : (a # d => a <= b) /\ a >= b => a = b \/ a = d
        OBVIOUS
      <4> QED
        BY <3>2, <4>1, <4>2, <4>3, <4>4
    <3>5. FailureClass(m) = "infrastructure"
      BY <2>1, <3>1
    <3>6. m \in InfraTail(c)
      BY <1>8, <3>2, <3>4, <3>5 DEF InfraTail
    <3>7. \A k \in RunsOn(c) : k >= n => k = n
      BY <1>1, <1>2
    <3>8. n \in InfraTail(c)
      BY <1>2, <1>8, <3>7 DEF InfraTail
    <3>3. m \in InfraTail(c) /\ n \in InfraTail(c) /\ m # n
      BY <3>4, <3>6, <3>8
    <3> QED
      BY <1>1, <3>3, TwoFailures
  <2>2. ASSUME InfraFailures(c) >= 2 PROVE second
    <3>1. PICK i \in InfraTail(c), l \in InfraTail(c) : i # l
      BY <1>1, <2>2, TwoFailures
    <3>2. PICK m \in InfraTail(c) : m # n
      BY <3>1
    <3>3. m \in before /\ \A k \in RunsOn(c) : k >= m => FailureClass(k) = "infrastructure"
      BY <3>2 DEF InfraTail
    <3>4. Newest(before) \in before /\ m <= Newest(before)
      <4>1. before \in SUBSET (DOMAIN jobs)
        BY <1>1, <1>2
      <4> HIDE DEF before
      <4> QED
        BY <1>1, <3>3, <4>1, NewestOf
    <3>5. Newest(before) >= m
      BY <1>1, <1>2, <3>3, <3>4
    <3> QED
      BY <3>3, <3>4, <3>5
  <2> QED
    BY <2>1, <2>2
<1>9. CASE ~Busy
  <2>0. Attempt(c) = FailureClass(n)
    BY <1>4, <1>5, <1>9
  <2> HIDE DEF before
  <2>1. TaskStatus = IF FailureClass(n) \in {"candidate", "integrity"}
                    \/ (FailureClass(n) = "infrastructure" /\ second)
                 THEN "blocked" ELSE "idle"
    BY <1>9 DEF TaskStatus, before
  <2> HIDE DEF second
  <2>2. CASE FailureClass(n) = "candidate"
    <3>1. TaskStatus = "blocked"
      BY <2>1, <2>2
    <3>2. GateAnswer(c) = "failed"
      BY <1>g, <2>0, <2>2 DEF HostAnswer
    <3> QED
      BY <3>1, <3>2
  <2>3. CASE FailureClass(n) = "integrity"
    <3>1. TaskStatus = "blocked"
      BY <2>1, <2>3
    <3>2. GateAnswer(c) = "human"
      BY <1>g, <1>0, <2>0, <2>3 DEF HostAnswer
    <3> QED
      BY <3>1, <3>2
  <2>4. CASE FailureClass(n) = "none"
    <3>1. TaskStatus = "idle"
      BY <2>1, <2>4
    <3>2. GateAnswer(c) = "start"
      BY <1>g, <1>0, <2>0, <2>4 DEF HostAnswer
    <3> QED
      BY <3>1, <3>2
  <2>5. CASE FailureClass(n) = "infrastructure" /\ second
    <3>1. TaskStatus = "blocked"
      BY <2>1, <2>5
    <3>2. GateAnswer(c) = "human"
      BY <1>g, <1>0, <1>8, <2>0, <2>5 DEF HostAnswer
    <3> QED
      BY <3>1, <3>2
  <2>6. CASE FailureClass(n) = "infrastructure" /\ ~second
    <3>1. TaskStatus = "idle"
      BY <2>1, <2>6
    <3>2. GateAnswer(c) = "start"
      BY <1>g, <1>0, <1>8, <2>0, <2>6 DEF HostAnswer
    <3> QED
      BY <3>1, <3>2
  <2> QED
    BY <1>6, <2>2, <2>3, <2>4, <2>5, <2>6
<1> QED
  BY <1>7, <1>9

\* A receipt is as good as the run behind it, and the Console, the agent and the gate are
\* told the same of a head.
THEOREM GateIsTrue == Spec => []GateInv
<1>1. HostInv => GateInv
  BY HostTypeOK, EvidenceHolds, StatusHolds, AdviceHolds DEF GateInv
<1> QED
  BY <1>1, HostInvariant, PTL

\* A step that merges, merges what was attested and passed.
LEMMA MergeStep ==
  ASSUME HostInv, [Next]_vars, merged' # merged
  PROVE  /\ merged' \in attested
         /\ PlanOf(merged').level = "none" \/ Covered(merged', 0) \/ RanDisturbed(merged')
<1>1. MergeCall
  BY DEF vars, world, Next, HumanRun, SuiteEnds, Edit, Commit, Push, Crash, Restart, Runs, Prepare, Execute,
         TaskHead, PrHead, Persist, Breaks, Quarantine, Cancel
<1>2. merged' = TaskTip /\ GateAnswer(TaskTip) = "merge"
  BY <1>1 DEF MergeCall
<1>3. TaskTip \in attested /\ HostAnswer(TaskTip) = "merge"
  BY <1>2 DEF GateAnswer
<1>4. Eligible(TaskTip)
  BY <1>3 DEF HostAnswer
<1> QED
  BY <1>2, <1>3, <1>4, EligibleIsProved, TipIs DEF HostInv

\* The gate lets a head through only when it is attested and something passed on exactly that
\* commit; the exception is a manual-only suite whose worktree somebody wrote in meanwhile.
THEOREM MergedWasVerified == Spec => MergedIsVerified
<1>1. HostInv /\ [Next]_vars
      => (merged' # merged =>
            /\ merged' \in attested
            /\ PlanOf(merged').level = "none" \/ Covered(merged', 0) \/ RanDisturbed(merged'))
  BY MergeStep
<1> QED
  BY <1>1, HostInvariant, PTL DEF Spec, MergedIsVerified

\* The steps that start no run keep the number of rows.
LEMMA RowsCount ==
  ASSUME HostInv, [Next]_vars, Len(jobs') > Len(jobs)
  PROVE  MergeCall \/ HumanRun
<1>1. HostInv' /\ jobs \in Seq(HostJob)
  BY HostStep DEF HostInv, HostTypes
<1>2. jobs' \in Seq(HostJob)
  BY <1>1 DEF HostInv, HostTypes
<1>3. DOMAIN jobs' # DOMAIN jobs
  BY <1>1, <1>2
<1> QED
  BY <1>3 DEF vars, world, Next, SuiteEnds, Edit, Commit, Push, Crash, Dead, Restart, Runs, Prepare, Execute,
         TaskHead, PrHead, Persist, Breaks, Quarantine, Cancel, Settle, Marked

\* A step that starts an automatic run finds nothing, or one failure of the machinery.
LEMMA StartStep ==
  ASSUME HostInv, [Next]_vars, NEW c \in DOMAIN changed,
         Len(jobs') > Len(jobs), jobs'[Len(jobs')].by = "gateway", jobs'[Len(jobs')].commit = c
  PROVE  Len(tries[c]) < 2 /\ \A i \in DOMAIN tries[c] : tries[c][i] = "infrastructure"
<1>1. jobs \in Seq(HostJob)
  BY DEF HostInv, HostTypes
<1>2. ASSUME NEW by, NEW d, Launch(by, d)
      PROVE  jobs'[Len(jobs')].by = by /\ jobs'[Len(jobs')].commit = d /\ ~Busy
  <2> DEFINE n == NewJob(by, d)
  <2>1. n.by = by /\ n.commit = d
    BY DEF NewJob
  <2>2. jobs' = Append(jobs, n) /\ ~Busy
    BY <1>2 DEF Launch, Admitted
  <2> HIDE DEF n
  <2>3. jobs'[Len(jobs')] = n
    BY <1>1, <2>2
  <2> QED
    BY <2>1, <2>2, <2>3
<1>3. CASE MergeCall
  <2>1. GateAnswer(TaskTip) = "start" /\ Launch("gateway", TaskTip)
    BY <1>3 DEF MergeCall
  <2>2. c = TaskTip /\ ~Busy
    BY <1>2, <2>1
  <2>3. tries[c] = <<>> \/ tries[c] = <<"infrastructure">>
    BY <2>1, <2>2, StartFacts
  <2>4. CASE tries[c] = <<>>
    BY <2>4
  <2>5. CASE tries[c] = <<"infrastructure">>
    <3> DEFINE t == <<"infrastructure">>
    <3>1. Len(t) = 1 /\ DOMAIN t = {1} /\ t[1] = "infrastructure"
      OBVIOUS
    <3>2. Len(t) < 2 /\ \A i \in DOMAIN t : t[i] = "infrastructure"
      BY <3>1
    <3> QED
      BY <2>5, <3>2
  <2> QED
    BY <2>3, <2>4, <2>5
<1>4. CASE HumanRun
  <2>1. Launch("cli", TaskTip)
    BY <1>4 DEF HumanRun
  <2> QED
    BY <1>2, <2>1
<1> QED
  BY <1>3, <1>4, RowsCount

\* An automatic run is repeated on a commit once, and only after a failure of the machinery.
THEOREM NeverRetriedBlindly == Spec => NoBlindRetry
<1>1. HostInv /\ [Next]_vars
      => \A c \in DOMAIN changed :
           (Len(jobs') > Len(jobs) /\ jobs'[Len(jobs')].by = "gateway"
              /\ jobs'[Len(jobs')].commit = c) =>
             Len(tries[c]) < 2 /\ \A i \in DOMAIN tries[c] : tries[c][i] = "infrastructure"
  BY StartStep
<1> QED
  BY <1>1, HostInvariant, PTL DEF Spec, NoBlindRetry

-----------------------------------------------------------------------------
(* The authorization table (DeliveryAuthorization).                        *)

-----------------------------------------------------------------------------
(* The column types.                                                        *)

(* The freshly created table is well typed.                                 *)
LEMMA TypeInit == TableInit => TableTypeOK
  BY BoundAssumption
  DEF TableInit, TableTypeOK, Status, Active, Pending, Terminal, Bindings, Consents

(* Every operation writes values of the columns' types.                     *)
LEMMA TypeStep == TableTypeOK /\ [TableNext]_table => TableTypeOK'
<1> SUFFICES ASSUME TableTypeOK, [TableNext]_table PROVE TableTypeOK'
  OBVIOUS
<1> USE BoundAssumption, TtlAssumption DEF TableTypeOK, Status, Active, Pending, Terminal, history, row
<1>1. ASSUME NEW i \in Ids, NEW b \in Bindings, Create(i, b) PROVE TableTypeOK'
  <2>1. status' \in [Ids -> Status]
    BY <1>1 DEF Create
  <2>2. binding' \in [Ids -> Bindings \cup {NoBinding}] /\ binding'[i] = b
        /\ \A j \in Ids : j # i => binding'[j] = binding[j]
    BY <1>1 DEF Create
  <2>3. \A j \in Ids : status'[j] # "NONE" => binding'[j] \in Bindings
    <3>1. \A j \in Ids : j # i /\ status'[j] # "NONE" => status[j] # "NONE"
      BY <1>1 DEF Create, ActiveRows
    <3> QED BY <2>2, <3>1
  <2> QED BY <1>1, <2>1, <2>2, <2>3 DEF Create
<1>2. ASSUME NEW i \in Ids, NEW d \in Digests, Challenge(i, d) PROVE TableTypeOK'
  BY <1>2 DEF Challenge
<1>3. ASSUME NEW i \in Ids, NEW d \in Digests, NEW n \in 1..issued, Approve(i, d, n) PROVE TableTypeOK'
  BY <1>3 DEF Approve, FreshAndMatching, Consents
<1>4. ASSUME NEW i \in Ids, NEW d \in Digests, NEW n \in 1..issued, Reject(i, d, n) PROVE TableTypeOK'
  BY <1>4 DEF Reject
<1>5. ASSUME NEW i \in Ids, NEW k \in Kinds, NEW d \in Digests, Begin(i, k, d) PROVE TableTypeOK'
  BY <1>5 DEF Begin
<1>6. ASSUME NEW i \in Ids, NEW e \in CallerEdges, NEW d \in Digests,
             Transition(i, e[1], e[2], d) PROVE TableTypeOK'
  BY <1>6 DEF Transition, CallerEdges
<1>7. ASSUME NEW i \in Ids, ExpireIfDue(i) PROVE TableTypeOK'
  BY <1>7 DEF ExpireIfDue, Due
<1>8. CASE Tick
  BY <1>8 DEF Tick
<1>9. CASE UNCHANGED table
  BY <1>9 DEF table
<1> QED BY <1>1, <1>2, <1>3, <1>4, <1>5, <1>6, <1>7, <1>8, <1>9 DEF TableNext

(* Every reachable state of the table is well typed.                        *)
THEOREM TypeCorrect == TableSpec => []TableTypeOK
  BY TypeInit, TypeStep, PTL DEF TableSpec

-----------------------------------------------------------------------------
(* The safety properties.  They are not independent: an answered approval   *)
(* (ApprovalTold) rests on the consent behind every APPROVED row, so one    *)
(* invariant carries them all; each action has one step per conjunct it can *)
(* disturb.                                                                 *)

IInv == /\ TableTypeOK
        /\ OneActivePerTask
        /\ ConsentGiven
        /\ StartedInTime
        /\ RejectionFinal
        /\ ApprovalTold

(* The empty table satisfies the invariant.                                 *)
LEMMA SafetyInit == TableInit => IInv
<1> SUFFICES ASSUME TableInit PROVE IInv
  OBVIOUS
<1>1. TableTypeOK
  BY TypeInit
<1>2. \A i \in Ids : status[i] = "NONE"
  BY DEF TableInit
<1> QED
  BY <1>1, <1>2 DEF IInv, OneActivePerTask, ConsentGiven, StartedInTime, RejectionFinal,
     ApprovalTold, TableInit, Active, Pending, Executed

(* Inserting a proposal frees the slot of its task first.                   *)
LEMMA CreateKeeps ==
  ASSUME IInv, NEW i \in Ids, NEW b \in Bindings, Create(i, b), TableTypeOK'
  PROVE  IInv'
<1> USE DEF IInv
<1>1. /\ status[i] = "NONE" /\ status'[i] = "READY" /\ binding'[i] = b /\ b.createdAt <= now
      /\ UNCHANGED <<nonce, executingAt, deadline, now, consent, toldApproved, toldRejected>>
  BY DEF Create, TableTypeOK, history
<1>2. ASSUME NEW j \in Ids, j # i
      PROVE  /\ binding'[j] = binding[j]
             /\ status'[j] = status[j] \/ (status[j] \in Pending /\ status'[j] = "EXPIRED")
             /\ (status[j] \in Active /\ binding[j].task = b.task) => status'[j] = "EXPIRED"
  BY <1>2 DEF Create, ActiveRows, TableTypeOK, Due
<1>3. OneActivePerTask'
  <2>1. ASSUME NEW j \in Ids, NEW k \in Ids, j # k, status'[j] \in Active, status'[k] \in Active
        PROVE  binding'[j].task # binding'[k].task
    BY <1>1, <1>2, <2>1 DEF OneActivePerTask, Active, Pending
  <2> QED BY <2>1 DEF OneActivePerTask
<1>4. ConsentGiven'
  BY <1>1, <1>2 DEF ConsentGiven, Executed, Active, Pending
<1>5. StartedInTime'
  BY <1>1, <1>2 DEF StartedInTime, Executed, ExpiresAt, Active, Pending
<1>6. RejectionFinal'
  BY <1>1, <1>2 DEF RejectionFinal, TableTypeOK, Pending
<1>7. ApprovalTold'
  BY <1>1, <1>2 DEF ApprovalTold, Pending, TableTypeOK
<1> QED BY <1>3, <1>4, <1>5, <1>6, <1>7

(* A challenge moves only the nonce of a READY row.                         *)
LEMMA ChallengeKeeps ==
  ASSUME IInv, NEW i \in Ids, NEW d \in Digests, Challenge(i, d), TableTypeOK'
  PROVE  IInv'
<1>1. /\ status[i] = "READY"
      /\ \A j \in Ids : j # i => nonce'[j] = nonce[j]
      /\ UNCHANGED <<status, binding, executingAt, deadline, now, consent, toldApproved, toldRejected>>
  BY DEF Challenge, IInv, TableTypeOK, history
<1> QED
  BY <1>1 DEF IInv, OneActivePerTask, ConsentGiven, StartedInTime, RejectionFinal, ApprovalTold,
     Executed, ExpiresAt

(* An approval records the request that carried it; a replay changes nothing. *)
LEMMA ApproveKeeps ==
  ASSUME IInv, NEW i \in Ids, NEW d \in Digests, NEW n \in 1..issued, Approve(i, d, n), TableTypeOK'
  PROVE  IInv'
<1> USE DEF IInv
<1>1. UNCHANGED <<binding, nonce, executingAt, deadline, now, toldRejected>>
      /\ toldApproved' = toldApproved \cup {i}
  BY DEF Approve
<1>2. CASE /\ status[i] = "READY"
           /\ FreshAndMatching(i, d, n)
           /\ status' = [status EXCEPT ![i] = "APPROVED"]
           /\ consent' = [consent EXCEPT ![i] = [digest |-> d, nonce |-> n]]
  <2>1. /\ status'[i] = "APPROVED"
        /\ \A j \in Ids : j # i => status'[j] = status[j] /\ consent'[j] = consent[j]
        /\ consent'[i] = [digest |-> d, nonce |-> n]
        /\ d = binding[i] /\ n = nonce[i] /\ n # 0
    BY <1>2 DEF TableTypeOK, FreshAndMatching
  <2>2. consent'[i] # NoConsent
    BY <2>1 DEF NoConsent
  <2>3. OneActivePerTask'
    BY <1>1, <1>2, <2>1 DEF OneActivePerTask, Active, Pending
  <2>4. ConsentGiven'
    BY <1>1, <2>1, <2>2 DEF ConsentGiven
  <2>5. StartedInTime'
    BY <1>1, <1>2, <2>1 DEF StartedInTime, Executed, ExpiresAt
  <2>6. RejectionFinal'
    BY <1>1, <1>2, <2>1 DEF RejectionFinal, TableTypeOK
  <2>7. ApprovalTold'
    BY <1>1, <2>1, <2>2 DEF ApprovalTold, TableTypeOK
  <2> QED BY <2>3, <2>4, <2>5, <2>6, <2>7
<1>3. CASE status[i] \in {"APPROVED", "EXECUTING"} /\ UNCHANGED <<status, consent>>
  <2>1. consent[i] # NoConsent
    BY <1>3 DEF ConsentGiven, Executed
  <2> QED
    BY <1>1, <1>3, <2>1 DEF OneActivePerTask, ConsentGiven, StartedInTime, RejectionFinal,
       ApprovalTold, ExpiresAt
<1> QED BY <1>2, <1>3 DEF Approve

(* A rejection ends a pending row; a replay finds it already ended.         *)
LEMMA RejectKeeps ==
  ASSUME IInv, NEW i \in Ids, NEW d \in Digests, NEW n \in 1..issued, Reject(i, d, n), TableTypeOK'
  PROVE  IInv'
<1> USE DEF IInv
<1>1. /\ UNCHANGED <<binding, nonce, executingAt, deadline, now, consent, toldApproved>>
      /\ toldRejected' = toldRejected \cup {i}
      /\ \/ status'[i] = "REJECTED" /\ status[i] \in {"READY", "REJECTED"}
         \/ status'[i] = "REVOKED" /\ status[i] \in {"APPROVED", "REVOKED"}
      /\ \A j \in Ids : j # i => status'[j] = status[j]
  BY DEF Reject, TableTypeOK, Pending, Replayed, FreshAndMatching
<1>2. OneActivePerTask'
  BY <1>1 DEF OneActivePerTask, Active, Pending
<1>3. ConsentGiven'
  BY <1>1 DEF ConsentGiven, Executed
<1>4. StartedInTime'
  BY <1>1 DEF StartedInTime, Executed, ExpiresAt
<1>5. RejectionFinal'
  BY <1>1 DEF RejectionFinal, TableTypeOK
<1>6. ApprovalTold'
  BY <1>1 DEF ApprovalTold, TableTypeOK
<1> QED BY <1>2, <1>3, <1>4, <1>5, <1>6

(* An execution starts on an approved row that is still in time.            *)
LEMMA BeginKeeps ==
  ASSUME IInv, NEW i \in Ids, NEW k \in Kinds, NEW d \in Digests, Begin(i, k, d), TableTypeOK'
  PROVE  IInv'
<1> USE DEF IInv
<1>1. /\ UNCHANGED <<binding, nonce, now, consent, toldApproved, toldRejected>>
      /\ status[i] = "APPROVED" /\ status'[i] = "EXECUTING"
      /\ executingAt'[i] = now /\ deadline'[i] = now + ExecutionTtl
      /\ \A j \in Ids : j # i => /\ status'[j] = status[j]
                                /\ executingAt'[j] = executingAt[j]
                                /\ deadline'[j] = deadline[j]
      /\ ExpiresAt(i) > now
  BY DEF Begin, TableTypeOK, history, InTime
<1>2. OneActivePerTask'
  BY <1>1 DEF OneActivePerTask, Active, Pending
<1>3. ConsentGiven'
  BY <1>1 DEF ConsentGiven
<1>4. StartedInTime'
  <2>1. now \in Nat /\ ExpiresAt(i) \in Nat
    BY <1>1, BoundAssumption, TtlAssumption DEF TableTypeOK, ExpiresAt, Bindings
  <2> QED BY <1>1, <2>1 DEF StartedInTime, ExpiresAt
<1>5. RejectionFinal'
  BY <1>1 DEF RejectionFinal, TableTypeOK
<1>6. ApprovalTold'
  BY <1>1 DEF ApprovalTold, TableTypeOK
<1> QED BY <1>2, <1>3, <1>4, <1>5, <1>6

(* A row that moves to a terminal status under compare-and-set.             *)
LEMMA EndKeeps ==
  ASSUME IInv, TableTypeOK', NEW i \in Ids, NEW to \in {"STALE", "EXPIRED", "SUCCEEDED", "FAILED", "UNCERTAIN"},
         status[i] \in Active, to \in Executed => status[i] = "EXECUTING",
         status' = [status EXCEPT ![i] = to],
         UNCHANGED <<binding, nonce, executingAt, deadline, now, issued, history>>
  PROVE  IInv'
<1> USE DEF IInv
<1>1. /\ status'[i] = to /\ \A j \in Ids : j # i => status'[j] = status[j]
      /\ UNCHANGED <<consent, toldApproved, toldRejected>>
  BY DEF TableTypeOK, history
<1>2. OneActivePerTask'
  BY <1>1 DEF OneActivePerTask, Active, Pending
<1>3. ConsentGiven'
  BY <1>1 DEF ConsentGiven, Executed
<1>4. StartedInTime'
  BY <1>1 DEF StartedInTime, Executed, ExpiresAt, Active, Pending
<1>5. RejectionFinal'
  BY <1>1 DEF RejectionFinal, Active, Pending
<1>6. ApprovalTold'
  BY <1>1 DEF ApprovalTold, TableTypeOK
<1> QED BY <1>2, <1>3, <1>4, <1>5, <1>6

(* Every operation keeps the invariant.                                     *)
LEMMA SafetyStep == IInv /\ [TableNext]_table => IInv'
<1> SUFFICES ASSUME IInv, [TableNext]_table PROVE IInv'
  OBVIOUS
<1>0. TableTypeOK'
  BY TypeStep DEF IInv
<1>1. ASSUME NEW i \in Ids, NEW b \in Bindings, Create(i, b) PROVE IInv'
  BY <1>0, <1>1, CreateKeeps
<1>2. ASSUME NEW i \in Ids, NEW d \in Digests, Challenge(i, d) PROVE IInv'
  BY <1>0, <1>2, ChallengeKeeps
<1>3. ASSUME NEW i \in Ids, NEW d \in Digests, NEW n \in 1..issued, Approve(i, d, n) PROVE IInv'
  BY <1>0, <1>3, ApproveKeeps
<1>4. ASSUME NEW i \in Ids, NEW d \in Digests, NEW n \in 1..issued, Reject(i, d, n) PROVE IInv'
  BY <1>0, <1>4, RejectKeeps
<1>5. ASSUME NEW i \in Ids, NEW k \in Kinds, NEW d \in Digests, Begin(i, k, d) PROVE IInv'
  BY <1>0, <1>5, BeginKeeps
<1>6. ASSUME NEW i \in Ids, NEW e \in CallerEdges, NEW d \in Digests,
             Transition(i, e[1], e[2], d) PROVE IInv'
  <2>1. /\ e[2] \in {"STALE", "EXPIRED", "SUCCEEDED", "FAILED", "UNCERTAIN"}
        /\ status[i] \in Active
        /\ e[2] \in Executed => status[i] = "EXECUTING"
    BY <1>6 DEF Transition, CallerEdges, Active, Executed, Pending
  <2> QED BY <1>0, <1>6, <2>1, EndKeeps DEF Transition
<1>7. ASSUME NEW i \in Ids, ExpireIfDue(i) PROVE IInv'
  <2>1. status[i] \in Active /\ "EXPIRED" \notin Executed
    BY <1>7 DEF ExpireIfDue, Due, Active, Executed
  <2> QED BY <1>0, <1>7, <2>1, EndKeeps DEF ExpireIfDue
<1>8. CASE Tick
  <2>1. now' \in Nat /\ now \in Nat /\ now' = now + 1 /\ UNCHANGED <<row, history>>
    BY <1>0, <1>8, BoundAssumption DEF Tick, TableTypeOK, IInv
  <2>2. StartedInTime'
    <3>1. \A i \in Ids : status[i] # "NONE" => binding[i].createdAt \in Nat
      BY BoundAssumption DEF IInv, TableTypeOK, Bindings
    <3> QED BY <2>1, <3>1 DEF IInv, StartedInTime, row, ExpiresAt
  <2> QED
    BY <1>0, <2>1, <2>2 DEF IInv, row, history, OneActivePerTask, ConsentGiven, RejectionFinal, ApprovalTold
<1>9. CASE UNCHANGED table
  BY <1>0, <1>9 DEF table, row, history, IInv, OneActivePerTask, ConsentGiven, StartedInTime,
     RejectionFinal, ApprovalTold, ExpiresAt
<1> QED BY <1>1, <1>2, <1>3, <1>4, <1>5, <1>6, <1>7, <1>8, <1>9 DEF TableNext

(* Every reachable state of the table satisfies the invariant.              *)
LEMMA Safety == TableSpec => []IInv
  BY SafetyInit, SafetyStep, PTL DEF TableSpec

(* At most one READY, APPROVED or EXECUTING row per task, always.           *)
THEOREM OneActiveAlways == TableSpec => []OneActivePerTask
  BY Safety, PTL DEF IInv

(* Nothing is approved or executed but by a request that named this binding *)
(* and its last challenge.                                                  *)
THEOREM ConsentAlways == TableSpec => []ConsentGiven
  BY Safety, PTL DEF IInv

(* No execution starts on an expired approval.                              *)
THEOREM InTimeAlways == TableSpec => []StartedInTime
  BY Safety, PTL DEF IInv

(* A rejection the operator was told of is never contradicted, and an       *)
(* approval the operator was told of was given.                             *)
THEOREM AnswersHold == TableSpec => [](RejectionFinal /\ ApprovalTold)
  BY Safety, PTL DEF IInv

(* The table as a whole: sound columns, one active row per task, executions *)
(* in time and answers that hold (deliveryAuthorization.ts).                *)
THEOREM TableAlways == TableSpec => []TableInv
<1>1. IInv => TableInv
  BY DEF IInv, TableInv
<1> QED BY <1>1, Safety, PTL

-----------------------------------------------------------------------------
(* The table implements the contract: each operation is an Offer, a Give, a *)
(* Use, a Close, or nothing the contract can see.                           *)

(* What the contract calls a live grant is an active row.                   *)
LEMMA LiveIsActive == \A s \in Status :
    /\ GrantOf(s) \in {"offered", "given", "used"} <=> s \in Active
    /\ GrantOf(s) = "used" <=> s = "EXECUTING"
  BY DEF GrantOf, Status, Active, Pending, Terminal

(* A proposal (createAuthorization) is an offer: the expiry and the end of  *)
(* the task's earlier proposals that it performs free the one live grant.   *)
LEMMA CreateIsOffer ==
  ASSUME TableTypeOK, NEW i \in Ids, NEW b \in Bindings, Create(i, b)
  PROVE  Contract!Offer(i, b.task)
<1> USE DEF TableTypeOK
<1>1. Contract!LiveOf(b.task) = ActiveRows(b.task)
  BY LiveIsActive DEF Contract!LiveOf, Contract!Live, ActiveRows
<1>2. \A j \in ActiveRows(b.task) : GrantOf(status[j]) # "used"
  BY DEF Create, Due, Pending, GrantOf
<1>3. [j \in Ids |-> binding'[j].task]
      = [[j \in Ids |-> binding[j].task] EXCEPT ![i] = b.task]
  BY DEF Create
<1>4. \A j \in Ids : GrantOf(status'[j]) = IF j = i THEN "offered"
                        ELSE IF j \in ActiveRows(b.task) THEN "closed" ELSE GrantOf(status[j])
  BY DEF Create, GrantOf
<1>5. GrantOf(status[i]) = "none"
  BY DEF Create, GrantOf
<1>6. [j \in Ids |-> GrantOf(status'[j])]
      = [j \in Ids |-> IF j = i THEN "offered"
                       ELSE IF j \in ActiveRows(b.task) THEN "closed"
                       ELSE [k \in Ids |-> GrantOf(status[k])][j]]
  BY <1>4
<1>7. \A j \in ActiveRows(b.task) : [k \in Ids |-> GrantOf(status[k])][j] # "used"
  BY <1>2 DEF ActiveRows
<1> QED BY <1>1, <1>3, <1>5, <1>6, <1>7 DEF Contract!Offer

(* A change of one status shows in the contract as a change of one grant.   *)
LEMMA GrantMoves ==
  ASSUME TableTypeOK, NEW i \in Ids, NEW to \in Status, status' = [status EXCEPT ![i] = to]
  PROVE  [j \in Ids |-> GrantOf(status'[j])]
         = [[j \in Ids |-> GrantOf(status[j])] EXCEPT ![i] = GrantOf(to)]
  BY DEF TableTypeOK

(* Every operation is a step of the contract, or unseen by it.              *)
LEMMA RefinementStep == IInv /\ [TableNext]_table => [Contract!Next]_(Contract!vars)
<1> SUFFICES ASSUME TableTypeOK, [TableNext]_table PROVE [Contract!Next]_(Contract!vars)
  BY DEF IInv
<1> USE DEF history, row
<1>1. ASSUME NEW i \in Ids, NEW b \in Bindings, Create(i, b) PROVE Contract!Next
  BY <1>1, CreateIsOffer DEF Contract!Next, Bindings
<1>2. ASSUME UNCHANGED <<status, binding>> PROVE UNCHANGED Contract!vars
  BY <1>2 DEF Contract!vars
<1>3. ASSUME NEW i \in Ids, status[i] = "READY", UNCHANGED binding,
             status' = [status EXCEPT ![i] = "APPROVED"] PROVE Contract!Give(i)
  BY <1>3, GrantMoves DEF Contract!Give, GrantOf, Status, Active, Pending
<1>4. ASSUME NEW i \in Ids, status[i] = "APPROVED", UNCHANGED binding,
             status' = [status EXCEPT ![i] = "EXECUTING"] PROVE Contract!Use(i)
  BY <1>4, GrantMoves DEF Contract!Use, GrantOf, Status, Active
<1>5. ASSUME NEW i \in Ids, NEW to \in Terminal, status[i] \in Active, UNCHANGED binding,
             status' = [status EXCEPT ![i] = to] PROVE Contract!Close(i)
  <2>1. GrantOf(to) = "closed" /\ to \in Status
    BY DEF Terminal, GrantOf, Status
  <2> QED BY <1>5, <2>1, GrantMoves, LiveIsActive DEF Contract!Close, Contract!Live, TableTypeOK
<1>6. ASSUME NEW i \in Ids, NEW d \in Digests, NEW n \in 1..issued, Approve(i, d, n)
      PROVE Contract!Give(i) \/ UNCHANGED Contract!vars
  BY <1>6, <1>2, <1>3 DEF Approve
<1>7. ASSUME NEW i \in Ids, NEW d \in Digests, NEW n \in 1..issued, Reject(i, d, n)
      PROVE Contract!Close(i) \/ UNCHANGED Contract!vars
  <2>1. CASE status[i] \in Pending
             /\ status' = [status EXCEPT ![i] = IF @ = "READY" THEN "REJECTED" ELSE "REVOKED"]
    <3>1. PICK to \in {"REJECTED", "REVOKED"} : status' = [status EXCEPT ![i] = to]
      BY <2>1
    <3> QED BY <1>5, <1>7, <2>1, <3>1 DEF Reject, Active, Terminal
  <2> QED BY <1>2, <1>7, <2>1 DEF Reject
<1>8. ASSUME NEW i \in Ids, NEW e \in CallerEdges, NEW d \in Digests, Transition(i, e[1], e[2], d)
      PROVE Contract!Close(i)
  <2>1. e[2] \in Terminal /\ status[i] \in Active
    BY <1>8 DEF Transition, CallerEdges, Active, Pending, Terminal
  <2> QED BY <1>5, <1>8, <2>1 DEF Transition
<1>9. ASSUME NEW i \in Ids, ExpireIfDue(i) PROVE Contract!Close(i)
  <2>1. "EXPIRED" \in Terminal /\ status[i] \in Active
    BY <1>9 DEF ExpireIfDue, Due, Active, Terminal
  <2> QED BY <1>5, <1>9, <2>1 DEF ExpireIfDue
<1>10. ASSUME NEW i \in Ids, NEW d \in Digests, Challenge(i, d) PROVE UNCHANGED Contract!vars
  BY <1>2, <1>10 DEF Challenge
<1>11. ASSUME NEW i \in Ids, NEW k \in Kinds, NEW d \in Digests, Begin(i, k, d) PROVE Contract!Use(i)
  BY <1>4, <1>11 DEF Begin
<1>12. CASE Tick
  BY <1>2, <1>12 DEF Tick
<1>13. CASE UNCHANGED table
  BY <1>2, <1>13 DEF table
<1> QED
  BY <1>1, <1>6, <1>7, <1>8, <1>9, <1>10, <1>11, <1>12, <1>13 DEF TableNext, Contract!Next

(* Every behaviour of the table is one the contract allows.                 *)
THEOREM TableImplementsContract == TableSpec => ImplementsContract
<1>1. TableInit => Contract!Init
  <2> SUFFICES ASSUME TableInit PROVE Contract!Init
    OBVIOUS
  <2>1. \A i \in Ids : binding[i].task = "" /\ GrantOf(status[i]) = "none"
    BY DEF TableInit, NoBinding, GrantOf
  <2> QED BY <2>1 DEF Contract!Init
<1> QED BY <1>1, Safety, RefinementStep, PTL DEF TableSpec, ImplementsContract, Contract!Spec
=============================================================================
