---------------------------- MODULE DeliveryProofs ----------------------------
(***************************************************************************)
(* Proofs about the delivery as a whole, for any number of authorizations, *)
(* jobs, verify calls, pushes and crashes: the two stages keep each other's *)
(* invariants, so that only the exact merge is deployed and SUCCEEDED is   *)
(* said of nothing less.  Each stage's invariant is the one proved for it  *)
(* alone, over the part of the shared state it sees.  Then that the whole  *)
(* shows the deploy stage nothing it does not allow for alone, and that it *)
(* keeps the contract with the plan "merge", then "deploy".                *)
(***************************************************************************)
EXTENDS Delivery, FiniteSetTheorems, SequenceTheorems, TLAPS

\* The deploy stage sees a row's status and action; the merge stage its own request and lock.
AuthD   == [i \in Ids |-> [status |-> auth[i].status, refs |-> auth[i].refs]]
LocalD  == [refs |-> local.refs]
WriterM == IF writer = "pr_merge" THEN "pr_merge" ELSE "nobody"

D == INSTANCE DeployStageProofs WITH auth <- AuthD, local <- LocalD

SentM   == [i \in Ids |-> IF D!Did(i, "merge") THEN <<"merge">> ELSE <<>>]
M == INSTANCE MergeStageProofs WITH sent <- SentM, writer <- WriterM

\* The merge call holds the lock, as the deploy call does: never both.
Locked == (mcall.pc # "idle" => writer = "pr_merge") /\ D!LockHeld

\* A grant is recorded as merged by its own call only, and only after it was used.
Unspent == {"NONE"} \cup Pending
ReceiptIsSpent == \A i \in Ids : auth[i].status \in Unspent => mrec[i] # "ok"
CallIsUnpaid ==
  /\ mcall.pc = "begun" => mrec[mcall.auth] # "ok"
  /\ mcall.pc = "merging" => auth[mcall.auth].status \notin Unspent

\* What holds however many verify calls run.
LinkInv ==
  /\ M!MInv /\ D!Typed
  /\ Locked /\ ReceiptIsSpent /\ CallIsUnpaid
  /\ D!Paid
-----------------------------------------------------------------------------
(* A step of the merge stage, as the merge stage's own proofs see it.       *)

\* What the stages assume of the constants.
LEMMA Assumed ==
  /\ Plans \subseteq [deploy : D!Kinds, verify : D!Kinds]
  /\ NoId \notin Ids /\ MaxBase \in Nat /\ MaxJobs \in Nat /\ MaxCrash \in Nat
  BY MergeAssumption, DeliveryAssumption DEF Deploy!Kinds, D!Kinds

\* What it sees of the lock and of what was sent moves as they do.
LEMMA SeenByMerge ==
  /\ writer' = "nobody" => WriterM' = "nobody"
  /\ writer' = "pr_merge" => WriterM' = "pr_merge"
  /\ writer = "nobody" => WriterM = "nobody"
  /\ writer' = writer => WriterM' = WriterM
  /\ sent' = sent => SentM' = SentM
  BY DEF WriterM, SentM, D!Did

\* The one request, which was not sent before.
LEMMA SendSeen ==
  ASSUME LinkInv, SendMerge
  PROVE  /\ M!SendMerge /\ mcall.auth \in Ids
         /\ sent' \in [Ids -> Seq(D!Effects)]
         /\ \A i \in Ids : /\ D!Did(i, "deploy")' <=> D!Did(i, "deploy")
                           /\ D!Did(i, "verify")' <=> D!Did(i, "verify")
<1> DEFINE i == mcall.auth
<1>1. /\ mcall.pc = "begun" /\ sent' = [sent EXCEPT ![i] = Append(@, "merge")]
      /\ inFlight' = inFlight \cup {i} /\ mcall' = [mcall EXCEPT !.pc = "merging"]
      /\ UNCHANGED <<auth, mrec, github, local, writer, crashes>>
  BY DEF SendMerge
<1>2. i \in Ids /\ SentM[i] = <<>>
  BY <1>1 DEF LinkInv, M!MInv, M!CallOwnsRow
<1> HIDE DEF i
<1>3. /\ sent' \in [Ids -> Seq(D!Effects)]
      /\ \A j \in Ids : /\ D!Did(j, "merge")' <=> D!Did(j, "merge") \/ j = i
                        /\ D!Did(j, "deploy")' <=> D!Did(j, "deploy")
                        /\ D!Did(j, "verify")' <=> D!Did(j, "verify")
  <2>1. "merge" \in D!Effects /\ "deploy" \in D!Effects /\ "verify" \in D!Effects /\ D!Typed
    BY DEF LinkInv, D!Effects
  <2> DEFINE y == "merge"
  <2>2. /\ y \in D!Effects /\ i \in Ids /\ D!Typed /\ sent' = [sent EXCEPT ![i] = Append(@, y)]
    BY <1>1, <1>2, <2>1
  <2> HIDE DEF y
  <2>3. /\ sent' \in [Ids -> Seq(D!Effects)]
        /\ \A j \in Ids, x \in D!Effects :
             /\ D!Did(j, x)' <=> D!Did(j, x) \/ (j = i /\ x = y)
             /\ D!Count(sent'[j], x) = D!Count(sent[j], x) + (IF j = i /\ x = y THEN 1 ELSE 0)
             /\ D!Count(sent[j], x) \in Nat
    BY ONLY <2>2, Assumed, D!Sends
  <2> QED
    BY <2>1, <2>3 DEF y
<1>4. SentM' = [SentM EXCEPT ![i] = Append(@, "merge")]
  <2>1. Append(SentM[i], "merge") = <<"merge">>
    BY <1>2
  <2> QED
    BY <1>2, <1>3, <2>1 DEF SentM
<1>5. WriterM' = WriterM
  BY <1>1, SeenByMerge
<1>6. M!SendMerge
  BY <1>1, <1>4, <1>5 DEF M!SendMerge, i
<1> QED
  BY <1>2, <1>3, <1>6 DEF i

\* Every step of the merge stage is one to its proofs.
LEMMA MergeSeen ==
  ASSUME LinkInv, Next
  PROVE  M!Next
<1> USE SeenByMerge DEF ledger, M!ledger, outside, M!outside, Return, M!Return, Enter, M!Enter, Call, M!Call,
    Idle, M!Idle, NoView, M!NoView, Reading, M!Reading, Answered, M!Answered, Pending, M!Pending,
    Active, M!Active, ActiveIds, M!ActiveIds, SetStatus, M!SetStatus, ExactFor, M!ExactFor
<1>1. StartMerge => M!StartMerge
  BY DEF StartMerge, M!StartMerge, EntryPhase, M!EntryPhase
<1>2. GithubAnswers => M!GithubAnswers
  BY DEF GithubAnswers, M!GithubAnswers
<1>3. GiveUp => M!GiveUp
  BY DEF GiveUp, M!GiveUp
<1>4. \A i \in Ids : Prepare(i) => M!Prepare(i)
  BY DEF Prepare, M!Prepare
<1>5. RecheckReady => M!RecheckReady
  BY DEF RecheckReady, M!RecheckReady, Unchanged, M!Unchanged, MarkStale, M!MarkStale
<1>6. RecheckApproved => M!RecheckApproved
  BY DEF RecheckApproved, M!RecheckApproved, Unchanged, M!Unchanged, MarkStale, M!MarkStale
<1>7. Begin => M!Begin
  BY DEF Begin, M!Begin, MergeAllowed, M!MergeAllowed
<1>8. RefreshFails => M!RefreshFails
  BY DEF RefreshFails, M!RefreshFails
<1>9. RecordMerge => M!RecordMerge
  BY DEF RecordMerge, M!RecordMerge, Persist, M!Persist
<1>10. CondemnMerge => M!CondemnMerge
  BY DEF CondemnMerge, M!CondemnMerge, MarkUncertain, M!MarkUncertain
<1>11. MergeNotConfirmed => M!MergeNotConfirmed
  BY DEF MergeNotConfirmed, M!MergeNotConfirmed
<1>12. ObserveExact => M!ObserveExact
  BY DEF ObserveExact, M!ObserveExact, Confirmed, M!Confirmed, Persist, M!Persist
<1>13. ObserveInexact => M!ObserveInexact
  BY DEF ObserveInexact, M!ObserveInexact, Confirmed, M!Confirmed
<1>14. \A i \in Ids : GithubMerges(i) => M!GithubMerges(i)
  BY DEF GithubMerges, M!GithubMerges, Reply, M!Reply
<1>15. \A i \in Ids : GithubRefuses(i) => M!GithubRefuses(i)
  BY DEF GithubRefuses, M!GithubRefuses, Reply, M!Reply
<1>16. OthersAct => M!OthersAct
  BY DEF OthersAct, M!OthersAct
<1>17. AgentCommits => M!AgentCommits
  BY DEF AgentCommits, M!AgentCommits
<1>18. ActionChanges => M!ActionChanges
  BY DEF ActionChanges, M!ActionChanges
<1>19. \A i \in Ids : HumanOrSweep(i) => M!HumanOrSweep(i)
  BY DEF HumanOrSweep, M!HumanOrSweep
<1>20. CallLost => M!CallLost
  BY DEF CallLost, M!CallLost
<1>21. SendMerge => M!SendMerge
  BY SendSeen
<1> QED
  BY ONLY <1>1, <1>2, <1>3, <1>4, <1>5, <1>6, <1>7, <1>8, <1>9, <1>10, <1>11, <1>12, <1>13, <1>14,
     <1>15, <1>16, <1>17, <1>18, <1>19, <1>20, <1>21, Next
  DEF Next, M!Next, Handler, M!Handler, MergeEnvironment, M!MergeEnvironment

-----------------------------------------------------------------------------
(* What a step of the merge stage does to what the deploy stage sees.       *)

\* A row moves from proposal to grant, from grant to use, or ends without success.
RowMoves ==
  \/ UNCHANGED auth
  \/ \E i \in Ids : \E b : \E h :
       /\ auth[i].status = "NONE" /\ ActiveIds = {}
       /\ auth' = [auth EXCEPT ![i] = [status |-> "READY", base |-> b, head |-> h, refs |-> local.refs]]
  \/ \E i \in Ids : \E s :
       /\ SetStatus(i, s)
       /\ \/ auth[i].status = "READY" /\ s = "APPROVED"
          \/ auth[i].status = "APPROVED" /\ s = "EXECUTING"
          \/ auth[i].status \in Pending /\ s \in {"REJECTED", "REVOKED", "STALE", "EXPIRED"}
          \/ auth[i].status = "EXECUTING" /\ s = "UNCERTAIN"

\* The lock is taken when free and given up by its holder; a crash frees it.
LockMoves ==
  /\ \/ UNCHANGED writer
     \/ writer = "nobody" /\ writer' = "pr_merge"
     \/ mcall.pc # "idle" /\ writer' = "nobody"
  /\ mcall'.pc # "idle" => writer' = "pr_merge"
  /\ crashes' # crashes => crashes < MaxCrash /\ crashes' = crashes + 1 /\ writer' = "nobody"

\* Receipts are only added, for the authorization of a call that was sent or is executing.
ReceiptMoves ==
  /\ \A i \in Ids : mrec'[i] = "ok" => mrec[i] = "ok" \/ (auth'[i].status \notin Unspent /\ mcall'.pc = "idle")
  /\ \A i \in Ids : mrec[i] = "ok" => mrec'[i] = "ok"

\* The call in flight used its grant, for which nothing is recorded yet.
CallMoves ==
  /\ mcall'.pc = "begun" => mrec'[mcall'.auth] # "ok"
  /\ mcall'.pc = "merging" => auth'[mcall'.auth].status \notin Unspent

\* Rows of the merge stage are rows to the deploy stage.
LEMMA RowsSeen ==
  ASSUME M!TypeOK, RowMoves
  PROVE  \A i \in Ids :
           /\ auth'[i].status = "SUCCEEDED" => auth[i].status = "SUCCEEDED"
           /\ auth'[i].status = "EXECUTING" => auth[i].status \in Unspent \cup {"EXECUTING"}
           /\ auth[i].status \notin Unspent => auth'[i].refs = auth[i].refs /\ auth'[i].status \notin Unspent
<1>1. auth \in [Ids -> M!Rows]
  BY DEF M!TypeOK
<1>2. CASE UNCHANGED auth
  BY <1>2
<1>3. ASSUME NEW i \in Ids, NEW b, NEW h, auth[i].status = "NONE",
             auth' = [auth EXCEPT ![i] = [status |-> "READY", base |-> b, head |-> h, refs |-> local.refs]]
      PROVE  \A j \in Ids :
           /\ auth'[j].status = "SUCCEEDED" => auth[j].status = "SUCCEEDED"
           /\ auth'[j].status = "EXECUTING" => auth[j].status \in Unspent \cup {"EXECUTING"}
           /\ auth[j].status \notin Unspent => auth'[j].refs = auth[j].refs /\ auth'[j].status \notin Unspent
  BY <1>1, <1>3 DEF Unspent
<1>4. ASSUME NEW i \in Ids, NEW s, SetStatus(i, s),
             \/ auth[i].status = "READY" /\ s = "APPROVED"
             \/ auth[i].status = "APPROVED" /\ s = "EXECUTING"
             \/ auth[i].status \in Pending /\ s \in {"REJECTED", "REVOKED", "STALE", "EXPIRED"}
             \/ auth[i].status = "EXECUTING" /\ s = "UNCERTAIN"
      PROVE  \A j \in Ids :
           /\ auth'[j].status = "SUCCEEDED" => auth[j].status = "SUCCEEDED"
           /\ auth'[j].status = "EXECUTING" => auth[j].status \in Unspent \cup {"EXECUTING"}
           /\ auth[j].status \notin Unspent => auth'[j].refs = auth[j].refs /\ auth'[j].status \notin Unspent
  BY <1>1, <1>4 DEF Unspent, Pending, SetStatus, M!Rows
<1> QED
  BY <1>2, <1>3, <1>4 DEF RowMoves

\* A proposal is made only when nothing is active, so one row at most is.
LEMMA OneActiveKept ==
  ASSUME M!TypeOK, RowMoves,
         \A i, j \in Ids : auth[i].status \in Active /\ auth[j].status \in Active => i = j
  PROVE  \A i, j \in Ids : auth'[i].status \in Active /\ auth'[j].status \in Active => i = j
<1>1. auth \in [Ids -> M!Rows]
  BY DEF M!TypeOK
<1>2. CASE UNCHANGED auth
  BY <1>2
<1>3. ASSUME NEW k \in Ids, NEW b, NEW h, ActiveIds = {},
             auth' = [auth EXCEPT ![k] = [status |-> "READY", base |-> b, head |-> h, refs |-> local.refs]]
      PROVE  \A i, j \in Ids : auth'[i].status \in Active /\ auth'[j].status \in Active => i = j
  BY <1>1, <1>3 DEF ActiveIds
<1>4. ASSUME NEW k \in Ids, NEW s, SetStatus(k, s), auth[k].status \in Active
      PROVE  \A i, j \in Ids : auth'[i].status \in Active /\ auth'[j].status \in Active => i = j
  <2>1. \A i \in Ids : auth'[i].status \in Active => auth[i].status \in Active
    BY <1>1, <1>4 DEF SetStatus, M!Rows
  <2> QED
    BY <2>1
<1> QED
  BY <1>2, <1>3, <1>4 DEF RowMoves, Active, Pending

\* A call returns, or goes on to a read, and nothing was recorded.
LEMMA CallOnly ==
  ASSUME LinkInv, Return \/ (mcall'.pc \in Reading \cup {"idle"} /\ writer' = "pr_merge"),
         mcall.pc # "idle", UNCHANGED mrec,
         crashes' # crashes => crashes < MaxCrash /\ crashes' = crashes + 1 /\ writer' = "nobody"
  PROVE  LockMoves /\ ReceiptMoves /\ CallMoves
<1>1. writer = "pr_merge"
  BY DEF LinkInv, Locked
<1>2. Return => mcall'.pc = "idle" /\ writer' = "nobody"
  BY DEF Return, Idle
<1> QED
  BY <1>1, <1>2 DEF LockMoves, ReceiptMoves, CallMoves, Reading

\* Outside a call's own step its bookkeeping stays.
LEMMA CallAside ==
  ASSUME LinkInv, RowMoves, mcall'.pc = mcall.pc, mcall'.auth = mcall.auth,
         UNCHANGED <<mrec, writer, crashes>>
  PROVE  LockMoves /\ ReceiptMoves /\ CallMoves
<1>1. M!TypeOK /\ Locked /\ CallIsUnpaid /\ M!CallOwnsRow
  BY DEF LinkInv, M!MInv
<1>2. mcall.pc = "merging" => mcall.auth \in Ids
  BY <1>1 DEF M!CallOwnsRow
<1>3. mcall.pc = "merging" => auth'[mcall.auth].status \notin Unspent
  BY <1>1, <1>2, RowsSeen DEF CallIsUnpaid
<1> QED
  BY <1>1, <1>3 DEF LockMoves, ReceiptMoves, CallMoves, CallIsUnpaid, Locked

\* Every action of the merge stage moves rows, lock, receipts and the call so.
LEMMA MergeMoves ==
  ASSUME LinkInv, Next
  PROVE  /\ RowMoves /\ LockMoves /\ ReceiptMoves /\ CallMoves
         /\ UNCHANGED sent \/ SendMerge
<1> DEFINE Goal == /\ RowMoves /\ LockMoves /\ ReceiptMoves /\ CallMoves
                   /\ UNCHANGED sent \/ SendMerge
<1>0. /\ M!TypeOK /\ Locked /\ CallIsUnpaid /\ M!CallOwnsRow /\ ReceiptIsSpent
      /\ mcall.pc # "idle" => writer = "pr_merge"
  BY DEF LinkInv, M!MInv, Locked
<1>1. StartMerge => Goal
  <2> SUFFICES ASSUME StartMerge PROVE Goal
    OBVIOUS
  <2>1. UNCHANGED <<auth, mrec, sent, crashes>> /\ writer = "nobody" /\ writer' = "pr_merge"
    BY DEF StartMerge, ledger
  <2>2. mcall'.pc \in Reading
    <3>1. CASE ActiveIds = {} /\ mcall' = Call("prepare", NoId)
      BY <3>1 DEF Call, Reading
    <3>2. ASSUME NEW i \in ActiveIds, mcall' = Call(EntryPhase[auth[i].status], i) PROVE mcall'.pc \in Reading
      <4>1. auth[i].status \in {"READY", "APPROVED", "EXECUTING"}
        BY DEF ActiveIds, Active, Pending
      <4>2. EntryPhase[auth[i].status] \in Reading
        BY <4>1 DEF EntryPhase, Reading
      <4> QED
        BY <4>2, <3>2 DEF Call
    <3> QED
      BY <3>1, <3>2 DEF StartMerge
  <2> QED
    BY <2>1, <2>2 DEF RowMoves, LockMoves, ReceiptMoves, CallMoves, Reading
<1>2. GithubAnswers => Goal
  <2> SUFFICES ASSUME GithubAnswers PROVE Goal
    OBVIOUS
  <2>1. UNCHANGED <<auth, mrec, sent, writer, crashes>> /\ mcall.pc \in Reading
        /\ \E w : mcall' = [mcall EXCEPT !.view = w]
    BY DEF GithubAnswers, ledger
  <2>2. mcall'.pc = mcall.pc /\ mcall'.auth = mcall.auth
    BY <2>1, <1>0 DEF M!TypeOK, M!Calls
  <2> QED
    BY <2>1, <2>2, CallAside DEF RowMoves
<1>3. GiveUp => Goal
  BY CallOnly DEF GiveUp, RowMoves, ledger, Reading
<1>4. ASSUME NEW i \in Ids, Prepare(i) PROVE Goal
  <2>1. RowMoves
    BY <1>4 DEF Prepare, RowMoves
  <2>2. mcall.pc # "idle" /\ Return /\ UNCHANGED <<mrec, sent, crashes>>
    BY <1>4 DEF Prepare, Answered
  <2> QED
    BY <2>1, <2>2, CallOnly
<1>5. RecheckReady => Goal
  <2> SUFFICES ASSUME RecheckReady PROVE Goal
    OBVIOUS
  <2>1. mcall.pc = "recheckReady" /\ UNCHANGED <<mrec, sent, crashes>>
        /\ (UNCHANGED auth \/ MarkStale(mcall.auth, "READY")) /\ (Return \/ Enter("prepare", NoId))
    BY DEF RecheckReady, Answered
  <2>2. mcall.auth \in Ids
    BY <2>1, <1>0 DEF M!CallOwnsRow
  <2>3. RowMoves
    BY <2>1, <2>2 DEF RowMoves, MarkStale, Pending
  <2>4. Enter("prepare", NoId) => mcall'.pc \in Reading /\ writer' = writer
    BY DEF Enter, Call, Reading
  <2> QED
    BY <2>1, <2>3, <2>4, <1>0, CallOnly
<1>6. RecheckApproved => Goal
  <2> SUFFICES ASSUME RecheckApproved PROVE Goal
    OBVIOUS
  <2>1. mcall.pc = "recheckApproved" /\ UNCHANGED <<mrec, sent, crashes>>
        /\ (UNCHANGED auth \/ MarkStale(mcall.auth, "APPROVED")) /\ (Return \/ Enter("inspect", mcall.auth))
    BY DEF RecheckApproved, Answered
  <2>2. mcall.auth \in Ids
    BY <2>1, <1>0 DEF M!CallOwnsRow
  <2>3. RowMoves
    BY <2>1, <2>2 DEF RowMoves, MarkStale, Pending
  <2>4. Enter("inspect", mcall.auth) => mcall'.pc \in Reading /\ writer' = writer
    BY DEF Enter, Call, Reading
  <2> QED
    BY <2>1, <2>3, <2>4, <1>0, CallOnly
<1>7. Begin => Goal
  <2> SUFFICES ASSUME Begin PROVE Goal
    OBVIOUS
  <2>1. mcall.pc = "inspect" /\ auth[mcall.auth].status = "APPROVED" /\ SetStatus(mcall.auth, "EXECUTING")
        /\ mcall' = [mcall EXCEPT !.pc = "begun"] /\ UNCHANGED <<mrec, sent, writer, crashes>>
    BY DEF Begin, Answered
  <2>2. mcall.auth \in Ids /\ mcall'.pc = "begun" /\ mcall'.auth = mcall.auth
    BY <2>1, <1>0 DEF M!CallOwnsRow, M!TypeOK, M!Calls
  <2>3. mrec[mcall.auth] # "ok"
    BY <2>1, <2>2, <1>0 DEF ReceiptIsSpent, Unspent, Pending
  <2> QED
    BY <2>1, <2>2, <2>3, <1>0 DEF RowMoves, LockMoves, ReceiptMoves, CallMoves, Pending
<1>8. RefreshFails \/ MergeNotConfirmed => Goal
  <2>1. Enter("observe", mcall.auth) => mcall'.pc \in Reading /\ writer' = writer
    BY DEF Enter, Call, Reading
  <2> QED
    BY <2>1, <1>0, CallOnly DEF RefreshFails, MergeNotConfirmed, ledger, RowMoves
<1>9. SendMerge => Goal
  <2> SUFFICES ASSUME SendMerge PROVE Goal
    OBVIOUS
  <2>1. mcall.pc = "begun" /\ mcall' = [mcall EXCEPT !.pc = "merging"] /\ UNCHANGED <<auth, mrec, writer, crashes>>
    BY DEF SendMerge
  <2>2. mcall'.pc = "merging" /\ mcall'.auth = mcall.auth /\ auth[mcall.auth].status = "EXECUTING"
    BY <2>1, <1>0 DEF M!CallOwnsRow, M!TypeOK, M!Calls
  <2> QED
    BY <2>1, <2>2, <1>0 DEF RowMoves, LockMoves, ReceiptMoves, CallMoves, Unspent, Pending
<1>10. RecordMerge \/ ObserveExact => Goal
  <2> SUFFICES ASSUME RecordMerge \/ ObserveExact PROVE Goal
    OBVIOUS
  <2>1. mcall.pc \in {"merging", "observe"} /\ Persist(mcall.auth) /\ Return /\ UNCHANGED <<auth, sent>>
        /\ (mcall.pc = "merging" \/ auth[mcall.auth].status = "EXECUTING")
    BY DEF RecordMerge, ObserveExact, Confirmed, Answered
  <2>2. mcall.auth \in Ids /\ auth'[mcall.auth].status \notin Unspent
    BY <2>1, <1>0 DEF M!CallOwnsRow, CallIsUnpaid, Unspent, Pending
  <2>3. mcall'.pc = "idle" /\ writer' = "nobody"
    BY <2>1 DEF Return, Idle
  <2>4. mrec \in [Ids -> {"none", "ok", "torn"}]
    BY <1>0 DEF M!TypeOK
  <2>5. ReceiptMoves
    <3>1. CASE mrec' = [mrec EXCEPT ![mcall.auth] = "ok"]
      BY <3>1, <2>2, <2>3, <2>4 DEF ReceiptMoves
    <3>2. CASE mrec[mcall.auth] = "none" /\ mrec' = [mrec EXCEPT ![mcall.auth] = "torn"]
      BY <3>2, <2>2, <2>3, <2>4 DEF ReceiptMoves
    <3> QED
      BY <3>1, <3>2, <2>1 DEF Persist
  <2>6. crashes' # crashes => crashes < MaxCrash /\ crashes' = crashes + 1
    BY <2>1 DEF Persist
  <2> QED
    BY <2>1, <2>3, <2>5, <2>6, <1>0 DEF RowMoves, LockMoves, CallMoves
<1>11. CondemnMerge => Goal
  <2> SUFFICES ASSUME CondemnMerge PROVE Goal
    OBVIOUS
  <2>1. mcall.pc = "merging" /\ MarkUncertain(mcall.auth) /\ Return /\ UNCHANGED <<mrec, sent, crashes>>
    BY DEF CondemnMerge
  <2>2. RowMoves
    BY <2>1, <1>0 DEF RowMoves, MarkUncertain, M!CallOwnsRow
  <2> QED
    BY <2>1, <2>2, CallOnly
<1>12. ObserveInexact => Goal
  <2> SUFFICES ASSUME ObserveInexact PROVE Goal
    OBVIOUS
  <2>1. mcall.pc = "observe" /\ auth[mcall.auth].status = "EXECUTING" /\ SetStatus(mcall.auth, "UNCERTAIN")
        /\ Return /\ UNCHANGED <<mrec, sent, crashes>>
    BY DEF ObserveInexact, Confirmed, Answered
  <2>2. RowMoves
    BY <2>1, <1>0 DEF RowMoves, M!CallOwnsRow
  <2> QED
    BY <2>1, <2>2, CallOnly
<1>13. ASSUME NEW i \in Ids, GithubMerges(i) \/ GithubRefuses(i) PROVE Goal
  <2>1. UNCHANGED <<auth, mrec, sent, writer, crashes>> /\ \E a : Reply(i, a)
    BY <1>13 DEF GithubMerges, GithubRefuses, ledger
  <2>2. mcall'.pc = mcall.pc /\ mcall'.auth = mcall.auth
    BY <2>1, <1>0 DEF Reply, M!TypeOK, M!Calls
  <2> QED
    BY <2>1, <2>2, CallAside DEF RowMoves
<1>14. OthersAct \/ AgentCommits \/ ActionChanges => Goal
  BY CallAside DEF OthersAct, AgentCommits, ActionChanges, ledger, RowMoves
<1>15. ASSUME NEW i \in Ids, HumanOrSweep(i) PROVE Goal
  <2>1. RowMoves /\ UNCHANGED <<mrec, sent, mcall, writer, crashes>>
    <3>1. \E s : /\ SetStatus(i, s)
                 /\ \/ auth[i].status = "READY" /\ s = "APPROVED"
                    \/ auth[i].status \in Pending /\ s \in {"REJECTED", "REVOKED", "STALE", "EXPIRED"}
      BY <1>15 DEF HumanOrSweep, Pending
    <3> QED
      BY <3>1, <1>15 DEF HumanOrSweep, RowMoves
  <2> QED
    BY <2>1, CallAside
<1>16. CallLost => Goal
  <2>1. CallLost => Return /\ mcall.pc # "idle" /\ UNCHANGED <<mrec, auth, sent>> /\ crashes < MaxCrash /\ crashes' = crashes + 1
    BY DEF CallLost, ledger
  <2>2. Return => writer' = "nobody"
    BY DEF Return
  <2> QED
    BY <2>1, <2>2, CallOnly DEF RowMoves
<1> QED
  BY <1>1, <1>2, <1>3, <1>4, <1>5, <1>6, <1>7, <1>8, <1>9, <1>10, <1>11, <1>12, <1>13, <1>14, <1>15, <1>16
  DEF Next, Handler, MergeEnvironment

\* What the deploy stage sees of the merge stage is typed.
LEMMA SeenTyped ==
  ASSUME M!TypeOK'
  PROVE  /\ LocalD' \in [refs : {1, 2}] /\ AuthD' \in [Ids -> D!Rows]
         /\ mrec' \in [Ids -> {"none", "ok", "torn"}] /\ crashes' \in 0..MaxCrash
<1>1. local' \in [head : {1, 2}, refs : {1, 2}] /\ auth' \in [Ids -> M!Rows]
  BY DEF M!TypeOK, M!Heads, M!Refs
<1>2. \A i \in Ids : auth'[i].status \in D!Statuses /\ auth'[i].refs \in {1, 2}
  BY <1>1 DEF M!Rows, M!Status, M!Refs, M!Active, M!Pending, D!Statuses
<1> QED
  BY <1>1, <1>2 DEF LocalD, AuthD, D!Rows, M!TypeOK

\* A step of the merge stage is one of the deploy stage's surroundings.
LEMMA MergeIsOutside ==
  ASSUME LinkInv, Next, M!TypeOK', D!OneActive
  PROVE  D!Outside
<1>0. M!TypeOK /\ D!Typed
  BY DEF LinkInv, M!MInv
<1>1. RowMoves /\ (UNCHANGED sent \/ SendMerge)
  BY MergeMoves
<1>2. \A i \in Ids : /\ AuthD[i].status = auth[i].status /\ AuthD[i].refs = auth[i].refs
                     /\ AuthD'[i].status = auth'[i].status /\ AuthD'[i].refs = auth'[i].refs
  BY DEF AuthD
<1>3. D!RowsKept
  BY <1>0, <1>1, <1>2, RowsSeen, SeenTyped DEF D!RowsKept, D!Unused, Unspent, Pending
<1>4. \A i \in Ids :
       /\ AuthD'[i].status = "SUCCEEDED" => AuthD[i].status = "SUCCEEDED"
       /\ AuthD'[i].status = "EXECUTING" => AuthD[i].status \in D!Unused \cup {"EXECUTING"}
  BY <1>0, <1>1, <1>2, RowsSeen DEF D!Unused, Unspent, Pending
<1>5. D!OneActive'
  <2>1. \A i, j \in Ids : auth[i].status \in Active /\ auth[j].status \in Active => i = j
    BY <1>2 DEF D!OneActive, D!Active, Active, Pending
  <2>2. \A i, j \in Ids : auth'[i].status \in Active /\ auth'[j].status \in Active => i = j
    BY <1>0, <1>1, <2>1, OneActiveKept
  <2> QED
    BY <1>2, <2>2 DEF D!OneActive, D!Active, Active, Pending
<1>6. UNCHANGED sent \/ \E i \in Ids : sent' = [sent EXCEPT ![i] = Append(@, "merge")]
  BY <1>1, SendSeen DEF SendMerge
<1> QED
  BY <1>3, <1>4, <1>5, <1>6, SeenTyped DEF D!Outside

\* The deploy stage's own part of a step of the merge stage: nothing, or the crash.
LEMMA MergeLeaves ==
  ASSUME LinkInv, MergeStep
  PROVE  /\ D!Stays \/ D!Dies
         /\ UNCHANGED <<plan, overdue, drec>>
         /\ UNCHANGED <<jobs, dcall, vcall>> \/ (jobs' \in D!Restarted(jobs) /\ D!CallsLost)
         /\ writer' \in {"nobody", "pr_merge", "deploy"} /\ D!LockHeld'
<1>0. D!Typed /\ Locked /\ LockMoves
  BY MergeMoves DEF LinkInv, MergeStep
<1>1. writer' \in {"nobody", "pr_merge", "deploy"}
  BY <1>0 DEF LockMoves, D!Typed
<1>2. CASE crashes' = crashes
  <2>1. UNCHANGED <<plan, overdue, drec, jobs, dcall, vcall, crashes>>
    BY <1>2 DEF MergeStep, own
  <2>2. dcall.pc # "idle" => writer' = writer
    BY <1>0 DEF Locked, LockMoves, D!LockHeld
  <2> QED
    BY <1>0, <1>1, <2>1, <2>2 DEF D!Stays, D!Typed, D!LockHeld, Locked
<1>3. CASE crashes' # crashes
  <2>1. crashes < MaxCrash /\ crashes' = crashes + 1 /\ writer' = "nobody"
    BY <1>0, <1>3 DEF LockMoves
  <2>2. D!CallsLost /\ jobs' \in D!Restarted(jobs) /\ UNCHANGED <<plan, overdue, drec>>
    BY <1>3 DEF MergeStep, Deploy!CallsLost, D!CallsLost, Deploy!Idle, D!Idle, Deploy!NoReceipt, D!NoReceipt,
       Deploy!Restarted, D!Restarted
  <2>3. D!LockHeld'
    BY <2>2 DEF D!CallsLost, D!Idle, D!LockHeld
  <2> QED
    BY <1>1, <2>1, <2>2, <2>3 DEF D!Dies, D!Restart
<1> QED
  BY <1>2, <1>3

\* A step of the merge stage keeps what links the stages.
LEMMA MergeKeepsLink ==
  ASSUME LinkInv, MergeStep
  PROVE  LinkInv'
<1>0. Next /\ M!MInv /\ D!Typed /\ Locked /\ ReceiptIsSpent /\ CallIsUnpaid /\ D!Paid
  BY DEF LinkInv, MergeStep
<1>1. M!MInv' /\ M!TypeOK /\ M!TypeOK'
  <2>1. M!MInv'
    BY <1>0, MergeSeen, M!MergeStepKeeps, Assumed
  <2> QED
    BY <1>0, <2>1 DEF M!MInv
<1>2. RowMoves /\ LockMoves /\ ReceiptMoves /\ CallMoves /\ (UNCHANGED sent \/ SendMerge)
  BY <1>0, MergeMoves
<1>3. /\ UNCHANGED <<plan, overdue, drec>>
      /\ UNCHANGED <<jobs, dcall, vcall>> \/ (jobs' \in D!Restarted(jobs) /\ D!CallsLost)
      /\ writer' \in {"nobody", "pr_merge", "deploy"} /\ D!LockHeld'
  BY MergeLeaves
<1>4. sent' \in [Ids -> Seq(D!Effects)]
      /\ \A i \in Ids : (D!Did(i, "deploy")' <=> D!Did(i, "deploy")) /\ (D!Did(i, "verify")' <=> D!Did(i, "verify"))
  BY <1>0, <1>2, SendSeen DEF D!Typed, D!Did
<1>5. jobs' \in Seq(D!JobRows) /\ Len(jobs') <= MaxJobs
  BY <1>0, <1>3, D!RestartedJobs, Assumed DEF D!Typed
<1>6. dcall' \in D!Calls /\ vcall' \in [Verifiers -> D!Calls]
  BY <1>0, <1>3, D!IdleCall, Assumed DEF D!CallsLost, D!Typed
<1>7. D!Typed'
  <2>1. plan' \in Plans /\ overdue' \subseteq Ids /\ drec' \in D!Receipts
    BY <1>0, <1>3 DEF D!Typed
  <2> QED
    BY <2>1, <1>1, <1>3, <1>4, <1>5, <1>6, SeenTyped DEF D!Typed
<1>8. Locked'
  BY <1>2, <1>3 DEF Locked, LockMoves
<1>9. ReceiptIsSpent'
  <2>1. \A i \in Ids : auth[i].status \notin Unspent => auth'[i].status \notin Unspent
    BY <1>1, <1>2, RowsSeen
  <2> QED
    BY <1>0, <1>2, <2>1 DEF ReceiptIsSpent, ReceiptMoves
<1>10. CallIsUnpaid'
  BY <1>2 DEF CallMoves, CallIsUnpaid
<1>11. D!Paid'
  <2>1. \A i \in Ids : mrec[i] = "ok" => mrec'[i] = "ok"
    BY <1>2 DEF ReceiptMoves
  <2>2. drec'.auth \in Ids => mrec'[drec'.auth] = "ok"
    BY <1>0, <1>3, <2>1 DEF D!Paid, D!PaidFor
  <2>3. D!Idle.receipt.auth \notin Ids
    BY Assumed DEF D!Idle, D!NoReceipt
  <2>4. dcall'.receipt.auth \in Ids => mrec'[dcall'.receipt.auth] = "ok"
    BY <1>0, <1>3, <2>1, <2>3 DEF D!Paid, D!PaidFor, D!CallsLost
  <2>5. \A v \in Verifiers : vcall'[v].receipt.auth \in Ids => mrec'[vcall'[v].receipt.auth] = "ok"
    BY <1>0, <1>3, <2>1, <2>3 DEF D!Paid, D!PaidFor, D!CallsLost
  <2>6. \A i \in Ids : D!Did(i, "deploy")' \/ D!Did(i, "verify")' => mrec'[i] = "ok"
    BY <1>0, <1>4, <2>1 DEF D!Paid
  <2> QED
    BY <2>2, <2>4, <2>5, <2>6 DEF D!Paid, D!PaidFor
<1> QED
  BY <1>1, <1>7, <1>8, <1>9, <1>10, <1>11 DEF LinkInv

\* It keeps the deploy stage's invariant too.
LEMMA MergeKeepsDeploy ==
  ASSUME LinkInv, D!DInv, MergeStep
  PROVE  D!DInv'
<1>1. M!TypeOK'
  BY MergeKeepsLink DEF LinkInv, M!MInv
<1>2. D!Outside
  BY <1>1, MergeIsOutside DEF MergeStep, D!DInv
<1>3. D!Stays \/ D!Dies
  BY MergeLeaves
<1> QED
  BY <1>2, <1>3, D!OutsideKeeps, Assumed

-----------------------------------------------------------------------------
(* A step of the deploy stage, as the deploy stage's own proofs see it.     *)

\* What does not read the rows is the same there and here.
LEMMA SameData ==
  /\ Deploy!NoReceipt = D!NoReceipt /\ Deploy!Idle = D!Idle /\ Deploy!JobEnds = D!JobEnds
  /\ \A r, e : Deploy!DeployOutcome(r, e) = D!DeployOutcome(r, e)
  /\ \A r, e : Deploy!VerifyOutcome(r, e) = D!VerifyOutcome(r, e)
  /\ \A k : Deploy!Ended(k) <=> D!Ended(k)
  /\ \A x, i : Deploy!Started(x, i) = D!Started(x, i)
  /\ \A js : Deploy!Restarted(js) = D!Restarted(js)
  /\ \A i : Deploy!NewReceipt(i) = D!NewReceipt(i)
<1>1. /\ Deploy!NoReceipt = D!NoReceipt /\ Deploy!Idle = D!Idle /\ Deploy!JobEnds = D!JobEnds
  BY DEF Deploy!NoReceipt, D!NoReceipt, Deploy!Idle, D!Idle, Deploy!JobEnds, D!JobEnds
<1>2. \A r, e : Deploy!DeployOutcome(r, e) = D!DeployOutcome(r, e)
  BY DEF Deploy!DeployOutcome, D!DeployOutcome
<1>3. \A r, e : Deploy!VerifyOutcome(r, e) = D!VerifyOutcome(r, e)
  BY DEF Deploy!VerifyOutcome, D!VerifyOutcome
<1>4. \A k : Deploy!Ended(k) <=> D!Ended(k)
  BY DEF Deploy!Ended, D!Ended
<1>5. \A x, i : Deploy!Started(x, i) = D!Started(x, i)
  BY DEF Deploy!Started, D!Started, Deploy!Job, D!Job
<1>6. \A js : Deploy!Restarted(js) = D!Restarted(js)
  BY DEF Deploy!Restarted, D!Restarted
<1>7. \A i : Deploy!NewReceipt(i) = D!NewReceipt(i)
  <2>1. LocalD.refs = local.refs
    BY DEF LocalD
  <2> QED
    BY <2>1, <1>1 DEF Deploy!NewReceipt, D!NewReceipt
<1> QED
  BY <1>1, <1>2, <1>3, <1>4, <1>5, <1>6, <1>7

\* A row allows there what it allows here.
LEMMA SameGuards ==
  /\ \A i : Deploy!Authorized(i) <=> D!Authorized(i)
  /\ \A i : Deploy!MayDeploy(i) <=> D!MayDeploy(i)
  /\ \A v : Deploy!MayVerify(v) <=> D!MayVerify(v)
  /\ \A v : Deploy!DeployJobEnded(v) <=> D!DeployJobEnded(v)
  /\ \A v : Deploy!Deployed(v) = D!Deployed(v)
<1>0. /\ LocalD.refs = local.refs
      /\ \A i \in Ids : AuthD[i].status = auth[i].status /\ AuthD[i].refs = auth[i].refs
  BY DEF LocalD, AuthD
<1>1. \A i : Deploy!Authorized(i) <=> D!Authorized(i)
  BY <1>0 DEF Deploy!Authorized, D!Authorized
<1>2. \A i : Deploy!MayDeploy(i) <=> D!MayDeploy(i)
  BY <1>1, SameData DEF Deploy!MayDeploy, D!MayDeploy
<1>3. Deploy!ActiveIds = D!ActiveIds
  BY <1>0 DEF Deploy!ActiveIds, D!ActiveIds, Deploy!Active, D!Active
<1>4. \A v : Deploy!MayVerify(v) <=> D!MayVerify(v)
  BY <1>0, <1>3, SameData DEF Deploy!MayVerify, D!MayVerify
<1>5. \A v : Deploy!DeployJobEnded(v) <=> D!DeployJobEnded(v)
  BY <1>1, <1>4, SameData DEF Deploy!DeployJobEnded, D!DeployJobEnded
<1>6. ASSUME NEW v PROVE Deploy!Deployed(v) = D!Deployed(v)
  BY <1>1, <1>4, <1>5 DEF Deploy!Deployed, D!Deployed
<1> QED
  BY <1>1, <1>2, <1>4, <1>5, <1>6

\* A verify call concludes there what it concludes here.
LEMMA SameConclusions ==
  ASSUME NEW v
  PROVE  Deploy!Conclusions(v) = D!Conclusions(v)
<1>1. /\ \A r, e : Deploy!DeployOutcome(r, e) = D!DeployOutcome(r, e)
      /\ \A r, e : Deploy!VerifyOutcome(r, e) = D!VerifyOutcome(r, e)
      /\ \A k : Deploy!Ended(k) <=> D!Ended(k)
      /\ Deploy!DeployJobEnded(v) <=> D!DeployJobEnded(v)
      /\ Deploy!Deployed(v) = D!Deployed(v)
  BY SameData, SameGuards
<1> DEFINE P1 == {Deploy!DeployOutcome(drec, jobs[k].state) :
                    k \in {k \in {drec.djob} : Deploy!DeployJobEnded(v) /\ jobs[k].state # "exact"}}
           P2 == {Deploy!VerifyOutcome(r, jobs[r.vjob].state) :
                    r \in {r \in Deploy!Deployed(v) : plan.verify = "profile" /\ Deploy!Ended(r.vjob)}}
           P3 == {Deploy!VerifyOutcome(c.receipt, "missing") :
                    c \in {c \in {vcall[v]} : c.pc = "role" /\ c.receipt.verify = "running"}}
           P4 == {Deploy!VerifyOutcome(c.receipt, e) :
                    c \in {c \in {vcall[v]} : c.pc = "invoking"}, e \in {"exact", "other", "missing"}}
           Q1 == {D!DeployOutcome(drec, jobs[k].state) :
                    k \in {k \in {drec.djob} : D!DeployJobEnded(v) /\ jobs[k].state # "exact"}}
           Q2 == {D!VerifyOutcome(r, jobs[r.vjob].state) :
                    r \in {r \in D!Deployed(v) : plan.verify = "profile" /\ D!Ended(r.vjob)}}
           Q3 == {D!VerifyOutcome(c.receipt, "missing") :
                    c \in {c \in {vcall[v]} : c.pc = "role" /\ c.receipt.verify = "running"}}
           Q4 == {D!VerifyOutcome(c.receipt, e) :
                    c \in {c \in {vcall[v]} : c.pc = "invoking"}, e \in {"exact", "other", "missing"}}
<1>2. P1 = Q1
  BY <1>1
<1>3. P2 = Q2
  BY <1>1
<1>4. P3 = Q3
  BY <1>1
<1>5. P4 = Q4
  BY <1>1
<1>6. Deploy!Conclusions(v) = P1 \cup P2 \cup P3 \cup P4
  BY DEF Deploy!Conclusions
<1>7. D!Conclusions(v) = Q1 \cup Q2 \cup Q3 \cup Q4
  BY DEF D!Conclusions
<1> HIDE DEF P1, P2, P3, P4, Q1, Q2, Q3, Q4
<1> QED
  BY <1>2, <1>3, <1>4, <1>5, <1>6, <1>7

\* An outcome ends the row there as it does here; the Gateway dies alike.
LEMMA SameWrites ==
  ASSUME M!TypeOK
  PROVE  /\ \A i, s : Deploy!EndAs(i, s) => D!EndAs(i, s)
         /\ \A o : Deploy!Judge(o) => D!Judge(o)
         /\ \A x, i : Deploy!StartJob(x, i) => D!StartJob(x, i)
         /\ Deploy!Restart => D!Restart
         /\ UNCHANGED local => UNCHANGED LocalD
         /\ UNCHANGED auth => UNCHANGED AuthD
<1>0. auth \in [Ids -> M!Rows]
  BY DEF M!TypeOK
<1>1. ASSUME NEW i, NEW s, Deploy!EndAs(i, s) PROVE D!EndAs(i, s)
  <2>1. CASE i \in Ids
    <3>1. AuthD[i].status = auth[i].status
      BY <2>1 DEF AuthD
    <3>2. CASE s # "EXECUTING" /\ auth[i].status = "EXECUTING"
      <4>1. auth' = [auth EXCEPT ![i].status = s]
        BY <1>1, <3>2 DEF Deploy!EndAs
      <4>2. \A j \in Ids : auth'[j].refs = auth[j].refs /\ auth'[j].status = (IF j = i THEN s ELSE auth[j].status)
        BY <4>1, <1>0 DEF M!Rows
      <4>3. AuthD' = [AuthD EXCEPT ![i].status = s]
        BY <4>2, <2>1 DEF AuthD
      <4> QED
        BY <4>3, <3>1, <3>2 DEF D!EndAs
    <3>3. CASE ~(s # "EXECUTING" /\ auth[i].status = "EXECUTING")
      <4>1. auth' = auth
        BY <1>1, <3>3 DEF Deploy!EndAs
      <4> QED
        BY <4>1, <3>1, <3>3 DEF D!EndAs, AuthD
    <3> QED
      BY <3>2, <3>3
  <2>2. CASE i \notin Ids
    <3>1. auth' = auth
      BY <1>0, <1>1, <2>2 DEF Deploy!EndAs
    <3>2. AuthD' = AuthD /\ \A r : [AuthD EXCEPT ![i] = r] = AuthD
      BY <3>1, <2>2 DEF AuthD
    <3> QED
      BY <3>2 DEF D!EndAs
  <2> QED
    BY <2>1, <2>2
<1>2. \A o : Deploy!Judge(o) => D!Judge(o)
  BY <1>1 DEF Deploy!Judge, D!Judge
<1>3. \A x, i : Deploy!StartJob(x, i) => D!StartJob(x, i)
  BY DEF Deploy!StartJob, D!StartJob
<1>4. Deploy!Restart => D!Restart
  BY SameData DEF Deploy!Restart, D!Restart, Deploy!CallsLost, D!CallsLost
<1> QED
  BY <1>1, <1>2, <1>3, <1>4 DEF LocalD, AuthD

\* Every step of the deploy calls is one to their proofs.
LEMMA DeploysSeen ==
  ASSUME M!TypeOK, Deploy!Deploys
  PROVE  D!Deploys
<1>0. /\ \A o : Deploy!Judge(o) => D!Judge(o)
      /\ \A x, i : Deploy!StartJob(x, i) => D!StartJob(x, i)
      /\ Deploy!Restart => D!Restart
      /\ UNCHANGED local => UNCHANGED LocalD
      /\ UNCHANGED auth => UNCHANGED AuthD
  BY SameWrites
<1>1. ASSUME NEW i \in Ids, Deploy!DeployProfile(i) PROVE D!DeployProfile(i)
  BY <1>0, <1>1, SameData, SameGuards DEF Deploy!DeployProfile, D!DeployProfile
<1>2. ASSUME NEW i \in Ids, Deploy!DeployProfileCrash(i) PROVE D!DeployProfileCrash(i)
  BY <1>0, <1>2, SameData, SameGuards DEF Deploy!DeployProfileCrash, D!DeployProfileCrash
<1>3. ASSUME NEW i \in Ids, Deploy!DeployCapability(i) PROVE D!DeployCapability(i)
  BY <1>0, <1>3, SameData, SameGuards DEF Deploy!DeployCapability, D!DeployCapability
<1>4. Deploy!DeployRefused => D!DeployRefused
  BY <1>0, SameData DEF Deploy!DeployRefused, D!DeployRefused
<1>5. Deploy!SaveDeployIntent => D!SaveDeployIntent
  BY <1>0, SameData DEF Deploy!SaveDeployIntent, D!SaveDeployIntent, Deploy!shared, D!shared
<1>6. Deploy!InvokeDeploy => D!InvokeDeploy
  BY <1>0, SameData DEF Deploy!InvokeDeploy, D!InvokeDeploy
<1>7. Deploy!DeployAnswered => D!DeployAnswered
  BY <1>0, SameData DEF Deploy!DeployAnswered, D!DeployAnswered
<1>8. Deploy!DeployAnsweredCrash => D!DeployAnsweredCrash
  BY <1>0, SameData DEF Deploy!DeployAnsweredCrash, D!DeployAnsweredCrash
<1> QED
  BY <1>1, <1>2, <1>3, <1>4, <1>5, <1>6, <1>7, <1>8 DEF Deploy!Deploys, D!Deploys

\* Every step of a verify call is one to its proofs.
LEMMA VerifiesSeen ==
  ASSUME M!TypeOK, NEW v \in Verifiers, Deploy!Verifies(v)
  PROVE  D!Verifies(v)
<1>0. /\ \A o : Deploy!Judge(o) => D!Judge(o)
      /\ \A x, i : Deploy!StartJob(x, i) => D!StartJob(x, i)
      /\ Deploy!Restart => D!Restart
      /\ UNCHANGED local => UNCHANGED LocalD
      /\ UNCHANGED auth => UNCHANGED AuthD
  BY SameWrites
<1>1. Deploy!VerifyProfile(v) => D!VerifyProfile(v)
  BY <1>0, SameData, SameGuards DEF Deploy!VerifyProfile, D!VerifyProfile
<1>2. Deploy!VerifyNotStarted(v) => D!VerifyNotStarted(v)
  BY <1>0, SameData, SameGuards DEF Deploy!VerifyNotStarted, D!VerifyNotStarted, Deploy!shared, D!shared
<1>3. Deploy!VerifyProfileCrash(v) => D!VerifyProfileCrash(v)
  BY <1>0, SameData, SameGuards DEF Deploy!VerifyProfileCrash, D!VerifyProfileCrash
<1>4. Deploy!VerifyCapability(v) => D!VerifyCapability(v)
  BY <1>0, SameData, SameGuards DEF Deploy!VerifyCapability, D!VerifyCapability, Deploy!shared, D!shared
<1>5. Deploy!VerifyReturns(v) => D!VerifyReturns(v)
  BY <1>0, SameData DEF Deploy!VerifyReturns, D!VerifyReturns, Deploy!shared, D!shared
<1>6. Deploy!SaveVerifyIntent(v) => D!SaveVerifyIntent(v)
  BY <1>0, SameData DEF Deploy!SaveVerifyIntent, D!SaveVerifyIntent, Deploy!shared, D!shared
<1>7. Deploy!InvokeVerify(v) => D!InvokeVerify(v)
  BY <1>0, SameData DEF Deploy!InvokeVerify, D!InvokeVerify
<1>8. Deploy!Conclude(v) => D!Conclude(v)
  BY <1>0, SameData, SameConclusions DEF Deploy!Conclude, D!Conclude
<1>9. Deploy!ConcludeCrash(v) => D!ConcludeCrash(v)
  BY <1>0, SameData, SameConclusions DEF Deploy!ConcludeCrash, D!ConcludeCrash
<1> QED
  BY <1>1, <1>2, <1>3, <1>4, <1>5, <1>6, <1>7, <1>8, <1>9 DEF Deploy!Verifies, D!Verifies

\* So is what happens around them, and a crash.
LEMMA DeploySeen ==
  ASSUME M!TypeOK, Deploy!DeployNext \/ Deploy!Crash
  PROVE  D!DeployNext \/ D!Crash
<1>0. /\ Deploy!Restart => D!Restart
      /\ UNCHANGED local => UNCHANGED LocalD
      /\ UNCHANGED auth => UNCHANGED AuthD
  BY SameWrites
<1>1. Deploy!Crash => D!Crash
  BY <1>0, SameData DEF Deploy!Crash, D!Crash
<1>2. ASSUME NEW k \in DOMAIN jobs, Deploy!JobFinishes(k) PROVE D!JobFinishes(k)
  BY <1>0, <1>2, SameData DEF Deploy!JobFinishes, D!JobFinishes, Deploy!shared, D!shared
<1>3. ASSUME NEW i \in Ids, Deploy!DeadlinePasses(i) PROVE D!DeadlinePasses(i)
  BY <1>0, <1>3 DEF Deploy!DeadlinePasses, D!DeadlinePasses, Deploy!shared, D!shared, AuthD
<1>5. Deploy!Around => D!Around
  BY <1>2, <1>3 DEF Deploy!Around, D!Around
<1> QED
  BY <1>1, <1>5, DeploysSeen, VerifiesSeen DEF Deploy!DeployNext, D!DeployNext

\* A step of the deploy stage touches no row, or ends one that was paid for.
LEMMA DeployEnds ==
  ASSUME LinkInv, Deploy!DeployNext \/ Deploy!Crash
  PROVE  /\ UNCHANGED <<local, mrec>>
         /\ \/ UNCHANGED auth
            \/ /\ UNCHANGED crashes
               /\ \E i : \E s \in {"EXECUTING", "SUCCEEDED", "FAILED", "UNCERTAIN"} :
                    D!PaidFor(i) /\ Deploy!EndAs(i, s)
<1> DEFINE Ends == /\ UNCHANGED crashes
                   /\ \E i : \E s \in {"EXECUTING", "SUCCEEDED", "FAILED", "UNCERTAIN"} :
                        D!PaidFor(i) /\ Deploy!EndAs(i, s)
<1>0. D!Typed /\ D!Paid
  BY DEF LinkInv
<1>1. Deploy!Deploys => UNCHANGED <<local, mrec>> /\ (UNCHANGED auth \/ Ends)
  <2>1. Deploy!DeployAnswered => UNCHANGED <<local, mrec>> /\ Ends
    <3> SUFFICES ASSUME Deploy!DeployAnswered PROVE UNCHANGED <<local, mrec>> /\ Ends
      OBVIOUS
    <3>1. UNCHANGED <<local, mrec, crashes>>
      BY DEF Deploy!DeployAnswered
    <3>2. PICK e : Deploy!Judge(Deploy!DeployOutcome(dcall.receipt, e))
      BY DEF Deploy!DeployAnswered
    <3>3. dcall.receipt \in D!Receipts
      BY <1>0 DEF D!Typed, D!Calls
    <3> DEFINE o == D!DeployOutcome(dcall.receipt, e)
    <3>4. o.receipt.auth = dcall.receipt.auth /\ o.status \in {"EXECUTING", "FAILED", "UNCERTAIN"}
      BY <3>3, D!OutcomeNames, D!OutcomesTyped, Assumed
    <3>5. Deploy!EndAs(o.receipt.auth, o.status)
      BY <3>2, SameData DEF Deploy!Judge
    <3> HIDE DEF o
    <3>6. D!PaidFor(o.receipt.auth)
      BY <1>0, <3>4 DEF D!Paid, D!PaidFor
    <3> QED
      BY <3>1, <3>4, <3>5, <3>6
  <2>2. Deploy!SaveDeployIntent => UNCHANGED <<local, mrec, auth>>
    BY DEF Deploy!SaveDeployIntent, Deploy!shared
  <2> QED
    BY <2>1, <2>2 DEF Deploy!Deploys, Deploy!DeployProfile, Deploy!DeployProfileCrash, Deploy!DeployCapability,
       Deploy!DeployRefused, Deploy!InvokeDeploy, Deploy!DeployAnsweredCrash
<1>2. ASSUME NEW v \in Verifiers, Deploy!Verifies(v)
      PROVE  UNCHANGED <<local, mrec>> /\ (UNCHANGED auth \/ Ends)
  <2>1. Deploy!Conclude(v) => UNCHANGED <<local, mrec>> /\ Ends
    <3> SUFFICES ASSUME Deploy!Conclude(v) PROVE UNCHANGED <<local, mrec>> /\ Ends
      OBVIOUS
    <3>1. UNCHANGED <<local, mrec, crashes>>
      BY DEF Deploy!Conclude
    <3>2. PICK o \in D!Conclusions(v) : Deploy!Judge(o)
      BY SameConclusions DEF Deploy!Conclude
    <3>3. D!PaidFor(o.receipt.auth)
      BY <1>0, D!ConclusionsPaid, Assumed
    <3>4. o.status \in {"EXECUTING", "SUCCEEDED", "FAILED", "UNCERTAIN"}
      BY <1>0, D!ConclusionsTyped, Assumed
    <3>5. Deploy!EndAs(o.receipt.auth, o.status)
      BY <3>2 DEF Deploy!Judge
    <3> QED
      BY <3>1, <3>3, <3>4, <3>5
  <2>2. \/ Deploy!VerifyNotStarted(v) \/ Deploy!VerifyCapability(v) \/ Deploy!VerifyReturns(v)
        \/ Deploy!SaveVerifyIntent(v)
        => UNCHANGED <<local, mrec, auth>>
    BY DEF Deploy!VerifyNotStarted, Deploy!VerifyCapability, Deploy!VerifyReturns, Deploy!SaveVerifyIntent, Deploy!shared
  <2> QED
    BY <1>2, <2>1, <2>2 DEF Deploy!Verifies, Deploy!VerifyProfile, Deploy!VerifyProfileCrash, Deploy!InvokeVerify,
       Deploy!ConcludeCrash
<1>3. Deploy!Crash \/ Deploy!Around => UNCHANGED <<local, mrec, auth>>
  BY DEF Deploy!Crash, Deploy!Around, Deploy!JobFinishes, Deploy!DeadlinePasses, Deploy!shared
<1> QED
  BY <1>1, <1>2, <1>3 DEF Deploy!DeployNext

\* A step of the deploy stage keeps the merge stage's invariant.
LEMMA DeployKeepsMerge ==
  ASSUME LinkInv, DeployStep
  PROVE  M!MInv' /\ ReceiptIsSpent' /\ CallIsUnpaid' /\ Locked' /\ UNCHANGED mrec
<1>0. /\ M!MInv /\ M!TypeOK /\ D!Typed /\ Locked /\ ReceiptIsSpent /\ CallIsUnpaid /\ D!Paid
      /\ D!DeployNext \/ D!Crash
  BY DeploySeen DEF LinkInv, M!MInv, DeployStep
<1>1. UNCHANGED mrec /\ SentM' = SentM
  BY <1>0, D!PaidKept, Assumed DEF SentM
<1>2. /\ D!LockHeld'
      /\ \/ crashes' = crashes /\ (writer' = "pr_merge" <=> writer = "pr_merge")
         \/ crashes < MaxCrash /\ crashes' = crashes + 1 /\ writer' = "nobody" /\ UNCHANGED AuthD
  BY <1>0, D!LockKept, Assumed DEF Locked
<1>3. UNCHANGED <<github, inFlight, local>> /\ mcall' = IF crashes' = crashes THEN mcall ELSE Idle
  BY DeployEnds DEF DeployStep
<1>4. crashes \in Nat /\ crashes \in 0..MaxCrash /\ crashes' \in 0..MaxCrash
  BY <1>0, <1>2, Assumed DEF M!TypeOK
<1>5. WriterM' \in {"nobody", "pr_merge"}
  BY DEF WriterM
<1>6. Idle \in M!Calls /\ Idle.pc = "idle" /\ Idle.answer = "none" /\ Idle.view.state = "unread"
  BY M!IdleTyped, Assumed DEF Idle, M!Idle, NoView, M!NoView
<1>7. Locked'
  BY <1>0, <1>2, <1>3, <1>4, <1>6 DEF Locked
<1>8. auth \in [Ids -> M!Rows]
  BY <1>0 DEF M!TypeOK
<1>9. CASE UNCHANGED auth
  <2>1. M!TypeOK'
    BY <1>0, <1>1, <1>3, <1>4, <1>5, <1>6, <1>9 DEF M!TypeOK
  <2>2. M!CallOwnsRow' /\ M!AnswersAreTrue'
    BY <1>0, <1>1, <1>3, <1>6, <1>9 DEF M!MInv, M!CallOwnsRow, M!AnswersAreTrue
  <2>3. M!MInv'
    BY <1>0, <1>1, <1>3, <1>9, <2>1, <2>2, M!CallOnlyKeeps, Assumed
  <2>4. ReceiptIsSpent' /\ CallIsUnpaid'
    BY <1>0, <1>1, <1>3, <1>6, <1>9 DEF ReceiptIsSpent, CallIsUnpaid
  <2> QED
    BY <1>1, <1>7, <2>3, <2>4
<1>10. CASE auth' # auth
  <2>1. UNCHANGED crashes /\ \E i : \E s \in {"EXECUTING", "SUCCEEDED", "FAILED", "UNCERTAIN"} :
                               D!PaidFor(i) /\ Deploy!EndAs(i, s)
    BY <1>10, DeployEnds DEF DeployStep
  <2>2. PICK i : \E s \in {"EXECUTING", "SUCCEEDED", "FAILED", "UNCERTAIN"} : D!PaidFor(i) /\ Deploy!EndAs(i, s)
    BY <2>1
  <2>3. PICK s \in {"EXECUTING", "SUCCEEDED", "FAILED", "UNCERTAIN"} : D!PaidFor(i) /\ Deploy!EndAs(i, s)
    BY <2>2
  <2>4. s # "EXECUTING" /\ auth[i].status = "EXECUTING" /\ auth' = [auth EXCEPT ![i].status = s]
    BY <1>10, <2>3 DEF Deploy!EndAs
  <2>5. i \in Ids /\ mrec[i] = "ok"
    BY <1>8, <1>10, <2>3, <2>4 DEF D!PaidFor
  <2>6. M!SetStatus(i, s) /\ s \in M!Status
    BY <2>4 DEF M!SetStatus, M!Status
  <2>7. /\ auth' \in [Ids -> M!Rows] /\ auth'[i].status = s
        /\ \A j \in Ids : j # i => auth'[j] = auth[j]
    BY <1>0, <2>5, <2>6, M!StatusSet, Assumed
  <2>8. github.state = "merged"
    BY <1>0, <2>5 DEF M!MInv, M!ReceiptIsExact, M!ExactFor
  <2>9. mcall' = mcall
    BY <1>3, <2>1
  <2>10. mcall.pc = "begun" => mcall.auth # i
    BY <1>0, <2>5 DEF CallIsUnpaid
  <2>11. M!TypeOK'
    BY <1>0, <1>1, <1>3, <1>4, <1>5, <2>7, <2>9 DEF M!TypeOK
  <2>12. M!CallOwnsRow' /\ M!AnswersAreTrue'
    BY <1>0, <1>1, <1>3, <2>3, <2>7, <2>9, <2>10 DEF M!MInv, M!CallOwnsRow, M!AnswersAreTrue
  <2>13. M!MInv'
    <3>1. s # "NONE" /\ s \notin M!Pending \cup M!Refused /\ auth[i].status # "NONE"
      BY <2>3, <2>4 DEF M!Pending, M!Refused
    <3> QED
      BY <1>0, <1>1, <1>3, <2>5, <2>6, <2>8, <2>11, <2>12, <3>1, M!StatusKeeps, Assumed
  <2>14. \A j \in Ids : auth'[j].status \in Unspent <=> auth[j].status \in Unspent
    BY <2>3, <2>4, <2>7 DEF Unspent, Pending
  <2>15. mcall.pc = "merging" => mcall.auth \in Ids
    BY <1>0 DEF M!MInv, M!CallOwnsRow
  <2>16. ReceiptIsSpent' /\ CallIsUnpaid'
    BY <1>0, <1>1, <2>9, <2>14, <2>15 DEF ReceiptIsSpent, CallIsUnpaid
  <2> QED
    BY <1>1, <1>7, <2>13, <2>16
<1> QED
  BY <1>9, <1>10

\* A step of the deploy stage keeps what links the stages.
LEMMA DeployKeepsLink ==
  ASSUME LinkInv, DeployStep
  PROVE  LinkInv'
<1>1. M!TypeOK /\ D!Typed /\ D!Paid /\ (D!DeployNext \/ D!Crash)
  BY DeploySeen DEF LinkInv, M!MInv, DeployStep
<1>2. D!Typed'
  BY <1>1, D!StepTyped, Assumed DEF D!Next
<1>3. D!Paid'
  BY <1>1, D!PaidKept, Assumed
<1> QED
  BY <1>2, <1>3, DeployKeepsMerge DEF LinkInv

\* It keeps its own invariant, with one verify call at a time or a verify profile.
LEMMA DeployKeepsDeploy ==
  ASSUME LinkInv, D!DInv, D!OneVerifier, DeployStep
  PROVE  D!DInv'
<1>1. D!DeployNext \/ D!Crash
  BY DeploySeen DEF LinkInv, M!MInv, DeployStep
<1> QED
  BY <1>1, D!DeployStep, Assumed DEF D!Next

-----------------------------------------------------------------------------
(* The delivery as a whole.                                                 *)

\* It starts with nothing granted, sent or recorded.
LEMMA LinkInit ==
  ASSUME DeliveryInit
  PROVE  LinkInv /\ D!DInv
<1>1. Init /\ Deploy!DInit
  BY DEF DeliveryInit
<1>2. \A i \in Ids, x \in {"merge", "deploy", "verify"} : ~D!Did(i, x)
  BY <1>1 DEF Init, D!Did
<1>3. SentM = [i \in Ids |-> <<>>] /\ WriterM = "nobody"
  BY <1>1, <1>2 DEF SentM, WriterM, Init
<1>4. M!Init
  BY <1>1, <1>3 DEF Init, M!Init, Idle, M!Idle, NoView, M!NoView, NoRow, M!NoRow
<1>5. M!MInv
  BY <1>4, M!MergeInit, Assumed
<1>6. D!Init
  <2>1. D!DInit
    BY <1>1, SameData DEF Deploy!DInit, D!DInit
  <2>2. AuthD = [i \in Ids |-> [status |-> "NONE", refs |-> 1]] /\ LocalD = [refs |-> 1]
    BY <1>1 DEF Init, NoRow, AuthD, LocalD
  <2> QED
    BY <1>1, <2>1, <2>2 DEF Init, D!Init
<1>7. D!DInv
  BY <1>6, D!DeployInit, Assumed
<1>8. D!Typed
  BY <1>7 DEF D!DInv
<1>9. Locked /\ ReceiptIsSpent /\ CallIsUnpaid
  BY <1>1, SameData DEF Init, Idle, Deploy!DInit, Deploy!Idle, Locked, D!LockHeld, ReceiptIsSpent, CallIsUnpaid
<1>10. D!Paid
  <2>1. D!NoReceipt.auth \notin Ids /\ D!Idle.receipt.auth \notin Ids
    BY Assumed DEF D!NoReceipt, D!Idle
  <2>2. drec = D!NoReceipt /\ dcall = D!Idle /\ vcall = [v \in Verifiers |-> D!Idle]
    BY <1>1, SameData DEF Deploy!DInit
  <2> QED
    BY <1>2, <2>1, <2>2 DEF D!Paid, D!PaidFor
<1> QED
  BY <1>5, <1>7, <1>8, <1>9, <1>10 DEF LinkInv

\* Every step keeps what links the stages, and how the task names its actions.
LEMMA LinkStep ==
  ASSUME LinkInv, [DeliveryNext]_dvars
  PROVE  LinkInv' /\ plan' = plan
<1>1. CASE MergeStep
  BY <1>1, MergeKeepsLink, MergeLeaves
<1>2. CASE DeployStep
  <2>1. D!DeployNext \/ D!Crash
    BY <1>2, DeploySeen DEF LinkInv, M!MInv, DeployStep
  <2>2. plan' = plan
    BY <2>1, D!PlanFixed, Assumed DEF D!Next
  <2> QED
    BY <1>2, <2>2, DeployKeepsLink
<1>3. CASE UNCHANGED dvars
  <2>1. /\ UNCHANGED <<github, local, auth, mrec, sent, inFlight, mcall, writer, crashes>>
        /\ UNCHANGED <<plan, overdue, drec, jobs, dcall, vcall>>
    BY <1>3 DEF dvars, mvars, own
  <2>2. SentM' = SentM /\ WriterM' = WriterM /\ AuthD' = AuthD /\ LocalD' = LocalD
    BY <2>1 DEF SentM, WriterM, D!Did, AuthD, LocalD
  <2>3. M!MInv'
    BY <2>1, <2>2, M!MergeStepKeeps, Assumed DEF LinkInv, M!mvars
  <2>4. D!Typed'
    BY <2>1, <2>2, D!StepTyped, Assumed DEF LinkInv, D!dvars, D!shared, D!own
  <2>5. D!Paid'
    BY <2>1 DEF LinkInv, D!Paid, D!PaidFor, D!Did
  <2>6. Locked' /\ ReceiptIsSpent' /\ CallIsUnpaid'
    BY <2>1 DEF LinkInv, Locked, D!LockHeld, ReceiptIsSpent, CallIsUnpaid
  <2> QED
    BY <2>1, <2>3, <2>4, <2>5, <2>6 DEF LinkInv
<1> QED
  BY <1>1, <1>2, <1>3 DEF DeliveryNext

\* Every step keeps the deploy stage's invariant behind the real merge stage.
LEMMA DeliveryStepKeeps ==
  ASSUME LinkInv, D!OneVerifier => D!DInv, [DeliveryNext]_dvars
  PROVE  (D!OneVerifier => D!DInv)'
<1>1. plan' = plan
  BY LinkStep
<1>2. D!OneVerifier' <=> D!OneVerifier
  BY <1>1 DEF D!OneVerifier
<1>3. ASSUME D!OneVerifier, D!DInv PROVE D!DInv'
  <2>1. CASE MergeStep
    BY <1>3, <2>1, MergeKeepsDeploy
  <2>2. CASE DeployStep
    BY <1>3, <2>2, DeployKeepsDeploy
  <2>3. CASE UNCHANGED dvars
    <3>1. /\ UNCHANGED <<local, auth, mrec, sent, writer, crashes>>
          /\ UNCHANGED <<plan, overdue, drec, jobs, dcall, vcall>>
      BY <2>3 DEF dvars, mvars, own
    <3>2. UNCHANGED D!dvars
      BY <3>1 DEF AuthD, LocalD, D!dvars, D!shared, D!own
    <3> QED
      BY <1>3, <3>2, D!DeployStep, Assumed
  <2> QED
    BY <2>1, <2>2, <2>3 DEF DeliveryNext
<1> QED
  BY <1>2, <1>3

\* Whatever was deployed or verified was recorded as merged, exactly.
LEMMA LinkMeansExact ==
  ASSUME LinkInv
  PROVE  /\ DeployOnlyExactMerge
         /\ \A i \in Ids : mrec[i] = "ok" => ExactFor(i)
<1>1. \A i \in Ids : mrec[i] = "ok" => ExactFor(i)
  BY DEF LinkInv, M!MInv, M!ReceiptIsExact, M!ExactFor, ExactFor
<1>2. ASSUME NEW i \in Ids, NEW n \in DOMAIN sent[i], sent[i][n] # "merge"
      PROVE  mrec[i] = "ok"
  <2>1. sent[i] \in Seq({"merge", "deploy", "verify"})
    BY DEF LinkInv, D!Typed, D!Effects
  <2>2. sent[i][n] \in {"merge", "deploy", "verify"}
    BY <2>1
  <2>3. D!Did(i, "deploy") \/ D!Did(i, "verify")
    BY <1>2, <2>2 DEF D!Did
  <2> QED
    BY <2>3 DEF LinkInv, D!Paid
<1> QED
  BY <1>1, <1>2 DEF DeployOnlyExactMerge

\* The invariants of the stages give the types of the whole.
LEMMA LinkMeansTyped ==
  ASSUME LinkInv
  PROVE  DeliveryTypeOK
<1>1. M!TypeOK /\ D!Typed
  BY DEF LinkInv, M!MInv
<1>2. github \in Github /\ inFlight \subseteq Ids /\ mcall \in Calls
  BY <1>1 DEF M!TypeOK, M!Github, Github, M!Calls, Calls, M!Views, Views, M!Heads, Heads, M!Answers, Answers,
     M!Reading, Reading
<1>3. auth \in [Ids -> M!Rows] /\ local.refs \in {1, 2}
  BY <1>1 DEF M!TypeOK, M!Heads, M!Refs
<1>4. \A i \in Ids : auth[i].status \in {"NONE", "READY", "APPROVED", "EXECUTING", "REJECTED", "REVOKED",
                               "STALE", "EXPIRED", "SUCCEEDED", "FAILED", "UNCERTAIN"}
  BY <1>3 DEF M!Rows, M!Status, M!Active, M!Pending
<1>5. \A i \in Ids : \A n \in DOMAIN sent[i] : sent[i][n] \in {"merge", "deploy", "verify"}
  <2>1. \A i \in Ids : sent[i] \in Seq({"merge", "deploy", "verify"})
    BY <1>1 DEF D!Typed, D!Effects
  <2> QED
    BY <2>1
<1>6. Deploy!Receipts = D!Receipts /\ Deploy!JobStates = D!JobStates
  BY DEF Deploy!Receipts, D!Receipts, Deploy!JobStates, D!JobStates, Deploy!JobEnds, D!JobEnds
<1>7. \A k \in DOMAIN jobs : jobs[k] \in [role : {"deploy", "verify"}, auth : Ids,
                                        state : Deploy!JobStates]
  <2>1. jobs \in Seq(D!JobRows)
    BY <1>1 DEF D!Typed
  <2>2. \A k \in DOMAIN jobs : jobs[k] \in D!JobRows
    BY <2>1
  <2>3. D!JobRows = [role : {"deploy", "verify"}, auth : Ids, state : Deploy!JobStates]
    BY <1>6 DEF D!JobRows
  <2> QED
    BY <2>2, <2>3
<1>8. Deploy!TypeOK
  BY <1>1, <1>3, <1>4, <1>5, <1>6, <1>7 DEF Deploy!TypeOK, D!Typed, D!Calls
<1> QED
  BY <1>2, <1>8 DEF DeliveryTypeOK

\* A success of the deploy stage is one of an authorization whose merge was exact.
LEMMA DInvMeansDelivered ==
  ASSUME LinkInv, D!DInv
  PROVE  SucceededMeansDelivered
<1> SUFFICES ASSUME NEW i \in Ids, auth[i].status = "SUCCEEDED"
             PROVE  /\ ExactFor(i) /\ mrec[i] = "ok"
                    /\ drec.auth = i /\ drec.deploy = "succeeded" /\ drec.verify = "succeeded"
  BY DEF SucceededMeansDelivered
<1>1. AuthD[i].status = "SUCCEEDED"
  BY DEF AuthD
<1>2. drec.auth = i /\ drec.deploy = "succeeded" /\ drec.verify = "succeeded"
  BY <1>1 DEF D!DInv, D!SucceededIsProven
<1>3. mrec[i] = "ok"
  BY <1>2 DEF LinkInv, D!Paid, D!PaidFor
<1> QED
  BY <1>2, <1>3, LinkMeansExact

\* The links hold of every delivery, however many verify calls run at once.
THEOREM LinkAlways == DeliverySpec => []LinkInv
<1>1. DeliveryInit => LinkInv
  BY LinkInit
<1>2. LinkInv /\ [DeliveryNext]_dvars => LinkInv'
  BY LinkStep
<1> QED
  BY <1>1, <1>2, PTL DEF DeliverySpec

\* Nothing is deployed or verified but the exact merge that was approved (v2Deploy,
\* v2Verify behind persistExactMergeReceipt), whoever merged it and whatever was lost.
THEOREM OnlyExactMergeDeployed == DeliverySpec => []DeployOnlyExactMerge
<1>1. LinkInv => DeployOnlyExactMerge
  BY LinkMeansExact
<1> QED
  BY <1>1, LinkAlways, PTL

\* Only the approved change reaches the target, and SUCCEEDED is said of nothing less,
\* with one capability verify call at a time, or verify profiles.
THEOREM DeliveryInvAlways == DeliverySpec => [](D!OneVerifier => DeliveryInv)
<1>1. DeliveryInit => LinkInv /\ (D!OneVerifier => D!DInv)
  BY LinkInit
<1>2. LinkInv /\ (D!OneVerifier => D!DInv) /\ [DeliveryNext]_dvars => LinkInv' /\ (D!OneVerifier => D!DInv)'
  BY LinkStep, DeliveryStepKeeps
<1>3. LinkInv /\ (D!OneVerifier => D!DInv) => (D!OneVerifier => DeliveryInv)
  BY LinkMeansTyped, LinkMeansExact, DInvMeansDelivered DEF DeliveryInv
<1> QED
  BY <1>1, <1>2, <1>3, PTL DEF DeliverySpec

-----------------------------------------------------------------------------
(* The deploy stage checked on its own has every behaviour it shows behind  *)
(* the real merge stage.                                                    *)

\* At most one row is active, and none is bound to an action the task never had.
OneActiveRow == \A i, j \in Ids : auth[i].status \in Active /\ auth[j].status \in Active => i = j
ActionsKnown == \A i \in Ids : auth[i].refs \in {1, local.refs}

\* Until its merge is recorded, the row of the call that sent the request is executing.
MergingOwns ==
  mcall.pc = "merging" /\ mrec[mcall.auth] # "ok" => auth[mcall.auth].status = "EXECUTING"

\* The inductive invariant of the hand-over.
HandInv == LinkInv /\ OneActiveRow /\ ActionsKnown /\ MergingOwns

\* What a step of the merge stage does to receipts and to the rows that have one: nothing;
\* it records the merge of the executing row; or it condemns that row.
NothingHanded ==
  /\ \A i \in Ids : mrec'[i] = "ok" <=> mrec[i] = "ok"
  /\ \A i \in Ids : mrec[i] = "ok" => auth'[i] = auth[i]
  /\ local'.refs = local.refs \/ (crashes' = crashes /\ local'.refs = 2)

Records(i) ==
  /\ auth[i].status = "EXECUTING" /\ mrec[i] # "ok"
  /\ mrec' = [mrec EXCEPT ![i] = "ok"]
  /\ writer = "pr_merge"
  /\ UNCHANGED <<auth, local, crashes, sent>>

Condemns(i) ==
  /\ auth[i].status = "EXECUTING" /\ SetStatus(i, "UNCERTAIN")
  /\ writer = "pr_merge"
  /\ UNCHANGED <<mrec, local, crashes, sent>>

\* Every action of the merge stage does one of these.
LEMMA MergeShapes ==
  ASSUME HandInv, Next
  PROVE  \/ NothingHanded
         \/ \E i \in Ids : Records(i) \/ Condemns(i)
<1>0. /\ M!TypeOK /\ M!CallOwnsRow /\ Locked /\ ReceiptIsSpent /\ CallIsUnpaid /\ MergingOwns
      /\ auth \in [Ids -> M!Rows] /\ mrec \in [Ids -> {"none", "ok", "torn"}]
  BY DEF HandInv, LinkInv, M!MInv, M!TypeOK
<1>1. ASSUME UNCHANGED <<auth, mrec>>, UNCHANGED local \/ (local' = [local EXCEPT !.refs = 2] /\ UNCHANGED crashes)
      PROVE  NothingHanded
  BY <1>0, <1>1 DEF NothingHanded, M!TypeOK
<1>2. ASSUME NEW i \in Ids, NEW r, auth[i].status \in Unspent, auth' = [auth EXCEPT ![i] = r],
             UNCHANGED <<mrec, local>>
      PROVE  NothingHanded
  BY <1>0, <1>2 DEF NothingHanded, ReceiptIsSpent
<1>3. ASSUME NEW i \in Ids, NEW s, auth[i].status \in Pending, SetStatus(i, s), UNCHANGED <<mrec, local>>
      PROVE  NothingHanded
  BY <1>2, <1>3 DEF SetStatus, Unspent
<1>4. mcall.pc \notin {"idle", "prepare"} => mcall.auth \in Ids
  BY <1>0 DEF M!CallOwnsRow
<1>5. mcall.pc # "idle" => writer = "pr_merge"
  BY <1>0 DEF Locked
<1>6. ASSUME NEW i \in Ids, Persist(i), auth[i].status = "EXECUTING" \/ mrec[i] = "ok", writer = "pr_merge",
             UNCHANGED <<auth, local, sent>>
      PROVE  NothingHanded \/ Records(i)
  <2>1. CASE mrec' = [mrec EXCEPT ![i] = "ok"] /\ mrec[i] = "ok"
    BY <1>0, <1>6, <2>1 DEF NothingHanded
  <2>2. CASE mrec' = [mrec EXCEPT ![i] = "ok"] /\ mrec[i] # "ok" /\ UNCHANGED crashes
    BY <1>6, <2>2 DEF Records
  <2>3. CASE mrec[i] = "none" /\ mrec' = [mrec EXCEPT ![i] = "torn"]
    BY <1>0, <1>6, <2>3 DEF NothingHanded
  <2> QED
    BY <1>6, <2>1, <2>2, <2>3 DEF Persist
<1>7. CASE StartMerge \/ GiveUp \/ RefreshFails \/ SendMerge \/ MergeNotConfirmed \/ GithubAnswers \/ OthersAct
           \/ AgentCommits \/ ActionChanges \/ CallLost
  <2>1. UNCHANGED <<auth, mrec>>
    BY <1>7 DEF StartMerge, GiveUp, RefreshFails, SendMerge, MergeNotConfirmed, GithubAnswers, OthersAct,
       AgentCommits, ActionChanges, CallLost, ledger
  <2>2. CASE ~AgentCommits /\ ~ActionChanges
    <3>1. UNCHANGED local
      BY <1>7, <2>2 DEF StartMerge, GiveUp, RefreshFails, SendMerge, MergeNotConfirmed, GithubAnswers, OthersAct,
         CallLost, outside
    <3> QED
      BY <1>1, <2>1, <3>1
  <2>3. CASE AgentCommits
    BY <1>0, <2>1, <2>3 DEF AgentCommits, NothingHanded, M!TypeOK
  <2>4. CASE ActionChanges
    BY <1>1, <2>1, <2>4 DEF ActionChanges
  <2> QED
    BY <2>2, <2>3, <2>4
<1>8. ASSUME NEW i \in Ids, GithubMerges(i) \/ GithubRefuses(i) PROVE NothingHanded
  BY <1>1, <1>8 DEF GithubMerges, GithubRefuses, ledger
<1>9. ASSUME NEW i \in Ids, Prepare(i) PROVE NothingHanded
  BY <1>2, <1>9 DEF Prepare, Unspent, outside
<1>10. ASSUME NEW i \in Ids, HumanOrSweep(i) PROVE NothingHanded
  BY <1>3, <1>10 DEF HumanOrSweep, Pending, outside
<1>11. CASE RecheckReady
  <2>1. mcall.auth \in Ids /\ UNCHANGED <<mrec, local>> /\ (UNCHANGED auth \/ MarkStale(mcall.auth, "READY"))
    BY <1>4, <1>11 DEF RecheckReady, Answered, outside
  <2> QED
    BY <1>1, <1>3, <2>1 DEF MarkStale, Pending
<1>12. CASE RecheckApproved
  <2>1. mcall.auth \in Ids /\ UNCHANGED <<mrec, local>> /\ (UNCHANGED auth \/ MarkStale(mcall.auth, "APPROVED"))
    BY <1>4, <1>12 DEF RecheckApproved, Answered, outside
  <2> QED
    BY <1>1, <1>3, <2>1 DEF MarkStale, Pending
<1>13. CASE Begin
  BY <1>3, <1>4, <1>13 DEF Begin, Answered, Pending, outside
<1>14. CASE RecordMerge
  <2>1. mcall.auth \in Ids /\ (auth[mcall.auth].status = "EXECUTING" \/ mrec[mcall.auth] = "ok") /\ writer = "pr_merge"
    BY <1>0, <1>4, <1>5, <1>14 DEF RecordMerge, MergingOwns
  <2> QED
    BY <1>6, <1>14, <2>1 DEF RecordMerge, outside
<1>15. CASE ObserveExact
  BY <1>4, <1>5, <1>6, <1>15 DEF ObserveExact, Confirmed, Answered, outside
<1>16. CASE CondemnMerge
  <2>1. mcall.auth \in Ids /\ writer = "pr_merge" /\ UNCHANGED <<mrec, local, crashes, sent>>
    BY <1>4, <1>5, <1>16 DEF CondemnMerge, outside
  <2> QED
    BY <1>1, <1>16, <2>1 DEF CondemnMerge, MarkUncertain, Condemns
<1>17. CASE ObserveInexact
  BY <1>4, <1>5, <1>17 DEF ObserveInexact, Confirmed, Answered, outside, Condemns
<1> QED
  BY <1>7, <1>8, <1>9, <1>10, <1>11, <1>12, <1>13, <1>14, <1>15, <1>16, <1>17
  DEF Next, Handler, MergeEnvironment

\* A call comes to await GitHub's answer by sending its request, and keeps its row meanwhile.
LEMMA MergingKept ==
  ASSUME HandInv, Next
  PROVE  MergingOwns'
<1> SUFFICES ASSUME mcall'.pc = "merging", mrec'[mcall'.auth] # "ok"
             PROVE  auth'[mcall'.auth].status = "EXECUTING"
  BY DEF MergingOwns
<1>0. M!TypeOK /\ M!CallOwnsRow /\ MergingOwns /\ auth \in [Ids -> M!Rows]
  BY DEF HandInv, LinkInv, M!MInv, M!TypeOK
<1>1. CASE SendMerge
  <2>1. mcall.pc = "begun" /\ mcall' = [mcall EXCEPT !.pc = "merging"] /\ UNCHANGED <<auth, mrec>>
    BY <1>1 DEF SendMerge
  <2> QED
    BY <2>1, <1>0 DEF M!CallOwnsRow, M!TypeOK, M!Calls
<1>2. ASSUME mcall.pc = "merging", mcall'.auth = mcall.auth, UNCHANGED mrec,
             UNCHANGED auth \/ \E i \in Ids : \E s : auth[i].status \in Pending /\ SetStatus(i, s)
      PROVE  auth'[mcall'.auth].status = "EXECUTING"
  <2>1. auth[mcall.auth].status = "EXECUTING"
    BY <1>0, <1>2 DEF MergingOwns
  <2>2. ASSUME NEW i \in Ids, NEW s, auth[i].status \in Pending, SetStatus(i, s)
        PROVE  auth'[mcall.auth] = auth[mcall.auth]
    BY <2>1, <2>2, <1>0 DEF SetStatus, Pending
  <2> QED
    BY <1>2, <2>1, <2>2
<1>3. CASE OthersAct \/ AgentCommits \/ ActionChanges
  BY <1>2, <1>3 DEF OthersAct, AgentCommits, ActionChanges, ledger
<1>4. ASSUME NEW i \in Ids, HumanOrSweep(i) PROVE auth'[mcall'.auth].status = "EXECUTING"
  <2>1. \E s : auth[i].status \in Pending /\ SetStatus(i, s)
    BY <1>4 DEF HumanOrSweep, Pending
  <2> QED
    BY <1>2, <1>4, <2>1 DEF HumanOrSweep
<1>5. ASSUME NEW i \in Ids, GithubMerges(i) \/ GithubRefuses(i) PROVE auth'[mcall'.auth].status = "EXECUTING"
  <2>1. UNCHANGED <<auth, mrec>> /\ \E a : Reply(i, a)
    BY <1>5 DEF GithubMerges, GithubRefuses, ledger
  <2>2. mcall'.pc = mcall.pc /\ mcall'.auth = mcall.auth
    BY <2>1, <1>0 DEF Reply, M!TypeOK, M!Calls
  <2> QED
    BY <2>1, <2>2, <1>2
<1>6. GithubAnswers => mcall'.pc # "merging"
  <2>1. GithubAnswers => mcall.pc \in Reading /\ \E w : mcall' = [mcall EXCEPT !.view = w]
    BY DEF GithubAnswers
  <2> QED
    BY <2>1, <1>0 DEF Reading, M!TypeOK, M!Calls
<1>7. Begin => mcall'.pc # "merging"
  <2>1. Begin => mcall' = [mcall EXCEPT !.pc = "begun"]
    BY DEF Begin
  <2> QED
    BY <2>1, <1>0 DEF M!TypeOK, M!Calls
<1>8. StartMerge => mcall'.pc # "merging"
  <2>1. \A i \in ActiveIds : EntryPhase[auth[i].status] # "merging"
    BY DEF ActiveIds, Active, Pending, EntryPhase
  <2> QED
    BY <2>1 DEF StartMerge, Call
<1>9. Return => mcall'.pc # "merging"
  BY DEF Return, Idle
<1>10. \A pc, i : Enter(pc, i) /\ pc # "merging" => mcall'.pc # "merging"
  BY DEF Enter, Call
<1>11. RefreshFails \/ MergeNotConfirmed \/ RecheckReady \/ RecheckApproved => mcall'.pc # "merging"
  BY <1>9, <1>10 DEF RefreshFails, MergeNotConfirmed, RecheckReady, RecheckApproved
<1>12. /\ GiveUp \/ RecordMerge \/ CondemnMerge \/ ObserveExact \/ ObserveInexact \/ CallLost => Return
       /\ \A i \in Ids : Prepare(i) => Return
  BY DEF GiveUp, RecordMerge, CondemnMerge, ObserveExact, ObserveInexact, CallLost, Prepare
<1> QED
  BY <1>1, <1>3, <1>4, <1>5, <1>6, <1>7, <1>8, <1>9, <1>11, <1>12 DEF Next, Handler, MergeEnvironment

\* A step of the merge stage keeps the invariant.
LEMMA MergeKeepsHand ==
  ASSUME HandInv, MergeStep
  PROVE  HandInv'
<1>0. Next /\ LinkInv /\ LinkInv' /\ M!TypeOK /\ M!TypeOK' /\ RowMoves /\ OneActiveRow /\ ActionsKnown
  BY MergeKeepsLink, MergeMoves DEF HandInv, LinkInv, MergeStep, M!MInv
<1>1. OneActiveRow'
  BY <1>0, OneActiveKept DEF OneActiveRow, Active, Pending
<1>2. MergingOwns'
  BY <1>0, MergingKept
<1>3. local'.refs = local.refs \/ local'.refs = 2
  BY <1>0, MergeShapes DEF NothingHanded, Records, Condemns
<1>4. ActionsKnown'
  <2>1. auth \in [Ids -> M!Rows] /\ auth' \in [Ids -> M!Rows] /\ M!Refs = {1, 2}
    BY <1>0 DEF M!TypeOK, M!Refs
  <2>2. CASE local'.refs = 2
    BY <2>1, <2>2 DEF ActionsKnown, M!Rows
  <2>3. CASE local'.refs = local.refs
    <3>1. \A j \in Ids : auth'[j].refs \in {auth[j].refs, local.refs}
      <4>1. ASSUME NEW i \in Ids, NEW b, NEW h,
                   auth' = [auth EXCEPT ![i] = [status |-> "READY", base |-> b, head |-> h, refs |-> local.refs]]
            PROVE  \A j \in Ids : auth'[j].refs \in {auth[j].refs, local.refs}
        BY <2>1, <4>1
      <4>2. ASSUME NEW i \in Ids, NEW s, SetStatus(i, s)
            PROVE  \A j \in Ids : auth'[j].refs \in {auth[j].refs, local.refs}
        BY <2>1, <4>2 DEF SetStatus, M!Rows
      <4> QED
        BY <1>0, <4>1, <4>2 DEF RowMoves
    <3> QED
      BY <1>0, <2>3, <3>1 DEF ActionsKnown
  <2> QED
    BY <1>3, <2>2, <2>3
<1> QED
  BY <1>0, <1>1, <1>2, <1>4 DEF HandInv

\* Ending a row leaves its action, and every other row, alone.
LEMMA EndsOne ==
  ASSUME M!TypeOK, NEW i, NEW s \in {"EXECUTING", "SUCCEEDED", "FAILED", "UNCERTAIN"}, Deploy!EndAs(i, s)
  PROVE  \A j \in Ids : /\ auth'[j].refs = auth[j].refs
                        /\ auth'[j].status # auth[j].status =>
                             j = i /\ auth[j].status = "EXECUTING" /\ auth'[j].status = s
<1>1. auth \in [Ids -> M!Rows]
  BY DEF M!TypeOK
<1> QED
  BY <1>1 DEF Deploy!EndAs, M!Rows

\* So does a step of the deploy stage.
LEMMA DeployKeepsHand ==
  ASSUME HandInv, DeployStep
  PROVE  HandInv'
<1>0. /\ LinkInv /\ LinkInv' /\ M!TypeOK /\ OneActiveRow /\ ActionsKnown /\ MergingOwns /\ M!CallOwnsRow
      /\ Deploy!DeployNext \/ Deploy!Crash
  BY DeployKeepsLink DEF HandInv, LinkInv, M!MInv, DeployStep
<1>1. /\ UNCHANGED <<local, mrec>>
      /\ \A j \in Ids : /\ auth'[j].refs = auth[j].refs
                        /\ auth'[j].status # auth[j].status =>
                             mrec[j] = "ok" /\ auth[j].status = "EXECUTING" /\ auth'[j].status \notin Unspent
  <2>1. /\ UNCHANGED <<local, mrec>>
        /\ \/ UNCHANGED auth
           \/ \E i : \E s \in {"EXECUTING", "SUCCEEDED", "FAILED", "UNCERTAIN"} : D!PaidFor(i) /\ Deploy!EndAs(i, s)
    BY <1>0, DeployEnds
  <2>2. CASE UNCHANGED auth
    BY <2>1, <2>2
  <2>3. ASSUME NEW i, NEW s \in {"EXECUTING", "SUCCEEDED", "FAILED", "UNCERTAIN"}, D!PaidFor(i), Deploy!EndAs(i, s),
               NEW j \in Ids
        PROVE  /\ auth'[j].refs = auth[j].refs
               /\ auth'[j].status # auth[j].status =>
                    mrec[j] = "ok" /\ auth[j].status = "EXECUTING" /\ auth'[j].status \notin Unspent
    BY <1>0, <2>3, EndsOne DEF D!PaidFor, Unspent, Pending
  <2> QED
    BY <2>1, <2>2, <2>3
<1>2. \A j \in Ids : auth'[j].status \in Active => auth[j].status \in Active
  BY <1>1 DEF Active
<1>3. OneActiveRow'
  BY <1>0, <1>2 DEF OneActiveRow, Active, Pending
<1>4. ActionsKnown'
  BY <1>0, <1>1 DEF ActionsKnown
<1>5. MergingOwns'
  <2>1. mcall' = mcall \/ mcall'.pc = "idle"
    BY DEF DeployStep, Idle
  <2>2. mcall.pc = "merging" => mcall.auth \in Ids
    BY <1>0 DEF M!CallOwnsRow
  <2> QED
    BY <1>0, <1>1, <2>1, <2>2 DEF MergingOwns
<1> QED
  BY <1>0, <1>3, <1>4, <1>5 DEF HandInv

\* It holds from the start.
LEMMA HandInit ==
  ASSUME DeliveryInit
  PROVE  HandInv
<1>1. LinkInv /\ Init
  BY LinkInit DEF DeliveryInit
<1>2. \A i \in Ids : auth[i].status = "NONE" /\ auth[i].refs = 1
  BY <1>1 DEF Init, NoRow
<1> QED
  BY <1>1, <1>2 DEF HandInv, OneActiveRow, ActionsKnown, MergingOwns, Init, Idle, Active, Pending

\* Every step keeps it.
LEMMA HandStep ==
  ASSUME HandInv, [DeliveryNext]_dvars
  PROVE  HandInv'
<1>1. CASE UNCHANGED dvars
  <2>1. LinkInv'
    BY <1>1, LinkStep DEF HandInv
  <2> QED
    BY <1>1, <2>1 DEF HandInv, OneActiveRow, ActionsKnown, MergingOwns, dvars, mvars
<1> QED
  BY <1>1, MergeKeepsHand, DeployKeepsHand DEF DeliveryNext

\* So it always holds.
LEMMA HandAlways == DeliverySpec => []HandInv
<1>1. DeliveryInit => HandInv
  BY HandInit
<1>2. HandInv /\ [DeliveryNext]_dvars => HandInv'
  BY HandStep
<1> QED
  BY <1>1, <1>2, PTL DEF DeliverySpec

-----------------------------------------------------------------------------
(* A step of the merge stage, as the deploy stage on its own sees it.       *)

\* Rows without a receipt, and proposals, are nothing to it.
LEMMA HandedRows ==
  ASSUME NEW i \in Ids
  PROVE  /\ HandedOver(i) => HandedAuth[i].status = auth[i].status /\ HandedAuth[i].refs = auth[i].refs
         /\ ~HandedOver(i) => HandedAuth[i].status = "NONE" /\ HandedAuth[i].refs = 1
         /\ HandedMrec[i] = IF HandedOver(i) THEN "ok" ELSE "none"
         /\ HandedSent[i] = AfterMerge(sent[i])
         /\ HandedLocal.refs = local.refs
  BY DEF HandedAuth, HandedMrec, HandedSent, HandedLocal

\* What is handed over moves only with receipts and the rows that have one.
LEMMA HandedSame ==
  ASSUME \A i \in Ids : mrec'[i] = "ok" <=> mrec[i] = "ok",
         \A i \in Ids : mrec[i] = "ok" => auth'[i] = auth[i]
  PROVE  /\ \A i \in Ids : HandedOver(i)' <=> HandedOver(i)
         /\ UNCHANGED <<HandedAuth, HandedMrec>>
         /\ UNCHANGED overdue /\ overdue \subseteq Ids => UNCHANGED HandedOverdue
<1>1. \A i \in Ids : HandedOver(i)' <=> HandedOver(i)
  BY DEF HandedOver
<1>2. \A i \in Ids : HandedOver(i) => mrec[i] = "ok"
  BY DEF HandedOver
<1> QED
  BY <1>1, <1>2 DEF HandedAuth, HandedMrec, HandedOverdue

\* A sequence without a place is empty.
LEMMA NothingInIt ==
  ASSUME NEW S, NEW s \in Seq(S), DOMAIN s = {}
  PROVE  s = <<>>
<1>1. Len(s) \in Nat /\ DOMAIN s = 1..Len(s)
  BY LenProperties
<1>2. Len(s) = 0
  BY <1>1
<1> QED
  BY <1>2, EmptySeq

\* The request for a merge is the first of its row.
LEMMA SendIsFirst ==
  ASSUME LinkInv, SendMerge
  PROVE  /\ mcall.auth \in Ids /\ sent[mcall.auth] = <<>> /\ sent'[mcall.auth] = <<"merge">>
         /\ \A j \in Ids : j # mcall.auth => sent'[j] = sent[j]
<1> DEFINE i == mcall.auth
<1>1. mcall.pc = "begun" /\ sent' = [sent EXCEPT ![i] = Append(@, "merge")]
  BY DEF SendMerge
<1>2. i \in Ids /\ SentM[i] = <<>> /\ mrec[i] # "ok"
  BY <1>1 DEF LinkInv, M!MInv, M!CallOwnsRow, CallIsUnpaid
<1>3. sent \in [Ids -> Seq({"merge", "deploy", "verify"})] /\ D!Paid
  BY DEF LinkInv, D!Typed, D!Effects
<1>4. ~D!Did(i, "merge") /\ ~D!Did(i, "deploy") /\ ~D!Did(i, "verify")
  BY <1>2, <1>3 DEF SentM, D!Paid
<1>5. sent[i] = <<>>
  <2>1. \A n \in DOMAIN sent[i] : sent[i][n] \in {"merge", "deploy", "verify"}
    BY <1>2, <1>3
  <2>2. DOMAIN sent[i] = {}
    BY <1>4, <2>1 DEF D!Did
  <2>3. sent[i] \in Seq({"merge", "deploy", "verify"})
    BY <1>2, <1>3
  <2> QED
    BY <2>2, <2>3, NothingInIt
<1> HIDE DEF i
<1>6. sent'[i] = <<"merge">> /\ \A j \in Ids : j # i => sent'[j] = sent[j]
  BY <1>1, <1>2, <1>3, <1>5
<1> QED
  BY <1>2, <1>5, <1>6 DEF i

\* A request for a merge is none of the deploy stage's effects.
LEMMA MergeSendUnseen ==
  ASSUME HandInv, Next
  PROVE  UNCHANGED HandedSent
<1>1. CASE UNCHANGED sent
  BY <1>1 DEF HandedSent
<1>2. CASE SendMerge
  <2>1. AfterMerge(<<"merge">>) = <<>> /\ AfterMerge(<<>>) = <<>>
    BY DEF AfterMerge
  <2> QED
    BY <1>2, <2>1, SendIsFirst DEF HandInv, HandedSent
<1> QED
  BY <1>1, <1>2, MergeMoves DEF HandInv

\* A step that hands nothing over is nothing to it, a change of the action, or its crash.
LEMMA NothingSeen ==
  ASSUME HandInv, MergeStep, NothingHanded
  PROVE  UNCHANGED Handover!dvars \/ Handover!Next
<1>0. /\ Next /\ LockMoves /\ Locked /\ M!TypeOK /\ D!Typed
  BY MergeMoves DEF HandInv, LinkInv, MergeStep, M!MInv
<1>1. UNCHANGED <<plan, overdue, drec>>
  BY MergeLeaves DEF HandInv
<1>2. UNCHANGED <<HandedAuth, HandedMrec, HandedOverdue, HandedSent>>
  BY <1>0, <1>1, HandedSame, MergeSendUnseen DEF NothingHanded, D!Typed
<1>3. CASE crashes' = crashes
  <2>1. UNCHANGED <<plan, overdue, drec, jobs, dcall, vcall, crashes>>
    BY <1>3 DEF MergeStep, own
  <2>2. UNCHANGED HandedWriter
    BY <1>0, <1>3 DEF LockMoves, Locked, HandedWriter
  <2>3. CASE local'.refs = local.refs
    BY <1>2, <2>1, <2>2, <2>3 DEF HandedLocal, Handover!dvars, Handover!shared, Handover!own
  <2>4. CASE local'.refs = 2
    <3>1. HandedLocal' = [HandedLocal EXCEPT !.refs = 2]
      BY <2>4 DEF HandedLocal
    <3> QED
      BY <1>2, <2>1, <2>2, <3>1 DEF Handover!Next, Handover!ActionChanges, Handover!own
  <2>5. local'.refs = local.refs \/ local'.refs = 2
    BY DEF NothingHanded
  <2> QED
    BY <2>3, <2>4, <2>5
<1>4. CASE crashes' # crashes
  <2>1. crashes < MaxCrash /\ crashes' = crashes + 1 /\ writer' = "nobody" /\ local'.refs = local.refs
    BY <1>0, <1>4 DEF LockMoves, NothingHanded
  <2>2. Handover!CallsLost /\ jobs' \in Handover!Restarted(jobs)
    BY <1>4 DEF MergeStep, Deploy!CallsLost, Handover!CallsLost, Deploy!Idle, Handover!Idle,
       Deploy!NoReceipt, Handover!NoReceipt, Deploy!Restarted, Handover!Restarted
  <2>3. HandedWriter' = "nobody" /\ UNCHANGED HandedLocal
    BY <2>1 DEF HandedWriter, HandedLocal
  <2> QED
    BY <1>1, <1>2, <2>1, <2>2, <2>3 DEF Handover!Next, Handover!Crash, Handover!Restart
<1> QED
  BY <1>3, <1>4

\* The record of a merge is a grant to it.
LEMMA RecordSeen ==
  ASSUME HandInv, MergeStep, NEW i \in Ids, Records(i)
  PROVE  Handover!Granted(i)
<1>0. /\ M!TypeOK /\ D!Typed /\ OneActiveRow /\ ActionsKnown
      /\ mrec \in [Ids -> {"none", "ok", "torn"}] /\ overdue \subseteq Ids
  BY DEF HandInv, LinkInv, M!MInv, M!TypeOK, D!Typed
<1>1. /\ auth[i].status = "EXECUTING" /\ mrec[i] # "ok" /\ mrec' = [mrec EXCEPT ![i] = "ok"]
      /\ writer = "pr_merge" /\ UNCHANGED <<auth, local, crashes, sent>>
  BY DEF Records
<1>2. UNCHANGED <<plan, overdue, drec, jobs, dcall, vcall>>
  BY <1>1 DEF MergeStep, own
<1>3. ~HandedOver(i) /\ HandedOver(i)' /\ \A j \in Ids : j # i => (HandedOver(j)' <=> HandedOver(j))
  BY <1>0, <1>1 DEF HandedOver
<1>4. Handover!ActiveIds = {}
  <2> SUFFICES ASSUME NEW j \in Ids, HandedAuth[j].status \in Handover!Active PROVE FALSE
    BY DEF Handover!ActiveIds
  <2>1. HandedOver(j) /\ auth[j].status \in Active
    BY HandedRows DEF Handover!Active, Active, Pending
  <2>2. j = i
    BY <1>0, <1>1, <2>1 DEF OneActiveRow, Active
  <2> QED
    BY <1>3, <2>1, <2>2
<1>5. HandedAuth' = [HandedAuth EXCEPT ![i] = [status |-> "EXECUTING", refs |-> auth[i].refs]]
      /\ HandedMrec' = [HandedMrec EXCEPT ![i] = "ok"]
  BY <1>1, <1>3 DEF HandedAuth, HandedMrec
<1>6. HandedAuth[i].status = "NONE" /\ auth[i].refs \in {1, HandedLocal.refs}
  BY <1>0, <1>3, HandedRows DEF ActionsKnown
<1>7. HandedOverdue' \in {HandedOverdue, HandedOverdue \cup {i}}
  BY <1>0, <1>2, <1>3 DEF HandedOverdue
<1>8. UNCHANGED <<HandedLocal, HandedSent>>
  BY <1>1 DEF HandedLocal, HandedSent
<1>9. HandedWriter = "nobody" /\ UNCHANGED HandedWriter
  <2>1. writer' # "deploy"
    BY <1>1, MergeMoves DEF HandInv, MergeStep, LockMoves
  <2> QED
    BY <1>1, <2>1 DEF HandedWriter
<1> QED
  BY <1>1, <1>2, <1>4, <1>5, <1>6, <1>7, <1>8, <1>9 DEF Handover!Granted

\* A condemned row is condemned to it, or was never handed over.
LEMMA CondemnSeen ==
  ASSUME HandInv, MergeStep, NEW i \in Ids, Condemns(i)
  PROVE  UNCHANGED Handover!dvars \/ Handover!Condemned(i)
<1>0. auth \in [Ids -> M!Rows] /\ overdue \subseteq Ids
  BY DEF HandInv, LinkInv, M!MInv, M!TypeOK, D!Typed
<1>1. /\ auth[i].status = "EXECUTING" /\ auth' = [auth EXCEPT ![i].status = "UNCERTAIN"]
      /\ writer = "pr_merge" /\ UNCHANGED <<mrec, local, crashes, sent>>
  BY DEF Condemns, SetStatus
<1>2. UNCHANGED <<plan, overdue, drec, jobs, dcall, vcall>>
  BY <1>1 DEF MergeStep, own
<1>3. /\ auth'[i].status = "UNCERTAIN" /\ auth'[i].refs = auth[i].refs
      /\ \A j \in Ids : j # i => auth'[j] = auth[j]
  BY <1>0, <1>1 DEF M!Rows
<1>4. \A j \in Ids : HandedOver(j)' <=> HandedOver(j)
  BY <1>1, <1>3 DEF HandedOver
<1>5. UNCHANGED <<HandedMrec, HandedLocal, HandedSent, HandedOverdue>>
  BY <1>0, <1>1, <1>2, <1>4 DEF HandedMrec, HandedLocal, HandedSent, HandedOverdue
<1>6. HandedWriter = "nobody" /\ UNCHANGED HandedWriter
  <2>1. writer' # "deploy"
    BY <1>1, MergeMoves DEF HandInv, MergeStep, LockMoves
  <2> QED
    BY <1>1, <2>1 DEF HandedWriter
<1>7. CASE HandedOver(i)
  <2>1. HandedAuth' = [HandedAuth EXCEPT ![i].status = "UNCERTAIN"]
    BY <1>3, <1>4, <1>7 DEF HandedAuth
  <2>2. HandedAuth[i].status = "EXECUTING"
    BY <1>1, <1>7, HandedRows
  <2> QED
    BY <1>1, <1>2, <1>5, <1>6, <2>1, <2>2 DEF Handover!Condemned, Handover!EndAs, Handover!own
<1>8. CASE ~HandedOver(i)
  <2>1. UNCHANGED HandedAuth
    BY <1>3, <1>4, <1>8 DEF HandedAuth
  <2> QED
    BY <1>1, <1>2, <1>5, <1>6, <2>1 DEF Handover!dvars, Handover!shared, Handover!own
<1> QED
  BY <1>7, <1>8

\* So every step of the merge stage is one it has, or nothing to it.
LEMMA MergeHands ==
  ASSUME HandInv, MergeStep
  PROVE  UNCHANGED Handover!dvars \/ Handover!Next
<1>1. NothingHanded \/ \E i \in Ids : Records(i) \/ Condemns(i)
  BY MergeShapes DEF MergeStep
<1> QED
  BY <1>1, NothingSeen, RecordSeen, CondemnSeen DEF Handover!Next

-----------------------------------------------------------------------------
(* A step of the deploy stage, as that stage on its own has it.             *)

\* What does not read the rows is the same.
LEMMA HandedData ==
  /\ Deploy!NoReceipt = Handover!NoReceipt /\ Deploy!Idle = Handover!Idle /\ Deploy!JobEnds = Handover!JobEnds
  /\ \A r, e : Deploy!DeployOutcome(r, e) = Handover!DeployOutcome(r, e)
  /\ \A r, e : Deploy!VerifyOutcome(r, e) = Handover!VerifyOutcome(r, e)
  /\ \A k : Deploy!Ended(k) <=> Handover!Ended(k)
  /\ \A x, i : Deploy!Started(x, i) = Handover!Started(x, i)
  /\ \A js : Deploy!Restarted(js) = Handover!Restarted(js)
  /\ \A i : Deploy!NewReceipt(i) = Handover!NewReceipt(i)
<1>1. /\ Deploy!NoReceipt = Handover!NoReceipt /\ Deploy!Idle = Handover!Idle /\ Deploy!JobEnds = Handover!JobEnds
  BY DEF Deploy!NoReceipt, Handover!NoReceipt, Deploy!Idle, Handover!Idle, Deploy!JobEnds, Handover!JobEnds
<1>2. \A r, e : Deploy!DeployOutcome(r, e) = Handover!DeployOutcome(r, e)
  BY DEF Deploy!DeployOutcome, Handover!DeployOutcome
<1>3. \A r, e : Deploy!VerifyOutcome(r, e) = Handover!VerifyOutcome(r, e)
  BY DEF Deploy!VerifyOutcome, Handover!VerifyOutcome
<1>4. \A k : Deploy!Ended(k) <=> Handover!Ended(k)
  BY DEF Deploy!Ended, Handover!Ended
<1>5. \A x, i : Deploy!Started(x, i) = Handover!Started(x, i)
  BY DEF Deploy!Started, Handover!Started, Deploy!Job, Handover!Job
<1>6. \A js : Deploy!Restarted(js) = Handover!Restarted(js)
  BY DEF Deploy!Restarted, Handover!Restarted
<1>7. \A i : Deploy!NewReceipt(i) = Handover!NewReceipt(i)
  <2>1. HandedLocal.refs = local.refs
    BY DEF HandedLocal
  <2> QED
    BY <2>1, <1>1 DEF Deploy!NewReceipt, Handover!NewReceipt
<1> QED
  BY <1>1, <1>2, <1>3, <1>4, <1>5, <1>6, <1>7

\* What is authorized is handed over, and what is allowed behind the real merge stage is
\* allowed on its own, where fewer rows are seen active.
LEMMA HandedGuards ==
  /\ \A i : Deploy!Authorized(i) => Handover!Authorized(i)
  /\ \A i : Deploy!MayDeploy(i) => Handover!MayDeploy(i)
  /\ \A v : Deploy!MayVerify(v) => Handover!MayVerify(v)
  /\ \A v : Deploy!DeployJobEnded(v) => Handover!DeployJobEnded(v)
  /\ \A v : Deploy!Deployed(v) \subseteq Handover!Deployed(v)
<1>0. HandedLocal.refs = local.refs /\ (writer = "nobody" => HandedWriter = "nobody")
  BY DEF HandedLocal, HandedWriter
<1>1. ASSUME NEW i, Deploy!Authorized(i) PROVE Handover!Authorized(i)
  <2>1. i \in Ids /\ auth[i].status = "EXECUTING" /\ i \notin overdue /\ mrec[i] = "ok" /\ auth[i].refs = local.refs
    BY <1>1 DEF Deploy!Authorized
  <2>2. HandedOver(i) /\ i \notin HandedOverdue
    BY <2>1 DEF HandedOver, HandedOverdue
  <2> QED
    BY <1>0, <2>1, <2>2, HandedRows DEF Handover!Authorized
<1>2. \A i : Deploy!MayDeploy(i) => Handover!MayDeploy(i)
  BY <1>0, <1>1, HandedData DEF Deploy!MayDeploy, Handover!MayDeploy
<1>3. Handover!ActiveIds \subseteq Deploy!ActiveIds
  <2> SUFFICES ASSUME NEW i \in Ids, HandedAuth[i].status \in Handover!Active
               PROVE  auth[i].status \in Deploy!Active
    BY DEF Handover!ActiveIds, Deploy!ActiveIds
  <2> QED
    BY HandedRows DEF Handover!Active, Deploy!Active
<1>4. \A v : Deploy!MayVerify(v) => Handover!MayVerify(v)
  BY <1>0, <1>3, HandedData DEF Deploy!MayVerify, Handover!MayVerify
<1>5. \A v : Deploy!DeployJobEnded(v) => Handover!DeployJobEnded(v)
  BY <1>1, <1>4, HandedData DEF Deploy!DeployJobEnded, Handover!DeployJobEnded
<1>6. ASSUME NEW v PROVE Deploy!Deployed(v) \subseteq Handover!Deployed(v)
  BY <1>1, <1>4, <1>5 DEF Deploy!Deployed, Handover!Deployed
<1> QED
  BY <1>1, <1>2, <1>4, <1>5, <1>6

\* What a verify call can conclude, it can conclude on its own.
LEMMA HandedConclusions ==
  ASSUME NEW v
  PROVE  Deploy!Conclusions(v) \subseteq Handover!Conclusions(v)
<1>1. /\ \A r, e : Deploy!DeployOutcome(r, e) = Handover!DeployOutcome(r, e)
      /\ \A r, e : Deploy!VerifyOutcome(r, e) = Handover!VerifyOutcome(r, e)
      /\ \A k : Deploy!Ended(k) <=> Handover!Ended(k)
      /\ Deploy!DeployJobEnded(v) => Handover!DeployJobEnded(v)
      /\ Deploy!Deployed(v) \subseteq Handover!Deployed(v)
  BY HandedData, HandedGuards
<1> DEFINE P1 == {Deploy!DeployOutcome(drec, jobs[k].state) :
                    k \in {k \in {drec.djob} : Deploy!DeployJobEnded(v) /\ jobs[k].state # "exact"}}
           P2 == {Deploy!VerifyOutcome(r, jobs[r.vjob].state) :
                    r \in {r \in Deploy!Deployed(v) : plan.verify = "profile" /\ Deploy!Ended(r.vjob)}}
           P3 == {Deploy!VerifyOutcome(c.receipt, "missing") :
                    c \in {c \in {vcall[v]} : c.pc = "role" /\ c.receipt.verify = "running"}}
           P4 == {Deploy!VerifyOutcome(c.receipt, e) :
                    c \in {c \in {vcall[v]} : c.pc = "invoking"}, e \in {"exact", "other", "missing"}}
           Q1 == {Handover!DeployOutcome(drec, jobs[k].state) :
                    k \in {k \in {drec.djob} : Handover!DeployJobEnded(v) /\ jobs[k].state # "exact"}}
           Q2 == {Handover!VerifyOutcome(r, jobs[r.vjob].state) :
                    r \in {r \in Handover!Deployed(v) : plan.verify = "profile" /\ Handover!Ended(r.vjob)}}
           Q3 == {Handover!VerifyOutcome(c.receipt, "missing") :
                    c \in {c \in {vcall[v]} : c.pc = "role" /\ c.receipt.verify = "running"}}
           Q4 == {Handover!VerifyOutcome(c.receipt, e) :
                    c \in {c \in {vcall[v]} : c.pc = "invoking"}, e \in {"exact", "other", "missing"}}
<1>2. P1 \subseteq Q1
  BY <1>1
<1>3. P2 \subseteq Q2
  BY <1>1
<1>4. P3 = Q3
  BY <1>1
<1>5. P4 = Q4
  BY <1>1
<1>6. Deploy!Conclusions(v) = P1 \cup P2 \cup P3 \cup P4
  BY DEF Deploy!Conclusions
<1>7. Handover!Conclusions(v) = Q1 \cup Q2 \cup Q3 \cup Q4
  BY DEF Handover!Conclusions
<1> HIDE DEF P1, P2, P3, P4, Q1, Q2, Q3, Q4
<1> QED
  BY <1>2, <1>3, <1>4, <1>5, <1>6, <1>7

\* A paid row that was used is handed over.
LEMMA PaidIsHanded ==
  ASSUME HandInv, NEW i \in Ids, D!PaidFor(i)
  PROVE  HandedOver(i)
  BY DEF HandInv, LinkInv, D!PaidFor, ReceiptIsSpent, Unspent, Pending, HandedOver

\* Ending a row that is paid for ends it there.
LEMMA HandedEnds ==
  ASSUME HandInv, UNCHANGED mrec, NEW i, NEW s \in {"EXECUTING", "SUCCEEDED", "FAILED", "UNCERTAIN"},
         D!PaidFor(i), Deploy!EndAs(i, s)
  PROVE  /\ Handover!EndAs(i, s)
         /\ \A j \in Ids : HandedOver(j)' <=> HandedOver(j)
<1>0. M!TypeOK /\ auth \in [Ids -> M!Rows]
  BY DEF HandInv, LinkInv, M!MInv, M!TypeOK
<1>1. \A j \in Ids : /\ auth'[j].refs = auth[j].refs
                     /\ auth'[j].status # auth[j].status =>
                          j = i /\ auth[j].status = "EXECUTING" /\ auth'[j].status = s
  BY <1>0, EndsOne
<1>2. \A j \in Ids : HandedOver(j)' <=> HandedOver(j)
  BY <1>1 DEF HandedOver
<1>3. CASE i \in Ids /\ s # "EXECUTING" /\ auth[i].status = "EXECUTING"
  <2>1. HandedOver(i) /\ HandedAuth[i].status = "EXECUTING"
    BY <1>3, PaidIsHanded, HandedRows
  <2>2. auth'[i].status = s
    BY <1>0, <1>3 DEF Deploy!EndAs
  <2>3. HandedAuth' = [HandedAuth EXCEPT ![i].status = s]
    BY <1>1, <1>2, <1>3, <2>1, <2>2 DEF HandedAuth
  <2> QED
    BY <1>2, <1>3, <2>1, <2>3 DEF Handover!EndAs
<1>4. CASE i \in Ids /\ ~(s # "EXECUTING" /\ auth[i].status = "EXECUTING")
  <2>1. auth' = auth
    BY <1>4 DEF Deploy!EndAs
  <2>2. HandedAuth' = HandedAuth /\ HandedAuth[i].status = auth[i].status
    BY <1>2, <1>4, <2>1, PaidIsHanded, HandedRows DEF HandedAuth
  <2> QED
    BY <1>2, <1>4, <2>2 DEF Handover!EndAs
<1>5. CASE i \notin Ids
  <2>1. auth' = auth
    BY <1>0, <1>5 DEF Deploy!EndAs
  <2>2. HandedAuth' = HandedAuth /\ \A r : [HandedAuth EXCEPT ![i] = r] = HandedAuth
    BY <1>2, <1>5, <2>1 DEF HandedAuth
  <2> QED
    BY <1>2, <2>2 DEF Handover!EndAs
<1> QED
  BY <1>3, <1>4, <1>5

\* What is sent there comes after the merge request here.
LEMMA HandedSends ==
  ASSUME D!Typed, NEW i, NEW x \in {"deploy", "verify"}, sent' = [sent EXCEPT ![i] = Append(@, x)]
  PROVE  HandedSent' = [HandedSent EXCEPT ![i] = Append(@, x)]
<1>1. sent \in [Ids -> Seq({"merge", "deploy", "verify"})]
  BY DEF D!Typed, D!Effects
<1>2. ASSUME NEW s \in Seq({"merge", "deploy", "verify"})
      PROVE  AfterMerge(Append(s, x)) = Append(AfterMerge(s), x)
  <2>1. CASE s = <<>>
    <3>1. Append(s, x) = <<x>> /\ Head(<<x>>) = x /\ x # "merge"
      BY <2>1
    <3> QED
      BY <2>1, <3>1 DEF AfterMerge
  <2>2. CASE s # <<>>
    <3>1. Append(s, x) # <<>> /\ Head(Append(s, x)) = Head(s)
      BY <2>2
    <3>2. Tail(Append(s, x)) = Append(Tail(s), x)
      BY <2>2
    <3> QED
      BY <2>2, <3>1, <3>2 DEF AfterMerge
  <2> QED
    BY <2>1, <2>2
<1>3. CASE i \in Ids
  <2>1. \A j \in Ids : sent'[j] = IF j = i THEN Append(sent[i], x) ELSE sent[j]
    BY <1>1, <1>3
  <2> QED
    BY <1>1, <1>2, <1>3, <2>1 DEF HandedSent
<1>4. CASE i \notin Ids
  <2>1. sent' = sent
    BY <1>1, <1>4
  <2> QED
    BY <1>4, <2>1 DEF HandedSent
<1> QED
  BY <1>3, <1>4

\* What an action leaves alone, or writes, here, it leaves alone, or writes, there.
LEMMA HandedWrites ==
  ASSUME HandInv
  PROVE  /\ UNCHANGED <<auth, mrec>> => UNCHANGED <<HandedAuth, HandedMrec>>
         /\ UNCHANGED <<auth, mrec, overdue>> => UNCHANGED HandedOverdue
         /\ UNCHANGED local => UNCHANGED HandedLocal
         /\ UNCHANGED sent => UNCHANGED HandedSent
         /\ UNCHANGED writer => UNCHANGED HandedWriter
         /\ writer' = "nobody" => HandedWriter' = "nobody"
         /\ writer' = "deploy" => HandedWriter' = "deploy"
         /\ \A x \in {"deploy", "verify"} : \A i : Deploy!StartJob(x, i) => Handover!StartJob(x, i)
         /\ Deploy!Restart => Handover!Restart
<1>1. D!Typed
  BY DEF HandInv, LinkInv
<1>2. writer' = "nobody" => HandedWriter' = "nobody"
  BY DEF HandedWriter
<1>3. \A x \in {"deploy", "verify"} : \A i : Deploy!StartJob(x, i) => Handover!StartJob(x, i)
  BY <1>1, HandedSends DEF Deploy!StartJob, Handover!StartJob
<1>4. Deploy!Restart => Handover!Restart
  BY <1>2, HandedData DEF Deploy!Restart, Handover!Restart, Deploy!CallsLost, Handover!CallsLost
<1>5. UNCHANGED <<auth, mrec>> => UNCHANGED <<HandedAuth, HandedMrec>>
  BY DEF HandedAuth, HandedMrec, HandedOver
<1>6. UNCHANGED <<auth, mrec, overdue>> => UNCHANGED HandedOverdue
  BY DEF HandedOverdue, HandedOver
<1> QED
  BY <1>2, <1>3, <1>4, <1>5, <1>6 DEF HandedLocal, HandedSent, HandedWriter

\* A result that is judged here is judged there.
LEMMA HandedJudges ==
  ASSUME HandInv, UNCHANGED <<mrec, overdue>>, NEW o, D!PaidFor(o.receipt.auth),
         o.status \in {"EXECUTING", "SUCCEEDED", "FAILED", "UNCERTAIN"}, Deploy!Judge(o)
  PROVE  Handover!Judge(o) /\ UNCHANGED <<HandedMrec, HandedOverdue>>
<1>1. drec' = o.receipt /\ Deploy!EndAs(o.receipt.auth, o.status)
  BY DEF Deploy!Judge
<1>2. Handover!EndAs(o.receipt.auth, o.status) /\ \A j \in Ids : HandedOver(j)' <=> HandedOver(j)
  BY <1>1, HandedEnds
<1>3. overdue \subseteq Ids
  BY DEF HandInv, LinkInv, D!Typed
<1> QED
  BY <1>1, <1>2, <1>3 DEF Handover!Judge, HandedMrec, HandedOverdue

\* Every step of a deploy call.
LEMMA DeploysHanded ==
  ASSUME HandInv, Deploy!Deploys
  PROVE  Handover!Deploys
<1>0. /\ UNCHANGED <<auth, mrec>> => UNCHANGED <<HandedAuth, HandedMrec>>
      /\ UNCHANGED <<auth, mrec, overdue>> => UNCHANGED HandedOverdue
      /\ UNCHANGED local => UNCHANGED HandedLocal
      /\ UNCHANGED sent => UNCHANGED HandedSent
      /\ UNCHANGED writer => UNCHANGED HandedWriter
      /\ writer' = "nobody" => HandedWriter' = "nobody"
      /\ writer' = "deploy" => HandedWriter' = "deploy"
      /\ \A x \in {"deploy", "verify"} : \A i : Deploy!StartJob(x, i) => Handover!StartJob(x, i)
      /\ Deploy!Restart => Handover!Restart
  BY HandedWrites
<1>1. D!Typed /\ D!Paid
  BY DEF HandInv, LinkInv
<1>2. ASSUME NEW i \in Ids, Deploy!DeployProfile(i) PROVE Handover!DeployProfile(i)
  BY <1>0, <1>2, HandedData, HandedGuards DEF Deploy!DeployProfile, Handover!DeployProfile
<1>3. ASSUME NEW i \in Ids, Deploy!DeployProfileCrash(i) PROVE Handover!DeployProfileCrash(i)
  BY <1>0, <1>3, HandedData, HandedGuards DEF Deploy!DeployProfileCrash, Handover!DeployProfileCrash
<1>4. ASSUME NEW i \in Ids, Deploy!DeployCapability(i) PROVE Handover!DeployCapability(i)
  BY <1>0, <1>4, HandedData, HandedGuards DEF Deploy!DeployCapability, Handover!DeployCapability
<1>5. Deploy!DeployRefused => Handover!DeployRefused
  BY <1>0, HandedData DEF Deploy!DeployRefused, Handover!DeployRefused
<1>6. Deploy!SaveDeployIntent => Handover!SaveDeployIntent
  BY <1>0, HandedData DEF Deploy!SaveDeployIntent, Handover!SaveDeployIntent, Deploy!shared, Handover!shared
<1>7. Deploy!InvokeDeploy => Handover!InvokeDeploy
  BY <1>0, <1>1, HandedSends DEF Deploy!InvokeDeploy, Handover!InvokeDeploy
<1>8. Deploy!DeployAnswered => Handover!DeployAnswered
  <2> SUFFICES ASSUME Deploy!DeployAnswered PROVE Handover!DeployAnswered
    OBVIOUS
  <2>1. PICK e \in {"exact", "other", "missing"} : Deploy!Judge(Deploy!DeployOutcome(dcall.receipt, e))
    BY DEF Deploy!DeployAnswered
  <2>2. dcall.receipt \in D!Receipts /\ D!PaidFor(dcall.receipt.auth)
    BY <1>1 DEF D!Typed, D!Calls, D!Paid
  <2> DEFINE o == D!DeployOutcome(dcall.receipt, e)
  <2>3. o.receipt.auth = dcall.receipt.auth /\ o.status \in {"EXECUTING", "FAILED", "UNCERTAIN"}
    BY <2>2, D!OutcomeNames, D!OutcomesTyped, Assumed
  <2>4. o = Deploy!DeployOutcome(dcall.receipt, e) /\ o = Handover!DeployOutcome(dcall.receipt, e)
    BY SameData, HandedData
  <2> HIDE DEF o
  <2>5. UNCHANGED <<mrec, overdue>> /\ Deploy!Judge(o) /\ D!PaidFor(o.receipt.auth)
    BY <2>1, <2>2, <2>3, <2>4 DEF Deploy!DeployAnswered
  <2>6. Handover!Judge(o) /\ UNCHANGED <<HandedMrec, HandedOverdue>>
    BY <2>3, <2>5, HandedJudges
  <2>7. \E d \in {"exact", "other", "missing"} : Handover!Judge(Handover!DeployOutcome(dcall.receipt, d))
    BY <2>4, <2>6
  <2>8. /\ dcall.pc = "invoking" /\ dcall' = Deploy!Idle /\ writer' = "nobody"
        /\ UNCHANGED <<plan, local, sent, crashes, jobs, vcall>>
    BY DEF Deploy!DeployAnswered
  <2> QED
    BY <1>0, <2>6, <2>7, <2>8, HandedData DEF Handover!DeployAnswered
<1>9. Deploy!DeployAnsweredCrash => Handover!DeployAnsweredCrash
  BY <1>0, HandedData DEF Deploy!DeployAnsweredCrash, Handover!DeployAnsweredCrash
<1> QED
  BY <1>2, <1>3, <1>4, <1>5, <1>6, <1>7, <1>8, <1>9 DEF Deploy!Deploys, Handover!Deploys

\* Every step of a verify call.
LEMMA VerifiesHanded ==
  ASSUME HandInv, NEW v \in Verifiers, Deploy!Verifies(v)
  PROVE  Handover!Verifies(v)
<1>0. /\ UNCHANGED <<auth, mrec>> => UNCHANGED <<HandedAuth, HandedMrec>>
      /\ UNCHANGED <<auth, mrec, overdue>> => UNCHANGED HandedOverdue
      /\ UNCHANGED local => UNCHANGED HandedLocal
      /\ UNCHANGED sent => UNCHANGED HandedSent
      /\ UNCHANGED writer => UNCHANGED HandedWriter
      /\ \A x \in {"deploy", "verify"} : \A i : Deploy!StartJob(x, i) => Handover!StartJob(x, i)
      /\ Deploy!Restart => Handover!Restart
  BY HandedWrites
<1>1. /\ D!Typed /\ D!Paid
      /\ Deploy!Deployed(v) \subseteq Handover!Deployed(v)
      /\ Deploy!Conclusions(v) \subseteq Handover!Conclusions(v)
  BY HandedGuards, HandedConclusions DEF HandInv, LinkInv
<1>2. Deploy!VerifyProfile(v) => Handover!VerifyProfile(v)
  BY <1>0, <1>1, HandedData DEF Deploy!VerifyProfile, Handover!VerifyProfile
<1>3. Deploy!VerifyNotStarted(v) => Handover!VerifyNotStarted(v)
  BY <1>0, <1>1 DEF Deploy!VerifyNotStarted, Handover!VerifyNotStarted, Deploy!shared, Handover!shared
<1>4. Deploy!VerifyProfileCrash(v) => Handover!VerifyProfileCrash(v)
  BY <1>0, <1>1, HandedData DEF Deploy!VerifyProfileCrash, Handover!VerifyProfileCrash
<1>5. Deploy!VerifyCapability(v) => Handover!VerifyCapability(v)
  BY <1>0, <1>1 DEF Deploy!VerifyCapability, Handover!VerifyCapability, Deploy!shared, Handover!shared
<1>6. Deploy!VerifyReturns(v) => Handover!VerifyReturns(v)
  BY <1>0, HandedData DEF Deploy!VerifyReturns, Handover!VerifyReturns, Deploy!shared, Handover!shared
<1>7. Deploy!SaveVerifyIntent(v) => Handover!SaveVerifyIntent(v)
  BY <1>0 DEF Deploy!SaveVerifyIntent, Handover!SaveVerifyIntent, Deploy!shared, Handover!shared
<1>8. Deploy!InvokeVerify(v) => Handover!InvokeVerify(v)
  BY <1>0, <1>1, HandedSends DEF Deploy!InvokeVerify, Handover!InvokeVerify
<1>9. Deploy!Conclude(v) => Handover!Conclude(v)
  <2> SUFFICES ASSUME Deploy!Conclude(v) PROVE Handover!Conclude(v)
    OBVIOUS
  <2>1. PICK o \in Deploy!Conclusions(v) : Deploy!Judge(o)
    BY DEF Deploy!Conclude
  <2>2. o \in D!Conclusions(v)
    BY SameConclusions
  <2>3. D!PaidFor(o.receipt.auth) /\ o.status \in {"EXECUTING", "SUCCEEDED", "FAILED", "UNCERTAIN"}
    BY <1>1, <2>2, D!ConclusionsPaid, D!ConclusionsTyped, Assumed
  <2>4. /\ UNCHANGED <<mrec, overdue>> /\ vcall' = [vcall EXCEPT ![v] = Deploy!Idle]
        /\ UNCHANGED <<plan, local, sent, writer, crashes, jobs, dcall>>
    BY DEF Deploy!Conclude
  <2>5. Handover!Judge(o) /\ UNCHANGED <<HandedMrec, HandedOverdue>>
    BY <2>1, <2>3, <2>4, HandedJudges
  <2>6. \E d \in Handover!Conclusions(v) : Handover!Judge(d)
    BY <1>1, <2>5
  <2> QED
    BY <1>0, <2>4, <2>5, <2>6, HandedData DEF Handover!Conclude
<1>10. Deploy!ConcludeCrash(v) => Handover!ConcludeCrash(v)
  BY <1>0, <1>1, HandedData DEF Deploy!ConcludeCrash, Handover!ConcludeCrash
<1> QED
  BY <1>2, <1>3, <1>4, <1>5, <1>6, <1>7, <1>8, <1>9, <1>10 DEF Deploy!Verifies, Handover!Verifies

\* What happens around them; a deadline that passes before the merge is recorded is nothing yet.
LEMMA AroundHanded ==
  ASSUME HandInv, Deploy!Around \/ Deploy!Crash
  PROVE  UNCHANGED Handover!dvars \/ Handover!Next
<1>0. /\ UNCHANGED <<auth, mrec>> => UNCHANGED <<HandedAuth, HandedMrec>>
      /\ UNCHANGED <<auth, mrec, overdue>> => UNCHANGED HandedOverdue
      /\ UNCHANGED local => UNCHANGED HandedLocal
      /\ UNCHANGED sent => UNCHANGED HandedSent
      /\ UNCHANGED writer => UNCHANGED HandedWriter
      /\ writer = "nobody" => HandedWriter = "nobody"
      /\ Deploy!Restart => Handover!Restart
  BY HandedWrites DEF HandedWriter
<1>1. Deploy!Crash => Handover!Crash
  BY <1>0, HandedData DEF Deploy!Crash, Handover!Crash
<1>2. ASSUME NEW k \in DOMAIN jobs, Deploy!JobFinishes(k) PROVE Handover!JobFinishes(k)
  BY <1>0, <1>2, HandedData DEF Deploy!JobFinishes, Handover!JobFinishes, Deploy!shared, Handover!shared
<1>4. ASSUME NEW i \in Ids, Deploy!DeadlinePasses(i)
      PROVE  UNCHANGED Handover!dvars \/ Handover!DeadlinePasses(i)
  <2>1. /\ auth[i].status = "EXECUTING" /\ i \notin overdue /\ overdue' = overdue \cup {i}
        /\ UNCHANGED <<plan, local, auth, mrec, sent, writer, crashes, drec, jobs, dcall, vcall>>
    BY <1>4 DEF Deploy!DeadlinePasses, Deploy!shared
  <2>2. \A j \in Ids : HandedOver(j)' <=> HandedOver(j)
    BY <2>1 DEF HandedOver
  <2>3. overdue \subseteq Ids
    BY DEF HandInv, LinkInv, D!Typed
  <2>4. CASE HandedOver(i)
    <3>1. HandedOverdue' = HandedOverdue \cup {i} /\ i \notin HandedOverdue /\ HandedAuth[i].status = "EXECUTING"
      BY <2>1, <2>2, <2>3, <2>4, HandedRows DEF HandedOverdue
    <3> QED
      BY <1>0, <2>1, <3>1 DEF Handover!DeadlinePasses, Handover!shared
  <2>5. CASE ~HandedOver(i)
    <3>1. UNCHANGED HandedOverdue
      BY <2>1, <2>2, <2>3, <2>5 DEF HandedOverdue
    <3> QED
      BY <1>0, <2>1, <3>1 DEF Handover!dvars, Handover!shared, Handover!own
  <2> QED
    BY <2>4, <2>5
<1> QED
  BY <1>1, <1>2, <1>4 DEF Deploy!Around, Handover!Around, Handover!DeployNext, Handover!Next

\* The deploy stage checked on its own (v2Deploy, v2Verify) has every behaviour it shows
\* behind the real merge stage, so what holds of it alone holds of it there.
THEOREM DeployStageStandsAlone == DeliverySpec => DeployStageSuffices
<1>1. DeliveryInit => Handover!Init
  <2> SUFFICES ASSUME DeliveryInit PROVE Handover!Init
    OBVIOUS
  <2>1. Init /\ Deploy!DInit
    BY DEF DeliveryInit
  <2>2. \A i \in Ids : ~HandedOver(i)
    BY <2>1 DEF Init, HandedOver
  <2>3. /\ HandedAuth = [i \in Ids |-> [status |-> "NONE", refs |-> 1]]
        /\ HandedMrec = [i \in Ids |-> "none"]
    BY <2>2 DEF HandedAuth, HandedMrec
  <2>4. /\ HandedLocal = [refs |-> 1] /\ HandedSent = [i \in Ids |-> <<>>]
        /\ HandedWriter = "nobody" /\ HandedOverdue = {} /\ crashes = 0
    BY <2>1 DEF Init, Deploy!DInit, HandedLocal, HandedSent, HandedWriter, HandedOverdue, AfterMerge
  <2>5. Handover!DInit
    BY <2>1, <2>4, HandedData DEF Deploy!DInit, Handover!DInit
  <2> QED
    BY <2>3, <2>4, <2>5 DEF Handover!Init
<1>2. HandInv /\ [DeliveryNext]_dvars => [UNCHANGED Handover!dvars \/ Handover!Next]_(Handover!dvars)
  <2> SUFFICES ASSUME HandInv, [DeliveryNext]_dvars PROVE UNCHANGED Handover!dvars \/ Handover!Next
    OBVIOUS
  <2>1. CASE UNCHANGED dvars
    BY <2>1, HandedWrites DEF dvars, mvars, own, Handover!dvars, Handover!shared, Handover!own
  <2>2. CASE DeployStep
    BY <2>2, DeploysHanded, VerifiesHanded, AroundHanded
    DEF DeployStep, Deploy!DeployNext, Handover!DeployNext, Handover!Next
  <2> QED
    BY <2>1, <2>2, MergeHands DEF DeliveryNext
<1> QED
  BY <1>1, <1>2, HandAlways, PTL DEF DeliverySpec, DeployStageSuffices


-----------------------------------------------------------------------------
(* The delivery keeps the contract with the plan "merge", then "deploy".    *)

\* A sequence's part before its verifications.
NotVerify(s) == {n \in DOMAIN s : s[n] # "verify"}

\* The places of a sequence are finitely many.
LEMMA UpTo ==
  ASSUME NEW n \in Nat
  PROVE  IsFiniteSet(1..n) /\ Cardinality(1..n) = n
<1>1. 1 \in Int /\ n \in Int
  OBVIOUS
<1>2. IsFiniteSet(1..n) /\ Cardinality(1..n) = IF 1 > n THEN 0 ELSE n - 1 + 1
  BY ONLY <1>1, FS_Interval
<1> QED
  BY <1>2

\* A verification is none of what the contract counts.
LEMMA BeforeAppends ==
  ASSUME NEW s \in Seq({"merge", "deploy", "verify"})
  PROVE  BeforeVerify(Append(s, "verify")) = BeforeVerify(s)
<1> DEFINE S == {"merge", "deploy", "verify"}
           t == Append(s, "verify")
           k == Cardinality(NotVerify(s))
<1>1. /\ Len(s) \in Nat /\ DOMAIN s = 1..Len(s) /\ t \in Seq(S) /\ Len(t) = Len(s) + 1
      /\ DOMAIN t = 1..(Len(s) + 1) /\ t[Len(s) + 1] = "verify"
      /\ \A n \in 1..Len(s) : t[n] = s[n] /\ s[n] \in S
  BY LenProperties, AppendProperties
<1> HIDE DEF t
<1>2. NotVerify(t) = NotVerify(s)
  BY <1>1 DEF NotVerify
<1>3. k \in 0..Len(s)
  <2>1. IsFiniteSet(1..Len(s)) /\ Cardinality(1..Len(s)) = Len(s)
    BY <1>1, UpTo
  <2>2. NotVerify(s) \in SUBSET (1..Len(s))
    BY <1>1 DEF NotVerify
  <2>3. IsFiniteSet(NotVerify(s)) /\ k <= Len(s)
    BY <2>1, <2>2, FS_Subset
  <2>4. k \in Nat
    BY <2>3, FS_CardinalityType
  <2> QED
    BY <2>3, <2>4, <1>1
<1> HIDE DEF k
<1>4. SubSeq(t, 1, k) = SubSeq(s, 1, k)
  <2>1. \A n \in 1..k : t[n] = s[n] /\ s[n] \in S /\ t[n] \in S
    BY <1>1, <1>3
  <2> DEFINE a == SubSeq(t, 1, k)
             b == SubSeq(s, 1, k)
  <2>2. /\ a \in Seq(S) /\ Len(a) = IF 1 <= k THEN k - 1 + 1 ELSE 0
        /\ \A n \in 1..(k - 1 + 1) : a[n] = t[1 + n - 1]
    BY <1>3, <2>1, SubSeqProperties
  <2>3. /\ b \in Seq(S) /\ Len(b) = IF 1 <= k THEN k - 1 + 1 ELSE 0
        /\ \A n \in 1..(k - 1 + 1) : b[n] = s[1 + n - 1]
    BY <1>3, <2>1, SubSeqProperties
  <2> HIDE DEF a, b
  <2>4. Len(a) = Len(b) /\ \A n \in 1..Len(a) : a[n] = b[n]
    BY <1>3, <2>1, <2>2, <2>3
  <2> QED
    BY <2>2, <2>3, <2>4, SeqEqual DEF a, b
<1> QED
  BY <1>2, <1>4 DEF BeforeVerify, NotVerify, t, k

\* Of a sequence without verifications it is the whole.
LEMMA NoVerification ==
  ASSUME NEW s \in Seq({"merge", "deploy"})
  PROVE  BeforeVerify(s) = s
<1>1. Len(s) \in Nat /\ DOMAIN s = 1..Len(s) /\ \A n \in DOMAIN s : s[n] \in {"merge", "deploy"}
  BY LenProperties
<1>2. {n \in DOMAIN s : s[n] # "verify"} = 1..Len(s)
  BY <1>1
<1>3. Cardinality(1..Len(s)) = Len(s)
  BY <1>1, UpTo
<1>4. SubSeq(s, 1, Len(s)) = s
  BY SubSeqFull
<1> QED
  BY <1>2, <1>3, <1>4 DEF BeforeVerify

\* Until the one capability deploy goes out nothing is verified, and its row stays in use.
NotYet == drec.deploy = "none" \/ dcall.pc = "saved"
DeployUnsent ==
  /\ NotYet => /\ \A v \in Verifiers : vcall[v].pc = "idle"
               /\ \A i \in Ids : ~D!Did(i, "deploy") /\ ~D!Did(i, "verify")
  /\ dcall.pc = "role" => drec.deploy = "none"
  /\ dcall.pc = "saved" => drec.deploy = "running"
  /\ dcall.pc # "idle" => dcall.receipt.deploy = "running"
  /\ dcall.pc \in {"role", "saved"} => dcall.receipt.auth \in Ids /\ auth[dcall.receipt.auth].status = "EXECUTING"
  /\ \A v \in Verifiers : vcall[v].pc # "idle" => vcall[v].receipt.deploy = "succeeded"
  /\ drec.djob = 0 /\ dcall.receipt.djob = 0
  /\ \A v \in Verifiers : vcall[v].receipt.djob = 0

\* What this takes when a capability deploys.
InvokedLate == HandInv /\ plan.deploy = "capability" /\ DeployUnsent

\* The inductive invariant of the contract.
GrantInv == HandInv /\ D!OnRecord /\ (plan.deploy = "capability" => DeployUnsent)

\* A verify call goes on, or concludes, only once the deploy succeeded.
LEMMA ConcludesLate ==
  ASSUME InvokedLate, NEW v \in Verifiers
  PROVE  /\ \A r \in D!Deployed(v) : ~NotYet /\ r = drec /\ drec.deploy = "succeeded"
         /\ \A o \in D!Conclusions(v) : ~NotYet /\ o.receipt.deploy = "succeeded" /\ o.receipt.djob = 0
         /\ vcall[v].pc # "idle" => ~NotYet
<1>0. /\ D!Typed /\ DeployUnsent /\ drec \in D!Receipts /\ vcall[v] \in D!Calls
  BY DEF InvokedLate, HandInv, LinkInv, D!Typed
<1>1. ~D!DeployJobEnded(v)
  BY <1>0 DEF D!DeployJobEnded, D!Ended, DeployUnsent
<1>2. \A r \in D!Deployed(v) : ~NotYet /\ r = drec /\ drec.deploy = "succeeded"
  <2> SUFFICES ASSUME NEW r \in D!Deployed(v) PROVE ~NotYet /\ r = drec /\ drec.deploy = "succeeded"
    OBVIOUS
  <2>1. r = [drec EXCEPT !.deploy = "succeeded"] /\ drec.deploy = "succeeded"
    BY <1>1 DEF D!Deployed
  <2>2. r = drec
    BY <2>1, <1>0 DEF D!Receipts
  <2> QED
    BY <1>0, <2>1, <2>2 DEF NotYet, DeployUnsent
<1>3. vcall[v].pc # "idle" => ~NotYet
  BY <1>0 DEF DeployUnsent
<1>4. \A o \in D!Conclusions(v) :
        \E r \in D!Receipts : \E e : o = D!VerifyOutcome(r, e) /\ ~NotYet /\ r.deploy = "succeeded" /\ r.djob = 0
  <2> SUFFICES ASSUME NEW o \in D!Conclusions(v)
               PROVE  \E r \in D!Receipts : \E e :
                        o = D!VerifyOutcome(r, e) /\ ~NotYet /\ r.deploy = "succeeded" /\ r.djob = 0
    OBVIOUS
  <2>1. \/ \E r \in D!Deployed(v) : \E e : o = D!VerifyOutcome(r, e)
        \/ vcall[v].pc # "idle" /\ \E e : o = D!VerifyOutcome(vcall[v].receipt, e)
    BY <1>1 DEF D!Conclusions
  <2>2. vcall[v].receipt \in D!Receipts
    BY <1>0 DEF D!Calls
  <2> QED
    BY <1>0, <1>2, <1>3, <2>1, <2>2 DEF DeployUnsent
<1>5. \A r \in D!Receipts : \A e : /\ D!VerifyOutcome(r, e).receipt.deploy = r.deploy
                                   /\ D!VerifyOutcome(r, e).receipt.djob = r.djob
  <2> SUFFICES ASSUME NEW r \in D!Receipts, NEW e
               PROVE  /\ D!VerifyOutcome(r, e).receipt.deploy = r.deploy
                      /\ D!VerifyOutcome(r, e).receipt.djob = r.djob
    OBVIOUS
  <2>1. \E d \in {"succeeded", "failed", "uncertain"} : D!VerifyOutcome(r, e).receipt = [r EXCEPT !.verify = d]
    BY DEF D!VerifyOutcome
  <2> QED
    BY <2>1 DEF D!Receipts
<1> QED
  BY <1>2, <1>3, <1>4, <1>5

\* A deploy call keeps this: the intent first, then the one request.
LEMMA DeploysKeepUnsent ==
  ASSUME InvokedLate, D!Deploys
  PROVE  DeployUnsent'
<1>0. /\ D!Typed /\ D!LockHeld /\ plan.deploy = "capability" /\ DeployUnsent /\ dcall \in D!Calls
      /\ dcall.receipt \in D!Receipts
  BY DEF InvokedLate, HandInv, LinkInv, Locked, D!Typed, D!Calls
<1>1. D!Idle.pc = "idle" /\ D!Idle.receipt.djob = 0
  BY DEF D!Idle, D!NoReceipt
<1>2. \A i \in Ids : AuthD[i].status = auth[i].status /\ AuthD'[i].status = auth'[i].status
  BY DEF AuthD
<1>3. ASSUME NEW i \in Ids, D!DeployProfile(i) \/ D!DeployProfileCrash(i) PROVE FALSE
  BY <1>0, <1>3 DEF D!DeployProfile, D!DeployProfileCrash
<1>4. ASSUME NEW i \in Ids, D!DeployCapability(i) PROVE DeployUnsent'
  <2>1. /\ writer = "nobody" /\ drec = D!NoReceipt /\ AuthD[i].status = "EXECUTING"
        /\ dcall' = [pc |-> "role", receipt |-> D!NewReceipt(i)] /\ UNCHANGED <<AuthD, sent, drec, vcall>>
    BY <1>4 DEF D!DeployCapability, D!MayDeploy, D!Authorized
  <2>2. D!NewReceipt(i).auth = i /\ D!NewReceipt(i).deploy = "running" /\ D!NewReceipt(i).djob = 0
    BY DEF D!NewReceipt, D!NoReceipt
  <2>3. drec.deploy = "none" /\ auth'[i].status = "EXECUTING"
    BY <1>2, <2>1 DEF D!NoReceipt
  <2>4. NotYet /\ \A j \in Ids, x \in {"deploy", "verify"} : D!Did(j, x)' <=> D!Did(j, x)
    BY <2>1, <2>3 DEF NotYet, D!Did
  <2> QED
    BY <1>0, <2>1, <2>2, <2>3, <2>4 DEF DeployUnsent
<1>5. CASE D!DeployRefused
  <2>1. dcall' = D!Idle /\ UNCHANGED <<sent, drec, vcall>>
    BY <1>5 DEF D!DeployRefused
  <2> QED
    BY <1>0, <1>1, <2>1 DEF DeployUnsent, NotYet, D!Did
<1>6. CASE D!SaveDeployIntent
  <2>1. /\ dcall.pc = "role" /\ drec' = dcall.receipt /\ dcall' = [dcall EXCEPT !.pc = "saved"]
        /\ UNCHANGED <<AuthD, sent, vcall>>
    BY <1>6 DEF D!SaveDeployIntent, D!shared
  <2>2. dcall'.pc = "saved" /\ dcall'.receipt = dcall.receipt
    BY <1>0, <2>1 DEF D!Calls
  <2>3. NotYet /\ drec'.deploy = "running" /\ drec'.djob = 0
    BY <1>0, <2>1 DEF NotYet, DeployUnsent
  <2>4. dcall.receipt.auth \in Ids /\ auth'[dcall.receipt.auth].status = "EXECUTING"
    BY <1>0, <1>2, <2>1 DEF DeployUnsent
  <2>5. \A j \in Ids, x \in {"deploy", "verify"} : D!Did(j, x)' <=> D!Did(j, x)
    BY <2>1 DEF D!Did
  <2> QED
    BY <1>0, <2>1, <2>2, <2>3, <2>4, <2>5 DEF DeployUnsent
<1>7. CASE D!InvokeDeploy
  <2>1. dcall.pc = "saved" /\ dcall' = [dcall EXCEPT !.pc = "invoking"] /\ UNCHANGED <<drec, vcall>>
    BY <1>7 DEF D!InvokeDeploy
  <2>2. dcall'.pc = "invoking" /\ dcall'.receipt = dcall.receipt
    BY <1>0, <2>1 DEF D!Calls
  <2> QED
    BY <1>0, <2>1, <2>2 DEF DeployUnsent, NotYet
<1>8. CASE D!DeployAnswered \/ D!DeployAnsweredCrash
  <2>1. PICK e : drec' = D!DeployOutcome(dcall.receipt, e).receipt
    BY <1>8 DEF D!DeployAnswered, D!DeployAnsweredCrash, D!Judge
  <2>2. /\ dcall' = D!Idle /\ dcall.pc = "invoking"
        /\ UNCHANGED vcall \/ \A v \in Verifiers : vcall'[v] = D!Idle
    BY <1>8 DEF D!DeployAnswered, D!DeployAnsweredCrash, D!Restart, D!CallsLost
  <2>3. \E d \in {"succeeded", "failed", "uncertain"} : drec' = [dcall.receipt EXCEPT !.deploy = d]
    BY <2>1 DEF D!DeployOutcome
  <2>4. drec'.deploy # "none" /\ drec'.djob = 0
    BY <1>0, <2>3 DEF D!Receipts, DeployUnsent
  <2> QED
    BY <1>0, <1>1, <2>2, <2>4 DEF DeployUnsent, NotYet
<1> QED
  BY <1>3, <1>4, <1>5, <1>6, <1>7, <1>8 DEF D!Deploys

\* A verify call keeps this, for it runs only after the deploy.
LEMMA VerifiesKeepUnsent ==
  ASSUME InvokedLate, NEW v \in Verifiers, D!Verifies(v)
  PROVE  DeployUnsent'
<1>0. /\ D!Typed /\ DeployUnsent /\ vcall \in [Verifiers -> D!Calls]
      /\ drec \in D!Receipts
  BY DEF InvokedLate, HandInv, LinkInv, D!Typed
<1>1. D!Idle.pc = "idle" /\ D!Idle.receipt.djob = 0
  BY DEF D!Idle, D!NoReceipt
<1>2. /\ \A r \in D!Deployed(v) : ~NotYet /\ r = drec /\ drec.deploy = "succeeded"
      /\ \A o \in D!Conclusions(v) : ~NotYet /\ o.receipt.deploy = "succeeded" /\ o.receipt.djob = 0
      /\ vcall[v].pc # "idle" => ~NotYet
  BY ConcludesLate
<1> DEFINE Kept(w) == /\ vcall'[w].pc # "idle" => vcall'[w].receipt.deploy = "succeeded"
                      /\ vcall'[w].receipt.djob = 0
<1>3. /\ ~NotYet
      /\ drec' = drec \/ (drec'.deploy = "succeeded" /\ drec'.djob = 0)
      /\ dcall' \in {dcall, D!Idle}
      /\ \A w \in Verifiers : Kept(w)
  <2>1. \A w \in Verifiers : vcall'[w] \in {vcall[w], D!Idle} => Kept(w)
    BY <1>0, <1>1 DEF DeployUnsent
  <2>2. UNCHANGED vcall \/ D!Restart => \A w \in Verifiers : vcall'[w] \in {vcall[w], D!Idle}
    BY DEF D!Restart, D!CallsLost
  <2>3. CASE D!VerifyProfile(v)
    <3>1. PICK r \in D!Deployed(v) :
            /\ D!StartJob("verify", r.auth)
            /\ drec' = [r EXCEPT !.vjob = Len(jobs) + 1, !.verify = "running"]
      BY <2>3 DEF D!VerifyProfile
    <3>2. drec'.deploy = "succeeded" /\ drec'.djob = 0
      BY <1>0, <1>2, <3>1 DEF D!Receipts, DeployUnsent
    <3>3. UNCHANGED <<dcall, vcall>>
      BY <2>3 DEF D!VerifyProfile
    <3> QED
      BY <1>2, <2>1, <2>2, <3>2, <3>3
  <2>4. CASE D!VerifyNotStarted(v)
    <3>1. drec' \in D!Deployed(v) /\ UNCHANGED <<dcall, vcall>>
      BY <2>4 DEF D!VerifyNotStarted
    <3> QED
      BY <1>2, <2>1, <2>2, <3>1
  <2>5. CASE D!VerifyProfileCrash(v)
    <3>1. drec' \in D!Deployed(v) /\ D!Restart
      BY <2>5 DEF D!VerifyProfileCrash
    <3> QED
      BY <1>2, <2>1, <2>2, <3>1 DEF D!Restart, D!CallsLost
  <2>6. CASE D!VerifyCapability(v)
    <3>1. PICK r \in D!Deployed(v) : drec' = r /\ vcall' = [vcall EXCEPT ![v] = [pc |-> "role", receipt |-> r]] /\ dcall' = dcall
      BY <2>6 DEF D!VerifyCapability
    <3>2. Kept(v)
      BY <1>0, <1>2, <3>1 DEF DeployUnsent
    <3>3. \A w \in Verifiers : w # v => vcall'[w] = vcall[w]
      BY <1>0, <3>1
    <3> HIDE DEF Kept
    <3> QED
      BY <1>2, <2>1, <3>1, <3>2, <3>3
  <2>7. CASE D!VerifyReturns(v)
    <3>1. vcall[v].pc = "role" /\ vcall' = [vcall EXCEPT ![v] = D!Idle] /\ UNCHANGED <<drec, dcall>>
      BY <2>7 DEF D!VerifyReturns
    <3>2. \A w \in Verifiers : vcall'[w] \in {vcall[w], D!Idle}
      BY <1>0, <3>1
    <3> QED
      BY <1>2, <2>1, <3>1, <3>2
  <2>8. CASE D!SaveVerifyIntent(v)
    <3>1. /\ vcall[v].pc = "role" /\ drec' = [vcall[v].receipt EXCEPT !.verify = "running"] /\ dcall' = dcall
          /\ vcall' = [vcall EXCEPT ![v] = [pc |-> "saved", receipt |-> drec']]
      BY <2>8 DEF D!SaveVerifyIntent
    <3>2. drec'.deploy = "succeeded" /\ drec'.djob = 0
      BY <1>0, <3>1 DEF DeployUnsent, D!Calls, D!Receipts
    <3>3. Kept(v) /\ \A w \in Verifiers : w # v => vcall'[w] = vcall[w]
      BY <1>0, <3>1, <3>2
    <3> HIDE DEF Kept
    <3> QED
      BY <1>2, <2>1, <3>1, <3>2, <3>3
  <2>9. CASE D!InvokeVerify(v)
    <3>1. vcall[v].pc = "saved" /\ vcall' = [vcall EXCEPT ![v].pc = "invoking"] /\ UNCHANGED <<drec, dcall>>
      BY <2>9 DEF D!InvokeVerify
    <3>2. vcall'[v].receipt = vcall[v].receipt /\ \A w \in Verifiers : w # v => vcall'[w] = vcall[w]
      BY <1>0, <3>1 DEF D!Calls
    <3>3. Kept(v)
      BY <1>0, <3>1, <3>2 DEF DeployUnsent
    <3> HIDE DEF Kept
    <3> QED
      BY <1>2, <2>1, <3>1, <3>2, <3>3
  <2>10. CASE D!Conclude(v)
    <3>1. PICK o \in D!Conclusions(v) : drec' = o.receipt
      BY <2>10 DEF D!Conclude, D!Judge
    <3>2. vcall' = [vcall EXCEPT ![v] = D!Idle] /\ dcall' = dcall
      BY <2>10 DEF D!Conclude
    <3>3. \A w \in Verifiers : vcall'[w] \in {vcall[w], D!Idle}
      BY <1>0, <3>2
    <3> QED
      BY <1>2, <2>1, <3>1, <3>2, <3>3
  <2>11. CASE D!ConcludeCrash(v)
    <3>1. (\E o \in D!Conclusions(v) : drec' = o.receipt) /\ D!Restart
      BY <2>11 DEF D!ConcludeCrash
    <3> QED
      BY <1>2, <2>1, <2>2, <3>1 DEF D!Restart, D!CallsLost
  <2> QED
    BY <2>3, <2>4, <2>5, <2>6, <2>7, <2>8, <2>9, <2>10, <2>11 DEF D!Verifies
<1>4. ~NotYet' /\ dcall'.pc \notin {"role", "saved"}
  BY <1>0, <1>1, <1>3 DEF NotYet, DeployUnsent
<1> QED
  BY <1>0, <1>1, <1>3, <1>4 DEF DeployUnsent

\* So does everything around the calls, and a crash.
LEMMA DeployKeepsUnsent ==
  ASSUME InvokedLate, D!DeployNext \/ D!Crash
  PROVE  DeployUnsent'
<1>1. CASE D!Around
  <2>1. UNCHANGED <<AuthD, sent, drec, dcall, vcall>>
    BY <1>1 DEF D!Around, D!JobFinishes, D!DeadlinePasses, D!shared
  <2>2. \A i \in Ids : AuthD[i].status = auth[i].status /\ AuthD'[i].status = auth'[i].status
    BY DEF AuthD
  <2> QED
    BY <2>1, <2>2 DEF InvokedLate, DeployUnsent, NotYet, D!Did
<1>2. CASE D!Crash
  <2>1. UNCHANGED <<sent, drec>> /\ dcall' = D!Idle /\ vcall' = [v \in Verifiers |-> D!Idle]
    BY <1>2 DEF D!Crash, D!Restart, D!CallsLost
  <2>2. D!Idle.pc = "idle" /\ D!Idle.receipt.djob = 0
    BY DEF D!Idle, D!NoReceipt
  <2> QED
    BY <2>1, <2>2 DEF InvokedLate, DeployUnsent, NotYet, D!Did
<1> QED
  BY <1>1, <1>2, DeploysKeepUnsent, VerifiesKeepUnsent DEF D!DeployNext

\* A step of the deploy stage keeps the invariant.
LEMMA DeployKeepsGrant ==
  ASSUME GrantInv, DeployStep
  PROVE  GrantInv'
<1>0. /\ HandInv /\ LinkInv /\ D!Typed /\ D!LockHeld /\ M!TypeOK /\ D!OnRecord
      /\ Deploy!DeployNext \/ Deploy!Crash
  BY DEF GrantInv, HandInv, LinkInv, Locked, M!MInv, DeployStep
<1>1. D!DeployNext \/ D!Crash
  BY <1>0, DeploySeen
<1>2. plan' = plan
  BY <1>1, D!PlanFixed, Assumed DEF D!Next
<1>3. D!OnRecord'
  BY ONLY <1>0, <1>1, Assumed, D!ReceiptKept
<1>4. plan.deploy = "capability" => DeployUnsent'
  BY <1>1, DeployKeepsUnsent DEF GrantInv, InvokedLate
<1> QED
  BY <1>2, <1>3, <1>4, DeployKeepsHand DEF GrantInv

\* So does a step of the merge stage: the row of a deploy call is not its to end.
LEMMA MergeKeepsGrant ==
  ASSUME GrantInv, MergeStep
  PROVE  GrantInv'
<1>0. /\ HandInv /\ LinkInv /\ Next /\ D!Typed /\ D!Paid /\ Locked /\ M!TypeOK /\ D!OnRecord
  BY DEF GrantInv, HandInv, LinkInv, M!MInv, MergeStep
<1>1. /\ UNCHANGED <<plan, drec>>
      /\ UNCHANGED <<dcall, vcall>> \/ D!CallsLost
  BY <1>0, MergeLeaves
<1>2. \A i \in Ids : /\ D!Did(i, "deploy")' <=> D!Did(i, "deploy")
                     /\ D!Did(i, "verify")' <=> D!Did(i, "verify")
  BY <1>0, MergeMoves, SendSeen DEF D!Did
<1>3. D!OnRecord'
  BY <1>0, <1>1, <1>2 DEF D!OnRecord, D!HeldRecord, D!VerifyOnRecord, D!CallsLost, D!Idle
<1>4. ASSUME DeployUnsent, dcall'.pc \in {"role", "saved"}, UNCHANGED dcall
      PROVE  auth'[dcall.receipt.auth] = auth[dcall.receipt.auth]
  <2> DEFINE i == dcall.receipt.auth
  <2>1. i \in Ids /\ mrec[i] = "ok" /\ writer = "deploy"
    BY <1>0, <1>4 DEF DeployUnsent, D!Paid, D!PaidFor, Locked, D!LockHeld
  <2> HIDE DEF i
  <2>2. NothingHanded \/ UNCHANGED auth
    BY <1>0, <2>1, MergeShapes DEF Records, Condemns
  <2>3. auth'[i] = auth[i]
    BY <2>1, <2>2 DEF NothingHanded
  <2> QED
    BY <2>3 DEF i
<1>5. ASSUME DeployUnsent PROVE DeployUnsent'
  <2>1. CASE UNCHANGED <<dcall, vcall>>
    BY <1>0, <1>1, <1>2, <1>4, <1>5, <2>1 DEF DeployUnsent, NotYet
  <2>2. CASE D!CallsLost
    <3>1. dcall' = D!Idle /\ vcall' = [v \in Verifiers |-> D!Idle] /\ D!Idle.pc = "idle" /\ D!Idle.receipt.djob = 0
      BY <2>2 DEF D!CallsLost, D!Idle, D!NoReceipt
    <3> QED
      BY <1>0, <1>1, <1>2, <1>5, <3>1 DEF DeployUnsent, NotYet
  <2> QED
    BY <1>1, <2>1, <2>2
<1> QED
  BY <1>0, <1>1, <1>3, <1>5, MergeKeepsHand DEF GrantInv

-----------------------------------------------------------------------------
(* The steps of the contract.                                               *)

\* A move of a row is an offer, an answer, a use or an end.
LEMMA RowMovesContract ==
  ASSUME M!TypeOK, RowMoves, UNCHANGED <<sent, Unrecorded>>
  PROVE  [DeliveryContract!Next]_(DeliveryContract!vars)
<1>0. auth \in [Ids -> M!Rows] /\ GrantedSent' = GrantedSent
  BY DEF M!TypeOK, GrantedSent
<1>1. CASE UNCHANGED auth
  BY <1>0, <1>1 DEF Grants, GrantTask, DeliveryContract!vars
<1>2. ASSUME NEW i \in Ids, NEW b, NEW h, auth[i].status = "NONE", ActiveIds = {},
             auth' = [auth EXCEPT ![i] = [status |-> "READY", base |-> b, head |-> h, refs |-> local.refs]]
      PROVE  DeliveryContract!Next
  <2>1. /\ auth'[i].status = "READY"
        /\ \A j \in Ids : j # i => auth'[j] = auth[j]
    BY <1>0, <1>2
  <2>2. DeliveryContract!LiveOf("task") = {}
    <3>1. \A j \in Ids : auth[j].status \in M!Status /\ auth[j].status \notin Active
      BY <1>0, <1>2 DEF ActiveIds, M!Rows
    <3>2. \A j \in Ids : Grants[j] \notin {"offered", "given", "used"}
      BY <3>1 DEF Grants, GrantOf, Active, Pending
    <3> QED
      BY <3>2 DEF DeliveryContract!LiveOf, DeliveryContract!Live
  <2>3. Grants[i] = "none" /\ Grants' = [j \in Ids |-> IF j = i THEN "offered" ELSE Grants[j]]
    BY <1>2, <2>1 DEF Grants, GrantOf
  <2>4. GrantTask' = [GrantTask EXCEPT ![i] = "task"]
    BY <2>1 DEF GrantTask
  <2>5. DeliveryContract!Offer(i, "task")
    BY <1>0, <2>2, <2>3, <2>4 DEF DeliveryContract!Offer
  <2> QED
    BY <2>5 DEF DeliveryContract!Next
<1>3. ASSUME NEW i \in Ids, NEW s, SetStatus(i, s), s # "NONE", auth[i].status # "NONE",
             \/ GrantOf(auth[i].status) = "offered" /\ GrantOf(s) = "given"
             \/ GrantOf(auth[i].status) = "given" /\ GrantOf(s) = "used"
             \/ GrantOf(auth[i].status) \in {"offered", "given", "used"} /\ GrantOf(s) = "closed"
      PROVE  DeliveryContract!Next
  <2>1. auth'[i].status = s /\ \A j \in Ids : j # i => auth'[j] = auth[j]
    BY <1>0, <1>3 DEF SetStatus, M!Rows
  <2>2. Grants[i] = GrantOf(auth[i].status) /\ Grants' = [Grants EXCEPT ![i] = GrantOf(s)]
    BY <2>1 DEF Grants
  <2>3. GrantTask' = GrantTask
    BY <1>3, <2>1 DEF GrantTask
  <2>4. DeliveryContract!Give(i) \/ DeliveryContract!Use(i) \/ DeliveryContract!Close(i)
    BY <1>0, <1>3, <2>2, <2>3
    DEF DeliveryContract!Give, DeliveryContract!Use, DeliveryContract!Close, DeliveryContract!Live
  <2> QED
    BY <2>4 DEF DeliveryContract!Next
<1>4. ASSUME NEW i \in Ids, NEW s, SetStatus(i, s),
             \/ auth[i].status = "READY" /\ s = "APPROVED"
             \/ auth[i].status = "APPROVED" /\ s = "EXECUTING"
             \/ auth[i].status \in Pending /\ s \in {"REJECTED", "REVOKED", "STALE", "EXPIRED"}
             \/ auth[i].status = "EXECUTING" /\ s = "UNCERTAIN"
      PROVE  DeliveryContract!Next
  BY <1>3, <1>4 DEF GrantOf, Pending
<1> QED
  BY <1>1, <1>2, <1>4 DEF RowMoves

\* The request for a merge is the first effect of the plan.
LEMMA SendMergeContract ==
  ASSUME LinkInv, SendMerge, UNCHANGED Unrecorded
  PROVE  DeliveryContract!Next
<1> DEFINE i == mcall.auth
<1>1. mcall.pc = "begun" /\ UNCHANGED auth
  BY DEF SendMerge
<1>2. i \in Ids /\ sent[i] = <<>> /\ sent'[i] = <<"merge">> /\ \A j \in Ids : j # i => sent'[j] = sent[j]
  BY SendIsFirst
<1>3. Grants[i] = "used"
  BY <1>1, <1>2 DEF LinkInv, M!MInv, M!CallOwnsRow, Grants, GrantOf
<1> HIDE DEF i
<1>4. GrantedSent[i] = <<>> /\ GrantedSent' = [GrantedSent EXCEPT ![i] = Append(@, "merge")]
  <2>1. /\ Append(<<>>, "merge") = <<"merge">>
        /\ <<>> \in Seq({"merge", "deploy"}) /\ <<"merge">> \in Seq({"merge", "deploy"})
    OBVIOUS
  <2> QED
    BY <1>2, <2>1, NoVerification DEF GrantedSent
<1>5. Grants' = Grants /\ GrantTask' = GrantTask
  BY <1>1 DEF Grants, GrantTask
<1>6. DeliveryContract!Send(i)
  <2>1. 1 \in DOMAIN <<"merge", "deploy">> /\ <<"merge", "deploy">>[1] = "merge"
    OBVIOUS
  <2>2. DOMAIN GrantedSent[i] = {} /\ DOMAIN <<>> = {}
    BY <1>4
  <2>3. Unrecorded' = Unrecorded \ {i}
    BY <1>2, <2>2 DEF Unrecorded, Deploy!Did
  <2> QED
    BY <1>3, <1>4, <1>5, <2>1, <2>2, <2>3 DEF DeliveryContract!Send
<1> QED
  BY <1>2, <1>6 DEF DeliveryContract!Next

\* What a step does to rows and requests it does not touch, as the contract sees them.
LEMMA GrantsSeen ==
  /\ UNCHANGED AuthD => UNCHANGED <<Grants, GrantTask>>
  /\ UNCHANGED auth => UNCHANGED AuthD
<1>1. \A i \in Ids : AuthD[i].status = auth[i].status /\ AuthD'[i].status = auth'[i].status
  BY DEF AuthD
<1>2. ASSUME UNCHANGED AuthD PROVE UNCHANGED <<Grants, GrantTask>>
  <2>1. \A i \in Ids : auth'[i].status = auth[i].status
    BY <1>1, <1>2
  <2> QED
    BY <2>1 DEF Grants, GrantTask
<1> QED
  BY <1>2 DEF AuthD

\* The deploy is its second effect, and goes out again only if a crash took its record.
LEMMA SendDeployContract ==
  ASSUME D!Typed, UNCHANGED AuthD, NEW i \in Ids, auth[i].status = "EXECUTING",
         sent' = [sent EXCEPT ![i] = Append(@, "deploy")],
         ~D!Did(i, "verify"), D!Did(i, "deploy") => i \in Unrecorded,
         Unrecorded' = Unrecorded \ {i} \/ (crashes' # crashes /\ Unrecorded' = Unrecorded \cup {i})
  PROVE  DeliveryContract!Next
<1>1. /\ sent'[i] = Append(sent[i], "deploy") /\ sent[i] \in Seq(D!Effects)
      /\ \A j \in Ids : j # i => sent'[j] = sent[j]
  BY DEF D!Typed
<1>2. /\ Len(sent[i]) \in Nat /\ DOMAIN sent[i] = 1..Len(sent[i])
      /\ \A m \in 1..Len(sent[i]) : sent[i][m] \in {"merge", "deploy"}
  BY <1>1, LenProperties DEF D!Did, D!Effects
<1>3. sent[i] \in Seq({"merge", "deploy"}) /\ Append(sent[i], "deploy") \in Seq({"merge", "deploy"})
  <2>1. sent[i] \in Seq({"merge", "deploy"})
    BY <1>1, <1>2, SeqDef
  <2> QED
    BY <2>1, AppendProperties
<1>4. GrantedSent[i] = sent[i] /\ GrantedSent' = [GrantedSent EXCEPT ![i] = Append(@, "deploy")]
  <2>1. BeforeVerify(sent[i]) = sent[i] /\ BeforeVerify(sent'[i]) = Append(sent[i], "deploy")
    BY <1>1, <1>3, NoVerification
  <2>2. \A j \in Ids : j # i => BeforeVerify(sent'[j]) = BeforeVerify(sent[j])
    BY <1>1
  <2>3. GrantedSent[i] = sent[i]
    BY <2>1 DEF GrantedSent
  <2>4. /\ GrantedSent'[i] = Append(sent[i], "deploy")
        /\ \A j \in Ids : j # i => GrantedSent'[j] = GrantedSent[j]
    BY <2>1, <2>2 DEF GrantedSent
  <2>5. GrantedSent' = [j \in Ids |-> IF j = i THEN Append(sent[i], "deploy") ELSE GrantedSent[j]]
    BY <2>1, <2>2 DEF GrantedSent
  <2> QED
    BY <2>3, <2>5 DEF GrantedSent
<1>5. Grants' = Grants /\ GrantTask' = GrantTask /\ Grants[i] = "used"
  BY GrantsSeen DEF Grants, GrantOf
<1>6. DeliveryContract!Send(i)
  <2>1. /\ 1 \in DOMAIN <<"merge", "deploy">> /\ <<"merge", "deploy">>[1] = "merge"
        /\ 2 \in DOMAIN <<"merge", "deploy">> /\ <<"merge", "deploy">>[2] = "deploy"
    OBVIOUS
  <2>2. DeliveryContract!Before("merge", "deploy")
    BY <2>1 DEF DeliveryContract!Before
  <2>3. \A m \in DOMAIN GrantedSent[i] :
          DeliveryContract!Before(GrantedSent[i][m], "deploy") \/ (i \in Unrecorded /\ GrantedSent[i][m] = "deploy")
    BY <1>2, <1>4, <2>2 DEF D!Did
  <2> QED
    BY <1>4, <1>5, <2>1, <2>3 DEF DeliveryContract!Send
<1> QED
  BY <1>6 DEF DeliveryContract!Next

\* What stays without a record stays so while nothing is deployed and no record is made.
LEMMA UnrecordedKept ==
  ASSUME \A i \in Ids : D!Did(i, "deploy")' <=> D!Did(i, "deploy"), drec'.auth = drec.auth
  PROVE  UNCHANGED Unrecorded
<1>1. \A i \in Ids : (Deploy!Did(i, "deploy") /\ drec.auth # i)' <=> Deploy!Did(i, "deploy") /\ drec.auth # i
  BY DEF D!Did, Deploy!Did
<1> QED
  BY <1>1 DEF Unrecorded

\* A verification is none of its effects, and the end of a row closes its grant.
LEMMA DeployContract ==
  ASSUME GrantInv, DeployStep
  PROVE  [DeliveryContract!Next]_(DeliveryContract!vars)
<1>0. /\ LinkInv /\ D!Typed /\ D!LockHeld /\ D!OnRecord /\ auth \in [Ids -> M!Rows] /\ M!TypeOK
      /\ Deploy!DeployNext \/ Deploy!Crash
  BY DEF GrantInv, HandInv, LinkInv, Locked, M!MInv, M!TypeOK, DeployStep
<1>1. D!DeployNext \/ D!Crash
  BY <1>0, DeploySeen
<1>2. NoId \notin Ids /\ D!NoReceipt.auth = NoId /\ MaxCrash \in Nat /\ MaxJobs \in Nat
  BY Assumed DEF D!NoReceipt
<1>3. ASSUME UNCHANGED <<sent, Unrecorded>> PROVE [DeliveryContract!Next]_(DeliveryContract!vars)
  <2>1. \/ UNCHANGED auth
        \/ \E i : \E s \in {"EXECUTING", "SUCCEEDED", "FAILED", "UNCERTAIN"} : Deploy!EndAs(i, s)
    BY <1>0, DeployEnds
  <2>2. CASE UNCHANGED auth
    BY <1>3, <2>2 DEF Grants, GrantTask, GrantedSent, DeliveryContract!vars
  <2>3. ASSUME NEW i, NEW s \in {"EXECUTING", "SUCCEEDED", "FAILED", "UNCERTAIN"}, Deploy!EndAs(i, s), auth' # auth
        PROVE  DeliveryContract!Next
    <3>1. s # "EXECUTING" /\ auth[i].status = "EXECUTING" /\ auth' = [auth EXCEPT ![i].status = s]
      BY <2>3 DEF Deploy!EndAs
    <3>2. i \in Ids
      BY <1>0, <2>3, <3>1
    <3>3. auth'[i].status = s /\ \A j \in Ids : j # i => auth'[j] = auth[j]
      BY <1>0, <3>1, <3>2 DEF M!Rows
    <3>4. Grants[i] = "used" /\ Grants' = [Grants EXCEPT ![i] = "closed"]
      BY <2>3, <3>1, <3>2, <3>3 DEF Grants, GrantOf
    <3>5. GrantTask' = GrantTask /\ GrantedSent' = GrantedSent
      BY <1>3, <3>1, <3>3 DEF GrantTask, GrantedSent
    <3>6. DeliveryContract!Close(i)
      BY <1>3, <3>4, <3>5 DEF DeliveryContract!Close, DeliveryContract!Live
    <3> QED
      BY <3>2, <3>6 DEF DeliveryContract!Next
  <2> QED
    BY <2>1, <2>2, <2>3
<1>4. ASSUME UNCHANGED sent, drec'.auth = drec.auth \/ D!SaveDeployIntent PROVE UNCHANGED Unrecorded
  <2>1. \A i \in Ids : D!Did(i, "deploy")' <=> D!Did(i, "deploy")
    BY <1>4 DEF D!Did
  <2>2. CASE D!SaveDeployIntent
    <3>1. dcall.pc = "role" /\ plan.deploy = "capability" /\ DeployUnsent
      BY <2>2 DEF D!SaveDeployIntent, GrantInv, D!OnRecord, D!HeldRecord
    <3>2. \A i \in Ids : ~D!Did(i, "deploy") /\ ~D!Did(i, "deploy")'
      BY <2>1, <3>1 DEF DeployUnsent, NotYet
    <3> QED
      BY <3>2 DEF Unrecorded, D!Did, Deploy!Did
  <2> QED
    BY <1>4, <2>1, <2>2, UnrecordedKept
<1>5. ASSUME drec'.auth = drec.auth, drec.auth \in Ids, UNCHANGED AuthD,
             sent' = [sent EXCEPT ![drec.auth] = Append(@, "verify")]
      PROVE  UNCHANGED DeliveryContract!vars
  <2>1. sent \in [Ids -> Seq({"merge", "deploy", "verify"})]
    BY <1>0 DEF D!Typed, D!Effects
  <2>2. \A j \in Ids : sent'[j] = sent[j] \/ sent'[j] = Append(sent[j], "verify")
    BY <1>5, <2>1
  <2>3. GrantedSent' = GrantedSent
    BY <2>1, <2>2, BeforeAppends DEF GrantedSent
  <2>4. \A j \in Ids : D!Did(j, "deploy")' <=> D!Did(j, "deploy")
    <3>1. "verify" \in D!Effects /\ "deploy" \in D!Effects
      BY DEF D!Effects
    <3> QED
      BY ONLY <1>0, <1>5, <3>1, Assumed, D!Sends
  <2> QED
    BY <1>5, <2>3, <2>4, UnrecordedKept, GrantsSeen DEF DeliveryContract!vars
<1>6. CASE D!InvokeDeploy
  <2> DEFINE i == dcall.receipt.auth
  <2>1. /\ dcall.pc = "saved" /\ sent' = [sent EXCEPT ![i] = Append(@, "deploy")] /\ UNCHANGED <<AuthD, drec>>
    BY <1>6 DEF D!InvokeDeploy
  <2>2. plan.deploy = "capability" /\ DeployUnsent /\ i \in Ids /\ drec.auth = i
    BY <2>1 DEF GrantInv, D!OnRecord, D!HeldRecord
  <2>3. auth[i].status = "EXECUTING" /\ ~D!Did(i, "verify") /\ \A j \in Ids : ~D!Did(j, "deploy")
    BY <2>1, <2>2 DEF DeployUnsent, NotYet
  <2> HIDE DEF i
  <2>4. \A j \in Ids : j # i => ~D!Did(j, "deploy")'
    BY <1>0, <2>1, <2>2, <2>3 DEF D!Typed, D!Did
  <2>5. Unrecorded = {} /\ Unrecorded' = {}
    BY <2>1, <2>2, <2>3, <2>4 DEF Unrecorded, D!Did, Deploy!Did
  <2> QED
    BY <1>0, <2>1, <2>2, <2>3, <2>5, SendDeployContract
<1>7. ASSUME NEW i \in Ids, sent' = [sent EXCEPT ![i] = Append(@, "deploy")], drec = D!NoReceipt,
             (D!DeployProfile(i) /\ drec'.auth = i) \/ D!DeployProfileCrash(i)
      PROVE  DeliveryContract!Next
  <2>1. UNCHANGED AuthD /\ AuthD[i].status = "EXECUTING"
    BY <1>7 DEF D!DeployProfile, D!DeployProfileCrash, D!MayDeploy, D!Authorized
  <2>2. auth[i].status = "EXECUTING"
    BY <2>1 DEF AuthD
  <2>3. ~D!Did(i, "verify") /\ (D!Did(i, "deploy") => i \in Unrecorded)
    BY <1>0, <1>2, <1>7 DEF D!OnRecord, D!VerifyOnRecord, Unrecorded, D!Did, Deploy!Did
  <2>4. \A j \in Ids : D!Did(j, "deploy")' <=> D!Did(j, "deploy") \/ j = i
    <3>1. "deploy" \in D!Effects
      BY DEF D!Effects
    <3> QED
      BY ONLY <1>0, <1>7, <3>1, Assumed, D!Sends
  <2>5. CASE drec'.auth = i
    <3>1. Unrecorded' = Unrecorded \ {i}
      BY <1>2, <1>7, <2>4, <2>5 DEF Unrecorded, D!Did, Deploy!Did
    <3> QED
      BY <1>0, <1>7, <2>1, <2>2, <2>3, <3>1, SendDeployContract
  <2>6. CASE D!DeployProfileCrash(i)
    <3>1. drec' = drec /\ crashes' = crashes + 1 /\ crashes \in Nat
      BY <1>0, <1>2, <2>6 DEF D!DeployProfileCrash, D!Restart, D!Typed
    <3>2. Unrecorded' = Unrecorded \cup {i}
      BY <1>2, <1>7, <2>4, <3>1 DEF Unrecorded, D!Did, Deploy!Did
    <3>3. crashes' # crashes
      BY <3>1
    <3> QED
      BY <1>0, <1>7, <2>1, <2>2, <2>3, <3>2, <3>3, SendDeployContract
  <2> QED
    BY <1>7, <2>5, <2>6
<1>8. \/ UNCHANGED sent /\ (drec'.auth = drec.auth \/ D!SaveDeployIntent)
      \/ /\ drec'.auth = drec.auth /\ drec.auth \in Ids /\ UNCHANGED AuthD
         /\ sent' = [sent EXCEPT ![drec.auth] = Append(@, "verify")]
      \/ D!InvokeDeploy
      \/ \E i \in Ids : /\ sent' = [sent EXCEPT ![i] = Append(@, "deploy")] /\ drec = D!NoReceipt
                        /\ (D!DeployProfile(i) /\ drec'.auth = i) \/ D!DeployProfileCrash(i)
  BY ONLY <1>0, <1>1, Assumed, D!ReceiptKept
<1> QED
  BY <1>3, <1>4, <1>5, <1>6, <1>7, <1>8

\* What is on record without its deploy is no business of the merge stage.
LEMMA MergeKeepsUnrecorded ==
  ASSUME LinkInv, MergeStep
  PROVE  UNCHANGED Unrecorded
<1>1. drec' = drec
  BY MergeLeaves
<1>2. \A i \in Ids : D!Did(i, "deploy")' <=> D!Did(i, "deploy")
  BY MergeMoves, SendSeen DEF MergeStep, D!Did
<1> QED
  BY <1>1, <1>2, UnrecordedKept

\* A grant is used once and pays for at most one merge request followed by at most one
\* deploy (prLifecycle.ts, v2Deploy), whichever way deploy.yaml names the deploy; only a
\* crash between a deploy job's start and its receipt lets the grant pay for the job again.
THEOREM DeliveryKeepsContract == DeliverySpec => DeliveryImplementsContract
<1>1. DeliveryInit => GrantInv /\ DeliveryContract!Init
  <2> SUFFICES ASSUME DeliveryInit PROVE GrantInv /\ DeliveryContract!Init
    OBVIOUS
  <2>1. Init /\ Deploy!DInit /\ HandInv
    BY HandInit DEF DeliveryInit
  <2>2. \A i \in Ids : auth[i].status = "NONE" /\ sent[i] = <<>> /\ ~D!Did(i, "deploy") /\ ~D!Did(i, "verify")
    <3>1. \A i \in Ids : auth[i].status = "NONE" /\ sent[i] = <<>>
      BY <2>1 DEF Init, NoRow
    <3>2. DOMAIN <<>> = {}
      OBVIOUS
    <3> QED
      BY <3>1, <3>2 DEF D!Did
  <2>3. DeployUnsent /\ D!OnRecord
    BY <2>1, <2>2 DEF Deploy!DInit, Deploy!Idle, Deploy!NoReceipt, DeployUnsent,
       D!OnRecord, D!HeldRecord, D!VerifyOnRecord, D!NoReceipt
  <2>4. DeliveryContract!Init
    <3>1. Unrecorded = {} /\ <<>> \in Seq({"merge", "deploy"})
      BY <2>2 DEF Unrecorded, D!Did, Deploy!Did
    <3> QED
      BY <2>2, <3>1, NoVerification DEF DeliveryContract!Init, GrantTask, Grants, GrantedSent, GrantOf
  <2> QED
    BY <2>1, <2>3, <2>4 DEF GrantInv
<1>2. GrantInv /\ [DeliveryNext]_dvars => GrantInv' /\ [DeliveryContract!Next]_(DeliveryContract!vars)
  <2> SUFFICES ASSUME GrantInv, [DeliveryNext]_dvars
               PROVE  GrantInv' /\ [DeliveryContract!Next]_(DeliveryContract!vars)
    OBVIOUS
  <2>1. CASE UNCHANGED dvars
    <3>1. /\ UNCHANGED <<github, local, auth, mrec, sent, inFlight, mcall, writer, crashes>>
          /\ UNCHANGED <<plan, overdue, drec, jobs, dcall, vcall>>
      BY <2>1 DEF dvars, mvars, own
    <3>2. HandInv'
      BY <2>1, HandStep DEF GrantInv
    <3>3. D!OnRecord'
      BY <3>1 DEF GrantInv, D!OnRecord, D!HeldRecord, D!VerifyOnRecord, D!Did
    <3>4. GrantInv'
      BY <3>1, <3>2, <3>3 DEF GrantInv, DeployUnsent, NotYet, D!Did
    <3> QED
      BY <3>1, <3>4 DEF GrantTask, Grants, GrantedSent, Unrecorded, Deploy!Did, DeliveryContract!vars
  <2>2. CASE MergeStep
    <3>1. LinkInv /\ M!TypeOK /\ Next
      BY <2>2 DEF GrantInv, HandInv, LinkInv, M!MInv, MergeStep
    <3> QED
      BY <2>2, <3>1, MergeKeepsGrant, MergeMoves, MergeKeepsUnrecorded, RowMovesContract, SendMergeContract
  <2> QED
    BY <2>1, <2>2, DeployKeepsGrant, DeployContract DEF DeliveryNext
<1>3. GrantInv /\ [DeliveryNext]_dvars =>
        GrantInv' /\ [UNCHANGED DeliveryContract!vars \/ DeliveryContract!Next]_(DeliveryContract!vars)
  BY <1>2
<1> QED
  BY <1>1, <1>3, PTL DEF DeliverySpec, DeliveryImplementsContract

=============================================================================
