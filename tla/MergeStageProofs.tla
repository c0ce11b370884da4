-------------------------- MODULE MergeStageProofs --------------------------
(* Proofs, for any number of authorizations, of pushes to the base branch    *)
(* and of crashes, of the safety properties of the merge stage and of its    *)
(* refinement of the contract: one merge request per grant.                  *)
EXTENDS MergeStage, TLAPS

-----------------------------------------------------------------------------
(* The inductive invariant.  What a call carries across its awaits must     *)
(* still be true when it is used: its row exists, a call past Begin owns an *)
(* unspent grant, and an answer "merged" stays true because a merge is      *)
(* never undone.                                                            *)
Refused == {"REJECTED", "REVOKED", "STALE", "EXPIRED"}

UnusedSentNothing ==
  \A i \in Ids : auth[i].status \in {"NONE"} \cup Pending \cup Refused => sent[i] = <<>>

CallOwnsRow ==
  /\ mcall.pc \notin {"idle", "prepare"} => mcall.auth \in Ids /\ auth[mcall.auth].status # "NONE"
  /\ mcall.pc = "begun" => auth[mcall.auth].status = "EXECUTING" /\ sent[mcall.auth] = <<>>

AnswersAreTrue ==
  /\ mcall.answer = "merged" => github.state = "merged"
  /\ mcall.view.state = "merged" => github.state = "merged"

ReceiptHasRow == \A i \in Ids : mrec[i] = "ok" => auth[i].status # "NONE"

MInv == /\ TypeOK
        /\ UnusedSentNothing
        /\ CallOwnsRow
        /\ AnswersAreTrue
        /\ ReceiptHasRow
        /\ ReceiptIsExact
        /\ CondemnedOnlyIfMerged

(* The first state satisfies the invariant.                                 *)
LEMMA MergeInit == Init => MInv
<1> SUFFICES ASSUME Init PROVE MInv
  OBVIOUS
<1>1. TypeOK
  BY MergeAssumption
  DEF Init, TypeOK, Github, Heads, Refs, Rows, NoRow, Status, Active, Pending, Calls, Idle, Reading,
      Views, NoView, Answers
<1>2. /\ \A i \in Ids : auth[i].status = "NONE" /\ sent[i] = <<>> /\ mrec[i] = "none"
      /\ mcall.pc = "idle" /\ mcall.answer = "none" /\ mcall.view.state = "unread"
  BY DEF Init, NoRow, Idle, NoView
<1> QED
  BY <1>1, <1>2 DEF MInv, UnusedSentNothing, CallOwnsRow, AnswersAreTrue, ReceiptHasRow,
     ReceiptIsExact, CondemnedOnlyIfMerged

-----------------------------------------------------------------------------
(* Typing, one lemma per shape of change.                                   *)

(* A new phase of the call is well typed.                                   *)
LEMMA CallTyped ==
  ASSUME TypeOK, NEW pc \in Reading, NEW i \in Ids \cup {NoId}
  PROVE  Call(pc, i) \in Calls
  BY MergeAssumption DEF TypeOK, Call, Calls, NoView, Views, Heads, Answers

(* No call is well typed.                                                   *)
LEMMA IdleTyped == Idle \in Calls
  BY MergeAssumption DEF Idle, Calls, NoView, Views, Heads, Answers

(* Setting a status keeps the rest of the row.                              *)
LEMMA StatusSet ==
  ASSUME TypeOK, NEW i \in Ids, NEW s \in Status, SetStatus(i, s)
  PROVE  /\ auth' \in [Ids -> Rows]
         /\ auth'[i].status = s
         /\ \A j \in Ids : j # i => auth'[j] = auth[j]
         /\ \A j \in Ids : auth'[j].base = auth[j].base /\ auth'[j].head = auth[j].head
  BY DEF TypeOK, SetStatus, Rows

(* A row keeps its binding, and a merge stays the merge it was.             *)
LEMMA ExactStays ==
  ASSUME NEW i \in Ids, ExactFor(i),
         auth'[i].base = auth[i].base, auth'[i].head = auth[i].head,
         github'.state = github.state, github'.on = github.on, github'.head = github.head
  PROVE  ExactFor(i)'
  BY DEF ExactFor

-----------------------------------------------------------------------------
(* Steps that change no row, receipt, effect or pull request: only the call *)
(* has to be sound afterwards.                                              *)
LEMMA CallOnlyKeeps ==
  ASSUME MInv, TypeOK', CallOwnsRow', AnswersAreTrue', UNCHANGED <<auth, mrec, sent, github>>
  PROVE  MInv'
  BY DEF MInv, UnusedSentNothing, ReceiptHasRow, ReceiptIsExact, ExactFor, CondemnedOnlyIfMerged

(* Leaving the call: no call, hence nothing to be sound.                    *)
LEMMA ReturnSound == Return => CallOwnsRow' /\ AnswersAreTrue' /\ mcall' \in Calls /\ writer' = "nobody"
  BY IdleTyped DEF Return, Idle, NoView, CallOwnsRow, AnswersAreTrue

(* Entering a phase of the call for a row that exists.                      *)
LEMMA EnterSound ==
  ASSUME TypeOK, NEW pc \in Reading, NEW i \in Ids \cup {NoId}, mcall' = Call(pc, i),
         pc # "prepare" => i \in Ids /\ auth'[i].status # "NONE"
  PROVE  CallOwnsRow' /\ AnswersAreTrue' /\ mcall' \in Calls
  BY CallTyped DEF Call, Reading, NoView, CallOwnsRow, AnswersAreTrue

(* Steps that set one status: a row in use or ended had no unsent grant.    *)
LEMMA StatusKeeps ==
  ASSUME MInv, TypeOK', CallOwnsRow', AnswersAreTrue', NEW i \in Ids, NEW s \in Status,
         SetStatus(i, s), UNCHANGED <<mrec, sent, github>>,
         auth[i].status # "NONE", s # "NONE",
         s \in Pending \cup Refused => auth[i].status \in Pending,
         s = "UNCERTAIN" => github.state = "merged"
  PROVE  MInv'
<1>1. /\ auth'[i].status = s
      /\ \A j \in Ids : j # i => auth'[j] = auth[j]
      /\ \A j \in Ids : auth'[j].base = auth[j].base /\ auth'[j].head = auth[j].head
  BY StatusSet DEF MInv
<1>2. UnusedSentNothing'
  BY <1>1 DEF MInv, UnusedSentNothing
<1>3. ReceiptHasRow'
  BY <1>1 DEF MInv, ReceiptHasRow
<1>4. ReceiptIsExact'
  BY <1>1, ExactStays DEF MInv, ReceiptIsExact
<1>5. CondemnedOnlyIfMerged'
  BY <1>1 DEF MInv, CondemnedOnlyIfMerged
<1> QED BY <1>2, <1>3, <1>4, <1>5 DEF MInv

(* Writing a receipt for a row whose merge was just verified.               *)
LEMMA PersistKeeps ==
  ASSUME MInv, NEW i \in Ids, Persist(i), Return, ExactFor(i), auth[i].status # "NONE",
         UNCHANGED <<auth, sent, outside>>
  PROVE  MInv'
<1> USE DEF outside
<1>1. /\ mrec' \in [Ids -> {"none", "ok", "torn"}]
      /\ crashes' \in 0..MaxCrash
      /\ \A j \in Ids : mrec'[j] = "ok" => mrec[j] = "ok" \/ j = i
  BY MergeAssumption DEF Persist, MInv, TypeOK
<1>2. CallOwnsRow' /\ AnswersAreTrue' /\ mcall' \in Calls /\ writer' = "nobody"
  BY ReturnSound
<1>3. TypeOK'
  BY <1>1, <1>2 DEF MInv, TypeOK
<1>4. ReceiptHasRow' /\ ReceiptIsExact'
  BY <1>1 DEF MInv, ReceiptHasRow, ReceiptIsExact, ExactFor
<1> QED BY <1>2, <1>3, <1>4 DEF MInv, UnusedSentNothing, CondemnedOnlyIfMerged

-----------------------------------------------------------------------------
(* The actions of the call.                                                 *)

(* A call starts for nobody, or for the active row.                         *)
LEMMA StartMergeKeeps == MInv /\ StartMerge => MInv'
<1> SUFFICES ASSUME MInv, StartMerge PROVE MInv'
  OBVIOUS
<1> USE DEF ledger, outside
<1>1. CallOwnsRow' /\ AnswersAreTrue' /\ mcall' \in Calls
  <2>1. CASE mcall' = Call("prepare", NoId)
    BY <2>1, EnterSound DEF MInv, Reading
  <2>2. CASE \E i \in ActiveIds : mcall' = Call(EntryPhase[auth[i].status], i)
    <3>1. PICK i \in Ids : auth[i].status \in Active /\ mcall' = Call(EntryPhase[auth[i].status], i)
      BY <2>2 DEF ActiveIds
    <3>2. EntryPhase[auth[i].status] \in Reading \ {"prepare"} /\ auth'[i].status # "NONE"
      BY <3>1 DEF EntryPhase, Reading, Active, Pending, StartMerge
    <3> QED BY <3>1, <3>2, EnterSound DEF MInv
  <2> QED BY <2>1, <2>2 DEF StartMerge
<1>2. TypeOK'
  BY <1>1 DEF StartMerge, MInv, TypeOK
<1> QED BY <1>1, <1>2, CallOnlyKeeps DEF StartMerge

(* What GitHub answers to a read is true of the pull request.               *)
LEMMA GithubAnswersKeeps == MInv /\ GithubAnswers => MInv'
<1> SUFFICES ASSUME MInv, GithubAnswers PROVE MInv'
  OBVIOUS
<1> USE DEF ledger, outside
<1>1. PICK b \in 0..github.base :
        mcall' = [mcall EXCEPT !.view = [state |-> github.state, head |-> github.head, base |-> b]]
  BY DEF GithubAnswers
<1>2. mcall' \in Calls
  BY <1>1, MergeAssumption DEF MInv, TypeOK, Calls, Views, Github
<1>3. TypeOK'
  BY <1>2 DEF GithubAnswers, MInv, TypeOK
<1>4. CallOwnsRow' /\ AnswersAreTrue'
  BY <1>1 DEF GithubAnswers, MInv, TypeOK, Calls, CallOwnsRow, AnswersAreTrue
<1> QED BY <1>3, <1>4, CallOnlyKeeps DEF GithubAnswers

(* A call that returns with nothing done.                                   *)
LEMMA GiveUpKeeps == MInv /\ GiveUp => MInv'
<1> SUFFICES ASSUME MInv, GiveUp PROVE MInv'
  OBVIOUS
<1> USE DEF ledger, outside
<1>1. CallOwnsRow' /\ AnswersAreTrue' /\ mcall' \in Calls /\ writer' = "nobody"
  BY ReturnSound DEF GiveUp
<1>2. TypeOK'
  BY <1>1 DEF GiveUp, MInv, TypeOK
<1> QED BY <1>1, <1>2, CallOnlyKeeps DEF GiveUp

(* A new row carries nothing and has no receipt.                            *)
LEMMA PrepareKeeps == ASSUME MInv, NEW i \in Ids, Prepare(i) PROVE MInv'
<1> USE DEF outside
<1>1. CallOwnsRow' /\ AnswersAreTrue' /\ mcall' \in Calls /\ writer' = "nobody"
  BY ReturnSound DEF Prepare
<1>2. /\ auth' \in [Ids -> Rows] /\ auth'[i].status = "READY" /\ auth[i].status = "NONE"
      /\ \A j \in Ids : j # i => auth'[j] = auth[j]
  BY DEF Prepare, MInv, TypeOK, Rows, Calls, Views, Status, Active, Pending
<1>3. TypeOK'
  BY <1>1, <1>2 DEF Prepare, MInv, TypeOK
<1>4. mrec[i] # "ok" /\ sent[i] = <<>>
  BY <1>2 DEF MInv, ReceiptHasRow, UnusedSentNothing
<1>5. UnusedSentNothing' /\ ReceiptHasRow' /\ CondemnedOnlyIfMerged'
  BY <1>2, <1>4 DEF Prepare, MInv, UnusedSentNothing, ReceiptHasRow, CondemnedOnlyIfMerged
<1>6. ReceiptIsExact'
  BY <1>2, <1>4 DEF Prepare, MInv, ReceiptIsExact, ExactFor
<1> QED BY <1>1, <1>3, <1>5, <1>6 DEF MInv

(* A drifted proposal is closed, unless somebody else moved it first.       *)
LEMMA MarkStaleKeeps ==
  ASSUME MInv, NEW i \in Ids, NEW from \in Pending, MarkStale(i, from),
         CallOwnsRow', AnswersAreTrue', mcall' \in Calls, writer' \in {"nobody", "pr_merge"},
         UNCHANGED <<mrec, sent, outside, crashes>>
  PROVE  MInv'
<1> USE DEF outside
<1>1. CASE auth[i].status = from
  <2>1. SetStatus(i, "STALE") /\ "STALE" \in Status
    BY <1>1 DEF MarkStale, Status
  <2>2. TypeOK'
    BY <2>1, StatusSet DEF MInv, TypeOK
  <2> QED BY <1>1, <2>1, <2>2, StatusKeeps DEF Pending
<1>2. CASE auth[i].status # from
  <2>1. UNCHANGED auth
    BY <1>2 DEF MarkStale
  <2>2. TypeOK'
    BY <2>1 DEF MInv, TypeOK
  <2> QED BY <2>1, <2>2, CallOnlyKeeps
<1> QED BY <1>1, <1>2

(* Revalidation of a READY row.                                             *)
LEMMA RecheckReadyKeeps == MInv /\ RecheckReady => MInv'
<1> SUFFICES ASSUME MInv, RecheckReady PROVE MInv'
  OBVIOUS
<1> DEFINE i == mcall.auth
<1>1. i \in Ids /\ "READY" \in Pending
  BY DEF MInv, CallOwnsRow, RecheckReady, Answered, Pending
<1>2. Return \/ Enter("prepare", NoId)
  BY DEF RecheckReady
<1>3. CallOwnsRow' /\ AnswersAreTrue' /\ mcall' \in Calls /\ writer' \in {"nobody", "pr_merge"}
  BY <1>2, ReturnSound, EnterSound DEF MInv, TypeOK, Enter, Reading
<1>4. CASE UNCHANGED auth
  <2>1. TypeOK'
    BY <1>3, <1>4 DEF RecheckReady, outside, MInv, TypeOK
  <2> QED BY <1>3, <1>4, <2>1, CallOnlyKeeps DEF RecheckReady, outside
<1>5. CASE MarkStale(i, "READY")
  BY <1>1, <1>3, <1>5, MarkStaleKeeps DEF RecheckReady
<1> QED BY <1>4, <1>5 DEF RecheckReady

(* Revalidation of an APPROVED row.                                         *)
LEMMA RecheckApprovedKeeps == MInv /\ RecheckApproved => MInv'
<1> SUFFICES ASSUME MInv, RecheckApproved PROVE MInv'
  OBVIOUS
<1> DEFINE i == mcall.auth
<1>1. i \in Ids /\ auth[i].status # "NONE" /\ "APPROVED" \in Pending
  BY DEF MInv, CallOwnsRow, RecheckApproved, Answered, Pending
<1>2. CASE Enter("inspect", i) /\ UNCHANGED auth
  <2>1. CallOwnsRow' /\ AnswersAreTrue' /\ mcall' \in Calls
    BY <1>1, <1>2, EnterSound DEF MInv, Enter, Reading
  <2>2. TypeOK'
    BY <1>2, <2>1 DEF RecheckApproved, outside, Enter, MInv, TypeOK
  <2> QED BY <1>2, <2>1, <2>2, CallOnlyKeeps DEF RecheckApproved, outside
<1>3. CASE MarkStale(i, "APPROVED") /\ Return
  BY <1>1, <1>3, ReturnSound, MarkStaleKeeps DEF RecheckApproved
<1> QED BY <1>2, <1>3 DEF RecheckApproved

(* The grant is consumed: the call now owns a used grant that sent nothing. *)
LEMMA BeginKeeps == MInv /\ Begin => MInv'
<1> SUFFICES ASSUME MInv, Begin PROVE MInv'
  OBVIOUS
<1> DEFINE i == mcall.auth
<1> USE DEF outside
<1>1. i \in Ids /\ auth[i].status = "APPROVED" /\ SetStatus(i, "EXECUTING") /\ "EXECUTING" \in Status
      /\ mcall' = [mcall EXCEPT !.pc = "begun"]
  BY DEF MInv, CallOwnsRow, Begin, Answered, Status, Active
<1>2. mcall' \in Calls /\ mcall'.pc = "begun" /\ mcall'.auth = i /\ AnswersAreTrue'
  BY <1>1 DEF Begin, MInv, TypeOK, Calls, AnswersAreTrue
<1>3. sent[i] = <<>> /\ auth'[i].status = "EXECUTING" /\ auth' \in [Ids -> Rows]
  BY <1>1, StatusSet DEF MInv, UnusedSentNothing, Pending
<1>4. CallOwnsRow'
  BY <1>1, <1>2, <1>3 DEF Begin, CallOwnsRow
<1>5. TypeOK'
  BY <1>2, <1>3 DEF Begin, MInv, TypeOK
<1> QED BY <1>1, <1>2, <1>4, <1>5, StatusKeeps DEF Begin, Pending, Refused

(* Falling back to observing.                                               *)
LEMMA ObserveLaterKeeps ==
  ASSUME MInv, mcall.pc \in {"begun", "merging"}, Enter("observe", mcall.auth),
         UNCHANGED <<ledger, outside, crashes>>
  PROVE  MInv'
<1> USE DEF ledger, outside
<1>1. mcall.auth \in Ids /\ auth'[mcall.auth].status # "NONE"
  BY DEF MInv, CallOwnsRow
<1>2. CallOwnsRow' /\ AnswersAreTrue' /\ mcall' \in Calls
  BY <1>1, EnterSound DEF MInv, Enter, Reading
<1>3. TypeOK'
  BY <1>2 DEF Enter, MInv, TypeOK
<1> QED BY <1>2, <1>3, CallOnlyKeeps

(* The one request of this grant goes out.                                  *)
LEMMA SendMergeKeeps == MInv /\ SendMerge => MInv'
<1> SUFFICES ASSUME MInv, SendMerge PROVE MInv'
  OBVIOUS
<1> DEFINE i == mcall.auth
<1>1. i \in Ids /\ auth[i].status = "EXECUTING" /\ sent[i] = <<>>
  BY DEF MInv, CallOwnsRow, SendMerge
<1>2. /\ sent'[i] = <<"merge">> /\ sent' \in [Ids -> {<<>>, <<"merge">>}]
      /\ \A j \in Ids : j # i => sent'[j] = sent[j]
  BY <1>1 DEF SendMerge, MInv, TypeOK
<1>3. mcall' \in Calls /\ CallOwnsRow' /\ AnswersAreTrue'
  BY <1>1 DEF SendMerge, MInv, TypeOK, Calls, CallOwnsRow, AnswersAreTrue
<1>4. TypeOK'
  BY <1>1, <1>2, <1>3 DEF SendMerge, MInv, TypeOK
<1>5. UnusedSentNothing'
  BY <1>1, <1>2 DEF SendMerge, MInv, UnusedSentNothing, Pending, Refused
<1> QED
  BY <1>3, <1>4, <1>5
  DEF SendMerge, MInv, ReceiptHasRow, ReceiptIsExact, ExactFor, CondemnedOnlyIfMerged

(* An EXECUTING row is condemned, or was moved by somebody else.            *)
LEMMA CondemnKeeps ==
  ASSUME MInv, NEW i \in Ids, MarkUncertain(i), github.state = "merged", Return,
         UNCHANGED <<mrec, sent, outside, crashes>>
  PROVE  MInv'
<1> USE DEF outside
<1>1. CallOwnsRow' /\ AnswersAreTrue' /\ mcall' \in Calls /\ writer' = "nobody"
  BY ReturnSound
<1>2. CASE auth[i].status = "EXECUTING"
  <2>1. SetStatus(i, "UNCERTAIN") /\ "UNCERTAIN" \in Status
    BY <1>2 DEF MarkUncertain, Status
  <2>2. TypeOK'
    BY <1>1, <2>1, StatusSet DEF MInv, TypeOK
  <2> QED BY <1>1, <1>2, <2>1, <2>2, StatusKeeps DEF Pending, Refused
<1>3. CASE auth[i].status # "EXECUTING"
  <2>1. UNCHANGED auth
    BY <1>3 DEF MarkUncertain
  <2>2. TypeOK'
    BY <1>1, <2>1 DEF MInv, TypeOK
  <2> QED BY <1>1, <2>1, <2>2, CallOnlyKeeps
<1> QED BY <1>2, <1>3

(* The four ways a merge or an observation is concluded.                    *)
LEMMA ConclusionKeeps == MInv /\ (RecordMerge \/ CondemnMerge \/ ObserveExact \/ ObserveInexact) => MInv'
<1> SUFFICES ASSUME MInv, RecordMerge \/ CondemnMerge \/ ObserveExact \/ ObserveInexact PROVE MInv'
  OBVIOUS
<1> DEFINE i == mcall.auth
<1>1. i \in Ids /\ auth[i].status # "NONE" /\ github.state = "merged"
  BY DEF MInv, CallOwnsRow, AnswersAreTrue, RecordMerge, CondemnMerge, ObserveExact, ObserveInexact,
     Confirmed, Answered
<1>2. CASE RecordMerge
  BY <1>1, <1>2, PersistKeeps DEF RecordMerge
<1>3. CASE ObserveExact
  BY <1>1, <1>3, PersistKeeps DEF ObserveExact
<1>4. CASE CondemnMerge
  BY <1>1, <1>4, CondemnKeeps DEF CondemnMerge
<1>5. CASE ObserveInexact
  BY <1>1, <1>5, CondemnKeeps DEF ObserveInexact, MarkUncertain
<1> QED BY <1>2, <1>3, <1>4, <1>5

-----------------------------------------------------------------------------
(* The environment.                                                         *)

(* Only an open pull request changes, so no merge is undone or redone.      *)
LEMMA GithubKeeps ==
  ASSUME MInv, TypeOK', CallOwnsRow', UNCHANGED ledger,
         github.state = "merged" => github'.state = "merged" /\ github'.on = github.on
                                    /\ github'.head = github.head,
         mcall'.view = mcall.view,
         mcall'.answer = mcall.answer \/ mcall'.answer = "refused" \/ github'.state = "merged"
  PROVE  MInv'
<1> USE DEF ledger
<1>1. AnswersAreTrue'
  BY DEF MInv, AnswersAreTrue
<1>2. ReceiptIsExact'
  BY DEF MInv, ReceiptIsExact, ExactFor
<1> QED BY <1>1, <1>2 DEF MInv, UnusedSentNothing, ReceiptHasRow, CondemnedOnlyIfMerged

(* GitHub processes a request, whether or not somebody still waits for it.  *)
LEMMA ProcessKeeps == ASSUME MInv, NEW i \in Ids, GithubMerges(i) \/ GithubRefuses(i) PROVE MInv'
<1> USE DEF ledger
<1>1. /\ mcall'.pc = mcall.pc /\ mcall'.auth = mcall.auth /\ mcall'.view = mcall.view
      /\ mcall' \in Calls
      /\ GithubMerges(i) => mcall'.answer = mcall.answer \/ mcall'.answer = "merged"
      /\ GithubRefuses(i) => mcall'.answer = mcall.answer \/ mcall'.answer = "refused"
  BY DEF GithubMerges, GithubRefuses, Reply, MInv, TypeOK, Calls, Answers
<1>2. CallOwnsRow'
  BY <1>1 DEF GithubMerges, GithubRefuses, MInv, CallOwnsRow
<1>3. CASE GithubMerges(i)
  <2>1. github' \in Github /\ github'.state = "merged" /\ github.state = "open"
    BY <1>3 DEF GithubMerges, MInv, TypeOK, Github
  <2>2. TypeOK'
    BY <1>1, <1>3, <2>1 DEF GithubMerges, MInv, TypeOK
  <2> QED BY <1>1, <1>2, <1>3, <2>1, <2>2, GithubKeeps DEF GithubMerges
<1>4. CASE GithubRefuses(i)
  <2>1. TypeOK'
    BY <1>1, <1>4 DEF GithubRefuses, MInv, TypeOK
  <2> QED BY <1>1, <1>2, <1>4, <2>1, GithubKeeps DEF GithubRefuses
<1> QED BY <1>3, <1>4

(* Others push, close or merge.                                             *)
LEMMA OthersKeep == MInv /\ OthersAct => MInv'
<1> SUFFICES ASSUME MInv, OthersAct PROVE MInv'
  OBVIOUS
<1> USE DEF ledger
<1>1. github' \in Github
  <2>1. github \in Github /\ 2 \in Heads
    BY DEF MInv, TypeOK, Heads
  <2>2. CASE github.base < MaxBase
             /\ github' = [github EXCEPT !.base = @ + 1, !.later = github.state = "merged"]
    <3>1. github.base + 1 \in 0..MaxBase /\ (github.state = "merged") \in BOOLEAN
      BY <2>1, <2>2, MergeAssumption DEF Github
    <3> QED BY <2>1, <2>2, <3>1 DEF Github
  <2>3. CASE github' = [github EXCEPT !.head = 2]
    BY <2>1, <2>3 DEF Github
  <2>4. CASE github' = [github EXCEPT !.state = "closed"]
    BY <2>1, <2>4 DEF Github
  <2>5. CASE github' = [github EXCEPT !.state = "merged", !.on = github.base]
    BY <2>1, <2>5 DEF Github
  <2> QED BY <2>2, <2>3, <2>4, <2>5 DEF OthersAct
<1>2. github.state = "merged" => github'.state = "merged" /\ github'.on = github.on
                                 /\ github'.head = github.head
  BY DEF OthersAct, MInv, TypeOK, Github
<1>3. TypeOK' /\ CallOwnsRow'
  BY <1>1 DEF OthersAct, MInv, TypeOK, CallOwnsRow
<1> QED BY <1>2, <1>3, GithubKeeps DEF OthersAct

(* The worktree and the deploy action change.                               *)
LEMMA LocalKeeps == MInv /\ (AgentCommits \/ ActionChanges) => MInv'
<1> SUFFICES ASSUME MInv, AgentCommits \/ ActionChanges PROVE MInv'
  OBVIOUS
<1> USE DEF ledger
<1>1. TypeOK'
  BY DEF AgentCommits, ActionChanges, MInv, TypeOK, Heads, Refs
<1>2. CallOwnsRow' /\ AnswersAreTrue'
  BY DEF AgentCommits, ActionChanges, MInv, CallOwnsRow, AnswersAreTrue
<1> QED BY <1>1, <1>2, CallOnlyKeeps DEF AgentCommits, ActionChanges

(* The Human answers, the sweep expires: pending rows only.                 *)
LEMMA HumanOrSweepKeeps == ASSUME MInv, NEW i \in Ids, HumanOrSweep(i) PROVE MInv'
<1> USE DEF outside
<1>1. PICK s \in {"APPROVED", "REJECTED", "REVOKED", "EXPIRED"} :
        SetStatus(i, s) /\ auth[i].status \in Pending
  BY DEF HumanOrSweep, Pending
<1>2. s \in Status
  BY <1>1 DEF Status, Active, Pending
<1>3. /\ \A j \in Ids : j # i => auth'[j] = auth[j]
      /\ auth'[i].status = s /\ auth' \in [Ids -> Rows]
  BY <1>1, <1>2, StatusSet DEF MInv
<1>4. CallOwnsRow' /\ AnswersAreTrue'
  BY <1>1, <1>3 DEF HumanOrSweep, MInv, CallOwnsRow, AnswersAreTrue, Pending
<1>5. TypeOK'
  BY <1>3 DEF HumanOrSweep, MInv, TypeOK
<1> QED BY <1>1, <1>2, <1>4, <1>5, StatusKeeps DEF HumanOrSweep, Pending

(* The call dies with its Gateway.                                          *)
LEMMA CallLostKeeps == MInv /\ CallLost => MInv'
<1> SUFFICES ASSUME MInv, CallLost PROVE MInv'
  OBVIOUS
<1> USE DEF ledger, outside
<1>1. CallOwnsRow' /\ AnswersAreTrue' /\ mcall' \in Calls /\ writer' = "nobody"
  BY ReturnSound DEF CallLost
<1>2. TypeOK'
  BY <1>1, MergeAssumption DEF CallLost, MInv, TypeOK
<1> QED BY <1>1, <1>2, CallOnlyKeeps DEF CallLost

-----------------------------------------------------------------------------
(* Every step keeps the invariant.                                          *)
LEMMA MergeStepKeeps == MInv /\ [Next]_mvars => MInv'
<1> SUFFICES ASSUME MInv, [Next]_mvars PROVE MInv'
  OBVIOUS
<1>1. CASE Handler
  <2>1. CASE RefreshFails \/ MergeNotConfirmed
    BY <2>1, ObserveLaterKeeps DEF RefreshFails, MergeNotConfirmed
  <2> QED
    BY <1>1, <2>1, StartMergeKeeps, GiveUpKeeps, PrepareKeeps, RecheckReadyKeeps,
       RecheckApprovedKeeps, BeginKeeps, SendMergeKeeps, ConclusionKeeps DEF Handler
<1>2. CASE MergeEnvironment
  BY <1>2, GithubAnswersKeeps, OthersKeep, LocalKeeps, ProcessKeeps, HumanOrSweepKeeps
  DEF MergeEnvironment
<1>3. CASE CallLost
  BY <1>3, CallLostKeeps
<1>4. CASE UNCHANGED mvars
  BY <1>4 DEF mvars, MInv, TypeOK, UnusedSentNothing, CallOwnsRow, AnswersAreTrue, ReceiptHasRow,
     ReceiptIsExact, ExactFor, CondemnedOnlyIfMerged
<1> QED BY <1>1, <1>2, <1>3, <1>4 DEF Next

(* Every reachable state satisfies the invariant.                           *)
LEMMA MergeSafety == Spec => []MInv
  BY MergeInit, MergeStepKeeps, PTL DEF Spec

(* Every reachable state of the merge stage is well typed; in particular a  *)
(* grant pays for at most one merge request.                                *)
THEOREM MergeTypeCorrect == Spec => []TypeOK
  BY MergeSafety, PTL DEF MInv

(* A merge receipt always proves a merge of exactly the approved head onto  *)
(* exactly the approved base.                                               *)
THEOREM ReceiptAlwaysExact == Spec => []ReceiptIsExact
  BY MergeSafety, PTL DEF MInv

(* An authorization is condemned only for a pull request that was merged.   *)
THEOREM CondemnedAlwaysMerged == Spec => []CondemnedOnlyIfMerged
  BY MergeSafety, PTL DEF MInv

(* A proposal refused, expired or stale never sent a merge request.         *)
THEOREM RefusedNeverSent == Spec => []RefusedSentNothing
<1>1. MInv => RefusedSentNothing
  BY DEF MInv, UnusedSentNothing, RefusedSentNothing, Refused
<1> QED BY <1>1, MergeSafety, PTL

(* Neither a condemned authorization nor a refused proposal stands for      *)
(* something the merge stage did not do (prLifecycle.ts).                   *)
THEOREM MergeInvAlways == Spec => []MergeInv
<1>1. TypeOK /\ CondemnedOnlyIfMerged /\ RefusedSentNothing => MergeInv
  BY DEF MergeInv
<1> QED BY <1>1, MergeTypeCorrect, CondemnedAlwaysMerged, RefusedNeverSent, PTL

-----------------------------------------------------------------------------
(* The merge stage implements the contract with the plan "merge".           *)

(* Which statuses the contract sees as live.                                *)
LEMMA MergeLiveIsActive == \A s \in Status :
    /\ GrantOf(s) \in {"offered", "given", "used"} <=> s \in Active
    /\ GrantOf(s) \in {"none", "offered", "given", "used", "closed"}
    /\ GrantOf(s) = "none" <=> s = "NONE"
  BY DEF GrantOf, Status, Active, Pending

(* Nothing the contract sees changes.                                       *)
LEMMA UnseenStep == ASSUME UNCHANGED <<auth, sent>> PROVE UNCHANGED Contract!vars
  BY DEF Contract!vars

(* A status set on an existing row is one step of the contract.             *)
LEMMA StatusStep ==
  ASSUME TypeOK, NEW i \in Ids, NEW s \in Status, SetStatus(i, s), UNCHANGED sent,
         \/ auth[i].status = "READY" /\ s = "APPROVED"
         \/ auth[i].status = "APPROVED" /\ s = "EXECUTING"
         \/ auth[i].status \in Active /\ s \notin Active \cup {"NONE"}
  PROVE  Contract!Give(i) \/ Contract!Use(i) \/ Contract!Close(i)
<1>1. /\ auth'[i].status = s /\ auth[i].status # "NONE" /\ auth[i].status \in Status /\ s # "NONE"
      /\ \A j \in Ids : j # i => auth'[j] = auth[j]
  BY StatusSet DEF TypeOK, Rows, Active, Pending
<1>2. [j \in Ids |-> GrantOf(auth'[j].status)]
      = [[j \in Ids |-> GrantOf(auth[j].status)] EXCEPT ![i] = GrantOf(s)]
  BY <1>1
<1>3. [j \in Ids |-> IF auth'[j].status = "NONE" THEN "" ELSE "task"]
      = [j \in Ids |-> IF auth[j].status = "NONE" THEN "" ELSE "task"]
  BY <1>1
<1>4. CASE auth[i].status = "READY" /\ s = "APPROVED"
  BY <1>2, <1>3, <1>4 DEF Contract!Give, GrantOf
<1>5. CASE auth[i].status = "APPROVED" /\ s = "EXECUTING"
  BY <1>2, <1>3, <1>5 DEF Contract!Use, GrantOf
<1>6. CASE auth[i].status \in Active /\ s \notin Active \cup {"NONE"}
  <2>1. GrantOf(s) = "closed" /\ GrantOf(auth[i].status) \in {"offered", "given", "used"}
    BY <1>1, <1>6 DEF GrantOf, Active, Pending
  <2> QED BY <1>2, <1>3, <2>1 DEF Contract!Close, Contract!Live
<1> QED BY <1>4, <1>5, <1>6

(* A proposal is offered only when no grant of the task is live.            *)
LEMMA PrepareIsOffer ==
  ASSUME TypeOK, NEW i \in Ids, Prepare(i)
  PROVE  Contract!Offer(i, "task")
<1>1. /\ auth'[i].status = "READY" /\ auth[i].status = "NONE"
      /\ \A j \in Ids : j # i => auth'[j] = auth[j]
  BY DEF Prepare, TypeOK
<1>2. Contract!LiveOf("task") = {}
  <2>1. \A j \in Ids : auth[j].status \in Status /\ auth[j].status \notin Active
    BY DEF Prepare, ActiveIds, TypeOK, Rows
  <2> QED BY <2>1, MergeLiveIsActive DEF Contract!LiveOf, Contract!Live
<1>3. GrantOf(auth[i].status) = "none" /\ GrantOf(auth'[i].status) = "offered"
  BY <1>1 DEF GrantOf
<1>4. [j \in Ids |-> GrantOf(auth'[j].status)]
      = [j \in Ids |-> IF j = i THEN "offered"
                       ELSE IF j \in {} THEN "closed"
                       ELSE [k \in Ids |-> GrantOf(auth[k].status)][j]]
  BY <1>1, <1>3
<1>5. [j \in Ids |-> IF auth'[j].status = "NONE" THEN "" ELSE "task"]
      = [[j \in Ids |-> IF auth[j].status = "NONE" THEN "" ELSE "task"] EXCEPT ![i] = "task"]
  BY <1>1
<1> QED BY <1>2, <1>3, <1>4, <1>5 DEF Prepare, Contract!Offer

(* The one request is the one effect the plan holds.                        *)
LEMMA SendMergeIsSend ==
  ASSUME MInv, SendMerge
  PROVE  \E i \in Ids : Contract!Send(i)
<1> DEFINE i == mcall.auth
<1>1. i \in Ids /\ GrantOf(auth[i].status) = "used" /\ sent[i] = <<>>
  BY DEF MInv, CallOwnsRow, SendMerge, GrantOf
<1>2. 1 \in DOMAIN <<"merge">> /\ <<"merge">>[1] = "merge" /\ DOMAIN sent[i] = {}
  BY <1>1
<1>3. sent' = [sent EXCEPT ![i] = Append(@, <<"merge">>[1])] /\ UNCHANGED auth
  BY <1>2 DEF SendMerge
<1> QED BY <1>1, <1>2, <1>3 DEF Contract!Send

(* Every step of the merge stage is a step of the contract, or unseen.      *)
LEMMA MergeStepRefines == MInv /\ [Next]_mvars => [Contract!Next]_(Contract!vars)
<1> SUFFICES ASSUME MInv, [Next]_mvars PROVE [Contract!Next]_(Contract!vars)
  OBVIOUS
<1> USE DEF ledger
<1>0. TypeOK /\ {"APPROVED", "EXECUTING", "REJECTED", "REVOKED", "EXPIRED", "STALE", "UNCERTAIN"} \subseteq Status
  BY DEF MInv, Status, Active, Pending
<1>1. ASSUME NEW i \in Ids, NEW s \in Status, SetStatus(i, s), UNCHANGED sent,
             \/ auth[i].status = "READY" /\ s = "APPROVED"
             \/ auth[i].status = "APPROVED" /\ s = "EXECUTING"
             \/ auth[i].status \in Active /\ s \notin Active \cup {"NONE"}
      PROVE Contract!Next
  BY <1>0, <1>1, StatusStep DEF Contract!Next
<1>2. ASSUME NEW i \in Ids, NEW from \in Pending, MarkStale(i, from), UNCHANGED sent
      PROVE [Contract!Next]_(Contract!vars)
  BY <1>0, <1>1, <1>2, UnseenStep DEF MarkStale, Active, Pending
<1>3. ASSUME NEW i \in Ids, MarkUncertain(i), UNCHANGED sent PROVE [Contract!Next]_(Contract!vars)
  BY <1>0, <1>1, <1>3, UnseenStep DEF MarkUncertain, Active, Pending
<1>4. mcall.pc \notin {"idle", "prepare"} => mcall.auth \in Ids
  BY DEF MInv, CallOwnsRow
<1>5. CASE StartMerge \/ GiveUp \/ RefreshFails \/ MergeNotConfirmed \/ GithubAnswers \/ OthersAct
           \/ AgentCommits \/ ActionChanges \/ CallLost \/ RecordMerge \/ ObserveExact
           \/ UNCHANGED mvars
  BY <1>5, UnseenStep
  DEF StartMerge, GiveUp, RefreshFails, MergeNotConfirmed, GithubAnswers, OthersAct, AgentCommits,
      ActionChanges, CallLost, RecordMerge, ObserveExact, mvars
<1>6. ASSUME NEW i \in Ids, GithubMerges(i) \/ GithubRefuses(i) PROVE UNCHANGED Contract!vars
  BY <1>6, UnseenStep DEF GithubMerges, GithubRefuses
<1>7. ASSUME NEW i \in Ids, Prepare(i) PROVE Contract!Next
  BY <1>0, <1>7, PrepareIsOffer DEF Contract!Next
<1>8. ASSUME NEW i \in Ids, HumanOrSweep(i) PROVE Contract!Next
  BY <1>0, <1>1, <1>8 DEF HumanOrSweep, Active, Pending
<1>9. CASE RecheckReady
  <2>1. mcall.auth \in Ids /\ UNCHANGED sent /\ "READY" \in Pending
    BY <1>4, <1>9 DEF RecheckReady, Answered, Pending
  <2> QED BY <1>2, <1>9, <2>1, UnseenStep DEF RecheckReady
<1>10. CASE RecheckApproved
  <2>1. mcall.auth \in Ids /\ UNCHANGED sent /\ "APPROVED" \in Pending
    BY <1>4, <1>10 DEF RecheckApproved, Answered, Pending
  <2> QED BY <1>2, <1>10, <2>1, UnseenStep DEF RecheckApproved
<1>11. CASE Begin
  BY <1>0, <1>1, <1>4, <1>11 DEF Begin, Answered
<1>12. CASE SendMerge
  BY <1>12, SendMergeIsSend DEF Contract!Next
<1>13. CASE CondemnMerge
  BY <1>3, <1>4, <1>13 DEF CondemnMerge
<1>14. CASE ObserveInexact
  BY <1>3, <1>4, <1>14 DEF ObserveInexact, MarkUncertain, Confirmed, Answered
<1> QED
  BY <1>5, <1>6, <1>7, <1>8, <1>9, <1>10, <1>11, <1>12, <1>13, <1>14
  DEF Next, Handler, MergeEnvironment

(* The merge stage keeps the contract: one live grant, used at most once,   *)
(* paying for at most one merge request, whatever is retried or lost.       *)
THEOREM MergeImplementsContract == Spec => ImplementsContract
<1>1. Init => Contract!Init
  <2> SUFFICES ASSUME Init PROVE Contract!Init
    OBVIOUS
  <2>1. \A i \in Ids : auth[i].status = "NONE" /\ GrantOf(auth[i].status) = "none"
    BY DEF Init, NoRow, GrantOf
  <2>2. sent = [i \in Ids |-> <<>>]
    BY DEF Init
  <2> QED BY <2>1, <2>2 DEF Contract!Init
<1> QED BY <1>1, MergeSafety, MergeStepRefines, PTL DEF Spec, ImplementsContract, Contract!Spec
=============================================================================
