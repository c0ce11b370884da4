----------------------------- MODULE MergeStage -----------------------------
(***************************************************************************)
(* The merge stage of one task's authorized delivery: grande_pr_merge      *)
(* (src/src/prLifecycle.ts) under its reconciling wrapper                  *)
(* (src/src/prMergeD2Core.ts), the readiness check that prepares and       *)
(* revalidates a binding (src/src/deliveryReadiness.ts), and the evidence  *)
(* it leaves behind (src/src/deliveryMerge.ts).                            *)
(*                                                                         *)
(* Between two awaits the handler runs alone, so each such segment is one  *)
(* action; at each await GitHub, the Human, the agent, the sweep and a     *)
(* crash may come in between.  Time is abstracted: a proposal may expire   *)
(* at any moment.  Ids of authorizations are rows of the table of module   *)
(* DeliveryAuthorization, seen here with the part of the binding that the  *)
(* merge compares.                                                         *)
(***************************************************************************)
EXTENDS Naturals, Sequences

CONSTANTS
  Ids,        \* authorization ids still to be drawn
  NoId,
  MaxBase,    \* bound: commits others push to the base branch
  MaxCrash    \* bound: Gateway crashes

ASSUME MergeAssumption == NoId \notin Ids /\ MaxBase \in Nat /\ MaxCrash \in Nat

VARIABLES
  github,     \* the pull request and the base branch, as GitHub has them
  local,      \* the task worktree's HEAD and the deploy action it resolves to
  auth,       \* rows of delivery_authorization
  mrec,       \* exact merge receipts on disk: "none", "ok" or "torn"
  sent,       \* history: external effects sent under each authorization
  inFlight,   \* merge requests sent to GitHub and not yet processed
  mcall,      \* the running grande_pr_merge call, at one of its awaits
  writer,     \* holder of the repo write lock
  crashes

mvars == <<github, local, auth, mrec, sent, inFlight, mcall, writer, crashes>>

Pending == {"READY", "APPROVED"}
Active  == Pending \cup {"EXECUTING"}
Status  == Active \cup {"NONE", "REJECTED", "REVOKED", "STALE", "EXPIRED",
                        "SUCCEEDED", "FAILED", "UNCERTAIN"}

Heads == {1, 2}      \* the commit under review, and one made after it
Refs  == {1, 2}      \* the deploy and verify actions, before and after a change

NoRow == [status |-> "NONE", base |-> 0, head |-> 1, refs |-> 1]
Rows  == [status : Status, base : 0..MaxBase, head : Heads, refs : Refs]

(* on: the base commit a merge was made on; later: others pushed after it.  *)
Github == [state : {"open", "closed", "merged"}, head : Heads, base : 0..MaxBase,
           on : 0..MaxBase, later : BOOLEAN]

(* What a read of the pull request returned; NoView while it is awaited.    *)
NoView == [state |-> "unread", head |-> 1, base |-> 0]
Views  == [state : {"unread", "open", "closed", "merged"}, head : Heads, base : 0..MaxBase]

Reading == {"prepare", "recheckReady", "recheckApproved", "inspect", "observe"}
Answers == {"none", "merged", "refused"}

(* head: the worktree HEAD read when the call's current phase began.        *)
Call(pc, i) == [pc |-> pc, auth |-> i, head |-> local.head, view |-> NoView, answer |-> "none"]
Idle  == [pc |-> "idle", auth |-> NoId, head |-> 1, view |-> NoView, answer |-> "none"]
Calls == [pc : {"idle", "begun", "merging"} \cup Reading, auth : Ids \cup {NoId}, head : Heads,
          view : Views, answer : Answers]

ActiveIds == {i \in Ids : auth[i].status \in Active}

Init ==
  /\ github = [state |-> "open", head |-> 1, base |-> 0, on |-> 0, later |-> FALSE]
  /\ local = [head |-> 1, refs |-> 1]
  /\ auth = [i \in Ids |-> NoRow]
  /\ mrec = [i \in Ids |-> "none"]
  /\ sent = [i \in Ids |-> <<>>]
  /\ inFlight = {}
  /\ mcall = Idle
  /\ writer = "nobody"
  /\ crashes = 0

SetStatus(i, s) == auth' = [auth EXCEPT ![i].status = s]
Return == mcall' = Idle /\ writer' = "nobody"
Enter(pc, i) == mcall' = Call(pc, i) /\ UNCHANGED writer

ledger   == <<auth, mrec, sent>>
outside  == <<github, local, inFlight>>

-----------------------------------------------------------------------------
\* Mutants: a call that finds the grant in use sends the merge again; or takes
\* it for one not yet used.
EntryPhase_Resend == [READY |-> "recheckReady", APPROVED |-> "recheckApproved", EXECUTING |-> "begun"]
EntryPhase_Recheck == [READY |-> "recheckReady", APPROVED |-> "recheckApproved", EXECUTING |-> "recheckApproved"]

(* gateDeliveryMerge, entered under the repo write lock: what the active    *)
(* row allows.  An EXECUTING row never starts a second merge; the wrapper   *)
(* then only observes.                                                      *)
EntryPhase == [READY |-> "recheckReady", APPROVED |-> "recheckApproved", EXECUTING |-> "observe"]

StartMerge ==
  /\ writer = "nobody"
  /\ writer' = "pr_merge"
  /\ \/ /\ ActiveIds = {}
        /\ mcall' = Call("prepare", NoId)
     \/ \E i \in ActiveIds : mcall' = Call(EntryPhase[auth[i].status], i)
  /\ UNCHANGED <<ledger, outside, crashes>>

(* A read of the pull request is answered.  GitHub may report a base commit *)
(* older than the branch's tip.                                             *)
GithubAnswers ==
  /\ mcall.pc \in Reading
  /\ mcall.view = NoView
  /\ \E b \in 0..github.base :
       mcall' = [mcall EXCEPT !.view = [state |-> github.state, head |-> github.head, base |-> b]]
  /\ UNCHANGED <<ledger, outside, writer, crashes>>

Answered(pc) == mcall.pc = pc /\ mcall.view # NoView

(* A read fails, or a gate that reads nothing modelled here refuses (CI,    *)
(* attestation, host verification, mergeability): zero execution.           *)
GiveUp ==
  /\ mcall.pc \in Reading
  /\ Return
  /\ UNCHANGED <<ledger, outside, crashes>>

(* prepareDeliveryAuthorization: one READY proposal for what was read.      *)
Prepare(i) ==
  /\ Answered("prepare")
  /\ mcall.view.state = "open"
  /\ mcall.view.head = mcall.head
  /\ ActiveIds = {}
  /\ auth[i].status = "NONE"
  /\ auth' = [auth EXCEPT ![i] = [status |-> "READY", base |-> mcall.view.base,
                                  head |-> mcall.view.head, refs |-> local.refs]]
  /\ Return
  /\ UNCHANGED <<mrec, sent, outside, crashes>>

(* revalidateDeliveryBinding recomputes the binding from fresh evidence.    *)
Unchanged(i) ==
  /\ auth[i].base = mcall.view.base
  /\ auth[i].head = mcall.view.head
  /\ auth[i].refs = local.refs

MarkStale(i, from) ==
  IF auth[i].status = from THEN SetStatus(i, "STALE") ELSE UNCHANGED auth

(* A READY row that drifted is closed and a new proposal prepared, unless   *)
(* it was answered meanwhile.                                               *)
RecheckReady ==
  /\ Answered("recheckReady")
  /\ LET i == mcall.auth IN
       \/ /\ Unchanged(i)
          /\ Return
          /\ UNCHANGED auth
       \/ /\ ~Unchanged(i)
          /\ MarkStale(i, "READY")
          /\ IF \A j \in Ids : auth'[j].status \notin Active
             THEN Enter("prepare", NoId) ELSE Return
  /\ UNCHANGED <<mrec, sent, outside, crashes>>

(* An APPROVED row goes on to the GitHub gates, or is closed.               *)
RecheckApproved ==
  /\ Answered("recheckApproved")
  /\ LET i == mcall.auth IN
       \/ /\ Unchanged(i)
          /\ Enter("inspect", i)
          /\ UNCHANGED auth
       \/ /\ ~Unchanged(i)
          /\ MarkStale(i, "APPROVED")
          /\ Return
  /\ UNCHANGED <<mrec, sent, outside, crashes>>

(* The merge stage's own comparison of binding, pull request and worktree. *)
MergeAllowed(i) ==
  /\ mcall.view.state = "open"
  /\ mcall.view.head = auth[i].head
  /\ mcall.view.base = auth[i].base
  /\ mcall.head = auth[i].head

(* beginAuthorizedExecution: the grant is consumed before anything outside  *)
(* is touched.  A crash may come between this commit and the request.       *)
Begin ==
  /\ Answered("inspect")
  /\ LET i == mcall.auth IN
       /\ MergeAllowed(i)
       /\ auth[i].status = "APPROVED"
       /\ SetStatus(i, "EXECUTING")
       /\ mcall' = [mcall EXCEPT !.pc = "begun"]
  /\ UNCHANGED <<mrec, sent, outside, writer, crashes>>

(* The refresh that proves the result can be received fails, and nothing is *)
(* sent; or it succeeds and the one request goes out.                       *)
RefreshFails ==
  /\ mcall.pc = "begun"
  /\ Enter("observe", mcall.auth)
  /\ UNCHANGED <<ledger, outside, crashes>>

SendMerge ==
  /\ mcall.pc = "begun"
  /\ sent' = [sent EXCEPT ![mcall.auth] = Append(@, "merge")]
  /\ inFlight' = inFlight \cup {mcall.auth}
  /\ mcall' = [mcall EXCEPT !.pc = "merging"]
  /\ UNCHANGED <<auth, mrec, github, local, writer, crashes>>

-----------------------------------------------------------------------------
(* verifyMergedCommit: parents in order, hence the tree.                    *)
ExactFor(i) == github.state = "merged" /\ github.on = auth[i].base /\ github.head = auth[i].head

(* persistExactMergeReceipt: immutable once written, unreadable if a crash  *)
(* tore the write.                                                          *)
Persist(i) ==
  \/ mrec[i] # "torn" /\ mrec' = [mrec EXCEPT ![i] = "ok"] /\ UNCHANGED crashes
  \/ /\ mrec[i] = "none"
     /\ crashes < MaxCrash
     /\ crashes' = crashes + 1
     /\ mrec' = [mrec EXCEPT ![i] = "torn"]

\* Mutant: the merged commit's parents are not verified.
RecordMerge_Unverified ==
  /\ mcall.pc = "merging" /\ mcall.answer = "merged"
  /\ ~github.later
  /\ Persist(mcall.auth)
  /\ Return
  /\ UNCHANGED <<auth, sent, outside>>

(* GitHub answered merged: canonical is refreshed to exactly that commit,   *)
(* the commit verified and pinned, the receipt written.                     *)
RecordMerge ==
  /\ mcall.pc = "merging" /\ mcall.answer = "merged"
  /\ ExactFor(mcall.auth)
  /\ ~github.later
  /\ Persist(mcall.auth)
  /\ Return
  /\ UNCHANGED <<auth, sent, outside>>

(* markMergeAuthorizationUncertain: lost to whoever moved the row first.    *)
MarkUncertain(i) ==
  IF auth[i].status = "EXECUTING" THEN SetStatus(i, "UNCERTAIN") ELSE UNCHANGED auth

(* Anything in that segment that fails (the refresh, a commit pushed after  *)
(* ours, the wrong parents, the pinned source) condemns the authorization.  *)
CondemnMerge ==
  /\ mcall.pc = "merging" /\ mcall.answer = "merged"
  /\ MarkUncertain(mcall.auth)
  /\ Return
  /\ UNCHANGED <<mrec, sent, outside, crashes>>

\* Mutant: a lost response condemns the authorization.
MergeNotConfirmed_Condemn ==
  /\ mcall.pc = "merging"
  /\ MarkUncertain(mcall.auth)
  /\ Return
  /\ UNCHANGED <<mrec, sent, outside, crashes>>

(* GitHub refused, or its response is lost: the wrapper observes once.      *)
MergeNotConfirmed ==
  /\ mcall.pc = "merging"
  /\ Enter("observe", mcall.auth)
  /\ UNCHANGED <<ledger, outside, crashes>>

(* The wrapper saw the pull request merged at the worktree's own head.      *)
Confirmed == Answered("observe") /\ mcall.view.state = "merged" /\ mcall.view.head = mcall.head

(* Evidence is judged only for the row that is still EXECUTING, and only    *)
(* after the local refresh succeeded.                                       *)
ObserveExact ==
  /\ Confirmed
  /\ auth[mcall.auth].status = "EXECUTING"
  /\ ExactFor(mcall.auth)
  /\ Persist(mcall.auth)
  /\ Return
  /\ UNCHANGED <<auth, sent, outside>>

ObserveInexact ==
  /\ Confirmed
  /\ auth[mcall.auth].status = "EXECUTING"
  /\ SetStatus(mcall.auth, "UNCERTAIN")
  /\ Return
  /\ UNCHANGED <<mrec, sent, outside, crashes>>

-----------------------------------------------------------------------------
(* GitHub processes a merge request, whenever it gets it: only for the head *)
(* the request names.                                                       *)
Reply(i, a) ==
  mcall' = IF mcall.pc = "merging" /\ mcall.auth = i THEN [mcall EXCEPT !.answer = a] ELSE mcall

GithubMerges(i) ==
  /\ i \in inFlight
  /\ github.state = "open"
  /\ github.head = auth[i].head
  /\ github' = [github EXCEPT !.state = "merged", !.on = github.base]
  /\ inFlight' = inFlight \ {i}
  /\ Reply(i, "merged")
  /\ UNCHANGED <<local, ledger, writer, crashes>>

GithubRefuses(i) ==
  /\ i \in inFlight
  /\ inFlight' = inFlight \ {i}
  /\ Reply(i, "refused")
  /\ UNCHANGED <<github, local, ledger, writer, crashes>>

(* Others push to the base branch, push to the pull request, close it, or   *)
(* merge it themselves.                                                     *)
OthersAct ==
  /\ \/ /\ github.base < MaxBase
        /\ github' = [github EXCEPT !.base = @ + 1, !.later = github.state = "merged"]
     \/ /\ github.state = "open"
        /\ \/ github' = [github EXCEPT !.head = 2]
           \/ github' = [github EXCEPT !.state = "closed"]
           \/ github' = [github EXCEPT !.state = "merged", !.on = github.base]
  /\ UNCHANGED <<local, inFlight, ledger, mcall, writer, crashes>>

(* The agent commits (under the repo write lock), or the deploy action the  *)
(* task resolves to changes.                                                *)
AgentCommits ==
  /\ writer = "nobody"
  /\ local' = [local EXCEPT !.head = 2]
  /\ UNCHANGED <<github, inFlight, ledger, mcall, writer, crashes>>

ActionChanges ==
  /\ local' = [local EXCEPT !.refs = 2]
  /\ UNCHANGED <<github, inFlight, ledger, mcall, writer, crashes>>

(* The Human answers in the Console, and the sweep expires what is due.     *)
HumanOrSweep(i) ==
  /\ \/ auth[i].status = "READY" /\ \E s \in {"APPROVED", "REJECTED"} : SetStatus(i, s)
     \/ auth[i].status = "APPROVED" /\ SetStatus(i, "REVOKED")
     \/ auth[i].status \in Pending /\ SetStatus(i, "EXPIRED")
  /\ UNCHANGED <<mrec, sent, outside, mcall, writer, crashes>>

(* The Gateway dies at an await: the call is lost, requests and rows stay.  *)
CallLost ==
  /\ mcall.pc # "idle"
  /\ crashes < MaxCrash
  /\ crashes' = crashes + 1
  /\ Return
  /\ UNCHANGED <<ledger, outside>>

Handler ==
  \/ StartMerge \/ GiveUp \/ RecheckReady \/ RecheckApproved
  \/ Begin \/ RefreshFails \/ SendMerge
  \/ RecordMerge \/ CondemnMerge \/ MergeNotConfirmed
  \/ ObserveExact \/ ObserveInexact
  \/ \E i \in Ids : Prepare(i)

MergeEnvironment ==
  \/ GithubAnswers \/ OthersAct \/ AgentCommits \/ ActionChanges
  \/ \E i \in Ids : GithubMerges(i) \/ GithubRefuses(i) \/ HumanOrSweep(i)

Next == Handler \/ MergeEnvironment \/ CallLost

\* The agent keeps calling grande_pr_merge, as the tool's own hints ask; a call
\* returns; a read of GitHub and a refresh that are retried for ever succeed
\* at some point.  Nothing is assumed of GitHub's handling of the request, of
\* the Human or of others.
Fairness ==
  /\ WF_mvars(StartMerge)
  /\ WF_mvars(GiveUp)
  /\ WF_mvars(RefreshFails \/ SendMerge)
  /\ WF_mvars(RecordMerge \/ CondemnMerge \/ MergeNotConfirmed)
  /\ SF_mvars(GithubAnswers)
  /\ SF_mvars(ObserveExact \/ ObserveInexact)

Spec == Init /\ [][Next]_mvars
FairSpec == Spec /\ Fairness

-----------------------------------------------------------------------------
TypeOK ==
  /\ github \in Github
  /\ local \in [head : Heads, refs : Refs]
  /\ auth \in [Ids -> Rows]
  /\ mrec \in [Ids -> {"none", "ok", "torn"}]
  /\ sent \in [Ids -> {<<>>, <<"merge">>}]
  /\ inFlight \subseteq Ids
  /\ mcall \in Calls
  /\ writer \in {"nobody", "pr_merge"}
  /\ crashes \in 0..MaxCrash

(* A merge receipt is only ever written for a merge of exactly the approved *)
(* head onto exactly the approved base, although GitHub guards the head     *)
(* alone and the base may move between the last read and the merge.         *)
ReceiptIsExact == \A i \in Ids : mrec[i] = "ok" => ExactFor(i)

(* An authorization is condemned as UNCERTAIN only once the pull request is *)
(* known merged: a lost response or a failed read alone never does it.      *)
CondemnedOnlyIfMerged ==
  \A i \in Ids : auth[i].status = "UNCERTAIN" => github.state = "merged"

(* A proposal that was refused, expired or found stale never sent anything, *)
(* whichever of the Human, the sweep and the running call came first.       *)
RefusedSentNothing ==
  \A i \in Ids : auth[i].status \in {"REJECTED", "REVOKED", "STALE", "EXPIRED"} => sent[i] = <<>>

(* No one is blamed for what did not happen: neither a condemned            *)
(* authorization nor a refused proposal stands for a merge that was, or was *)
(* not, asked for.                                                          *)
MergeInv == TypeOK /\ CondemnedOnlyIfMerged /\ RefusedSentNothing

(* An exact merge whose answer was lost is found and recorded, or judged,   *)
(* by the calls that follow, as long as the worktree still has that head.   *)
MergeSettled ==
  \A i \in Ids : (auth[i].status = "EXECUTING" /\ ExactFor(i))
                 ~> \/ mrec[i] = "ok"
                    \/ auth[i].status # "EXECUTING"
                    \/ local.head # auth[i].head

GrantOf(s) == CASE s = "NONE"      -> "none"
                [] s = "READY"     -> "offered"
                [] s = "APPROVED"  -> "given"
                [] s = "EXECUTING" -> "used"
                [] OTHER           -> "closed"

Contract == INSTANCE DeliveryContract WITH
  Tasks  <- {"task"},
  Plan   <- <<"merge">>,
  taskOf <- [i \in Ids |-> IF auth[i].status = "NONE" THEN "" ELSE "task"],
  grant  <- [i \in Ids |-> GrantOf(auth[i].status)],
  cut    <- {}

(* Each grant is used at most once and pays for at most one merge request.  *)
ImplementsContract == Contract!Spec
=============================================================================
