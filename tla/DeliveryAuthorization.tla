----------------------- MODULE DeliveryAuthorization -----------------------
(***************************************************************************)
(* The durable table delivery_authorization and every operation on it:     *)
(* src/src/deliveryAuthorization.ts and src/src/authorizationExpiry.ts,    *)
(* with the Console routes and tool handlers that call them.               *)
(*                                                                         *)
(* A row is a proposal to merge, deploy and verify one exact binding.  A   *)
(* Human turns it into a grant by answering a one-time challenge in the    *)
(* Console; a tool consumes the grant exactly once.  Every operation is    *)
(* one BEGIN IMMEDIATE transaction, hence one action here.  Requests to    *)
(* the Console may be delayed, repeated or lost: an action takes the       *)
(* arguments of any request that could still arrive.                       *)
(***************************************************************************)
EXTENDS Naturals

CONSTANTS
  Tasks,          \* task ids
  Ids,            \* authorization ids still to be drawn (randomUUID)
  Kinds,          \* "delivery", "rollback"
  Evidence,       \* what the rest of a binding can say (SHAs, digests, refs)
  ApprovalTtl,    \* APPROVAL_TTL_MS, in clock units
  ExecutionTtl,   \* EXECUTION_TTL_MS, in clock units
  MaxTime,        \* bound on the clock
  MaxNonce        \* bound on the challenges issued

ASSUME TtlAssumption == ApprovalTtl \in Nat \ {0} /\ ExecutionTtl \in Nat \ {0}
ASSUME BoundAssumption == MaxTime \in Nat /\ MaxNonce \in Nat

VARIABLES
  status,         \* column status; "NONE" before the row is inserted
  binding,        \* columns kind, taskId, bindingJson: immutable
  nonce,          \* column nonceDigest; 0 is NULL
  executingAt,    \* column executingAt
  deadline,       \* column executionDeadlineAt
  now,            \* Date.now()
  issued,         \* number of challenge nonces drawn so far
  consent,        \* history: the approve request that turned a row APPROVED
  toldApproved,   \* history: rows whose operator received ok for an approve
  toldRejected    \* history: rows whose operator received ok for a reject

row     == <<status, binding, nonce, executingAt, deadline>>
history == <<consent, toldApproved, toldRejected>>
table    == <<row, now, issued, history>>

Pending  == {"READY", "APPROVED"}
Active   == Pending \cup {"EXECUTING"}
Terminal == {"REJECTED", "REVOKED", "STALE", "EXPIRED", "SUCCEEDED", "FAILED", "UNCERTAIN"}
Status   == {"NONE"} \cup Active \cup Terminal

\* The state machine of the table (FORWARD), with the insertion of the row.
Forward == [s \in Status |->
  CASE s = "NONE"      -> {"READY"}
    [] s = "READY"     -> {"APPROVED", "REJECTED", "STALE", "EXPIRED"}
    [] s = "APPROVED"  -> {"EXECUTING", "REVOKED", "STALE", "EXPIRED"}
    [] s = "EXECUTING" -> {"SUCCEEDED", "FAILED", "UNCERTAIN", "STALE", "EXPIRED"}
    [] OTHER           -> {}]

\* A binding; its canonical digest identifies it, so requests carry the binding.
Bindings == [task : Tasks, kind : Kinds, evidence : Evidence, createdAt : 0..MaxTime]
NoBinding == [task |-> "", kind |-> "", evidence |-> "", createdAt |-> 0]
NoConsent == [digest |-> NoBinding, nonce |-> 0]
Consents  == [digest : Bindings, nonce : 1..MaxNonce]

ExpiresAt(i) == binding[i].createdAt + ApprovalTtl

\* Mutant: an approval is still valid at its expiry.
InTime_Inclusive(i) == ExpiresAt(i) >= now

InTime(i) == ExpiresAt(i) > now

ActiveRows(t) == {i \in Ids : status[i] \in Active /\ binding[i].task = t}

\* Mutant: an approval nobody uses never expires.
Due_ReadyOnly(i) == status[i] = "READY" /\ ~InTime(i)

Due(i) == status[i] \in Pending /\ ~InTime(i)

TableInit ==
  /\ status = [i \in Ids |-> "NONE"]
  /\ binding = [i \in Ids |-> NoBinding]
  /\ nonce = [i \in Ids |-> 0]
  /\ executingAt = [i \in Ids |-> 0]
  /\ deadline = [i \in Ids |-> 0]
  /\ now = 0
  /\ issued = 0
  /\ consent = [i \in Ids |-> NoConsent]
  /\ toldApproved = {}
  /\ toldRejected = {}

-----------------------------------------------------------------------------
(* createAuthorization: the caller stamped createdAt when it began reading  *)
(* its evidence.  The task's due proposal is expired first (its own         *)
(* transaction), then the insert is refused while the task has an active    *)
(* row.  Bound: no proposal is created later than MaxTime - ApprovalTtl, so *)
(* that the modelled clock reaches every expiry.                            *)
Create(i, b) ==
  /\ status[i] = "NONE"
  /\ b.createdAt <= now
  /\ b.createdAt + ApprovalTtl > now
  /\ b.createdAt + ApprovalTtl <= MaxTime
  /\ \A j \in ActiveRows(b.task) : Due(j)
  /\ status' = [j \in Ids |-> IF j = i THEN "READY"
                              ELSE IF j \in ActiveRows(b.task) THEN "EXPIRED"
                              ELSE status[j]]
  /\ binding' = [binding EXCEPT ![i] = b]
  /\ UNCHANGED <<nonce, executingAt, deadline, now, issued, history>>

(* rotateAuthorizationChallenge: a fresh nonce replaces the previous one.   *)
Challenge(i, digest) ==
  /\ binding[i] = digest
  /\ status[i] = "READY"
  /\ InTime(i)
  /\ issued < MaxNonce
  /\ issued' = issued + 1
  /\ nonce' = [nonce EXCEPT ![i] = issued + 1]
  /\ UNCHANGED <<status, binding, executingAt, deadline, now, history>>

\* Mutant: any nonce matches.
FreshAndMatching_AnyNonce(i, digest, n) ==
  binding[i] = digest /\ InTime(i) /\ nonce[i] # 0

(* assertFreshAndMatchingNonce *)
FreshAndMatching(i, digest, n) ==
  /\ binding[i] = digest
  /\ InTime(i)
  /\ nonce[i] # 0
  /\ nonce[i] = n

(* A replay: digest and nonce are the ones the row carries. *)
Replayed(i, digest, n) ==
  /\ binding[i] = digest
  /\ nonce[i] # 0
  /\ nonce[i] = n

(* approveAuthorization: READY -> APPROVED.  A request repeated because its *)
(* answer was lost is told the state the row has, and changes nothing.      *)
Approve(i, digest, n) ==
  /\ \/ /\ status[i] = "READY"
        /\ FreshAndMatching(i, digest, n)
        /\ status' = [status EXCEPT ![i] = "APPROVED"]
        /\ consent' = [consent EXCEPT ![i] = [digest |-> digest, nonce |-> n]]
     \/ /\ status[i] \in {"APPROVED", "EXECUTING"}
        /\ Replayed(i, digest, n)
        /\ UNCHANGED <<status, consent>>
  /\ toldApproved' = toldApproved \cup {i}
  /\ UNCHANGED <<binding, nonce, executingAt, deadline, now, issued, toldRejected>>

(* rejectAuthorization: READY -> REJECTED, APPROVED -> REVOKED; a replay is *)
(* told the terminal state.                                                 *)
Reject(i, digest, n) ==
  /\ \/ /\ status[i] \in Pending
        /\ FreshAndMatching(i, digest, n)
        /\ status' = [status EXCEPT ![i] = IF @ = "READY" THEN "REJECTED" ELSE "REVOKED"]
     \/ /\ status[i] \in {"REJECTED", "REVOKED"}
        /\ Replayed(i, digest, n)
        /\ UNCHANGED status
  /\ toldRejected' = toldRejected \cup {i}
  /\ UNCHANGED <<binding, nonce, executingAt, deadline, now, issued, consent, toldApproved>>

\* Mutant: an execution starts on a proposal nobody approved.
Begin_Unapproved(i, kind, digest) ==
  /\ binding[i].kind = kind
  /\ binding[i] = digest
  /\ status[i] \in Pending
  /\ InTime(i)
  /\ status' = [status EXCEPT ![i] = "EXECUTING"]
  /\ executingAt' = [executingAt EXCEPT ![i] = now]
  /\ deadline' = [deadline EXCEPT ![i] = now + ExecutionTtl]
  /\ UNCHANGED <<binding, nonce, now, issued, history>>

(* beginAuthorizedExecution: the first side-effect stage consumes the grant *)
(* before it touches anything outside.                                      *)
Begin(i, kind, digest) ==
  /\ binding[i].kind = kind
  /\ binding[i] = digest
  /\ status[i] = "APPROVED"
  /\ InTime(i)
  /\ status' = [status EXCEPT ![i] = "EXECUTING"]
  /\ executingAt' = [executingAt EXCEPT ![i] = now]
  /\ deadline' = [deadline EXCEPT ![i] = now + ExecutionTtl]
  /\ UNCHANGED <<binding, nonce, now, issued, history>>

(* The edges the callers of transitionAuthorization ask for: revalidation   *)
(* finds the evidence drifted, or a stage ends the execution.               *)
CallerEdges == ((Pending \cup {"EXECUTING"}) \X {"STALE"})
               \cup ({"EXECUTING"} \X {"SUCCEEDED", "FAILED", "UNCERTAIN"})

(* transitionAuthorization: compare-and-set on the status the caller read.  *)
Transition(i, from, to, digest) ==
  /\ to \in Forward[from]
  /\ binding[i] = digest
  /\ status[i] = from
  /\ status' = [status EXCEPT ![i] = to]
  /\ UNCHANGED <<binding, nonce, executingAt, deadline, now, issued, history>>

(* expireAuthorizationIfDue: run by the start-up and periodic sweep for     *)
(* every candidate, and by revalidation for its own row.                    *)
ExpireIfDue(i) ==
  /\ Due(i)
  /\ status' = [status EXCEPT ![i] = "EXPIRED"]
  /\ UNCHANGED <<binding, nonce, executingAt, deadline, now, issued, history>>

Tick ==
  /\ now < MaxTime
  /\ now' = now + 1
  /\ UNCHANGED <<row, issued, history>>

Digests == {binding[i] : i \in Ids}

TableNext ==
  \/ \E i \in Ids, b \in Bindings : Create(i, b)
  \/ \E i \in Ids, d \in Digests : Challenge(i, d)
  \/ \E i \in Ids, d \in Digests, n \in 1..issued : Approve(i, d, n) \/ Reject(i, d, n)
  \/ \E i \in Ids, k \in Kinds, d \in Digests : Begin(i, k, d)
  \/ \E i \in Ids, e \in CallerEdges, d \in Digests : Transition(i, e[1], e[2], d)
  \/ \E i \in Ids : ExpireIfDue(i)
  \/ Tick

\* The sweep runs at start-up and at a fixed interval whatever else fails, and time passes.
TableFairness == WF_table(Tick) /\ \A i \in Ids : WF_table(ExpireIfDue(i))

TableSpec == TableInit /\ [][TableNext]_table
TableFairSpec == TableSpec /\ TableFairness

-----------------------------------------------------------------------------
Executed == {"EXECUTING", "SUCCEEDED", "FAILED", "UNCERTAIN"}

(* Columns hold the values the schema and the code give them.               *)
TableTypeOK ==
  /\ status \in [Ids -> Status]
  /\ binding \in [Ids -> Bindings \cup {NoBinding}]
  /\ \A i \in Ids : status[i] # "NONE" => binding[i] \in Bindings
  /\ nonce \in [Ids -> 0..MaxNonce]
  /\ executingAt \in [Ids -> Nat]
  /\ deadline \in [Ids -> Nat]
  /\ now \in 0..MaxTime
  /\ issued \in 0..MaxNonce
  /\ consent \in [Ids -> Consents \cup {NoConsent}]
  /\ toldApproved \subseteq Ids
  /\ toldRejected \subseteq Ids

(* A task has at most one READY, APPROVED or EXECUTING row, so an approval  *)
(* can never be spent on a sibling proposal (the partial unique index is    *)
(* only the second line of defence).                                        *)
OneActivePerTask ==
  \A i, j \in Ids : (status[i] \in Active /\ status[j] \in Active /\ i # j)
                    => binding[i].task # binding[j].task

(* Whatever is approved, executing or executed was approved by a request    *)
(* that named this very binding and the last challenge issued for it: a     *)
(* request built from an older page or a superseded challenge approves      *)
(* nothing, however late or often it arrives.                               *)
ConsentGiven ==
  \A i \in Ids : status[i] \in {"APPROVED", "REVOKED"} \cup Executed =>
    /\ consent[i] # NoConsent
    /\ consent[i].digest = binding[i]
    /\ consent[i].nonce = nonce[i]

(* No execution starts on an approval whose 15 minutes have passed, whoever *)
(* wins the race with the expiry sweep; the minutes count from a past       *)
(* moment, and the execution's own deadline from its start.                 *)
StartedInTime ==
  /\ \A i \in Ids : status[i] # "NONE" => binding[i].createdAt <= now
  /\ \A i \in Ids : status[i] \in Executed =>
       /\ binding[i].createdAt <= executingAt[i]
       /\ executingAt[i] < ExpiresAt(i)
       /\ deadline[i] = executingAt[i] + ExecutionTtl

(* An operator who was told that a rejection took effect is never           *)
(* contradicted: the row is not approved, executed or expired afterwards,   *)
(* whatever request is repeated.                                            *)
RejectionFinal == \A i \in toldRejected : status[i] \in {"REJECTED", "REVOKED"}

(* An operator who was told "ok" for an approval really approved that row:  *)
(* a replay is never answered for a row that was refused or never approved. *)
ApprovalTold == \A i \in toldApproved :
  consent[i] # NoConsent /\ status[i] \notin {"NONE", "READY", "REJECTED"}

(* The table as a whole: sound columns, one active row per task, executions *)
(* in time, and no answer the operator was given that is contradicted.      *)
TableInv ==
  TableTypeOK /\ OneActivePerTask /\ StartedInTime /\ RejectionFinal /\ ApprovalTold

(* A proposal nobody answers, or whose grant nobody uses, does not hold its *)
(* task for ever: the sweep ends it.                                        *)
PendingEnds == \A i \in Ids : status[i] \in Pending ~> status[i] \notin Pending

\* The promise made to the Human, of which this table keeps the consent part.
GrantOf(s) == CASE s = "NONE"      -> "none"
                [] s = "READY"     -> "offered"
                [] s = "APPROVED"  -> "given"
                [] s = "EXECUTING" -> "used"
                [] OTHER           -> "closed"

Contract == INSTANCE DeliveryContract WITH
  Plan   <- <<>>,
  taskOf <- [i \in Ids |-> binding[i].task],
  grant  <- [i \in Ids |-> GrantOf(status[i])],
  sent   <- [i \in Ids |-> <<>>],
  cut    <- {}, crashes <- 0

(* Every operation on the table is one step of the contract or none.        *)
ImplementsContract == Contract!Spec
=============================================================================
