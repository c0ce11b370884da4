-------------------------- MODULE DeliveryContract --------------------------
(***************************************************************************)
(* What the authorized delivery promises the Human who approves it, and    *)
(* nothing of how: a grant is offered, given, used once and closed; a task *)
(* never has two live grants; and under one used grant each external       *)
(* effect is sent at most once, in the order of the plan, and once more    *)
(* only if a crash took the record of the last one sent.                   *)
(***************************************************************************)
EXTENDS Naturals, Sequences

CONSTANTS
  Tasks,
  Ids,       \* the grants that can ever exist
  Plan       \* the external effects one grant pays for, in their order

VARIABLES
  taskOf,    \* the task a grant was offered for
  grant,     \* "none", "offered", "given", "used" or "closed"
  sent,      \* the external effects sent so far under each grant
  cut,       \* the grants whose last effect went out and left no record
  crashes    \* how often the sender has died: not the contract's to say

vars == <<taskOf, grant, sent, cut>>

Live == {"offered", "given", "used"}

LiveOf(t) == {i \in Ids : grant[i] \in Live /\ taskOf[i] = t}

Init ==
  /\ taskOf = [i \in Ids |-> ""]
  /\ grant = [i \in Ids |-> "none"]
  /\ sent = [i \in Ids |-> <<>>]
  /\ cut = {}

\* A new offer may replace one nobody has used, never one in use.
Offer(i, t) ==
  /\ grant[i] = "none"
  /\ \A j \in LiveOf(t) : grant[j] # "used"
  /\ taskOf' = [taskOf EXCEPT ![i] = t]
  /\ grant' = [j \in Ids |-> IF j = i THEN "offered"
                             ELSE IF j \in LiveOf(t) THEN "closed" ELSE grant[j]]
  /\ UNCHANGED <<sent, cut>>

Give(i)  == grant[i] = "offered" /\ grant' = [grant EXCEPT ![i] = "given"] /\ UNCHANGED <<taskOf, sent, cut>>
Use(i)   == grant[i] = "given" /\ grant' = [grant EXCEPT ![i] = "used"] /\ UNCHANGED <<taskOf, sent, cut>>
Close(i) == grant[i] \in Live /\ grant' = [grant EXCEPT ![i] = "closed"] /\ UNCHANGED <<taskOf, sent, cut>>

Before(a, b) == \E p, q \in DOMAIN Plan : p < q /\ Plan[p] = a /\ Plan[q] = b

\* An effect goes out under a grant in use, and only if everything sent so far
\* comes before it: nothing is sent twice and nothing out of order.  (An effect
\* may be skipped when somebody else already brought it about.)  A crash right
\* at the sending may leave it without a record: that effect, and no other, may
\* then go out again.
Send(i) ==
  /\ grant[i] = "used"
  /\ \E k \in DOMAIN Plan :
       /\ \A m \in DOMAIN sent[i] : Before(sent[i][m], Plan[k]) \/ (i \in cut /\ sent[i][m] = Plan[k])
       /\ sent' = [sent EXCEPT ![i] = Append(@, Plan[k])]
  /\ cut' = cut \ {i} \/ (crashes' # crashes /\ cut' = cut \cup {i})
  /\ UNCHANGED <<taskOf, grant>>

Next ==
  \E i \in Ids : \/ \E t \in Tasks : Offer(i, t)
                 \/ Give(i) \/ Use(i) \/ Close(i) \/ Send(i)

Spec == Init /\ [][Next]_vars

(* One live grant per task: two proposals for the same task can never both  *)
(* be answered, because the table keeps one active row per task.            *)
OneLivePerTask == \A t \in Tasks : \A i, j \in LiveOf(t) : i = j
=============================================================================
