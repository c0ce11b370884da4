----------------------------- MODULE PrReceipt -----------------------------
(***************************************************************************)
(* The durable receipt that ties a task to its pull request                *)
(* (taskPrReceipt.ts).  Each write is one transaction over the whole row;  *)
(* a write that contradicts the row is refused and leaves it as it is.     *)
(* Commits are positive numbers, 0 is a value not observed yet (null).     *)
(***************************************************************************)
EXTENDS Integers

NoReceipt == [pr |-> 0, head |-> 0, base |-> 0, merge |-> 0]

\* What an observation carries: the pull request, and the head and base seen.
Observation(pr, head, base) == [pr |-> pr, head |-> head, base |-> base]

SameIdentity(receipt, seen) == receipt.pr \in {0, seen.pr}

Agrees(known, seen) == seen = 0 \/ known = seen

\* After the merge the exact evidence is closed, but for a base never seen.
MergedAgrees(receipt, seen, fillBase) ==
  /\ Agrees(receipt.head, seen.head)
  /\ Agrees(receipt.base, seen.base) \/ (fillBase /\ receipt.base = 0)

OpenAccepts(receipt, seen, fillBase) ==
  /\ SameIdentity(receipt, seen)
  /\ receipt.merge # 0 => MergedAgrees(receipt, seen, fillBase)

OrKnown(seen, known) == IF seen # 0 THEN seen ELSE known

\* upsertOpened: an observation replaces what it saw and erases nothing.
Opened(receipt, seen, fillBase) ==
  IF receipt.merge = 0
  THEN [pr |-> seen.pr, head |-> OrKnown(seen.head, receipt.head),
        base |-> OrKnown(seen.base, receipt.base), merge |-> 0]
  ELSE IF fillBase THEN [receipt EXCEPT !.base = OrKnown(@, seen.base)] ELSE receipt

\* upsertMerged: the observation first, then the merge commit, once.
MergeAccepts(receipt, seen, merge) ==
  /\ OpenAccepts(receipt, seen, TRUE)
  /\ receipt.merge \in {0, merge}

Merged_KeepsHead(receipt, seen, merge) == [receipt EXCEPT !.pr = seen.pr, !.merge = merge]
Merged(receipt, seen, merge) == [Opened(receipt, seen, TRUE) EXCEPT !.merge = merge]
=============================================================================
