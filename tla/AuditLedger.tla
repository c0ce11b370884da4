---------------------------- MODULE AuditLedger ----------------------------
(***************************************************************************)
(* The audit row every side effect of the Gateway carries (audit.ts).      *)
(* Each of the five moves is one UPDATE whose WHERE clause names the state *)
(* the row must be in: a move that loses the comparison leaves the row as  *)
(* it is.  The modules whose handlers keep a row use these operators.      *)
(***************************************************************************)

AuditDecision == {"PENDING", "ALLOWED", "DENIED"}
AuditState == {"INTENT", "EXECUTING", "SUCCEEDED", "FAILED"}
AuditRow == [decision : AuditDecision, state : AuditState]

Finished == {"SUCCEEDED", "FAILED"}

\* beginAudit: the row is on disk before the handler does anything.
BeginAudit == [decision |-> "PENDING", state |-> "INTENT"]

Undecided(row) == row.decision = "PENDING" /\ row.state = "INTENT"

Allowed(row) ==
  IF Undecided(row) THEN [row EXCEPT !.decision = "ALLOWED"] ELSE row

MayExecute(row) == row.state = "INTENT" /\ row.decision = "ALLOWED"

Executing(row) ==
  IF MayExecute(row) THEN [row EXCEPT !.state = "EXECUTING"] ELSE row

Succeeded(row) ==
  IF row.state = "EXECUTING" THEN [row EXCEPT !.state = "SUCCEEDED"] ELSE row

Failed(row) ==
  IF row.state \notin Finished THEN [row EXCEPT !.state = "FAILED"] ELSE row

\* listUnfinishedAudit: the rows a crash or an interruption left behind.
Unfinished(row) == row.state \notin Finished
=============================================================================
