------------------------------ MODULE HostPlan ------------------------------
(***************************************************************************)
(* Which host tests a change needs (hostVerification.ts).  A changed file  *)
(* is known by its kind: docs, ordinary sources, critical sources,         *)
(* boundary (critical, and manual-only), or other.                         *)
(***************************************************************************)
EXTENDS Naturals, FiniteSets

ChangeKinds == {"docs", "ordinary", "critical", "boundary", "other"}

\* TRUSTED_HOST_MANIFEST, one entry of each sort.
Manifest ==
  {[file |-> "server-auto", levels |-> {"smoke", "full"}, execution |-> "auto"],
   [file |-> "git-hook", levels |-> {"full"}, execution |-> "auto"],
   [file |-> "tools", levels |-> {"smoke", "full"}, execution |-> "manualOnly"],
   [file |-> "sandbox", levels |-> {"full"}, execution |-> "manualOnly"]}

\* classifyHostVerification: documents do not count, an unknown file counts as critical.
Level(changed) ==
  LET counted == changed \ {"docs"} IN
    IF counted = {} THEN "none" ELSE IF counted = {"ordinary"} THEN "smoke" ELSE "full"

\* hostFilesForLevel.
HostFiles(level, executions) ==
  {e.file : e \in {m \in Manifest : level \in m.levels /\ m.execution \in executions}}

\* planHostVerification.
Plan(changed) ==
  LET level == Level(changed)
      manual == level # "none" /\ "boundary" \in changed
  IN [level |-> level, manualOnly |-> manual,
      required |-> HostFiles(level, IF manual THEN {"auto", "manualOnly"} ELSE {"auto"})]

Sufficient(level, required) == level \in {"full", required}
=============================================================================
