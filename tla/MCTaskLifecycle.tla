-------------------------- MODULE MCTaskLifecycle --------------------------
EXTENDS TaskLifecycle

CONSTANTS t1, t2, shared

\* Both tasks have the branch name of the same slug and id suffix.
MCBranchOf(t) == shared

Budget(tasks, commits, crashes, jobs, gcs, hands) ==
  [tasks |-> tasks, commits |-> commits, crashes |-> crashes, jobs |-> jobs, gcs |-> gcs,
   hands |-> hands]

MCBudgets == {Budget({t1}, 3, 2, 2, 1, 1), Budget({t1}, 2, 2, 1, 2, 1),
              Budget({t1, t2}, 2, 1, 1, 2, 1), Budget({t1, t2}, 2, 2, 1, 1, 0)}
=============================================================================
