------------------------- MODULE MCJobSupervision -------------------------
EXTENDS Retention

CONSTANTS t1, t2

Request(t, k) == [task |-> t, kind |-> k]

History(plan, opens, closes, lives, plans_, globalJobs) ==
  [plan |-> plan, opens |-> opens, closes |-> closes, lives |-> lives, plans |-> plans_,
   globalJobs |-> globalJobs]

\* A verifier through two restarts; two jobs of one task that closes; two tasks that share
\* one slot; two verifiers; a bootstrap beside a deployment; what a job of a closed task
\* left, through a restart; the dependencies of the repository when a task is opened.
MCHistories ==
  {History(<<Request(t1, "host-verifier")>>, {}, {}, 3, 0, 2),
   History(<<Request(t1, "sandbox"), Request(t1, "dependency-bootstrap")>>, {}, {t1}, 2, 0, 2),
   History(<<Request(t1, "sandbox"), Request(t2, "sandbox")>>, {}, {}, 2, 0, 1),
   History(<<Request(t1, "host-verifier"), Request(t2, "host-verifier")>>, {}, {}, 1, 0, 2),
   History(<<Request(t1, "dependency-bootstrap"), Request(t2, "deployment-host")>>,
           {}, {}, 1, 0, 2),
   History(<<Request(t1, "sandbox")>>, {t2}, {t1}, 2, 2, 2),
   History(<<Request(t2, "dependency-bootstrap")>>, {t2}, {t1, t2}, 1, 2, 2)}
=============================================================================
