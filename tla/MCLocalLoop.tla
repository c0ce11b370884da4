---------------------------- MODULE MCLocalLoop ----------------------------
EXTENDS LocalLoop

CONSTANTS x, y, z, npm1, npm2, test

\* Contents x and y share a lockfile, z has another.
MCTrees == {x, y, z}
MCLockOf(t) == IF t = z THEN npm2 ELSE npm1
MCBudgets == {[commits |-> 3, jobs |-> 2, writes |-> 2, opens |-> 0],
              [commits |-> 2, jobs |-> 3, writes |-> 2, opens |-> 0],
              [commits |-> 3, jobs |-> 1, writes |-> 1, opens |-> 1],
              [commits |-> 3, jobs |-> 0, writes |-> 1, opens |-> 2]}
MCProfiles == {test}
=============================================================================
