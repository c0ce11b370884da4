------------------------- MODULE MCHostVerification -------------------------
EXTENDS HostVerification

MCChanges == {{"docs"}, {"docs", "ordinary"}, {"ordinary", "boundary"}}

Budget(commits, reds, infras, cancels, crashes, humans, upgrades) ==
  [commits |-> commits, reds |-> reds, infras |-> infras, cancels |-> cancels,
   crashes |-> crashes, humans |-> humans, upgrades |-> upgrades]

MCBudgets == {Budget(2, 0, 0, 0, 0, 1, 0), Budget(1, 1, 1, 0, 1, 0, 1),
              Budget(1, 0, 0, 0, 1, 1, 1), Budget(0, 1, 2, 1, 1, 1, 0)}
=============================================================================
