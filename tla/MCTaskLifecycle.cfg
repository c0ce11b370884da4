SPECIFICATION FairSpec
CONSTANTS
  t1 = t1
  t2 = t2
  shared = shared
  Tasks = {t1, t2}
  BranchOf <- MCBranchOf
  Budgets <- MCBudgets
INVARIANTS TaskInv
PROPERTIES ReadyIsWhole IntentsResolve
CHECK_DEADLOCK FALSE
