SPECIFICATION FairSpec
CONSTANTS
  Modes = {"auto", "manual"}
  Changes <- MCChanges
  Budgets <- MCBudgets
 
PROPERTIES MergedIsVerified NoBlindRetry GateDecides
CHECK_DEADLOCK FALSE
