SPECIFICATION Spec
CONSTANTS
  x = x
  y = y
  z = z
  npm1 = npm1
  npm2 = npm2
  test = test
  Trees <- MCTrees
  BaseTree = x
  LockOf <- MCLockOf
  NoLock = NoLock
  Profiles <- MCProfiles
  Budgets <- MCBudgets
INVARIANTS AttestedAsStarted ReceiptOfTheMerge LoopInv
PROPERTIES RequiredGreen
CHECK_DEADLOCK FALSE
