SPECIFICATION TableFairSpec
CONSTANTS
  t1 = t1
  t2 = t2
  a1 = a1
  a2 = a2
  a3 = a3
  e1 = e1
  e2 = e2
  Tasks = {t1, t2}
  Ids = {a1, a2, a3}
  Kinds = {"delivery"}
  Evidence = {e1}
  ApprovalTtl = 2
  ExecutionTtl = 2
  MaxTime = 3
  MaxNonce = 2
INVARIANTS ConsentGiven TableInv
PROPERTIES ImplementsContract PendingEnds
CHECK_DEADLOCK FALSE
