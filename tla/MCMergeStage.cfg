SPECIFICATION FairSpec
CONSTANTS
  a1 = a1
  a2 = a2
  a3 = a3
  NoId = NoId
  Ids = {a1, a2}
  MaxBase = 1
  MaxCrash = 1
INVARIANTS ReceiptIsExact MergeInv
PROPERTIES ImplementsContract MergeSettled
CHECK_DEADLOCK FALSE
