SPECIFICATION DeliverySpec
CONSTANTS
  a1 = a1
  a2 = a2
  v1 = v1
  NoId = NoId
  Ids = {a1, a2}
  MaxBase = 1
  MaxCrash = 1
  Plans <- MCPlans
  Verifiers = {v1}
  MaxJobs = 2
SYMMETRY IdSymmetry
INVARIANTS DeliveryInv
PROPERTIES DeliveryImplementsContract DeployStageSuffices
CHECK_DEADLOCK FALSE
