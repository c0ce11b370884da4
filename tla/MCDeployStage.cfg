SPECIFICATION FairSpec
CONSTANTS
  NoId = NoId
  Ids = {a1, a2}
  Plans <- MCPlans
  Verifiers = {v1}
  MaxJobs = 4
  MaxCrash = 2
INVARIANTS SuccessIsProven StatusIsHonest DeployInv
PROPERTIES NothingAfterDeadline DeliveryEnds
CHECK_DEADLOCK FALSE
