SPECIFICATION FairSpec
CONSTANTS
  gateway = gateway
  cli = cli
  Procs = {gateway, cli}
  MaxCalls = 4
  MaxLife = 2
INVARIANTS LockInv
PROPERTIES QueueDrains
CHECK_DEADLOCK FALSE
