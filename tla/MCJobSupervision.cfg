SPECIFICATION HostSpec
CONSTANTS
  t1 = t1
  t2 = t2
  Tasks = {t1, t2}
  Histories <- MCHistories
  PerTaskJobs = 1
  MaxLives = 3
INVARIANTS NothingLeftRunning JobInv
PROPERTIES SupervisionEnds RetentionIsSafe
CHECK_DEADLOCK FALSE
