SPECIFICATION FairSpec
CONSTANTS
  Calls = {c1, c2}
  Native = native
  Remotes = {r1}
  Skills = {s1}
  Configs <- MCConfigs
  Hints = {"read", "write", "destructive"}
  MaxChanges = 2
INVARIANTS CallInv
PROPERTIES RowsEnd
CHECK_DEADLOCK FALSE
