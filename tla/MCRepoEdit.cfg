SPECIFICATION EditSpec
CONSTANTS
  a = a
  b = b
  c = c
  x = x
  y = y
  Absent = Absent
  Paths <- MCPaths
  Contents <- MCContents
  MaxCalls = 2
  MaxJobWrites = 1
SYMMETRY FileSymmetry
INVARIANTS FilesInv
PROPERTIES OutcomesAreTrue
CHECK_DEADLOCK FALSE
