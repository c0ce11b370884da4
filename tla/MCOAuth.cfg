SPECIFICATION Spec
CONSTANTS
  c1 = c1
  g1 = g1
  g2 = g2
  q1 = q1
  q2 = q2
  Clients = {c1}
  Grants = {g1, g2}
  Requests = {q1, q2}
  CodeLife = 1
  MaxRefresh = 4
  MaxEpoch = 2
  MaxNow = 2
  MaxRestart = 1
SYMMETRY RequestSymmetry
INVARIANTS AccessInv
PROPERTIES RevocationIsWhole ImplementsContract
CHECK_DEADLOCK FALSE
