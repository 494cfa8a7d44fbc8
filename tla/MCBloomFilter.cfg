CONSTANTS
  e1 = e1
  e2 = e2
  e3 = e3
  NULL = NULL
  K = 2
  Ms = {5, 12}
  Elements <- MCElements
  Hash <- MCHash
SPECIFICATION Spec
INVARIANTS TypeOK NoFalseNegatives
