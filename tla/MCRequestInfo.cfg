CONSTANTS
  n1 = n1
  n2 = n2
  n3 = n3
  NULL = NULL
  Heights = {1}
  Nodes <- MCNodes
  MaxFlights = 4
SYMMETRY NodeSymmetry
SPECIFICATION Spec
INVARIANT TypeOK
CHECK_DEADLOCK FALSE
