CONSTANTS
  c1 = c1  c2 = c2  c3 = c3
  x1 = x1  x2 = x2  x3 = x3
  sA = sA  sB = sB  h1 = h1  h2 = h2
  EMPTY = EMPTY  NoObj = NoObj
  ValueError = ValueError  StructError = StructError
  StateIds <- MCStateIds
  XefIds <- MCXefIds
  Scripts = {sA, sB}
  Ids <- MCIds
  Counters = {65535, 65536}
  Hashes = {h1, h2}
SYMMETRY MCSymmetry
SPECIFICATION Spec
INVARIANT TypeOK
