SPECIFICATION Spec
CONSTANTS
  i1 = i1
  i2 = i2
  i3 = i3
  root = root
  bob = bob
  eve = eve
  q1 = q1
  q2 = q2
  Ids <- ThreeIds
  Names <- ThreeNames
  Requests <- TwoRequests
  DefaultAdmin = root
SYMMETRY Symmetry
INVARIANT AdminRemains
CHECK_DEADLOCK FALSE
