SPECIFICATION Spec
CONSTANTS
  None = None
  i1 = i1
  i2 = i2
  i3 = i3
  n1 = n1
  n2 = n2
  g1 = g1
  Reports <- ThreeReports
  Readers <- OneReader
  TempNames <- TwoNames
INVARIANT TypeOK
PROPERTIES WholeOrAbsent RemovesOnlyItsOwn
SYMMETRY StoreSymmetry
