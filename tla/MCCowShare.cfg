SPECIFICATION Spec
CONSTANTS
  c1 = c1
  c2 = c2
  c3 = c3
  b1 = b1
  b2 = b2
  b3 = b3
  b4 = b4
  b5 = b5
  b6 = b6
  b7 = b7
  o1 = o1
  o2 = o2
  o3 = o3
  o4 = o4
  o5 = o5
  o6 = o6
  o7 = o7
  x1 = x1
  x2 = x2
  Columns = {c1, c2}
  Arrays = {x1}
  Buffers = {b1, b2, b3, b4, b5, b6, b7}
  Owners = {o1, o2, o3, o4, o5, o6, o7}
  Values = {0, 1}
  Length = 3
  Fresh <- Alternating
  Programs <- SharingOrAdopting
  None = None
VIEW UpToIdentity
SYMMETRY ColumnsAlike
INVARIANTS Tracked DataIsCurrent ColumnsFitTheirBase
PROPERTIES ImplementsValues
