SPECIFICATION Spec
CONSTANTS
  w1 = w1  w2 = w2  r1 = r1
  i1 = i1  i2 = i2  i3 = i3  i4 = i4
  v1 = v1  v2 = v2
  Client = {w1, r1}
  Writer = {w1}
  Value = {v1, v2}
  Partial = Partial
  Inode = {i1, i2, i3, i4}
  None = None
INVARIANT TypeOK
INVARIANT StateFileComplete
PROPERTY ImplementsRegister
