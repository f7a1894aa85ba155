SPECIFICATION Spec
CONSTANTS
  Thread = {t1, t2}
  Slot = {p1, p2}
  Item = {i1, i2, i3}
  Obj = {o1, o2}
  Static = {s1}
  Key = {k1, k2, k3}
  Indexed = {k1, k2}
  SizeOf <- MCSizeOf
  Big = {}
  StoreMax = 0
  UIntMax = 31
  Request = {}
  Closers = {t1, t2}
  Removers = {t1, t2}
  StoreShared = TRUE
  NoItem = NoItem
  NoVal = NoVal
  NoKey = NoKey
SYMMETRY Symm
INVARIANTS LastDropNotStored StaticStays
