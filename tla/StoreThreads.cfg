SPECIFICATION FairSpec
CONSTANTS
  Thread = {t1, t2}
  Slot = {p1}
  Item = {i1, i2, i3}
  Obj = {o1, o2, o3}
  Static = {}
  Key = {k1, k3}
  Indexed = {k1}
  SizeOf <- MCSizeOf
  Big = {o3}
  StoreMax = 32
  UIntMax = 127
  Request = {8}
  Closers = {}
  Removers = {}
  StoreShared = FALSE
  NoItem = {i1, i2, i3}
  NoVal = NoVal
  NoKey = NoKey
INVARIANTS TypeOK RefsExact HeldLive NoLeak NextKept IndexAgrees SizeExact
PROPERTIES InUseStays CallsReturn
