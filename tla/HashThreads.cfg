SPECIFICATION Spec
CONSTANTS
  Thread = {t1, t2}
  Key = {a1, a2, b1, b2, a3, b3}
  Wrap = {a1, a2, a3}  Far = {b1, b2, b3}  Low = {}
  Val = {v1}
  HashOf <- MCHashOf
  InitialSize = 6
  Locks = {"alloc", "other"}
  NoKey = NoKey  NoVal = NoVal
SYMMETRY Symm
INVARIANTS Reachable NeverFull
PROPERTIES RemovesItsOwn IsMap
