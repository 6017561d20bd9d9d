SPECIFICATION Spec
CONSTANTS
  Writer = {w1, w2}
  Image = {i1, i2}
  Address = {a1, a2}
  MaxAttempts = 2
  None = None
INVARIANTS OwnTemporary
PROPERTIES RefinesAtomicStore
