SPECIFICATION Spec
CONSTANTS
  Reader = {r1, r2}
  Vdp = {v1}
  Height = 2
  MaxSerial = 4
  CountLimit = 2
  None = None
SYMMETRY Symmetric
INVARIANTS LeaseImmutable PublishedWhole LeasesCounted
