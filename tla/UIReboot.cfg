CONSTANTS
  v1 = v1
  v2 = v2
  Version = {v1, v2}
  k1 = k1
  k2 = k2
  Mark = {k1, k2}
  MaxChannel = 2
  MaxHistory = 2
  MaxLine = 1
  MaxName = 0
SPECIFICATION Spec
SYMMETRY Swaps
INVARIANTS
  ConfirmedRebootHappens
