SPECIFICATION Spec
CONSTANTS
  Req = {r1, r2, r3, r4, r5}
  Limit = 2
  Window = 3
  MaxDelay = 1
  MaxNow = 6
  None = None
SYMMETRY Symmetry
INVARIANTS Throttled RefusedForCause
