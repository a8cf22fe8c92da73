SPECIFICATION Spec
CONSTANTS
  Req = {r1, r2, r3, r4}
  Token = {k1, k2, k3}
  TPS = 2
  Life = 2
  MaxNow = 6
  None = None
SYMMETRY Symmetry
INVARIANTS TypeOK RevokedUntilLastSecond
