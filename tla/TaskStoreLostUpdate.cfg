SPECIFICATION Spec
CONSTANTS
  Req = {r1, r2, r3}
  Task = {t1}
  Status = {backlog, todo}
  Backlog = backlog
  Kinds = {"create", "status", "fields", "delete"}
  MaxExpected = 2
  None = None
SYMMETRY Symmetry
INVARIANTS OneWinner
