SPECIFICATION Spec
CONSTANTS
  Req = {r1, r2, r3, r4}
  Task = {t1, t2}
  Status = {backlog, todo}
  Backlog = backlog
  Kinds = {"create", "status", "fields", "delete"}
  MaxExpected = 2
  None = None
SYMMETRY Symmetry
INVARIANTS TypeOK DeletedOnce EventTruthful
PROPERTIES StatusFromExpected TombstoneFinal
