SPECIFICATION Spec
CONSTANTS
  Req = {r1, r2, r3, r4}
  Org = {o1, o2}
  Project = {p1, p2}
  Key = {k1}
  Field = {name, description}
  CreateAudit = {name}
  UpdateAudit = {name, description}
  CacheFaults = TRUE
  MaxExpected = 2
  None = None
SYMMETRY Symmetry
INVARIANTS TypeOK KeyUnique NoCrossTenant ValuesAudited StaleExplained
