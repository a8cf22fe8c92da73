SPECIFICATION Spec
CONSTANTS
  Req = {r1, r2, r3, r4}
  User = {u1, u2}
  Org = {o1, o2}
  Team = {t1, t2}
  Email = {e1, e2}
  Slug = {s1}
  InviteRoles = {"viewer", "admin"}
  MaxTries = 3
  None = None
SYMMETRY Symmetry
INVARIANTS TypeOK RegisteredOnce Provisioned InviteHonoured TeamsApart MailBounded ColumnsKept
