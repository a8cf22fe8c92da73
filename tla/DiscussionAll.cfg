SPECIFICATION FairSpec
CONSTANTS
  Req = {r1, r2, r3}
  Task = {t1}
  Note = {n1, n2}
  User = {alice, bob}
  Admins = {bob}
  None = None
INVARIANTS TypeOK NoOrphan Acknowledged EventCommitted
PROPERTIES PurgedEventually
