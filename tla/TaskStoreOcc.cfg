SPECIFICATION FairSpec
CONSTANTS
  Req = {r1, r2, r3}
  Task = {t1, t2}
  Status = {backlog, todo}
  Backlog = backlog
  Kinds = {"create", "status", "delete"}
  MaxExpected = 2
  None = None
INVARIANTS OneWinner 
PROPERTIES  Answered
