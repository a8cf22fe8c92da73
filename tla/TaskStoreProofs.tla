-------------------------- MODULE TaskStoreProofs --------------------------
(***************************************************************************)
(* Theorems about TaskStore, for any number of requests, tasks and         *)
(* statuses.                                                               *)
(***************************************************************************)
EXTENDS TaskStore, TLAPS

----------------------------------------------------------------------------
(* The inductive invariant.                                                *)

\* Where a handler can be, given what it is: a create never selects, only the
\* field path refreshes, a handler has no answer before its end, and only a
\* PATCH is answered 200.
FlowInv ==
  \A r \in Req :
     /\ pc[r] # "idle" => arg[r].kind \in Kinds
     /\ pc[r] \in {"select", "update"} =>
          arg[r].kind # "create" /\ rows[arg[r].task].state # "absent"
     /\ pc[r] = "refresh" => arg[r].kind = "fields"
     /\ pc[r] # "done" => out[r] = None
     /\ out[r] = 200 => arg[r].kind \in {"status", "fields"}

\* A row lock is held by exactly the transactions that are about to commit.
LockInv ==
  /\ \A r \in Req : pc[r] = "commit" => lock[arg[r].task] = r
  /\ \A t \in Task : lock[t] # None => pc[lock[t]] = "commit" /\ arg[lock[t]].task = t

\* What the UPDATE or INSERT of an open transaction matched is still there:
\* nobody else has written the row.
PendingInv ==
  \A r \in Req : pc[r] = "commit" =>
     LET row == rows[arg[r].task]
     IN /\ arg[r].kind = "create" => row.state = "absent"
        /\ arg[r].kind = "status" => row.state = "live" /\ row.ver = arg[r].exp
        /\ arg[r].kind = "delete" => row.state = "live"
        /\ arg[r].kind = "fields" => row.state \in {"live", "deleted"}

\* The DELETE handlers that have committed.
DeleteCommitted(r) ==
  /\ arg[r].kind = "delete"
  /\ pc[r] = "broadcast" \/ out[r] = 204

\* At most one of them per task, and its task is gone.
DeleteInv ==
  /\ \A r \in Req : DeleteCommitted(r) => arg[r].task \in Task /\ Gone(arg[r].task)
  /\ \A p, q \in Req :
        DeleteCommitted(p) /\ DeleteCommitted(q) /\ arg[p].task = arg[q].task => p = q

\* A handler about to publish holds what its own audit entry recorded, and
\* whoever has published is done.
PublishInv ==
  /\ \A r \in Req : pc[r] = "broadcast" /\ arg[r].kind \in {"create", "status"} =>
        \E a \in Trail(arg[r].task) : a.by = r /\ a.after = obj[r]
  /\ \A i \in DOMAIN events : pc[events[i].by] = "done"

IInv == /\ TypeOK /\ FlowInv /\ LockInv /\ PendingInv
        /\ DeleteInv /\ PublishInv /\ EventTruthful

(* Without the field path versions only grow, and the trail follows them.  *)

\* A status handler knows a version between the one that its request found and the
\* current one, as some audit entry left it.
SeenInv ==
  \A r \in Req : arg[r].kind = "status" =>
     /\ pc[r] = "select" => arg[r].had <= rows[arg[r].task].ver
     /\ pc[r] \in {"update", "commit"} =>
          /\ arg[r].had <= obj[r].ver
          /\ obj[r].ver <= rows[arg[r].task].ver
          /\ \E a \in Trail(arg[r].task) : a.after = obj[r]

\* A status PATCH that was applied has left its entry in the trail.
AppliedInv ==
  \A r \in Req : arg[r].kind = "status" /\ (pc[r] = "broadcast" \/ out[r] = 200) =>
     \E a \in audit : a.task = arg[r].task /\ a.by = r /\ a.after.ver = arg[r].exp + 1

\* A task that was never created has no trail; a created one has a version.
AbsentInv ==
  \A t \in Task : /\ rows[t].state = "absent" => Trail(t) = {} /\ rows[t].ver = 0
                  /\ rows[t].state # "absent" => rows[t].ver >= 1

\* Whoever has left an entry is a request that came.
AuthorInv == \A a \in audit : pc[a.by] # "idle"

OccInv == SeenInv /\ AppliedInv /\ AbsentInv /\ AuthorInv /\ AuditReplay

----------------------------------------------------------------------------
(* Type correctness.                                                       *)

\* The empty database with idle handlers is well typed.
LEMMA TypeInit == Init => TypeOK
  <1> SUFFICES ASSUME Init PROVE TypeOK
    OBVIOUS
  <1>1. NoArg \in [kind : AllKinds \cup {"none"}, task : Task \cup {None},
                   exp : Nat, status : Status, had : Nat]
    BY ConstantsAssumption DEF NoArg
  <1>2. NoView \in View
    BY ConstantsAssumption DEF NoView, View
  <1>3. rows \in [Task -> Row]
    BY ConstantsAssumption DEF Init, Row
  <1> QED
    BY <1>1, <1>2, <1>3 DEF Init, TypeOK, Labels

\* The view of a row is a view.
LEMMA ViewOfType == \A row \in Row : ViewOf(row) \in View
  BY DEF Row, View, ViewOf

\* A transaction writes a row, and these are its fields.
LEMMA WrittenRow ==
  ASSUME NEW r \in Req, NEW row \in Row,
         arg[r].exp \in Nat, arg[r].status \in Status, obj[r].ver \in Nat
  PROVE  LET new == Written(r, row)
         IN /\ new \in Row
            /\ arg[r].kind = "create" =>
                 new.state = "live" /\ new.ver = 1 /\ new.status = Backlog
            /\ arg[r].kind = "status" =>
                 /\ new.state = row.state
                 /\ new.ver = arg[r].exp + 1 /\ new.status = arg[r].status
            /\ arg[r].kind = "fields" =>
                 new.state = row.state /\ new.ver = obj[r].ver + 1 /\ new.status = row.status
            /\ arg[r].kind \notin {"create", "status", "fields"} =>
                 new.state = "deleted" /\ new.ver = row.ver /\ new.status = row.status
  <1>1. CASE arg[r].kind = "create"
    BY <1>1, ConstantsAssumption DEF Written, Row
  <1>2. CASE arg[r].kind = "status"
    <2>1. Written(r, row) = [row EXCEPT !.ver = arg[r].exp + 1, !.status = arg[r].status]
      BY <1>2 DEF Written
    <2>2. [row EXCEPT !.ver = arg[r].exp + 1, !.status = arg[r].status]
            = [[row EXCEPT !.ver = arg[r].exp + 1] EXCEPT !.status = arg[r].status]
      OBVIOUS
    <2>3. [row EXCEPT !.ver = arg[r].exp + 1]
            = [state |-> row.state, ver |-> arg[r].exp + 1, status |-> row.status]
      BY DEF Row
    <2>4. Written(r, row) = [state |-> row.state, ver |-> arg[r].exp + 1,
                             status |-> arg[r].status]
      BY <2>1, <2>2, <2>3
    <2> QED
      BY <1>2, <2>4 DEF Row
  <1>3. CASE arg[r].kind = "fields"
    <2>1. Written(r, row) = [row EXCEPT !.ver = obj[r].ver + 1]
      BY <1>3 DEF Written
    <2> QED
      BY <1>3, <2>1 DEF Row
  <1>4. CASE arg[r].kind \notin {"create", "status", "fields"}
    <2>1. Written(r, row) = [row EXCEPT !.state = "deleted"]
      BY <1>4 DEF Written
    <2> QED
      BY <1>4, <2>1 DEF Row
  <1> QED
    BY <1>1, <1>2, <1>3, <1>4

\* Its audit entries are audit records.
LEMMA AuditOfType ==
  ASSUME TypeOK, NEW r \in Req, pc[r] # "idle", NEW new \in Row
  PROVE  AuditOf(r, new) \subseteq AuditRecord
  <1>1. ViewOf(new) \in View /\ NoView \in View /\ obj[r] \in View /\ arg[r].task \in Task
    BY ViewOfType, ConstantsAssumption DEF TypeOK, NoView, View
  <1> QED
    BY <1>1 DEF AuditOf, Record, AuditRecord

\* Every handler step, failure and sweep leaves the state well typed.
LEMMA TypeStep == TypeOK /\ [Next]_vars => TypeOK'
  <1> SUFFICES ASSUME TypeOK, [Next]_vars PROVE TypeOK'
    OBVIOUS
  <1> USE DEF Goto, Answer
  <1>1. ASSUME NEW r \in Req, NEW t \in Task, CreateTask(r, t) PROVE TypeOK'
    BY <1>1, ConstantsAssumption DEF CreateTask, TypeOK, AllKinds, Labels
  <1>2. ASSUME NEW r \in Req, NEW t \in Task, NEW kind \in {"status", "fields", "delete"},
               NEW exp \in Nat, NEW s \in Status, Receive(r, kind, t, exp, s)
        PROVE  TypeOK'
    <2>1. rows[t].ver \in Nat
      BY DEF TypeOK, Row
    <2> QED
      BY <1>2, <2>1 DEF Receive, TypeOK, AllKinds, Labels
  <1>3. ASSUME NEW r \in Req, NEW t \in Task,
               PatchStatus(r, t) \/ PatchFields(r, t) \/ DeleteTask(r, t)
        PROVE  TypeOK'
    <2>1. 0 \in Nat /\ \A e \in Expected : e \in Nat
      BY ConstantsAssumption DEF Expected
    <2> QED
      BY <1>2, <1>3, <2>1, ConstantsAssumption DEF PatchStatus, PatchFields, DeleteTask
  <1>4. ASSUME NEW r \in Req, Select(r) PROVE TypeOK'
    <2>1. arg[r].task \in Task => ViewOf(rows[arg[r].task]) \in View
      BY ViewOfType DEF TypeOK
    <2>2. pc[r] # "idle" /\ arg[r].task \in Task
      BY <1>4 DEF Select, TypeOK
    <2>3. CASE /\ obj' = [obj EXCEPT ![r] = ViewOf(rows[arg[r].task])]
               /\ pc' = [pc EXCEPT ![r] = "update"] /\ UNCHANGED out
      BY <1>4, <2>1, <2>2, <2>3 DEF Select, TypeOK, Labels
    <2>4. ASSUME NEW code \in Codes, Answer(r, code), UNCHANGED obj PROVE TypeOK'
      BY <1>4, <2>2, <2>4 DEF Select, TypeOK, Labels
    <2> QED
      BY <1>4, <2>3, <2>4 DEF Select, Codes
  <1>5. ASSUME NEW r \in Req, Update(r) PROVE TypeOK'
    <2>1. NoMatchCode(r) \in Codes
      BY DEF NoMatchCode, Codes
    <2>2. pc[r] # "idle" /\ arg[r].task \in Task
      BY <1>5 DEF Update, TypeOK
    <2>3. CASE pc' = [pc EXCEPT ![r] = "commit"] /\ UNCHANGED out
      <3>1. /\ lock' = [lock EXCEPT ![arg[r].task] = r] \/ UNCHANGED lock
            /\ UNCHANGED <<rows, arg, obj, out, audit, events>>
        BY <1>5, <2>3 DEF Update
      <3>2. lock' \in [Task -> Req \cup {None}]
        BY <2>2, <3>1 DEF TypeOK
      <3>4. pc' \in [Req -> Labels]
        BY <2>3 DEF TypeOK, Labels
      <3>3. \A q \in Req : (pc'[q] # "idle" => pc[q] # "idle") /\ (pc'[q] = "done" => pc[q] = "done")
        BY <2>2, <2>3 DEF TypeOK
      <3> QED
        BY <3>1, <3>2, <3>3, <3>4 DEF TypeOK
    <2>4. CASE Answer(r, NoMatchCode(r)) /\ UNCHANGED lock
      BY <1>5, <2>1, <2>2, <2>4 DEF Update, TypeOK, Labels
    <2> QED
      BY <1>5, <2>3, <2>4 DEF Update
  <1>6. ASSUME NEW r \in Req, Commit(r) PROVE TypeOK'
    <2> DEFINE new == Written(r, rows[arg[r].task])
    <2>1. pc[r] # "idle" /\ arg[r].task \in Task
      BY <1>6 DEF Commit, TypeOK
    <2>2. new \in Row /\ ViewOf(new) \in View
      BY <2>1, WrittenRow, ViewOfType DEF TypeOK, View
    <2>3. AuditOf(r, new) \subseteq AuditRecord
      BY <2>1, <2>2, AuditOfType
    <2> HIDE DEF new
    <2>4. /\ rows' = [rows EXCEPT ![arg[r].task] = new]
          /\ audit' = audit \cup AuditOf(r, new)
          /\ obj' = [obj EXCEPT ![r] = ViewOf(new)]
          /\ lock' = [lock EXCEPT ![arg[r].task] = None]
          /\ \E l \in Labels \ {"idle", "done"} : pc' = [pc EXCEPT ![r] = l]
          /\ UNCHANGED <<arg, out, events>>
      BY <1>6 DEF Commit, new, Labels
    <2> QED
      BY <2>1, <2>2, <2>3, <2>4 DEF TypeOK
  <1>7. ASSUME NEW r \in Req, Refresh(r) PROVE TypeOK'
    <2>1. arg[r].task \in Task => ViewOf(rows[arg[r].task]) \in View
      BY ViewOfType DEF TypeOK
    <2>2. pc[r] # "idle" /\ arg[r].task \in Task
      BY <1>7 DEF Refresh, TypeOK
    <2>3. CASE /\ obj' = [obj EXCEPT ![r] = ViewOf(rows[arg[r].task])]
               /\ pc' = [pc EXCEPT ![r] = "broadcast"] /\ UNCHANGED out
      BY <1>7, <2>1, <2>2, <2>3 DEF Refresh, TypeOK, Labels
    <2>4. CASE Answer(r, 500) /\ UNCHANGED obj
      BY <1>7, <2>2, <2>4 DEF Refresh, TypeOK, Labels, Codes
    <2> QED
      BY <1>7, <2>3, <2>4 DEF Refresh
  <1>8. ASSUME NEW r \in Req, Broadcast(r) PROVE TypeOK'
    <2>1. SuccessCode(r) \in Codes
      BY DEF SuccessCode, Codes
    <2>2. EventOf(r) \in Event
      BY <1>8 DEF Broadcast, EventOf, Event, TypeOK
    <2>3. events' \in Seq(Event)
      <3>1. events \in Seq(Event)
        BY DEF TypeOK
      <3> HIDE DEF Event, EventOf
      <3>2. Append(events, EventOf(r)) \in Seq(Event)
        BY <2>2, <3>1
      <3> QED
        BY <1>8, <3>1, <3>2 DEF Broadcast
    <2> QED
      BY <1>8, <2>1, <2>3 DEF Broadcast, TypeOK, Labels
  <1>9. ASSUME NEW r \in Req, Fail(r) PROVE TypeOK'
    BY <1>9 DEF Fail, InProgress, Unlocked, TypeOK, Labels, Codes
  <1>10. CASE Sweep
    <2>1. rows' \in [Task -> Row]
      <3>1. \A row \in Row : [row EXCEPT !.state = "purged"] \in Row
        BY DEF Row
      <3>2. \A t \in Task : rows[t] \in Row
        BY DEF TypeOK
      <3> QED
        BY <1>10, <3>1, <3>2 DEF Sweep
    <2> QED
      BY <1>10, <2>1 DEF Sweep, TypeOK
  <1>11. CASE UNCHANGED vars
    BY <1>11 DEF vars, TypeOK
  <1> QED
    BY <1>1, <1>3, <1>4, <1>5, <1>6, <1>7, <1>8, <1>9, <1>10, <1>11
    DEF Next, Step, Quiet

\* Every reachable state is well typed.
THEOREM TypeCorrect == Spec => []TypeOK
  BY TypeInit, TypeStep, PTL DEF Spec

----------------------------------------------------------------------------
(* The invariant of the transactions.                                      *)

\* The invariant of the transactions holds before the first request.
LEMMA InvInit == Init => IInv
  <1> SUFFICES ASSUME Init PROVE IInv
    OBVIOUS
  <1>1. TypeOK
    BY TypeInit
  <1>2. FlowInv /\ LockInv /\ PendingInv
    BY ConstantsAssumption DEF Init, FlowInv, LockInv, PendingInv, Codes
  <1>3. DeleteInv
    BY DEF Init, DeleteInv, DeleteCommitted, NoArg
  <1>4. DOMAIN events = {}
    BY DEF Init
  <1>5. PublishInv /\ EventTruthful
    BY <1>4 DEF Init, PublishInv, EventTruthful
  <1> QED
    BY <1>1, <1>2, <1>3, <1>5 DEF IInv

\* What a commit does, by field.
LEMMA CommitFacts ==
  ASSUME TypeOK, NEW r \in Req, Commit(r)
  PROVE  /\ arg[r].task \in Task /\ pc[r] = "commit"
         /\ lock' = [lock EXCEPT ![arg[r].task] = None]
         /\ pc' = [pc EXCEPT ![r] = IF arg[r].kind = "fields" THEN "refresh"
                                                              ELSE "broadcast"]
         /\ \A t \in Task : t # arg[r].task => rows'[t] = rows[t]
         /\ \A q \in Req : q # r => obj'[q] = obj[q]
         /\ obj'[r] = ViewOf(rows'[arg[r].task])
         /\ audit' = audit \cup AuditOf(r, rows'[arg[r].task])
         /\ UNCHANGED <<arg, out, events>>
  <1>1. pc[r] = "commit" /\ arg[r].task \in Task
    BY DEF Commit, TypeOK
  <1>2. rows'[arg[r].task] = Written(r, rows[arg[r].task])
    BY <1>1 DEF Commit, TypeOK
  <1> QED
    BY <1>1, <1>2 DEF Commit, Goto, TypeOK

\* The row it leaves, for each kind of handler.
LEMMA CommittedRow ==
  ASSUME TypeOK, NEW r \in Req, Commit(r)
  PROVE  LET old == rows[arg[r].task]
             new == rows'[arg[r].task]
         IN /\ arg[r].kind = "create" =>
                 new.state = "live" /\ new.ver = 1 /\ new.status = Backlog
            /\ arg[r].kind = "status" =>
                 /\ new.state = old.state
                 /\ new.ver = arg[r].exp + 1 /\ new.status = arg[r].status
            /\ arg[r].kind = "fields" =>
                 new.state = old.state /\ new.ver = obj[r].ver + 1 /\ new.status = old.status
            /\ arg[r].kind \notin {"create", "status", "fields"} =>
                 new.state = "deleted" /\ new.ver = old.ver /\ new.status = old.status
  <1>1. pc[r] = "commit" /\ arg[r].task \in Task
    BY DEF Commit, TypeOK
  <1>2. rows'[arg[r].task] = Written(r, rows[arg[r].task])
    BY <1>1 DEF Commit, TypeOK
  <1>3. /\ rows[arg[r].task] \in Row /\ arg[r].exp \in Nat
        /\ arg[r].status \in Status /\ obj[r].ver \in Nat
    BY <1>1 DEF TypeOK, View
  <1> QED
    BY <1>2, <1>3, WrittenRow

\* What the retention job does, by field.
LEMMA SweepFacts ==
  ASSUME TypeOK, Sweep
  PROVE  /\ \A t \in Task :
              \/ rows'[t] = rows[t]
              \/ /\ rows[t].state = "deleted" /\ lock[t] = None
                 /\ rows'[t].state = "purged"
                 /\ rows'[t].ver = rows[t].ver /\ rows'[t].status = rows[t].status
         /\ UNCHANGED <<lock, pc, arg, obj, out, audit, events>>
  <1>1. \A row \in Row : /\ [row EXCEPT !.state = "purged"].state = "purged"
                         /\ [row EXCEPT !.state = "purged"].ver = row.ver
                         /\ [row EXCEPT !.state = "purged"].status = row.status
    BY DEF Row
  <1>2. \A t \in Task : rows[t] \in Row
    BY DEF TypeOK
  <1> QED
    BY <1>1, <1>2 DEF Sweep, Swept

\* The three requests that address an existing task are one kind of step.
LEMMA ReceiveFacts ==
  ASSUME TypeOK, NEW r \in Req, NEW t \in Task,
         PatchStatus(r, t) \/ PatchFields(r, t) \/ DeleteTask(r, t)
  PROVE  \E kind \in {"status", "fields", "delete"}, exp \in Nat, s \in Status :
            Receive(r, kind, t, exp, s)
  <1>1. 0 \in Nat /\ \A e \in Expected : e \in Nat
    BY ConstantsAssumption DEF Expected
  <1> QED
    BY <1>1, ConstantsAssumption DEF PatchStatus, PatchFields, DeleteTask

\* Every step keeps each handler on the control flow of its own code.
LEMMA FlowStep == TypeOK /\ FlowInv /\ [Next]_vars => FlowInv'
  <1> SUFFICES ASSUME TypeOK, FlowInv, [Next]_vars PROVE FlowInv'
    OBVIOUS
  <1> USE DEF Goto, Answer, FlowInv
  <1>1. ASSUME NEW r \in Req, NEW t \in Task, CreateTask(r, t) PROVE FlowInv'
    BY <1>1, ConstantsAssumption DEF CreateTask, TypeOK, Codes
  <1>2. ASSUME NEW r \in Req, NEW t \in Task,
               PatchStatus(r, t) \/ PatchFields(r, t) \/ DeleteTask(r, t)
        PROVE  FlowInv'
    <2>1. PICK kind \in {"status", "fields", "delete"}, exp \in Nat, s \in Status :
             Receive(r, kind, t, exp, s)
      BY <1>2, ReceiveFacts
    <2> QED
      BY <2>1, ConstantsAssumption DEF Receive, TypeOK, Codes
  <1>3. ASSUME NEW r \in Req, Select(r) PROVE FlowInv'
    BY <1>3 DEF Select, TypeOK
  <1>4. ASSUME NEW r \in Req, Update(r) PROVE FlowInv'
    <2>1. NoMatchCode(r) # 200
      BY DEF NoMatchCode
    <2> QED
      BY <1>4, <2>1 DEF Update, TypeOK
  <1>5. ASSUME NEW r \in Req, Commit(r) PROVE FlowInv'
    <2>1. \A t \in Task : rows[t].state # "absent" => rows'[t].state # "absent"
      <3>1. rows'[arg[r].task].state \in {"live", "deleted", rows[arg[r].task].state}
        BY <1>5, CommittedRow
      <3> QED
        BY <1>5, <3>1, CommitFacts
    <2>2. /\ arg' = arg /\ out' = out /\ pc[r] = "commit"
          /\ \E l \in {"refresh", "broadcast"} : pc' = [pc EXCEPT ![r] = l]
          /\ pc' = [pc EXCEPT ![r] = IF arg[r].kind = "fields" THEN "refresh"
                                                            ELSE "broadcast"]
      BY <1>5, CommitFacts DEF Commit
    <2>3. pc \in [Req -> Labels] /\ \A q \in Req : pc[q] # "idle" => arg[q].task \in Task
      BY DEF TypeOK
    <2> QED
      BY <2>1, <2>2, <2>3
  <1>6. ASSUME NEW r \in Req, Refresh(r) PROVE FlowInv'
    BY <1>6 DEF Refresh, TypeOK
  <1>7. ASSUME NEW r \in Req, Broadcast(r) PROVE FlowInv'
    <2>1. SuccessCode(r) = 200 => arg[r].kind \in {"status", "fields"}
      BY <1>7, ConstantsAssumption DEF Broadcast, SuccessCode, AllKinds
    <2> QED
      BY <1>7, <2>1 DEF Broadcast, TypeOK
  <1>8. ASSUME NEW r \in Req, Fail(r) PROVE FlowInv'
    BY <1>8 DEF Fail, InProgress, TypeOK
  <1>9. CASE Sweep
    <2>1. \A t \in Task : rows[t].state # "absent" => rows'[t].state # "absent"
      BY <1>9, SweepFacts
    <2>2. UNCHANGED <<pc, arg, out>> /\ \A q \in Req : pc[q] # "idle" => arg[q].task \in Task
      BY <1>9 DEF Sweep, TypeOK
    <2> QED
      BY <2>1, <2>2
  <1>10. CASE UNCHANGED vars
    BY <1>10 DEF vars
  <1> QED
    BY <1>1, <1>2, <1>3, <1>4, <1>5, <1>6, <1>7, <1>8, <1>9, <1>10 DEF Next, Step, Quiet

\* Every step keeps row locks and open transactions in correspondence: UPDATE and
\* INSERT take the lock, COMMIT and the rollback of a failure give it back.
LEMMA LockStep == TypeOK /\ LockInv /\ [Next]_vars => LockInv'
  <1> SUFFICES ASSUME TypeOK, LockInv, [Next]_vars PROVE LockInv'
    OBVIOUS
  <1> USE ConstantsAssumption DEF Goto, Answer, LockInv
  <1>1. ASSUME NEW r \in Req, NEW t \in Task, CreateTask(r, t) PROVE LockInv'
    BY <1>1 DEF CreateTask, TypeOK
  <1>2. ASSUME NEW r \in Req, NEW t \in Task,
               PatchStatus(r, t) \/ PatchFields(r, t) \/ DeleteTask(r, t)
        PROVE  LockInv'
    <2>1. PICK kind \in {"status", "fields", "delete"}, exp \in Nat, s \in Status :
             Receive(r, kind, t, exp, s)
      BY <1>2, ReceiveFacts
    <2> QED
      BY <2>1 DEF Receive, TypeOK
  <1>3. ASSUME NEW r \in Req, Select(r) PROVE LockInv'
    BY <1>3 DEF Select, TypeOK
  <1>4. ASSUME NEW r \in Req, Update(r) PROVE LockInv'
    <2>1. arg[r].task \in Task /\ pc[r] = "update"
      BY <1>4 DEF Update, TypeOK
    <2>2. CASE Answer(r, NoMatchCode(r)) /\ UNCHANGED lock
      BY <1>4, <2>1, <2>2 DEF Update, TypeOK
    <2>3. CASE /\ LockFree(arg[r].task)
               /\ lock' = [lock EXCEPT ![arg[r].task] = r]
               /\ Goto(r, "commit")
      BY <1>4, <2>1, <2>3 DEF Update, LockFree, TypeOK
    <2> QED
      BY <1>4, <2>2, <2>3 DEF Update
  <1>5. ASSUME NEW r \in Req, Commit(r) PROVE LockInv'
    <2> DEFINE t0 == arg[r].task
    <2>1. /\ t0 \in Task /\ pc[r] = "commit" /\ arg' = arg
          /\ lock' = [lock EXCEPT ![t0] = None]
          /\ \E l \in {"refresh", "broadcast"} : pc' = [pc EXCEPT ![r] = l]
      BY <1>5, CommitFacts
    <2>2. lock[t0] = r
      BY <2>1
    <2>3. \A q \in Req : pc'[q] = "commit" => q # r /\ pc[q] = "commit"
      BY <2>1 DEF TypeOK
    <2>4. \A q \in Req : pc[q] = "commit" => arg[q].task \in Task
      BY DEF TypeOK
    <2>5. \A q \in Req : pc'[q] = "commit" => lock'[arg'[q].task] = q
      BY <2>1, <2>2, <2>3, <2>4 DEF TypeOK
    <2>6. ASSUME NEW t \in Task, lock'[t] # None
          PROVE  pc'[lock'[t]] = "commit" /\ arg'[lock'[t]].task = t
      <3>1. t # t0 /\ lock'[t] = lock[t] /\ lock[t] \in Req
        BY <2>1, <2>6 DEF TypeOK
      <3>2. lock[t] # r
        BY <2>1, <3>1
      <3> QED
        BY <2>1, <2>6, <3>1, <3>2 DEF TypeOK
    <2> QED
      BY <2>5, <2>6
  <1>6. ASSUME NEW r \in Req, Refresh(r) PROVE LockInv'
    BY <1>6 DEF Refresh, TypeOK
  <1>7. ASSUME NEW r \in Req, Broadcast(r) PROVE LockInv'
    BY <1>7 DEF Broadcast, TypeOK
  <1>8. ASSUME NEW r \in Req, Fail(r) PROVE LockInv'
    BY <1>8 DEF Fail, InProgress, Unlocked, TypeOK
  <1>9. CASE Sweep
    BY <1>9, SweepFacts
  <1>10. CASE UNCHANGED vars
    BY <1>10 DEF vars
  <1> QED
    BY <1>1, <1>2, <1>3, <1>4, <1>5, <1>6, <1>7, <1>8, <1>9, <1>10 DEF Next, Step, Quiet

\* What an open transaction matched is not changed under it: only the holder of
\* the row lock, or the retention job on an unlocked row, writes.
LEMMA PendingStep ==
  TypeOK /\ FlowInv /\ LockInv /\ PendingInv /\ [Next]_vars => PendingInv'
  <1> SUFFICES ASSUME TypeOK, FlowInv, LockInv, PendingInv, [Next]_vars PROVE PendingInv'
    OBVIOUS
  <1> USE DEF Goto, Answer, PendingInv
  <1>1. ASSUME NEW r \in Req, NEW t \in Task, CreateTask(r, t) PROVE PendingInv'
    BY <1>1 DEF CreateTask, TypeOK
  <1>2. ASSUME NEW r \in Req, NEW t \in Task,
               PatchStatus(r, t) \/ PatchFields(r, t) \/ DeleteTask(r, t)
        PROVE  PendingInv'
    <2>1. PICK kind \in {"status", "fields", "delete"}, exp \in Nat, s \in Status :
             Receive(r, kind, t, exp, s)
      BY <1>2, ReceiveFacts
    <2> QED
      BY <2>1 DEF Receive, TypeOK
  <1>3. ASSUME NEW r \in Req, Select(r) PROVE PendingInv'
    BY <1>3 DEF Select, TypeOK
  <1>4. ASSUME NEW r \in Req, Update(r) PROVE PendingInv'
    <2>1. /\ arg[r].task \in Task /\ pc[r] = "update" /\ arg[r].kind # "create"
          /\ rows[arg[r].task].state \in {"live", "deleted", "purged"}
      BY <1>4 DEF Update, TypeOK, FlowInv, Row
    <2>2. CASE Answer(r, NoMatchCode(r))
      BY <1>4, <2>2 DEF Update, TypeOK
    <2>3. CASE Matches(r, rows[arg[r].task]) /\ Goto(r, "commit")
      BY <1>4, <2>1, <2>3 DEF Update, Matches, TypeOK
    <2> QED
      BY <1>4, <2>2, <2>3 DEF Update
  <1>5. ASSUME NEW r \in Req, Commit(r) PROVE PendingInv'
    <2>1. \A q \in Req : pc'[q] = "commit" =>
             q # r /\ pc[q] = "commit" /\ arg[q].task \in Task
      BY <1>5, CommitFacts DEF TypeOK
    <2>2. \A q \in Req : pc'[q] = "commit" => arg[q].task # arg[r].task
      BY <1>5, <2>1, CommitFacts DEF LockInv
    <2>3. \A q \in Req : pc'[q] = "commit" => rows'[arg[q].task] = rows[arg[q].task]
      BY <1>5, <2>1, <2>2, CommitFacts
    <2> QED
      BY <1>5, <2>1, <2>3, CommitFacts
  <1>6. ASSUME NEW r \in Req, Refresh(r) PROVE PendingInv'
    BY <1>6 DEF Refresh, TypeOK
  <1>7. ASSUME NEW r \in Req, Broadcast(r) PROVE PendingInv'
    BY <1>7 DEF Broadcast, TypeOK
  <1>8. ASSUME NEW r \in Req, Fail(r) PROVE PendingInv'
    BY <1>8 DEF Fail, TypeOK
  <1>9. CASE Sweep
    <2>1. \A q \in Req : pc[q] = "commit" => rows'[arg[q].task] = rows[arg[q].task]
      BY <1>9, SweepFacts, ConstantsAssumption DEF TypeOK, LockInv
    <2> QED
      BY <1>9, <2>1, SweepFacts
  <1>10. CASE UNCHANGED vars
    BY <1>10 DEF vars
  <1> QED
    BY <1>1, <1>2, <1>3, <1>4, <1>5, <1>6, <1>7, <1>8, <1>9, <1>10 DEF Next, Step, Quiet

\* Only a commit and the retention job write to the database.
LEMMA RowsWritten ==
  ASSUME [Next]_vars
  PROVE  \/ UNCHANGED <<rows, audit>>
         \/ \E r \in Req : Commit(r)
         \/ Sweep
  BY DEF Next, Step, Quiet, vars, CreateTask, PatchStatus, PatchFields, DeleteTask,
         Receive, Select, Update, Refresh, Broadcast, Fail

\* A deleted task stays deleted and keeps its status.
LEMMA GoneStep ==
  ASSUME TypeOK, FlowInv, PendingInv, [Next]_vars, NEW t \in Task
  PROVE  /\ Gone(t) => Gone(t)' /\ rows'[t].status = rows[t].status
         /\ rows[t].state = "purged" => rows'[t].state = "purged"
         /\ rows'[t].state = "purged" => Gone(t)
  <1> USE DEF Gone
  <1>1. CASE UNCHANGED rows
    BY <1>1
  <1>2. ASSUME NEW r \in Req, Commit(r)
        PROVE  /\ Gone(t) => Gone(t)' /\ rows'[t].status = rows[t].status
               /\ rows[t].state = "purged" => rows'[t].state = "purged"
               /\ rows'[t].state = "purged" => Gone(t)
    <2>1. CASE t # arg[r].task
      BY <1>2, <2>1, CommitFacts
    <2>2. CASE t = arg[r].task
      <3>1. /\ arg[r].kind \in AllKinds
            /\ arg[r].kind = "create" => rows[t].state = "absent"
            /\ arg[r].kind = "status" => rows[t].state = "live"
            /\ arg[r].kind = "delete" => rows[t].state = "live"
            /\ arg[r].kind = "fields" => rows[t].state \in {"live", "deleted"}
        BY <1>2, <2>2, CommitFacts, ConstantsAssumption DEF PendingInv, FlowInv
      <3> QED
        BY <1>2, <2>2, <3>1, CommittedRow DEF AllKinds
    <2> QED
      BY <2>1, <2>2
  <1>3. CASE Sweep
    BY <1>3, SweepFacts
  <1> QED
    BY <1>1, <1>2, <1>3, RowsWritten

\* Every step keeps the committed DELETE of a task unique: a second soft delete
\* finds no live row.
LEMMA DeleteStep ==
  /\ TypeOK /\ FlowInv /\ PendingInv /\ DeleteInv /\ [Next]_vars
  => DeleteInv'
  <1> SUFFICES ASSUME TypeOK, FlowInv, PendingInv, DeleteInv, [Next]_vars
               PROVE  DeleteInv'
    OBVIOUS
  <1> USE DEF Goto, Answer
  \* Every step but a commit leaves no new committed delete.
  <1>1. ASSUME \A r \in Req :
                  DeleteCommitted(r)' => DeleteCommitted(r) /\ arg'[r].task = arg[r].task
        PROVE  DeleteInv'
    <2>1. \A t \in Task : Gone(t) => Gone(t)'
      BY GoneStep
    <2> QED
      BY <1>1, <2>1 DEF DeleteInv, Gone
  <1>2. ASSUME NEW r \in Req, NEW t \in Task, CreateTask(r, t) PROVE DeleteInv'
    BY <1>1, <1>2 DEF CreateTask, TypeOK, DeleteCommitted
  <1>3. ASSUME NEW r \in Req, NEW t \in Task,
               PatchStatus(r, t) \/ PatchFields(r, t) \/ DeleteTask(r, t)
        PROVE  DeleteInv'
    <2>1. PICK kind \in {"status", "fields", "delete"}, exp \in Nat, s \in Status :
             Receive(r, kind, t, exp, s)
      BY <1>3, ReceiveFacts
    <2>2. out[r] = None
      BY <2>1 DEF Receive, FlowInv
    <2> QED
      BY <1>1, <2>1, <2>2, ConstantsAssumption DEF Receive, TypeOK, DeleteCommitted, Codes
  <1>4. ASSUME NEW r \in Req, Select(r) PROVE DeleteInv'
    BY <1>1, <1>4 DEF Select, TypeOK, DeleteCommitted
  <1>5. ASSUME NEW r \in Req, Update(r) PROVE DeleteInv'
    <2>1. NoMatchCode(r) # 204
      BY DEF NoMatchCode
    <2> QED
      BY <1>1, <1>5, <2>1 DEF Update, TypeOK, DeleteCommitted
  <1>6. ASSUME NEW r \in Req, Commit(r) PROVE DeleteInv'
    <2>1. CASE arg[r].kind # "delete"
      BY <1>1, <1>6, <2>1, CommitFacts DEF TypeOK, DeleteCommitted
    <2>2. CASE arg[r].kind = "delete"
      <3>1. /\ arg[r].task \in Task
            /\ rows[arg[r].task].state = "live"
            /\ rows'[arg[r].task].state = "deleted"
        BY <1>6, <2>2, CommitFacts, CommittedRow DEF PendingInv
      <3>2. \A q \in Req \ {r} : DeleteCommitted(q)' <=> DeleteCommitted(q)
        BY <1>6, CommitFacts DEF TypeOK, DeleteCommitted
      <3>3. \A q \in Req : DeleteCommitted(q) => arg[q].task # arg[r].task
        BY <3>1 DEF DeleteInv, Gone
      <3>4. \A t \in Task : Gone(t) => Gone(t)'
        BY GoneStep
      <3>5. arg' = arg
        BY <1>6, CommitFacts
      <3> QED
        BY <3>1, <3>2, <3>3, <3>4, <3>5 DEF DeleteInv, Gone
    <2> QED
      BY <2>1, <2>2
  <1>7. ASSUME NEW r \in Req, Refresh(r) PROVE DeleteInv'
    BY <1>1, <1>7 DEF Refresh, TypeOK, FlowInv, DeleteCommitted
  <1>8. ASSUME NEW r \in Req, Broadcast(r) PROVE DeleteInv'
    BY <1>1, <1>8 DEF Broadcast, TypeOK, DeleteCommitted
  <1>9. ASSUME NEW r \in Req, Fail(r) PROVE DeleteInv'
    BY <1>1, <1>9 DEF Fail, TypeOK, DeleteCommitted
  <1>10. CASE Sweep
    BY <1>1, <1>10 DEF Sweep, DeleteCommitted
  <1>11. CASE UNCHANGED vars
    BY <1>1, <1>11 DEF vars, DeleteCommitted
  <1> QED
    BY <1>2, <1>3, <1>4, <1>5, <1>6, <1>7, <1>8, <1>9, <1>10, <1>11 DEF Next, Step, Quiet

\* The audit log only grows, a finished handler stays finished with the request
\* it had, and only a broadcast publishes.
LEMMA HistoryKept ==
  ASSUME TypeOK, [Next]_vars
  PROVE  /\ audit \subseteq audit'
         /\ \A r \in Req : pc[r] # "idle" => pc'[r] # "idle" /\ arg'[r] = arg[r]
         /\ \A r \in Req : pc[r] = "done" => pc'[r] = "done"
         /\ \/ UNCHANGED events
            \/ \E r \in Req : /\ Broadcast(r) /\ pc'[r] = "done"
                              /\ events' = Append(events, EventOf(r))
  <1> USE DEF Goto, Answer
  <1>1. ASSUME NEW r \in Req, NEW t \in Task,
               \/ CreateTask(r, t)
               \/ PatchStatus(r, t) \/ PatchFields(r, t) \/ DeleteTask(r, t)
        PROVE  UNCHANGED <<audit, events>> /\ \A q \in Req :
                  /\ pc[q] # "idle" => pc'[q] # "idle" /\ arg'[q] = arg[q]
                  /\ pc[q] = "done" => pc'[q] = "done"
    BY <1>1 DEF CreateTask, PatchStatus, PatchFields, DeleteTask, Receive, TypeOK
  <1>2. ASSUME NEW r \in Req, Select(r) \/ Update(r) \/ Refresh(r) \/ Fail(r)
        PROVE  UNCHANGED <<audit, events>> /\ \A q \in Req :
                  /\ pc[q] # "idle" => pc'[q] # "idle" /\ arg'[q] = arg[q]
                  /\ pc[q] = "done" => pc'[q] = "done"
    BY <1>2 DEF Select, Update, Refresh, Fail, TypeOK
  <1>3. ASSUME NEW r \in Req, Commit(r)
        PROVE  /\ audit \subseteq audit' /\ UNCHANGED events
               /\ \A q \in Req :
                     /\ pc[q] # "idle" => pc'[q] # "idle" /\ arg'[q] = arg[q]
                     /\ pc[q] = "done" => pc'[q] = "done"
    BY <1>3, CommitFacts DEF TypeOK
  <1>4. ASSUME NEW r \in Req, Broadcast(r)
        PROVE  /\ UNCHANGED audit
               /\ \A q \in Req :
                     /\ pc[q] # "idle" => pc'[q] # "idle" /\ arg'[q] = arg[q]
                     /\ pc[q] = "done" => pc'[q] = "done"
               /\ \/ UNCHANGED events
                  \/ pc'[r] = "done" /\ events' = Append(events, EventOf(r))
    BY <1>4 DEF Broadcast, TypeOK
  <1>5. CASE Sweep \/ UNCHANGED vars
    BY <1>5 DEF Sweep, vars
  <1> QED
    BY <1>1, <1>2, <1>3, <1>4, <1>5 DEF Next, Step, Quiet

\* A handler that has committed knows the entry it wrote.
LEMMA OwnEntryStep ==
  ASSUME TypeOK, FlowInv, [Next]_vars,
         \A r \in Req : pc[r] = "broadcast" /\ arg[r].kind \in {"create", "status"} =>
            \E a \in Trail(arg[r].task) : a.by = r /\ a.after = obj[r],
         NEW q \in Req, pc'[q] = "broadcast", arg'[q].kind \in {"create", "status"}
  PROVE  \E a \in Trail(arg[q].task)' : a.by = q /\ a.after = obj'[q]
  <1> USE DEF Goto, Answer
  <1>1. \A t \in Task : Trail(t) \subseteq Trail(t)'
    BY HistoryKept DEF Trail
  <1>2. ASSUME pc[q] = "broadcast", arg'[q] = arg[q], obj'[q] = obj[q]
        PROVE  \E a \in Trail(arg[q].task)' : a.by = q /\ a.after = obj'[q]
    <2>1. PICK a \in Trail(arg[q].task) : a.by = q /\ a.after = obj[q]
      BY <1>2
    <2>2. arg[q].task \in Task
      BY <1>2 DEF TypeOK
    <2>3. a \in Trail(arg[q].task)'
      BY <1>1, <1>2, <2>1, <2>2 DEF Trail
    <2> QED
      BY <1>2, <2>1, <2>3
  <1>3. ASSUME Commit(q)
        PROVE  \E a \in Trail(arg[q].task)' : a.by = q /\ a.after = obj'[q]
    <2> DEFINE before == IF arg[q].kind = "create" THEN NoView ELSE obj[q]
               action == IF arg[q].kind = "create" THEN "CREATE" ELSE "UPDATE"
               entry  == Record(q, action, before, obj'[q])
    <2>1. /\ obj'[q] = ViewOf(rows'[arg[q].task]) /\ arg' = arg
          /\ audit' = audit \cup AuditOf(q, rows'[arg[q].task])
      BY <1>3, CommitFacts
    <2>2. entry \in AuditOf(q, rows'[arg[q].task])
      BY <2>1 DEF AuditOf
    <2>3. entry \in audit' /\ entry.task = arg[q].task /\ entry.by = q /\ entry.after = obj'[q]
      BY <2>1, <2>2 DEF Record
    <2> HIDE DEF entry
    <2> QED
      BY <2>1, <2>3 DEF Trail
  <1>4. ASSUME NEW r \in Req, NEW t \in Task,
               \/ CreateTask(r, t)
               \/ PatchStatus(r, t) \/ PatchFields(r, t) \/ DeleteTask(r, t)
        PROVE  pc[q] = "broadcast" /\ arg'[q] = arg[q] /\ obj'[q] = obj[q]
    BY <1>4 DEF CreateTask, PatchStatus, PatchFields, DeleteTask, Receive, TypeOK
  <1>5. ASSUME NEW r \in Req, Select(r) \/ Update(r) \/ Broadcast(r) \/ Fail(r)
        PROVE  pc[q] = "broadcast" /\ arg'[q] = arg[q] /\ obj'[q] = obj[q]
    BY <1>5 DEF Select, Update, Broadcast, Fail, TypeOK
  <1>6. ASSUME NEW r \in Req, Refresh(r)
        PROVE  pc[q] = "broadcast" /\ arg'[q] = arg[q] /\ obj'[q] = obj[q]
    BY <1>6 DEF Refresh, FlowInv, TypeOK
  <1>7. ASSUME NEW r \in Req, Commit(r), r # q
        PROVE  pc[q] = "broadcast" /\ arg'[q] = arg[q] /\ obj'[q] = obj[q]
    BY <1>7, CommitFacts DEF TypeOK
  <1>8. CASE Sweep \/ UNCHANGED vars
    BY <1>2, <1>8 DEF Sweep, vars
  <1> QED
    BY <1>2, <1>3, <1>4, <1>5, <1>6, <1>7, <1>8 DEF Next, Step, Quiet

\* Every step keeps a handler that is about to publish in agreement with its own
\* audit entry.
LEMMA PublishStep ==
  TypeOK /\ FlowInv /\ PublishInv /\ [Next]_vars => PublishInv'
  <1> SUFFICES ASSUME TypeOK, FlowInv, PublishInv, [Next]_vars PROVE PublishInv'
    OBVIOUS
  <1>1. ASSUME NEW q \in Req, pc'[q] = "broadcast", arg'[q].kind \in {"create", "status"}
        PROVE  \E a \in Trail(arg[q].task)' : a.by = q /\ a.after = obj'[q]
    BY <1>1, OwnEntryStep DEF PublishInv
  <1>2. ASSUME NEW i \in DOMAIN events' PROVE pc'[events'[i].by] = "done"
    <2>1. \A j \in DOMAIN events : events[j].by \in Req /\ pc[events[j].by] = "done"
      <3>1. \A j \in DOMAIN events : events[j] \in Event
        BY DEF TypeOK
      <3> QED
        BY <3>1 DEF Event, PublishInv
    <2>2. \A j \in DOMAIN events : pc'[events[j].by] = "done"
      BY <2>1, HistoryKept
    <2>3. ASSUME NEW r \in Req, pc'[r] = "done", events' = Append(events, EventOf(r))
          PROVE  pc'[events'[i].by] = "done"
      <3>1. EventOf(r).by = r
        BY DEF EventOf
      <3>2. events \in Seq(Event)
        BY DEF TypeOK
      <3>3. CASE i \in DOMAIN events
        BY <2>2, <2>3, <3>2, <3>3
      <3>4. CASE i = Len(events) + 1
        BY <2>3, <3>1, <3>2, <3>4
      <3> QED
        BY <1>2, <2>3, <3>2, <3>3, <3>4
    <2> QED
      BY <1>2, <2>2, <2>3, HistoryKept
  <1> QED
    BY <1>1, <1>2 DEF PublishInv

\* A committed change stays committed, so what was published stays true.
LEMMA TruthfulStep == IInv /\ [Next]_vars => EventTruthful'
  <1> DEFINE True(e) ==
               /\ e.type = "TASK_DELETED" => rows'[e.task].state \in {"deleted", "purged"}
               /\ e.type = "TASK_CREATED" \/ arg'[e.by].kind = "status" =>
                    \E a \in audit' : a.task = e.task /\ a.by = e.by /\ a.after = e.view
  <1> SUFFICES ASSUME IInv, [Next]_vars, NEW i \in DOMAIN events'
               PROVE  True(events'[i])
    BY DEF EventTruthful, Gone, Trail
  <1> USE DEF IInv
  <1>1. /\ \A t \in Task : Gone(t) => rows'[t].state \in {"deleted", "purged"}
        /\ audit \subseteq audit'
    BY GoneStep, HistoryKept DEF Gone
  <1>2. ASSUME NEW j \in DOMAIN events, events'[i] = events[j] PROVE True(events'[i])
    <2>1. events[j] \in Event
      BY DEF TypeOK
    <2>2. events[j].task \in Task /\ events[j].by \in Req
      BY <2>1 DEF Event
    <2>3. arg'[events[j].by] = arg[events[j].by]
      BY <2>2, HistoryKept DEF PublishInv
    <2> QED
      BY <1>1, <1>2, <2>2, <2>3 DEF EventTruthful, Trail
  <1>3. ASSUME NEW r \in Req, Broadcast(r), events'[i] = EventOf(r) PROVE True(events'[i])
    <2>1. /\ pc[r] = "broadcast" /\ arg' = arg /\ arg[r].task \in Task
          /\ EventOf(r).task = arg[r].task /\ EventOf(r).by = r /\ EventOf(r).view = obj[r]
      BY <1>3 DEF Broadcast, EventOf, TypeOK
    <2>2. EventOf(r).type = "TASK_DELETED" => arg[r].kind = "delete"
      BY DEF EventOf
    <2>3. EventOf(r).type = "TASK_CREATED" => arg[r].kind = "create"
      BY DEF EventOf
    <2>4. arg[r].kind = "delete" => Gone(arg[r].task)
      BY <2>1 DEF DeleteInv, DeleteCommitted
    <2>5. arg[r].kind \in {"create", "status"} =>
             \E a \in Trail(arg[r].task) : a.by = r /\ a.after = obj[r]
      BY <2>1 DEF PublishInv
    <2> QED
      BY <1>1, <1>3, <2>1, <2>2, <2>3, <2>4, <2>5 DEF Trail
  <1> QED
    <2>1. CASE UNCHANGED events
      BY <1>2, <2>1
    <2>2. ASSUME NEW r \in Req, Broadcast(r), events' = Append(events, EventOf(r))
          PROVE  True(events'[i])
      <3>1. events \in Seq(Event)
        BY DEF TypeOK
      <3>2. i \in DOMAIN events \/ i = Len(events) + 1
        BY <2>2, <3>1
      <3>3. CASE i \in DOMAIN events
        <4>1. events'[i] = events[i]
          BY <2>2, <3>1, <3>3
        <4> QED
          BY <1>2, <3>3, <4>1
      <3>4. CASE i = Len(events) + 1
        <4>1. events'[i] = EventOf(r)
          BY <2>2, <3>1, <3>4
        <4> QED
          BY <1>3, <2>2, <4>1
      <3> QED
        BY <3>2, <3>3, <3>4
    <2> QED
      BY <2>1, <2>2, HistoryKept

\* The invariant of the transactions is inductive.
LEMMA InvStep == IInv /\ [Next]_vars => IInv'
  BY TypeStep, FlowStep, LockStep, PendingStep, DeleteStep, PublishStep, TruthfulStep
  DEF IInv

\* The invariant of the transactions holds throughout.
THEOREM Invariance == Spec => []IInv
  BY InvInit, InvStep, PTL DEF Spec

\* Whatever the number of concurrent DELETE requests, at most one of them is
\* answered 204.
THEOREM DeletesOnce == Spec => []DeletedOnce
  <1>1. IInv => DeletedOnce
    BY DEF IInv, DeleteInv, DeleteCommitted, DeletedOnce
  <1> QED
    BY <1>1, Invariance, PTL

\* No subscriber is ever told of a change that did not commit.
THEOREM EventsTruthful == Spec => []EventTruthful
  <1>1. IInv => EventTruthful
    BY DEF IInv
  <1> QED
    BY <1>1, Invariance, PTL

\* The retention job and every handler in flight leave a deleted task deleted.
THEOREM TombstonesFinal == Spec => TombstoneFinal
  <1>1. IInv /\ [Next]_vars =>
          [\A t \in Task :
              /\ Gone(t) => Gone(t)' /\ rows'[t].status = rows[t].status
              /\ rows[t].state = "purged" => rows'[t].state = "purged"
              /\ rows'[t].state = "purged" => Gone(t)]_vars
    BY GoneStep DEF IInv
  <1> QED
    BY <1>1, Invariance, PTL DEF Spec, TombstoneFinal

\* The status moves only by the conditional UPDATE, from the version the client
\* named.
THEOREM StatusByOcc == Spec => StatusFromExpected
  <1> DEFINE Guarded(t) ==
               rows[t].state # "absent" /\ rows'[t].status # rows[t].status =>
                 /\ rows[t].state = "live"
                 /\ rows'[t].ver = rows[t].ver + 1
                 /\ \E r \in Req : /\ arg[r].kind = "status" /\ arg[r].task = t
                                   /\ arg[r].exp = rows[t].ver
                                   /\ arg[r].status = rows'[t].status
  <1>1. ASSUME IInv, [Next]_vars, NEW t \in Task PROVE Guarded(t)
    <2> USE DEF IInv
    <2>1. CASE UNCHANGED rows
      BY <2>1
    <2>2. ASSUME NEW r \in Req, Commit(r) PROVE Guarded(t)
      <3>1. CASE t # arg[r].task
        BY <1>1, <2>2, <3>1, CommitFacts
      <3>2. CASE t = arg[r].task
        <4>1. /\ arg[r].kind = "create" => rows[t].state = "absent"
              /\ arg[r].kind = "status" => rows[t].state = "live" /\ rows[t].ver = arg[r].exp
          BY <1>1, <2>2, <3>2, CommitFacts DEF PendingInv
        <4>2. CASE arg[r].kind = "status"
          BY <1>1, <2>2, <3>2, <4>1, <4>2, CommittedRow
        <4>3. CASE arg[r].kind # "status"
          BY <1>1, <2>2, <3>2, <4>1, <4>3, CommittedRow
        <4> QED
          BY <4>2, <4>3
      <3> QED
        BY <3>1, <3>2
    <2>3. CASE Sweep
      BY <1>1, <2>3, SweepFacts
    <2> QED
      BY <1>1, <2>1, <2>2, <2>3, RowsWritten
  <1>2. IInv /\ [Next]_vars => [\A t \in Task : Guarded(t)]_vars
    BY <1>1
  <1> QED
    BY <1>2, Invariance, PTL DEF Spec, StatusFromExpected

----------------------------------------------------------------------------
(* Optimistic concurrency, where the field path is not in use.             *)

\* The invariant of the versions holds before the first request.
LEMMA OccInit == Init => OccInv
  <1> SUFFICES ASSUME Init PROVE OccInv
    OBVIOUS
  <1>1. \A t \in Task : Trail(t) = {} /\ rows[t].state = "absent" /\ rows[t].ver = 0
    BY DEF Init, Trail
  <1>2. \A r \in Req : arg[r].kind = "none"
    BY DEF Init, NoArg
  <1> QED
    BY <1>1, <1>2 DEF Init, OccInv, SeenInv, AppliedInv, AbsentInv, AuthorInv, AuditReplay, Replays

\* A commit of one of the three other handlers, with what the invariant adds.
LEMMA OccCommit ==
  ASSUME "fields" \notin Kinds, IInv, OccInv, NEW r \in Req, Commit(r)
  PROVE  LET t == arg[r].task
         IN /\ t \in Task /\ rows'[t] \in Row
            /\ arg[r].kind \in {"create", "status", "delete"}
            /\ arg[r].kind = "create" =>
                 /\ Trail(t) = {} /\ rows[t].state = "absent" /\ rows[t].ver = 0
                 /\ rows'[t].state = "live" /\ rows'[t].ver = 1
                 /\ audit' = audit \cup {Record(r, "CREATE", NoView, ViewOf(rows'[t]))}
            /\ arg[r].kind = "status" =>
                 /\ rows[t].state = "live" /\ rows'[t].state = "live"
                 /\ rows[t].ver = arg[r].exp /\ rows'[t].ver = arg[r].exp + 1
                 /\ obj[r].ver <= arg[r].exp /\ \E a \in Trail(t) : a.after = obj[r]
                 /\ Informed(r) => obj[r].ver = arg[r].exp
                 /\ audit' = audit \cup {Record(r, "UPDATE", obj[r], ViewOf(rows'[t]))}
            /\ arg[r].kind = "delete" =>
                 /\ rows[t].state = "live" /\ rows'[t].state = "deleted"
                 /\ rows'[t].ver = rows[t].ver /\ rows'[t].status = rows[t].status
                 /\ audit' = audit
  <1> USE DEF IInv, OccInv
  <1>1. arg[r].task \in Task /\ pc[r] = "commit"
    BY CommitFacts
  <1>2. arg[r].kind \in {"create", "status", "delete"}
    BY <1>1, ConstantsAssumption DEF FlowInv, AllKinds
  <1>3. TypeOK'
    BY TypeStep DEF Next, Step
  <1>4. rows'[arg[r].task] \in Row
    BY <1>1, <1>3 DEF TypeOK
  <1>5. CASE arg[r].kind = "create"
    BY <1>1, <1>4, <1>5, CommitFacts, CommittedRow DEF PendingInv, AbsentInv, AuditOf
  <1>6. CASE arg[r].kind = "status"
    <2>1. rows[arg[r].task].state = "live" /\ rows[arg[r].task].ver = arg[r].exp
      BY <1>1, <1>6 DEF PendingInv
    <2>2. /\ arg[r].had <= obj[r].ver /\ obj[r].ver <= rows[arg[r].task].ver
          /\ \E a \in Trail(arg[r].task) : a.after = obj[r]
      BY <1>1, <1>6 DEF SeenInv
    <2>3. arg[r].exp \in Nat /\ arg[r].had \in Nat /\ obj[r].ver \in Nat
      BY DEF TypeOK, View
    <2>4. obj[r].ver <= arg[r].exp /\ (Informed(r) => obj[r].ver = arg[r].exp)
      BY <2>1, <2>2, <2>3 DEF Informed
    <2>5. audit' = audit \cup {Record(r, "UPDATE", obj[r], ViewOf(rows'[arg[r].task]))}
      BY <1>6, CommitFacts DEF AuditOf
    <2> QED
      BY <1>1, <1>4, <1>6, <2>1, <2>2, <2>4, <2>5, CommittedRow
  <1>7. CASE arg[r].kind = "delete"
    BY <1>1, <1>4, <1>7, CommitFacts, CommittedRow DEF PendingInv, AuditOf
  <1> QED
    BY <1>1, <1>2, <1>4, <1>5, <1>6, <1>7

\* Versions never decrease and a created task never becomes absent.
LEMMA OccMonotone ==
  ASSUME "fields" \notin Kinds, IInv, OccInv, [Next]_vars, NEW t \in Task
  PROVE  /\ rows[t].ver <= rows'[t].ver
         /\ rows[t].state # "absent" => rows'[t].state # "absent"
         /\ Trail(t) \subseteq Trail(t)'
  <1>1. rows[t].ver \in Nat /\ Trail(t) \subseteq Trail(t)'
    BY HistoryKept DEF IInv, TypeOK, Row, Trail
  <1>2. CASE UNCHANGED rows
    BY <1>1, <1>2
  <1>3. ASSUME NEW r \in Req, Commit(r)
        PROVE  /\ rows[t].ver <= rows'[t].ver
               /\ rows[t].state # "absent" => rows'[t].state # "absent"
    <2>1. CASE t # arg[r].task
      BY <1>1, <1>3, <2>1, CommitFacts DEF IInv
    <2>2. CASE t = arg[r].task
      <3>1. rows[t].ver \in Nat /\ arg[r].exp \in Nat
        BY DEF IInv, TypeOK, Row
      <3> QED
        BY <1>3, <2>2, <3>1, OccCommit
    <2> QED
      BY <2>1, <2>2
  <1>4. CASE Sweep
    BY <1>1, <1>4, SweepFacts DEF IInv
  <1> QED
    BY <1>1, <1>2, <1>3, <1>4, RowsWritten

\* No audit entry ever names a task that was not created.
LEMMA AbsentStep ==
  ASSUME "fields" \notin Kinds, IInv, OccInv, [Next]_vars
  PROVE  AbsentInv'
  <1> SUFFICES ASSUME NEW t \in Task
               PROVE  /\ rows'[t].state = "absent" => Trail(t)' = {} /\ rows'[t].ver = 0
                      /\ rows'[t].state # "absent" => rows'[t].ver >= 1
    BY DEF AbsentInv
  <1>1. rows[t].ver \in Nat
    BY DEF IInv, TypeOK, Row
  <1>2. CASE UNCHANGED <<rows, audit>>
    BY <1>2 DEF OccInv, AbsentInv, Trail
  <1>3. ASSUME NEW r \in Req, Commit(r)
        PROVE  /\ rows'[t].state = "absent" => Trail(t)' = {} /\ rows'[t].ver = 0
               /\ rows'[t].state # "absent" => rows'[t].ver >= 1
    <2>1. CASE t = arg[r].task
      <3>1. arg[r].exp \in Nat
        BY DEF IInv, TypeOK
      <3> QED
        BY <1>1, <1>3, <2>1, <3>1, OccCommit DEF OccInv, AbsentInv
    <2>2. CASE t # arg[r].task
      <3>1. Trail(t)' = Trail(t)
        BY <1>3, <2>2, OccCommit DEF Trail, Record
      <3>2. rows'[t] = rows[t]
        BY <1>3, <2>2, CommitFacts DEF IInv
      <3> QED
        BY <3>1, <3>2 DEF OccInv, AbsentInv
    <2> QED
      BY <2>1, <2>2
  <1>4. CASE Sweep
    <2>1. Trail(t)' = Trail(t)
      BY <1>4 DEF Sweep, Trail
    <2> QED
      BY <1>1, <1>4, <2>1, SweepFacts DEF IInv, OccInv, AbsentInv
  <1> QED
    BY <1>2, <1>3, <1>4, RowsWritten

\* Every step keeps the requests of the entries among those that came.
LEMMA AuthorStep ==
  ASSUME "fields" \notin Kinds, IInv, OccInv, [Next]_vars
  PROVE  AuthorInv'
  <1> SUFFICES ASSUME NEW a \in audit' PROVE pc'[a.by] # "idle"
    BY DEF AuthorInv
  <1>1. CASE a \in audit
    BY <1>1, HistoryKept DEF IInv, TypeOK, AuditRecord, OccInv, AuthorInv
  <1>2. ASSUME NEW r \in Req, Commit(r) PROVE pc'[a.by] # "idle"
    <2>1. CASE a \notin audit
      <3>1. a.by = r
        BY <1>2, <2>1, OccCommit DEF Record
      <3>2. pc[r] # "idle"
        BY <1>2 DEF Commit
      <3> QED
        BY <3>1, <3>2, HistoryKept DEF IInv
    <2> QED
      BY <1>1, <2>1
  <1>3. CASE UNCHANGED audit
    BY <1>1, <1>3
  <1> QED
    BY <1>2, <1>3, RowsWritten DEF Sweep

\* Every step keeps the audit trail replayable: a commit extends it by exactly the
\* entry of the new version, nothing else touches it.
LEMMA ReplayStep ==
  ASSUME "fields" \notin Kinds, IInv, OccInv, [Next]_vars
  PROVE  AuditReplay'
  <1> SUFFICES ASSUME NEW t \in Task PROVE Replays(t)'
    BY DEF AuditReplay
  <1>1. Replays(t) /\ rows[t] \in Row /\ \A a \in Trail(t) : a \in AuditRecord
    BY DEF IInv, OccInv, AuditReplay, TypeOK, Trail
  <1> DEFINE Entered(a, T) ==
               IF a.action = "CREATE"
               THEN a.after.ver = 1
               ELSE /\ \E b \in T : b.after = a.before /\ a.before.ver < a.after.ver
                    /\ Informed(a.by) => a.after.ver = a.before.ver + 1
  <1>0. \A a \in Trail(t) : (Informed(a.by) <=> Informed(a.by)') /\ Entered(a, Trail(t))
    <2>1. \A a \in Trail(t) : a.by \in Req /\ pc[a.by] # "idle"
      BY <1>1 DEF AuditRecord, OccInv, AuthorInv, Trail
    <2>2. \A a \in Trail(t) : arg'[a.by] = arg[a.by]
      BY <2>1, HistoryKept DEF IInv
    <2> QED
      BY <1>1, <2>2 DEF Informed, Replays
  <1>2. ASSUME Trail(t)' = Trail(t), ViewOf(rows'[t]) = ViewOf(rows[t]),
               rows'[t].ver = rows[t].ver,
               rows[t].state = "absent" <=> rows'[t].state = "absent"
        PROVE  Replays(t)'
    BY <1>0, <1>1, <1>2 DEF Replays
  <1>3. CASE UNCHANGED <<rows, audit>>
    BY <1>2, <1>3 DEF Trail
  <1>4. ASSUME NEW r \in Req, Commit(r) PROVE Replays(t)'
    <2>1. CASE t # arg[r].task
      <3>1. Trail(t)' = Trail(t)
        BY <1>4, <2>1, OccCommit DEF Trail, Record
      <3>2. rows'[t] = rows[t]
        BY <1>4, <2>1, CommitFacts DEF IInv
      <3> QED
        BY <1>2, <3>1, <3>2
    <2>2. CASE t = arg[r].task /\ arg[r].kind = "create"
      <3> DEFINE e == Record(r, "CREATE", NoView, ViewOf(rows'[t]))
      <3>1. /\ Trail(t) = {} /\ rows'[t].ver = 1
            /\ audit' = audit \cup {e}
        BY <1>4, <2>2, OccCommit
      <3>2. /\ e.task = t /\ e.action = "CREATE" /\ e.after = ViewOf(rows'[t])
            /\ e.after.ver = 1
        BY <2>2, <3>1 DEF Record, ViewOf
      <3> HIDE DEF e
      <3>3. Trail(t)' = {e}
        BY <3>1, <3>2 DEF Trail
      <3> QED
        BY <3>1, <3>2, <3>3 DEF Replays
    <2>3. CASE t = arg[r].task /\ arg[r].kind = "status"
      <3> DEFINE e == Record(r, "UPDATE", obj[r], ViewOf(rows'[t]))
      <3>1. /\ rows[t].ver = arg[r].exp /\ rows'[t].ver = arg[r].exp + 1
            /\ obj[r].ver <= arg[r].exp /\ \E a \in Trail(t) : a.after = obj[r]
            /\ Informed(r) => obj[r].ver = arg[r].exp
            /\ audit' = audit \cup {e}
            /\ arg[r].exp \in Nat /\ obj[r].ver \in Nat
        BY <1>4, <2>3, OccCommit DEF IInv, TypeOK, View
      <3>2. /\ e.task = t /\ e.action = "UPDATE" /\ e.after = ViewOf(rows'[t]) /\ e.by = r
            /\ e.before = obj[r] /\ e.after.ver = arg[r].exp + 1
        BY <2>3, <3>1 DEF Record, ViewOf
      <3> HIDE DEF e
      <3>3. Trail(t)' = Trail(t) \cup {e}
        BY <3>1, <3>2 DEF Trail
      <3>4. \A a \in Trail(t) : a.after.ver \in 1..arg[r].exp
        BY <1>1, <3>1 DEF Replays
      <3>5. \A a \in Trail(t)' : a.after.ver \in 1..rows'[t].ver
        BY <3>1, <3>2, <3>3, <3>4
      <3>6. \A a, b \in Trail(t)' : a.after.ver = b.after.ver => a = b
        BY <1>1, <3>1, <3>2, <3>3, <3>4 DEF Replays
      <3>7. \A v \in 1..rows'[t].ver : \E a \in Trail(t)' : a.after.ver = v
        <4> SUFFICES ASSUME NEW v \in 1..rows'[t].ver
                     PROVE  \E a \in Trail(t)' : a.after.ver = v
          OBVIOUS
        <4>1. CASE v = arg[r].exp + 1
          BY <3>2, <3>3, <4>1
        <4>2. CASE v # arg[r].exp + 1
          <5>1. v \in 1..rows[t].ver
            BY <3>1, <4>2
          <5> QED
            BY <1>1, <3>3, <5>1 DEF Replays
        <4> QED
          BY <4>1, <4>2
      <3>8. \A a \in Trail(t)' :
               IF a.action = "CREATE"
               THEN a.after.ver = 1
               ELSE /\ \E b \in Trail(t)' : b.after = a.before /\ a.before.ver < a.after.ver
                    /\ arg'[a.by].exp <= arg'[a.by].had => a.after.ver = a.before.ver + 1
        <4>1. arg' = arg
          BY <1>4 DEF Commit
        <4>2. ASSUME NEW a \in Trail(t), a.action # "CREATE"
              PROVE  /\ \E b \in Trail(t)' : /\ b.after = a.before
                                             /\ a.before.ver < a.after.ver
                     /\ arg[a.by].exp <= arg[a.by].had => a.after.ver = a.before.ver + 1
          BY <1>1, <3>3, <4>2 DEF Replays, Informed
        <4>3. \A a \in Trail(t) : a.action = "CREATE" => a.after.ver = 1
          BY <1>1 DEF Replays
        <4>4. \E b \in Trail(t)' : b.after = e.before /\ e.before.ver < e.after.ver
          BY <3>1, <3>2, <3>3
        <4>5. arg[e.by].exp <= arg[e.by].had => e.after.ver = e.before.ver + 1
          BY <3>1, <3>2 DEF Informed
        <4> QED
          BY <3>2, <3>3, <4>1, <4>2, <4>3, <4>4, <4>5
      <3> QED
        BY <3>2, <3>3, <3>5, <3>6, <3>7, <3>8 DEF Replays, Informed
    <2>4. CASE t = arg[r].task /\ arg[r].kind = "delete"
      <3>1. /\ audit' = audit /\ rows[t].state = "live" /\ rows'[t].state = "deleted"
            /\ rows'[t].ver = rows[t].ver /\ rows'[t].status = rows[t].status
        BY <1>4, <2>4, OccCommit
      <3> QED
        BY <1>2, <3>1 DEF Trail, ViewOf
    <2> QED
      BY <1>4, <2>1, <2>2, <2>3, <2>4, OccCommit
  <1>5. CASE Sweep
    BY <1>2, <1>5, SweepFacts DEF IInv, Trail, ViewOf
  <1> QED
    BY <1>3, <1>4, <1>5, RowsWritten

\* Every step keeps what a status handler has read in the trail and between the
\* version that its request found and the current one.
LEMMA SeenStep ==
  ASSUME "fields" \notin Kinds, IInv, OccInv, [Next]_vars
  PROVE  SeenInv'
  <1> USE DEF IInv, OccInv, Goto, Answer
  <1> DEFINE Known(q) == /\ arg[q].had <= obj[q].ver
                         /\ obj[q].ver <= rows[arg[q].task].ver
                         /\ \E a \in Trail(arg[q].task) : a.after = obj[q]
             Seen(q) == arg[q].kind = "status" =>
                          /\ pc[q] = "select" => arg[q].had <= rows[arg[q].task].ver
                          /\ pc[q] \in {"update", "commit"} => Known(q)
  <1> SUFFICES ASSUME NEW q \in Req PROVE Seen(q)'
    BY DEF SeenInv
  <1>1. Seen(q)
    BY DEF SeenInv
  <1>2. /\ pc[q] # "idle" => arg[q].task \in Task
        /\ arg[q].had \in Nat /\ obj[q].ver \in Nat
        /\ \A t \in Task : rows[t].ver \in Nat /\ rows'[t].ver \in Nat
    BY TypeStep DEF TypeOK, View, Row
  \* A step of another handler: the row may only move on.
  <1>3. ASSUME arg'[q] = arg[q], obj'[q] = obj[q],
               \/ pc'[q] = pc[q]
               \/ pc[q] \in {"update", "commit"} /\ pc'[q] = "commit"
               \/ pc'[q] \notin {"select", "update", "commit"}
        PROVE  Seen(q)'
    <2>1. CASE pc'[q] \notin {"select", "update", "commit"}
      BY <2>1
    <2>2. CASE pc'[q] = "select" /\ pc[q] = "select" /\ arg[q].kind = "status"
      BY <1>1, <1>2, <1>3, <2>2, OccMonotone
    <2>3. CASE /\ pc'[q] \in {"update", "commit"} /\ pc[q] \in {"update", "commit"}
               /\ arg[q].kind = "status"
      <3>1. arg[q].task \in Task /\ Known(q)
        BY <1>1, <1>2, <2>3
      <3>2. obj[q].ver <= rows'[arg[q].task].ver
        BY <1>2, <3>1, OccMonotone
      <3>3. PICK a \in Trail(arg[q].task) : a.after = obj[q]
        BY <3>1
      <3>4. a \in Trail(arg[q].task)'
        BY <1>3, <3>1, <3>3, OccMonotone DEF Trail
      <3> QED
        BY <1>3, <2>3, <3>1, <3>2, <3>3, <3>4
    <2> QED
      BY <1>3, <2>1, <2>2, <2>3
  <1>4. ASSUME NEW r \in Req, NEW t \in Task, CreateTask(r, t) PROVE Seen(q)'
    <2>1. q = r => arg'[q].kind = "create"
      BY <1>4 DEF CreateTask, TypeOK
    <2>2. q # r => arg'[q] = arg[q] /\ obj'[q] = obj[q] /\ pc'[q] = pc[q]
      BY <1>4 DEF CreateTask, TypeOK
    <2> QED
      BY <1>3, <2>1, <2>2
  <1>5. ASSUME NEW r \in Req, NEW t \in Task,
               PatchStatus(r, t) \/ PatchFields(r, t) \/ DeleteTask(r, t)
        PROVE  Seen(q)'
    <2>1. PICK kind \in {"status", "fields", "delete"}, exp \in Nat, s \in Status :
             Receive(r, kind, t, exp, s)
      BY <1>5, ReceiveFacts
    <2>2. q = r => /\ pc'[q] = "select" /\ arg'[q].task = t /\ arg'[q].had = rows[t].ver
                   /\ rows' = rows
      BY <2>1 DEF Receive, TypeOK
    <2>3. q # r => arg'[q] = arg[q] /\ obj'[q] = obj[q] /\ pc'[q] = pc[q]
      BY <2>1 DEF Receive, TypeOK
    <2> QED
      BY <1>2, <1>3, <2>1, <2>2, <2>3
  <1>6. ASSUME NEW r \in Req, Select(r) PROVE Seen(q)'
    <2>1. arg' = arg /\ rows' = rows /\ audit' = audit /\ pc[r] = "select"
      BY <1>6 DEF Select
    <2>2. \/ arg'[q] = arg[q] /\ obj'[q] = obj[q] /\ pc'[q] = pc[q]
          \/ arg'[q] = arg[q] /\ obj'[q] = obj[q] /\ pc'[q] = "done"
          \/ /\ q = r /\ Visible(arg[q].task)
             /\ obj'[q] = ViewOf(rows[arg[q].task]) /\ pc'[q] = "update"
      BY <1>6 DEF Select, TypeOK
    <2>3. CASE /\ q = r /\ Visible(arg[q].task) /\ arg[q].kind = "status"
               /\ obj'[q] = ViewOf(rows[arg[q].task]) /\ pc'[q] = "update"
      <3>1. arg[q].task \in Task /\ arg[q].had <= rows[arg[q].task].ver
        BY <1>1, <1>2, <2>1, <2>3
      <3>2. \E a \in Trail(arg[q].task) : a.after = ViewOf(rows[arg[q].task])
        BY <2>3, <3>1 DEF AuditReplay, Replays, Visible
      <3>3. obj'[q].ver = rows[arg[q].task].ver
        BY <2>3 DEF ViewOf
      <3>4. Trail(arg[q].task)' = Trail(arg[q].task)
        BY <2>1 DEF Trail
      <3> QED
        BY <1>2, <2>1, <2>3, <3>1, <3>2, <3>3, <3>4
    <2> QED
      BY <1>3, <2>1, <2>2, <2>3
  <1>7. ASSUME NEW r \in Req, Update(r) PROVE Seen(q)'
    BY <1>3, <1>7 DEF Update, TypeOK
  <1>8. ASSUME NEW r \in Req, Commit(r) PROVE Seen(q)'
    <2>1. q = r => pc'[q] \notin {"select", "update", "commit"}
      <3>1. \E l \in {"refresh", "broadcast"} : pc' = [pc EXCEPT ![r] = l]
        BY <1>8, CommitFacts
      <3> QED
        BY <3>1 DEF TypeOK
    <2>2. q # r => arg'[q] = arg[q] /\ obj'[q] = obj[q] /\ pc'[q] = pc[q]
      BY <1>8, CommitFacts DEF TypeOK
    <2> QED
      BY <1>3, <2>1, <2>2
  <1>9. ASSUME NEW r \in Req, Refresh(r) PROVE Seen(q)'
    <2>1. q = r => pc'[q] \notin {"select", "update", "commit"}
      BY <1>9 DEF Refresh, TypeOK
    <2>2. q # r => arg'[q] = arg[q] /\ obj'[q] = obj[q] /\ pc'[q] = pc[q]
      BY <1>9 DEF Refresh, TypeOK
    <2> QED
      BY <1>3, <2>1, <2>2
  <1>10. ASSUME NEW r \in Req, Broadcast(r) \/ Fail(r) PROVE Seen(q)'
    BY <1>3, <1>10 DEF Broadcast, Fail, TypeOK
  <1>11. CASE Sweep \/ UNCHANGED vars
    BY <1>3, <1>11 DEF Sweep, vars
  <1> QED
    BY <1>4, <1>5, <1>6, <1>7, <1>8, <1>9, <1>10, <1>11 DEF Next, Step, Quiet

\* Every step keeps the entry of each status PATCH that was applied.
LEMMA AppliedStep ==
  ASSUME "fields" \notin Kinds, IInv, OccInv, [Next]_vars
  PROVE  AppliedInv'
  <1> USE DEF IInv, OccInv, Goto, Answer
  <1> DEFINE Applied(q) == arg[q].kind = "status" /\ (pc[q] = "broadcast" \/ out[q] = 200)
  <1> SUFFICES ASSUME NEW q \in Req, Applied(q)'
               PROVE  \E a \in audit' : /\ a.task = arg'[q].task /\ a.by = q
                                        /\ a.after.ver = arg'[q].exp + 1
    BY DEF AppliedInv
  <1>1. ASSUME Applied(q), arg'[q] = arg[q]
        PROVE  \E a \in audit' : /\ a.task = arg'[q].task /\ a.by = q
                                 /\ a.after.ver = arg'[q].exp + 1
    BY <1>1, HistoryKept DEF AppliedInv
  <1>2. ASSUME Commit(q)
        PROVE  \E a \in audit' : /\ a.task = arg'[q].task /\ a.by = q
                                 /\ a.after.ver = arg'[q].exp + 1
    <2> DEFINE e == Record(q, "UPDATE", obj[q], ViewOf(rows'[arg[q].task]))
    <2>1. arg' = arg /\ arg[q].kind = "status"
      BY <1>2, CommitFacts
    <2>2. e \in audit' /\ rows'[arg[q].task].ver = arg[q].exp + 1
      BY <1>2, <2>1, OccCommit
    <2>3. e.task = arg[q].task /\ e.by = q /\ e.after.ver = arg[q].exp + 1
      BY <2>2 DEF Record, ViewOf
    <2> HIDE DEF e
    <2> QED
      BY <2>1, <2>2, <2>3
  <1>3. ASSUME NEW r \in Req, NEW t \in Task, CreateTask(r, t)
        PROVE  Applied(q) /\ arg'[q] = arg[q]
    BY <1>3 DEF CreateTask, TypeOK
  <1>4. ASSUME NEW r \in Req, NEW t \in Task,
               PatchStatus(r, t) \/ PatchFields(r, t) \/ DeleteTask(r, t)
        PROVE  Applied(q) /\ arg'[q] = arg[q]
    <2>1. PICK kind \in {"status", "fields", "delete"}, exp \in Nat, s \in Status :
             Receive(r, kind, t, exp, s)
      BY <1>4, ReceiveFacts
    <2>2. out[r] = None
      BY <2>1 DEF Receive, FlowInv
    <2> QED
      BY <2>1, <2>2, ConstantsAssumption DEF Receive, TypeOK, Codes
  <1>5. ASSUME NEW r \in Req, Select(r) PROVE Applied(q) /\ arg'[q] = arg[q]
    BY <1>5 DEF Select, TypeOK
  <1>6. ASSUME NEW r \in Req, Update(r) PROVE Applied(q) /\ arg'[q] = arg[q]
    <2>1. NoMatchCode(r) # 200
      BY DEF NoMatchCode
    <2> QED
      BY <1>6, <2>1 DEF Update, TypeOK
  <1>7. ASSUME NEW r \in Req, Commit(r), r # q PROVE Applied(q) /\ arg'[q] = arg[q]
    BY <1>7, CommitFacts DEF TypeOK
  <1>8. ASSUME NEW r \in Req, Refresh(r) PROVE Applied(q) /\ arg'[q] = arg[q]
    BY <1>8 DEF Refresh, FlowInv, TypeOK
  <1>9. ASSUME NEW r \in Req, Broadcast(r) PROVE Applied(q) /\ arg'[q] = arg[q]
    BY <1>9 DEF Broadcast, TypeOK
  <1>10. ASSUME NEW r \in Req, Fail(r) PROVE Applied(q) /\ arg'[q] = arg[q]
    BY <1>10 DEF Fail, TypeOK
  <1>11. CASE Sweep \/ UNCHANGED vars
    BY <1>1, <1>11 DEF Sweep, vars
  <1> QED
    BY <1>1, <1>2, <1>3, <1>4, <1>5, <1>6, <1>7, <1>8, <1>9, <1>10, <1>11
    DEF Next, Step, Quiet

\* Where the field path is not in use, the trail follows the versions.
THEOREM OccInvariance ==
  ASSUME "fields" \notin Kinds
  PROVE  Spec => [](IInv /\ OccInv)
  <1>1. IInv /\ OccInv /\ [Next]_vars => (IInv /\ OccInv)'
    <2> SUFFICES ASSUME IInv, OccInv, [Next]_vars PROVE IInv' /\ OccInv'
      OBVIOUS
    <2> QED
      BY InvStep, SeenStep, AppliedStep, AbsentStep, AuthorStep, ReplayStep DEF OccInv
  <1> QED
    BY <1>1, InvInit, OccInit, PTL DEF Spec

\* Where the field path is not in use, of any number of PATCH requests with the
\* same expected version at most one succeeds.
THEOREM OneWinnerOcc ==
  ASSUME "fields" \notin Kinds
  PROVE  Spec => []OneWinner
  <1>1. IInv /\ OccInv => OneWinner
    <2> SUFFICES ASSUME IInv, OccInv, NEW p \in Req, NEW q \in Req,
                        out[p] = 200, out[q] = 200,
                        arg[p].task = arg[q].task, arg[p].exp = arg[q].exp
                 PROVE  p = q
      BY DEF OneWinner
    <2>1. /\ arg[p].kind = "status" /\ arg[q].kind = "status"
          /\ arg[p].task \in Task
      <3>1. pc[p] = "done" /\ pc[q] = "done"
        BY ConstantsAssumption DEF IInv, FlowInv, Codes
      <3> QED
        BY <3>1 DEF IInv, FlowInv, TypeOK
    <2>2. PICK a \in audit : /\ a.task = arg[p].task /\ a.by = p
                             /\ a.after.ver = arg[p].exp + 1
      BY <2>1 DEF OccInv, AppliedInv
    <2>3. PICK b \in audit : /\ b.task = arg[q].task /\ b.by = q
                             /\ b.after.ver = arg[q].exp + 1
      BY <2>1 DEF OccInv, AppliedInv
    <2>4. a = b
      BY <2>1, <2>2, <2>3 DEF OccInv, AuditReplay, Replays, Trail
    <2> QED
      BY <2>2, <2>3, <2>4
  <1> QED
    BY <1>1, OccInvariance, PTL

\* Where the field path is not in use, the audit trail of every task replays to
\* the task, and a before_state is out of date only where the client named a version
\* that the task did not have yet.
THEOREM AuditReplays ==
  ASSUME "fields" \notin Kinds
  PROVE  Spec => []AuditReplay
  <1>1. OccInv => AuditReplay
    BY DEF OccInv
  <1> QED
    BY <1>1, OccInvariance, PTL

----------------------------------------------------------------------------
(* The handlers implement the abstract store.                              *)

\* Each step of the handlers is a step of the abstract store or leaves it alone.
LEMMA AbstractStep ==
  ASSUME "fields" \notin Kinds, IInv, OccInv, [Next]_vars
  PROVE  [Abstract!ANext]_<<rows, audit>>
  <1>1. ASSUME NEW r \in Req, Commit(r) PROVE Abstract!ANext
    <2> DEFINE t == arg[r].task
    <2>1. /\ t \in Task /\ rows[t] \in Row /\ rows'[t] \in Row
          /\ rows' = [rows EXCEPT ![t] = rows'[t]]
      <3>1. rows' \in [Task -> Row] /\ rows \in [Task -> Row]
        BY TypeStep DEF IInv, TypeOK
      <3> QED
        BY <1>1, <3>1, CommitFacts DEF IInv
    <2>2. CASE arg[r].kind = "create"
      <3>1. rows'[t] = [state |-> "live", ver |-> 1, status |-> Backlog]
        BY <1>1, <2>1, <2>2, CommittedRow DEF IInv, Row
      <3>2. rows[t].state = "absent"
        BY <1>1, <2>2, OccCommit
      <3>3. audit' = audit \cup {Abstract!Entry(t, r, "CREATE", Abstract!NoView,
                                               Abstract!ViewOf(rows'[t]))}
        BY <1>1, <2>2, OccCommit
        DEF Record, NoView, ViewOf, Abstract!Entry, Abstract!NoView, Abstract!ViewOf
      <3>4. Abstract!Create(t)
        BY <2>1, <3>1, <3>2, <3>3 DEF Abstract!Create
      <3> QED
        BY <2>1, <3>4 DEF Abstract!ANext
    <2>3. CASE arg[r].kind = "status"
      <3>1. /\ rows[t].state = "live" /\ rows'[t].state = "live"
            /\ rows[t].ver = arg[r].exp /\ rows'[t].ver = rows[t].ver + 1
            /\ rows'[t].status = arg[r].status /\ arg[r].status \in Status
        BY <1>1, <2>3, OccCommit, CommittedRow DEF IInv, TypeOK
      <3>2. rows'[t] = [state |-> "live", ver |-> rows[t].ver + 1, status |-> arg[r].status]
        BY <2>1, <3>1 DEF Row
      <3>3. obj[r] \in Abstract!Past(t)
        BY <1>1, <2>3, OccCommit DEF Trail, Abstract!Past
      <3>4. audit' = audit \cup {Abstract!Entry(t, r, "UPDATE", obj[r],
                                               Abstract!ViewOf(rows'[t]))}
        BY <1>1, <2>3, OccCommit DEF Record, ViewOf, Abstract!Entry, Abstract!ViewOf
      <3>5. Abstract!SetStatus(t, arg[r].status)
        BY <2>1, <3>1, <3>2, <3>3, <3>4 DEF Abstract!SetStatus
      <3> QED
        BY <2>1, <3>1, <3>5 DEF Abstract!ANext
    <2>4. CASE arg[r].kind = "delete"
      <3>1. /\ rows[t].state = "live" /\ rows'[t].state = "deleted" /\ audit' = audit
            /\ rows'[t].ver = rows[t].ver /\ rows'[t].status = rows[t].status
        BY <1>1, <2>4, OccCommit
      <3>2. rows'[t] = [rows[t] EXCEPT !.state = "deleted"]
        BY <2>1, <3>1 DEF Row
      <3>3. Abstract!SoftDelete(t)
        BY <2>1, <3>1, <3>2 DEF Abstract!SoftDelete
      <3> QED
        BY <2>1, <3>3 DEF Abstract!ANext
    <2> QED
      BY <1>1, <2>2, <2>3, <2>4, OccCommit
  <1>2. CASE Sweep
    BY <1>2 DEF Sweep, Swept, Abstract!ANext, Abstract!Purge
  <1>3. CASE UNCHANGED <<rows, audit>>
    BY <1>3
  <1> QED
    BY <1>1, <1>2, <1>3, RowsWritten

\* Where the field path is not in use, every behaviour of the handlers is one of
\* the abstract store.
THEOREM Refinement ==
  ASSUME "fields" \notin Kinds
  PROVE  Spec => ImplementsVersionedTask
  <1>1. Init => Abstract!AInit
    BY DEF Init, Abstract!AInit
  <1>2. IInv /\ OccInv /\ [Next]_vars => [Abstract!ANext]_<<rows, audit>>
    BY AbstractStep
  <1> QED
    BY <1>1, <1>2, OccInvariance, PTL
    DEF Spec, ImplementsVersionedTask, Abstract!ASpec, Abstract!avars
=============================================================================
