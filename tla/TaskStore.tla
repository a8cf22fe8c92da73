----------------------------- MODULE TaskStore -----------------------------
(***************************************************************************)
(* Tasks under concurrent requests.  Every HTTP handler that changes a     *)
(* task runs as a coroutine with its own database session; between two     *)
(* awaits any other handler, on this or on another API node, or the        *)
(* retention job may run.  The model has one step per database statement,  *)
(* commit or publish, which is where the handlers await.                   *)
(*                                                                         *)
(* PostgreSQL runs these transactions at READ COMMITTED: a SELECT reads    *)
(* the last committed row and takes no lock; an UPDATE evaluates its WHERE *)
(* on the last committed row, skips the row when it does not match, and    *)
(* otherwise waits for the transaction that has the row locked and         *)
(* evaluates the WHERE again.                                              *)
(***************************************************************************)
EXTENDS Naturals, Sequences

CONSTANTS Req,      \* handler invocations, each used once
          Task,     \* task ids
          Status,   \* TaskStatus
          Backlog,  \* TaskStatus.BACKLOG
          Kinds,    \* the handlers in use
          MaxExpected,  \* the largest expected_version sent (a bound of the model)
          None

AllKinds == {"create", "status", "fields", "delete"}

Codes == {200, 201, 204, 404, 409, 500}

ASSUME ConstantsAssumption ==
  /\ Backlog \in Status
  /\ None \notin Req \cup Task \cup Codes
  /\ Kinds \subseteq AllKinds
  /\ MaxExpected \in Nat

VARIABLES
  rows,    \* the committed tasks table
  lock,    \* the request whose open transaction has written the row, or None
  pc,      \* the statement each request is about to run
  arg,     \* the request: handler, task, expected_version and new status; and, for
           \* the properties, the version that the task had when the request came
  obj,     \* version and status of the ORM object the handler holds
  out,     \* the HTTP status answered, None before
  audit,   \* the committed audit_logs rows about tasks
  events   \* what was published to the project's channel, in order

vars == <<rows, lock, pc, arg, obj, out, audit, events>>

Row == [state : {"absent", "live", "deleted", "purged"}, ver : Nat, status : Status]

View == [ver : Nat, status : Status]

NoView == [ver |-> 0, status |-> Backlog]

NoArg == [kind |-> "none", task |-> None, exp |-> 0, status |-> Backlog, had |-> 0]

Labels == {"idle", "select", "update", "commit", "refresh", "broadcast", "done"}

ViewOf(row) == [ver |-> row.ver, status |-> row.status]

----------------------------------------------------------------------------

Init ==
  /\ rows = [t \in Task |-> [state |-> "absent", ver |-> 0, status |-> Backlog]]
  /\ lock = [t \in Task |-> None]
  /\ pc = [r \in Req |-> "idle"]
  /\ arg = [r \in Req |-> NoArg]
  /\ obj = [r \in Req |-> NoView]
  /\ out = [r \in Req |-> None]
  /\ audit = {}
  /\ events = <<>>

Goto(r, label) == pc' = [pc EXCEPT ![r] = label]

\* The handler ends with this HTTP status.
Answer(r, code) ==
  /\ Goto(r, "done")
  /\ out' = [out EXCEPT ![r] = code]

\* The repository filters every read and every conditional write with
\* is_deleted = false; a purged row is gone from the table.
Visible(t) == rows[t].state = "live"

----------------------------------------------------------------------------
(* The requests.  An expected_version is any positive number: one that a     *)
(* response or an event has told the client, an old one, or one that the     *)
(* task has yet to reach, as from a client that sends two updates in a row.  *)

Expected == 1..MaxExpected

\* POST /tasks: a fresh uuid, inserted and flushed in an open transaction.
CreateTask(r, t) ==
  /\ pc[r] = "idle" /\ "create" \in Kinds
  /\ rows[t].state = "absent" /\ lock[t] = None
  /\ lock' = [lock EXCEPT ![t] = r]
  /\ arg' = [arg EXCEPT ![r] = [kind |-> "create", task |-> t, exp |-> 0,
                                status |-> Backlog, had |-> 0]]
  /\ Goto(r, "commit")
  /\ UNCHANGED <<rows, obj, out, audit, events>>

Receive(r, kind, t, exp, status) ==
  /\ pc[r] = "idle" /\ kind \in Kinds
  /\ rows[t].state # "absent"
  /\ arg' = [arg EXCEPT ![r] = [kind |-> kind, task |-> t, exp |-> exp,
                                status |-> status, had |-> rows[t].ver]]
  /\ Goto(r, "select")
  /\ UNCHANGED <<rows, lock, obj, out, audit, events>>

\* PATCH /tasks/{id} with a status: the service's OCC path.
PatchStatus(r, t) ==
  \E exp \in Expected, s \in Status : Receive(r, "status", t, exp, s)

\* PATCH /tasks/{id} without a status: the endpoint edits the ORM object.
PatchFields(r, t) ==
  \E exp \in Expected : Receive(r, "fields", t, exp, Backlog)

\* DELETE /tasks/{id}
DeleteTask(r, t) == Receive(r, "delete", t, 0, Backlog)

----------------------------------------------------------------------------
(* The steps of a handler.                                                 *)

\* The version check of the field path, made on the object just read.
VersionChecked(r, row) == arg[r].kind = "fields" => row.ver = arg[r].exp

\* get_by_id, the 404, and for the field path the comparison of versions.
Select(r) ==
  LET t == arg[r].task
  IN /\ pc[r] = "select"
     /\ \/ /\ ~Visible(t)
           /\ Answer(r, 404)
           /\ UNCHANGED obj
        \/ /\ Visible(t) /\ ~VersionChecked(r, rows[t])
           /\ Answer(r, 409)
           /\ UNCHANGED obj
        \/ /\ Visible(t) /\ VersionChecked(r, rows[t])
           /\ obj' = [obj EXCEPT ![r] = ViewOf(rows[t])]
           /\ Goto(r, "update")
           /\ UNCHANGED out
     /\ UNCHANGED <<rows, lock, arg, audit, events>>

MatchesAnyVersion(r, row) ==
  \/ arg[r].kind = "status" /\ row.state = "live"
  \/ arg[r].kind = "delete" /\ row.state = "live"
  \/ arg[r].kind = "fields" /\ row.state # "purged"

MatchesDeleted(r, row) ==
  \/ arg[r].kind = "status" /\ row.state # "purged" /\ row.ver = arg[r].exp
  \/ arg[r].kind = "delete" /\ row.state # "purged"
  \/ arg[r].kind = "fields" /\ row.state # "purged"

\* The WHERE of the handler's UPDATE.  The unit of work flushes the field
\* path's object with the primary key only.
Matches(r, row) ==
  \/ arg[r].kind = "status" /\ row.state = "live" /\ row.ver = arg[r].exp
  \/ arg[r].kind = "delete" /\ row.state = "live"
  \/ arg[r].kind = "fields" /\ row.state # "purged"

\* No row updated: EntityConflict, EntityNotFound, or SQLAlchemy's
\* StaleDataError, which no handler maps.
NoMatchCode(r) ==
  CASE arg[r].kind = "status" -> 409
    [] arg[r].kind = "delete" -> 404
    [] OTHER -> 500

LockIgnored(t) == TRUE

\* The UPDATE waits for the transaction that has the row locked.
LockFree(t) == lock[t] = None

Update(r) ==
  LET t == arg[r].task
  IN /\ pc[r] = "update"
     /\ \/ /\ ~Matches(r, rows[t])
           /\ Answer(r, NoMatchCode(r))
           /\ UNCHANGED lock
        \/ /\ Matches(r, rows[t]) /\ LockFree(t)
           /\ lock' = [lock EXCEPT ![t] = r]
           /\ Goto(r, "commit")
           /\ UNCHANGED out
     /\ UNCHANGED <<rows, arg, obj, audit, events>>

\* The row as the transaction has written it.
Written(r, row) ==
  CASE arg[r].kind = "create" -> [state |-> "live", ver |-> 1, status |-> Backlog]
    [] arg[r].kind = "status" -> [row EXCEPT !.ver = arg[r].exp + 1,
                                             !.status = arg[r].status]
    [] arg[r].kind = "fields" -> [row EXCEPT !.ver = obj[r].ver + 1]
    [] OTHER -> [row EXCEPT !.state = "deleted"]

Record(r, action, before, after) ==
  [task |-> arg[r].task, by |-> r, action |-> action,
   before |-> before, after |-> after]

AuditOfAfter(r, new) ==
  CASE arg[r].kind = "create" -> {Record(r, "CREATE", NoView, ViewOf(new))}
    [] arg[r].kind = "status" -> {Record(r, "UPDATE", ViewOf(new), ViewOf(new))}
    [] OTHER -> {}

AuditOfNone(r, new) ==
  IF arg[r].kind = "create" THEN {Record(r, "CREATE", NoView, ViewOf(new))} ELSE {}

\* The audit row added to the same transaction.  before_state is what the
\* SELECT returned, not what the UPDATE replaced; the CREATE row leaves out
\* the version, which the insert fixes at 1.
AuditOf(r, new) ==
  CASE arg[r].kind = "create" -> {Record(r, "CREATE", NoView, ViewOf(new))}
    [] arg[r].kind = "status" -> {Record(r, "UPDATE", obj[r], ViewOf(new))}
    [] OTHER -> {}

\* COMMIT: the row and its audit entry appear together, the lock goes.
Commit(r) ==
  LET t   == arg[r].task
      new == Written(r, rows[t])
  IN /\ pc[r] = "commit"
     /\ rows' = [rows EXCEPT ![t] = new]
     /\ audit' = audit \cup AuditOf(r, new)
     /\ lock' = [lock EXCEPT ![t] = None]
     /\ obj' = [obj EXCEPT ![r] = ViewOf(new)]
     /\ Goto(r, IF arg[r].kind = "fields" THEN "refresh" ELSE "broadcast")
     /\ UNCHANGED <<arg, out, events>>

\* The field path re-reads its row by primary key after the commit.
Refresh(r) ==
  LET t == arg[r].task
  IN /\ pc[r] = "refresh"
     /\ \/ /\ rows[t].state = "purged"
           /\ Answer(r, 500)
           /\ UNCHANGED obj
        \/ /\ rows[t].state # "purged"
           /\ obj' = [obj EXCEPT ![r] = ViewOf(rows[t])]
           /\ Goto(r, "broadcast")
           /\ UNCHANGED out
     /\ UNCHANGED <<rows, lock, arg, audit, events>>

\* The message published to the project's room.  TASK_UPDATED carries the
\* version, TASK_CREATED and a status update the status, TASK_DELETED only
\* the id.
EventOf(r) ==
  [type |-> CASE arg[r].kind = "create" -> "TASK_CREATED"
              [] arg[r].kind = "delete" -> "TASK_DELETED"
              [] OTHER -> "TASK_UPDATED",
   task |-> arg[r].task, by |-> r, view |-> obj[r]]

SuccessCodeNone(r) == IF arg[r].kind = "create" THEN 201 ELSE None

SuccessCode(r) ==
  CASE arg[r].kind = "create" -> 201
    [] arg[r].kind = "delete" -> 204
    [] OTHER -> 200

\* broadcast_to_room swallows every error of the publish; the handler then
\* returns.
Broadcast(r) ==
  /\ pc[r] = "broadcast"
  /\ \/ events' = Append(events, EventOf(r))
     \/ UNCHANGED events
  /\ Answer(r, SuccessCode(r))
  /\ UNCHANGED <<rows, lock, arg, obj, audit>>

InProgress(r) == pc[r] \notin {"idle", "done"}

LockKept(r) == lock

\* Closing the session rolls the transaction back.
Unlocked(r) == [t \in Task |-> IF lock[t] = r THEN None ELSE lock[t]]

\* A database error at any statement, or the loss of the node: what was not
\* committed is rolled back, what was committed stays, the client sees a 500
\* or a broken connection.
Fail(r) ==
  /\ InProgress(r)
  /\ lock' = Unlocked(r)
  /\ Answer(r, 500)
  /\ UNCHANGED <<rows, arg, obj, audit, events>>

----------------------------------------------------------------------------

SweptAny(t) == lock[t] = None

\* The rows that the retention job's DELETE can remove.
Swept(t) == rows[t].state = "deleted" /\ lock[t] = None

\* cleanup_soft_deleted_tasks_job.  The age limit is a parameter of the job:
\* any of the soft-deleted rows may be old enough.
Sweep ==
  \E S \in SUBSET {t \in Task : Swept(t)} :
     /\ S # {}
     /\ rows' = [t \in Task |-> IF t \in S THEN [rows[t] EXCEPT !.state = "purged"]
                                           ELSE rows[t]]
     /\ UNCHANGED <<lock, pc, arg, obj, out, audit, events>>

\* No request in progress: the server waits for the next one.
Quiet ==
  /\ \A r \in Req : ~InProgress(r)
  /\ UNCHANGED vars

Step(r) == Select(r) \/ Update(r) \/ Commit(r) \/ Refresh(r) \/ Broadcast(r)

Next ==
  \/ \E r \in Req, t \in Task :
        CreateTask(r, t) \/ PatchStatus(r, t) \/ PatchFields(r, t) \/ DeleteTask(r, t)
  \/ \E r \in Req : Step(r) \/ Fail(r)
  \/ Sweep
  \/ Quiet

Spec == Init /\ [][Next]_vars

\* The event loop and the database keep running every handler that can
\* proceed; nothing makes a client send a request or a node fail.
FairSpec == Spec /\ \A r \in Req : WF_vars(Step(r))

----------------------------------------------------------------------------
(* Properties.                                                             *)

AuditRecord == [task : Task, by : Req, action : {"CREATE", "UPDATE"},
                before : View, after : View]

Event == [type : {"TASK_CREATED", "TASK_UPDATED", "TASK_DELETED"},
          task : Task, by : Req, view : View]

\* Every variable has its type, a request that reached a handler names a task,
\* and a handler that is done has answered with one of the handlers' codes.
TypeOK ==
  /\ rows \in [Task -> Row]
  /\ lock \in [Task -> Req \cup {None}]
  /\ pc \in [Req -> Labels]
  /\ arg \in [Req -> [kind : AllKinds \cup {"none"}, task : Task \cup {None},
                      exp : Nat, status : Status, had : Nat]]
  /\ obj \in [Req -> View]
  /\ out \in [Req -> Codes \cup {None}]
  /\ audit \subseteq AuditRecord
  /\ events \in Seq(Event)
  /\ \A r \in Req : /\ pc[r] # "idle" => arg[r].task \in Task /\ arg[r].kind # "none"
                    /\ pc[r] = "done" => out[r] \in Codes

\* DELETE answers 204 to at most one of any number of concurrent requests for
\* a task: the soft delete's UPDATE matches only a live row (base.py:100-112).
DeletedOnce ==
  \A p, q \in Req :
     /\ arg[p].kind = "delete" /\ out[p] = 204
     /\ arg[q].kind = "delete" /\ out[q] = 204
     /\ arg[p].task = arg[q].task
     => p = q

\* Of the PATCH requests sent with the same expected_version for a task at
\* most one is answered 200 (update_task).
OneWinner ==
  \A p, q \in Req :
     /\ out[p] = 200 /\ out[q] = 200
     /\ arg[p].task = arg[q].task /\ arg[p].exp = arg[q].exp
     => p = q

\* The stored status changes only by a status PATCH, only on a live task, from
\* exactly the version that the client named and to the next one
\* (update_task_status_occ).
StatusFromExpected ==
  [][\A t \in Task :
        rows[t].state # "absent" /\ rows'[t].status # rows[t].status =>
          /\ rows[t].state = "live"
          /\ rows'[t].ver = rows[t].ver + 1
          /\ \E r \in Req : /\ arg[r].kind = "status" /\ arg[r].task = t
                            /\ arg[r].exp = rows[t].ver
                            /\ arg[r].status = rows'[t].status]_vars

Gone(t) == rows[t].state \in {"deleted", "purged"}

\* A soft-deleted task never comes back and keeps its status, whatever was in
\* flight when it was deleted: a handler that read it before the delete cannot
\* undo the delete, and only a deleted task is ever purged.
TombstoneFinal ==
  [][\A t \in Task :
        /\ Gone(t) => Gone(t)' /\ rows'[t].status = rows[t].status
        /\ rows[t].state = "purged" => rows'[t].state = "purged"
        /\ rows'[t].state = "purged" => Gone(t)]_vars

Trail(t) == {a \in audit : a.task = t}

\* The request named a version that the task already had when it came.
Informed(r) == arg[r].exp <= arg[r].had

\* Replaying the after_states of a task's trail gives the task: one entry for each
\* version from the creation to the current one, the last one equal to the row.  A
\* before_state is what an earlier entry left, and what the entry just before it
\* left if the client named a version that the task had.
Replays(t) ==
  /\ rows[t].state # "absent" => \E a \in Trail(t) : a.after = ViewOf(rows[t])
  /\ \A a \in Trail(t) : a.after.ver \in 1..rows[t].ver
  /\ \A v \in 1..rows[t].ver : \E a \in Trail(t) : a.after.ver = v
  /\ \A a, b \in Trail(t) : a.after.ver = b.after.ver => a = b
  /\ \A a \in Trail(t) :
        IF a.action = "CREATE"
        THEN a.after.ver = 1
        ELSE /\ \E b \in Trail(t) : b.after = a.before /\ a.before.ver < a.after.ver
             /\ Informed(a.by) => a.after.ver = a.before.ver + 1

\* Replays for every task, at every moment (create_task, update_task_status_occ):
\* an audit entry commits with its change or not at all, and only a client that
\* names a version in advance can make the before_state, which comes from the SELECT,
\* an older one than the UPDATE replaces.
AuditReplay == \A t \in Task : Replays(t)

\* A subscriber is never told of a change that did not commit: TASK_CREATED and
\* the TASK_UPDATED of a status change repeat a committed audit entry, and
\* TASK_DELETED names a task that is gone.
EventTruthful ==
  \A i \in DOMAIN events :
     LET e == events[i]
     IN /\ e.type = "TASK_DELETED" => Gone(e.task)
        /\ e.type = "TASK_CREATED" \/ arg[e.by].kind = "status" =>
             \E a \in Trail(e.task) : a.by = e.by /\ a.after = e.view

\* Every request that reaches a handler is answered, also when it waits for the
\* row lock of another transaction and that one fails.
Answered == \A r \in Req : InProgress(r) ~> pc[r] = "done"

Abstract == INSTANCE VersionedTask WITH Actor <- Req, journal <- audit

\* Without the field path the handlers implement the abstract store: each commit
\* is one change of the row with its journal entry, everything else a stutter.
ImplementsVersionedTask == Abstract!ASpec
=============================================================================
