----------------------------- MODULE Discussion -----------------------------
(***************************************************************************)
(* Comments and attachments ("notes") of tasks, while the tasks are being  *)
(* soft-deleted and purged.  A note refers to its task by a foreign key    *)
(* with ON DELETE CASCADE.  Each step ends where a handler awaits;         *)
(* PostgreSQL runs at READ COMMITTED (see TaskStore): the INSERT of a note *)
(* locks its task against deletion of the row, not against the UPDATE of a *)
(* soft delete.                                                            *)
(***************************************************************************)
EXTENDS Naturals, Sequences

CONSTANTS Req,    \* handler invocations, each used once
          Task,   \* task ids
          Note,   \* comment and attachment ids
          User,   \* members of the organization
          Admins, \* those of them with role ADMIN or OWNER
          None

ASSUME ConstantsAssumption ==
  /\ Admins \subseteq User
  /\ None \notin Req \cup Task \cup Note \cup User \cup {200, 201, 403, 404, 500}

VARIABLES
  tasks,   \* the tasks table: live, deleted or purged
  notes,   \* the comments and attachments tables
  lock,    \* the request whose open transaction has written the note, or None
  pc,      \* the statement each request is about to run
  arg,     \* the request: handler, task of the path, user, note
  out,     \* the HTTP status answered, None before
  events   \* what was published to the project's channel, in order

vars == <<tasks, notes, lock, pc, arg, out, events>>

NoNote == [st |-> "absent", kind |-> "none", task |-> None, author |-> None, text |-> None]

NoArg == [kind |-> "none", task |-> None, user |-> None, note |-> None]

Init ==
  /\ tasks = [t \in Task |-> "live"]
  /\ notes = [n \in Note |-> NoNote]
  /\ lock = [n \in Note |-> None]
  /\ pc = [r \in Req |-> "idle"]
  /\ arg = [r \in Req |-> NoArg]
  /\ out = [r \in Req |-> None]
  /\ events = <<>>

Goto(r, label) == pc' = [pc EXCEPT ![r] = label]

Answer(r, code) ==
  /\ Goto(r, "done")
  /\ out' = [out EXCEPT ![r] = code]

Start(r, label, a) ==
  /\ pc[r] = "idle"
  /\ arg' = [arg EXCEPT ![r] = a]
  /\ Goto(r, label)
  /\ UNCHANGED <<tasks, notes, lock, out, events>>

----------------------------------------------------------------------------
(* POST /tasks/{id}/comments and POST /tasks/{id}/attachments *)

CreateComment(r, t, u) ==
  Start(r, "select", [NoArg EXCEPT !.kind = "comment", !.task = t, !.user = u])

ConfirmAttachment(r, t, u) ==
  Start(r, "select", [NoArg EXCEPT !.kind = "attachment", !.task = t, !.user = u])

\* task_repo.get_by_id and its 404.
SelectTask(r) ==
  /\ pc[r] = "select"
  /\ IF tasks[arg[r].task] = "live" THEN Goto(r, "insert") /\ UNCHANGED out
                                    ELSE Answer(r, 404)
  /\ UNCHANGED <<tasks, notes, lock, arg, events>>

NoForeignKey(t) == TRUE

\* The foreign key on tasks.id: the row exists, soft-deleted or not.
ForeignKey(t) == tasks[t] # "purged"

InsertUncommitted(r) ==
  /\ pc[r] = "insert"
  /\ \E n \in Note :
        /\ notes[n].st = "absent" /\ lock[n] = None
        /\ arg' = [arg EXCEPT ![r].note = n]
  /\ Goto(r, "lookup")
  /\ UNCHANGED <<tasks, notes, lock, out, events>>

\* The INSERT with a fresh uuid; a violated foreign key is an IntegrityError that
\* no handler maps.
Insert(r) ==
  /\ pc[r] = "insert"
  /\ \/ /\ ~ForeignKey(arg[r].task)
        /\ Answer(r, 500)
        /\ UNCHANGED <<lock, arg>>
     \/ /\ ForeignKey(arg[r].task)
        /\ \E n \in Note :
              /\ notes[n].st = "absent" /\ lock[n] = None
              /\ lock' = [lock EXCEPT ![n] = r]
              /\ arg' = [arg EXCEPT ![r].note = n]
        /\ Goto(r, "commit")
        /\ UNCHANGED out
  /\ UNCHANGED <<tasks, notes, events>>

----------------------------------------------------------------------------
(* PATCH /tasks/{id}/comments/{id}: the path's task is not compared with   *)
(* the comment's.                                                          *)

UpdateComment(r, n, t, u) ==
  /\ notes[n].st # "absent"
  /\ Start(r, "find", [kind |-> "edit", task |-> t, user |-> u, note |-> n])

\* The author, and every admin and owner.
MayEdit(r) == arg[r].user = notes[arg[r].note].author \/ arg[r].user \in Admins

\* comment_repo.get_by_id, the 404 and the 403.
FindComment(r) ==
  LET n == notes[arg[r].note]
      found == n.st = "present" /\ n.kind = "comment"
  IN /\ pc[r] = "find"
     /\ \/ ~found /\ Answer(r, 404)
        \/ found /\ ~MayEdit(r) /\ Answer(r, 403)
        \/ found /\ MayEdit(r) /\ Goto(r, "flush") /\ UNCHANGED out
     /\ UNCHANGED <<tasks, notes, lock, arg, events>>

\* The flush: UPDATE ... WHERE id = n, after the transaction that has the row
\* locked; StaleDataError when the row has gone.
Flush(r) ==
  LET n == arg[r].note
  IN /\ pc[r] = "flush"
     /\ \/ /\ notes[n].st # "present"
           /\ Answer(r, 500)
           /\ UNCHANGED lock
        \/ /\ notes[n].st = "present" /\ lock[n] = None
           /\ lock' = [lock EXCEPT ![n] = r]
           /\ Goto(r, "commit")
           /\ UNCHANGED out
     /\ UNCHANGED <<tasks, notes, arg, events>>

----------------------------------------------------------------------------
(* The end of the three handlers.                                          *)

AttachmentForgotten(r, note) ==
  IF arg[r].kind = "edit"
  THEN [note EXCEPT !.text = r]
  ELSE IF arg[r].kind = "attachment"
  THEN note
  ELSE [st |-> "present", kind |-> arg[r].kind, task |-> arg[r].task,
        author |-> arg[r].user, text |-> r]

\* The note as the transaction has written it.  The text stands for the content.
Written(r, note) ==
  IF arg[r].kind = "edit"
  THEN [note EXCEPT !.text = r]
  ELSE [st |-> "present", kind |-> arg[r].kind, task |-> arg[r].task,
        author |-> arg[r].user, text |-> r]

Commit(r) ==
  LET n == arg[r].note
  IN /\ pc[r] = "commit"
     /\ notes' = [notes EXCEPT ![n] = Written(r, @)]
     /\ lock' = [lock EXCEPT ![n] = None]
     /\ Goto(r, IF arg[r].kind = "attachment" THEN "presign" ELSE "lookup")
     /\ UNCHANGED <<tasks, arg, out, events>>

SuccessCode(r) == IF arg[r].kind = "edit" THEN 200 ELSE 201

\* The endpoint reads the task of the path again; without it there is no event.
Lookup(r) ==
  /\ pc[r] = "lookup"
  /\ IF tasks[arg[r].task] = "live" THEN Goto(r, "publish") /\ UNCHANGED out
                                    ELSE Answer(r, SuccessCode(r))
  /\ UNCHANGED <<tasks, notes, lock, arg, events>>

EventOf(r) ==
  [type |-> IF arg[r].kind = "edit" THEN "COMMENT_UPDATED" ELSE "COMMENT_ADDED",
   task |-> arg[r].task, note |-> arg[r].note, text |-> r]

\* broadcast_to_room swallows every error of the publish.
Publish(r) ==
  /\ pc[r] = "publish"
  /\ events' = Append(events, EventOf(r)) \/ UNCHANGED events
  /\ Answer(r, SuccessCode(r))
  /\ UNCHANGED <<tasks, notes, lock, arg>>

\* The download URL of the new attachment.
Presign(r) ==
  /\ pc[r] = "presign"
  /\ Answer(r, SuccessCode(r))
  /\ UNCHANGED <<tasks, notes, lock, arg, events>>

InProgress(r) == pc[r] \notin {"idle", "done"}

LockKept(r) == lock

Unlocked(r) == [n \in Note |-> IF lock[n] = r THEN None ELSE lock[n]]

\* A database or storage error, or the loss of the node: an open transaction is
\* rolled back, a committed one stays.
Fail(r) ==
  /\ InProgress(r)
  /\ lock' = Unlocked(r)
  /\ Answer(r, 500)
  /\ UNCHANGED <<tasks, notes, arg, events>>

----------------------------------------------------------------------------

\* The commit of DELETE /tasks/{id} (TaskStore has its steps).
SoftDelete(t) ==
  /\ tasks[t] = "live"
  /\ tasks' = [tasks EXCEPT ![t] = "deleted"]
  /\ UNCHANGED <<notes, lock, pc, arg, out, events>>

\* An open transaction has a key-share lock on the task or has locked a note of it.
Referenced(t) ==
  \/ \E r \in Req : pc[r] = "commit" /\ arg[r].kind # "edit" /\ arg[r].task = t
  \/ \E n \in Note : notes[n].task = t /\ lock[n] # None

CascadeComments(old, S) ==
  [n \in Note |-> IF old[n].task \in S /\ old[n].kind = "comment"
                  THEN [old[n] EXCEPT !.st = "gone"] ELSE old[n]]

\* ON DELETE CASCADE of both tables.
Cascade(old, S) ==
  [n \in Note |-> IF old[n].task \in S THEN [old[n] EXCEPT !.st = "gone"] ELSE old[n]]

\* cleanup_soft_deleted_tasks_job: any of the soft-deleted tasks may be old enough.
\* The DELETE waits for the transactions that hold on to its rows.
Sweep ==
  \E S \in SUBSET {t \in Task : tasks[t] = "deleted" /\ ~Referenced(t)} :
     /\ S # {}
     /\ tasks' = [t \in Task |-> IF t \in S THEN "purged" ELSE tasks[t]]
     /\ notes' = Cascade(notes, S)
     /\ UNCHANGED <<lock, pc, arg, out, events>>

\* No request in progress: the server waits for the next one.
Quiet ==
  /\ \A r \in Req : ~InProgress(r)
  /\ UNCHANGED vars

Step(r) ==
  \/ SelectTask(r) \/ Insert(r) \/ FindComment(r) \/ Flush(r) \/ Commit(r)
  \/ Lookup(r) \/ Publish(r) \/ Presign(r)

Next ==
  \/ \E r \in Req, t \in Task, u \in User :
        CreateComment(r, t, u) \/ ConfirmAttachment(r, t, u)
          \/ \E n \in Note : UpdateComment(r, n, t, u)
  \/ \E r \in Req : Step(r) \/ Fail(r)
  \/ \E t \in Task : SoftDelete(t)
  \/ Sweep
  \/ Quiet

Spec == Init /\ [][Next]_vars

\* Handlers that can proceed do, and the retention job runs every day.
FairSpec == Spec /\ WF_vars(Sweep) /\ \A r \in Req : WF_vars(Step(r))

----------------------------------------------------------------------------
(* Properties.                                                             *)

NoteRow == [st : {"absent", "present", "gone"}, kind : {"none", "comment", "attachment"},
            task : Task \cup {None}, author : User \cup {None}, text : Req \cup {None}]

Arg == [kind : {"none", "comment", "attachment", "edit"}, task : Task \cup {None},
        user : User \cup {None}, note : Note \cup {None}]

Event == [type : {"COMMENT_ADDED", "COMMENT_UPDATED"}, task : Task, note : Note, text : Req]

\* Every variable has its type, and a request is done exactly when it is answered.
TypeOK ==
  /\ tasks \in [Task -> {"live", "deleted", "purged"}]
  /\ notes \in [Note -> NoteRow]
  /\ lock \in [Note -> Req \cup {None}]
  /\ pc \in [Req -> {"idle", "select", "insert", "find", "flush", "commit", "lookup",
                     "publish", "presign", "done"}]
  /\ arg \in [Req -> Arg]
  /\ events \in Seq(Event)
  /\ out \in [Req -> {None, 200, 201, 403, 404, 500}]
  /\ \A r \in Req : pc[r] = "done" <=> out[r] # None
  /\ \A n \in Note : lock[n] # None => pc[lock[n]] = "commit" /\ arg[lock[n]].note = n

Present(n) == notes[n].st = "present"

\* No comment or attachment outlives the row of its task, however its handler and
\* the retention job interleave (add_comment, confirm_attachment, foreign keys).
NoOrphan == \A n \in Note : Present(n) => tasks[notes[n].task] # "purged"

\* A 201 is kept: the note is there, with the author and the task of the request,
\* until its task is purged (add_comment, confirm_attachment).
Acknowledged ==
  \A r \in Req : out[r] = 201 =>
     LET n == notes[arg[r].note]
     IN /\ n.st = "present" \/ tasks[arg[r].task] = "purged"
        /\ n.author = arg[r].user /\ n.task = arg[r].task

\* COMMENT_ADDED and COMMENT_UPDATED tell only of changes that were committed, by
\* somebody who may make them: the comment exists or has been purged, and the user is
\* its author, an admin or an owner, also when the task was deleted or the comment
\* edited by others meanwhile (create_comment, update_comment).
EventCommitted ==
  \A i \in DOMAIN events :
     LET e == events[i]
         n == notes[e.note]
     IN /\ n.st # "absent" /\ n.kind = "comment"
        /\ arg[e.text].user \in Admins \cup {n.author}
        /\ e.type = "COMMENT_ADDED" => n.task = e.task

\* What was said about a deleted task disappears with it, comments that arrived
\* after the delete included (cleanup_soft_deleted_tasks_job, ON DELETE CASCADE).
PurgedEventually ==
  \A t \in Task : tasks[t] = "deleted" ~>
     (tasks[t] = "purged" /\ \A n \in Note : Present(n) => notes[n].task # t)
=============================================================================
