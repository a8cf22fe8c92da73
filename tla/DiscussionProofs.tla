-------------------------- MODULE DiscussionProofs --------------------------
(***************************************************************************)
(* Theorems about Discussion, for any number of requests, tasks, notes and *)
(* users.                                                                  *)
(***************************************************************************)
EXTENDS Discussion, TLAPS

----------------------------------------------------------------------------
(* The inductive invariant.                                                *)

\* What a request names, and which handler can be at which statement.
FlowInv ==
  \A r \in Req :
     /\ pc[r] # "idle" => arg[r].kind # "none" /\ arg[r].task \in Task /\ arg[r].user \in User
     /\ arg[r].kind = "edit" => arg[r].note \in Note
     /\ pc[r] \in {"select", "insert"} => arg[r].kind # "edit"
     /\ pc[r] \in {"find", "flush"} => arg[r].kind = "edit"
     /\ pc[r] \in {"lookup", "publish"} => arg[r].kind # "attachment"
     /\ pc[r] \in {"commit", "lookup", "publish", "presign"} => arg[r].note \in Note
     /\ pc[r] = "presign" => arg[r].kind = "attachment"
     /\ out[r] = 201 => arg[r].kind # "edit" /\ arg[r].note \in Note

\* A transaction that is about to commit has the lock of its note.
LockInv == \A r \in Req : pc[r] = "commit" => lock[arg[r].note] = r

\* A note that was never committed refers to no task; every other refers to one, and
\* is gone only with it.
NoteInv ==
  \A n \in Note :
     /\ notes[n].st = "absent" => notes[n].task = None
     /\ notes[n].st # "absent" => notes[n].task \in Task /\ notes[n].kind # "none"
     /\ notes[n].st = "gone" => tasks[notes[n].task] = "purged"

\* The row that an open INSERT adds is not there yet, its task is.
Inserting(r) == pc[r] = "commit" /\ arg[r].kind # "edit"

InsertInv ==
  \A r \in Req : Inserting(r) =>
     notes[arg[r].note].st = "absent" /\ tasks[arg[r].task] # "purged"

\* A handler that edits has found a comment that its user may edit; until it has the
\* lock the comment may go with its task.
Editing(r) == pc[r] = "flush" \/ (arg[r].kind = "edit" /\ pc[r] \in {"commit", "lookup", "publish"})

Permitted(r) == /\ notes[arg[r].note].st # "absent" /\ notes[arg[r].note].kind = "comment"
                /\ MayEdit(r)

EditInv ==
  \A r \in Req :
     /\ Editing(r) => Permitted(r)
     /\ pc[r] = "commit" /\ arg[r].kind = "edit" => notes[arg[r].note].st = "present"

\* A request that has committed an INSERT: its note is the one that it described.
Stored(r) == /\ arg[r].kind # "edit"
             /\ pc[r] \in {"lookup", "publish", "presign"} \/ out[r] = 201

StoredInv ==
  \A r \in Req : Stored(r) =>
     LET n == notes[arg[r].note]
     IN /\ n.st # "absent" /\ n.kind = arg[r].kind
        /\ n.author = arg[r].user /\ n.task = arg[r].task

\* An event comes from a request that has been answered, and tells what it did.
EventInv ==
  \A i \in DOMAIN events : pc[events[i].text] = "done"

IInv == /\ TypeOK /\ FlowInv /\ LockInv /\ NoteInv /\ InsertInv /\ EditInv
        /\ StoredInv /\ EventInv /\ NoOrphan /\ EventCommitted

----------------------------------------------------------------------------
(* What the handlers write.                                                *)

\* What Start does, for the three handlers.
LEMMA StartFacts ==
  ASSUME NEW r \in Req, NEW t \in Task, NEW u \in User,
         \/ CreateComment(r, t, u) \/ ConfirmAttachment(r, t, u)
         \/ \E n \in Note : UpdateComment(r, n, t, u)
  PROVE  \E a \in Arg, label \in {"select", "find"} :
            /\ Start(r, label, a)
            /\ a.task = t /\ a.user = u
            /\ \/ a.kind \in {"comment", "attachment"} /\ label = "select"
               \/ a.kind = "edit" /\ label = "find" /\ a.note \in Note
  <1>1. CASE CreateComment(r, t, u)
    <2> DEFINE a == [NoArg EXCEPT !.kind = "comment", !.task = t, !.user = u]
    <2>1. a \in Arg /\ a.kind = "comment" /\ a.task = t /\ a.user = u
      BY DEF NoArg, Arg
    <2>2. Start(r, "select", a)
      BY <1>1 DEF CreateComment
    <2> HIDE DEF a
    <2> QED
      BY <2>1, <2>2
  <1>2. CASE ConfirmAttachment(r, t, u)
    <2> DEFINE a == [NoArg EXCEPT !.kind = "attachment", !.task = t, !.user = u]
    <2>1. a \in Arg /\ a.kind = "attachment" /\ a.task = t /\ a.user = u
      BY DEF NoArg, Arg
    <2>2. Start(r, "select", a)
      BY <1>2 DEF ConfirmAttachment
    <2> HIDE DEF a
    <2> QED
      BY <2>1, <2>2
  <1>3. ASSUME NEW n \in Note, UpdateComment(r, n, t, u)
        PROVE  \E a \in Arg : /\ Start(r, "find", a) /\ a.task = t /\ a.user = u
                              /\ a.kind = "edit" /\ a.note \in Note
    <2> DEFINE a == [kind |-> "edit", task |-> t, user |-> u, note |-> n]
    <2>1. a \in Arg /\ a.kind = "edit" /\ a.task = t /\ a.user = u /\ a.note = n
      BY DEF Arg
    <2>2. Start(r, "find", a)
      BY <1>3 DEF UpdateComment
    <2> HIDE DEF a
    <2> QED
      BY <2>1, <2>2
  <1> QED
    BY <1>1, <1>2, <1>3

\* The note that a transaction leaves.
LEMMA WrittenFacts ==
  ASSUME NEW r \in Req, arg[r] \in Arg, NEW note \in NoteRow
  PROVE  LET new == Written(r, note)
         IN /\ arg[r].kind # "none" => new \in NoteRow
            /\ arg[r].kind # "edit" =>
                 /\ new.st = "present" /\ new.kind = arg[r].kind
                 /\ new.task = arg[r].task /\ new.author = arg[r].user
            /\ arg[r].kind = "edit" =>
                 /\ new.st = note.st /\ new.kind = note.kind
                 /\ new.task = note.task /\ new.author = note.author
  <1>1. CASE arg[r].kind = "edit"
    <2>1. Written(r, note) = [note EXCEPT !.text = r]
      BY <1>1 DEF Written
    <2> QED
      BY <1>1, <2>1 DEF NoteRow
  <1>2. CASE arg[r].kind # "edit"
    BY <1>2 DEF Written, Arg, NoteRow
  <1> QED
    BY <1>1, <1>2

\* What a commit does.
LEMMA CommitFacts ==
  ASSUME TypeOK, FlowInv, NEW r \in Req, Commit(r)
  PROVE  LET n == arg[r].note
         IN /\ pc[r] = "commit" /\ n \in Note
            /\ notes' = [notes EXCEPT ![n] = notes'[n]]
            /\ notes'[n] \in NoteRow
            /\ arg[r].kind # "edit" =>
                 /\ notes'[n].st = "present" /\ notes'[n].kind = arg[r].kind
                 /\ notes'[n].task = arg[r].task /\ notes'[n].author = arg[r].user
            /\ arg[r].kind = "edit" =>
                 /\ notes'[n].st = notes[n].st /\ notes'[n].kind = notes[n].kind
                 /\ notes'[n].task = notes[n].task /\ notes'[n].author = notes[n].author
            /\ lock' = [lock EXCEPT ![n] = None]
            /\ arg[r].kind = "attachment" => pc' = [pc EXCEPT ![r] = "presign"]
            /\ arg[r].kind # "attachment" => pc' = [pc EXCEPT ![r] = "lookup"]
            /\ UNCHANGED <<tasks, arg, out, events>>
  <1> DEFINE n == arg[r].note
             new == Written(r, notes[n])
  <1>1. n \in Note /\ arg[r] \in Arg /\ arg[r].kind # "none" /\ notes[n] \in NoteRow
    BY DEF Commit, FlowInv, TypeOK
  <1>2. /\ new \in NoteRow
        /\ arg[r].kind # "edit" =>
             /\ new.st = "present" /\ new.kind = arg[r].kind
             /\ new.task = arg[r].task /\ new.author = arg[r].user
        /\ arg[r].kind = "edit" =>
             /\ new.st = notes[n].st /\ new.kind = notes[n].kind
             /\ new.task = notes[n].task /\ new.author = notes[n].author
    BY <1>1, WrittenFacts
  <1>3. notes' = [notes EXCEPT ![n] = new]
    BY DEF Commit
  <1> HIDE DEF new
  <1>4. notes'[n] = new
    BY <1>1, <1>3 DEF TypeOK
  <1>5. notes' = [notes EXCEPT ![n] = notes'[n]]
    BY <1>3, <1>4
  <1>6. /\ pc[r] = "commit" /\ lock' = [lock EXCEPT ![n] = None]
        /\ arg[r].kind = "attachment" => pc' = [pc EXCEPT ![r] = "presign"]
        /\ arg[r].kind # "attachment" => pc' = [pc EXCEPT ![r] = "lookup"]
        /\ UNCHANGED <<tasks, arg, out, events>>
    BY DEF Commit, Goto
  <1> QED
    BY <1>1, <1>2, <1>4, <1>5, <1>6

\* What an INSERT does.
LEMMA InsertFacts ==
  ASSUME TypeOK, FlowInv, NEW r \in Req, Insert(r)
  PROVE  /\ UNCHANGED <<tasks, notes, events>>
         /\ pc[r] = "insert" /\ arg[r].kind # "edit" /\ arg' \in [Req -> Arg]
         /\ \A q \in Req \ {r} : arg'[q] = arg[q] /\ pc'[q] = pc[q] /\ out'[q] = out[q]
         /\ arg'[r].kind = arg[r].kind /\ arg'[r].task = arg[r].task /\ arg'[r].user = arg[r].user
         /\ \/ Answer(r, 500) /\ UNCHANGED <<lock, arg>>
            \/ /\ Goto(r, "commit") /\ UNCHANGED out
               /\ tasks[arg[r].task] # "purged"
               /\ arg'[r].note \in Note /\ notes[arg'[r].note].st = "absent"
               /\ lock[arg'[r].note] = None /\ lock' = [lock EXCEPT ![arg'[r].note] = r]
  <1>1. arg[r].kind # "edit"
    BY DEF Insert, FlowInv
  <1>2. CASE Answer(r, 500) /\ UNCHANGED <<lock, arg>>
    BY <1>1, <1>2 DEF Insert, Answer, Goto, TypeOK
  <1>3. ASSUME NEW n \in Note, notes[n].st = "absent", lock[n] = None, ForeignKey(arg[r].task),
               lock' = [lock EXCEPT ![n] = r], arg' = [arg EXCEPT ![r].note = n],
               Goto(r, "commit"), UNCHANGED out
        PROVE  /\ arg' \in [Req -> Arg]
               /\ \A q \in Req \ {r} : arg'[q] = arg[q] /\ pc'[q] = pc[q] /\ out'[q] = out[q]
               /\ arg'[r].kind = arg[r].kind /\ arg'[r].task = arg[r].task
               /\ arg'[r].user = arg[r].user /\ arg'[r].note = n
               /\ tasks[arg[r].task] # "purged"
    <2>1. arg' \in [Req -> Arg]
      <3> DEFINE b == [arg[r] EXCEPT !.note = n]
      <3>1. b \in Arg
        <4>1. arg[r] \in Arg
          BY DEF TypeOK
        <4> QED
          BY <4>1 DEF Arg
      <3>2. arg' = [arg EXCEPT ![r] = b]
        BY <1>3
      <3> HIDE DEF b
      <3> QED
        BY <3>1, <3>2 DEF TypeOK
    <2> QED
      BY <1>3, <2>1 DEF Goto, ForeignKey, TypeOK, Arg
  <1> QED
    BY <1>1, <1>2, <1>3 DEF Insert

\* What the retention job does.
LEMMA SweepFacts ==
  ASSUME TypeOK, Sweep
  PROVE  \E S \in SUBSET Task :
            /\ \A t \in S : tasks[t] = "deleted" /\ ~Referenced(t)
            /\ \A t \in Task : tasks'[t] = IF t \in S THEN "purged" ELSE tasks[t]
            /\ tasks' \in [Task -> {"live", "deleted", "purged"}]
            /\ notes' \in [Note -> NoteRow]
            /\ \A n \in Note :
                  /\ notes'[n].st = IF notes[n].task \in S THEN "gone" ELSE notes[n].st
                  /\ notes'[n].kind = notes[n].kind /\ notes'[n].task = notes[n].task
                  /\ notes'[n].author = notes[n].author
            /\ UNCHANGED <<lock, pc, arg, out, events>>
  <1>1. PICK S \in SUBSET {t \in Task : tasks[t] = "deleted" /\ ~Referenced(t)} :
          /\ tasks' = [t \in Task |-> IF t \in S THEN "purged" ELSE tasks[t]]
          /\ notes' = Cascade(notes, S)
          /\ UNCHANGED <<lock, pc, arg, out, events>>
    BY DEF Sweep
  <1>2. ASSUME NEW n \in Note
        PROVE  /\ notes'[n] \in NoteRow
               /\ notes'[n].st = IF notes[n].task \in S THEN "gone" ELSE notes[n].st
               /\ notes'[n].kind = notes[n].kind /\ notes'[n].task = notes[n].task
               /\ notes'[n].author = notes[n].author
    <2>1. notes[n] \in NoteRow
      BY DEF TypeOK
    <2>2. notes'[n] = IF notes[n].task \in S THEN [notes[n] EXCEPT !.st = "gone"] ELSE notes[n]
      BY <1>1 DEF Cascade
    <2> QED
      BY <2>1, <2>2 DEF NoteRow
  <1>3. notes' \in [Note -> NoteRow]
    BY <1>1, <1>2 DEF Cascade
  <1>4. tasks' \in [Task -> {"live", "deleted", "purged"}]
    BY <1>1 DEF TypeOK
  <1>5. /\ \A t \in S : tasks[t] = "deleted" /\ ~Referenced(t)
        /\ \A t \in Task : tasks'[t] = IF t \in S THEN "purged" ELSE tasks[t]
    BY <1>1
  <1>6. S \in SUBSET Task
    OBVIOUS
  <1> WITNESS S \in SUBSET Task
  <1> QED
    BY <1>1, <1>2, <1>3, <1>4, <1>5

----------------------------------------------------------------------------
(* Flow, locks and types.                                                  *)

\* The empty tables satisfy the invariant.
LEMMA InvInit == Init => IInv
  <1> SUFFICES ASSUME Init PROVE IInv
    OBVIOUS
  <1>1. NoNote \in NoteRow /\ NoArg \in Arg
    BY DEF NoNote, NoteRow, NoArg, Arg
  <1>2. TypeOK
    BY <1>1 DEF Init, TypeOK
  <1>3. FlowInv
    BY ConstantsAssumption DEF Init, FlowInv, NoArg
  <1>4. LockInv /\ InsertInv /\ EditInv /\ StoredInv
    BY ConstantsAssumption DEF Init, LockInv, InsertInv, Inserting, EditInv, Editing, StoredInv, Stored
  <1>5. NoteInv /\ NoOrphan
    BY DEF Init, NoNote, NoteInv, NoOrphan, Present
  <1>6. EventInv /\ EventCommitted
    BY DEF Init, EventInv, EventCommitted
  <1> QED
    BY <1>2, <1>3, <1>4, <1>5, <1>6 DEF IInv

\* Every step leaves the handlers where they can be.
LEMMA FlowStep == TypeOK /\ FlowInv /\ [Next]_vars => FlowInv'
  <1> SUFFICES ASSUME TypeOK, FlowInv, [Next]_vars PROVE FlowInv'
    OBVIOUS
  <1>1. ASSUME NEW r \in Req, NEW t \in Task, NEW u \in User,
               \/ CreateComment(r, t, u) \/ ConfirmAttachment(r, t, u)
               \/ \E n \in Note : UpdateComment(r, n, t, u)
        PROVE  FlowInv'
    <2>1. PICK a \in Arg, label \in {"select", "find"} :
            /\ Start(r, label, a)
            /\ a.task = t /\ a.user = u
            /\ \/ a.kind \in {"comment", "attachment"} /\ label = "select"
               \/ a.kind = "edit" /\ label = "find" /\ a.note \in Note
      BY <1>1, StartFacts
    <2>2. out'[r] # 201
      BY <2>1, ConstantsAssumption DEF Start, TypeOK
    <2> QED
      BY <2>1, <2>2 DEF Start, FlowInv, Goto, TypeOK
  <1>2. ASSUME NEW r \in Req, Insert(r) PROVE FlowInv'
    <2>1. \A q \in Req : out[q] = 201 => pc[q] = "done"
      BY ConstantsAssumption DEF FlowInv, TypeOK
    <2> QED
      BY <1>2, <2>1, InsertFacts DEF FlowInv, Goto, Answer, TypeOK
  <1>3. ASSUME NEW r \in Req, SelectTask(r) \/ FindComment(r) PROVE FlowInv'
    BY <1>3 DEF SelectTask, FindComment, FlowInv, Goto, Answer, TypeOK
  <1>4. ASSUME NEW r \in Req, Flush(r) PROVE FlowInv'
    BY <1>4 DEF Flush, FlowInv, Goto, Answer, TypeOK
  <1>5. ASSUME NEW r \in Req, Commit(r) PROVE FlowInv'
    <2>1. arg[r].note \in Note /\ pc[r] = "commit" /\ arg' = arg /\ out' = out
      BY <1>5, CommitFacts
    <2>2. \/ arg[r].kind = "attachment" /\ pc' = [pc EXCEPT ![r] = "presign"]
          \/ arg[r].kind # "attachment" /\ pc' = [pc EXCEPT ![r] = "lookup"]
      BY <1>5, CommitFacts
    <2> QED
      BY <2>1, <2>2 DEF FlowInv, TypeOK
  <1>6. ASSUME NEW r \in Req, Lookup(r) \/ Publish(r) \/ Presign(r) PROVE FlowInv'
    BY <1>6 DEF Lookup, Publish, Presign, SuccessCode, FlowInv, Goto, Answer, TypeOK
  <1>7. ASSUME NEW r \in Req, Fail(r) PROVE FlowInv'
    BY <1>7 DEF Fail, InProgress, FlowInv, Goto, Answer, TypeOK
  <1>8. CASE UNCHANGED <<pc, arg, out>>
    BY <1>8 DEF FlowInv
  <1> QED
    BY <1>1, <1>2, <1>3, <1>4, <1>5, <1>6, <1>7, <1>8
    DEF Next, Step, Quiet, SoftDelete, Sweep, vars

\* The lock of a note is with the transaction that has written it: what TypeOK says
\* of locks.
HolderInv == \A n \in Note : lock[n] # None => pc[lock[n]] = "commit" /\ arg[lock[n]].note = n

\* Every step leaves the lock of a note with its transaction.
LEMMA LockStep == TypeOK /\ FlowInv /\ LockInv /\ [Next]_vars => LockInv' /\ HolderInv'
  <1> SUFFICES ASSUME TypeOK, FlowInv, LockInv, [Next]_vars PROVE LockInv' /\ HolderInv'
    OBVIOUS
  <1>0. /\ HolderInv /\ None \notin Req /\ lock \in [Note -> Req \cup {None}]
        /\ \A q \in Req : pc[q] = "commit" => arg[q].note \in Note /\ lock[arg[q].note] = q
    BY ConstantsAssumption DEF TypeOK, HolderInv, LockInv, FlowInv
  <1>1. ASSUME UNCHANGED lock, \A q \in Req : /\ pc'[q] = "commit" <=> pc[q] = "commit"
                                              /\ pc[q] = "commit" => arg'[q] = arg[q]
        PROVE  LockInv' /\ HolderInv'
    <2>1. LockInv'
      BY <1>1 DEF LockInv
    <2>2. HolderInv'
      BY <1>0, <1>1 DEF HolderInv
    <2> QED
      BY <2>1, <2>2
  <1>2. ASSUME NEW r \in Req, NEW t \in Task, NEW u \in User,
               \/ CreateComment(r, t, u) \/ ConfirmAttachment(r, t, u)
               \/ \E n \in Note : UpdateComment(r, n, t, u)
        PROVE  LockInv' /\ HolderInv'
    <2>1. PICK a \in Arg, label \in {"select", "find"} : Start(r, label, a)
      BY <1>2, StartFacts
    <2> QED
      BY <1>1, <2>1 DEF Start, Goto, TypeOK
  <1>3. ASSUME NEW r \in Req, NEW n \in Note, lock[n] = None, lock' = [lock EXCEPT ![n] = r],
               pc[r] # "commit", Goto(r, "commit"), arg'[r].note = n,
               \A q \in Req \ {r} : arg'[q] = arg[q]
        PROVE  LockInv' /\ HolderInv'
    <2>1. /\ pc'[r] = "commit" /\ \A q \in Req \ {r} : pc'[q] = pc[q]
          /\ lock'[n] = r /\ \A m \in Note \ {n} : lock'[m] = lock[m]
      BY <1>0, <1>3 DEF Goto, TypeOK
    <2>2. LockInv'
      BY <1>0, <1>3, <2>1 DEF LockInv
    <2>3. HolderInv'
      BY <1>0, <1>3, <2>1 DEF HolderInv
    <2> QED
      BY <2>2, <2>3
  <1>4. ASSUME NEW r \in Req, Insert(r) PROVE LockInv' /\ HolderInv'
    <2>1. CASE Answer(r, 500) /\ UNCHANGED <<lock, arg>>
      BY <1>1, <1>4, <2>1 DEF Insert, Answer, Goto, TypeOK
    <2>2. CASE ~UNCHANGED <<lock, arg>> \/ ~Answer(r, 500)
      BY <1>3, <1>4, <2>2, InsertFacts
    <2> QED
      BY <2>1, <2>2
  <1>5. ASSUME NEW r \in Req, Flush(r) PROVE LockInv' /\ HolderInv'
    <2>1. arg[r].note \in Note /\ pc[r] = "flush" /\ arg' = arg
      BY <1>5 DEF Flush, FlowInv
    <2>2. CASE Answer(r, 500) /\ UNCHANGED lock
      BY <1>1, <2>1, <2>2 DEF Answer, Goto, TypeOK
    <2>3. CASE Goto(r, "commit")
      <3>1. lock[arg[r].note] = None /\ lock' = [lock EXCEPT ![arg[r].note] = r]
        BY <1>5, <2>3, <2>1 DEF Flush, Answer, Goto, TypeOK
      <3> QED
        BY <1>3, <2>1, <2>3, <3>1
    <2> QED
      BY <1>5, <2>2, <2>3 DEF Flush
  <1>6. ASSUME NEW r \in Req, pc[r] = "commit", arg' = arg,
               \A q \in Req \ {r} : pc'[q] = pc[q], pc'[r] # "commit",
               lock' \in [Note -> Req \cup {None}],
               \A n \in Note : lock'[n] = IF n = arg[r].note THEN None ELSE lock[n]
        PROVE  LockInv' /\ HolderInv'
    <2>1. \A q \in Req \ {r} : pc[q] = "commit" => arg[q].note # arg[r].note
      BY <1>0, <1>6
    <2>2. LockInv'
      BY <1>0, <1>6, <2>1 DEF LockInv
    <2>3. \A n \in Note : lock'[n] # None => lock[n] = lock'[n] /\ lock[n] # r
      BY <1>0, <1>6 DEF HolderInv
    <2>4. HolderInv'
      BY <1>0, <1>6, <2>3 DEF HolderInv
    <2> QED
      BY <2>2, <2>4
  <1>7. ASSUME NEW r \in Req, Commit(r) PROVE LockInv' /\ HolderInv'
    <2>1. /\ pc[r] = "commit" /\ arg' = arg /\ lock' = [lock EXCEPT ![arg[r].note] = None]
          /\ pc' = [pc EXCEPT ![r] = "presign"] \/ pc' = [pc EXCEPT ![r] = "lookup"]
      BY <1>7, CommitFacts
    <2> QED
      BY <1>0, <1>6, <2>1 DEF TypeOK
  <1>8. ASSUME NEW r \in Req, Fail(r) PROVE LockInv' /\ HolderInv'
    <2>1. /\ \A q \in Req \ {r} : pc'[q] = pc[q]
          /\ pc'[r] = "done" /\ arg' = arg
          /\ lock' \in [Note -> Req \cup {None}]
          /\ \A n \in Note : lock'[n] = IF lock[n] = r THEN None ELSE lock[n]
      BY <1>0, <1>8 DEF Fail, Unlocked, Answer, Goto, TypeOK
    <2>2. CASE pc[r] = "commit"
      <3>1. \A n \in Note : lock[n] = r <=> n = arg[r].note
        BY <1>0, <2>2 DEF HolderInv
      <3> QED
        BY <1>6, <2>1, <2>2, <3>1
    <2>3. CASE pc[r] # "commit"
      <3>1. \A n \in Note : lock[n] # r
        BY <1>0, <2>3 DEF HolderInv
      <3>2. lock' = lock
        BY <1>0, <2>1, <3>1
      <3> QED
        BY <1>1, <2>1, <2>3, <3>2
    <2> QED
      BY <2>2, <2>3
  <1>9. ASSUME NEW r \in Req, \/ SelectTask(r) \/ FindComment(r) \/ Lookup(r) \/ Publish(r)
                              \/ Presign(r)
        PROVE  LockInv' /\ HolderInv'
    BY <1>1, <1>9 DEF SelectTask, FindComment, Lookup, Publish, Presign, Goto, Answer, TypeOK
  <1>10. CASE UNCHANGED <<lock, pc, arg>>
    BY <1>1, <1>10
  <1> QED
    BY <1>2, <1>4, <1>5, <1>7, <1>8, <1>9, <1>10
    DEF Next, Step, Quiet, SoftDelete, Sweep, vars

\* A handler that only moves on, or answers, leaves the state well typed.
LEMMA TypeMove ==
  ASSUME TypeOK, NEW r \in Req, pc[r] # "done",
         tasks' \in [Task -> {"live", "deleted", "purged"}], notes' \in [Note -> NoteRow],
         lock' \in [Note -> Req \cup {None}], arg' \in [Req -> Arg], events' \in Seq(Event),
         HolderInv',
         \/ /\ UNCHANGED out
            /\ \E label \in {"select", "insert", "find", "flush", "commit", "lookup",
                             "publish", "presign"} : Goto(r, label)
         \/ \E code \in {200, 201, 403, 404, 500} : Answer(r, code)
  PROVE  TypeOK'
  <1>1. CASE UNCHANGED out /\ \E label \in {"select", "insert", "find", "flush", "commit",
                                           "lookup", "publish", "presign"} : Goto(r, label)
    BY <1>1 DEF TypeOK, HolderInv, Goto
  <1>2. CASE \E code \in {200, 201, 403, 404, 500} : Answer(r, code)
    BY <1>2, ConstantsAssumption DEF TypeOK, HolderInv, Goto, Answer
  <1> QED
    BY <1>1, <1>2

\* Every step leaves the state well typed.
LEMMA TypeStep == TypeOK /\ FlowInv /\ LockInv /\ [Next]_vars => TypeOK'
  <1> SUFFICES ASSUME TypeOK, FlowInv, LockInv, [Next]_vars PROVE TypeOK'
    OBVIOUS
  <1>0. HolderInv'
    BY LockStep
  <1>1. ASSUME NEW r \in Req, NEW t \in Task, NEW u \in User,
               \/ CreateComment(r, t, u) \/ ConfirmAttachment(r, t, u)
               \/ \E n \in Note : UpdateComment(r, n, t, u)
        PROVE  TypeOK'
    <2>1. PICK a \in Arg, label \in {"select", "find"} : Start(r, label, a)
      BY <1>1, StartFacts
    <2>2. arg' \in [Req -> Arg]
      BY <2>1 DEF Start, TypeOK
    <2> QED
      BY <1>0, <2>1, <2>2, TypeMove DEF Start, TypeOK
  <1>2. ASSUME NEW r \in Req, Insert(r) PROVE TypeOK'
    <2>1. lock' \in [Note -> Req \cup {None}] /\ arg' \in [Req -> Arg]
      BY <1>2, InsertFacts DEF TypeOK
    <2>2. /\ pc[r] # "done" /\ UNCHANGED <<tasks, notes, events>>
          /\ Answer(r, 500) \/ (UNCHANGED out /\ Goto(r, "commit"))
      BY <1>2 DEF Insert
    <2> QED
      BY <1>0, <2>1, <2>2, TypeMove DEF TypeOK
  <1>3. ASSUME NEW r \in Req, SelectTask(r) \/ FindComment(r) \/ Lookup(r) \/ Presign(r)
        PROVE  TypeOK'
    BY <1>0, <1>3, TypeMove DEF SelectTask, FindComment, Lookup, Presign, SuccessCode, TypeOK
  <1>4. ASSUME NEW r \in Req, Publish(r) PROVE TypeOK'
    <2>1. EventOf(r) \in Event
      BY <1>4 DEF Publish, EventOf, Event, FlowInv
    <2>2. events' \in Seq(Event)
      <3>1. Append(events, EventOf(r)) \in Seq(Event)
        BY <2>1 DEF TypeOK
      <3> QED
        BY <1>4, <3>1 DEF Publish, TypeOK
    <2> QED
      BY <1>0, <1>4, <2>2, TypeMove DEF Publish, SuccessCode, TypeOK
  <1>5. ASSUME NEW r \in Req, Flush(r) PROVE TypeOK'
    <2>1. lock' \in [Note -> Req \cup {None}]
      BY <1>5 DEF Flush, TypeOK
    <2> QED
      BY <1>0, <1>5, <2>1, TypeMove DEF Flush, TypeOK
  <1>6. ASSUME NEW r \in Req, Commit(r) PROVE TypeOK'
    <2>1. notes' \in [Note -> NoteRow] /\ lock' \in [Note -> Req \cup {None}]
      <3>1. /\ notes' = [notes EXCEPT ![arg[r].note] = notes'[arg[r].note]]
            /\ notes'[arg[r].note] \in NoteRow
            /\ lock' = [lock EXCEPT ![arg[r].note] = None]
        BY <1>6, CommitFacts
      <3> DEFINE new == notes'[arg[r].note]
      <3> HIDE DEF new
      <3>2. notes' = [notes EXCEPT ![arg[r].note] = new] /\ new \in NoteRow
        BY <3>1 DEF new
      <3> QED
        BY <3>1, <3>2 DEF TypeOK
    <2> QED
      BY <1>0, <1>6, <2>1, TypeMove DEF Commit, TypeOK
  <1>7. ASSUME NEW r \in Req, Fail(r) PROVE TypeOK'
    <2>1. lock' \in [Note -> Req \cup {None}]
      BY <1>7 DEF Fail, Unlocked, TypeOK
    <2> QED
      BY <1>0, <1>7, <2>1, TypeMove DEF Fail, InProgress, TypeOK
  <1>8. ASSUME NEW t \in Task, SoftDelete(t) PROVE TypeOK'
    BY <1>8 DEF SoftDelete, TypeOK
  <1>9. CASE Sweep
    BY <1>9, SweepFacts DEF TypeOK
  <1>10. CASE UNCHANGED vars
    BY <1>10 DEF TypeOK, vars
  <1> QED
    BY <1>1, <1>2, <1>3, <1>4, <1>5, <1>6, <1>7, <1>8, <1>9, <1>10 DEF Next, Step, Quiet

----------------------------------------------------------------------------
(* The notes.                                                              *)

\* The steps that leave the notes alone: they purge no task, open no INSERT, store
\* nothing, and let a handler edit only what it has found.
Frame ==
  /\ UNCHANGED notes
  /\ \A t \in Task : tasks'[t] = "purged" <=> tasks[t] = "purged"
  /\ \A q \in Req :
        /\ Inserting(q)' => Inserting(q) /\ arg'[q] = arg[q]
        /\ Stored(q)' => Stored(q) /\ arg'[q] = arg[q]
        /\ Editing(q)' => (Editing(q) \/ Permitted(q)) /\ arg'[q] = arg[q]
        /\ pc'[q] = "commit" /\ arg'[q].kind = "edit" =>
             /\ arg'[q] = arg[q]
             /\ pc[q] = "commit" \/ notes[arg[q].note].st = "present"
        /\ pc[q] = "done" => pc'[q] = "done" /\ arg'[q] = arg[q]
  /\ \A i \in DOMAIN events' :
        \/ i \in DOMAIN events /\ events'[i] = events[i]
        \/ \E r \in Req : Publish(r) /\ events'[i] = EventOf(r)

\* Every step is one of them, an INSERT, a commit or a run of the retention job.
LEMMA StepCases ==
  ASSUME TypeOK, FlowInv, [Next]_vars
  PROVE  \/ \E r \in Req : Insert(r)
         \/ \E r \in Req : Commit(r)
         \/ Sweep
         \/ Frame
  <1>1. ASSUME NEW r \in Req, NEW t \in Task, NEW u \in User,
               \/ CreateComment(r, t, u) \/ ConfirmAttachment(r, t, u)
               \/ \E n \in Note : UpdateComment(r, n, t, u)
        PROVE  Frame
    <2>1. PICK a \in Arg, label \in {"select", "find"} : Start(r, label, a)
      BY <1>1, StartFacts
    <2>2. out[r] # 201
      BY <2>1, ConstantsAssumption DEF Start, TypeOK
    <2> QED
      BY <2>1, <2>2 DEF Start, Frame, Inserting, Stored, Editing, Goto, TypeOK
  <1>2. ASSUME NEW r \in Req, SelectTask(r) PROVE Frame
    BY <1>2, ConstantsAssumption
    DEF SelectTask, FlowInv, Frame, Inserting, Stored, Editing, Goto, Answer, TypeOK
  <1>3. ASSUME NEW r \in Req, FindComment(r) PROVE Frame
    BY <1>3, ConstantsAssumption
    DEF FindComment, FlowInv, Frame, Inserting, Stored, Editing, Permitted, Goto, Answer, TypeOK
  <1>4. ASSUME NEW r \in Req, Flush(r) PROVE Frame
    BY <1>4, ConstantsAssumption
    DEF Flush, FlowInv, Frame, Inserting, Stored, Editing, Goto, Answer, TypeOK
  <1>5. ASSUME NEW r \in Req, Lookup(r) \/ Presign(r) PROVE Frame
    BY <1>5, ConstantsAssumption
    DEF Lookup, Presign, SuccessCode, FlowInv, Frame, Inserting, Stored, Editing, Goto, Answer,
        TypeOK
  <1>6. ASSUME NEW r \in Req, Publish(r) PROVE Frame
    <2>1. \A q \in Req :
            /\ Inserting(q)' => Inserting(q) /\ arg'[q] = arg[q]
            /\ Stored(q)' => Stored(q) /\ arg'[q] = arg[q]
            /\ Editing(q)' => Editing(q) /\ arg'[q] = arg[q]
            /\ pc'[q] = "commit" => pc[q] = "commit" /\ arg'[q] = arg[q]
            /\ pc[q] = "done" => pc'[q] = "done" /\ arg'[q] = arg[q]
      BY <1>6 DEF Publish, SuccessCode, FlowInv, Inserting, Stored, Editing, Goto, Answer, TypeOK
    <2>2. \A i \in DOMAIN events' :
            \/ i \in DOMAIN events /\ events'[i] = events[i]
            \/ events'[i] = EventOf(r)
      <3>1. events \in Seq(Event)
        BY DEF TypeOK
      <3>2. CASE events' = Append(events, EventOf(r))
        <4> DEFINE e == EventOf(r)
        <4>1. e \in Event
          BY <1>6 DEF Publish, EventOf, Event, FlowInv
        <4> HIDE DEF e
        <4>2. events' = Append(events, e)
          BY <3>2 DEF e
        <4>3. \A i \in DOMAIN events' : \/ i \in DOMAIN events /\ events'[i] = events[i]
                                        \/ events'[i] = e
          BY <3>1, <4>1, <4>2
        <4> QED
          BY <4>3 DEF e
      <3> QED
        BY <1>6, <3>2 DEF Publish
    <2>3. UNCHANGED <<notes, tasks>>
      BY <1>6 DEF Publish
    <2> QED
      BY <1>6, <2>1, <2>2, <2>3 DEF Frame
  <1>7. ASSUME NEW r \in Req, Fail(r) PROVE Frame
    BY <1>7 DEF Fail, InProgress, Frame, Inserting, Stored, Editing, Goto, Answer, TypeOK
  <1>8. ASSUME NEW t \in Task, SoftDelete(t) PROVE Frame
    <2>1. \A x \in Task : tasks'[x] = "purged" <=> tasks[x] = "purged"
      BY <1>8 DEF SoftDelete, TypeOK
    <2> QED
      BY <1>8, <2>1 DEF SoftDelete, Frame, Inserting, Stored, Editing
  <1>9. CASE UNCHANGED vars
    BY <1>9 DEF Frame, Inserting, Stored, Editing, vars
  <1> QED
    BY <1>1, <1>2, <1>3, <1>4, <1>5, <1>6, <1>7, <1>8, <1>9 DEF Next, Step, Quiet

\* A note that was committed stays on record with its kind, task and author.
LEMMA NotesStay ==
  ASSUME TypeOK, FlowInv, InsertInv, [Next]_vars, NEW n \in Note, notes[n].st # "absent"
  PROVE  /\ notes'[n].st # "absent" /\ notes'[n].kind = notes[n].kind
         /\ notes'[n].task = notes[n].task /\ notes'[n].author = notes[n].author
  <1>1. CASE UNCHANGED notes
    BY <1>1
  <1>2. ASSUME NEW r \in Req, Commit(r)
        PROVE  /\ notes'[n].st # "absent" /\ notes'[n].kind = notes[n].kind
               /\ notes'[n].task = notes[n].task /\ notes'[n].author = notes[n].author
    <2>1. CASE arg[r].note # n
      BY <1>2, <2>1, CommitFacts DEF TypeOK
    <2>2. CASE arg[r].note = n
      BY <1>2, <2>2, CommitFacts DEF InsertInv, Inserting
    <2> QED
      BY <2>1, <2>2
  <1>3. CASE Sweep
    BY <1>3, SweepFacts
  <1> QED
    BY <1>1, <1>2, <1>3, StepCases DEF Frame, Insert

\* Every step leaves the notes with their tasks, and no orphan.
LEMMA NoteStep ==
  TypeOK /\ FlowInv /\ NoteInv /\ InsertInv /\ EditInv /\ NoOrphan /\ [Next]_vars
  => NoteInv' /\ NoOrphan'
  <1> SUFFICES ASSUME TypeOK, FlowInv, NoteInv, InsertInv, EditInv, NoOrphan, [Next]_vars
               PROVE  NoteInv' /\ NoOrphan'
    OBVIOUS
  <1>0. None \notin Task
    BY ConstantsAssumption
  <1>1. ASSUME UNCHANGED notes, \A t \in Task : tasks'[t] = "purged" <=> tasks[t] = "purged"
        PROVE  NoteInv' /\ NoOrphan'
    BY <1>1 DEF NoteInv, NoOrphan, Present
  <1>2. ASSUME NEW r \in Req, Commit(r) PROVE NoteInv' /\ NoOrphan'
    <2> DEFINE n == arg[r].note
    <2>1. /\ n \in Note /\ tasks' = tasks /\ \A m \in Note \ {n} : notes'[m] = notes[m]
          /\ arg[r].task \in Task /\ arg[r].kind # "none"
      BY <1>2, CommitFacts DEF TypeOK, FlowInv
    <2>2. /\ notes'[n].st = "present" /\ notes'[n].task \in Task /\ notes'[n].kind # "none"
          /\ tasks[notes'[n].task] # "purged"
      <3>1. CASE arg[r].kind # "edit"
        BY <1>2, <2>1, <3>1, CommitFacts DEF InsertInv, Inserting
      <3>2. CASE arg[r].kind = "edit"
        BY <1>2, <2>1, <3>2, CommitFacts DEF EditInv, NoteInv, NoOrphan, Present
      <3> QED
        BY <3>1, <3>2
    <2>3. NoteInv'
      BY <2>1, <2>2 DEF NoteInv
    <2>4. NoOrphan'
      BY <2>1, <2>2 DEF NoOrphan, Present
    <2> QED
      BY <2>3, <2>4
  <1>3. CASE Sweep
    <2>1. PICK S \in SUBSET Task :
            /\ \A t \in Task : tasks'[t] = IF t \in S THEN "purged" ELSE tasks[t]
            /\ \A n \in Note :
                  /\ notes'[n].st = IF notes[n].task \in S THEN "gone" ELSE notes[n].st
                  /\ notes'[n].kind = notes[n].kind /\ notes'[n].task = notes[n].task
      BY <1>3, SweepFacts
    <2>2. \A n \in Note : notes[n].st = "absent" => notes[n].task \notin S
      BY <1>0, <2>1 DEF NoteInv
    <2>3. NoteInv'
      BY <2>1, <2>2 DEF NoteInv
    <2>4. NoOrphan'
      BY <2>1, <2>2 DEF NoteInv, NoOrphan, Present
    <2> QED
      BY <2>3, <2>4
  <1> QED
    BY <1>1, <1>2, <1>3, StepCases DEF Frame, Insert

\* Every step leaves the open INSERTs with rows that are free and tasks that are not
\* purged: the retention job waits for them.
LEMMA InsertStep ==
  TypeOK /\ FlowInv /\ LockInv /\ NoteInv /\ InsertInv /\ [Next]_vars => InsertInv'
  <1> SUFFICES ASSUME TypeOK, FlowInv, LockInv, NoteInv, InsertInv, [Next]_vars
               PROVE  InsertInv'
    OBVIOUS
  <1>1. ASSUME NEW r \in Req, Insert(r) PROVE InsertInv'
    <2>1. \A q \in Req \ {r} : Inserting(q)' => Inserting(q) /\ arg'[q] = arg[q]
      BY <1>1, InsertFacts DEF Inserting
    <2>2. Inserting(r)' => notes[arg'[r].note].st = "absent" /\ tasks[arg'[r].task] # "purged"
      BY <1>1, InsertFacts DEF Inserting, Answer, Goto, TypeOK
    <2> QED
      BY <1>1, <2>1, <2>2, InsertFacts DEF InsertInv
  <1>2. ASSUME NEW r \in Req, Commit(r) PROVE InsertInv'
    <2>1. \A q \in Req : Inserting(q)' => q # r /\ Inserting(q)
      BY <1>2, CommitFacts DEF Inserting, TypeOK
    <2>2. /\ arg' = arg /\ tasks' = tasks /\ pc[r] = "commit"
          /\ \A m \in Note \ {arg[r].note} : notes'[m] = notes[m]
      BY <1>2, CommitFacts DEF TypeOK
    <2>3. \A q \in Req : Inserting(q)' => arg[q].note \in Note \ {arg[r].note}
      BY <2>1, <2>2 DEF Inserting, LockInv, FlowInv
    <2> QED
      BY <2>1, <2>2, <2>3 DEF InsertInv
  <1>3. CASE Sweep
    <2>1. PICK S \in SUBSET Task :
            /\ \A t \in S : ~Referenced(t)
            /\ \A t \in Task : tasks'[t] = IF t \in S THEN "purged" ELSE tasks[t]
            /\ \A n \in Note :
                  notes'[n].st = IF notes[n].task \in S THEN "gone" ELSE notes[n].st
            /\ UNCHANGED <<lock, pc, arg, out, events>>
      BY <1>3, SweepFacts
    <2>2. \A q \in Req : Inserting(q) => arg[q].note \in Note /\ arg[q].task \in Task \ S
      BY <2>1 DEF Inserting, Referenced, FlowInv
    <2>3. \A q \in Req : Inserting(q) => notes[arg[q].note].task \notin S
      BY <2>1, <2>2, ConstantsAssumption DEF InsertInv, NoteInv
    <2> QED
      BY <2>1, <2>2, <2>3 DEF InsertInv, Inserting
  <1>4. CASE Frame
    <2>1. \A q \in Req : Inserting(q)' => arg'[q].task \in Task
      BY <1>4 DEF Frame, Inserting, FlowInv
    <2> QED
      BY <1>4, <2>1 DEF Frame, InsertInv
  <1> QED
    BY <1>1, <1>2, <1>3, <1>4, StepCases

\* What a handler was permitted to edit it remains permitted to edit.
LEMMA PermittedStays ==
  ASSUME TypeOK, FlowInv, InsertInv, [Next]_vars,
         NEW r \in Req, arg[r].note \in Note, arg'[r] = arg[r], Permitted(r)
  PROVE  Permitted(r)'
  BY NotesStay DEF Permitted, MayEdit

\* Every step leaves the handlers that edit with a comment that they may edit; the
\* retention job waits for those that have its lock.
LEMMA EditStep ==
  TypeOK /\ FlowInv /\ LockInv /\ InsertInv /\ EditInv /\ [Next]_vars => EditInv'
  <1> SUFFICES ASSUME TypeOK, FlowInv, LockInv, InsertInv, EditInv, [Next]_vars
               PROVE  EditInv'
    OBVIOUS
  <1>0. \A q \in Req : Editing(q) => arg[q].note \in Note /\ pc[q] # "idle" /\ pc[q] # "insert"
    BY DEF Editing, FlowInv
  <1>1. ASSUME \A q \in Req : Editing(q)' => Editing(q) /\ arg'[q] = arg[q]
        PROVE  \A q \in Req : Editing(q)' => Permitted(q)'
    BY <1>0, <1>1, PermittedStays DEF EditInv
  <1>2. ASSUME NEW r \in Req, Insert(r) PROVE EditInv'
    <2>1. \A q \in Req : /\ Editing(q)' => Editing(q) /\ arg'[q] = arg[q]
                         /\ pc'[q] = "commit" /\ arg'[q].kind = "edit" => pc[q] = "commit"
      BY <1>2, InsertFacts DEF Editing, Answer, Goto, TypeOK
    <2>2. notes' = notes
      BY <1>2, InsertFacts
    <2>3. \A q \in Req : Editing(q)' => Permitted(q)'
      BY <1>1, <2>1
    <2> QED
      BY <2>1, <2>2, <2>3 DEF EditInv, Editing
  <1>3. ASSUME NEW r \in Req, Commit(r) PROVE EditInv'
    <2>1. \A q \in Req : /\ Editing(q)' => Editing(q) /\ arg'[q] = arg[q]
                         /\ pc'[q] = "commit" => q # r /\ pc[q] = "commit" /\ arg'[q] = arg[q]
      BY <1>3, CommitFacts DEF Editing, TypeOK
    <2>2. pc[r] = "commit" /\ \A m \in Note \ {arg[r].note} : notes'[m] = notes[m]
      BY <1>3, CommitFacts DEF TypeOK
    <2>3. \A q \in Req : pc'[q] = "commit" => arg[q].note \in Note \ {arg[r].note}
      BY <2>1, <2>2 DEF LockInv, FlowInv
    <2>4. \A q \in Req : Editing(q)' => Permitted(q)'
      BY <1>1, <2>1
    <2> QED
      BY <2>1, <2>2, <2>3, <2>4 DEF EditInv
  <1>4. CASE Sweep
    <2>1. PICK S \in SUBSET Task :
            /\ \A t \in S : ~Referenced(t)
            /\ \A n \in Note :
                  notes'[n].st = IF notes[n].task \in S THEN "gone" ELSE notes[n].st
            /\ UNCHANGED <<lock, pc, arg, out, events>>
      BY <1>4, SweepFacts
    <2>2. \A q \in Req : pc[q] = "commit" => arg[q].note \in Note /\ notes[arg[q].note].task \notin S
      BY <2>1, ConstantsAssumption DEF LockInv, FlowInv, Referenced
    <2>3. \A q \in Req : Editing(q)' => Permitted(q)'
      BY <1>1, <2>1 DEF Editing
    <2> QED
      BY <2>1, <2>2, <2>3 DEF EditInv
  <1>5. CASE Frame
    <2>1. ASSUME NEW q \in Req, Editing(q)' PROVE Permitted(q)'
      <3>1. arg'[q] = arg[q] /\ Permitted(q)
        BY <1>5, <2>1 DEF Frame, EditInv
      <3>2. arg[q].note \in Note
        BY <2>1, <3>1, FlowStep DEF Editing, FlowInv
      <3> QED
        BY <3>1, <3>2, PermittedStays
    <2> QED
      BY <1>5, <2>1 DEF Frame, EditInv
  <1> QED
    BY <1>2, <1>3, <1>4, <1>5, StepCases

\* Every step leaves a stored note as its request described it.
LEMMA StoredStep ==
  TypeOK /\ FlowInv /\ InsertInv /\ StoredInv /\ [Next]_vars => StoredInv'
  <1> SUFFICES ASSUME TypeOK, FlowInv, InsertInv, StoredInv, [Next]_vars PROVE StoredInv'
    OBVIOUS
  <1>0. \A q \in Req : Stored(q) => arg[q].note \in Note
    BY DEF Stored, FlowInv
  <1>1. ASSUME NEW q \in Req, Stored(q), arg'[q] = arg[q]
        PROVE  LET n == notes'[arg'[q].note]
               IN /\ n.st # "absent" /\ n.kind = arg'[q].kind
                  /\ n.author = arg'[q].user /\ n.task = arg'[q].task
    BY <1>0, <1>1, NotesStay DEF StoredInv
  <1>2. ASSUME NEW r \in Req, Insert(r) PROVE StoredInv'
    <2>1. \A q \in Req : Stored(q)' => Stored(q) /\ arg'[q] = arg[q]
      BY <1>2, InsertFacts, ConstantsAssumption DEF Stored, Answer, Goto, TypeOK
    <2> QED
      BY <1>1, <2>1 DEF StoredInv
  <1>3. ASSUME NEW r \in Req, Commit(r) PROVE StoredInv'
    <2>1. \A q \in Req : Stored(q)' /\ q # r => Stored(q) /\ arg'[q] = arg[q]
      BY <1>3, CommitFacts DEF Stored, TypeOK
    <2>2. Stored(r)' => LET n == notes'[arg'[r].note]
                        IN /\ n.st # "absent" /\ n.kind = arg'[r].kind
                           /\ n.author = arg'[r].user /\ n.task = arg'[r].task
      BY <1>3, CommitFacts DEF Stored
    <2> QED
      BY <1>1, <2>1, <2>2 DEF StoredInv
  <1>4. CASE Sweep
    <2>1. \A q \in Req : Stored(q)' => Stored(q) /\ arg'[q] = arg[q]
      BY <1>4 DEF Sweep, Stored
    <2> QED
      BY <1>1, <2>1 DEF StoredInv
  <1>5. CASE Frame
    <2>1. \A q \in Req : Stored(q)' => Stored(q) /\ arg'[q] = arg[q]
      BY <1>5 DEF Frame
    <2> QED
      BY <1>1, <2>1 DEF StoredInv
  <1> QED
    BY <1>2, <1>3, <1>4, <1>5, StepCases

\* What an event tells is so: one instance of EventInv and EventCommitted.
Told(e) ==
  LET n == notes[e.note]
  IN /\ pc[e.text] = "done" /\ n.st # "absent" /\ n.kind = "comment"
     /\ arg[e.text].user \in Admins \cup {n.author}
     /\ e.type = "COMMENT_ADDED" => n.task = e.task

\* Every step leaves the events true.
LEMMA EventStep ==
  TypeOK /\ FlowInv /\ InsertInv /\ EditInv /\ StoredInv /\ EventInv /\ EventCommitted /\ [Next]_vars
  => EventInv' /\ EventCommitted'
  <1> SUFFICES ASSUME TypeOK, FlowInv, InsertInv, EditInv, StoredInv, EventInv, EventCommitted,
                      [Next]_vars
               PROVE  EventInv' /\ EventCommitted'
    OBVIOUS
  <1>0. \A i \in DOMAIN events : events[i] \in Event /\ Told(events[i])
    <2>1. \A i \in DOMAIN events : events[i] \in Event
      BY DEF TypeOK
    <2> QED
      BY <2>1 DEF EventInv, EventCommitted, Told
  <1>1. \A q \in Req : pc[q] = "done" => pc'[q] = "done" /\ arg'[q] = arg[q]
    <2>1. ASSUME NEW r \in Req, Insert(r)
          PROVE  \A q \in Req : pc[q] = "done" => pc'[q] = "done" /\ arg'[q] = arg[q]
      BY <2>1, InsertFacts
    <2>2. ASSUME NEW r \in Req, Commit(r)
          PROVE  \A q \in Req : pc[q] = "done" => pc'[q] = "done" /\ arg'[q] = arg[q]
      BY <2>2, CommitFacts DEF TypeOK
    <2> QED
      BY <2>1, <2>2, StepCases DEF Sweep, Frame
  <1>2. ASSUME NEW e \in Event, Told(e) PROVE Told(e)'
    <2>1. e.note \in Note /\ e.text \in Req
      BY DEF Event
    <2> QED
      BY <1>1, <1>2, <2>1, NotesStay DEF Told
  <1>3. ASSUME NEW r \in Req, Publish(r) PROVE Told(EventOf(r))'
    <2> DEFINE n == notes[arg[r].note]
    <2>1. /\ pc[r] = "publish" /\ arg[r].kind \in {"comment", "edit"} /\ arg[r].note \in Note
          /\ UNCHANGED <<notes, arg>> /\ pc'[r] = "done"
      BY <1>3 DEF Publish, FlowInv, Answer, Goto, TypeOK, Arg
    <2>2. /\ n.st # "absent" /\ n.kind = "comment" /\ arg[r].user \in Admins \cup {n.author}
          /\ arg[r].kind # "edit" => n.task = arg[r].task
      <3>1. CASE arg[r].kind = "edit"
        BY <2>1, <3>1 DEF EditInv, Editing, Permitted, MayEdit
      <3>2. CASE arg[r].kind # "edit"
        BY <2>1, <3>2 DEF StoredInv, Stored
      <3> QED
        BY <3>1, <3>2
    <2> QED
      BY <2>1, <2>2 DEF Told, EventOf
  <1>4. \A i \in DOMAIN events' : Told(events[i])'
    <2>1. CASE UNCHANGED events
      BY <1>0, <1>2, <2>1
    <2>2. CASE Frame
      <3>1. ASSUME NEW i \in DOMAIN events', i \in DOMAIN events, events'[i] = events[i]
            PROVE  Told(events[i])'
        BY <1>0, <1>2, <3>1 DEF Told
      <3>2. ASSUME NEW i \in DOMAIN events', NEW r \in Req, Publish(r), events'[i] = EventOf(r)
            PROVE  Told(events[i])'
        BY <1>3, <3>2 DEF Told, EventOf, Publish
      <3> QED
        BY <2>2, <3>1, <3>2 DEF Frame
    <2> QED
      BY <2>1, <2>2, StepCases, InsertFacts, CommitFacts DEF Sweep
  <1> QED
    BY <1>4 DEF EventInv, EventCommitted, Told

----------------------------------------------------------------------------
(* The theorems.                                                           *)

\* The inductive invariant holds in every reachable state.
THEOREM Invariance == Spec => []IInv
  <1>1. IInv /\ [Next]_vars => IInv'
    BY TypeStep, FlowStep, LockStep, NoteStep, InsertStep, EditStep, StoredStep, EventStep
    DEF IInv
  <1> QED
    BY InvInit, <1>1, PTL DEF Spec

\* Every variable of the comments, the attachments and their requests has its type,
\* a request is done exactly when it has been answered, and only a transaction that
\* is about to commit holds the lock of a note.
THEOREM TypeCorrect == Spec => []TypeOK
  <1>1. IInv => TypeOK
    BY DEF IInv
  <1> QED
    BY Invariance, <1>1, PTL

\* No comment or attachment outlives the row of its task, however add_comment,
\* confirm_attachment and cleanup_soft_deleted_tasks_job interleave.
THEOREM OrphanFree == Spec => []NoOrphan
  <1>1. IInv => NoOrphan
    BY DEF IInv
  <1> QED
    BY Invariance, <1>1, PTL

\* What was answered 201 is kept, with its author and its task, until the task is
\* purged.
THEOREM AcknowledgedKept == Spec => []Acknowledged
  <1>1. IInv => Acknowledged
    <2> SUFFICES ASSUME IInv, NEW r \in Req, out[r] = 201
                 PROVE  LET n == notes[arg[r].note]
                        IN /\ n.st = "present" \/ tasks[arg[r].task] = "purged"
                           /\ n.author = arg[r].user /\ n.task = arg[r].task
      BY DEF Acknowledged
    <2>1. arg[r].note \in Note /\ Stored(r)
      BY DEF IInv, FlowInv, Stored
    <2>2. LET n == notes[arg[r].note]
          IN n.st # "absent" /\ n.author = arg[r].user /\ n.task = arg[r].task
      BY <2>1 DEF IInv, StoredInv
    <2>3. notes[arg[r].note].st \in {"absent", "present", "gone"}
      BY <2>1 DEF IInv, TypeOK, NoteRow
    <2> QED
      BY <2>1, <2>2, <2>3 DEF IInv, NoteInv
  <1> QED
    BY Invariance, <1>1, PTL

\* COMMENT_ADDED and COMMENT_UPDATED tell only of what was committed, by its author
\* or by an admin.
THEOREM EventsTrue == Spec => []EventCommitted
  <1>1. IInv => EventCommitted
    BY DEF IInv
  <1> QED
    BY Invariance, <1>1, PTL
=============================================================================
