--------------------------- MODULE VersionedTask ---------------------------
(***************************************************************************)
(* What the task store promises its clients: a task is created once at     *)
(* version 1, its status moves one version at a time and only while it is  *)
(* live, a deleted task stays deleted, and the journal gains exactly one   *)
(* entry in the same step as the change: its after-state is the new row,   *)
(* its before-state one that the journal has, not always the last.  There  *)
(* are no requests, transactions or locks here: each change is one step.   *)
(***************************************************************************)
EXTENDS Naturals

CONSTANTS Actor,    \* who may be named in a journal entry
          Task, Status, Backlog

VARIABLES rows, journal

avars == <<rows, journal>>

ViewOf(row) == [ver |-> row.ver, status |-> row.status]

Entry(t, by, action, before, after) ==
  [task |-> t, by |-> by, action |-> action, before |-> before, after |-> after]

NoView == [ver |-> 0, status |-> Backlog]

AInit ==
  /\ rows = [t \in Task |-> [state |-> "absent", ver |-> 0, status |-> Backlog]]
  /\ journal = {}

Create(t) ==
  LET new == [state |-> "live", ver |-> 1, status |-> Backlog]
  IN /\ rows[t].state = "absent"
     /\ rows' = [rows EXCEPT ![t] = new]
     /\ \E by \in Actor :
           journal' = journal \cup {Entry(t, by, "CREATE", NoView, ViewOf(new))}

\* What the task has been so far.
Past(t) == {e.after : e \in {d \in journal : d.task = t}}

SetStatus(t, s) ==
  LET new == [state |-> "live", ver |-> rows[t].ver + 1, status |-> s]
  IN /\ rows[t].state = "live"
     /\ rows' = [rows EXCEPT ![t] = new]
     /\ \E by \in Actor, before \in Past(t) :
           journal' = journal \cup {Entry(t, by, "UPDATE", before, ViewOf(new))}

SoftDelete(t) ==
  /\ rows[t].state = "live"
  /\ rows' = [rows EXCEPT ![t].state = "deleted"]
  /\ UNCHANGED journal

Purge(S) ==
  /\ \A t \in S : rows[t].state = "deleted"
  /\ rows' = [t \in Task |-> IF t \in S THEN [rows[t] EXCEPT !.state = "purged"]
                                        ELSE rows[t]]
  /\ UNCHANGED journal

ANext ==
  \/ \E t \in Task : Create(t) \/ SoftDelete(t) \/ \E s \in Status : SetStatus(t, s)
  \/ \E S \in SUBSET Task : Purge(S)

ASpec == AInit /\ [][ANext]_avars
=============================================================================
