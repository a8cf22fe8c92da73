------------------------------- MODULE Feed -------------------------------
(***************************************************************************)
(* The listings: a client walks through the pages of one listing while     *)
(* other requests change the table under it.                               *)
(*                                                                         *)
(*   feed      GET /tasks/feed             keyset, newest first            *)
(*   comments  GET /tasks/{id}/comments    keyset, oldest first            *)
(*   newest    GET /tasks                  offset, newest first            *)
(*   oldest    GET /tasks?sort_by=created_at:asc   offset, oldest first    *)
(*   audit     GET /audit-logs             offset, by timestamp only       *)
(*                                                                         *)
(* Every page is a request of its own; its statements run at READ          *)
(* COMMITTED and see what is committed at that moment.  Walks only read,   *)
(* so one walk shows what any number of them see.                          *)
(***************************************************************************)
EXTENDS Naturals, FiniteSets, FiniteSetsExt

CONSTANTS Row,     \* primary keys, in the order of their UUIDs
          Time,    \* the values of created_at (of timestamp in audit_logs)
          Limits,  \* the values of limit or page_size that clients ask for
          None,    \* no cursor
          Damaged  \* a cursor that decode_cursor cannot read

ASSUME ConstantsAssumption ==
  /\ IsFiniteSet(Row) /\ Row \subseteq Nat
  /\ Time # {} /\ Time \subseteq Nat
  /\ Limits # {} /\ Limits \subseteq Nat \ {0}
  /\ None \notin Time \X Row /\ Damaged \notin Time \X Row /\ None # Damaged

KeysetListing == {"feed", "comments"}
OffsetListing == {"newest", "oldest", "audit"}

VARIABLES
  listing,  \* which of the listings this is
  limit,    \* the page size that the client asks for
  st,       \* of each row: not inserted, in the listing, out of its filter, gone
  ts,       \* its created_at
  pc,       \* the client's next request, the SELECT after a COUNT, or the end
  cursor,   \* the cursor to send
  page,     \* the page number to ask for
  total,    \* what the COUNT of the current request has found
  begun,    \* the first page has been read
  seen,     \* the rows that the pages contained so far
  again,    \* some row came more than once
  kept,     \* the rows that were in the listing from the first page until now
  upset     \* what has happened to the walk

rows == <<st, ts>>
query == <<listing, limit>>
vars == <<query, rows, pc, cursor, page, total, begun, seen, again, kept, upset>>

Keyset == listing \in KeysetListing

----------------------------------------------------------------------------
(* Order and selection.                                                    *)

Key(i) == <<ts[i], i>>

Ascending == listing \in {"comments", "oldest"}

Less(x, y) == x[1] < y[1] \/ (x[1] = y[1] /\ x[2] < y[2])

\* ORDER BY: x comes before y.  The audit log has no second column to break ties.
Before(x, y) ==
  CASE listing = "audit" -> y[1] < x[1]
    [] Ascending -> Less(x, y)
    [] OTHER -> Less(y, x)

\* WHERE: the tenant, is_deleted and the filters.
Visible == {i \in Row : st[i] = "in"}

\* Nothing of V outside S sorts before a member of S.
Front(S, V) == \A s \in S, x \in V \ S : ~Before(Key(x), Key(s))

\* ORDER BY ... OFFSET off LIMIT n on the rows V: rows that sort alike come in any
\* order.
Slices(V, off, n) ==
  {P \in SUBSET V :
     \E B \in SUBSET (V \ P) :
        /\ Cardinality(B) = Min({off, Cardinality(V)})
        /\ Cardinality(P) = Min({n, Cardinality(V) - Cardinality(B)})
        /\ Front(B, V) /\ Front(P, V \ B)}

AfterInclusive(c) ==
  IF c = None THEN Visible ELSE {i \in Visible : c = Key(i) \/ Before(c, Key(i))}

\* The keyset condition: strictly behind the cursor.
After(c) ==
  IF c = None THEN Visible ELSE {i \in Visible : Before(c, Key(i))}

\* decode_cursor answers None for whatever it cannot read.
decode_cursor(c) == IF c \in Time \X Row THEN c ELSE None

----------------------------------------------------------------------------
(* The walk.                                                               *)

Init ==
  /\ listing \in KeysetListing \cup OffsetListing /\ limit \in Limits
  /\ st = [i \in Row |-> "none"]
  /\ ts = [i \in Row |-> CHOOSE t \in Time : TRUE]
  /\ pc = "request" /\ cursor = None /\ page = 1 /\ total = 0 /\ begun = FALSE
  /\ seen = {} /\ again = FALSE /\ kept = {} /\ upset = {}

\* The client receives a page.
Return(items) ==
  /\ begun' = TRUE
  /\ seen' = seen \cup items
  /\ again' = (again \/ seen \cap items # {})
  /\ kept' = IF begun THEN kept ELSE Visible
  /\ UNCHANGED <<query, rows, upset>>

LastRead(records, items) == {i \in records : \A j \in records \ {i} : Before(Key(j), Key(i))}

\* items[-1]
Last(records, items) == {i \in items : \A j \in items \ {i} : Before(Key(j), Key(i))}

\* The page, and the cursor of its last row if a row more than asked for was read;
\* without a cursor the client stops.
Reply(records, items) ==
  /\ Return(items)
  /\ IF Cardinality(records) > limit
     THEN /\ \E i \in Last(records, items) : cursor' = Key(i)
          /\ UNCHANGED pc
     ELSE cursor' = None /\ pc' = "ended"

\* list_tasks_cursor, list_comments_cursor: one SELECT with LIMIT limit + 1.
KeysetPage ==
  /\ Keyset /\ pc = "request"
  /\ \E records \in Slices(After(decode_cursor(cursor)), 0, limit + 1) :
        \E items \in Slices(records, 0, limit) : Reply(records, items)
  /\ UNCHANGED <<page, total>>

\* The COUNT of list_tasks_offset and list_audit_logs.
Count ==
  /\ ~Keyset /\ pc = "request"
  /\ total' = Cardinality(Visible)
  /\ pc' = "select"
  /\ UNCHANGED <<query, rows, cursor, page, begun, seen, again, kept, upset>>

OffsetOneOver(p) == (p - 1) * limit + 1

Offset(p) == (p - 1) * limit

TotalPages == (total + limit - 1) \div limit

\* The SELECT that follows it; the client asks on until the last of total_pages.
OffsetPage ==
  /\ pc = "select"
  /\ \E items \in Slices(Visible, Offset(page), limit) : Return(items)
  /\ IF page < TotalPages THEN page' = page + 1 /\ pc' = "request"
                          ELSE page' = 1 /\ pc' = "ended"
  /\ total' = 0
  /\ UNCHANGED cursor

\* The client, or something on the way, spoils the cursor: at most once in a walk.
DamageCursor ==
  /\ pc = "request" /\ cursor \notin {None, Damaged} /\ "damaged" \notin upset
  /\ cursor' = Damaged
  /\ upset' = upset \cup {"damaged"}
  /\ UNCHANGED <<query, rows, pc, page, total, begun, seen, again, kept>>

\* The client starts over.
NewWalk ==
  /\ pc = "ended"
  /\ pc' = "request" /\ cursor' = None /\ begun' = FALSE
  /\ seen' = {} /\ again' = FALSE /\ kept' = {} /\ upset' = {}
  /\ UNCHANGED <<query, rows, page, total>>

----------------------------------------------------------------------------
(* The table changes.                                                      *)

\* What a commit does to the walk: rows come or leave, or the COUNT of a request no
\* longer goes with its SELECT.  What changes between two walks changes before the
\* first page of the second.
Committed ==
  LET came == Visible' \ Visible
      left == Visible \ Visible'
  IN /\ pc # "ended"
     /\ kept' = kept \ left
     /\ upset' = upset \cup {u \in {"came", "left", "torn"} :
                    \/ u = "came" /\ begun /\ came # {}
                    \/ u = "left" /\ begun /\ left # {}
                    \/ u = "torn" /\ pc = "select" /\ came \cup left # {}}
     /\ UNCHANGED <<query, pc, cursor, page, total, begun, seen, again>>

Tasks == listing \in {"feed", "newest", "oldest"}

\* COMMIT of an INSERT.  created_at is the clock of some node at the flush, before
\* the COMMIT: the row may sort anywhere.  A task may miss the filter.
Arrive(i, t) ==
  /\ st[i] = "none"
  /\ ts' = [ts EXCEPT ![i] = t]
  /\ \E s \in IF Tasks THEN {"in", "out"} ELSE {"in"} : st' = [st EXCEPT ![i] = s]
  /\ Committed

\* COMMIT of a PATCH that moves a task into the filter or out of it.
Patch(i) ==
  /\ Tasks
  /\ \/ st[i] = "in" /\ st' = [st EXCEPT ![i] = "out"]
     \/ st[i] = "out" /\ st' = [st EXCEPT ![i] = "in"]
  /\ UNCHANGED ts
  /\ Committed

\* COMMIT of a DELETE of a task.
SoftDelete(i) ==
  /\ Tasks /\ st[i] \in {"in", "out"}
  /\ st' = [st EXCEPT ![i] = "gone"]
  /\ UNCHANGED ts
  /\ Committed

\* The retention job removes the task with all its comments; none can follow.
PurgeTask ==
  /\ listing = "comments"
  /\ st' = [i \in Row |-> "gone"]
  /\ UNCHANGED ts
  /\ Committed

Walk == KeysetPage \/ Count \/ OffsetPage

Next ==
  \/ Walk \/ DamageCursor \/ NewWalk
  \/ \E i \in Row : (\E t \in Time : Arrive(i, t)) \/ Patch(i) \/ SoftDelete(i)
  \/ PurgeTask

Spec == Init /\ [][Next]_vars

\* The server answers and the client asks on.
FairSpec == Spec /\ WF_vars(Walk)

----------------------------------------------------------------------------
(* Properties.                                                             *)

\* Every variable has its type.
TypeOK ==
  /\ listing \in KeysetListing \cup OffsetListing /\ limit \in Limits
  /\ st \in [Row -> {"none", "in", "out", "gone"}]
  /\ ts \in [Row -> Time]
  /\ pc \in {"request", "select", "ended"}
  /\ cursor \in (Time \X Row) \cup {None, Damaged}
  /\ page \in Nat \ {0} /\ total \in Nat /\ begun \in BOOLEAN
  /\ seen \subseteq Row /\ again \in BOOLEAN /\ kept \subseteq Row
  /\ upset \subseteq {"came", "left", "torn", "damaged"}

\* A walk by cursors never shows a row twice, whatever is inserted, changed or
\* deleted meanwhile, unless a cursor was spoiled: decode_cursor then silently starts
\* from the front (list_tasks_cursor, list_comments_cursor).
NoRepeat == Keyset /\ again => "damaged" \in upset

\* A walk by cursors that has come to its end has shown every row that was there all
\* along, with or without a spoiled cursor.  Rows that came meanwhile may be missing:
\* created_at is older than the commit.
Complete == Keyset /\ pc = "ended" => kept \subseteq seen

\* The rows that were ever inserted have a definite order.
Untied ==
  \A i, j \in {k \in Row : st[k] # "none"} :
     i # j => Before(Key(i), Key(j)) \/ Before(Key(j), Key(i))

\* A walk by page numbers shows a row twice only if another row has come since its
\* first page, and misses one that was there all along only if another has left, or
\* the table changed between the COUNT and the SELECT of one request; or if equal
\* timestamps leave the order open (list_tasks_offset, list_audit_logs).
OffsetExplained ==
  ~Keyset /\ Untied =>
    /\ again => "came" \in upset
    /\ pc = "ended" /\ ~(kept \subseteq seen) => upset \cap {"left", "torn"} # {}

\* A client that follows the cursors comes to an end however the table changes
\* (has_more, next_cursor).
FeedEnds == (Keyset /\ pc = "request") ~> pc = "ended"
=============================================================================
