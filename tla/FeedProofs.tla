----------------------------- MODULE FeedProofs -----------------------------
(***************************************************************************)
(* Theorems about Feed, for any finite set of rows, any timestamps and     *)
(* page sizes.                                                             *)
(***************************************************************************)
EXTENDS Feed, FiniteSetTheorems, TLAPS

----------------------------------------------------------------------------
(* Order and slices.                                                       *)

\* The smaller of two numbers.
LEMMA MinFacts ==
  ASSUME NEW a \in Nat, NEW b \in Nat
  PROVE  Min({a, b}) = IF a <= b THEN a ELSE b
  BY DEF Min

\* The keyset listings order their rows strictly and totally.
LEMMA BeforeOrder ==
  ASSUME Keyset, NEW x \in Time \X Row, NEW y \in Time \X Row
  PROVE  /\ ~(Before(x, y) /\ Before(y, x))
         /\ x = y \/ Before(x, y) \/ Before(y, x)
         /\ ~Before(x, x)
         /\ \A z \in Time \X Row : Before(x, y) /\ Before(y, z) => Before(x, z)
  <1>0. \A z \in Time \X Row : z[1] \in Time /\ z[2] \in Row /\ z = <<z[1], z[2]>>
    OBVIOUS
  <1>1. /\ x[1] \in Nat /\ x[2] \in Nat /\ y[1] \in Nat /\ y[2] \in Nat
        /\ x[1] = y[1] /\ x[2] = y[2] => x = y
        /\ \A z \in Time \X Row : z[1] \in Nat /\ z[2] \in Nat
    <2>1. Time \subseteq Nat /\ Row \subseteq Nat
      BY ConstantsAssumption
    <2> QED
      BY <1>0, <2>1
  <1>2. CASE listing = "feed"
    BY <1>1, <1>2 DEF Before, Less, Ascending
  <1>3. CASE listing = "comments"
    BY <1>1, <1>3 DEF Before, Less, Ascending
  <1> QED
    BY <1>2, <1>3 DEF Keyset, KeysetListing

\* Rows without an offset: the first n, or all when there are no more.
LEMMA SliceFacts ==
  ASSUME NEW V \in SUBSET Row, NEW n \in Nat, NEW P \in Slices(V, 0, n)
  PROVE  /\ P \in SUBSET V
         /\ Front(P, V)
         /\ Cardinality(P) \in Nat /\ Cardinality(V) \in Nat
         /\ Cardinality(P) < n => P = V
         /\ Cardinality(V) <= n => P = V
  <1>1. /\ IsFiniteSet(V) /\ Cardinality(V) \in Nat
    BY ConstantsAssumption, FS_Subset, FS_CardinalityType
  <1>2. PICK B \in SUBSET (V \ P) :
          /\ Cardinality(B) = Min({0, Cardinality(V)})
          /\ Cardinality(P) = Min({n, Cardinality(V) - Cardinality(B)})
          /\ Front(B, V) /\ Front(P, V \ B)
    BY DEF Slices
  <1>3. P \in SUBSET V
    BY DEF Slices
  <1>4. Cardinality(B) = 0
    BY <1>1, <1>2, MinFacts
  <1>5. IsFiniteSet(B)
    BY <1>1, <1>2, FS_Subset
  <1>6. B = {}
    BY <1>4, <1>5, FS_EmptySet
  <1>7. Front(P, V)
    <2>1. V \ B = V
      BY <1>6
    <2> QED
      BY <1>2, <2>1
  <1>8. Cardinality(P) = IF n <= Cardinality(V) THEN n ELSE Cardinality(V)
    <2>1. Cardinality(V) - Cardinality(B) = Cardinality(V)
      BY <1>1, <1>4
    <2> QED
      BY <1>1, <1>2, <2>1, MinFacts
  <1>9. Cardinality(P) = Cardinality(V) => P = V
    BY <1>1, <1>3, FS_Subset
  <1> QED
    BY <1>1, <1>3, <1>7, <1>8, <1>9

----------------------------------------------------------------------------
(* The inductive invariant.                                                *)

\* Where the walk stands: no cursor means that it has not begun or has ended, and
\* what it has met existed.
StandInv ==
  /\ \A i \in seen : st[i] # "none"
  /\ kept \subseteq Visible
  /\ ~begun => seen = {} /\ kept = {} /\ ~again /\ cursor = None
  /\ cursor = Damaged => "damaged" \in upset
  /\ Keyset /\ pc = "request" /\ cursor = None => ~begun
  /\ Keyset => pc # "select"

\* What was shown does not lie behind the cursor, and whatever of the kept rows does
\* not lie behind it was shown.
CursorInv ==
  Keyset /\ cursor \in Time \X Row =>
    /\ "damaged" \notin upset => \A i \in seen : ~Before(cursor, Key(i))
    /\ \A i \in kept : ~Before(cursor, Key(i)) => i \in seen

IInv == TypeOK /\ StandInv /\ CursorInv /\ NoRepeat /\ Complete

\* The invariant holds before the first page.
LEMMA InvInit == Init => IInv
  <1> SUFFICES ASSUME Init PROVE IInv
    OBVIOUS
  <1> DEFINE t0 == CHOOSE t \in Time : TRUE
  <1>1. t0 \in Time
    BY ConstantsAssumption
  <1>2. ts = [i \in Row |-> t0]
    BY DEF Init
  <1> HIDE DEF t0
  <1>3. TypeOK
    <2>1. ts \in [Row -> Time]
      BY <1>1, <1>2
    <2>2. /\ listing \in KeysetListing \cup OffsetListing /\ limit \in Limits
          /\ st = [i \in Row |-> "none"]
          /\ pc = "request" /\ cursor = None /\ page = 1 /\ total = 0 /\ begun = FALSE
          /\ seen = {} /\ again = FALSE /\ kept = {} /\ upset = {}
      BY DEF Init
    <2>3. st \in [Row -> {"none", "in", "out", "gone"}]
      BY <2>2
    <2>4. cursor \in (Time \X Row) \cup {None, Damaged}
      BY <2>2
    <2>5. page \in Nat \ {0} /\ total \in Nat
      BY <2>2
    <2>7. begun \in BOOLEAN /\ again \in BOOLEAN
      BY <2>2, Zenon
    <2>6. seen \subseteq Row /\ kept \subseteq Row /\ upset \subseteq {"came", "left", "torn", "damaged"}
      BY <2>2
    <2> QED
      BY <2>1, <2>2, <2>3, <2>4, <2>5, <2>6, <2>7, Zenon DEF TypeOK
  <1>4. StandInv
    BY ConstantsAssumption DEF Init, StandInv
  <1>5. CursorInv /\ NoRepeat /\ Complete
    BY ConstantsAssumption DEF Init, CursorInv, NoRepeat, Complete
  <1> QED
    BY <1>3, <1>4, <1>5 DEF IInv

\* A row's sort key is a pair that a cursor can hold.
LEMMA KeyType ==
  ASSUME TypeOK, NEW i \in Row
  PROVE  Key(i) \in Time \X Row
  BY DEF Key, TypeOK

\* Every step leaves the state well typed.
LEMMA TypeStep == TypeOK /\ [Next]_vars => TypeOK'
  <1> SUFFICES ASSUME TypeOK, [Next]_vars PROVE TypeOK'
    OBVIOUS
  <1> USE DEF TypeOK
  <1>1. Visible \in SUBSET Row /\ Cardinality(Visible) \in Nat
    BY ConstantsAssumption, FS_Subset, FS_CardinalityType DEF Visible
  <1>2. ASSUME NEW items \in SUBSET Row, Return(items)
        PROVE  /\ begun' \in BOOLEAN /\ seen' \subseteq Row /\ again' \in BOOLEAN
               /\ kept' \subseteq Row /\ upset' = upset /\ UNCHANGED <<query, rows>>
    BY <1>1, <1>2 DEF Return
  <1>3. CASE KeysetPage
    <2>1. PICK records \in Slices(After(decode_cursor(cursor)), 0, limit + 1) :
            \E items \in Slices(records, 0, limit) : Reply(records, items)
      BY <1>3 DEF KeysetPage
    <2>0. PICK items \in Slices(records, 0, limit) : Reply(records, items)
      BY <2>1
    <2>2. items \in SUBSET Row
      BY DEF Slices, After, Visible
    <2>3. cursor' \in (Time \X Row) \cup {None}
      BY <2>0, <2>2, KeyType DEF Reply, Last
    <2> QED
      BY <1>2, <1>3, <2>0, <2>2, <2>3 DEF KeysetPage, Reply, query, rows
  <1>4. CASE Count
    BY <1>1, <1>4 DEF Count, query, rows
  <1>5. CASE OffsetPage
    <2>1. PICK items \in Slices(Visible, Offset(page), limit) : Return(items)
      BY <1>5 DEF OffsetPage
    <2>2. items \in SUBSET Row
      BY <1>1 DEF Slices
    <2>3. page' \in Nat \ {0} /\ total' \in Nat /\ pc' \in {"request", "ended"} /\ cursor' = cursor
      BY <1>5 DEF OffsetPage
    <2> QED
      BY <1>2, <2>1, <2>2, <2>3 DEF query, rows
  <1>6. CASE DamageCursor
    BY <1>6 DEF DamageCursor, query, rows
  <1>7. CASE NewWalk
    BY <1>7 DEF NewWalk, query, rows
  <1>8. ASSUME Committed PROVE /\ kept' \subseteq Row
                               /\ upset' \subseteq {"came", "left", "torn", "damaged"}
                               /\ UNCHANGED <<query, pc, cursor, page, total, begun, seen, again>>
    BY <1>8 DEF Committed
  <1>9. ASSUME NEW i \in Row, NEW t \in Time, Arrive(i, t) PROVE TypeOK'
    BY <1>8, <1>9 DEF Arrive, query, Tasks
  <1>10. ASSUME NEW i \in Row, Patch(i) PROVE TypeOK'
    BY <1>8, <1>10 DEF Patch, query
  <1>11. ASSUME NEW i \in Row, SoftDelete(i) PROVE TypeOK'
    BY <1>8, <1>11 DEF SoftDelete, query
  <1>12. CASE PurgeTask
    BY <1>8, <1>12 DEF PurgeTask, query
  <1>13. CASE UNCHANGED vars
    BY <1>13 DEF vars, query, rows
  <1> QED
    BY <1>3, <1>4, <1>5, <1>6, <1>7, <1>9, <1>10, <1>11, <1>12, <1>13 DEF Next, Walk

\* The variables of a walk always have their types (Feed).
THEOREM TypeCorrect == Spec => []TypeOK
  <1>1. Init => TypeOK
    BY InvInit DEF IInv
  <1> QED
    BY <1>1, TypeStep, PTL DEF Spec

----------------------------------------------------------------------------
(* The table changes under the walk.                                       *)

\* Rows that were ever inserted keep their created_at and stay inserted.
LEMMA ChangeStep ==
  ASSUME IInv, Committed, \A i \in Row : st[i] # "none" => st'[i] # "none" /\ ts'[i] = ts[i]
  PROVE  StandInv' /\ CursorInv' /\ NoRepeat' /\ Complete'
  <1> USE DEF IInv
  <1>1. /\ UNCHANGED <<listing, limit, pc, cursor, page, total, begun, seen, again>>
        /\ kept' \subseteq kept /\ kept' \subseteq Visible'
        /\ "damaged" \in upset' <=> "damaged" \in upset
    BY DEF Committed, StandInv, query
  <1>2. \A i \in seen \cup kept : i \in Row /\ st[i] # "none" /\ Key(i)' = Key(i)
    BY DEF StandInv, TypeOK, Visible, Key
  <1>3. \A x, y : Before(x, y)' <=> Before(x, y)
    BY <1>1 DEF Before, Ascending, Less
  <1>4. StandInv'
    BY <1>1, <1>2 DEF StandInv, Keyset, TypeOK
  <1>5. CursorInv'
    BY <1>1, <1>2, <1>3 DEF CursorInv, Keyset
  <1>6. NoRepeat' /\ Complete'
    BY <1>1 DEF NoRepeat, Complete, Keyset
  <1> QED
    BY <1>4, <1>5, <1>6

----------------------------------------------------------------------------
(* A page by cursor.                                                       *)

\* A page by cursor keeps the invariant.
LEMMA KeysetStep ==
  ASSUME IInv, KeysetPage
  PROVE  StandInv' /\ CursorInv' /\ NoRepeat' /\ Complete'
  <1> USE DEF IInv
  <1> DEFINE c == decode_cursor(cursor)
             V == After(c)
  <1> HIDE DEF c, V
  <1>1. PICK records \in Slices(V, 0, limit + 1) :
          \E items \in Slices(records, 0, limit) : Reply(records, items)
    BY DEF KeysetPage, c, V
  <1>2. PICK items \in Slices(records, 0, limit) : Reply(records, items)
    BY <1>1
  <1>3. Keyset /\ pc = "request" /\ limit \in Nat
    BY ConstantsAssumption DEF KeysetPage, TypeOK
  <1>4. V \in SUBSET Visible /\ Visible \in SUBSET Row
    BY DEF V, After, Visible
  <1>5. /\ records \in SUBSET V /\ Front(records, V)
        /\ Cardinality(records) \in Nat
        /\ Cardinality(records) <= limit => records = V
    <2>1. V \in SUBSET Row /\ limit + 1 \in Nat
      BY <1>3, <1>4
    <2>2. /\ records \in SUBSET V /\ Front(records, V)
          /\ Cardinality(records) \in Nat
          /\ Cardinality(records) < limit + 1 => records = V
      BY <1>1, <2>1, SliceFacts
    <2> QED
      BY <1>3, <2>2
  <1>6. /\ items \in SUBSET records /\ Front(items, records)
        /\ Cardinality(records) <= limit => items = records
    BY <1>3, <1>4, <1>5, SliceFacts
  <1>7. /\ begun' = TRUE /\ seen' = seen \cup items
        /\ again' = (again \/ seen \cap items # {})
        /\ kept' = IF begun THEN kept ELSE Visible
        /\ UNCHANGED <<listing, limit, st, ts, upset>>
    BY <1>2 DEF Reply, Return, query, rows
  <1>8. Visible' = Visible /\ Keyset' /\ (\A i : Key(i)' = Key(i))
        /\ (\A x, y : Before(x, y)' <=> Before(x, y))
    BY <1>3, <1>7 DEF Visible, Keyset, Key, Before, Ascending, Less
  \* Where the page begins.
  <1>9. \/ c = None /\ V = Visible /\ (begun => "damaged" \in upset)
        \/ /\ c \in Time \X Row /\ c = cursor
           /\ V = {i \in Visible : Before(c, Key(i))}
    BY <1>3, ConstantsAssumption DEF c, V, decode_cursor, After, StandInv, TypeOK
  <1>10. \A i \in kept' : i \in seen \/ i \in V
    BY <1>7, <1>9, <1>3, ConstantsAssumption DEF StandInv, CursorInv
  \* Nothing of the page was shown before.
  <1>11. "damaged" \notin upset => seen \cap items = {}
    BY <1>3, <1>5, <1>6, <1>9 DEF StandInv, CursorInv
  <1>12. NoRepeat'
    BY <1>3, <1>7, <1>11 DEF NoRepeat
  <1>13. /\ \A i \in seen' : st'[i] # "none"
         /\ kept' \subseteq Visible'
    BY <1>4, <1>5, <1>6, <1>7, <1>8 DEF StandInv, Visible
  <1>14. CASE Cardinality(records) <= limit
    <2>1. items = V /\ cursor' = None /\ pc' = "ended"
      BY <1>2, <1>3, <1>5, <1>6, <1>14 DEF Reply
    <2>2. Complete'
      BY <1>7, <1>10, <2>1 DEF Complete
    <2>3. CursorInv'
      BY <2>1, ConstantsAssumption DEF CursorInv
    <2>4. StandInv'
      BY <1>7, <1>13, <2>1, ConstantsAssumption DEF StandInv
    <2> QED
      BY <1>12, <2>2, <2>3, <2>4
  <1>15. CASE Cardinality(records) > limit
    <2>1. PICK last \in Last(records, items) : cursor' = Key(last)
      BY <1>2, <1>3, <1>15 DEF Reply
    <2>2. /\ last \in items /\ last \in V /\ last \in Row
          /\ \A j \in items : j = last \/ Before(Key(j), Key(last))
      BY <1>4, <1>5, <1>6 DEF Last
    <2>3. pc' = "request"
      BY <1>2, <1>3, <1>15 DEF Reply
    <2>4. cursor' \in Time \X Row
      BY <2>1, <2>2, KeyType
    <2>5. Complete'
      BY <2>3 DEF Complete
    <2>6. StandInv'
      BY <1>7, <1>13, <2>3, <2>4, ConstantsAssumption DEF StandInv
    <2>7. ASSUME "damaged" \notin upset, NEW j \in seen' PROVE ~Before(Key(last), Key(j))
      <3>1. j \in Row /\ Key(j) \in Time \X Row /\ Key(last) \in Time \X Row
        BY <1>4, <1>5, <1>6, <1>7, <2>2, KeyType DEF TypeOK
      <3>2. CASE j \in items
        BY <1>3, <2>2, <3>1, <3>2, BeforeOrder
      <3>3. CASE j \in seen
        <4>1. c \in Time \X Row /\ ~Before(c, Key(j)) /\ Before(c, Key(last))
          BY <1>3, <1>9, <2>2, <2>7, <3>3 DEF StandInv, CursorInv
        <4> QED
          BY <1>3, <3>1, <4>1, BeforeOrder
      <3> QED
        BY <1>7, <3>2, <3>3
    <2>8. ASSUME NEW j \in kept', ~Before(Key(last), Key(j)) PROVE j \in seen'
      <3>1. SUFFICES ASSUME j \in V PROVE j \in items
        BY <1>7, <1>10
      <3>2. SUFFICES ASSUME j # last PROVE j \in items
        BY <2>2
      <3>3. Key(j) \in Time \X Row /\ Key(last) \in Time \X Row /\ Key(j) # Key(last)
        BY <1>4, <2>2, <3>1, <3>2, KeyType DEF Key
      <3>4. Before(Key(j), Key(last))
        BY <1>3, <2>8, <3>3, BeforeOrder
      <3> QED
        BY <1>5, <1>6, <2>2, <3>1, <3>4 DEF Front
    <2>9. CursorInv'
      BY <1>7, <1>8, <2>1, <2>7, <2>8 DEF CursorInv
    <2> QED
      BY <1>12, <2>5, <2>6, <2>9
  <1> QED
    BY <1>3, <1>5, <1>14, <1>15

----------------------------------------------------------------------------
(* The theorems.                                                           *)

\* Every step keeps the invariant.
LEMMA InvStep == IInv /\ [Next]_vars => IInv'
  <1> SUFFICES ASSUME IInv, [Next]_vars PROVE IInv'
    OBVIOUS
  <1>1. TypeOK'
    BY TypeStep DEF IInv
  <1> SUFFICES StandInv' /\ CursorInv' /\ NoRepeat' /\ Complete'
    BY <1>1 DEF IInv
  <1>2. CASE KeysetPage
    BY <1>2, KeysetStep
  <1>3. CASE Count
    BY <1>3 DEF IInv, Count, query, rows, StandInv, CursorInv, NoRepeat, Complete,
                Keyset, Visible
  <1>4. CASE OffsetPage
    <2>1. ~Keyset
      BY <1>4 DEF OffsetPage, IInv, StandInv
    <2>2. PICK items \in Slices(Visible, Offset(page), limit) : Return(items)
      BY <1>4 DEF OffsetPage
    <2>3. items \subseteq Visible
      BY DEF Slices
    <2>4. StandInv'
      BY <1>4, <2>1, <2>2, <2>3 DEF IInv, StandInv, OffsetPage, Return, query, rows, Keyset, Visible
    <2> QED
      BY <2>1, <2>2, <2>4 DEF CursorInv, NoRepeat, Complete, Return, query, Keyset
  <1>5. CASE DamageCursor
    BY <1>5, ConstantsAssumption
       DEF IInv, DamageCursor, query, rows, StandInv, CursorInv, NoRepeat, Complete,
           Keyset, Visible
  <1>6. CASE NewWalk
    BY <1>6, ConstantsAssumption
       DEF NewWalk, query, rows, StandInv, CursorInv, NoRepeat, Complete, Keyset, Visible
  <1>7. ASSUME NEW i \in Row, NEW t \in Time, Arrive(i, t)
        PROVE  StandInv' /\ CursorInv' /\ NoRepeat' /\ Complete'
    <2>1. Committed /\ \A j \in Row : st[j] # "none" => st'[j] # "none" /\ ts'[j] = ts[j]
      BY <1>7 DEF Arrive, IInv, TypeOK
    <2> QED
      BY <2>1, ChangeStep
  <1>8. ASSUME NEW i \in Row, Patch(i) \/ SoftDelete(i)
        PROVE  StandInv' /\ CursorInv' /\ NoRepeat' /\ Complete'
    <2>1. Committed /\ \A j \in Row : st[j] # "none" => st'[j] # "none" /\ ts'[j] = ts[j]
      BY <1>8 DEF Patch, SoftDelete, IInv, TypeOK
    <2> QED
      BY <2>1, ChangeStep
  <1>9. CASE PurgeTask
    <2>1. Committed /\ \A j \in Row : st[j] # "none" => st'[j] # "none" /\ ts'[j] = ts[j]
      BY <1>9 DEF PurgeTask
    <2> QED
      BY <2>1, ChangeStep
  <1>10. CASE UNCHANGED vars
    BY <1>10 DEF IInv, vars, query, rows, StandInv, CursorInv, NoRepeat, Complete,
                 Keyset, Visible, Key, Before, Ascending, Less
  <1> QED
    BY <1>2, <1>3, <1>4, <1>5, <1>6, <1>7, <1>8, <1>9, <1>10 DEF Next, Walk

\* The inductive invariant of a walk: where the cursor stands among what was shown
\* and what was kept (list_tasks_cursor, list_comments_cursor).
THEOREM Invariance == Spec => []IInv
  BY InvInit, InvStep, PTL DEF Spec

\* A walk by cursors shows no row twice, for any table, page size and sequence of
\* changes, as long as no cursor is spoiled.
THEOREM WalksNeverRepeat == Spec => []NoRepeat
  BY Invariance, PTL DEF IInv

\* A walk by cursors that has ended has shown every row that was there throughout,
\* for any table, page size and sequence of changes.
THEOREM WalksAreComplete == Spec => []Complete
  BY Invariance, PTL DEF IInv

----------------------------------------------------------------------------
(* Walks by page numbers.                                                  *)

\* The rows of the listing up to one of them: their number is its rank.
Upto(i) == {j \in Visible : j = i \/ Before(Key(j), Key(i))}

\* As long as no row comes, what was shown stays within the pages that were read;
\* as long as none leaves, what was not shown stays behind them.
OffsetInv ==
  ~Keyset =>
    /\ ~begun \/ pc = "ended" => page = 1
    /\ pc = "select" /\ "torn" \notin upset => total = Cardinality(Visible)
    /\ Untied /\ "came" \notin upset =>
         /\ ~again
         /\ pc # "ended" => \A i \in seen \cap Visible : Cardinality(Upto(i)) <= Offset(page)
    /\ Untied /\ upset \cap {"left", "torn"} = {} =>
         /\ pc = "ended" => kept \subseteq seen
         /\ pc # "ended" => \A i \in kept \ seen : Cardinality(Upto(i)) > Offset(page)

\* The next offset is a page further.
LEMMA OffsetSteps ==
  ASSUME NEW p \in Nat \ {0}, NEW n \in Nat \ {0}
  PROVE  (p - 1) * n \in Nat /\ ((p + 1) - 1) * n = (p - 1) * n + n
  <1>1. PICK k \in Nat : p = k + 1
    BY p - 1 \in Nat
  <1>2. k * n \in Nat /\ (k + 1) * n = k * n + n
    OBVIOUS
  <1>3. p - 1 = k /\ (p + 1) - 1 = k + 1
    BY <1>1
  <1> QED
    BY <1>2, <1>3

\* total_pages pages have room for total rows.
LEMMA PagesSuffice ==
  ASSUME NEW t \in Nat, NEW n \in Nat \ {0}, NEW p \in Nat \ {0}, ~(p < (t + n - 1) \div n)
  PROVE  t <= (p - 1) * n + n
  <1> DEFINE q == (t + n - 1) \div n
  <1>1. q \in Nat /\ t <= q * n
    OBVIOUS
  <1> HIDE DEF q
  <1>2. q <= p
    BY <1>1 DEF q
  <1>3. q * n <= p * n
    BY <1>1, <1>2
  <1>4. p * n = (p - 1) * n + n
    BY OffsetSteps
  <1> QED
    BY <1>1, <1>3, <1>4

\* Where a page lies among the rows of the listing: its rows are the ones behind the
\* offset, and the rows behind the offset that are not on it lie behind it.
LEMMA PageFacts ==
  ASSUME TypeOK, NEW off \in Nat, NEW n \in Nat \ {0}, NEW P \in Slices(Visible, off, n),
         \A x, y \in Visible : x = y \/ Before(Key(x), Key(y)) \/ Before(Key(y), Key(x))
  PROVE  /\ P \subseteq Visible
         /\ \A i \in Visible : Cardinality(Upto(i)) \in Nat
         /\ \A i \in Visible : Cardinality(Upto(i)) <= Cardinality(Visible)
         /\ \A i \in P : off < Cardinality(Upto(i)) /\ Cardinality(Upto(i)) <= off + n
         /\ \A i \in Visible \ P : Cardinality(Upto(i)) > off => Cardinality(Upto(i)) > off + n
  <1> DEFINE V == Visible
  <1>1. PICK B \in SUBSET (V \ P) :
          /\ Cardinality(B) = Min({off, Cardinality(V)})
          /\ Cardinality(P) = Min({n, Cardinality(V) - Cardinality(B)})
          /\ Front(B, V) /\ Front(P, V \ B)
    BY DEF Slices
  <1>2. P \in SUBSET V
    BY DEF Slices
  <1>3. IsFiniteSet(V) /\ IsFiniteSet(B) /\ IsFiniteSet(P) /\ IsFiniteSet(V \ B)
        /\ \A i \in V : IsFiniteSet(Upto(i)) /\ Upto(i) \in SUBSET V
    <2>1. IsFiniteSet(V)
      BY ConstantsAssumption, FS_Subset DEF Visible
    <2>2. IsFiniteSet(B) /\ IsFiniteSet(P) /\ IsFiniteSet(V \ B)
      BY <1>2, <2>1, FS_Subset
    <2>3. \A i \in V : Upto(i) \in SUBSET V
      BY DEF Upto
    <2> QED
      BY <2>1, <2>2, <2>3, FS_Subset
  <1>4. /\ Cardinality(V) \in Nat /\ Cardinality(B) \in Nat /\ Cardinality(P) \in Nat
        /\ Cardinality(V \ B) \in Nat
        /\ \A i \in V : Cardinality(Upto(i)) \in Nat /\ Cardinality(Upto(i)) <= Cardinality(V)
    BY <1>3, FS_CardinalityType, FS_Subset
  <1>5. /\ Cardinality(B) <= off /\ Cardinality(B) <= Cardinality(V)
        /\ Cardinality(B) = off \/ Cardinality(B) = Cardinality(V)
    BY <1>1, <1>4, MinFacts
  <1>6. /\ Cardinality(P) <= n
        /\ Cardinality(P) = n \/ Cardinality(P) = Cardinality(V) - Cardinality(B)
        /\ Cardinality(P) <= Cardinality(V) - Cardinality(B)
    <2>1. Cardinality(V) - Cardinality(B) \in Nat
      BY <1>4, <1>5
    <2> QED
      BY <1>1, <1>4, <2>1, MinFacts
  <1>7. Cardinality(B) < Cardinality(V) => Cardinality(B) = off
    BY <1>4, <1>5
  <1>8. Cardinality(V \ B) = Cardinality(V) - Cardinality(B)
    <2>1. V \cap B = B
      OBVIOUS
    <2> QED
      BY <1>3, <2>1, FS_Difference
  <1>9. IsFiniteSet(B \cup P) /\ Cardinality(B \cup P) = Cardinality(B) + Cardinality(P)
    <2>1. B \cap P = {}
      OBVIOUS
    <2>2. Cardinality(B \cap P) = 0
      BY <2>1, FS_EmptySet
    <2>3. /\ IsFiniteSet(B \cup P)
          /\ Cardinality(B \cup P) = Cardinality(B) + Cardinality(P) - Cardinality(B \cap P)
      BY <1>3, FS_Union
    <2> QED
      BY <1>4, <2>2, <2>3
  <1>10. \A s \in B, x \in V \ B : Before(Key(s), Key(x))
    BY <1>1 DEF Front
  <1>11. \A s \in P, x \in (V \ B) \ P : Before(Key(s), Key(x))
    BY <1>1, <1>2 DEF Front
  <1>12. ASSUME NEW i \in P
         PROVE  off < Cardinality(Upto(i)) /\ Cardinality(Upto(i)) <= off + n
    <2>1. i \in V /\ i \notin B
      BY <1>2
    <2>2. Cardinality(P) # 0
      BY <1>3, FS_EmptySet
    <2>3. Cardinality(B) = off
      BY <1>4, <1>6, <1>7, <2>2
    <2>4. B \cup {i} \in SUBSET Upto(i)
      BY <1>10, <2>1 DEF Upto
    <2>5. Cardinality(B \cup {i}) = off + 1
      BY <1>3, <2>1, <2>3, FS_AddElement
    <2>6. off + 1 <= Cardinality(Upto(i))
      BY <1>3, <2>1, <2>4, <2>5, FS_Subset
    <2>7. Upto(i) \in SUBSET (B \cup P)
      BY <1>1, <2>1 DEF Upto, Front
    <2>8. Cardinality(Upto(i)) <= Cardinality(B \cup P)
      BY <1>9, <2>7, FS_Subset
    <2> QED
      BY <1>4, <1>6, <1>9, <2>1, <2>3, <2>6, <2>8
  <1>13. ASSUME NEW i \in V \ P, Cardinality(Upto(i)) > off
         PROVE  Cardinality(Upto(i)) > off + n
    <2>1. i \notin B
      <3> SUFFICES ASSUME i \in B PROVE FALSE
        OBVIOUS
      <3>1. Upto(i) \in SUBSET B
        BY <1>1 DEF Upto, Front
      <3>2. Cardinality(Upto(i)) <= Cardinality(B)
        BY <1>3, <3>1, FS_Subset
      <3> QED
        BY <1>4, <1>5, <1>13, <3>2
    <2>2. P \in SUBSET (V \ B) /\ P # V \ B
      BY <1>2, <2>1
    <2>3. Cardinality(P) # Cardinality(V \ B)
      BY <1>3, <2>2, FS_Subset
    <2>4. Cardinality(P) = n
      BY <1>6, <1>8, <2>3
    <2>5. Cardinality(B) = off
      <3>1. Cardinality(B) # Cardinality(V)
        BY <1>3, <2>1, FS_Subset
      <3> QED
        BY <1>5, <3>1
    <2>6. (B \cup P) \cup {i} \in SUBSET Upto(i)
      BY <1>2, <1>10, <1>11, <2>1 DEF Upto
    <2>7. Cardinality((B \cup P) \cup {i}) = off + n + 1
      BY <1>9, <2>1, <2>4, <2>5, FS_AddElement
    <2>8. off + n + 1 <= Cardinality(Upto(i))
      BY <1>3, <2>6, <2>7, FS_Subset
    <2> QED
      BY <1>4, <2>8
  <1> QED
    BY <1>2, <1>4, <1>12, <1>13

\* Ranks are numbers, and grow and shrink with the listing.
LEMMA RankFacts ==
  ASSUME TypeOK, TypeOK', listing' = listing,
         \A j \in Row : st[j] # "none" => ts'[j] = ts[j],
         NEW i \in Row, st[i] # "none"
  PROVE  /\ Cardinality(Upto(i)) \in Nat /\ Cardinality(Upto(i))' \in Nat
         /\ Visible' \subseteq Visible => Cardinality(Upto(i))' <= Cardinality(Upto(i))
         /\ Visible \subseteq Visible' => Cardinality(Upto(i)) <= Cardinality(Upto(i))'
  <1>1. IsFiniteSet(Upto(i)) /\ IsFiniteSet(Upto(i)')
    <2>1. Upto(i) \in SUBSET Row /\ Upto(i)' \in SUBSET Row
      BY DEF Upto, Visible
    <2> QED
      BY <2>1, ConstantsAssumption, FS_Subset
  <1>2. Cardinality(Upto(i)) \in Nat /\ Cardinality(Upto(i)') \in Nat
    BY <1>1, FS_CardinalityType
  <1>3. \A x, y : Before(x, y)' <=> Before(x, y)
    BY DEF Before, Ascending, Less
  <1>4. Key(i)' = Key(i) /\ \A j \in Visible : Key(j)' = Key(j)
    BY DEF Key, Visible
  <1>5. ASSUME Visible' \subseteq Visible
        PROVE  Cardinality(Upto(i)') <= Cardinality(Upto(i))
    <2>1. Upto(i)' \in SUBSET Upto(i)
      BY <1>3, <1>4, <1>5 DEF Upto
    <2> QED
      BY <1>1, <2>1, FS_Subset
  <1>6. ASSUME Visible \subseteq Visible'
        PROVE  Cardinality(Upto(i)) <= Cardinality(Upto(i)')
    <2>1. Upto(i) \in SUBSET Upto(i)'
      BY <1>3, <1>4, <1>6 DEF Upto
    <2> QED
      BY <1>1, <2>1, FS_Subset
  <1> QED
    BY <1>2, <1>5, <1>6

\* An order that is definite after a commit was definite before it.
LEMMA UntiedBefore ==
  ASSUME listing' = listing, Untied',
         \A j \in Row : st[j] # "none" => st'[j] # "none" /\ ts'[j] = ts[j]
  PROVE  Untied
  <1>1. \A x, y : Before(x, y)' <=> Before(x, y)
    BY DEF Before, Ascending, Less
  <1>2. \A j \in Row : st[j] # "none" => Key(j)' = Key(j)
    BY DEF Key
  <1> QED
    BY <1>1, <1>2 DEF Untied

\* A commit moves no row across the pages that were read, but for the reasons noted.
LEMMA ChangeOffset ==
  ASSUME IInv, IInv', OffsetInv, Committed,
         \A i \in Row : st[i] # "none" => st'[i] # "none" /\ ts'[i] = ts[i]
  PROVE  OffsetInv'
  <1>1. /\ UNCHANGED <<listing, limit, pc, page, total, begun, seen, again>>
        /\ pc # "ended" /\ upset \subseteq upset' /\ kept' = kept \ (Visible \ Visible')
        /\ begun /\ "came" \notin upset' => Visible' \subseteq Visible
        /\ begun /\ "left" \notin upset' => Visible \subseteq Visible'
        /\ pc = "select" /\ "torn" \notin upset' => Visible' = Visible
    BY DEF Committed, query
  <1>2. TypeOK /\ TypeOK' /\ StandInv
    BY DEF IInv
  <1>3. Offset(page)' = Offset(page) /\ Offset(page) \in Nat
    <2>1. page \in Nat \ {0} /\ limit \in Nat \ {0}
      BY <1>2, ConstantsAssumption DEF TypeOK
    <2> QED
      BY <1>1, <2>1, OffsetSteps DEF Offset
  <1> SUFFICES ASSUME ~Keyset PROVE OffsetInv'
    BY <1>1 DEF OffsetInv, Keyset
  <1>4. \A i \in seen \cup kept : i \in Row /\ st[i] # "none"
    BY <1>2 DEF StandInv, TypeOK, Visible
  <1>5. (~begun \/ pc = "ended" => page = 1)'
    BY <1>1 DEF OffsetInv
  <1>6. (pc = "select" /\ "torn" \notin upset => total = Cardinality(Visible))'
    BY <1>1 DEF OffsetInv
  <1>7. ASSUME Untied', "came" \notin upset'
        PROVE  ~again' /\ \A i \in seen' \cap Visible' : Cardinality(Upto(i))' <= Offset(page)'
    <2>1. Untied /\ "came" \notin upset
      BY <1>1, <1>7, UntiedBefore
    <2>2. ~again
      BY <2>1 DEF OffsetInv
    <2>3. ASSUME NEW i \in seen \cap Visible' PROVE Cardinality(Upto(i))' <= Offset(page)
      <3>1. begun
        BY <1>2 DEF StandInv
      <3>2. Visible' \subseteq Visible
        BY <1>1, <1>7, <3>1
      <3>3. Cardinality(Upto(i)) <= Offset(page)
        BY <1>1, <2>1, <3>2 DEF OffsetInv
      <3>4. /\ Cardinality(Upto(i)) \in Nat /\ Cardinality(Upto(i))' \in Nat
            /\ Cardinality(Upto(i))' <= Cardinality(Upto(i))
        BY <1>1, <1>2, <1>4, <3>2, RankFacts
      <3> QED
        BY <1>3, <3>3, <3>4
    <2> QED
      BY <1>1, <1>3, <2>2, <2>3
  <1>8. ASSUME Untied', upset' \cap {"left", "torn"} = {}
        PROVE  \A i \in kept' \ seen' : Cardinality(Upto(i))' > Offset(page)'
    <2>1. Untied /\ upset \cap {"left", "torn"} = {}
      BY <1>1, <1>8, UntiedBefore
    <2>2. ASSUME NEW i \in kept \ seen PROVE Cardinality(Upto(i))' > Offset(page)
      <3>1. begun
        BY <1>2 DEF StandInv
      <3>2. Visible \subseteq Visible'
        BY <1>1, <1>8, <3>1
      <3>3. Cardinality(Upto(i)) > Offset(page)
        BY <1>1, <2>1 DEF OffsetInv
      <3>4. /\ Cardinality(Upto(i)) \in Nat /\ Cardinality(Upto(i))' \in Nat
            /\ Cardinality(Upto(i)) <= Cardinality(Upto(i))'
        BY <1>1, <1>2, <1>4, <3>2, RankFacts
      <3> QED
        BY <1>3, <3>3, <3>4
    <2> QED
      BY <1>1, <1>3, <2>2
  <1> QED
    BY <1>1, <1>5, <1>6, <1>7, <1>8 DEF OffsetInv

\* A page by its number shows no row again and leaves none behind, but for the
\* reasons noted.
LEMMA PageOffset ==
  ASSUME IInv, OffsetInv, OffsetPage
  PROVE  OffsetInv'
  <1>0. TypeOK /\ StandInv
    BY DEF IInv
  <1>1. pc = "select" /\ total' = 0 /\ ~Keyset
    BY <1>0 DEF OffsetPage, StandInv
  <1>2. PICK P \in Slices(Visible, Offset(page), limit) : Return(P)
    BY DEF OffsetPage
  <1>3. /\ begun' = TRUE /\ seen' = seen \cup P /\ again' = (again \/ seen \cap P # {})
        /\ kept' = (IF begun THEN kept ELSE Visible)
        /\ UNCHANGED <<listing, limit, st, ts, upset>>
    BY <1>2 DEF Return, query, rows
  <1>4. /\ Visible' = Visible /\ Untied' = Untied /\ \A i : Upto(i)' = Upto(i)
        /\ Keyset' = Keyset
    BY <1>3 DEF Visible, Untied, Upto, Before, Ascending, Less, Key, Keyset
  <1>5. page \in Nat \ {0} /\ limit \in Nat \ {0} /\ total \in Nat
    BY <1>0, ConstantsAssumption DEF TypeOK
  <1>6. Offset(page) \in Nat /\ Offset(page + 1) = Offset(page) + limit
    BY <1>5, OffsetSteps DEF Offset
  <1>7. \/ pc' = "request" /\ page' = page + 1
        \/ pc' = "ended" /\ page' = 1 /\ ~(page < TotalPages)
    BY DEF OffsetPage
  <1>8. pc' = "request" => Offset(page)' = Offset(page) + limit
    BY <1>3, <1>6, <1>7 DEF Offset
  <1>9. ASSUME Untied
        PROVE  /\ P \subseteq Visible
               /\ \A i \in Visible : Cardinality(Upto(i)) \in Nat
               /\ \A i \in Visible : Cardinality(Upto(i)) <= Cardinality(Visible)
               /\ \A i \in P : /\ Offset(page) < Cardinality(Upto(i))
                               /\ Cardinality(Upto(i)) <= Offset(page) + limit
               /\ \A i \in Visible \ P : Cardinality(Upto(i)) > Offset(page) =>
                                           Cardinality(Upto(i)) > Offset(page) + limit
    <2>1. \A x, y \in Visible : x = y \/ Before(Key(x), Key(y)) \/ Before(Key(y), Key(x))
      BY <1>9 DEF Untied, Visible
    <2> QED
      BY <1>0, <1>5, <1>6, <2>1, PageFacts
  <1>10. ASSUME Untied, "came" \notin upset
         PROVE  /\ ~again'
                /\ pc' = "request" =>
                     \A i \in seen' \cap Visible : Cardinality(Upto(i)) <= Offset(page) + limit
    <2>1. ~again /\ \A i \in seen \cap Visible : Cardinality(Upto(i)) <= Offset(page)
      BY <1>1, <1>10 DEF OffsetInv
    <2>2. seen \cap P = {}
      <3> SUFFICES ASSUME NEW i \in seen \cap P PROVE FALSE
        OBVIOUS
      <3>1. i \in Visible /\ Cardinality(Upto(i)) \in Nat
        BY <1>9, <1>10
      <3>2. Cardinality(Upto(i)) <= Offset(page) /\ Offset(page) < Cardinality(Upto(i))
        BY <1>9, <1>10, <2>1, <3>1
      <3> QED
        BY <1>6, <3>1, <3>2
    <2>3. ASSUME NEW i \in seen' \cap Visible PROVE Cardinality(Upto(i)) <= Offset(page) + limit
      <3>1. Cardinality(Upto(i)) \in Nat
        BY <1>9, <1>10
      <3>2. CASE i \in P
        BY <1>9, <1>10, <3>2
      <3>3. CASE i \in seen
        <4>1. Cardinality(Upto(i)) <= Offset(page)
          BY <2>1, <3>3
        <4> QED
          BY <1>5, <1>6, <3>1, <4>1
      <3> QED
        BY <1>3, <3>2, <3>3
    <2> QED
      BY <1>3, <2>1, <2>2, <2>3
  <1>11. ASSUME Untied, upset \cap {"left", "torn"} = {}, NEW i \in kept' \ seen'
         PROVE  /\ pc' = "request" /\ Cardinality(Upto(i)) > Offset(page) + limit
    <2>1. i \in Visible \ P /\ i \notin seen /\ Cardinality(Upto(i)) \in Nat
      BY <1>0, <1>3, <1>9, <1>11 DEF StandInv
    <2>2. Cardinality(Upto(i)) > Offset(page)
      <3>1. CASE begun
        BY <1>1, <1>3, <1>11, <2>1, <3>1 DEF OffsetInv
      <3>2. CASE ~begun
        <4>1. Offset(page) = 0
          BY <1>1, <1>5, <3>2 DEF OffsetInv, Offset
        <4>2. IsFiniteSet(Upto(i)) /\ i \in Upto(i)
          <5>1. Upto(i) \in SUBSET Row
            BY DEF Upto, Visible
          <5> QED
            BY <2>1, <5>1, ConstantsAssumption, FS_Subset DEF Upto
        <4>3. Cardinality(Upto(i)) # 0
          BY <4>2, FS_EmptySet
        <4> QED
          BY <2>1, <4>1, <4>3
      <3> QED
        BY <3>1, <3>2
    <2>3. Cardinality(Upto(i)) > Offset(page) + limit
      BY <1>9, <1>11, <2>1, <2>2
    <2>4. page < TotalPages
      <3> SUFFICES ASSUME ~(page < TotalPages) PROVE FALSE
        OBVIOUS
      <3>1. total <= Offset(page) + limit
        BY <1>5, PagesSuffice DEF TotalPages, Offset
      <3>2. total = Cardinality(Visible)
        BY <1>1, <1>11 DEF OffsetInv
      <3>3. Cardinality(Upto(i)) <= Cardinality(Visible)
        BY <1>9, <1>11, <2>1
      <3> QED
        BY <1>5, <1>6, <2>1, <2>3, <3>1, <3>2, <3>3
    <2> QED
      BY <1>7, <2>3, <2>4
  <1>12. (~begun \/ pc = "ended" => page = 1)'
    BY <1>3, <1>7
  <1>13. pc' # "select"
    BY <1>7
  <1>14. (Untied /\ "came" \notin upset =>
            /\ ~again
            /\ pc # "ended" => \A i \in seen \cap Visible : Cardinality(Upto(i)) <= Offset(page))'
    BY <1>3, <1>4, <1>7, <1>8, <1>10
  <1>15. (Untied /\ upset \cap {"left", "torn"} = {} =>
            /\ pc = "ended" => kept \subseteq seen
            /\ pc # "ended" => \A i \in kept \ seen : Cardinality(Upto(i)) > Offset(page))'
    <2> SUFFICES ASSUME Untied, upset \cap {"left", "torn"} = {}
                 PROVE  /\ pc' = "ended" => kept' \subseteq seen'
                        /\ pc' # "ended" => \A i \in kept' \ seen' :
                                              Cardinality(Upto(i)) > Offset(page)'
      BY <1>3, <1>4
    <2>1. CASE pc' = "ended"
      BY <1>11, <2>1
    <2>2. CASE pc' = "request"
      BY <1>8, <1>11, <2>2
    <2> QED
      BY <1>7, <2>1, <2>2
  <1> QED
    BY <1>12, <1>13, <1>14, <1>15 DEF OffsetInv

\* Every step keeps the invariant of the walks by page numbers.
LEMMA OffsetStep ==
  ASSUME IInv, IInv', OffsetInv, [Next]_vars
  PROVE  OffsetInv'
  <1>0. TypeOK
    BY DEF IInv
  <1>1. ASSUME UNCHANGED <<listing, limit, st, ts>>
        PROVE  /\ Visible' = Visible /\ Untied' = Untied /\ Keyset' = Keyset
               /\ \A i : Upto(i)' = Upto(i)
    BY <1>1 DEF Visible, Untied, Upto, Before, Ascending, Less, Key, Keyset
  <1>2. CASE KeysetPage
    <2>1. Keyset /\ listing' = listing
      BY <1>2 DEF KeysetPage, Reply, Return, query
    <2> QED
      BY <2>1 DEF OffsetInv, Keyset
  <1>3. CASE Count
    <2>1. /\ UNCHANGED <<listing, limit, st, ts, page, begun, seen, again, kept, upset>>
          /\ pc = "request" /\ pc' = "select" /\ total' = Cardinality(Visible)
      BY <1>3 DEF Count, query, rows
    <2> QED
      BY <1>1, <2>1 DEF OffsetInv, Offset
  <1>4. CASE OffsetPage
    BY <1>4, PageOffset
  <1>5. CASE DamageCursor
    <2>1. /\ UNCHANGED <<listing, limit, st, ts, pc, page, total, begun, seen, again, kept>>
          /\ upset' = upset \cup {"damaged"}
      BY <1>5 DEF DamageCursor, query, rows
    <2> QED
      BY <1>1, <2>1 DEF OffsetInv, Offset
  <1>6. CASE NewWalk
    <2>1. /\ UNCHANGED <<listing, limit, st, ts, page>> /\ pc = "ended" /\ pc' = "request"
          /\ seen' = {} /\ kept' = {} /\ again' = FALSE /\ begun' = FALSE
      BY <1>6 DEF NewWalk, query, rows
    <2> QED
      BY <1>1, <2>1 DEF OffsetInv
  <1>7. ASSUME NEW i \in Row, NEW t \in Time, Arrive(i, t) PROVE OffsetInv'
    <2>1. Committed /\ \A j \in Row : st[j] # "none" => st'[j] # "none" /\ ts'[j] = ts[j]
      BY <1>0, <1>7 DEF Arrive, TypeOK
    <2> QED
      BY <2>1, ChangeOffset
  <1>8. ASSUME NEW i \in Row, Patch(i) \/ SoftDelete(i) PROVE OffsetInv'
    <2>1. Committed /\ \A j \in Row : st[j] # "none" => st'[j] # "none" /\ ts'[j] = ts[j]
      BY <1>0, <1>8 DEF Patch, SoftDelete, TypeOK
    <2> QED
      BY <2>1, ChangeOffset
  <1>9. CASE PurgeTask
    <2>1. Committed /\ \A j \in Row : st[j] # "none" => st'[j] # "none" /\ ts'[j] = ts[j]
      BY <1>9 DEF PurgeTask
    <2> QED
      BY <2>1, ChangeOffset
  <1>10. CASE UNCHANGED vars
    <2>1. UNCHANGED <<listing, limit, st, ts, pc, page, total, begun, seen, again, kept, upset>>
      BY <1>10 DEF vars, query, rows
    <2> QED
      BY <1>1, <2>1 DEF OffsetInv, Offset
  <1> QED
    BY <1>2, <1>3, <1>4, <1>5, <1>6, <1>7, <1>8, <1>9, <1>10 DEF Next, Walk

\* The inductive invariant of a walk by page numbers, on top of the other: the rank
\* of what was shown and of what is still to come (list_tasks_offset,
\* list_audit_logs).
THEOREM OffsetInvariance == Spec => []OffsetInv
  <1>1. Init => OffsetInv
    BY DEF Init, OffsetInv
  <1>2. IInv /\ IInv' /\ OffsetInv /\ [Next]_vars => OffsetInv'
    BY OffsetStep
  <1> QED
    BY <1>1, <1>2, Invariance, PTL DEF Spec

\* A walk by page numbers over rows in a definite order repeats one only because
\* another has come, and misses one that was there throughout only because another
\* has left or a request was torn, for any table and page size.
THEOREM PagesExplained == Spec => []OffsetExplained
  <1>1. OffsetInv => OffsetExplained
    BY DEF OffsetInv, OffsetExplained
  <1> QED
    BY <1>1, OffsetInvariance, PTL
=============================================================================
