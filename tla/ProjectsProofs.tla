--------------------------- MODULE ProjectsProofs ---------------------------
(***************************************************************************)
(* Theorems about Projects, for any number of requests, tenants, projects, *)
(* keys and columns, with or without cache faults.                         *)
(***************************************************************************)
EXTENDS Projects, TLAPS

----------------------------------------------------------------------------
(* The inductive invariant.                                                *)

\* What a request names, and which handler can be at which statement.
FlowInv ==
  \A r \in Req :
     /\ pc[r] # "idle" => arg[r].kind # "none" /\ arg[r].org \in Org
     /\ arg[r].kind = "create" => arg[r].key \in Key
     /\ arg[r].kind \in {"update", "get"} => arg[r].project \in Project
     /\ pc[r] \in {"lookup", "insert"} => arg[r].kind = "create"
     /\ pc[r] \in {"select", "flush", "evict", "cacheget", "fill"} => arg[r].kind # "create"
     /\ pc[r] \in {"flush", "evict"} => arg[r].kind = "update"
     /\ pc[r] \in {"cacheget", "fill"} => arg[r].kind = "get"
     /\ pc[r] = "commit" => arg[r].kind \in {"create", "update"}
     /\ out[r] = 200 => arg[r].kind \in {"update", "get"}

\* A transaction that is about to commit has the lock of its row.
LockInv ==
  \A r \in Req : pc[r] = "commit" =>
     arg[r].project \in Project /\ lock[arg[r].project] = r

\* The row that an open INSERT will add is not there yet, its key is free, and no
\* other open INSERT has the same key.
Inserting(r) == pc[r] = "commit" /\ arg[r].kind = "create"

InsertInv ==
  /\ \A r \in Req : Inserting(r) => ~Exists(arg[r].project) /\ ~KeyTaken(r)
  /\ \A r, q \in Req :
        Inserting(r) /\ Inserting(q) /\ arg[r].org = arg[q].org /\ arg[r].key = arg[q].key
        => r = q

\* The handlers that have found their project in their organization.
Inside(r) ==
  \/ pc[r] \in {"flush", "evict", "fill"} \/ out[r] = 200
  \/ pc[r] = "commit" /\ arg[r].kind = "update"

\* They were right, and so is whatever filled a cache key.
TenantInv ==
  /\ \A r \in Req : Inside(r) => Found(arg[r].org, arg[r].project)
  /\ \A o \in Org, p \in Project : cache[CacheKey(o, p)] # None => Found(o, p)

\* The values of a project's columns were written by requests that have committed.
WriterInv ==
  \A p \in Project, f \in Field : Exists(p) =>
     rows[p].val[f] \in Req /\ pc[rows[p].val[f]] \in {"evict", "done"}

\* What a GET is about to cache is the committed project, unless the GET is missed.
FillInv ==
  \A r \in Req : pc[r] = "fill" =>
     r \in missed \/ obj[r] = ContentOf(rows[arg[r].project])

IInv == /\ TypeOK /\ FlowInv /\ LockInv /\ InsertInv /\ TenantInv
        /\ WriterInv /\ FillInv /\ KeyUnique /\ ValuesAudited /\ StaleExplained

----------------------------------------------------------------------------
(* What the handlers write.                                                *)

\* The arguments of a POST.
LEMMA CreateArg ==
  ASSUME NEW o \in Org, NEW k \in Key
  PROVE  LET a == [NoArg EXCEPT !.kind = "create", !.org = o, !.key = k]
         IN a \in Arg /\ a.kind = "create" /\ a.org = o /\ a.key = k
  BY DEF NoArg, Arg

\* The arguments of a GET.
LEMMA GetArg ==
  ASSUME NEW o \in Org, NEW p \in Project
  PROVE  LET a == [NoArg EXCEPT !.kind = "get", !.org = o, !.project = p]
         IN a \in Arg /\ a.kind = "get" /\ a.org = o /\ a.project = p
  BY DEF NoArg, Arg

\* What Start does, for the three handlers.
LEMMA StartFacts ==
  ASSUME TypeOK, NEW r \in Req, PostProject(r) \/ PatchProject(r) \/ GetProject(r)
  PROVE  \E a \in Arg, label \in {"lookup", "select", "cacheget"} :
            /\ Start(r, label, a)
            /\ a.org \in Org
            /\ \/ a.kind = "create" /\ label = "lookup" /\ a.key \in Key
               \/ a.kind = "update" /\ label = "select" /\ a.project \in Project
               \/ a.kind = "get" /\ label = "cacheget" /\ a.project \in Project
  <1>1. CASE PostProject(r)
    <2>1. PICK o \in Org, k \in Key :
            Start(r, "lookup", [NoArg EXCEPT !.kind = "create", !.org = o, !.key = k])
      BY <1>1 DEF PostProject
    <2> QED
      BY <2>1, CreateArg
  <1>2. CASE PatchProject(r)
    <2>1. PICK o \in Org, p \in Project, S \in SUBSET Field, e \in Nat :
            Start(r, "select", [NoArg EXCEPT !.kind = "update", !.org = o,
                                             !.project = p, !.exp = e, !.set = S])
      <3>1. \A e \in Expected : e \in Nat
        BY ConstantsAssumption DEF Expected
      <3> QED
        BY <1>2, <3>1, Zenon DEF PatchProject
    <2> DEFINE a == [NoArg EXCEPT !.kind = "update", !.org = o, !.project = p, !.exp = e, !.set = S]
    <2>2. a \in Arg /\ a.kind = "update" /\ a.org = o /\ a.project = p
      BY DEF NoArg, Arg
    <2> HIDE DEF a
    <2>3. Start(r, "select", a)
      BY <2>1 DEF a
    <2> QED
      BY <2>2, <2>3
  <1>3. CASE GetProject(r)
    <2>1. PICK o \in Org, p \in Project :
            Start(r, "cacheget", [NoArg EXCEPT !.kind = "get", !.org = o, !.project = p])
      BY <1>3 DEF GetProject
    <2> QED
      BY <2>1, GetArg
  <1> QED
    BY <1>1, <1>2, <1>3

\* The row that a transaction leaves.
LEMMA WrittenFacts ==
  ASSUME NEW r \in Req, arg[r] \in Arg, obj[r] \in Content, NEW row \in Row
  PROVE  LET new == Written(r, row)
         IN /\ new \in Row /\ new.ver > 0
            /\ arg[r].kind = "create" =>
                 /\ new.org = arg[r].org /\ new.key = arg[r].key
                 /\ \A f \in Field : new.val[f] = r
            /\ arg[r].kind # "create" =>
                 /\ new.org = row.org /\ new.key = row.key
                 /\ \A f \in Field : new.val[f] = IF f \in arg[r].set THEN r ELSE row.val[f]
  <1>1. CASE arg[r].kind = "create"
    BY <1>1 DEF Written, Row, Arg
  <1>2. CASE arg[r].kind # "create"
    <2> DEFINE v == [f \in Field |-> IF f \in arg[r].set THEN r ELSE row.val[f]]
    <2>1. v \in [Field -> Req \cup {None}]
      BY DEF Row
    <2>2. Written(r, row) = [row EXCEPT !.ver = obj[r].ver + 1, !.val = v]
      BY <1>2 DEF Written
    <2>3. \A f \in Field : v[f] = IF f \in arg[r].set THEN r ELSE row.val[f]
      OBVIOUS
    <2> HIDE DEF v
    <2>4. Written(r, row) = [[row EXCEPT !.ver = obj[r].ver + 1] EXCEPT !.val = v]
      BY <2>2
    <2>5. [row EXCEPT !.ver = obj[r].ver + 1]
            = [org |-> row.org, key |-> row.key, ver |-> obj[r].ver + 1, val |-> row.val]
      BY DEF Row
    <2>6. Written(r, row) = [org |-> row.org, key |-> row.key, ver |-> obj[r].ver + 1, val |-> v]
      BY <2>4, <2>5
    <2> QED
      BY <1>2, <2>1, <2>3, <2>6 DEF Row, Content
  <1> QED
    BY <1>1, <1>2

\* The view of a row is a content.
LEMMA ViewFacts ==
  ASSUME NEW row \in Row
  PROVE  ContentOf(row) \in Content /\ ContentOf(row).val = row.val
  BY DEF ContentOf, Row, Content

\* The object after the assignments is one, too.
LEMMA EditedFacts ==
  ASSUME NEW r \in Req, obj[r] \in Content
  PROVE  /\ Edited(r) \in Content
         /\ \A f \in Field : f \in arg[r].set => Edited(r).val[f] = r
  BY DEF Content, Edited

\* A state in an audit entry shows the audited columns.
LEMMA ShownFacts ==
  ASSUME NEW c \in Content, NEW S
  PROVE  /\ Shown(c, S) \in Content
         /\ \A f \in Field : f \in S => Shown(c, S).val[f] = c.val[f]
  BY DEF Shown, Content

\* The audit entry of a transaction shows the audited columns that it wrote.
LEMMA RecordFacts ==
  ASSUME NEW r \in Req, arg[r] \in Arg, obj[r] \in Content, arg[r].project \in Project
  PROVE  /\ Record(r) \in Entry
         /\ Record(r).project = arg[r].project /\ Record(r).by = r
         /\ arg[r].kind = "create" =>
              \A f \in CreateAudit : Record(r).after.val[f] = r
         /\ arg[r].kind # "create" =>
              \A f \in UpdateAudit : f \in arg[r].set => Record(r).after.val[f] = r
  <1>0. NoRow \in Row /\ Blank \in Content /\ CreateAudit \subseteq Field /\ UpdateAudit \subseteq Field
    BY ConstantsAssumption DEF NoRow, Row, Blank, Content
  <1>1. CASE arg[r].kind = "create"
    <2> DEFINE c == ContentOf(Written(r, NoRow))
    <2>1. c \in Content /\ \A f \in Field : c.val[f] = r
      BY <1>0, <1>1, WrittenFacts, ViewFacts
    <2>2. Record(r) = [project |-> arg[r].project, by |-> r, before |-> Blank,
                       after |-> Shown(c, CreateAudit)]
      BY <1>1 DEF Record
    <2> HIDE DEF c
    <2>3. /\ Shown(c, CreateAudit) \in Content
          /\ \A f \in CreateAudit : Shown(c, CreateAudit).val[f] = r
      BY <1>0, <2>1, ShownFacts
    <2> QED
      BY <1>0, <1>1, <2>2, <2>3 DEF Entry
  <1>2. CASE arg[r].kind # "create"
    <2>1. Record(r) = [project |-> arg[r].project, by |-> r,
                       before |-> Shown(obj[r], UpdateAudit),
                       after |-> Shown(Edited(r), UpdateAudit)]
      BY <1>2 DEF Record
    <2>2. /\ Shown(obj[r], UpdateAudit) \in Content /\ Shown(Edited(r), UpdateAudit) \in Content
          /\ \A f \in UpdateAudit : f \in arg[r].set => Shown(Edited(r), UpdateAudit).val[f] = r
      BY <1>0, EditedFacts, ShownFacts
    <2> QED
      BY <1>2, <2>1, <2>2 DEF Entry
  <1> QED
    BY <1>1, <1>2

----------------------------------------------------------------------------
(* Type correctness.                                                       *)

\* The empty database satisfies the invariant.
LEMMA InvInit == Init => IInv
  <1> SUFFICES ASSUME Init PROVE IInv
    OBVIOUS
  <1>1. NoRow \in Row /\ Blank \in Content /\ NoArg \in Arg
    BY DEF NoRow, Row, Blank, Content, NoArg, Arg
  <1>2. TypeOK
    BY <1>1 DEF Init, TypeOK
  <1>3. FlowInv /\ LockInv
    BY ConstantsAssumption DEF Init, FlowInv, LockInv, NoArg
  <1>4. \A p \in Project : ~Exists(p)
    BY DEF Init, Exists, NoRow
  <1>5. InsertInv /\ WriterInv /\ KeyUnique /\ ValuesAudited
    BY <1>4 DEF Init, InsertInv, Inserting, WriterInv, KeyUnique, ValuesAudited
  <1>6. TenantInv
    BY ConstantsAssumption DEF Init, TenantInv, Inside, CacheKey, CacheKeys
  <1>7. FillInv /\ StaleExplained
    BY DEF Init, FillInv, StaleExplained, CacheKeys
  <1> QED
    BY <1>2, <1>3, <1>5, <1>6, <1>7 DEF IInv

\* A handler that only moves on, or answers, leaves the state well typed.
LEMMA TypeMove ==
  ASSUME TypeOK, NEW r \in Req, pc[r] # "done",
         rows' \in [Project -> Row], lock' \in [Project -> Req \cup {None}],
         cache' \in [CacheKeys -> Content \cup {None}], arg' \in [Req -> Arg],
         obj' \in [Req -> Content], audit' \subseteq Entry, missed' \subseteq Req,
         \/ /\ UNCHANGED out
            /\ \E label \in {"lookup", "insert", "select", "flush", "commit", "evict",
                             "cacheget", "fill"} : Goto(r, label)
         \/ \E code \in {200, 201, 404, 409, 500} : Answer(r, code)
  PROVE  TypeOK'
  <1>1. CASE UNCHANGED out /\ \E label \in {"lookup", "insert", "select", "flush", "commit",
                                           "evict", "cacheget", "fill"} : Goto(r, label)
    BY <1>1 DEF TypeOK, Goto
  <1>2. CASE \E code \in {200, 201, 404, 409, 500} : Answer(r, code)
    BY <1>2, ConstantsAssumption DEF TypeOK, Goto, Answer
  <1> QED
    BY <1>1, <1>2

\* Every step leaves the state well typed.
LEMMA TypeStep == TypeOK /\ FlowInv /\ LockInv /\ [Next]_vars => TypeOK'
  <1> SUFFICES ASSUME TypeOK, FlowInv, LockInv, [Next]_vars PROVE TypeOK'
    OBVIOUS
  <1>1. ASSUME NEW r \in Req, PostProject(r) \/ PatchProject(r) \/ GetProject(r) PROVE TypeOK'
    <2>1. PICK a \in Arg, label \in {"lookup", "select", "cacheget"} : Start(r, label, a)
      BY <1>1, StartFacts
    <2>2. arg' \in [Req -> Arg]
      BY <2>1 DEF Start, TypeOK
    <2> QED
      BY <2>1, <2>2, TypeMove DEF Start, TypeOK
  <1>4. ASSUME NEW r \in Req, LookupKey(r) PROVE TypeOK'
    BY <1>4, TypeMove DEF LookupKey, TypeOK
  <1>5. ASSUME NEW r \in Req, Insert(r) PROVE TypeOK'
    <2>1. arg' \in [Req -> Arg]
      <3>1. \A p \in Project : [arg EXCEPT ![r].project = p] \in [Req -> Arg]
        BY DEF TypeOK, Arg
      <3> QED
        BY <1>5, <3>1 DEF Insert, TypeOK
    <2>2. lock' \in [Project -> Req \cup {None}]
      BY <1>5 DEF Insert, TypeOK
    <2> QED
      BY <1>5, <2>1, <2>2, TypeMove DEF Insert, TypeOK
  <1>6. ASSUME NEW r \in Req, SelectForUpdate(r) \/ SelectForGet(r) PROVE TypeOK'
    <2>1. arg[r].project \in Project
      BY <1>6 DEF SelectForUpdate, SelectForGet, FlowInv
    <2>2. obj' \in [Req -> Content]
      BY <1>6, <2>1, ViewFacts DEF SelectForUpdate, SelectForGet, TypeOK
    <2> QED
      BY <1>6, <2>2, TypeMove DEF SelectForUpdate, SelectForGet, TypeOK
  <1>7. ASSUME NEW r \in Req, Flush(r) PROVE TypeOK'
    <2>1. lock' \in [Project -> Req \cup {None}]
      BY <1>7 DEF Flush, TypeOK
    <2> QED
      BY <1>7, <2>1, TypeMove DEF Flush, TypeOK
  <1>8. ASSUME NEW r \in Req, Commit(r) PROVE TypeOK'
    <2> DEFINE p == arg[r].project
               new == Written(r, rows[p])
    <2>1. p \in Project /\ arg[r] \in Arg /\ obj[r] \in Content /\ rows[p] \in Row
      BY <1>8 DEF Commit, LockInv, TypeOK
    <2>2. new \in Row
      BY <2>1, WrittenFacts
    <2>3. /\ rows' = [rows EXCEPT ![p] = new]
          /\ lock' = [lock EXCEPT ![p] = None]
          /\ audit' = audit \cup {Record(r)}
          /\ obj' = [obj EXCEPT ![r] = IF arg[r].kind = "create" THEN ContentOf(new)
                                                               ELSE Edited(r)]
      BY <1>8 DEF Commit
    <2>4. ContentOf(new) \in Content /\ Edited(r) \in Content
      BY <2>1, <2>2, ViewFacts, EditedFacts
    <2>5. Record(r) \in Entry
      BY <2>1, RecordFacts
    <2> HIDE DEF new
    <2>6. /\ rows' \in [Project -> Row] /\ lock' \in [Project -> Req \cup {None}]
          /\ obj' \in [Req -> Content] /\ audit' \subseteq Entry
      BY <2>1, <2>2, <2>3, <2>4, <2>5 DEF TypeOK
    <2> QED
      BY <1>8, <2>6, TypeMove DEF Commit, TypeOK
  <1>9. ASSUME NEW r \in Req, Evict(r) \/ Fill(r) PROVE TypeOK'
    <2>1. cache' \in [CacheKeys -> Content \cup {None}]
      BY <1>9 DEF Evict, Fill, TypeOK
    <2> QED
      BY <1>9, <2>1, TypeMove DEF Evict, Fill, TypeOK
  <1>10. ASSUME NEW r \in Req, CacheGet(r) PROVE TypeOK'
    <2> DEFINE k == CacheKey(arg[r].org, arg[r].project)
    <2>1. k \in CacheKeys
      BY <1>10 DEF CacheGet, FlowInv, CacheKey, CacheKeys
    <2>2. obj' \in [Req -> Content]
      BY <1>10, <2>1 DEF CacheGet, TypeOK
    <2> QED
      BY <1>10, <2>2, TypeMove DEF CacheGet, TypeOK
  <1>11. ASSUME NEW r \in Req, Fail(r) PROVE TypeOK'
    <2>1. lock' \in [Project -> Req \cup {None}]
      BY <1>11 DEF Fail, Unlocked, TypeOK
    <2> QED
      BY <1>11, <2>1, TypeMove DEF Fail, InProgress, TypeOK
  <1>12. ASSUME NEW k \in CacheKeys, Expire(k) PROVE TypeOK'
    BY <1>12 DEF Expire, TypeOK
  <1>13. CASE UNCHANGED vars
    BY <1>13 DEF TypeOK, vars
  <1> QED
    BY <1>1, <1>4, <1>5, <1>6, <1>7, <1>8, <1>9, <1>10, <1>11, <1>12, <1>13
    DEF Next, Step, Quiet

----------------------------------------------------------------------------
(* Flow and locks.                                                         *)

\* Every step leaves the handlers where they can be.
LEMMA FlowStep == TypeOK /\ FlowInv /\ LockInv /\ [Next]_vars => FlowInv'
  <1> SUFFICES ASSUME TypeOK, FlowInv, LockInv, [Next]_vars PROVE FlowInv'
    OBVIOUS
  <1>1. ASSUME NEW r \in Req, PostProject(r) \/ PatchProject(r) \/ GetProject(r) PROVE FlowInv'
    <2>1. PICK a \in Arg, label \in {"lookup", "select", "cacheget"} :
            /\ Start(r, label, a)
            /\ a.org \in Org
            /\ \/ a.kind = "create" /\ label = "lookup" /\ a.key \in Key
               \/ a.kind = "update" /\ label = "select" /\ a.project \in Project
               \/ a.kind = "get" /\ label = "cacheget" /\ a.project \in Project
      BY <1>1, StartFacts
    <2>2. out'[r] # 200
      BY <2>1, ConstantsAssumption DEF Start, TypeOK
    <2> QED
      BY <2>1, <2>2 DEF Start, FlowInv, Goto, TypeOK
  <1>2. ASSUME NEW r \in Req, LookupKey(r) PROVE FlowInv'
    BY <1>2 DEF LookupKey, FlowInv, Goto, Answer, TypeOK
  <1>3. ASSUME NEW r \in Req, Insert(r) PROVE FlowInv'
    <2>1. \A q \in Req : /\ arg'[q].kind = arg[q].kind /\ arg'[q].org = arg[q].org
                         /\ arg'[q].key = arg[q].key
                         /\ q # r => arg'[q] = arg[q]
      BY <1>3 DEF Insert, TypeOK, Arg
    <2>2. arg[r].kind = "create"
      BY <1>3 DEF Insert, FlowInv
    <2> QED
      BY <1>3, <2>1, <2>2 DEF Insert, FlowInv, Goto, Answer, TypeOK
  <1>4. ASSUME NEW r \in Req, SelectForUpdate(r) \/ SelectForGet(r) PROVE FlowInv'
    BY <1>4 DEF SelectForUpdate, SelectForGet, FlowInv, Goto, Answer, TypeOK
  <1>5. ASSUME NEW r \in Req, Flush(r) PROVE FlowInv'
    BY <1>5 DEF Flush, FlowInv, Goto, TypeOK
  <1>6. ASSUME NEW r \in Req, Commit(r) PROVE FlowInv'
    BY <1>6 DEF Commit, FlowInv, Goto, Answer, TypeOK
  <1>7. ASSUME NEW r \in Req, Evict(r) \/ Fill(r) PROVE FlowInv'
    BY <1>7 DEF Evict, Fill, FlowInv, Goto, Answer, TypeOK
  <1>8. ASSUME NEW r \in Req, CacheGet(r) PROVE FlowInv'
    BY <1>8 DEF CacheGet, FlowInv, Goto, Answer, TypeOK
  <1>9. ASSUME NEW r \in Req, Fail(r) PROVE FlowInv'
    BY <1>9 DEF Fail, InProgress, FlowInv, Goto, Answer, TypeOK
  <1>10. ASSUME NEW k \in CacheKeys, Expire(k) PROVE FlowInv'
    BY <1>10 DEF Expire, FlowInv
  <1>11. CASE UNCHANGED vars
    BY <1>11 DEF FlowInv, vars
  <1> QED
    BY <1>1, <1>2, <1>3, <1>4, <1>5, <1>6, <1>7, <1>8, <1>9, <1>10, <1>11
    DEF Next, Step, Quiet

\* Two open transactions write different rows.
LEMMA Apart ==
  ASSUME LockInv, NEW r \in Req, NEW q \in Req, q # r, pc[r] = "commit", pc[q] = "commit"
  PROVE  arg[r].project # arg[q].project
  BY DEF LockInv

\* Every step leaves the lock of a row with its transaction.
LEMMA LockStep == TypeOK /\ FlowInv /\ LockInv /\ [Next]_vars => LockInv'
  <1> SUFFICES ASSUME TypeOK, FlowInv, LockInv, [Next]_vars PROVE LockInv'
    OBVIOUS
  <1>1. ASSUME NEW r \in Req, PostProject(r) \/ PatchProject(r) \/ GetProject(r) PROVE LockInv'
    <2>1. PICK a \in Arg, label \in {"lookup", "select", "cacheget"} : Start(r, label, a)
      BY <1>1, StartFacts
    <2> QED
      BY <2>1 DEF Start, LockInv, Goto, TypeOK
  <1>2. ASSUME NEW r \in Req, Insert(r) PROVE LockInv'
    <2>1. CASE Answer(r, 500) /\ UNCHANGED <<lock, arg>>
      BY <2>1 DEF LockInv, Answer, Goto, TypeOK
    <2>2. ASSUME NEW p \in Project, lock[p] = None, lock' = [lock EXCEPT ![p] = r],
                 arg' = [arg EXCEPT ![r].project = p], Goto(r, "commit")
          PROVE  LockInv'
      <3>1. arg'[r].project = p /\ \A q \in Req \ {r} : arg'[q] = arg[q]
        BY <2>2 DEF TypeOK, Arg
      <3> QED
        BY <2>2, <3>1, ConstantsAssumption DEF LockInv, Goto, TypeOK
    <2> QED
      BY <1>2, <2>1, <2>2 DEF Insert
  <1>3. ASSUME NEW r \in Req, Flush(r) PROVE LockInv'
    BY <1>3, ConstantsAssumption DEF Flush, LockInv, FlowInv, Goto, TypeOK
  <1>4. ASSUME NEW r \in Req, Commit(r) PROVE LockInv'
    <2>1. \A q \in Req \ {r} : pc[q] = "commit" => arg[q].project # arg[r].project
      BY <1>4, Apart DEF Commit
    <2>2. /\ lock' = [lock EXCEPT ![arg[r].project] = None] /\ arg' = arg
          /\ \A q \in Req : pc'[q] = "commit" => q # r /\ pc[q] = "commit"
      BY <1>4 DEF Commit, Goto, Answer, TypeOK
    <2> QED
      BY <2>1, <2>2 DEF LockInv, TypeOK
  <1>5. ASSUME NEW r \in Req, Fail(r) PROVE LockInv'
    BY <1>5 DEF Fail, Unlocked, LockInv, Goto, Answer, TypeOK
  <1>6. ASSUME NEW r \in Req, \/ LookupKey(r) \/ SelectForUpdate(r) \/ SelectForGet(r)
                              \/ Evict(r) \/ Fill(r) \/ CacheGet(r)
        PROVE  LockInv'
    BY <1>6 DEF LookupKey, SelectForUpdate, SelectForGet, Evict, Fill, CacheGet,
                LockInv, Goto, Answer, TypeOK
  <1>7. ASSUME NEW k \in CacheKeys, Expire(k) PROVE LockInv'
    BY <1>7 DEF Expire, LockInv
  <1>8. CASE UNCHANGED vars
    BY <1>8 DEF LockInv, vars
  <1> QED
    BY <1>1, <1>2, <1>3, <1>4, <1>5, <1>6, <1>7, <1>8 DEF Next, Step, Quiet

----------------------------------------------------------------------------
(* The table.                                                              *)

\* What a commit does.
LEMMA CommitFacts ==
  ASSUME TypeOK, FlowInv, LockInv, NEW r \in Req, Commit(r)
  PROVE  LET p == arg[r].project
         IN /\ pc[r] = "commit" /\ p \in Project
            /\ rows' = [rows EXCEPT ![p] = rows'[p]]
            /\ rows'[p].ver > 0
            /\ arg[r].kind = "create" =>
                 /\ rows'[p].org = arg[r].org /\ rows'[p].key = arg[r].key
                 /\ \A f \in Field : rows'[p].val[f] = r
            /\ arg[r].kind # "create" =>
                 /\ rows'[p].org = rows[p].org /\ rows'[p].key = rows[p].key
                 /\ \A f \in Field :
                      rows'[p].val[f] = IF f \in arg[r].set THEN r ELSE rows[p].val[f]
            /\ audit' = audit \cup {Record(r)}
            /\ UNCHANGED <<cache, arg>>
            /\ arg[r].kind = "create" =>
                 pc' = [pc EXCEPT ![r] = "done"] /\ out' = [out EXCEPT ![r] = 201]
            /\ arg[r].kind # "create" => pc' = [pc EXCEPT ![r] = "evict"] /\ out' = out
  <1> DEFINE p == arg[r].project
             new == Written(r, rows[p])
  <1>1. p \in Project /\ arg[r] \in Arg /\ obj[r] \in Content /\ rows[p] \in Row
    BY DEF Commit, LockInv, TypeOK
  <1>2. /\ new.ver > 0
        /\ arg[r].kind = "create" =>
             /\ new.org = arg[r].org /\ new.key = arg[r].key
             /\ \A f \in Field : new.val[f] = r
        /\ arg[r].kind # "create" =>
             /\ new.org = rows[p].org /\ new.key = rows[p].key
             /\ \A f \in Field : new.val[f] = IF f \in arg[r].set THEN r ELSE rows[p].val[f]
    BY <1>1, WrittenFacts
  <1>3. rows' = [rows EXCEPT ![p] = new]
    BY DEF Commit
  <1> HIDE DEF new
  <1>4. rows'[p] = new /\ rows' = [rows EXCEPT ![p] = rows'[p]]
    <2>1. rows'[p] = new
      BY <1>1, <1>3 DEF TypeOK
    <2> QED
      BY <1>3, <2>1
  <1>5. /\ pc[r] = "commit" /\ audit' = audit \cup {Record(r)} /\ UNCHANGED <<cache, arg>>
        /\ arg[r].kind = "create" =>
             pc' = [pc EXCEPT ![r] = "done"] /\ out' = [out EXCEPT ![r] = 201]
        /\ arg[r].kind # "create" => pc' = [pc EXCEPT ![r] = "evict"] /\ out' = out
    BY DEF Commit, Goto, Answer
  <1> QED
    BY <1>1, <1>2, <1>4, <1>5

\* The steps that leave the table alone: they name no project anew for a request
\* that is under way, open no INSERT, and leave a committed request committed.
Frame ==
  /\ UNCHANGED <<rows, audit>>
  /\ \A q \in Req : /\ pc[q] # "idle" => arg'[q] = arg[q]
                    /\ Inserting(q)' => Inserting(q) /\ arg'[q] = arg[q]
                    /\ pc[q] \in {"evict", "done"} => pc'[q] \in {"evict", "done"}

\* Every step is one of them, an INSERT or a commit.
LEMMA StepCases ==
  ASSUME TypeOK, FlowInv, [Next]_vars
  PROVE  \/ \E r \in Req : Insert(r)
         \/ \E r \in Req : Commit(r)
         \/ Frame
  <1>1. ASSUME NEW r \in Req, PostProject(r) \/ PatchProject(r) \/ GetProject(r) PROVE Frame
    <2>1. PICK a \in Arg, label \in {"lookup", "select", "cacheget"} : Start(r, label, a)
      BY <1>1, StartFacts
    <2> QED
      BY <2>1 DEF Start, Frame, Inserting, Goto, TypeOK
  <1>2. ASSUME NEW r \in Req, LookupKey(r) \/ SelectForUpdate(r) \/ SelectForGet(r)
        PROVE  Frame
    BY <1>2 DEF LookupKey, SelectForUpdate, SelectForGet, Frame, Inserting, Goto, Answer, TypeOK
  <1>3. ASSUME NEW r \in Req, Flush(r) PROVE Frame
    BY <1>3 DEF Flush, FlowInv, Frame, Inserting, Goto, TypeOK
  <1>4. ASSUME NEW r \in Req, Evict(r) \/ Fill(r) \/ CacheGet(r) PROVE Frame
    BY <1>4 DEF Evict, Fill, CacheGet, Frame, Inserting, Goto, Answer, TypeOK
  <1>5. ASSUME NEW r \in Req, Fail(r) PROVE Frame
    BY <1>5 DEF Fail, InProgress, Frame, Inserting, Goto, Answer, TypeOK
  <1>6. ASSUME NEW k \in CacheKeys, Expire(k) PROVE Frame
    BY <1>6 DEF Expire, Frame, Inserting
  <1>7. CASE UNCHANGED vars
    BY <1>7 DEF Frame, Inserting, vars
  <1> QED
    BY <1>1, <1>2, <1>3, <1>4, <1>5, <1>6, <1>7 DEF Next, Step, Quiet

\* What an INSERT does.
LEMMA InsertFacts ==
  ASSUME TypeOK, FlowInv, NEW r \in Req, Insert(r)
  PROVE  /\ UNCHANGED <<rows, cache, audit>>
         /\ pc[r] = "insert" /\ arg[r].kind = "create" /\ ~KeyPending(r)
         /\ \A q \in Req \ {r} : arg'[q] = arg[q] /\ pc'[q] = pc[q] /\ out'[q] = out[q]
         /\ arg'[r].kind = "create" /\ arg'[r].org = arg[r].org /\ arg'[r].key = arg[r].key
         /\ \/ pc'[r] = "done" /\ out'[r] = 500
            \/ /\ pc'[r] = "commit" /\ out'[r] = out[r]
               /\ ~KeyTaken(r) /\ arg'[r].project \in Project /\ ~Exists(arg'[r].project)
  <1>1. arg[r].kind = "create"
    BY DEF Insert, FlowInv
  <1>2. CASE Answer(r, 500) /\ UNCHANGED <<lock, arg>>
    BY <1>1, <1>2 DEF Insert, Answer, Goto, TypeOK
  <1>3. ASSUME NEW p \in Project, ~Exists(p), ~Duplicate(r), Goto(r, "commit"), UNCHANGED out,
               arg' = [arg EXCEPT ![r].project = p]
        PROVE  /\ \A q \in Req \ {r} : arg'[q] = arg[q] /\ pc'[q] = pc[q] /\ out'[q] = out[q]
               /\ arg'[r].kind = "create" /\ arg'[r].org = arg[r].org /\ arg'[r].key = arg[r].key
               /\ pc'[r] = "commit" /\ out'[r] = out[r]
               /\ ~KeyTaken(r) /\ arg'[r].project = p
    BY <1>1, <1>3 DEF Goto, Duplicate, TypeOK, Arg
  <1> QED
    BY <1>1, <1>2, <1>3 DEF Insert

\* A project once created keeps its organization and its key.
LEMMA RowsStay ==
  ASSUME TypeOK, FlowInv, LockInv, InsertInv, [Next]_vars, NEW p \in Project, Exists(p)
  PROVE  /\ Exists(p)' /\ rows'[p].org = rows[p].org /\ rows'[p].key = rows[p].key
  <1>1. CASE UNCHANGED rows
    BY <1>1 DEF Exists
  <1>2. ASSUME NEW r \in Req, Commit(r)
        PROVE  /\ Exists(p)' /\ rows'[p].org = rows[p].org /\ rows'[p].key = rows[p].key
    <2>1. CASE arg[r].project # p
      BY <1>2, <2>1, CommitFacts DEF Exists, TypeOK
    <2>2. CASE arg[r].project = p
      BY <1>2, <2>2, CommitFacts DEF Exists, InsertInv, Inserting
    <2> QED
      BY <2>1, <2>2
  <1> QED
    BY <1>1, <1>2, StepCases DEF Frame, Insert

\* A transaction that updates a row finds it there.
LEMMA UpdatesExisting ==
  ASSUME TenantInv, NEW r \in Req, pc[r] = "commit", arg[r].kind = "update"
  PROVE  Exists(arg[r].project)
  BY DEF TenantInv, Inside, Found

\* Every step leaves the open INSERTs with rows and keys that are free.
LEMMA InsertStep ==
  TypeOK /\ FlowInv /\ LockInv /\ InsertInv /\ TenantInv /\ [Next]_vars => InsertInv'
  <1> SUFFICES ASSUME TypeOK, FlowInv, LockInv, InsertInv, TenantInv, [Next]_vars
               PROVE  InsertInv'
    OBVIOUS
  <1>1. ASSUME NEW r \in Req, Insert(r) PROVE InsertInv'
    <2>1. \A q \in Req \ {r} : Inserting(q)' => Inserting(q) /\ arg'[q] = arg[q]
      BY <1>1, InsertFacts DEF Inserting
    <2>2. \A q \in Req \ {r} : Inserting(q) => ~(arg[q].org = arg[r].org /\ arg[q].key = arg[r].key)
      BY <1>1, InsertFacts DEF KeyPending, Inserting
    <2>3. \A q \in Req : arg'[q].org = arg[q].org /\ arg'[q].key = arg[q].key
      BY <1>1, InsertFacts
    <2>4. \A q \in Req : KeyTaken(q)' <=> KeyTaken(q)
      BY <1>1, <2>3, InsertFacts DEF KeyTaken, Exists
    <2>5. Inserting(r)' => ~Exists(arg[r].project)' /\ ~KeyTaken(r)'
      BY <1>1, <2>4, InsertFacts DEF Inserting, Exists
    <2>6. \A q \in Req : Inserting(q)' => ~Exists(arg[q].project)' /\ ~KeyTaken(q)'
      BY <1>1, <2>1, <2>4, <2>5, InsertFacts DEF Inserting, Exists, InsertInv
    <2> QED
      BY <2>1, <2>2, <2>3, <2>6 DEF InsertInv
  <1>2. ASSUME NEW r \in Req, Commit(r) PROVE InsertInv'
    <2> DEFINE p == arg[r].project
    <2>1. \A q \in Req : Inserting(q)' => q # r /\ Inserting(q)
      BY <1>2, CommitFacts DEF Inserting, TypeOK
    <2>2. arg' = arg /\ p \in Project /\ pc[r] = "commit"
      BY <1>2, CommitFacts
    <2>3. ASSUME NEW q \in Req, Inserting(q)' PROVE ~Exists(arg[q].project)' /\ ~KeyTaken(q)'
      <3>1. q # r /\ Inserting(q) /\ arg[q].project # p /\ arg[q].project \in Project
        BY <2>1, <2>2, <2>3, Apart DEF Inserting, LockInv
      <3>2. ~Exists(arg[q].project)'
        BY <1>2, <2>2, <3>1, CommitFacts DEF Exists, InsertInv, TypeOK
      <3>3. \A x \in Project \ {p} : rows'[x] = rows[x]
        BY <1>2, CommitFacts DEF TypeOK
      <3>4. ~(rows'[p].org = arg[q].org /\ rows'[p].key = arg[q].key)
        <4>1. CASE arg[r].kind = "create"
          BY <1>2, <2>2, <3>1, <4>1, CommitFacts DEF InsertInv, Inserting
        <4>2. CASE arg[r].kind # "create"
          <5>1. Exists(p)
            BY <2>2, <4>2, UpdatesExisting DEF FlowInv
          <5> QED
            BY <1>2, <2>2, <3>1, <4>2, <5>1, CommitFacts DEF InsertInv, KeyTaken
        <4> QED
          BY <4>1, <4>2
      <3>5. ~KeyTaken(q)'
        BY <2>2, <3>1, <3>3, <3>4 DEF KeyTaken, Exists, InsertInv
      <3> QED
        BY <3>2, <3>5
    <2>4. \A q, x \in Req : Inserting(q)' /\ Inserting(x)' /\ arg'[q].org = arg'[x].org
                              /\ arg'[q].key = arg'[x].key => q = x
      BY <2>1, <2>2 DEF InsertInv
    <2> QED
      BY <2>3, <2>4 DEF InsertInv
  <1>3. CASE Frame
    <2>1. \A q \in Req : Inserting(q)' => Inserting(q) /\ arg'[q] = arg[q]
      BY <1>3 DEF Frame
    <2> QED
      BY <1>3, <2>1 DEF Frame, InsertInv, KeyTaken, Exists
  <1> QED
    BY <1>1, <1>2, <1>3, StepCases

\* Every step leaves a key with at most one project of an organization.
LEMMA KeyStep ==
  TypeOK /\ FlowInv /\ LockInv /\ InsertInv /\ TenantInv /\ KeyUnique /\ [Next]_vars => KeyUnique'
  <1> SUFFICES ASSUME TypeOK, FlowInv, LockInv, InsertInv, TenantInv, KeyUnique, [Next]_vars
               PROVE  KeyUnique'
    OBVIOUS
  <1>1. CASE UNCHANGED rows
    BY <1>1 DEF KeyUnique, Exists
  <1>2. ASSUME NEW r \in Req, Commit(r) PROVE KeyUnique'
    <2> DEFINE p == arg[r].project
    <2>1. p \in Project /\ pc[r] = "commit" /\ \A x \in Project \ {p} : rows'[x] = rows[x]
      BY <1>2, CommitFacts DEF TypeOK
    <2>2. CASE arg[r].kind = "create"
      <3>1. \A x \in Project \ {p} :
              Exists(x) => ~(rows[x].org = rows'[p].org /\ rows[x].key = rows'[p].key)
        BY <1>2, <2>1, <2>2, CommitFacts DEF InsertInv, Inserting, KeyTaken
      <3> QED
        BY <2>1, <3>1 DEF KeyUnique, Exists
    <2>3. CASE arg[r].kind # "create"
      <3>1. Exists(p) /\ rows'[p].org = rows[p].org /\ rows'[p].key = rows[p].key
        BY <1>2, <2>1, <2>3, CommitFacts, UpdatesExisting DEF FlowInv
      <3> QED
        BY <2>1, <3>1 DEF KeyUnique, Exists
    <2> QED
      BY <2>2, <2>3
  <1> QED
    BY <1>1, <1>2, StepCases DEF Frame, Insert

----------------------------------------------------------------------------
(* Tenants.                                                                *)

\* A request that has found its project keeps it, and so does a cache key.
LEMMA FoundStays ==
  ASSUME TypeOK, FlowInv, LockInv, InsertInv, [Next]_vars, NEW o, NEW p \in Project, Found(o, p)
  PROVE  Found(o, p)'
  BY RowsStay DEF Found

\* Every step leaves requests and cache keys with projects of their tenants.
LEMMA TenantStep ==
  TypeOK /\ FlowInv /\ LockInv /\ InsertInv /\ TenantInv /\ [Next]_vars => TenantInv'
  <1> SUFFICES ASSUME TypeOK, FlowInv, LockInv, InsertInv, TenantInv, [Next]_vars
               PROVE  TenantInv'
    OBVIOUS
  <1> DEFINE Cached == \A o \in Org, p \in Project : cache'[CacheKey(o, p)] # None => Found(o, p)
             Right  == \A q \in Req : Inside(q)' =>
                         /\ arg'[q] = arg[q] /\ arg[q].project \in Project
                         /\ Found(arg[q].org, arg[q].project)
  <1>1. ASSUME Cached, Right PROVE TenantInv'
    <2>1. \A o \in Org, p \in Project : Found(o, p) => Found(o, p)'
      BY FoundStays
    <2>2. \A q \in Req : Inside(q)' => Found(arg[q].org, arg[q].project)'
      BY <1>1, FoundStays DEF Found
    <2>3. \A o \in Org, p \in Project : cache'[CacheKey(o, p)] # None => Found(o, p)'
      BY <1>1, <2>1
    <2> QED
      BY <2>2, <2>3 DEF TenantInv, CacheKey
  <1>2. UNCHANGED cache => Cached
    BY DEF TenantInv
  <1>3. \A q \in Req : Inside(q) =>
           /\ pc[q] # "idle" /\ arg[q].project \in Project /\ Found(arg[q].org, arg[q].project)
    <2>1. \A q \in Req : Inside(q) => pc[q] # "idle"
      BY ConstantsAssumption DEF Inside, TypeOK
    <2>2. \A q \in Req : Inside(q) => arg[q].project \in Project
      BY DEF Inside, FlowInv
    <2> QED
      BY <2>1, <2>2 DEF TenantInv
  <1> HIDE DEF Cached, Right
  <1>4. ASSUME \A q \in Req : Inside(q)' => Inside(q) /\ arg'[q] = arg[q] PROVE Right
    BY <1>3, <1>4 DEF Right
  <1>5. ASSUME NEW r \in Req, PostProject(r) \/ PatchProject(r) \/ GetProject(r) PROVE TenantInv'
    <2>1. PICK a \in Arg, label \in {"lookup", "select", "cacheget"} : Start(r, label, a)
      BY <1>5, StartFacts
    <2>2. \A q \in Req : Inside(q)' => Inside(q) /\ arg'[q] = arg[q]
      BY <2>1, ConstantsAssumption DEF Start, Goto, Inside, TypeOK
    <2> QED
      BY <1>1, <1>2, <1>4, <2>1, <2>2 DEF Start
  <1>6. ASSUME NEW r \in Req, Insert(r) PROVE TenantInv'
    <2>1. \A q \in Req : Inside(q)' => Inside(q) /\ arg'[q] = arg[q]
      BY <1>6, InsertFacts, ConstantsAssumption DEF Inside, TypeOK
    <2> QED
      BY <1>1, <1>2, <1>4, <1>6, <2>1 DEF Insert
  <1>7. ASSUME NEW r \in Req, SelectForUpdate(r) \/ SelectForGet(r) PROVE TenantInv'
    <2>1. arg[r].project \in Project /\ out[r] # 200
      BY <1>7, ConstantsAssumption DEF SelectForUpdate, SelectForGet, FlowInv, TypeOK
    <2>2. arg' = arg /\ cache' = cache
      BY <1>7 DEF SelectForUpdate, SelectForGet
    <2>3. Inside(r)' => Found(arg[r].org, arg[r].project)
      BY <1>7, <2>1 DEF SelectForUpdate, SelectForGet, Inside, Goto, Answer, TypeOK
    <2>4. \A q \in Req \ {r} : Inside(q)' => Inside(q)
      BY <1>7 DEF SelectForUpdate, SelectForGet, Inside, Goto, Answer, TypeOK
    <2>5. Right
      BY <1>3, <2>1, <2>2, <2>3, <2>4 DEF Right
    <2> QED
      BY <1>1, <1>2, <2>2, <2>5
  <1>8. ASSUME NEW r \in Req, LookupKey(r) \/ Flush(r) PROVE TenantInv'
    <2>1. \A q \in Req : Inside(q)' => Inside(q) /\ arg'[q] = arg[q]
      BY <1>8 DEF LookupKey, Flush, Inside, Goto, Answer, TypeOK
    <2> QED
      BY <1>1, <1>2, <1>4, <1>8, <2>1 DEF LookupKey, Flush
  <1>9. ASSUME NEW r \in Req, Commit(r) PROVE TenantInv'
    <2>1. \A q \in Req : Inside(q)' => Inside(q) /\ arg'[q] = arg[q]
      BY <1>9, CommitFacts DEF Inside, FlowInv, TypeOK
    <2> QED
      BY <1>1, <1>2, <1>4, <1>9, <2>1, CommitFacts
  <1>10. ASSUME NEW r \in Req, Evict(r) \/ Fill(r) PROVE TenantInv'
    <2>1. \A q \in Req : Inside(q)' => Inside(q) /\ arg'[q] = arg[q]
      BY <1>10 DEF Evict, Fill, Inside, Goto, Answer, TypeOK
    <2>2. Found(arg[r].org, arg[r].project) /\ CacheKey(arg[r].org, arg[r].project) \in CacheKeys
      BY <1>3, <1>10 DEF Evict, Fill, Inside, FlowInv, CacheKey, CacheKeys
    <2>3. ASSUME NEW o \in Org, NEW p \in Project, cache'[CacheKey(o, p)] # None PROVE Found(o, p)
      <3>1. CASE <<o, p>> = <<arg[r].org, arg[r].project>>
        BY <2>2, <3>1
      <3>2. CASE <<o, p>> # <<arg[r].org, arg[r].project>>
        BY <1>10, <2>3, <3>2 DEF Evict, Fill, CacheKey, CacheKeys, TenantInv, TypeOK
      <3> QED
        BY <3>1, <3>2
    <2>4. Cached
      BY <2>3 DEF Cached
    <2> QED
      BY <1>1, <1>4, <2>1, <2>4
  <1>11. ASSUME NEW r \in Req, CacheGet(r) PROVE TenantInv'
    <2>1. arg' = arg /\ cache' = cache /\ arg[r].project \in Project /\ arg[r].org \in Org
      BY <1>11 DEF CacheGet, FlowInv
    <2>2. Inside(r)' => Found(arg[r].org, arg[r].project)
      BY <1>11, <2>1 DEF CacheGet, Inside, TenantInv, Goto, Answer, TypeOK
    <2>3. \A q \in Req \ {r} : Inside(q)' => Inside(q)
      BY <1>11 DEF CacheGet, Inside, Goto, Answer, TypeOK
    <2>4. Right
      BY <1>3, <2>1, <2>2, <2>3 DEF Right
    <2> QED
      BY <1>1, <1>2, <2>1, <2>4
  <1>12. ASSUME NEW r \in Req, Fail(r) PROVE TenantInv'
    <2>1. \A q \in Req : Inside(q)' => Inside(q) /\ arg'[q] = arg[q]
      BY <1>12 DEF Fail, Inside, Goto, Answer, TypeOK
    <2> QED
      BY <1>1, <1>2, <1>4, <1>12, <2>1 DEF Fail
  <1>13. ASSUME NEW k \in CacheKeys, Expire(k) PROVE TenantInv'
    <2>1. \A q \in Req : Inside(q)' => Inside(q) /\ arg'[q] = arg[q]
      BY <1>13 DEF Expire, Inside
    <2>2. \A o \in Org, p \in Project : cache'[CacheKey(o, p)] # None => cache[CacheKey(o, p)] # None
      BY <1>13 DEF Expire, CacheKey, CacheKeys, TypeOK
    <2>3. Cached
      BY <2>2 DEF Cached, TenantInv
    <2> QED
      BY <1>1, <1>4, <2>1, <2>3
  <1>14. CASE UNCHANGED vars
    BY <1>14 DEF TenantInv, Inside, Found, Exists, vars
  <1> QED
    BY <1>5, <1>6, <1>7, <1>8, <1>9, <1>10, <1>11, <1>12, <1>13, <1>14 DEF Next, Step, Quiet

----------------------------------------------------------------------------
(* Writers and their audit entries.                                        *)

\* After a commit, a value is one that the transaction wrote or was there before.
LEMMA CommitValues ==
  ASSUME TypeOK, FlowInv, LockInv, TenantInv, NEW r \in Req, Commit(r)
  PROVE  \A x \in Project, f \in Field :
            Exists(x)' =>
              \/ /\ x = arg[r].project /\ rows'[x].val[f] = r
                 /\ arg[r].kind = "create" \/ f \in arg[r].set
              \/ Exists(x) /\ rows'[x].val[f] = rows[x].val[f]
  <1> DEFINE p == arg[r].project
  <1>1. p \in Project /\ pc[r] = "commit" /\ \A x \in Project \ {p} : rows'[x] = rows[x]
    BY CommitFacts DEF TypeOK
  <1>2. CASE arg[r].kind = "create"
    BY <1>1, <1>2, CommitFacts DEF Exists
  <1>3. CASE arg[r].kind # "create"
    <2>1. Exists(p)
      BY <1>1, <1>3, UpdatesExisting DEF FlowInv
    <2> QED
      BY <1>1, <1>3, <2>1, CommitFacts DEF Exists
  <1> QED
    BY <1>2, <1>3

\* Every step leaves the values of a project with committed writers.
LEMMA WriterStep ==
  TypeOK /\ FlowInv /\ LockInv /\ TenantInv /\ WriterInv /\ [Next]_vars => WriterInv'
  <1> SUFFICES ASSUME TypeOK, FlowInv, LockInv, TenantInv, WriterInv, [Next]_vars
               PROVE  WriterInv'
    OBVIOUS
  <1>1. ASSUME NEW r \in Req, Insert(r) PROVE WriterInv'
    BY <1>1, InsertFacts DEF WriterInv, Exists
  <1>2. ASSUME NEW r \in Req, Commit(r) PROVE WriterInv'
    <2> DEFINE p == arg[r].project
    <2>1. /\ p \in Project /\ pc[r] = "commit" /\ pc'[r] \in {"evict", "done"}
          /\ \A x \in Project \ {p} : rows'[x] = rows[x]
          /\ \A q \in Req \ {r} : pc'[q] = pc[q]
      <3>1. pc' = [pc EXCEPT ![r] = "done"] \/ pc' = [pc EXCEPT ![r] = "evict"]
        BY <1>2, CommitFacts
      <3> QED
        BY <1>2, <3>1, CommitFacts DEF TypeOK
    <2>2. \A x \in Project, f \in Field :
             Exists(x)' =>
               \/ x = p /\ rows'[x].val[f] = r /\ (arg[r].kind = "create" \/ f \in arg[r].set)
               \/ Exists(x) /\ rows'[x].val[f] = rows[x].val[f]
      BY <1>2, CommitValues
    <2> QED
      BY <2>1, <2>2 DEF WriterInv
  <1>3. CASE Frame
    BY <1>3 DEF Frame, WriterInv, Exists
  <1> QED
    BY <1>1, <1>2, <1>3, StepCases

\* Every step leaves the values of the audited columns with their entries.
LEMMA AuditStep ==
  TypeOK /\ FlowInv /\ LockInv /\ TenantInv /\ WriterInv /\ ValuesAudited /\ [Next]_vars
  => ValuesAudited'
  <1> SUFFICES ASSUME TypeOK, FlowInv, LockInv, TenantInv, WriterInv, ValuesAudited, [Next]_vars
               PROVE  ValuesAudited'
    OBVIOUS
  <1> DEFINE Covered(p, f, w) == \E a \in audit : a.project = p /\ a.by = w /\ a.after.val[f] = w
  <1>0. \A p \in Project, f \in Field :
           Exists(p) /\ f \in AuditedBy(rows[p].val[f]) => Covered(p, f, rows[p].val[f])
    BY DEF ValuesAudited
  <1>1. ASSUME UNCHANGED <<rows, audit>>,
               \A q \in Req : pc[q] \in {"evict", "done"} => arg'[q] = arg[q]
        PROVE  ValuesAudited'
    <2>1. \A p \in Project, f \in Field :
             Exists(p) => arg'[rows[p].val[f]] = arg[rows[p].val[f]]
      BY <1>1 DEF WriterInv
    <2> QED
      BY <1>1, <2>1 DEF ValuesAudited, AuditedBy, Exists
  <1>2. ASSUME NEW r \in Req, Commit(r) PROVE ValuesAudited'
    <2> DEFINE p == arg[r].project
    <2>1. /\ p \in Project /\ pc[r] = "commit" /\ arg' = arg /\ audit' = audit \cup {Record(r)}
          /\ \A x \in Project \ {p} : rows'[x] = rows[x]
      BY <1>2, CommitFacts DEF TypeOK
    <2>2. /\ Record(r).project = p /\ Record(r).by = r
          /\ arg[r].kind = "create" => \A f \in CreateAudit : Record(r).after.val[f] = r
          /\ arg[r].kind # "create" =>
               \A f \in UpdateAudit : f \in arg[r].set => Record(r).after.val[f] = r
      BY <2>1, RecordFacts DEF TypeOK
    <2>3. \A x \in Project, f \in Field :
             Exists(x)' =>
               \/ x = p /\ rows'[x].val[f] = r /\ (arg[r].kind = "create" \/ f \in arg[r].set)
               \/ Exists(x) /\ rows'[x].val[f] = rows[x].val[f]
      BY <1>2, CommitValues
    <2>4. ASSUME NEW x \in Project, NEW f \in Field, Exists(x)', f \in AuditedBy(rows[x].val[f])'
          PROVE  \E a \in audit' : /\ a.project = x /\ a.by = rows'[x].val[f]
                                   /\ a.after.val[f] = rows'[x].val[f]
      <3>1. CASE x = p /\ rows'[x].val[f] = r /\ (arg[r].kind = "create" \/ f \in arg[r].set)
        BY <2>1, <2>2, <2>4, <3>1 DEF AuditedBy
      <3>2. CASE Exists(x) /\ rows'[x].val[f] = rows[x].val[f]
        BY <2>1, <2>4, <3>2 DEF AuditedBy, ValuesAudited
      <3> QED
        BY <2>3, <2>4, <3>1, <3>2
    <2> QED
      BY <2>4 DEF ValuesAudited
  <1>3. ASSUME NEW r \in Req, Insert(r) PROVE ValuesAudited'
    BY <1>1, <1>3, InsertFacts
  <1> QED
    BY <1>1, <1>2, <1>3, StepCases DEF Frame

----------------------------------------------------------------------------
(* The cache.                                                              *)

\* Every step leaves the reads that are about to be cached current or missed.
LEMMA FillStep == TypeOK /\ FlowInv /\ LockInv /\ FillInv /\ [Next]_vars => FillInv'
  <1> SUFFICES ASSUME TypeOK, FlowInv, LockInv, FillInv, [Next]_vars PROVE FillInv'
    OBVIOUS
  <1>0. ASSUME rows' = rows,
               \A q \in Req : pc'[q] = "fill" =>
                 /\ pc[q] = "fill" /\ arg'[q] = arg[q] /\ obj'[q] = obj[q]
                 /\ q \in missed => q \in missed'
        PROVE  FillInv'
    BY <1>0 DEF FillInv
  <1>1. ASSUME NEW r \in Req, PostProject(r) \/ PatchProject(r) \/ GetProject(r) PROVE FillInv'
    <2>1. PICK a \in Arg, label \in {"lookup", "select", "cacheget"} : Start(r, label, a)
      BY <1>1, StartFacts
    <2> QED
      BY <1>0, <2>1 DEF Start, Goto, TypeOK
  <1>2. ASSUME NEW r \in Req, LookupKey(r) \/ SelectForUpdate(r) \/ Flush(r) \/ CacheGet(r)
        PROVE  FillInv'
    BY <1>0, <1>2 DEF LookupKey, SelectForUpdate, Flush, CacheGet, Goto, Answer, TypeOK
  <1>3. ASSUME NEW r \in Req, Insert(r) PROVE FillInv'
    <2>1. \A q \in Req : pc'[q] = "fill" => q # r /\ arg'[q] = arg[q] /\ pc[q] = "fill"
      BY <1>3, InsertFacts
    <2>2. UNCHANGED <<rows, obj, missed>>
      BY <1>3 DEF Insert
    <2> QED
      BY <1>0, <2>1, <2>2
  <1>4. ASSUME NEW r \in Req, SelectForGet(r) PROVE FillInv'
    <2>1. CASE pc'[r] = "fill"
      BY <1>4, <2>1 DEF SelectForGet, FillInv, Goto, Answer, TypeOK
    <2>2. CASE pc'[r] # "fill"
      BY <1>0, <1>4, <2>2 DEF SelectForGet, Goto, Answer, TypeOK
    <2> QED
      BY <2>1, <2>2
  <1>5. ASSUME NEW r \in Req, Commit(r) PROVE FillInv'
    <2> DEFINE p == arg[r].project
    <2>1. /\ pc[r] = "commit" /\ p \in Project /\ arg' = arg
          /\ \A x \in Project \ {p} : rows'[x] = rows[x]
      BY <1>5, CommitFacts DEF TypeOK
    <2>2. /\ missed' = missed \cup {g \in Req : pc[g] = "fill" /\ arg[g].project = p}
          /\ \A q \in Req \ {r} : obj'[q] = obj[q] /\ pc'[q] = pc[q]
          /\ pc'[r] # "fill"
      BY <1>5 DEF Commit, Goto, Answer, TypeOK
    <2>3. \A q \in Req : pc[q] = "fill" => arg[q].project \in Project
      BY DEF FlowInv
    <2> QED
      BY <2>1, <2>2, <2>3 DEF FillInv
  <1>6. ASSUME NEW r \in Req, Evict(r) \/ Fill(r) \/ Fail(r) PROVE FillInv'
    BY <1>0, <1>6 DEF Evict, Fill, Fail, Settled, Goto, Answer, TypeOK
  <1>7. ASSUME NEW k \in CacheKeys, Expire(k) PROVE FillInv'
    BY <1>0, <1>7 DEF Expire, Settled
  <1>8. CASE UNCHANGED vars
    BY <1>8 DEF FillInv, vars
  <1> QED
    BY <1>1, <1>2, <1>3, <1>4, <1>5, <1>6, <1>7, <1>8 DEF Next, Step, Quiet

\* Why an entry of project p may be stale.
Cause(q, p) ==
  /\ arg[q].project = p
  /\ \/ pc[q] = "evict"
     \/ pc[q] = "done" /\ q \in missed

\* A write of a key settles the causes of its project: it has to leave a current
\* entry, none, or a cause of its own.
LEMMA KeyWritten ==
  ASSUME TypeOK, TenantInv, StaleExplained, NEW o1 \in Org, NEW p1 \in Project, Found(o1, p1),
         NEW v, cache' = [cache EXCEPT ![CacheKey(o1, p1)] = v], rows' = rows, arg' = arg,
         missed' = missed \ Settled(p1), \A q \in Req : arg[q].project # p1 => pc'[q] = pc[q],
         v \in {None, ContentOf(rows[p1])} \/ \E q \in Req : Cause(q, p1)'
  PROVE  StaleExplained'
  <1> SUFFICES ASSUME NEW o \in Org, NEW p \in Project,
                      cache'[<<o, p>>] \notin {None, ContentOf(rows[p])}
               PROVE  \E q \in Req : Cause(q, p)'
    BY DEF StaleExplained, ContentOf, Cause
  <1>0. DOMAIN cache = CacheKeys /\ <<o, p>> \in CacheKeys /\ <<o1, p1>> \in CacheKeys
    BY DEF TypeOK, CacheKeys
  <1>1. CASE <<o, p>> = <<o1, p1>>
    BY <1>0, <1>1 DEF CacheKey
  <1>2. CASE <<o, p>> # <<o1, p1>>
    <2>1. cache'[<<o, p>>] = cache[<<o, p>>]
      BY <1>0, <1>2 DEF CacheKey
    <2>2. Found(o, p)
      BY <2>1 DEF TenantInv, CacheKey
    <2>3. p # p1
      BY <1>2, <2>2 DEF Found
    <2>4. PICK q \in Req : Cause(q, p)
      BY <2>1 DEF StaleExplained, Cause
    <2>5. Cause(q, p)'
      BY <2>3, <2>4 DEF Cause, Settled
    <2> QED
      BY <2>5
  <1> QED
    BY <1>1, <1>2

\* Every step leaves each stale entry with a cause.
LEMMA StaleStep ==
  TypeOK /\ FlowInv /\ LockInv /\ InsertInv /\ TenantInv /\ FillInv /\ StaleExplained
  /\ [Next]_vars => StaleExplained'
  <1> SUFFICES ASSUME TypeOK, FlowInv, LockInv, InsertInv, TenantInv, FillInv, StaleExplained,
                      [Next]_vars
               PROVE  StaleExplained'
    OBVIOUS
  <1>0. ASSUME UNCHANGED <<rows, cache>>, \A q \in Req, p \in Project : Cause(q, p) => Cause(q, p)'
        PROVE  StaleExplained'
    BY <1>0 DEF StaleExplained, Cause
  <1>1. ASSUME NEW r \in Req, PostProject(r) \/ PatchProject(r) \/ GetProject(r)
        PROVE  StaleExplained'
    <2>1. PICK a \in Arg, label \in {"lookup", "select", "cacheget"} : Start(r, label, a)
      BY <1>1, StartFacts
    <2> QED
      BY <1>0, <2>1 DEF Start, Cause, Goto, TypeOK
  <1>2. ASSUME NEW r \in Req, \/ LookupKey(r) \/ SelectForUpdate(r) \/ SelectForGet(r)
                              \/ Flush(r) \/ CacheGet(r)
        PROVE  StaleExplained'
    BY <1>0, <1>2 DEF LookupKey, SelectForUpdate, SelectForGet, Flush, CacheGet, Cause,
                      Goto, Answer, TypeOK
  <1>3. ASSUME NEW r \in Req, Insert(r) PROVE StaleExplained'
    <2>1. UNCHANGED <<rows, cache, missed>>
      BY <1>3 DEF Insert
    <2>2. pc[r] = "insert" /\ \A q \in Req \ {r} : arg'[q] = arg[q] /\ pc'[q] = pc[q]
      BY <1>3, InsertFacts
    <2> QED
      BY <1>0, <2>1, <2>2 DEF Cause
  <1>4. ASSUME NEW r \in Req, Commit(r) PROVE StaleExplained'
    <2> DEFINE p == arg[r].project
    <2>1. /\ pc[r] = "commit" /\ p \in Project /\ arg' = arg /\ cache' = cache
          /\ \A x \in Project \ {p} : rows'[x] = rows[x]
      BY <1>4, CommitFacts DEF TypeOK
    <2>2. missed \subseteq missed' /\ \A q \in Req \ {r} : pc'[q] = pc[q]
      BY <1>4 DEF Commit, Goto, Answer, TypeOK
    <2>3. \A q \in Req, x \in Project : Cause(q, x) => Cause(q, x)'
      BY <2>1, <2>2 DEF Cause
    <2>4. CASE arg[r].kind = "create"
      <3>1. \A o \in Org : cache[<<o, p>>] = None
        BY <2>1, <2>4 DEF InsertInv, Inserting, TenantInv, Found, CacheKey
      <3>2. \A o \in Org, x \in Project \ {p} :
               cache'[<<o, x>>] \notin {None, ContentOf(rows[x])'} => \E q \in Req : Cause(q, x)
        BY <2>1 DEF StaleExplained, Cause, ContentOf
      <3> QED
        BY <2>1, <2>3, <3>1, <3>2 DEF StaleExplained, Cause
    <2>5. CASE arg[r].kind # "create"
      <3>1. Cause(r, p)'
        BY <1>4, <2>1, <2>5, CommitFacts DEF Cause, TypeOK
      <3>2. \A o \in Org, x \in Project \ {p} :
               cache'[<<o, x>>] \notin {None, ContentOf(rows[x])'} => \E q \in Req : Cause(q, x)
        BY <2>1 DEF StaleExplained, Cause, ContentOf
      <3>3. \A o \in Org, x \in Project :
               cache'[<<o, x>>] \notin {None, ContentOf(rows[x])'} => \E q \in Req : Cause(q, x)'
        <4> SUFFICES ASSUME NEW o \in Org, NEW x \in Project,
                            cache'[<<o, x>>] \notin {None, ContentOf(rows[x])'}
                     PROVE  \E q \in Req : Cause(q, x)'
          OBVIOUS
        <4>1. CASE x = p
          BY <2>1, <3>1, <4>1 DEF Cause
        <4>2. CASE x # p
          BY <2>3, <3>2, <4>2
        <4> QED
          BY <4>1, <4>2
      <3> QED
        BY <3>3 DEF StaleExplained, Cause, ContentOf
    <2> QED
      BY <2>4, <2>5
  <1>5. ASSUME NEW r \in Req, Fail(r) PROVE StaleExplained'
    <2>1. UNCHANGED <<rows, cache, arg>> /\ pc[r] # "done"
      BY <1>5 DEF Fail, InProgress
    <2>2. ASSUME NEW q \in Req, NEW p \in Project, Cause(q, p) PROVE Cause(q, p)'
      <3>1. CASE q = r
        BY <1>5, <2>1, <2>2, <3>1 DEF Fail, Cause, Goto, Answer, TypeOK
      <3>2. CASE q # r
        BY <1>5, <2>1, <2>2, <3>2 DEF Fail, Cause, Goto, Answer, TypeOK
      <3> QED
        BY <3>1, <3>2
    <2> QED
      BY <1>0, <2>1, <2>2
  <1>6. ASSUME NEW r \in Req, Evict(r) \/ Fill(r) PROVE StaleExplained'
    <2> DEFINE o == arg[r].org
               p == arg[r].project
    <2>1. /\ o \in Org /\ p \in Project /\ Found(o, p) /\ pc[r] \in {"evict", "fill"}
          /\ UNCHANGED <<rows, arg>> /\ pc' = [pc EXCEPT ![r] = "done"]
      BY <1>6 DEF Evict, Fill, Goto, Answer, FlowInv, TenantInv, Inside
    <2>6. \A q \in Req : arg[q].project # p => pc'[q] = pc[q]
      BY <2>1 DEF TypeOK
    <2>2. CASE Evict(r) /\ cache' = [cache EXCEPT ![CacheKey(o, p)] = None]
                        /\ missed' = missed \ Settled(p)
      BY <2>1, <2>2, <2>6, KeyWritten
    <2>3. CASE Evict(r) /\ missed' = missed \cup {r} /\ UNCHANGED cache
      BY <1>0, <2>1, <2>3 DEF Cause, TypeOK
    <2>4. CASE Fill(r) /\ cache' = [cache EXCEPT ![CacheKey(o, p)] = obj[r]]
                       /\ missed' = missed \ Settled(p)
      <3>1. pc[r] = "fill" /\ (r \in missed \/ obj[r] = ContentOf(rows[p]))
        BY <2>4 DEF Fill, FillInv
      <3>2. r \in missed => Cause(r, p)'
        BY <2>1, <2>4, <3>1 DEF Cause, Settled, TypeOK
      <3> QED
        BY <2>1, <2>4, <2>6, <3>1, <3>2, KeyWritten
    <2>5. CASE Fill(r) /\ missed' = missed \ {r} /\ UNCHANGED cache
      BY <1>0, <2>1, <2>5 DEF Fill, Cause, TypeOK
    <2> QED
      BY <1>6, <2>2, <2>3, <2>4, <2>5 DEF Evict, Fill
  <1>7. ASSUME NEW k \in CacheKeys, Expire(k) PROVE StaleExplained'
    <2>1. PICK o \in Org, p \in Project : k = <<o, p>>
      BY DEF CacheKeys
    <2>2. /\ cache' = [cache EXCEPT ![CacheKey(o, p)] = None] /\ missed' = missed \ Settled(p)
          /\ UNCHANGED <<rows, arg, pc>> /\ Found(o, p)
      BY <1>7, <2>1 DEF Expire, TenantInv, CacheKey
    <2> QED
      BY <2>2, KeyWritten
  <1>8. CASE UNCHANGED vars
    BY <1>8 DEF StaleExplained, vars
  <1> QED
    BY <1>1, <1>2, <1>3, <1>4, <1>5, <1>6, <1>7, <1>8 DEF Next, Step, Quiet

----------------------------------------------------------------------------
(* The theorems.                                                           *)

\* The inductive invariant holds in every reachable state.
THEOREM Invariance == Spec => []IInv
  <1>1. IInv /\ [Next]_vars => IInv'
    BY TypeStep, FlowStep, LockStep, InsertStep, TenantStep, WriterStep, KeyStep, AuditStep,
       FillStep, StaleStep
    DEF IInv
  <1> QED
    BY InvInit, <1>1, PTL DEF Spec

\* Every variable of the projects, their cache and their requests has its type,
\* and a request is done exactly when it has been answered.
THEOREM TypeCorrect == Spec => []TypeOK
  <1>1. IInv => TypeOK
    BY DEF IInv
  <1> QED
    BY Invariance, <1>1, PTL

\* create_project never leaves two projects of an organization with one key,
\* however many requests pass the lookup of get_by_key before one of them inserts.
THEOREM KeysUnique == Spec => []KeyUnique
  <1>1. IInv => KeyUnique
    BY DEF IInv
  <1> QED
    BY Invariance, <1>1, PTL

\* A GET or PATCH of a project that is answered 200, from the table or from the
\* cache, is about a project of the caller's organization.
THEOREM TenantsApart == Spec => []NoCrossTenant
  <1>1. IInv => NoCrossTenant
    BY DEF IInv, TenantInv, Inside, Found, NoCrossTenant
  <1> QED
    BY Invariance, <1>1, PTL

\* Every value of an audited column is in the audit entry of the request that
\* wrote it, also when concurrent updates have written over each other.
THEOREM ValuesAreAudited == Spec => []ValuesAudited
  <1>1. IInv => ValuesAudited
    BY DEF IInv
  <1> QED
    BY Invariance, <1>1, PTL

\* A cached project that is not the committed one has a cause that no later write
\* of the key has settled: an update that is still to evict it, one whose eviction
\* was lost, or a GET that an update overtook (get_project, update_project).
THEOREM StaleIsExplained == Spec => []StaleExplained
  <1>1. IInv => StaleExplained
    BY DEF IInv
  <1> QED
    BY Invariance, <1>1, PTL
=============================================================================
