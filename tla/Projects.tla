------------------------------ MODULE Projects ------------------------------
(***************************************************************************)
(* Projects and their cache.  GET /projects/{id} is cache-aside: look in   *)
(* Redis, else read the row and store it with a TTL.  PATCH compares the   *)
(* client's version with the row it read, writes the columns it changes,   *)
(* commits, and then deletes the cache key.  Each step below ends where    *)
(* the handler awaits; PostgreSQL runs at READ COMMITTED (see TaskStore).  *)
(***************************************************************************)
EXTENDS Naturals, FiniteSets

CONSTANTS Req,          \* handler invocations, each used once
          Org,          \* tenants
          Project,      \* project ids
          Key,          \* project keys such as "PROJ"
          Field,        \* columns that a PATCH may set
          CreateAudit,  \* those that the after_state of a CREATE entry shows
          UpdateAudit,  \* those that the states of an UPDATE entry show
          CacheFaults,  \* whether Redis calls may fail
          MaxExpected,  \* bound: the largest expected_version a client sends
          None

ASSUME ConstantsAssumption ==
  /\ None \notin Req \cup Org \cup Project \cup Key \cup {200, 201, 404, 409, 500}
  /\ CreateAudit \subseteq Field /\ UpdateAudit \subseteq Field
  /\ CacheFaults \in BOOLEAN
  /\ MaxExpected \in Nat

VARIABLES
  rows,     \* the committed projects table
  lock,     \* the request whose open transaction has written the row, or None
  cache,    \* Redis: what each key holds, or None
  pc,       \* the statement each request is about to run
  arg,      \* the request: handler, tenant, project, key, expected_version, columns
  obj,      \* what the handler has read or cached: version and columns
  out,      \* the HTTP status answered, None before
  audit,    \* the committed audit_logs rows about projects
  missed    \* history: the requests that may have left a stale entry, see Settled

vars == <<rows, lock, cache, pc, arg, obj, out, audit, missed>>

Content == [ver : Nat, val : [Field -> Req \cup {None}]]

Blank == [ver |-> 0, val |-> [f \in Field |-> None]]

NoRow == [org |-> None, key |-> None, ver |-> 0, val |-> Blank.val]

NoArg == [kind |-> "none", org |-> None, project |-> None, key |-> None,
          exp |-> 0, set |-> {}]

ContentOf(row) == [ver |-> row.ver, val |-> row.val]

Exists(p) == rows[p].ver > 0

CacheKeyShared(o, p) == <<CHOOSE any \in Org : TRUE, p>>

\* build_key("tenant", organization, "projects", project)
CacheKey(o, p) == <<o, p>>

CacheKeys == Org \X Project

\* ProjectUpdate.expected_version: any integer from 1, whatever the row has.
Expected == 1..MaxExpected

\* A GET is missed from the commit of an update between its SELECT and its SET, and
\* an update from the loss of its eviction.  Those of project p that have ended are
\* settled when the key is deleted or set again.
Settled(p) == {q \in missed : arg[q].project = p /\ pc[q] = "done"}

----------------------------------------------------------------------------

Init ==
  /\ rows = [p \in Project |-> NoRow]
  /\ lock = [p \in Project |-> None]
  /\ cache = [k \in CacheKeys |-> None]
  /\ pc = [r \in Req |-> "idle"]
  /\ arg = [r \in Req |-> NoArg]
  /\ obj = [r \in Req |-> Blank]
  /\ out = [r \in Req |-> None]
  /\ audit = {}
  /\ missed = {}

Goto(r, label) == pc' = [pc EXCEPT ![r] = label]

Answer(r, code) ==
  /\ Goto(r, "done")
  /\ out' = [out EXCEPT ![r] = code]

Start(r, label, a) ==
  /\ pc[r] = "idle"
  /\ arg' = [arg EXCEPT ![r] = a]
  /\ Goto(r, label)
  /\ UNCHANGED <<rows, lock, cache, obj, out, audit, missed>>

\* The tenant-scoped SELECT by id.
Found(o, p) == Exists(p) /\ rows[p].org = o

----------------------------------------------------------------------------
(* POST /projects *)

PostProject(r) ==
  \E o \in Org, k \in Key :
     Start(r, "lookup", [NoArg EXCEPT !.kind = "create", !.org = o, !.key = k])

KeyTaken(r) ==
  \E p \in Project : Exists(p) /\ rows[p].org = arg[r].org /\ rows[p].key = arg[r].key

\* get_by_key and its 409.
LookupKey(r) ==
  /\ pc[r] = "lookup"
  /\ \/ KeyTaken(r) /\ Answer(r, 409)
     \/ ~KeyTaken(r) /\ Goto(r, "insert") /\ UNCHANGED out
  /\ UNCHANGED <<rows, lock, cache, arg, obj, audit, missed>>

\* Another open transaction has inserted the same (organization, key).
KeyPending(r) ==
  \E q \in Req \ {r} : /\ pc[q] = "commit" /\ arg[q].kind = "create"
                       /\ arg[q].org = arg[r].org /\ arg[q].key = arg[r].key

NotUnique(r) == FALSE

\* uq_project_org_key: the INSERT fails on a committed duplicate.
Duplicate(r) == KeyTaken(r)

\* The INSERT waits for an uncommitted duplicate; IntegrityError is not mapped
\* and answers 500.  The id is a fresh uuid.
Insert(r) ==
  /\ pc[r] = "insert" /\ ~KeyPending(r)
  /\ \/ /\ Duplicate(r)
        /\ Answer(r, 500)
        /\ UNCHANGED <<lock, arg>>
     \/ /\ ~Duplicate(r)
        /\ \E p \in Project :
              /\ ~Exists(p) /\ lock[p] = None
              /\ lock' = [lock EXCEPT ![p] = r]
              /\ arg' = [arg EXCEPT ![r].project = p]
        /\ Goto(r, "commit")
        /\ UNCHANGED out
  /\ UNCHANGED <<rows, cache, obj, audit, missed>>

----------------------------------------------------------------------------
(* PATCH /projects/{id}: a client names any version and changes any columns, *)
(* also none (naming the value that the handler reads is no change): the     *)
(* version still goes up.                                                    *)

PatchProject(r) ==
  \E o \in Org, p \in Project, e \in Expected, set \in SUBSET Field :
     /\ Exists(p)
     /\ Start(r, "select", [NoArg EXCEPT !.kind = "update", !.org = o,
                                         !.project = p, !.exp = e, !.set = set])

VersionChecked(r, p) == rows[p].ver = arg[r].exp

\* get_by_id, the 404 and the comparison of versions; before_state is this read.
SelectForUpdate(r) ==
  LET p == arg[r].project
  IN /\ pc[r] = "select" /\ arg[r].kind = "update"
     /\ \/ /\ ~Found(arg[r].org, p)
           /\ Answer(r, 404)
           /\ UNCHANGED obj
        \/ /\ Found(arg[r].org, p) /\ ~VersionChecked(r, p)
           /\ Answer(r, 409)
           /\ UNCHANGED obj
        \/ /\ Found(arg[r].org, p) /\ VersionChecked(r, p)
           /\ obj' = [obj EXCEPT ![r] = ContentOf(rows[p])]
           /\ Goto(r, "flush")
           /\ UNCHANGED out
     /\ UNCHANGED <<rows, lock, cache, arg, audit, missed>>

\* The flush: UPDATE ... WHERE id = p, once the row is not locked.
Flush(r) ==
  LET p == arg[r].project
  IN /\ pc[r] = "flush"
     /\ lock[p] = None
     /\ lock' = [lock EXCEPT ![p] = r]
     /\ Goto(r, "commit")
     /\ UNCHANGED <<rows, cache, arg, obj, out, audit, missed>>

\* The ORM object after the handler's assignments.
Edited(r) ==
  [ver |-> obj[r].ver + 1,
   val |-> [f \in Field |-> IF f \in arg[r].set THEN r ELSE obj[r].val[f]]]

\* The row after the transaction: the flush sets the version and the columns that
\* were changed, and leaves the other columns as they are in the table.
Written(r, row) ==
  IF arg[r].kind = "create"
  THEN [org |-> arg[r].org, key |-> arg[r].key, ver |-> 1,
        val |-> [f \in Field |-> r]]
  ELSE [row EXCEPT !.ver = obj[r].ver + 1,
                   !.val = [f \in Field |-> IF f \in arg[r].set THEN r ELSE row.val[f]]]

Shown(content, fields) ==
  [content EXCEPT !.val = [f \in Field |-> IF f \in fields THEN @[f] ELSE None]]

RecordStale(r) ==
  [project |-> arg[r].project, by |-> r,
   before |-> Shown(obj[r], UpdateAudit), after |-> Shown(obj[r], UpdateAudit)]

\* The audit entry: made from the objects in memory, and not of every column.
Record(r) ==
  IF arg[r].kind = "create"
  THEN [project |-> arg[r].project, by |-> r, before |-> Blank,
        after |-> Shown(ContentOf(Written(r, NoRow)), CreateAudit)]
  ELSE [project |-> arg[r].project, by |-> r,
        before |-> Shown(obj[r], UpdateAudit), after |-> Shown(Edited(r), UpdateAudit)]

\* COMMIT of the row with its audit entry; a create answers at once.
Commit(r) ==
  LET p   == arg[r].project
      new == Written(r, rows[p])
  IN /\ pc[r] = "commit"
     /\ rows' = [rows EXCEPT ![p] = new]
     /\ lock' = [lock EXCEPT ![p] = None]
     /\ audit' = audit \cup {Record(r)}
     /\ obj' = [obj EXCEPT ![r] = IF arg[r].kind = "create" THEN ContentOf(new)
                                                          ELSE Edited(r)]
     /\ IF arg[r].kind = "create" THEN Answer(r, 201)
                                  ELSE Goto(r, "evict") /\ UNCHANGED out
     /\ missed' = missed \cup {g \in Req : pc[g] = "fill" /\ arg[g].project = p}
     /\ UNCHANGED <<cache, arg>>

EvictIfChanged(r) ==
  /\ pc[r] = "evict"
  /\ IF arg[r].set = {}
     THEN UNCHANGED <<cache, missed>>
     ELSE /\ cache' = [cache EXCEPT ![CacheKey(arg[r].org, arg[r].project)] = None]
          /\ missed' = missed \ Settled(arg[r].project)
  /\ Answer(r, 200)
  /\ UNCHANGED <<rows, lock, arg, obj, audit>>

\* CacheService.delete; an error is logged and the handler answers 200.
Evict(r) ==
  /\ pc[r] = "evict"
  /\ \/ /\ cache' = [cache EXCEPT ![CacheKey(arg[r].org, arg[r].project)] = None]
        /\ missed' = missed \ Settled(arg[r].project)
     \/ CacheFaults /\ missed' = missed \cup {r} /\ UNCHANGED cache
  /\ Answer(r, 200)
  /\ UNCHANGED <<rows, lock, arg, obj, audit>>

----------------------------------------------------------------------------
(* GET /projects/{id} *)

GetProject(r) ==
  \E o \in Org, p \in Project :
     /\ Exists(p)
     /\ Start(r, "cacheget", [NoArg EXCEPT !.kind = "get", !.org = o, !.project = p])

CacheGetUnchecked(r) ==
  LET held == cache[CacheKey(arg[r].org, arg[r].project)]
  IN /\ pc[r] = "cacheget"
     /\ obj' = [obj EXCEPT ![r] = held]
     /\ Answer(r, 200)
     /\ UNCHANGED <<rows, lock, cache, arg, audit, missed>>

\* CacheService.get: a hit answers, a miss or an error goes to the database.
CacheGet(r) ==
  LET held == cache[CacheKey(arg[r].org, arg[r].project)]
  IN /\ pc[r] = "cacheget"
     /\ \/ /\ held # None
           /\ obj' = [obj EXCEPT ![r] = held]
           /\ Answer(r, 200)
        \/ /\ held = None \/ CacheFaults
           /\ Goto(r, "select")
           /\ UNCHANGED <<obj, out>>
     /\ UNCHANGED <<rows, lock, cache, arg, audit, missed>>

SelectForGet(r) ==
  LET p == arg[r].project
  IN /\ pc[r] = "select" /\ arg[r].kind = "get"
     /\ \/ /\ ~Found(arg[r].org, p)
           /\ Answer(r, 404)
           /\ UNCHANGED obj
        \/ /\ Found(arg[r].org, p)
           /\ obj' = [obj EXCEPT ![r] = ContentOf(rows[p])]
           /\ Goto(r, "fill")
           /\ UNCHANGED out
     /\ UNCHANGED <<rows, lock, cache, arg, audit, missed>>

\* CacheService.set with the TTL; an error is logged.
Fill(r) ==
  /\ pc[r] = "fill"
  /\ \/ /\ cache' = [cache EXCEPT ![CacheKey(arg[r].org, arg[r].project)] = obj[r]]
        /\ missed' = missed \ Settled(arg[r].project)
     \/ CacheFaults /\ missed' = missed \ {r} /\ UNCHANGED cache
  /\ Answer(r, 200)
  /\ UNCHANGED <<rows, lock, arg, obj, audit>>

----------------------------------------------------------------------------

\* Every key is stored with a TTL, so what is held runs out at some time.
Expire(k) ==
  /\ cache[k] # None
  /\ cache' = [cache EXCEPT ![k] = None]
  /\ missed' = missed \ Settled(k[2])
  /\ UNCHANGED <<rows, lock, pc, arg, obj, out, audit>>

InProgress(r) == pc[r] \notin {"idle", "done"}

Unlocked(r) == [p \in Project |-> IF lock[p] = r THEN None ELSE lock[p]]

\* A database error, or the loss of the node: the open transaction is rolled
\* back, a committed one stays and its eviction may be lost.
Fail(r) ==
  /\ InProgress(r)
  /\ lock' = Unlocked(r)
  /\ Answer(r, 500)
  /\ missed' = IF pc[r] = "evict" THEN missed \cup {r} ELSE missed \ {r}
  /\ UNCHANGED <<rows, cache, arg, obj, audit>>

\* No request in progress: the server waits for the next one.
Quiet ==
  /\ \A r \in Req : ~InProgress(r)
  /\ UNCHANGED vars

Step(r) ==
  \/ LookupKey(r) \/ Insert(r)
  \/ SelectForUpdate(r) \/ Flush(r) \/ Commit(r) \/ Evict(r)
  \/ CacheGet(r) \/ SelectForGet(r) \/ Fill(r)

Next ==
  \/ \E r \in Req : PostProject(r) \/ PatchProject(r) \/ GetProject(r)
  \/ \E r \in Req : Step(r) \/ Fail(r)
  \/ \E k \in CacheKeys : Expire(k)
  \/ Quiet

Spec == Init /\ [][Next]_vars

----------------------------------------------------------------------------
(* Properties.                                                             *)

Row == [org : Org \cup {None}, key : Key \cup {None},
        ver : Nat, val : [Field -> Req \cup {None}]]

Arg == [kind : {"none", "create", "update", "get"}, org : Org \cup {None},
        project : Project \cup {None}, key : Key \cup {None},
        exp : Nat, set : SUBSET Field]

Entry == [project : Project, by : Req, before : Content, after : Content]

\* Every variable has its type, and a request is done exactly when it is answered.
TypeOK ==
  /\ rows \in [Project -> Row]
  /\ lock \in [Project -> Req \cup {None}]
  /\ cache \in [CacheKeys -> Content \cup {None}]
  /\ pc \in [Req -> {"idle", "lookup", "insert", "select", "flush", "commit", "evict",
                     "cacheget", "fill", "done"}]
  /\ arg \in [Req -> Arg]
  /\ obj \in [Req -> Content]
  /\ out \in [Req -> {None, 200, 201, 404, 409, 500}]
  /\ audit \subseteq Entry
  /\ missed \subseteq Req
  /\ \A r \in Req : pc[r] = "done" <=> out[r] # None

\* A key names at most one project of an organization, also when two requests
\* look the key up before either inserts (create_project, uq_project_org_key).
KeyUnique ==
  \A p, q \in Project :
     Exists(p) /\ Exists(q) /\ rows[p].org = rows[q].org /\ rows[p].key = rows[q].key
     => p = q

\* A tenant only ever gets its own projects, from the table or from the cache: a
\* GET or PATCH answered 200 names a project of the caller's organization.
NoCrossTenant ==
  \A r \in Req : out[r] = 200 => rows[arg[r].project].org = arg[r].org

AuditedBy(r) == IF arg[r].kind = "create" THEN CreateAudit ELSE UpdateAudit

\* Every value that an audited column of a project holds, also one that came about
\* when concurrent updates wrote over each other, is in the audit entry of the
\* request that wrote it (create_project, update_project).
ValuesAudited ==
  \A p \in Project, f \in Field :
     LET r == rows[p].val[f]
     IN Exists(p) /\ f \in AuditedBy(r) =>
          \E a \in audit : a.project = p /\ a.by = r /\ a.after.val[f] = r

\* Once a PATCH has answered 200 with a version, the cache holds no older one.
EvictedAfterUpdate ==
  \A r \in Req :
     arg[r].kind = "update" /\ out[r] = 200 =>
       LET held == cache[CacheKey(arg[r].org, arg[r].project)]
       IN held = None \/ held.ver >= obj[r].ver

\* A cached project that is not the committed one has a cause that is still there:
\* an update between its commit and its eviction, or, since the key was last deleted
\* or set, an update whose eviction was lost, or the GET that set it having been
\* overtaken by an update between its SELECT and its SET (get_project,
\* update_project, CacheService).  Nothing else makes an entry stale.
StaleExplained ==
  \A o \in Org, p \in Project :
     cache[<<o, p>>] \notin {None, ContentOf(rows[p])} =>
       \E r \in Req : /\ arg[r].project = p
                     /\ \/ pc[r] = "evict"
                        \/ pc[r] = "done" /\ r \in missed
=============================================================================
