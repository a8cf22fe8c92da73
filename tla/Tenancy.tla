------------------------------ MODULE Tenancy ------------------------------
(***************************************************************************)
(* Who belongs where: registration of users with their organization,       *)
(* invitations into an organization and the mails about them, teams and    *)
(* their members, changes of an organization, and the role check in front  *)
(* of them.  Most handlers look something up and then insert; between the  *)
(* two another handler may insert the same, and only a unique constraint   *)
(* of the database stands in the way.  Each step ends where a handler      *)
(* awaits; PostgreSQL runs at READ COMMITTED.  The mails are jobs that an  *)
(* ARQ worker takes from Redis and may have to take again.                 *)
(***************************************************************************)
EXTENDS Naturals, FiniteSets

CONSTANTS Req,          \* handler invocations, each used once
          User, Org, Team,          \* ids that an INSERT may draw
          Email,        \* normalised addresses (lower case, stripped)
          Slug,         \* team slugs
          InviteRoles,  \* the roles that an invitation may name
          MaxTries,     \* WorkerSettings.max_tries
          None

ROLE_HIERARCHY == [viewer |-> 1, member |-> 2, manager |-> 3, admin |-> 4, owner |-> 5]

Role == DOMAIN ROLE_HIERARCHY

Code == {200, 201, 204, 403, 404, 409, 500}

ASSUME ConstantsAssumption ==
  /\ InviteRoles \subseteq Role
  /\ MaxTries \in Nat \ {0}
  /\ None \notin Req \cup User \cup Org \cup Team \cup Email \cup Slug \cup Role
  /\ None \notin Code

VARIABLES
  users,     \* the users table: the email of each id, or None
  members,   \* organization_members: the role of a user in an organization, or None
  teams,     \* the teams table: organization and slug of each id
  tmembers,  \* team_members: pairs of team and user
  orgs,      \* name and logo_url of each organization: the PATCH that wrote it, or None
  jobs,      \* the send_invitation_email job of each request: its state in the queue,
             \* how often a worker has taken it, how many mails it has sent
  pc,        \* the statement each request is about to run
  arg,       \* the request
  out        \* the HTTP status answered, None before

tables == <<users, members, teams, tmembers, orgs>>
vars == <<tables, jobs, pc, arg, out>>

NoTeam == [org |-> None, slug |-> None]

Column == {"name", "logo_url"}

NoJob == [st |-> "none", tries |-> 0, mails |-> 0]

\* kind, caller and organization header; then the body; user and team are ids that
\* the handler was given, has looked up or has drawn; cols are the columns that a
\* PATCH changes (naming the value that the handler has read is not naming the column,
\* since the ORM then writes nothing) and obj the values that the handler has read.
NoArg == [kind |-> "none", caller |-> None, org |-> None, email |-> None,
          role |-> None, slug |-> None, user |-> None, team |-> None,
          cols |-> {}, obj |-> [c \in Column |-> None]]

TeamRow == [org : Org \cup {None}, slug : Slug \cup {None}]

OrgRow == [Column -> Req \cup {None}]

Job == [st : {"none", "queued", "running", "sent", "done", "failed"}, tries : Nat, mails : Nat]

Label == {"idle", "role", "email", "member", "team", "insert", "commit", "detail",
          "enqueue", "select", "flush", "refresh", "done"}

Arg == [kind : {"none", "register", "invite", "team", "teammember", "patch"},
        caller : User \cup {None}, org : Org \cup {None}, email : Email \cup {None},
        role : Role \cup {None}, slug : Slug \cup {None}, user : User \cup {None},
        team : Team \cup {None}, cols : SUBSET Column, obj : OrgRow]

Init ==
  /\ users = [u \in User |-> None]
  /\ members = [o \in Org |-> [u \in User |-> None]]
  /\ teams = [t \in Team |-> NoTeam]
  /\ tmembers = {}
  /\ orgs = [o \in Org |-> [c \in Column |-> None]]
  /\ jobs = [r \in Req |-> NoJob]
  /\ pc = [r \in Req |-> "idle"]
  /\ arg = [r \in Req |-> NoArg]
  /\ out = [r \in Req |-> None]

Goto(r, label) == pc' = [pc EXCEPT ![r] = label]

Answer(r, code) ==
  /\ Goto(r, "done")
  /\ out' = [out EXCEPT ![r] = code]

OrgExists(o) == \E u \in User : members[o][u] # None

----------------------------------------------------------------------------
(* The requests.                                                           *)

Start(r, label, a) ==
  /\ pc[r] = "idle"
  /\ arg' = [arg EXCEPT ![r] = a]
  /\ Goto(r, label)
  /\ UNCHANGED <<tables, jobs, out>>

Register(r) ==
  \E e \in Email : Start(r, "email", [NoArg EXCEPT !.kind = "register", !.email = e])

\* A registered user calls with the id of some organization in X-Organization-ID.
Call(r, kind, a) ==
  \E c \in User, o \in Org :
     /\ users[c] # None /\ OrgExists(o)
     /\ Start(r, "role", [a EXCEPT !.kind = kind, !.caller = c, !.org = o])

InviteMember(r) ==
  \E e \in Email, role \in InviteRoles :
     Call(r, "invite", [NoArg EXCEPT !.email = e, !.role = role])

CreateTeam(r) ==
  \E s \in Slug : Call(r, "team", [NoArg EXCEPT !.slug = s])

AddTeamMember(r) ==
  \E t \in Team, u \in User :
     /\ teams[t] # NoTeam /\ users[u] # None
     /\ Call(r, "teammember", [NoArg EXCEPT !.team = t, !.user = u])

PatchOrganization(r) ==
  \E cs \in SUBSET Column : Call(r, "patch", [NoArg EXCEPT !.cols = cs])

----------------------------------------------------------------------------
(* The steps.                                                              *)

MinRole(r) == IF arg[r].kind \in {"invite", "patch"} THEN "admin" ELSE "manager"

\* RequireRole: a member, with at least the level of min_role.
Allowed(role, min) == role # None /\ ROLE_HIERARCHY[role] >= ROLE_HIERARCHY[min]

\* get_membership of the caller, and the 403.
CheckRole(r) ==
  /\ pc[r] = "role"
  /\ IF Allowed(members[arg[r].org][arg[r].caller], MinRole(r))
     THEN /\ Goto(r, CASE arg[r].kind = "invite" -> "email"
                       [] arg[r].kind = "team" -> "insert"
                       [] arg[r].kind = "patch" -> "select"
                       [] OTHER -> "team")
          /\ UNCHANGED out
     ELSE Answer(r, 403)
  /\ UNCHANGED <<tables, jobs, arg>>

WithEmail(e) == {u \in User : users[u] = e}

\* user_repo.get_by_email: registration wants nobody (409), an invitation somebody
\* (404).
FindEmail(r) ==
  LET found == WithEmail(arg[r].email)
  IN /\ pc[r] = "email"
     /\ \/ arg[r].kind = "register" /\ found # {} /\ Answer(r, 409) /\ UNCHANGED arg
        \/ arg[r].kind = "register" /\ found = {} /\ Goto(r, "insert") /\ UNCHANGED <<arg, out>>
        \/ arg[r].kind = "invite" /\ found = {} /\ Answer(r, 404) /\ UNCHANGED arg
        \/ /\ arg[r].kind = "invite"
           /\ \E u \in found : arg' = [arg EXCEPT ![r].user = u]
           /\ Goto(r, "member")
           /\ UNCHANGED out
     /\ UNCHANGED <<tables, jobs>>

\* get_membership of the invited user, and the 409.
FindMember(r) ==
  /\ pc[r] = "member"
  /\ IF members[arg[r].org][arg[r].user] # None
     THEN Answer(r, 409)
     ELSE Goto(r, "insert") /\ UNCHANGED out
  /\ UNCHANGED <<tables, jobs, arg>>

FindTeamUnscoped(r) ==
  /\ pc[r] = "team"
  /\ Goto(r, "insert")
  /\ UNCHANGED <<tables, jobs, arg, out>>

\* team_repo.get_by_id is scoped to the organization; then the user is looked up,
\* in the whole users table.  No code deletes a user.
FindTeam(r) ==
  /\ pc[r] = "team"
  /\ IF teams[arg[r].team].org = arg[r].org
     THEN Goto(r, "insert") /\ UNCHANGED out
     ELSE Answer(r, 404)
  /\ UNCHANGED <<tables, jobs, arg>>

\* The unique key of the row that the handler inserts.
UniqueKey(r) ==
  LET a == arg[r]
  IN CASE a.kind = "register" -> <<"users.email", a.email>>
       [] a.kind = "invite" -> <<"uq_org_member_user", a.org, a.user>>
       [] a.kind = "team" -> <<"uq_team_org_slug", a.org, a.slug>>
       [] OTHER -> <<"uq_team_member_user", a.team, a.user>>

NoConstraint(r) == FALSE

\* A committed row has the key.
Taken(r) ==
  LET a == arg[r]
  IN CASE a.kind = "register" -> WithEmail(a.email) # {}
       [] a.kind = "invite" -> members[a.org][a.user] # None
       [] a.kind = "team" -> \E t \in Team : teams[t] = [org |-> a.org, slug |-> a.slug]
       [] OTHER -> <<a.team, a.user>> \in tmembers

\* The ids of rows that are committed or inserted by an open transaction.
UsedIds ==
  {u \in User : users[u] # None} \cup {o \in Org : OrgExists(o)}
    \cup {t \in Team : teams[t] # NoTeam}
    \cup UNION {{arg[q].user, arg[q].org, arg[q].team} : q \in {p \in Req : pc[p] = "commit"}}

\* The INSERTs of the handler, in one open transaction: a registration draws ids for
\* the user and the organization, a new team draws its id.  The first INSERT waits
\* for an open transaction with the same key; IntegrityError is not mapped.
Insert(r) ==
  /\ pc[r] = "insert"
  /\ ~\E q \in Req \ {r} : pc[q] = "commit" /\ UniqueKey(q) = UniqueKey(r)
  /\ \/ Taken(r) /\ Answer(r, 500) /\ UNCHANGED arg
     \/ /\ ~Taken(r)
        /\ CASE arg[r].kind = "register" ->
                  \E u \in User \ UsedIds, o \in Org \ UsedIds :
                     arg' = [arg EXCEPT ![r] = [@ EXCEPT !.user = u, !.org = o]]
             [] arg[r].kind = "team" ->
                  \E t \in Team \ UsedIds : arg' = [arg EXCEPT ![r].team = t]
             [] OTHER -> UNCHANGED arg
        /\ Goto(r, "commit")
        /\ UNCHANGED out
  /\ UNCHANGED <<tables, jobs>>

RoleOfDefault(r) == "member"

\* The role that the new membership gets.
RoleOf(r) == IF arg[r].kind = "register" THEN "owner" ELSE arg[r].role

\* COMMIT: everything the handler inserted appears at once.
Commit(r) ==
  LET a == arg[r]
  IN /\ pc[r] = "commit"
     /\ users' = IF a.kind = "register" THEN [users EXCEPT ![a.user] = a.email] ELSE users
     /\ members' = IF a.kind \in {"register", "invite"}
                   THEN [members EXCEPT ![a.org][a.user] = RoleOf(r)] ELSE members
     /\ teams' = IF a.kind = "team"
                 THEN [teams EXCEPT ![a.team] = [org |-> a.org, slug |-> a.slug]] ELSE teams
     /\ tmembers' = IF a.kind = "teammember" THEN tmembers \cup {<<a.team, a.user>>}
                                             ELSE tmembers
     /\ UNCHANGED orgs
     /\ CASE a.kind = "invite" -> Goto(r, "enqueue") /\ UNCHANGED out
          [] a.kind = "team" -> Goto(r, "detail") /\ UNCHANGED out
          [] a.kind = "teammember" -> Answer(r, 204)
          [] OTHER -> Answer(r, 201)
     /\ UNCHANGED <<jobs, arg>>

\* create_team answers with get_team_detail, read after the commit and scoped to the
\* organization.
TeamDetail(r) ==
  /\ pc[r] = "detail"
  /\ Answer(r, IF teams[arg[r].team].org = arg[r].org THEN 201 ELSE 404)
  /\ UNCHANGED <<tables, jobs, arg>>

\* org_repo.get_by_id; nothing deletes an organization.
SelectOrg(r) ==
  /\ pc[r] = "select"
  /\ arg' = [arg EXCEPT ![r].obj = orgs[arg[r].org]]
  /\ Goto(r, "flush")
  /\ UNCHANGED <<tables, jobs, out>>

WrittenWhole(r) == [c \in Column |-> IF c \in arg[r].cols THEN r ELSE arg[r].obj[c]]

\* What the UPDATE makes of the row: the ORM writes the changed columns only.
Written(r) ==
  [c \in Column |-> IF c \in arg[r].cols THEN r ELSE orgs[arg[r].org][c]]

\* session.commit: the UPDATE, which waits for another one of the row, and COMMIT.
CommitPatch(r) ==
  /\ pc[r] = "flush"
  /\ orgs' = [orgs EXCEPT ![arg[r].org] = Written(r)]
  /\ Goto(r, "refresh")
  /\ UNCHANGED <<users, members, teams, tmembers, jobs, arg, out>>

\* session.refresh: the response shows the row as it is then.
RefreshOrg(r) ==
  /\ pc[r] = "refresh"
  /\ arg' = [arg EXCEPT ![r].obj = orgs[arg[r].org]]
  /\ Answer(r, 200)
  /\ UNCHANGED <<tables, jobs>>

----------------------------------------------------------------------------
(* Invitation mails.                                                       *)

SetJob(r, label) == jobs' = [jobs EXCEPT ![r].st = label]

EnqueueSilent(r) ==
  /\ pc[r] = "enqueue"
  /\ SetJob(r, "queued")
  /\ Goto(r, "done")
  /\ UNCHANGED <<tables, arg, out>>

EnqueueEarly(r) ==
  /\ arg[r].kind = "invite" /\ jobs[r] = NoJob
  /\ \/ pc[r] = "commit" /\ SetJob(r, "queued") /\ UNCHANGED <<pc, out>>
     \/ pc[r] = "enqueue" /\ UNCHANGED jobs /\ Answer(r, 201)
  /\ UNCHANGED <<tables, arg>>

\* JobQueueService.enqueue swallows every error.
Enqueue(r) ==
  /\ pc[r] = "enqueue"
  /\ SetJob(r, "queued") \/ UNCHANGED jobs
  /\ Answer(r, 201)
  /\ UNCHANGED <<tables, arg>>

\* A worker takes the job: ARQ counts the try and gives up beyond max_tries.
TakeJob(r) ==
  /\ jobs[r].st = "queued"
  /\ jobs' = IF jobs[r].tries < MaxTries
             THEN [jobs EXCEPT ![r] = [@ EXCEPT !.st = "running", !.tries = jobs[r].tries + 1]]
             ELSE [jobs EXCEPT ![r].st = "failed"]
  /\ UNCHANGED <<tables, pc, arg, out>>

\* send_invitation_email delivers.
send_invitation_email(r) ==
  /\ jobs[r].st = "running"
  /\ jobs' = [jobs EXCEPT ![r] = [@ EXCEPT !.st = "sent", !.mails = jobs[r].mails + 1]]
  /\ UNCHANGED <<tables, pc, arg, out>>

\* It returns and ARQ removes the job; or it exceeds job_timeout before or after the
\* delivery, which ARQ does not retry.
FinishJob(r) ==
  /\ \/ jobs[r].st = "sent" /\ SetJob(r, "done")
     \/ jobs[r].st \in {"running", "sent"} /\ SetJob(r, "failed")
  /\ UNCHANGED <<tables, pc, arg, out>>

\* The worker shuts down or is lost: ARQ runs the job again.
LoseWorker(r) ==
  /\ jobs[r].st \in {"running", "sent"}
  /\ SetJob(r, "queued")
  /\ UNCHANGED <<tables, pc, arg, out>>

Worker(r) == TakeJob(r) \/ send_invitation_email(r) \/ FinishJob(r) \/ LoseWorker(r)

InProgress(r) == pc[r] \notin {"idle", "done"}

\* A database error, or the loss of the node: an open transaction leaves no row.
Fail(r) ==
  /\ InProgress(r)
  /\ Answer(r, 500)
  /\ UNCHANGED <<tables, jobs, arg>>

\* No request in progress: the server waits for the next one.
Quiet ==
  /\ \A r \in Req : ~InProgress(r)
  /\ UNCHANGED vars

Step(r) ==
  \/ CheckRole(r) \/ FindEmail(r) \/ FindMember(r) \/ FindTeam(r)
  \/ Insert(r) \/ Commit(r) \/ TeamDetail(r) \/ Enqueue(r)
  \/ SelectOrg(r) \/ CommitPatch(r) \/ RefreshOrg(r)

Next ==
  \/ \E r \in Req : Register(r) \/ InviteMember(r) \/ CreateTeam(r) \/ AddTeamMember(r)
                      \/ PatchOrganization(r)
  \/ \E r \in Req : Step(r) \/ Fail(r) \/ Worker(r)
  \/ Quiet

Spec == Init /\ [][Next]_vars

----------------------------------------------------------------------------
(* Properties.                                                             *)

\* Every variable has its type, and a request is done exactly when it is answered.
TypeOK ==
  /\ users \in [User -> Email \cup {None}]
  /\ members \in [Org -> [User -> Role \cup {None}]]
  /\ teams \in [Team -> TeamRow]
  /\ tmembers \subseteq Team \X User
  /\ orgs \in [Org -> OrgRow]
  /\ jobs \in [Req -> Job]
  /\ pc \in [Req -> Label]
  /\ arg \in [Req -> Arg]
  /\ out \in [Req -> Code \cup {None}]
  /\ \A r \in Req : pc[r] = "done" <=> out[r] # None

\* Nobody registers twice: an address has at most one account and at most one
\* registration with it was answered 201, also when several pass the lookup before
\* the first commits (register, users.email).
RegisteredOnce ==
  /\ \A e \in Email : Cardinality(WithEmail(e)) <= 1
  /\ \A p, q \in Req :
        /\ arg[p].kind = "register" /\ out[p] = 201
        /\ arg[q].kind = "register" /\ out[q] = 201
        /\ arg[p].email = arg[q].email
        => p = q

\* Registration is all or nothing: every user owns an organization, every
\* organization with members has an owner, and nobody is a member who does not
\* exist (register).
Provisioned ==
  /\ \A u \in User : users[u] # None => \E o \in Org : members[o][u] = "owner"
  /\ \A o \in Org : OrgExists(o) => \E u \in User : members[o][u] = "owner"
  /\ \A o \in Org, u \in User : members[o][u] # None => users[u] # None

\* An invitation that was answered 201 holds: the user has the role it named and no
\* concurrent invitation has replaced it (invite_member, uq_org_member_user).
InviteHonoured ==
  \A r \in Req : arg[r].kind = "invite" /\ out[r] = 201 =>
     members[arg[r].org][arg[r].user] = arg[r].role

\* Whatever becomes of the workers, a user gets at most max_tries mails about one
\* invitation, none unless the membership is committed, and a job that ARQ counts as
\* done has sent one (invite_member, send_invitation_email, WorkerSettings).
MailBounded ==
  \A r \in Req :
     /\ jobs[r].mails <= MaxTries
     /\ jobs[r].mails > 0 => members[arg[r].org][arg[r].user] = arg[r].role
     /\ jobs[r].st = "done" => jobs[r].mails > 0

\* Two admins who change different columns of the organization at the same time do
\* not undo each other: a column that a PATCH was answered 200 for holds the value of
\* a PATCH that named it (update_current_organization).
ColumnsKept ==
  \A r \in Req, c \in Column :
     arg[r].kind = "patch" /\ out[r] = 200 /\ c \in arg[r].cols =>
       \E q \in Req : /\ orgs[arg[r].org][c] = q
                     /\ arg[q].kind = "patch" /\ arg[q].org = arg[r].org
                     /\ c \in arg[q].cols

\* A slug names at most one team of an organization, and the teams that a manager
\* fills are those of the organization the manager acts for (create_team,
\* add_member, uq_team_org_slug).
TeamsApart ==
  /\ \A s, t \in Team : teams[s] # NoTeam /\ teams[s] = teams[t] => s = t
  /\ \A r \in Req : arg[r].kind = "teammember" /\ out[r] = 204 =>
        teams[arg[r].team].org = arg[r].org
=============================================================================
