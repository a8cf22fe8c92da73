--------------------------- MODULE TenancyProofs ---------------------------
(***************************************************************************)
(* Theorems about Tenancy, for any number of requests, users,              *)
(* organizations, teams, addresses and tries of a job.                     *)
(***************************************************************************)
EXTENDS Tenancy, FiniteSetTheorems, TLAPS

----------------------------------------------------------------------------
(* The inductive invariant.                                                *)

\* What a request names exists: the organization it acts for has members, and the
\* team and the user that a manager brings together are rows.
Asked(r) ==
  LET a == arg[r]
  IN /\ a.kind = "none" <=> pc[r] = "idle"
     /\ a.kind \in {"invite", "team", "teammember", "patch"} => a.org \in Org /\ OrgExists(a.org)
     /\ a.kind \in {"register", "invite"} => a.email \in Email
     /\ a.kind = "invite" => a.role \in InviteRoles
     /\ a.kind = "team" => a.slug \in Slug
     /\ a.kind = "teammember" => /\ a.team \in Team /\ teams[a.team] # NoTeam
                                 /\ a.user \in User /\ users[a.user] # None

\* Which handlers come to a statement.
Flow(r) ==
  LET k == arg[r].kind
  IN /\ pc[r] = "role" => k \in {"invite", "team", "teammember", "patch"}
     /\ pc[r] = "email" => k \in {"register", "invite"}
     /\ pc[r] \in {"member", "enqueue"} => k = "invite"
     /\ pc[r] = "team" => k = "teammember"
     /\ pc[r] \in {"insert", "commit"} => k \in {"register", "invite", "team", "teammember"}
     /\ pc[r] = "detail" => k = "team"
     /\ pc[r] \in {"select", "flush", "refresh"} => k = "patch"

\* What a handler has found out, and what its answer rests on, is still so.
Known(r) ==
  LET a == arg[r]
  IN /\ a.kind = "invite" /\ pc[r] \in {"member", "insert", "commit"} =>
          a.user \in User /\ users[a.user] # None
     /\ a.kind = "teammember" /\ (pc[r] \in {"insert", "commit"} \/ out[r] = 204) =>
          teams[a.team].org = a.org
     /\ a.kind = "invite" /\ (pc[r] = "enqueue" \/ out[r] = 201) =>
          a.user \in User /\ members[a.org][a.user] = a.role
     /\ a.kind = "register" /\ out[r] = 201 => \E u \in User : users[u] = a.email
     /\ a.kind = "patch" /\ (pc[r] = "refresh" \/ out[r] = 200) =>
          \A c \in a.cols : orgs[a.org][c] \in Req

\* The rows that a handler has inserted and not yet committed clash with no
\* committed row.
Pending(r) ==
  LET a == arg[r]
  IN pc[r] = "commit" =>
       /\ a.kind = "register" => /\ a.user \in User /\ users[a.user] = None
                                 /\ a.org \in Org /\ ~OrgExists(a.org)
                                 /\ \A u \in User : users[u] # a.email
       /\ a.kind = "invite" => members[a.org][a.user] = None
       /\ a.kind = "team" => /\ a.team \in Team /\ teams[a.team] = NoTeam
                             /\ \A t \in Team : teams[t] # [org |-> a.org, slug |-> a.slug]

Sound(r) == Asked(r) /\ Flow(r) /\ Known(r) /\ Pending(r)

\* Nor do they clash with those of another handler.
Distinct(p, q) ==
  LET a == arg[p]
      b == arg[q]
  IN pc[p] = "commit" /\ pc[q] = "commit" /\ a.kind = b.kind =>
       /\ a.kind = "register" => a.email # b.email /\ a.user # b.user /\ a.org # b.org
       /\ a.kind = "invite" => a.org # b.org \/ a.user # b.user
       /\ a.kind = "team" => /\ a.team # b.team
                             /\ a.org # b.org \/ a.slug # b.slug

RequestInv ==
  /\ \A r \in Req : Sound(r)
  /\ \A p, q \in Req : p # q => Distinct(p, q)

\* A mail has had a try of its own, and there is no job before the answer.
JobInv ==
  \A r \in Req :
     LET j == jobs[r]
     IN /\ j.st # "none" => arg[r].kind = "invite" /\ out[r] = 201
        /\ j.tries <= MaxTries /\ j.mails <= j.tries
        /\ j.st = "none" => j.mails = 0
        /\ j.st = "running" => j.mails < j.tries
        /\ j.st \in {"sent", "done"} => j.mails > 0

\* The value of a column comes from a PATCH of the organization that named it.
ColumnInv ==
  \A o \in Org, c \in Column, q \in Req : orgs[o][c] = q =>
     arg[q].kind = "patch" /\ arg[q].org = o /\ c \in arg[q].cols

\* No two users have one address and no two teams of an organization one slug.
UniqueInv ==
  /\ \A u, v \in User : users[u] # None /\ users[u] = users[v] => u = v
  /\ \A s, t \in Team : teams[s] # NoTeam /\ teams[s] = teams[t] => s = t

\* No two registrations with one address were answered 201.
OneAnswer ==
  \A p, q \in Req :
     /\ arg[p].kind = "register" /\ out[p] = 201
     /\ arg[q].kind = "register" /\ out[q] = 201
     /\ arg[p].email = arg[q].email
     => p = q

IInv == /\ TypeOK /\ RequestInv /\ JobInv /\ ColumnInv /\ UniqueInv /\ OneAnswer
        /\ Provisioned

----------------------------------------------------------------------------
(* Records and roles.                                                      *)

\* A role is not the absence of one, and the owner's is a role.
LEMMA RoleFacts == "owner" \in Role /\ None \notin Role /\ InviteRoles \subseteq Role
  BY ConstantsAssumption DEF Role, ROLE_HIERARCHY

\* The row of a team is not the absence of one.
LEMMA TeamRowFacts ==
  /\ NoTeam \in TeamRow /\ NoTeam.org = None
  /\ \A o \in Org, s \in Slug :
        LET row == [org |-> o, slug |-> s]
        IN row \in TeamRow /\ row # NoTeam /\ row.org = o /\ row.slug = s
  BY ConstantsAssumption DEF NoTeam, TeamRow

\* A request that has not come yet.
LEMMA NoArgFacts ==
  /\ NoArg \in Arg /\ NoArg.kind = "none" /\ NoArg.cols = {}
  /\ NoArg.org = None /\ NoArg.user = None /\ NoArg.team = None
  BY DEF NoArg, Arg, OrgRow

\* The bodies of the requests.
LEMMA RegisterBody ==
  ASSUME NEW e \in Email
  PROVE  LET a == [NoArg EXCEPT !.kind = "register", !.email = e]
         IN a \in Arg /\ a.kind = "register" /\ a.email = e
  BY NoArgFacts DEF Arg

\* The same for an invitation.
LEMMA InviteBody ==
  ASSUME NEW e \in Email, NEW role \in InviteRoles
  PROVE  LET a == [NoArg EXCEPT !.email = e, !.role = role]
         IN a \in Arg /\ a.email = e /\ a.role = role
  BY NoArgFacts, RoleFacts DEF Arg

\* The same for a new team, a new member of a team and a PATCH.
LEMMA OtherBodies ==
  /\ \A s \in Slug : LET a == [NoArg EXCEPT !.slug = s] IN a \in Arg /\ a.slug = s
  /\ \A t \in Team, u \in User :
        LET a == [NoArg EXCEPT !.team = t, !.user = u]
        IN a \in Arg /\ a.team = t /\ a.user = u
  /\ \A cs \in SUBSET Column : LET a == [NoArg EXCEPT !.cols = cs] IN a \in Arg /\ a.cols = cs
  <1>1. ASSUME NEW s \in Slug PROVE LET a == [NoArg EXCEPT !.slug = s] IN a \in Arg /\ a.slug = s
    BY NoArgFacts DEF Arg
  <1>2. ASSUME NEW t \in Team, NEW u \in User
        PROVE  LET a == [NoArg EXCEPT !.team = t, !.user = u]
               IN a \in Arg /\ a.team = t /\ a.user = u
    BY NoArgFacts DEF Arg
  <1>3. ASSUME NEW cs \in SUBSET Column
        PROVE  LET a == [NoArg EXCEPT !.cols = cs] IN a \in Arg /\ a.cols = cs
    BY NoArgFacts DEF Arg
  <1> QED
    BY <1>1, <1>2, <1>3

SameRequest(a, b) ==
  /\ a.kind = b.kind /\ a.email = b.email /\ a.role = b.role /\ a.slug = b.slug
  /\ a.cols = b.cols

\* The user that a handler has looked up leaves the request alone.
LEMMA UserUpdate ==
  ASSUME NEW a \in Arg, NEW u \in User
  PROVE  LET b == [a EXCEPT !.user = u]
         IN b \in Arg /\ SameRequest(a, b) /\ b.user = u /\ b.org = a.org /\ b.team = a.team
  BY DEF Arg, SameRequest

\* So does the id of a new team.
LEMMA TeamUpdate ==
  ASSUME NEW a \in Arg, NEW t \in Team
  PROVE  LET b == [a EXCEPT !.team = t]
         IN b \in Arg /\ SameRequest(a, b) /\ b.team = t /\ b.org = a.org
  BY DEF Arg, SameRequest

\* So does the row of the organization that a PATCH has read.
LEMMA ObjUpdate ==
  ASSUME NEW a \in Arg, NEW row \in OrgRow
  PROVE  LET b == [a EXCEPT !.obj = row]
         IN /\ b \in Arg /\ SameRequest(a, b) /\ b.org = a.org /\ b.user = a.user
            /\ b.team = a.team
  BY DEF Arg, SameRequest

\* A job changes its state and keeps its counts.
LEMMA JobMoves ==
  ASSUME NEW j \in Job, NEW st \in {"queued", "sent", "done", "failed"}
  PROVE  LET k == [j EXCEPT !.st = st]
         IN k \in Job /\ k.st = st /\ k.tries = j.tries /\ k.mails = j.mails
  BY DEF Job

\* A worker counts the try.
LEMMA JobTaken ==
  ASSUME NEW j \in Job
  PROVE  LET k == [j EXCEPT !.st = "running", !.tries = j.tries + 1]
         IN k \in Job /\ k.st = "running" /\ k.tries = j.tries + 1 /\ k.mails = j.mails
  <1>1. ASSUME NEW n \in Nat
        PROVE  LET k == [j EXCEPT !.st = "running", !.tries = n]
               IN k \in Job /\ k.st = "running" /\ k.tries = n /\ k.mails = j.mails
    BY DEF Job
  <1>2. j.tries + 1 \in Nat
    BY DEF Job
  <1> QED
    BY <1>1, <1>2

\* A mail is sent.
LEMMA JobSent ==
  ASSUME NEW j \in Job
  PROVE  LET k == [j EXCEPT !.st = "sent", !.mails = j.mails + 1]
         IN k \in Job /\ k.st = "sent" /\ k.tries = j.tries /\ k.mails = j.mails + 1
  <1>1. ASSUME NEW n \in Nat
        PROVE  LET k == [j EXCEPT !.st = "sent", !.mails = n]
               IN k \in Job /\ k.st = "sent" /\ k.mails = n /\ k.tries = j.tries
    BY DEF Job
  <1>2. j.mails + 1 \in Nat
    BY DEF Job
  <1> QED
    BY <1>1, <1>2

----------------------------------------------------------------------------
(* The shapes of the steps.                                                *)

\* A step of a request changes nothing of the others, and ends the request exactly
\* when it answers it.
Turn(r) ==
  /\ arg' = [arg EXCEPT ![r] = arg'[r]] /\ arg'[r] \in Arg
  /\ pc' = [pc EXCEPT ![r] = pc'[r]] /\ pc'[r] \in Label
  /\ out' = [out EXCEPT ![r] = out'[r]] /\ out'[r] \in Code \cup {None}
  /\ pc'[r] = "done" <=> out'[r] # None

\* What a step of a request does to the types and to the other requests.
LEMMA TurnFacts ==
  ASSUME TypeOK, NEW r \in Req, Turn(r)
  PROVE  /\ arg' \in [Req -> Arg] /\ pc' \in [Req -> Label] /\ out' \in [Req -> Code \cup {None}]
         /\ \A q \in Req : pc'[q] = "done" <=> out'[q] # None
         /\ \A q \in Req : q # r => arg'[q] = arg[q] /\ pc'[q] = pc[q] /\ out'[q] = out[q]
  <1>1. arg' \in [Req -> Arg] /\ pc' \in [Req -> Label] /\ out' \in [Req -> Code \cup {None}]
    BY DEF TypeOK, Turn
  <1>2. \A q \in Req : q # r => arg'[q] = arg[q] /\ pc'[q] = pc[q] /\ out'[q] = out[q]
    BY DEF TypeOK, Turn
  <1>3. \A q \in Req : pc'[q] = "done" <=> out'[q] # None
    BY <1>2 DEF TypeOK, Turn
  <1> QED
    BY <1>1, <1>2, <1>3

\* An answer.
LEMMA AnswerFacts ==
  ASSUME TypeOK, NEW r \in Req, NEW code \in Code, Answer(r, code)
  PROVE  /\ pc' = [pc EXCEPT ![r] = pc'[r]] /\ pc'[r] = "done" /\ pc'[r] \in Label
         /\ out' = [out EXCEPT ![r] = out'[r]] /\ out'[r] = code /\ out'[r] \in Code \cup {None}
         /\ pc'[r] = "done" <=> out'[r] # None
  BY ConstantsAssumption DEF Answer, Goto, TypeOK, Label

\* A step to another statement.
LEMMA GotoFacts ==
  ASSUME TypeOK, NEW r \in Req, NEW label \in Label \ {"done"}, Goto(r, label), out' = out,
         pc[r] # "done"
  PROVE  /\ pc' = [pc EXCEPT ![r] = pc'[r]] /\ pc'[r] = label /\ pc'[r] \in Label
         /\ out' = [out EXCEPT ![r] = out'[r]] /\ out'[r] = None /\ out'[r] \in Code \cup {None}
         /\ pc'[r] = "done" <=> out'[r] # None
  BY ConstantsAssumption DEF Goto, TypeOK, Label

\* The request stays as it is.
LEMMA ArgStays ==
  ASSUME TypeOK, NEW r \in Req, arg' = arg
  PROVE  arg' = [arg EXCEPT ![r] = arg'[r]] /\ arg'[r] \in Arg
  BY DEF TypeOK

\* The request becomes another record.
LEMMA ArgBecomes ==
  ASSUME TypeOK, NEW r \in Req, NEW a \in Arg, arg' = [arg EXCEPT ![r] = a]
  PROVE  arg' = [arg EXCEPT ![r] = arg'[r]] /\ arg'[r] = a /\ arg'[r] \in Arg
  BY DEF TypeOK

----------------------------------------------------------------------------
(* Steps that change no table.                                             *)

\* The request goes on, and what is known about it holds where it gets.
Think(r) ==
  /\ UNCHANGED <<users, members, teams, tmembers, orgs, jobs>>
  /\ Turn(r) /\ Sound(r)' /\ out[r] = None
  /\ pc[r] # "idle" => /\ SameRequest(arg[r], arg'[r])
                       /\ arg[r].kind = "patch" => arg'[r].org = arg[r].org
  /\ arg'[r].kind = "register" => out'[r] # 201
  /\ pc'[r] = "commit" => Insert(r)

\* A request that has just come knows nothing yet.
LEMMA Begins ==
  ASSUME TypeOK, NEW r \in Req, NEW label \in {"email", "role"}, NEW a \in Arg,
         Start(r, label, a), Asked(r)', Flow(r)'
  PROVE  Think(r)
  <1>1. /\ pc[r] = "idle" /\ Goto(r, label) /\ arg' = [arg EXCEPT ![r] = a]
        /\ UNCHANGED <<users, members, teams, tmembers, orgs, jobs, out>>
    BY DEF Start, tables
  <1>2. /\ pc' = [pc EXCEPT ![r] = pc'[r]] /\ pc'[r] = label /\ pc'[r] \in Label
        /\ out' = [out EXCEPT ![r] = out'[r]] /\ out'[r] = None /\ out'[r] \in Code \cup {None}
        /\ pc'[r] = "done" <=> out'[r] # None
    <2>1. label \in Label \ {"done"}
      BY DEF Label
    <2> QED
      BY <1>1, <2>1, GotoFacts
  <1>3. Turn(r)
    BY <1>1, <1>2, ArgBecomes DEF Turn
  <1>4. out'[r] \notin Code
    BY <1>2, ConstantsAssumption
  <1>5. Known(r)' /\ Pending(r)'
    BY <1>2, <1>4 DEF Known, Pending, Code
  <1> QED
    BY <1>1, <1>2, <1>3, <1>4, <1>5 DEF Think, Sound, Code

\* A registration.
LEMMA RegisterThinks ==
  ASSUME TypeOK, NEW r \in Req, Register(r)
  PROVE  Think(r)
  <1>1. PICK e \in Email :
          Start(r, "email", [NoArg EXCEPT !.kind = "register", !.email = e])
    BY DEF Register
  <1> DEFINE a == [NoArg EXCEPT !.kind = "register", !.email = e]
  <1>2. a \in Arg /\ a.kind = "register" /\ a.email = e
    BY RegisterBody
  <1>3. Start(r, "email", a)
    BY <1>1
  <1> HIDE DEF a
  <1>4. arg'[r] = a /\ pc'[r] = "email"
    BY <1>3 DEF Start, Goto, TypeOK
  <1>5. Asked(r)' /\ Flow(r)'
    BY <1>2, <1>4 DEF Asked, Flow
  <1> QED
    BY <1>2, <1>3, <1>5, Begins

\* A call of a registered user for an organization.
LEMMA CallThinks ==
  ASSUME TypeOK, NEW r \in Req, NEW kind \in {"invite", "team", "teammember", "patch"},
         NEW a \in Arg, Call(r, kind, a),
         kind = "invite" => a.email \in Email /\ a.role \in InviteRoles,
         kind = "team" => a.slug \in Slug,
         kind = "teammember" => /\ a.team \in Team /\ teams[a.team] # NoTeam
                                /\ a.user \in User /\ users[a.user] # None
  PROVE  Think(r)
  <1>1. PICK c \in User, o \in Org :
          /\ OrgExists(o)
          /\ Start(r, "role", [a EXCEPT !.kind = kind, !.caller = c, !.org = o])
    BY DEF Call
  <1> DEFINE b == [a EXCEPT !.kind = kind, !.caller = c, !.org = o]
  <1>2. /\ b \in Arg /\ b.kind = kind /\ b.org = o /\ b.email = a.email /\ b.role = a.role
        /\ b.slug = a.slug /\ b.user = a.user /\ b.team = a.team
    BY DEF Arg
  <1>3. Start(r, "role", b)
    BY <1>1
  <1> HIDE DEF b
  <1>4. /\ arg'[r] = b /\ pc'[r] = "role"
        /\ UNCHANGED <<users, members, teams>>
    BY <1>3 DEF Start, Goto, TypeOK, tables
  <1>5. OrgExists(o)'
    BY <1>1, <1>4 DEF OrgExists
  <1>6. Asked(r)' /\ Flow(r)'
    BY <1>2, <1>4, <1>5 DEF Asked, Flow
  <1> QED
    BY <1>2, <1>3, <1>6, Begins

\* Every request that comes.
LEMMA StartThinks ==
  ASSUME TypeOK, NEW r \in Req,
         Register(r) \/ InviteMember(r) \/ CreateTeam(r) \/ AddTeamMember(r)
           \/ PatchOrganization(r)
  PROVE  Think(r)
  <1>1. CASE Register(r)
    BY <1>1, RegisterThinks
  <1>2. CASE InviteMember(r)
    <2>1. PICK e \in Email, role \in InviteRoles :
            Call(r, "invite", [NoArg EXCEPT !.email = e, !.role = role])
      BY <1>2 DEF InviteMember
    <2> DEFINE a == [NoArg EXCEPT !.email = e, !.role = role]
    <2>2. a \in Arg /\ a.email = e /\ a.role = role /\ Call(r, "invite", a)
      BY <2>1, InviteBody
    <2> HIDE DEF a
    <2> QED
      BY <2>2, CallThinks
  <1>3. CASE CreateTeam(r)
    <2>1. PICK s \in Slug : Call(r, "team", [NoArg EXCEPT !.slug = s])
      BY <1>3 DEF CreateTeam
    <2> DEFINE a == [NoArg EXCEPT !.slug = s]
    <2>2. a \in Arg /\ a.slug = s /\ Call(r, "team", a)
      BY <2>1, OtherBodies
    <2> HIDE DEF a
    <2> QED
      BY <2>2, CallThinks
  <1>4. CASE AddTeamMember(r)
    <2>1. PICK t \in Team, u \in User :
            /\ teams[t] # NoTeam /\ users[u] # None
            /\ Call(r, "teammember", [NoArg EXCEPT !.team = t, !.user = u])
      BY <1>4 DEF AddTeamMember
    <2> DEFINE a == [NoArg EXCEPT !.team = t, !.user = u]
    <2>2. a \in Arg /\ a.team = t /\ a.user = u /\ Call(r, "teammember", a)
      BY <2>1, OtherBodies
    <2> HIDE DEF a
    <2> QED
      BY <2>1, <2>2, CallThinks
  <1>5. CASE PatchOrganization(r)
    <2>1. PICK cs \in SUBSET Column : Call(r, "patch", [NoArg EXCEPT !.cols = cs])
      BY <1>5 DEF PatchOrganization
    <2> DEFINE a == [NoArg EXCEPT !.cols = cs]
    <2>2. a \in Arg /\ Call(r, "patch", a)
      BY <2>1, OtherBodies
    <2> HIDE DEF a
    <2> QED
      BY <2>2, CallThinks
  <1> QED
    BY <1>1, <1>2, <1>3, <1>4, <1>5

\* An answer other than a success of a handler that has something to show for it.
LEMMA AnswerThinks ==
  ASSUME TypeOK, RequestInv, NEW r \in Req, NEW code \in Code, Answer(r, code), InProgress(r),
         UNCHANGED <<users, members, teams, tmembers, orgs, jobs, arg>>,
         code = 201 => arg[r].kind = "team",
         code = 204 => FALSE, code = 200 => FALSE
  PROVE  Think(r)
  <1>1. Turn(r) /\ pc'[r] = "done" /\ out'[r] = code /\ arg'[r] = arg[r]
    BY AnswerFacts, ArgStays DEF Turn
  <1>2. pc[r] \notin {"idle", "done"} /\ out[r] = None
    BY DEF InProgress, TypeOK
  <1>3. Sound(r)
    BY DEF RequestInv
  <1>4. Asked(r)'
    <2>1. Asked(r)
      BY <1>3 DEF Sound
    <2> QED
      BY <1>1, <1>2, <2>1 DEF Asked, OrgExists
  <1>5. Flow(r)' /\ Pending(r)'
    BY <1>1 DEF Flow, Pending
  <1>6. Known(r)'
    BY <1>1 DEF Known
  <1> QED
    BY <1>1, <1>2, <1>4, <1>5, <1>6 DEF Think, Sound, SameRequest

\* A step to another statement, with what the handler then knows.
LEMMA GotoThinks ==
  ASSUME TypeOK, RequestInv, NEW r \in Req, NEW label \in Label \ {"idle", "done"},
         Goto(r, label), InProgress(r),
         UNCHANGED <<users, members, teams, tmembers, orgs, jobs, out>>,
         NEW a \in Arg, arg' = [arg EXCEPT ![r] = a], SameRequest(arg[r], a),
         arg[r].kind # "register" => a.org = arg[r].org,
         arg[r].kind = "teammember" => a.team = arg[r].team /\ a.user = arg[r].user,
         Flow(r)', Known(r)', Pending(r)', label = "commit" => Insert(r)
  PROVE  Think(r)
  <1>1. pc[r] \notin {"idle", "done"} /\ out[r] = None
    BY DEF InProgress, TypeOK
  <1>2. Turn(r) /\ pc'[r] = label /\ out'[r] = None /\ arg'[r] = a
    BY <1>1, GotoFacts, ArgBecomes DEF Turn
  <1>3. Asked(r)'
    <2>1. Asked(r)
      BY DEF RequestInv, Sound
    <2> QED
      BY <1>1, <1>2, <2>1 DEF Asked, OrgExists, SameRequest
  <1>4. out'[r] # 201
    BY <1>2, ConstantsAssumption DEF Code
  <1> QED
    BY <1>1, <1>2, <1>3, <1>4 DEF Think, Sound

\* A step to another statement that leaves the request as it is.
LEMMA PassThinks ==
  ASSUME TypeOK, RequestInv, NEW r \in Req, NEW label \in Label \ {"idle", "done"},
         Goto(r, label), InProgress(r),
         UNCHANGED <<users, members, teams, tmembers, orgs, jobs, out, arg>>,
         Flow(r)', Known(r)', Pending(r)', label = "commit" => Insert(r)
  PROVE  Think(r)
  <1>1. arg[r] \in Arg /\ arg' = [arg EXCEPT ![r] = arg[r]]
    BY DEF TypeOK
  <1>2. SameRequest(arg[r], arg[r])
    BY DEF SameRequest
  <1> QED
    BY <1>1, <1>2, GotoThinks

\* The values after a step to another statement.
LEMMA GotoValues ==
  ASSUME TypeOK, NEW r \in Req, NEW label, Goto(r, label), pc[r] # "done", out' = out
  PROVE  pc'[r] = label /\ out'[r] \notin Code
  BY ConstantsAssumption DEF TypeOK, Goto

\* The check of the role.
LEMMA CheckRoleThinks ==
  ASSUME TypeOK, RequestInv, NEW r \in Req, CheckRole(r)
  PROVE  Think(r)
  <1>1. /\ pc[r] = "role" /\ InProgress(r)
        /\ UNCHANGED <<users, members, teams, tmembers, orgs, jobs, arg>>
    BY DEF CheckRole, tables, InProgress
  <1>2. arg[r].kind \in {"invite", "team", "teammember", "patch"}
    BY <1>1 DEF RequestInv, Sound, Flow
  <1>3. CASE Answer(r, 403)
    BY <1>1, <1>3, AnswerThinks DEF Code
  <1>4. CASE ~Answer(r, 403)
    <2> DEFINE label == CASE arg[r].kind = "invite" -> "email"
                          [] arg[r].kind = "team" -> "insert"
                          [] arg[r].kind = "patch" -> "select"
                          [] OTHER -> "team"
    <2>1. Goto(r, label) /\ out' = out
      BY <1>4 DEF CheckRole
    <2>2. /\ \/ label = "email" /\ arg[r].kind = "invite"
             \/ label = "insert" /\ arg[r].kind = "team"
             \/ label = "select" /\ arg[r].kind = "patch"
             \/ label = "team" /\ arg[r].kind = "teammember"
          /\ label \in Label \ {"idle", "done"} /\ label # "commit"
      <3>1. CASE arg[r].kind = "invite"
        BY <3>1 DEF Label
      <3>2. CASE arg[r].kind = "team"
        BY <3>2 DEF Label
      <3>3. CASE arg[r].kind = "patch"
        BY <3>3 DEF Label
      <3>4. CASE arg[r].kind = "teammember"
        BY <3>4 DEF Label
      <3> QED
        BY <1>2, <3>1, <3>2, <3>3, <3>4
    <2> HIDE DEF label
    <2>3. pc'[r] = label /\ out'[r] \notin Code /\ arg'[r] = arg[r]
      BY <1>1, <2>1, GotoValues
    <2>4. Flow(r)' /\ Pending(r)'
      BY <2>2, <2>3 DEF Flow, Pending
    <2>5. Known(r)'
      BY <2>2, <2>3 DEF Known, Code
    <2> QED
      BY <1>1, <2>1, <2>2, <2>4, <2>5, PassThinks
  <1> QED
    BY <1>3, <1>4

\* The lookup of an address.
LEMMA FindEmailThinks ==
  ASSUME TypeOK, RequestInv, NEW r \in Req, FindEmail(r)
  PROVE  Think(r)
  <1>1. /\ pc[r] = "email" /\ InProgress(r)
        /\ UNCHANGED <<users, members, teams, tmembers, orgs, jobs>>
    BY DEF FindEmail, tables, InProgress
  <1>2. CASE arg' = arg /\ (Answer(r, 409) \/ Answer(r, 404))
    BY <1>1, <1>2, AnswerThinks DEF Code
  <1>3. CASE arg[r].kind = "register" /\ Goto(r, "insert") /\ UNCHANGED <<arg, out>>
    <2>1. pc'[r] = "insert" /\ out'[r] \notin Code /\ arg'[r] = arg[r]
      BY <1>1, <1>3, GotoValues
    <2>2. Flow(r)' /\ Pending(r)' /\ Known(r)'
      BY <1>3, <2>1 DEF Flow, Pending, Known, Code
    <2> QED
      BY <1>1, <1>3, <2>2, PassThinks DEF Label
  <1>4. ASSUME arg[r].kind = "invite", NEW u \in WithEmail(arg[r].email),
               arg' = [arg EXCEPT ![r].user = u], Goto(r, "member"), out' = out
        PROVE  Think(r)
    <2> DEFINE a == [arg[r] EXCEPT !.user = u]
    <2>1. u \in User /\ users[u] = arg[r].email /\ arg[r].email \in Email
      BY <1>4 DEF WithEmail, RequestInv, Sound, Asked
    <2>2. arg[r] \in Arg
      BY DEF TypeOK
    <2>3. /\ a \in Arg /\ SameRequest(arg[r], a) /\ a.user = u /\ a.org = arg[r].org
          /\ a.team = arg[r].team
      BY <2>1, <2>2, UserUpdate
    <2>4. arg' = [arg EXCEPT ![r] = a]
      BY <1>4
    <2> HIDE DEF a
    <2>5. pc'[r] = "member" /\ out'[r] \notin Code /\ arg'[r] = a
      BY <1>1, <1>4, <2>4, GotoValues DEF TypeOK
    <2>6. users[u] # None
      BY <2>1, ConstantsAssumption
    <2>7. a.kind = "invite"
      BY <1>4, <2>3 DEF SameRequest
    <2>8. Flow(r)' /\ Pending(r)' /\ Known(r)'
      BY <1>1, <2>1, <2>3, <2>5, <2>6, <2>7 DEF Flow, Pending, Known, Code
    <2>9. "member" \in Label \ {"idle", "done"}
      BY DEF Label
    <2> QED
      BY <1>1, <1>4, <2>3, <2>4, <2>8, <2>9, GotoThinks
  <1> QED
    BY <1>2, <1>3, <1>4 DEF FindEmail

\* The lookup of a membership.
LEMMA FindMemberThinks ==
  ASSUME TypeOK, RequestInv, NEW r \in Req, FindMember(r)
  PROVE  Think(r)
  <1>1. /\ pc[r] = "member" /\ InProgress(r)
        /\ UNCHANGED <<users, members, teams, tmembers, orgs, jobs, arg>>
    BY DEF FindMember, tables, InProgress
  <1>2. CASE Answer(r, 409)
    BY <1>1, <1>2, AnswerThinks DEF Code
  <1>3. CASE Goto(r, "insert") /\ out' = out
    <2>1. pc'[r] = "insert" /\ out'[r] \notin Code /\ arg'[r] = arg[r]
      BY <1>1, <1>3, GotoValues
    <2>2. arg[r].kind = "invite" /\ Known(r)
      BY <1>1 DEF RequestInv, Sound, Flow
    <2>3. Flow(r)' /\ Pending(r)' /\ Known(r)'
      BY <1>1, <2>1, <2>2 DEF Flow, Pending, Known, Code
    <2> QED
      BY <1>1, <1>3, <2>3, PassThinks DEF Label
  <1> QED
    BY <1>2, <1>3 DEF FindMember

\* The lookup of a team.
LEMMA FindTeamThinks ==
  ASSUME TypeOK, RequestInv, NEW r \in Req, FindTeam(r)
  PROVE  Think(r)
  <1>1. /\ pc[r] = "team" /\ InProgress(r)
        /\ UNCHANGED <<users, members, teams, tmembers, orgs, jobs, arg>>
    BY DEF FindTeam, tables, InProgress
  <1>2. CASE Answer(r, 404)
    BY <1>1, <1>2, AnswerThinks DEF Code
  <1>3. CASE Goto(r, "insert") /\ out' = out /\ teams[arg[r].team].org = arg[r].org
    <2>1. pc'[r] = "insert" /\ out'[r] \notin Code /\ arg'[r] = arg[r]
      BY <1>1, <1>3, GotoValues
    <2>2. arg[r].kind = "teammember"
      BY <1>1 DEF RequestInv, Sound, Flow
    <2>3. Flow(r)' /\ Pending(r)' /\ Known(r)'
      BY <1>1, <1>3, <2>1, <2>2 DEF Flow, Pending, Known, Code
    <2> QED
      BY <1>1, <1>3, <2>3, PassThinks DEF Label
  <1> QED
    BY <1>2, <1>3 DEF FindTeam

\* An id that is drawn is new.
LEMMA UnusedIds ==
  ASSUME NEW x, x \notin UsedIds
  PROVE  /\ x \in User => users[x] = None
         /\ x \in Org => ~OrgExists(x)
         /\ x \in Team => teams[x] = NoTeam
         /\ \A q \in Req : pc[q] = "commit" => arg[q].user # x /\ arg[q].org # x /\ arg[q].team # x
  BY DEF UsedIds

\* What the INSERTs add to a request.
Drawn(r, a) ==
  /\ a \in Arg /\ SameRequest(arg[r], a)
  /\ arg[r].kind = "register" => /\ a.user \in User /\ a.user \notin UsedIds
                                 /\ a.org \in Org /\ a.org \notin UsedIds
  /\ arg[r].kind = "team" => a.team \in Team /\ a.team \notin UsedIds /\ a.org = arg[r].org
  /\ arg[r].kind \in {"invite", "teammember"} => a = arg[r]

\* The INSERTs fail, or they draw the ids they need.
LEMMA InsertCases ==
  ASSUME TypeOK, RequestInv, NEW r \in Req, Insert(r)
  PROVE  /\ pc[r] = "insert" /\ InProgress(r)
         /\ arg[r].kind \in {"register", "invite", "team", "teammember"}
         /\ UNCHANGED <<users, members, teams, tmembers, orgs, jobs>>
         /\ \/ Answer(r, 500) /\ arg' = arg
            \/ /\ ~Taken(r) /\ Goto(r, "commit") /\ out' = out
               /\ \E a : Drawn(r, a) /\ arg' = [arg EXCEPT ![r] = a]
  <1>1. /\ pc[r] = "insert" /\ InProgress(r)
        /\ UNCHANGED <<users, members, teams, tmembers, orgs, jobs>>
    BY DEF Insert, tables, InProgress
  <1>2. arg[r].kind \in {"register", "invite", "team", "teammember"} /\ arg[r] \in Arg
    BY <1>1 DEF RequestInv, Sound, Flow, TypeOK
  <1>3. ASSUME CASE arg[r].kind = "register" ->
                      \E u \in User \ UsedIds, o \in Org \ UsedIds :
                         arg' = [arg EXCEPT ![r] = [@ EXCEPT !.user = u, !.org = o]]
                 [] arg[r].kind = "team" ->
                      \E t \in Team \ UsedIds : arg' = [arg EXCEPT ![r].team = t]
                 [] OTHER -> UNCHANGED arg
        PROVE  \E a : Drawn(r, a) /\ arg' = [arg EXCEPT ![r] = a]
    <2>1. CASE arg[r].kind = "register"
      <3>1. PICK u \in User \ UsedIds, o \in Org \ UsedIds :
              arg' = [arg EXCEPT ![r] = [@ EXCEPT !.user = u, !.org = o]]
        BY <1>3, <2>1
      <3> DEFINE a == [arg[r] EXCEPT !.user = u, !.org = o]
      <3>2. a \in Arg /\ SameRequest(arg[r], a) /\ a.user = u /\ a.org = o
        BY <1>2 DEF Arg, SameRequest
      <3>3. arg' = [arg EXCEPT ![r] = a]
        BY <3>1
      <3> HIDE DEF a
      <3>4. Drawn(r, a)
        BY <2>1, <3>2 DEF Drawn
      <3> QED
        BY <3>3, <3>4
    <2>2. CASE arg[r].kind = "team"
      <3>1. PICK t \in Team \ UsedIds : arg' = [arg EXCEPT ![r].team = t]
        BY <1>3, <2>2
      <3> DEFINE a == [arg[r] EXCEPT !.team = t]
      <3>2. a \in Arg /\ SameRequest(arg[r], a) /\ a.team = t /\ a.org = arg[r].org
        BY <1>2, TeamUpdate
      <3>3. arg' = [arg EXCEPT ![r] = a]
        BY <3>1
      <3> HIDE DEF a
      <3>4. Drawn(r, a)
        BY <2>2, <3>2 DEF Drawn
      <3> QED
        BY <3>3, <3>4
    <2>3. CASE arg[r].kind \in {"invite", "teammember"}
      <3>1. arg' = arg
        BY <1>3, <2>3
      <3>2. arg' = [arg EXCEPT ![r] = arg[r]]
        BY <3>1 DEF TypeOK
      <3>3. Drawn(r, arg[r])
        BY <1>2, <2>3 DEF Drawn, SameRequest
      <3> QED
        BY <3>2, <3>3
    <2> QED
      BY <1>2, <2>1, <2>2, <2>3
  <1> QED
    BY <1>1, <1>2, <1>3 DEF Insert

\* The INSERTs.
LEMMA InsertThinks ==
  ASSUME TypeOK, RequestInv, NEW r \in Req, Insert(r)
  PROVE  Think(r)
  <1>1. /\ pc[r] = "insert" /\ InProgress(r)
        /\ arg[r].kind \in {"register", "invite", "team", "teammember"}
        /\ UNCHANGED <<users, members, teams, tmembers, orgs, jobs>>
    BY InsertCases
  <1>2. CASE Answer(r, 500) /\ arg' = arg
    BY <1>1, <1>2, AnswerThinks DEF Code
  <1>3. ASSUME ~Taken(r), Goto(r, "commit"), out' = out,
               NEW a, Drawn(r, a), arg' = [arg EXCEPT ![r] = a]
        PROVE  Think(r)
    <2>1. pc'[r] = "commit" /\ out'[r] \notin Code /\ arg'[r] = a
      BY <1>1, <1>3, GotoValues DEF TypeOK
    <2>2. /\ a.kind = arg[r].kind /\ a.email = arg[r].email /\ a.slug = arg[r].slug
          /\ a.role = arg[r].role /\ a.cols = arg[r].cols /\ a \in Arg
      BY <1>3 DEF Drawn, SameRequest
    <2>3. Sound(r)
      BY DEF RequestInv
    <2>4. Flow(r)'
      BY <1>1, <2>1, <2>2 DEF Flow
    <2>5. Known(r)'
      BY <1>1, <1>3, <2>1, <2>2, <2>3 DEF Known, Code, Sound, Drawn
    <2>6. Pending(r)'
      <3>1. CASE arg[r].kind = "register"
        <4>1. /\ a.user \in User /\ users[a.user] = None
              /\ a.org \in Org /\ ~OrgExists(a.org)
          BY <1>3, <3>1, UnusedIds DEF Drawn
        <4>2. \A u \in User : users[u] # a.email
          BY <1>3, <2>2, <3>1 DEF Taken, WithEmail
        <4> QED
          BY <1>1, <2>1, <2>2, <3>1, <4>1, <4>2 DEF Pending, OrgExists
      <3>2. CASE arg[r].kind = "invite"
        <4>1. members[a.org][a.user] = None
          BY <1>3, <3>2 DEF Taken, Drawn
        <4> QED
          BY <1>1, <2>1, <2>2, <3>2, <4>1 DEF Pending
      <3>3. CASE arg[r].kind = "team"
        <4>1. a.team \in Team /\ teams[a.team] = NoTeam
          BY <1>3, <3>3, UnusedIds DEF Drawn
        <4>2. a.org = arg[r].org
          BY <1>3, <3>3 DEF Drawn
        <4>3. \A t \in Team : teams[t] # [org |-> arg[r].org, slug |-> arg[r].slug]
          BY <1>3, <3>3 DEF Taken
        <4>4. [org |-> a.org, slug |-> a.slug] = [org |-> arg[r].org, slug |-> arg[r].slug]
          BY <2>2, <4>2
        <4> QED
          BY <1>1, <2>1, <2>2, <3>3, <4>1, <4>3, <4>4 DEF Pending
      <3>4. CASE arg[r].kind = "teammember"
        BY <2>1, <2>2, <3>4 DEF Pending
      <3> QED
        BY <1>1, <3>1, <3>2, <3>3, <3>4
    <2>7. "commit" \in Label \ {"idle", "done"} /\ SameRequest(arg[r], a)
      BY <1>3 DEF Label, Drawn
    <2>8. /\ arg[r].kind # "register" => a.org = arg[r].org
          /\ arg[r].kind = "teammember" => a.team = arg[r].team /\ a.user = arg[r].user
      BY <1>1, <1>3 DEF Drawn
    <2> QED
      BY <1>1, <1>3, <2>2, <2>4, <2>5, <2>6, <2>7, <2>8, GotoThinks
  <1> QED
    BY <1>2, <1>3, InsertCases

\* The answer of create_team.
LEMMA TeamDetailThinks ==
  ASSUME TypeOK, RequestInv, NEW r \in Req, TeamDetail(r)
  PROVE  Think(r)
  <1>1. /\ pc[r] = "detail" /\ InProgress(r) /\ (Answer(r, 201) \/ Answer(r, 404))
        /\ UNCHANGED <<users, members, teams, tmembers, orgs, jobs, arg>>
    BY DEF TeamDetail, tables, InProgress
  <1>2. arg[r].kind = "team"
    BY <1>1 DEF RequestInv, Sound, Flow
  <1> QED
    BY <1>1, <1>2, AnswerThinks DEF Code

\* A PATCH reads the organization.
LEMMA SelectOrgThinks ==
  ASSUME TypeOK, RequestInv, NEW r \in Req, SelectOrg(r)
  PROVE  Think(r)
  <1>1. /\ pc[r] = "select" /\ InProgress(r) /\ Goto(r, "flush")
        /\ UNCHANGED <<users, members, teams, tmembers, orgs, jobs, out>>
    BY DEF SelectOrg, tables, InProgress
  <1>2. arg[r].kind = "patch" /\ arg[r].org \in Org /\ arg[r] \in Arg /\ orgs[arg[r].org] \in OrgRow
    BY <1>1 DEF RequestInv, Sound, Flow, Asked, TypeOK
  <1> DEFINE a == [arg[r] EXCEPT !.obj = orgs[arg[r].org]]
  <1>3. a \in Arg /\ SameRequest(arg[r], a) /\ a.org = arg[r].org
    BY <1>2, ObjUpdate
  <1>4. arg' = [arg EXCEPT ![r] = a]
    BY DEF SelectOrg
  <1> HIDE DEF a
  <1>5. pc'[r] = "flush" /\ out'[r] \notin Code /\ arg'[r] = a /\ a.kind = "patch"
    BY <1>1, <1>2, <1>3, <1>4, GotoValues DEF TypeOK, SameRequest
  <1>6. Flow(r)' /\ Pending(r)' /\ Known(r)'
    BY <1>5 DEF Flow, Pending, Known, Code
  <1>7. "flush" \in Label \ {"idle", "done"}
    BY DEF Label
  <1> QED
    BY <1>1, <1>2, <1>3, <1>4, <1>6, <1>7, GotoThinks

\* A PATCH answers with the organization.
LEMMA RefreshOrgThinks ==
  ASSUME TypeOK, RequestInv, NEW r \in Req, RefreshOrg(r)
  PROVE  Think(r)
  <1>1. /\ pc[r] = "refresh" /\ Answer(r, 200)
        /\ UNCHANGED <<users, members, teams, tmembers, orgs, jobs>>
    BY DEF RefreshOrg, tables
  <1>2. arg[r].kind = "patch" /\ arg[r].org \in Org /\ arg[r] \in Arg /\ orgs[arg[r].org] \in OrgRow
    BY <1>1 DEF RequestInv, Sound, Flow, Asked, TypeOK
  <1> DEFINE a == [arg[r] EXCEPT !.obj = orgs[arg[r].org]]
  <1>3. a \in Arg /\ SameRequest(arg[r], a) /\ a.org = arg[r].org
    BY <1>2, ObjUpdate
  <1>4. arg' = [arg EXCEPT ![r] = a]
    BY DEF RefreshOrg
  <1> HIDE DEF a
  <1>5. Turn(r) /\ pc'[r] = "done" /\ out'[r] = 200 /\ arg'[r] = a
    <2>1. 200 \in Code
      BY DEF Code
    <2>2. /\ pc' = [pc EXCEPT ![r] = pc'[r]] /\ pc'[r] = "done" /\ pc'[r] \in Label
          /\ out' = [out EXCEPT ![r] = out'[r]] /\ out'[r] = 200 /\ out'[r] \in Code \cup {None}
          /\ pc'[r] = "done" <=> out'[r] # None
      BY <1>1, <2>1, AnswerFacts
    <2>3. arg' = [arg EXCEPT ![r] = arg'[r]] /\ arg'[r] = a /\ arg'[r] \in Arg
      BY <1>3, <1>4, ArgBecomes
    <2> QED
      BY <2>2, <2>3 DEF Turn
  <1>6. a.kind = "patch" /\ a.cols = arg[r].cols
    BY <1>2, <1>3 DEF SameRequest
  <1>7. Known(r) /\ Asked(r) /\ out[r] = None
    BY <1>1 DEF RequestInv, Sound, TypeOK
  <1>8. Flow(r)' /\ Pending(r)'
    BY <1>5, <1>6 DEF Flow, Pending
  <1>9. Known(r)' /\ Asked(r)'
    BY <1>1, <1>2, <1>3, <1>5, <1>6, <1>7 DEF Known, Asked, OrgExists
  <1> QED
    BY <1>1, <1>3, <1>5, <1>7, <1>8, <1>9 DEF Think, Sound

\* A failure.
LEMMA FailThinks ==
  ASSUME TypeOK, RequestInv, NEW r \in Req, Fail(r)
  PROVE  Think(r)
  BY AnswerThinks DEF Fail, tables, Code

----------------------------------------------------------------------------
(* What is known stays so.                                                 *)

\* No row changes or goes, but for the columns that a PATCH writes.
Grow ==
  /\ \A u \in User : users[u] # None => users'[u] = users[u]
  /\ \A o \in Org, u \in User : members[o][u] # None => members'[o][u] = members[o][u]
  /\ \A t \in Team : teams[t] # NoTeam => teams'[t] = teams[t]
  /\ \A o \in Org, c \in Column : orgs[o][c] \in Req => orgs'[o][c] \in Req

\* The tables stay as they are.
LEMMA UnchangedGrow ==
  ASSUME UNCHANGED <<users, members, teams, orgs>>
  PROVE  Grow
  BY DEF Grow

\* A request that stands still is as sound as before when the tables grow, if the
\* rows that it has inserted still clash with no other.
LEMMA SoundKept ==
  ASSUME TypeOK, NEW q \in Req, Sound(q), Grow,
         arg'[q] = arg[q], pc'[q] = pc[q], out'[q] = out[q], Pending(q)'
  PROVE  Sound(q)'
  <1>1. ASSUME NEW o \in Org, OrgExists(o) PROVE OrgExists(o)'
    <2>1. PICK u \in User : members[o][u] # None
      BY <1>1 DEF OrgExists
    <2>2. members'[o][u] # None
      BY <2>1 DEF Grow
    <2> QED
      BY <2>2 DEF OrgExists
  <1>2. Asked(q)'
    <2>1. Asked(q)
      BY DEF Sound
    <2>2. arg[q].kind = "teammember" =>
             teams'[arg[q].team] # NoTeam /\ users'[arg[q].user] # None
      BY <2>1 DEF Asked, Grow
    <2> QED
      BY <1>1, <2>1, <2>2 DEF Asked
  <1>3. Flow(q)'
    BY DEF Sound, Flow
  <1>4. Known(q)'
    <2>1. Asked(q) /\ Known(q)
      BY DEF Sound
    <2>2. arg[q].kind = "invite" /\ pc[q] \in {"member", "insert", "commit"} =>
            arg[q].user \in User /\ users'[arg[q].user] # None
      BY <2>1 DEF Known, Grow
    <2>3. arg[q].kind = "teammember" /\ (pc[q] \in {"insert", "commit"} \/ out[q] = 204) =>
            teams'[arg[q].team].org = arg[q].org
      BY <2>1 DEF Known, Asked, Grow
    <2>4. arg[q].kind = "invite" /\ (pc[q] = "enqueue" \/ out[q] = 201) =>
            arg[q].user \in User /\ members'[arg[q].org][arg[q].user] = arg[q].role
      <3>1. arg[q].kind = "invite" => arg[q].role # None /\ arg[q].org \in Org
        BY <2>1, RoleFacts DEF Asked
      <3> QED
        BY <2>1, <3>1 DEF Known, Grow
    <2>5. arg[q].kind = "register" /\ out[q] = 201 => \E u \in User : users'[u] = arg[q].email
      <3>1. arg[q].kind = "register" => arg[q].email # None
        BY <2>1, ConstantsAssumption DEF Asked
      <3> QED
        BY <2>1, <3>1 DEF Known, Grow
    <2>6. arg[q].kind = "patch" /\ (pc[q] = "refresh" \/ out[q] = 200) =>
            \A c \in arg[q].cols : orgs'[arg[q].org][c] \in Req
      <3>1. arg[q].cols \subseteq Column
        BY DEF TypeOK, Arg
      <3> QED
        BY <2>1, <3>1 DEF Known, Asked, Grow
    <2> QED
      BY <2>2, <2>3, <2>4, <2>5, <2>6 DEF Known
  <1> QED
    BY <1>2, <1>3, <1>4 DEF Sound

\* The rows of a request that stands still are pending as before when the tables
\* stay as they are.
LEMMA PendingKept ==
  ASSUME NEW q \in Req, Sound(q), UNCHANGED <<users, members, teams>>,
         arg'[q] = arg[q], pc'[q] = pc[q]
  PROVE  Pending(q)'
  BY DEF Sound, Pending, OrgExists

\* Nothing has been answered, and no mail is due, before a request is done.
LEMMA NotYet ==
  ASSUME TypeOK, JobInv, NEW r \in Req, out[r] = None
  PROVE  jobs[r].st = "none" /\ out[r] \notin Code /\ pc[r] # "done"
  <1>1. out[r] \notin Code
    BY ConstantsAssumption
  <1> QED
    BY <1>1 DEF JobInv, Code, TypeOK

----------------------------------------------------------------------------
(* The invariant and the steps that change no table.                       *)

\* The INSERTs of a handler clash with none that another handler has made.
LEMMA InsertDistinct ==
  ASSUME TypeOK, RequestInv, NEW r \in Req, Insert(r), pc'[r] = "commit",
         NEW q \in Req, q # r, pc[q] = "commit", arg'[q] = arg[q]
  PROVE  Distinct(r, q)' /\ Distinct(q, r)'
  <1>1. UniqueKey(q) # UniqueKey(r)
    BY DEF Insert
  <1>2. ~Answer(r, 500)
    BY DEF Answer, Goto, TypeOK
  <1>3. PICK a : Drawn(r, a) /\ arg' = [arg EXCEPT ![r] = a]
    BY <1>2, InsertCases
  <1>4. arg'[r] = a /\ a.kind = arg[r].kind /\ a.email = arg[r].email /\ a.slug = arg[r].slug
    BY <1>3 DEF TypeOK, Drawn, SameRequest
  <1>5. CASE arg[r].kind = "register" /\ arg[q].kind = "register"
    <2>1. a.email # arg[q].email
      BY <1>1, <1>4, <1>5 DEF UniqueKey
    <2>2. a.user # arg[q].user /\ a.org # arg[q].org
      BY <1>3, <1>5, UnusedIds DEF Drawn
    <2> QED
      BY <1>4, <1>5, <2>1, <2>2 DEF Distinct
  <1>6. CASE arg[r].kind = "invite" /\ arg[q].kind = "invite"
    <2>1. a = arg[r]
      BY <1>3, <1>6 DEF Drawn
    <2>2. a.org # arg[q].org \/ a.user # arg[q].user
      BY <1>1, <1>6, <2>1 DEF UniqueKey
    <2> QED
      BY <1>4, <1>6, <2>2 DEF Distinct
  <1>7. CASE arg[r].kind = "team" /\ arg[q].kind = "team"
    <2>1. a.org = arg[r].org /\ a.team # arg[q].team
      BY <1>3, <1>7, UnusedIds DEF Drawn
    <2>2. a.org # arg[q].org \/ a.slug # arg[q].slug
      BY <1>1, <1>4, <1>7, <2>1 DEF UniqueKey
    <2> QED
      BY <1>4, <1>7, <2>1, <2>2 DEF Distinct
  <1> QED
    BY <1>4, <1>5, <1>6, <1>7 DEF Distinct

\* The invariant holds after a step that changes no table.
LEMMA ThinkInv ==
  ASSUME IInv, NEW r \in Req, Think(r)
  PROVE  IInv'
  <1>0. TypeOK /\ RequestInv /\ JobInv /\ ColumnInv /\ UniqueInv /\ OneAnswer /\ Provisioned
    BY DEF IInv
  <1>1. /\ UNCHANGED <<users, members, teams, tmembers, orgs, jobs>>
        /\ Turn(r) /\ Sound(r)' /\ out[r] = None
        /\ pc[r] # "idle" => /\ SameRequest(arg[r], arg'[r])
                             /\ arg[r].kind = "patch" => arg'[r].org = arg[r].org
        /\ arg'[r].kind = "register" => out'[r] # 201
        /\ pc'[r] = "commit" => Insert(r)
    BY DEF Think
  <1>2. /\ arg' \in [Req -> Arg] /\ pc' \in [Req -> Label] /\ out' \in [Req -> Code \cup {None}]
        /\ \A q \in Req : pc'[q] = "done" <=> out'[q] # None
        /\ \A q \in Req : q # r => arg'[q] = arg[q] /\ pc'[q] = pc[q] /\ out'[q] = out[q]
    BY <1>0, <1>1, TurnFacts
  <1>3. TypeOK'
    BY <1>0, <1>1, <1>2 DEF TypeOK
  <1>4. RequestInv'
    <2>1. ASSUME NEW q \in Req PROVE Sound(q)'
      <3>1. CASE q # r
        <4>1. Sound(q) /\ Grow
          BY <1>0, <1>1, UnchangedGrow DEF RequestInv
        <4>2. Pending(q)'
          BY <1>1, <1>2, <3>1, <4>1, PendingKept
        <4> QED
          BY <1>0, <1>2, <3>1, <4>1, <4>2, SoundKept
      <3> QED
        BY <1>1, <3>1
    <2>2. ASSUME NEW p \in Req, NEW q \in Req, p # q PROVE Distinct(p, q)'
      <3>1. CASE p # r /\ q # r
        BY <1>0, <1>2, <2>2, <3>1 DEF RequestInv, Distinct
      <3>2. CASE pc'[p] # "commit" \/ pc'[q] # "commit"
        BY <3>2 DEF Distinct
      <3>3. CASE p = r /\ pc'[p] = "commit" /\ pc'[q] = "commit"
        BY <1>0, <1>1, <1>2, <2>2, <3>3, InsertDistinct
      <3>4. CASE q = r /\ pc'[p] = "commit" /\ pc'[q] = "commit"
        BY <1>0, <1>1, <1>2, <2>2, <3>4, InsertDistinct
      <3> QED
        BY <3>1, <3>2, <3>3, <3>4
    <2> QED
      BY <2>1, <2>2 DEF RequestInv
  <1>5. JobInv'
    <2>1. jobs[r].st = "none"
      BY <1>0, <1>1, NotYet
    <2> QED
      BY <1>0, <1>1, <1>2, <2>1 DEF JobInv
  <1>6. ColumnInv'
    <2>1. ASSUME arg[r].kind = "patch"
          PROVE  arg'[r].kind = "patch" /\ arg'[r].org = arg[r].org /\ arg'[r].cols = arg[r].cols
      <3>1. pc[r] # "idle"
        BY <1>0, <2>1 DEF RequestInv, Sound, Asked
      <3> QED
        BY <1>1, <2>1, <3>1 DEF SameRequest
    <2> QED
      BY <1>0, <1>1, <1>2, <2>1 DEF ColumnInv
  <1>7. OneAnswer'
    BY <1>0, <1>1, <1>2 DEF OneAnswer
  <1>8. UniqueInv' /\ Provisioned'
    BY <1>0, <1>1 DEF UniqueInv, Provisioned, OrgExists
  <1> QED
    BY <1>3, <1>4, <1>5, <1>6, <1>7, <1>8 DEF IInv

----------------------------------------------------------------------------
(* The invariant and the mails.                                            *)

\* The invariant holds when a request that has just enqueued its mail is answered.
LEMMA EnqueueInv ==
  ASSUME IInv, NEW r \in Req, Enqueue(r)
  PROVE  IInv'
  <1>0. TypeOK /\ RequestInv /\ JobInv /\ ColumnInv /\ UniqueInv /\ OneAnswer /\ Provisioned
    BY DEF IInv
  <1>1. /\ pc[r] = "enqueue" /\ Answer(r, 201) /\ (SetJob(r, "queued") \/ jobs' = jobs)
        /\ UNCHANGED <<users, members, teams, tmembers, orgs, arg>>
    BY DEF Enqueue, tables
  <1>2. Turn(r) /\ pc'[r] = "done" /\ out'[r] = 201
    <2>1. 201 \in Code
      BY DEF Code
    <2> QED
      BY <1>0, <1>1, <2>1, AnswerFacts, ArgStays DEF Turn
  <1>3. /\ arg' \in [Req -> Arg] /\ pc' \in [Req -> Label] /\ out' \in [Req -> Code \cup {None}]
        /\ \A q \in Req : pc'[q] = "done" <=> out'[q] # None
        /\ \A q \in Req : q # r => arg'[q] = arg[q] /\ pc'[q] = pc[q] /\ out'[q] = out[q]
    BY <1>0, <1>2, TurnFacts
  <1>4. out[r] = None /\ jobs[r].st = "none" /\ jobs[r] \in Job /\ arg[r].kind = "invite"
    <2>1. out[r] = None
      BY <1>0, <1>1 DEF TypeOK
    <2> QED
      BY <1>0, <1>1, <2>1, NotYet DEF TypeOK, RequestInv, Sound, Flow
  <1>5. /\ jobs' \in [Req -> Job]
        /\ \A q \in Req : q # r => jobs'[q] = jobs[q]
        /\ jobs'[r].st \in {"none", "queued"} /\ jobs'[r].tries = jobs[r].tries
        /\ jobs'[r].mails = jobs[r].mails
    <2>1. CASE jobs' = jobs
      BY <1>0, <1>4, <2>1 DEF TypeOK
    <2>2. CASE SetJob(r, "queued")
      <3> DEFINE k == [jobs[r] EXCEPT !.st = "queued"]
      <3>1. k \in Job /\ k.st = "queued" /\ k.tries = jobs[r].tries /\ k.mails = jobs[r].mails
        BY <1>4, JobMoves
      <3>2. jobs' = [jobs EXCEPT ![r] = k]
        BY <2>2 DEF SetJob
      <3> HIDE DEF k
      <3>3. jobs'[r] = k
        BY <1>0, <3>2 DEF TypeOK
      <3> QED
        BY <1>0, <3>1, <3>2, <3>3 DEF TypeOK
    <2> QED
      BY <1>1, <2>1, <2>2
  <1>6. TypeOK'
    BY <1>0, <1>1, <1>3, <1>5 DEF TypeOK
  <1>7. RequestInv'
    <2>1. ASSUME NEW q \in Req PROVE Sound(q)'
      <3>1. CASE q # r
        <4>1. Sound(q) /\ Grow
          BY <1>0, <1>1, UnchangedGrow DEF RequestInv
        <4>2. Pending(q)'
          BY <1>1, <1>3, <3>1, <4>1, PendingKept
        <4> QED
          BY <1>0, <1>3, <3>1, <4>1, <4>2, SoundKept
      <3>2. CASE q = r
        <4>1. Asked(r) /\ Known(r)
          BY <1>0 DEF RequestInv, Sound
        <4>2. Asked(r)'
          BY <1>1, <1>2, <1>4, <4>1 DEF Asked, OrgExists
        <4>3. Known(r)'
          BY <1>1, <1>2, <1>4, <4>1 DEF Known
        <4>4. Flow(r)' /\ Pending(r)'
          BY <1>2 DEF Flow, Pending
        <4> QED
          BY <3>2, <4>2, <4>3, <4>4 DEF Sound
      <3> QED
        BY <3>1, <3>2
    <2>2. ASSUME NEW p \in Req, NEW q \in Req, p # q PROVE Distinct(p, q)'
      BY <1>0, <1>2, <1>3, <2>2 DEF RequestInv, Distinct
    <2> QED
      BY <2>1, <2>2 DEF RequestInv
  <1>8. JobInv'
    <2>1. ASSUME NEW q \in Req, q # r
          PROVE  jobs'[q] = jobs[q] /\ arg'[q] = arg[q] /\ out'[q] = out[q]
      BY <1>3, <1>5, <2>1
    <2>2. /\ jobs'[r].tries <= MaxTries /\ jobs'[r].mails <= jobs'[r].tries /\ jobs'[r].mails = 0
          /\ arg'[r].kind = "invite" /\ out'[r] = 201
      BY <1>0, <1>1, <1>2, <1>4, <1>5 DEF JobInv
    <2> QED
      BY <1>0, <1>5, <2>1, <2>2 DEF JobInv
  <1>9. ColumnInv' /\ UniqueInv' /\ Provisioned'
    BY <1>0, <1>1 DEF ColumnInv, UniqueInv, Provisioned, OrgExists
  <1>10. OneAnswer'
    BY <1>0, <1>1, <1>3, <1>4 DEF OneAnswer
  <1> QED
    BY <1>6, <1>7, <1>8, <1>9, <1>10 DEF IInv

\* A job is worked on, and there is still a try for every mail.
Worked(r, k) ==
  /\ k \in Job /\ jobs' = [jobs EXCEPT ![r] = k] /\ k.st # "none"
  /\ k.tries <= MaxTries /\ k.mails <= k.tries
  /\ k.st = "running" => k.mails < k.tries
  /\ k.st \in {"sent", "done"} => k.mails > 0

\* What a worker does with a job.
LEMMA WorkerMoves ==
  ASSUME TypeOK, JobInv, NEW r \in Req, Worker(r)
  PROVE  /\ UNCHANGED <<users, members, teams, tmembers, orgs, pc, arg, out>>
         /\ jobs[r].st # "none"
         /\ \E k : Worked(r, k)
  <1> DEFINE j == jobs[r]
  <1>1. UNCHANGED <<users, members, teams, tmembers, orgs, pc, arg, out>> /\ jobs[r].st # "none"
    BY DEF Worker, TakeJob, send_invitation_email, FinishJob, LoseWorker, tables
  <1> SUFFICES \E k : Worked(r, k)
    BY <1>1
  <1>2. /\ j \in Job /\ j.tries \in Nat /\ j.mails \in Nat /\ MaxTries \in Nat
        /\ j.tries <= MaxTries /\ j.mails <= j.tries
        /\ j.st = "running" => j.mails < j.tries
        /\ j.st \in {"sent", "done"} => j.mails > 0
    BY ConstantsAssumption DEF TypeOK, JobInv, Job
  <1>3. ASSUME NEW st \in {"queued", "sent", "done", "failed"}, SetJob(r, st),
               st \in {"sent", "done"} => j.mails > 0
        PROVE  \E k : Worked(r, k)
    <2> DEFINE k == [j EXCEPT !.st = st]
    <2>1. k \in Job /\ k.st = st /\ k.tries = j.tries /\ k.mails = j.mails
      BY <1>2, JobMoves
    <2>2. jobs' = [jobs EXCEPT ![r] = k]
      BY <1>3 DEF SetJob
    <2> HIDE DEF k
    <2>3. Worked(r, k)
      BY <1>2, <1>3, <2>1, <2>2 DEF Worked
    <2> QED
      BY <2>3
  <1>4. CASE TakeJob(r)
    <2>1. CASE j.tries < MaxTries
      <3> DEFINE k == [j EXCEPT !.st = "running", !.tries = j.tries + 1]
      <3>1. k \in Job /\ k.st = "running" /\ k.tries = j.tries + 1 /\ k.mails = j.mails
        BY <1>2, JobTaken
      <3>2. jobs' = [jobs EXCEPT ![r] = k]
        BY <1>4, <2>1 DEF TakeJob
      <3> HIDE DEF k
      <3>3. Worked(r, k)
        BY <1>2, <2>1, <3>1, <3>2 DEF Worked
      <3> QED
        BY <3>3
    <2>2. CASE ~(j.tries < MaxTries)
      <3>1. SetJob(r, "failed")
        BY <1>4, <2>2 DEF TakeJob, SetJob
      <3> QED
        BY <1>3, <3>1
    <2> QED
      BY <2>1, <2>2
  <1>5. CASE send_invitation_email(r)
    <2> DEFINE k == [j EXCEPT !.st = "sent", !.mails = j.mails + 1]
    <2>1. k \in Job /\ k.st = "sent" /\ k.tries = j.tries /\ k.mails = j.mails + 1
      BY <1>2, JobSent
    <2>2. jobs' = [jobs EXCEPT ![r] = k] /\ j.st = "running"
      BY <1>5 DEF send_invitation_email
    <2> HIDE DEF k
    <2>3. Worked(r, k)
      BY <1>2, <2>1, <2>2 DEF Worked
    <2> QED
      BY <2>3
  <1>6. CASE FinishJob(r)
    <2>1. CASE j.st = "sent" /\ SetJob(r, "done")
      BY <1>2, <1>3, <2>1
    <2>2. CASE SetJob(r, "failed")
      BY <1>3, <2>2
    <2> QED
      BY <1>6, <2>1, <2>2 DEF FinishJob
  <1>7. CASE LoseWorker(r)
    BY <1>3, <1>7 DEF LoseWorker
  <1> QED
    BY <1>4, <1>5, <1>6, <1>7 DEF Worker

\* The invariant holds after a step of a worker.
LEMMA WorkerInv ==
  ASSUME IInv, NEW r \in Req, Worker(r)
  PROVE  IInv'
  <1>0. TypeOK /\ RequestInv /\ JobInv /\ ColumnInv /\ UniqueInv /\ OneAnswer /\ Provisioned
    BY DEF IInv
  <1>1. /\ UNCHANGED <<users, members, teams, tmembers, orgs, pc, arg, out>>
        /\ jobs[r].st # "none"
    BY <1>0, WorkerMoves
  <1>2. PICK k : Worked(r, k)
    BY <1>0, WorkerMoves
  <1>3. jobs' \in [Req -> Job] /\ jobs'[r] = k /\ \A q \in Req : q # r => jobs'[q] = jobs[q]
    BY <1>0, <1>2 DEF TypeOK, Worked
  <1>4. TypeOK'
    BY <1>0, <1>1, <1>3 DEF TypeOK
  <1>5. JobInv'
    <2>1. arg[r].kind = "invite" /\ out[r] = 201
      BY <1>0, <1>1 DEF JobInv
    <2> QED
      BY <1>0, <1>1, <1>2, <1>3, <2>1 DEF JobInv, Worked
  <1>6. RequestInv'
    BY <1>0, <1>1 DEF RequestInv, Sound, Asked, Flow, Known, Pending, Distinct, OrgExists
  <1>7. ColumnInv' /\ UniqueInv' /\ OneAnswer' /\ Provisioned'
    BY <1>0, <1>1 DEF ColumnInv, UniqueInv, OneAnswer, Provisioned, OrgExists
  <1> QED
    BY <1>4, <1>5, <1>6, <1>7 DEF IInv

----------------------------------------------------------------------------
(* The invariant and the PATCH of an organization.                         *)

\* The UPDATE writes the columns that the body names, and no others.
LEMMA PatchFacts ==
  ASSUME TypeOK, RequestInv, NEW r \in Req, CommitPatch(r)
  PROVE  /\ arg[r].org \in Org /\ orgs' \in [Org -> OrgRow]
         /\ \A o \in Org : o # arg[r].org => orgs'[o] = orgs[o]
         /\ \A c \in Column :
               orgs'[arg[r].org][c] = IF c \in arg[r].cols THEN r ELSE orgs[arg[r].org][c]
  <1>1. arg[r].org \in Org
    BY DEF CommitPatch, RequestInv, Sound, Flow, Asked
  <1>2. Written(r) \in OrgRow
    BY <1>1 DEF Written, OrgRow, TypeOK
  <1>3. orgs' = [orgs EXCEPT ![arg[r].org] = Written(r)]
    BY DEF CommitPatch
  <1>4. orgs' \in [Org -> OrgRow] /\ orgs'[arg[r].org] = Written(r)
    BY <1>1, <1>2, <1>3 DEF TypeOK
  <1> QED
    BY <1>1, <1>3, <1>4 DEF Written, TypeOK

\* The invariant holds after the commit of a PATCH.
LEMMA CommitPatchInv ==
  ASSUME IInv, NEW r \in Req, CommitPatch(r)
  PROVE  IInv'
  <1>0. TypeOK /\ RequestInv /\ JobInv /\ ColumnInv /\ UniqueInv /\ OneAnswer /\ Provisioned
    BY DEF IInv
  <1>1. /\ pc[r] = "flush" /\ Goto(r, "refresh")
        /\ UNCHANGED <<users, members, teams, tmembers, jobs, arg, out>>
    BY DEF CommitPatch
  <1>2. Turn(r) /\ pc'[r] = "refresh" /\ out'[r] = None
    <2>1. "refresh" \in Label \ {"done"}
      BY DEF Label
    <2> QED
      BY <1>0, <1>1, <2>1, GotoFacts, ArgStays DEF Turn
  <1>3. /\ pc' \in [Req -> Label]
        /\ \A q \in Req : pc'[q] = "done" <=> out'[q] # None
        /\ \A q \in Req : q # r => arg'[q] = arg[q] /\ pc'[q] = pc[q] /\ out'[q] = out[q]
    BY <1>0, <1>2, TurnFacts
  <1>4. /\ arg[r].org \in Org /\ orgs' \in [Org -> OrgRow]
        /\ \A o \in Org : o # arg[r].org => orgs'[o] = orgs[o]
        /\ \A c \in Column :
              orgs'[arg[r].org][c] = IF c \in arg[r].cols THEN r ELSE orgs[arg[r].org][c]
    BY <1>0, PatchFacts
  <1>5. arg[r].kind = "patch" /\ arg[r].cols \subseteq Column /\ out'[r] \notin Code
    BY <1>0, <1>1, <1>2, ConstantsAssumption DEF RequestInv, Sound, Flow, TypeOK, Arg
  <1>6. TypeOK'
    BY <1>0, <1>1, <1>3, <1>4 DEF TypeOK
  <1>7. Grow
    <2>1. ASSUME NEW o \in Org, NEW c \in Column, orgs[o][c] \in Req PROVE orgs'[o][c] \in Req
      BY <1>4, <2>1
    <2> QED
      BY <1>1, <2>1 DEF Grow
  <1>8. RequestInv'
    <2>1. ASSUME NEW q \in Req PROVE Sound(q)'
      <3>1. CASE q # r
        <4>1. Sound(q)
          BY <1>0 DEF RequestInv
        <4>2. Pending(q)'
          BY <1>1, <1>3, <3>1, <4>1, PendingKept
        <4> QED
          BY <1>0, <1>3, <1>7, <3>1, <4>1, <4>2, SoundKept
      <3>2. CASE q = r
        <4>1. Asked(r)
          BY <1>0 DEF RequestInv, Sound
        <4>2. Asked(r)'
          BY <1>1, <1>2, <1>5, <4>1 DEF Asked, OrgExists
        <4>3. Known(r)'
          BY <1>1, <1>2, <1>4, <1>5 DEF Known
        <4>4. Flow(r)' /\ Pending(r)'
          BY <1>1, <1>2, <1>5 DEF Flow, Pending
        <4> QED
          BY <3>2, <4>2, <4>3, <4>4 DEF Sound
      <3> QED
        BY <3>1, <3>2
    <2>2. ASSUME NEW p \in Req, NEW q \in Req, p # q PROVE Distinct(p, q)'
      BY <1>0, <1>2, <1>3, <2>2 DEF RequestInv, Distinct
    <2> QED
      BY <2>1, <2>2 DEF RequestInv
  <1>9. ColumnInv'
    <2> SUFFICES ASSUME NEW o \in Org, NEW c \in Column, NEW q \in Req, orgs'[o][c] = q
                 PROVE  arg[q].kind = "patch" /\ arg[q].org = o /\ c \in arg[q].cols
      BY <1>1 DEF ColumnInv
    <2>1. CASE o = arg[r].org /\ c \in arg[r].cols
      BY <1>4, <1>5, <2>1
    <2>2. CASE orgs'[o][c] = orgs[o][c]
      BY <1>0, <2>2 DEF ColumnInv
    <2> QED
      BY <1>4, <2>1, <2>2
  <1>10. JobInv' /\ UniqueInv' /\ OneAnswer' /\ Provisioned'
    BY <1>0, <1>1 DEF JobInv, UniqueInv, OneAnswer, Provisioned, OrgExists
  <1> QED
    BY <1>6, <1>8, <1>9, <1>10 DEF IInv

----------------------------------------------------------------------------
(* The invariant and the commit of what a handler has inserted.            *)

\* A commit changes only its own request and the tables it has rows for, so there
\* is less to show of the invariant.
LEMMA CommitRest ==
  ASSUME IInv, NEW r \in Req, Turn(r), pc[r] = "commit",
         pc'[r] \in {"done", "enqueue", "detail"}, UNCHANGED <<orgs, jobs, arg>>,
         users' \in [User -> Email \cup {None}], members' \in [Org -> [User -> Role \cup {None}]],
         teams' \in [Team -> TeamRow], tmembers' \subseteq Team \X User,
         Grow, Known(r)', Flow(r)', \A q \in Req : q # r => Pending(q)',
         UniqueInv', OneAnswer', Provisioned'
  PROVE  IInv'
  <1>0. TypeOK /\ RequestInv /\ JobInv /\ ColumnInv
    BY DEF IInv
  <1>1. /\ pc' \in [Req -> Label] /\ out' \in [Req -> Code \cup {None}]
        /\ \A q \in Req : pc'[q] = "done" <=> out'[q] # None
        /\ \A q \in Req : q # r => arg'[q] = arg[q] /\ pc'[q] = pc[q] /\ out'[q] = out[q]
    BY <1>0, TurnFacts
  <1>2. TypeOK'
    BY <1>0, <1>1 DEF TypeOK
  <1>3. RequestInv'
    <2>1. ASSUME NEW q \in Req PROVE Sound(q)'
      <3>0. Sound(q)
        BY <1>0 DEF RequestInv
      <3>1. CASE q # r
        BY <1>0, <1>1, <3>0, <3>1, SoundKept
      <3>2. CASE q = r
        <4>1. Asked(r)
          BY <3>0, <3>2 DEF Sound
        <4>2. ASSUME NEW o \in Org, OrgExists(o) PROVE OrgExists(o)'
          BY <4>2 DEF OrgExists, Grow
        <4>3. Asked(r)'
          BY <4>1, <4>2 DEF Asked, Grow
        <4>4. Pending(r)'
          BY DEF Pending
        <4> QED
          BY <3>2, <4>3, <4>4 DEF Sound
      <3> QED
        BY <3>1, <3>2
    <2>2. ASSUME NEW p \in Req, NEW q \in Req, p # q PROVE Distinct(p, q)'
      BY <1>0, <1>1, <2>2 DEF RequestInv, Distinct
    <2> QED
      BY <2>1, <2>2 DEF RequestInv
  <1>4. JobInv'
    <2>1. out[r] = None
      BY <1>0 DEF TypeOK
    <2>2. jobs[r].st = "none"
      BY <1>0, <2>1, NotYet
    <2> QED
      BY <1>0, <1>1, <2>2 DEF JobInv
  <1>5. ColumnInv'
    BY <1>0 DEF ColumnInv
  <1> QED
    BY <1>2, <1>3, <1>4, <1>5 DEF IInv

\* A commit of whichever handler.
LEMMA CommitFacts ==
  ASSUME TypeOK, RequestInv, NEW r \in Req, Commit(r)
  PROVE  /\ pc[r] = "commit" /\ pc'[r] # "commit" /\ Turn(r) /\ UNCHANGED <<orgs, jobs, arg>>
         /\ \/ arg[r].kind = "register" /\ pc'[r] = "done" /\ out'[r] = 201
            \/ arg[r].kind = "invite" /\ pc'[r] = "enqueue" /\ out'[r] = None
            \/ arg[r].kind = "team" /\ pc'[r] = "detail" /\ out'[r] = None
            \/ arg[r].kind = "teammember" /\ pc'[r] = "done" /\ out'[r] = 204
  <1>1. pc[r] = "commit" /\ UNCHANGED <<orgs, jobs, arg>>
    BY DEF Commit
  <1>2. arg[r].kind \in {"register", "invite", "team", "teammember"}
    BY <1>1 DEF RequestInv, Sound, Flow
  <1>3. arg' = [arg EXCEPT ![r] = arg'[r]] /\ arg'[r] \in Arg
    BY <1>1, ArgStays
  <1>4. 201 \in Code /\ 204 \in Code /\ {"enqueue", "detail"} \subseteq Label \ {"done"}
    BY DEF Code, Label
  <1>5. CASE arg[r].kind = "register"
    <2>1. Answer(r, 201)
      BY <1>5 DEF Commit
    <2> QED
      BY <1>1, <1>3, <1>4, <1>5, <2>1, AnswerFacts DEF Turn
  <1>6. CASE arg[r].kind = "teammember"
    <2>1. Answer(r, 204)
      BY <1>6 DEF Commit
    <2> QED
      BY <1>1, <1>3, <1>4, <1>6, <2>1, AnswerFacts DEF Turn
  <1>7. CASE arg[r].kind = "invite"
    <2>1. Goto(r, "enqueue") /\ out' = out
      BY <1>7 DEF Commit
    <2> QED
      BY <1>1, <1>3, <1>4, <1>7, <2>1, GotoFacts DEF Turn
  <1>8. CASE arg[r].kind = "team"
    <2>1. Goto(r, "detail") /\ out' = out
      BY <1>8 DEF Commit
    <2> QED
      BY <1>1, <1>3, <1>4, <1>8, <2>1, GotoFacts DEF Turn
  <1> QED
    BY <1>2, <1>5, <1>6, <1>7, <1>8

\* The commit of a registration: a user and an organization that nobody else has or
\* is about to have.
LEMMA RegisterCommitInv ==
  ASSUME IInv, NEW r \in Req, Commit(r), arg[r].kind = "register"
  PROVE  IInv'
  <1> DEFINE a == arg[r]
  <1>0. TypeOK /\ RequestInv /\ UniqueInv /\ OneAnswer /\ Provisioned
    BY DEF IInv
  <1>1. /\ pc[r] = "commit" /\ pc'[r] = "done" /\ out'[r] = 201 /\ Turn(r)
        /\ UNCHANGED <<orgs, jobs, arg>>
    BY <1>0, CommitFacts
  <1>2. /\ a.user \in User /\ users[a.user] = None /\ a.org \in Org /\ ~OrgExists(a.org)
        /\ a.email \in Email /\ a.email # None /\ \A u \in User : users[u] # a.email
    <2>1. Asked(r) /\ Pending(r)
      BY <1>0 DEF RequestInv, Sound
    <2> QED
      BY <1>1, <2>1, ConstantsAssumption DEF Asked, Pending
  <1>3. /\ users' = [users EXCEPT ![a.user] = a.email] /\ UNCHANGED <<teams, tmembers>>
        /\ members' = [members EXCEPT ![a.org][a.user] = "owner"]
    BY DEF Commit, RoleOf
  <1> HIDE DEF a
  <1>4. /\ users' \in [User -> Email \cup {None}] /\ users'[a.user] = a.email
        /\ \A u \in User : u # a.user => users'[u] = users[u]
    BY <1>0, <1>2, <1>3 DEF TypeOK
  <1>5. /\ members' \in [Org -> [User -> Role \cup {None}]] /\ members'[a.org][a.user] = "owner"
        /\ \A p \in Org, v \in User : p # a.org \/ v # a.user => members'[p][v] = members[p][v]
    <2>1. "owner" \in Role /\ members \in [Org -> [User -> Role \cup {None}]]
      BY <1>0, RoleFacts DEF TypeOK
    <2> QED
      BY <1>2, <1>3, <2>1
  <1>6. \A v \in User : members[a.org][v] = None
    BY <1>2 DEF OrgExists
  <1>7. Grow
    BY <1>1, <1>2, <1>3, <1>4, <1>5, <1>6 DEF Grow
  <1>8. Known(r)' /\ Flow(r)'
    BY <1>1, <1>2, <1>4 DEF Known, Flow, a
  <1>9. ASSUME NEW q \in Req, q # r PROVE Pending(q)'
    <2>1. arg'[q] = arg[q] /\ pc'[q] = pc[q]
      BY <1>0, <1>1, <1>9, TurnFacts
    <2>2. Pending(q) /\ Asked(q) /\ Distinct(r, q) /\ Known(q)
      BY <1>0, <1>9 DEF RequestInv, Sound
    <2>3. CASE arg[q].kind = "register" /\ pc[q] = "commit"
      <3>1. arg[q].email # a.email /\ arg[q].user # a.user /\ arg[q].org # a.org
        BY <1>1, <2>2, <2>3 DEF Distinct, a
      <3>2. /\ arg[q].user \in User /\ users[arg[q].user] = None
            /\ arg[q].org \in Org /\ ~OrgExists(arg[q].org)
            /\ \A u \in User : users[u] # arg[q].email
        BY <2>2, <2>3 DEF Pending
      <3>3. ~OrgExists(arg[q].org)'
        BY <1>5, <2>1, <3>1, <3>2 DEF OrgExists
      <3>4. users'[arg[q].user] = None /\ \A u \in User : users'[u] # arg[q].email
        BY <1>4, <3>1, <3>2
      <3> QED
        BY <2>1, <2>3, <3>2, <3>3, <3>4 DEF Pending
    <2>4. CASE arg[q].kind = "invite" /\ pc[q] = "commit"
      <3>1. arg[q].org # a.org /\ arg[q].org \in Org /\ arg[q].user \in User
        BY <1>2, <2>2, <2>4 DEF Asked, Known
      <3> QED
        BY <1>5, <2>1, <2>2, <2>4, <3>1 DEF Pending
    <2>5. CASE arg[q].kind \notin {"register", "invite"} \/ pc[q] # "commit"
      BY <1>3, <2>1, <2>2, <2>5 DEF Pending
    <2> QED
      BY <2>3, <2>4, <2>5
  <1>10. UniqueInv'
    BY <1>0, <1>2, <1>3, <1>4 DEF UniqueInv
  <1>11. OneAnswer'
    <2>1. ASSUME NEW q \in Req, q # r, arg[q].kind = "register", out'[q] = 201
          PROVE  arg[q].email # arg[r].email
      <3>1. out[q] = 201 /\ Known(q)
        BY <1>0, <1>1, <2>1, TurnFacts DEF RequestInv, Sound
      <3> QED
        BY <1>2, <2>1, <3>1 DEF Known, a
    <2>2. ASSUME NEW q \in Req, q # r PROVE out'[q] = out[q]
      BY <1>0, <1>1, <2>2, TurnFacts
    <2> QED
      BY <1>0, <1>1, <2>1, <2>2 DEF OneAnswer
  <1>12. Provisioned'
    <2>1. ASSUME NEW u \in User, users'[u] # None PROVE \E o \in Org : members'[o][u] = "owner"
      <3>1. CASE u = a.user
        BY <1>2, <1>5, <3>1
      <3>2. CASE u # a.user
        <4>1. PICK o \in Org : members[o][u] = "owner"
          BY <1>0, <1>4, <2>1, <3>2 DEF Provisioned
        <4> QED
          BY <1>5, <3>2, <4>1
      <3> QED
        BY <3>1, <3>2
    <2>2. ASSUME NEW o \in Org, OrgExists(o)' PROVE \E u \in User : members'[o][u] = "owner"
      <3>1. CASE o = a.org
        BY <1>2, <1>5, <3>1
      <3>2. CASE o # a.org
        <4>1. OrgExists(o)
          BY <1>5, <2>2, <3>2 DEF OrgExists
        <4>2. PICK u \in User : members[o][u] = "owner"
          BY <1>0, <4>1 DEF Provisioned
        <4> QED
          BY <1>5, <3>2, <4>2
      <3> QED
        BY <3>1, <3>2
    <2>3. ASSUME NEW o \in Org, NEW u \in User, members'[o][u] # None PROVE users'[u] # None
      BY <1>0, <1>2, <1>4, <1>5, <2>3 DEF Provisioned
    <2> QED
      BY <2>1, <2>2, <2>3 DEF Provisioned
  <1>13. teams' \in [Team -> TeamRow] /\ tmembers' \subseteq Team \X User
    BY <1>0, <1>3 DEF TypeOK
  <1> QED
    BY <1>1, <1>4, <1>5, <1>7, <1>8, <1>9, <1>10, <1>11, <1>12, <1>13, CommitRest

\* The commit of an invitation: a membership where there was none.
LEMMA InviteCommitInv ==
  ASSUME IInv, NEW r \in Req, Commit(r), arg[r].kind = "invite"
  PROVE  IInv'
  <1> DEFINE a == arg[r]
  <1>0. TypeOK /\ RequestInv /\ UniqueInv /\ OneAnswer /\ Provisioned
    BY DEF IInv
  <1>1. /\ pc[r] = "commit" /\ pc'[r] = "enqueue" /\ out'[r] = None /\ Turn(r)
        /\ UNCHANGED <<orgs, jobs, arg>>
    BY <1>0, CommitFacts
  <1>2. /\ a.user \in User /\ users[a.user] # None /\ a.org \in Org /\ OrgExists(a.org)
        /\ a.role \in Role /\ a.role # None /\ members[a.org][a.user] = None
    <2>1. Asked(r) /\ Pending(r) /\ Known(r)
      BY <1>0 DEF RequestInv, Sound
    <2> QED
      BY <1>1, <2>1, RoleFacts DEF Asked, Pending, Known
  <1>3. /\ UNCHANGED <<users, teams, tmembers>>
        /\ members' = [members EXCEPT ![a.org][a.user] = a.role]
    BY DEF Commit, RoleOf
  <1>4. out'[r] \notin Code
    BY <1>1, ConstantsAssumption
  <1> HIDE DEF a
  <1>5. /\ members' \in [Org -> [User -> Role \cup {None}]] /\ members'[a.org][a.user] = a.role
        /\ \A p \in Org, v \in User : p # a.org \/ v # a.user => members'[p][v] = members[p][v]
    <2>1. members \in [Org -> [User -> Role \cup {None}]]
      BY <1>0 DEF TypeOK
    <2> QED
      BY <1>2, <1>3, <2>1
  <1>6. Grow
    BY <1>1, <1>2, <1>3, <1>5 DEF Grow
  <1>7. Known(r)' /\ Flow(r)'
    BY <1>1, <1>2, <1>4, <1>5 DEF Known, Flow, Code, a
  <1>8. ASSUME NEW q \in Req, q # r PROVE Pending(q)'
    <2>1. arg'[q] = arg[q] /\ pc'[q] = pc[q]
      BY <1>0, <1>1, <1>8, TurnFacts
    <2>2. Pending(q) /\ Asked(q) /\ Distinct(r, q) /\ Known(q)
      BY <1>0, <1>8 DEF RequestInv, Sound
    <2>3. CASE arg[q].kind = "register" /\ pc[q] = "commit"
      <3>1. /\ arg[q].user \in User /\ users[arg[q].user] = None
            /\ arg[q].org \in Org /\ ~OrgExists(arg[q].org)
            /\ \A u \in User : users[u] # arg[q].email
        BY <2>2, <2>3 DEF Pending
      <3>2. ~OrgExists(arg[q].org)'
        BY <1>2, <1>5, <2>1, <3>1 DEF OrgExists
      <3> QED
        BY <1>3, <2>1, <2>3, <3>1, <3>2 DEF Pending
    <2>4. CASE arg[q].kind = "invite" /\ pc[q] = "commit"
      <3>1. arg[q].org # a.org \/ arg[q].user # a.user
        BY <1>1, <2>2, <2>4 DEF Distinct, a
      <3>2. arg[q].org \in Org /\ arg[q].user \in User
        BY <2>2, <2>4 DEF Asked, Known
      <3> QED
        BY <1>5, <2>1, <2>2, <2>4, <3>1, <3>2 DEF Pending
    <2>5. CASE arg[q].kind \notin {"register", "invite"} \/ pc[q] # "commit"
      BY <1>3, <2>1, <2>2, <2>5 DEF Pending
    <2> QED
      BY <2>3, <2>4, <2>5
  <1>9. UniqueInv'
    BY <1>0, <1>3 DEF UniqueInv
  <1>10. OneAnswer'
    <2>1. ASSUME NEW q \in Req, q # r PROVE out'[q] = out[q]
      BY <1>0, <1>1, <2>1, TurnFacts
    <2> QED
      BY <1>0, <1>1, <2>1 DEF OneAnswer
  <1>11. Provisioned'
    <2>1. ASSUME NEW u \in User, users'[u] # None PROVE \E o \in Org : members'[o][u] = "owner"
      <3>1. PICK o \in Org : members[o][u] = "owner"
        BY <1>0, <1>3, <2>1 DEF Provisioned
      <3>2. "owner" # None
        BY RoleFacts
      <3> QED
        BY <1>2, <1>5, <3>1, <3>2
    <2>2. ASSUME NEW o \in Org, OrgExists(o)' PROVE \E u \in User : members'[o][u] = "owner"
      <3>1. OrgExists(o)
        BY <1>2, <1>5, <2>2 DEF OrgExists
      <3>2. PICK u \in User : members[o][u] = "owner"
        BY <1>0, <3>1 DEF Provisioned
      <3>3. "owner" # None
        BY RoleFacts
      <3> QED
        BY <1>2, <1>5, <3>2, <3>3
    <2>3. ASSUME NEW o \in Org, NEW u \in User, members'[o][u] # None PROVE users'[u] # None
      BY <1>0, <1>2, <1>3, <1>5, <2>3 DEF Provisioned
    <2> QED
      BY <2>1, <2>2, <2>3 DEF Provisioned
  <1>12. /\ users' \in [User -> Email \cup {None}]
         /\ teams' \in [Team -> TeamRow] /\ tmembers' \subseteq Team \X User
    BY <1>0, <1>3 DEF TypeOK
  <1> QED
    BY <1>1, <1>5, <1>6, <1>7, <1>8, <1>9, <1>10, <1>11, <1>12, CommitRest

\* The commit of a new team: a slug that no team of the organization has.
LEMMA TeamCommitInv ==
  ASSUME IInv, NEW r \in Req, Commit(r), arg[r].kind = "team"
  PROVE  IInv'
  <1> DEFINE a == arg[r]
             row == [org |-> a.org, slug |-> a.slug]
  <1>0. TypeOK /\ RequestInv /\ UniqueInv /\ OneAnswer /\ Provisioned
    BY DEF IInv
  <1>1. /\ pc[r] = "commit" /\ pc'[r] = "detail" /\ out'[r] = None /\ Turn(r)
        /\ UNCHANGED <<orgs, jobs, arg>>
    BY <1>0, CommitFacts
  <1>2. /\ a.team \in Team /\ teams[a.team] = NoTeam /\ a.org \in Org /\ a.slug \in Slug
        /\ \A t \in Team : teams[t] # row
    <2>1. Asked(r) /\ Pending(r)
      BY <1>0 DEF RequestInv, Sound
    <2> QED
      BY <1>1, <2>1 DEF Asked, Pending
  <1>3. row \in TeamRow /\ row # NoTeam /\ row.org = a.org /\ row.slug = a.slug
    BY <1>2, TeamRowFacts
  <1>4. UNCHANGED <<users, members, tmembers>> /\ teams' = [teams EXCEPT ![a.team] = row]
    BY DEF Commit
  <1>5. out'[r] \notin Code
    BY <1>1, ConstantsAssumption
  <1> HIDE DEF row
  <1>6. /\ teams' \in [Team -> TeamRow] /\ teams'[a.team] = row
        /\ \A t \in Team : t # a.team => teams'[t] = teams[t]
    BY <1>0, <1>2, <1>3, <1>4 DEF TypeOK
  <1>7. Grow
    BY <1>1, <1>2, <1>4, <1>6 DEF Grow
  <1>8. Known(r)' /\ Flow(r)'
    BY <1>1, <1>5 DEF Known, Flow, Code
  <1>9. ASSUME NEW q \in Req, q # r PROVE Pending(q)'
    <2>1. arg'[q] = arg[q] /\ pc'[q] = pc[q]
      BY <1>0, <1>1, <1>9, TurnFacts
    <2>2. Pending(q) /\ Asked(q) /\ Distinct(r, q)
      BY <1>0, <1>9 DEF RequestInv, Sound
    <2>3. CASE arg[q].kind = "team" /\ pc[q] = "commit"
      <3> DEFINE new == [org |-> arg[q].org, slug |-> arg[q].slug]
      <3>1. arg[q].team # a.team /\ (arg[q].org # a.org \/ arg[q].slug # a.slug)
        BY <1>1, <2>2, <2>3 DEF Distinct
      <3>2. /\ arg[q].team \in Team /\ teams[arg[q].team] = NoTeam
            /\ \A t \in Team : teams[t] # new
        BY <2>2, <2>3 DEF Pending
      <3>3. new.org = arg[q].org /\ new.slug = arg[q].slug
        OBVIOUS
      <3>4. row # new
        BY <1>3, <3>1, <3>3
      <3>5. \A t \in Team : teams'[t] # new
        BY <1>6, <3>2, <3>4
      <3> QED
        BY <1>6, <2>1, <2>3, <3>1, <3>2, <3>5 DEF Pending
    <2>4. CASE arg[q].kind # "team" \/ pc[q] # "commit"
      BY <1>4, <2>1, <2>2, <2>4 DEF Pending, OrgExists
    <2> QED
      BY <2>3, <2>4
  <1>10. UniqueInv'
    BY <1>0, <1>2, <1>4, <1>6 DEF UniqueInv
  <1>11. OneAnswer'
    <2>1. ASSUME NEW q \in Req, q # r PROVE out'[q] = out[q]
      BY <1>0, <1>1, <2>1, TurnFacts
    <2> QED
      BY <1>0, <1>1, <2>1 DEF OneAnswer
  <1>12. Provisioned'
    BY <1>0, <1>4 DEF Provisioned, OrgExists
  <1>13. /\ users' \in [User -> Email \cup {None}] /\ tmembers' \subseteq Team \X User
         /\ members' \in [Org -> [User -> Role \cup {None}]]
    BY <1>0, <1>4 DEF TypeOK
  <1> QED
    BY <1>1, <1>6, <1>7, <1>8, <1>9, <1>10, <1>11, <1>12, <1>13, CommitRest

\* The commit of a new member of a team.
LEMMA FillCommitInv ==
  ASSUME IInv, NEW r \in Req, Commit(r), arg[r].kind = "teammember"
  PROVE  IInv'
  <1> DEFINE a == arg[r]
  <1>0. TypeOK /\ RequestInv /\ UniqueInv /\ OneAnswer /\ Provisioned
    BY DEF IInv
  <1>1. /\ pc[r] = "commit" /\ pc'[r] = "done" /\ out'[r] = 204 /\ Turn(r)
        /\ UNCHANGED <<orgs, jobs, arg>>
    BY <1>0, CommitFacts
  <1>2. a.team \in Team /\ a.user \in User /\ teams[a.team].org = a.org
    <2>1. Asked(r) /\ Known(r)
      BY <1>0 DEF RequestInv, Sound
    <2> QED
      BY <1>1, <2>1 DEF Asked, Known
  <1>3. UNCHANGED <<users, members, teams>> /\ tmembers' = tmembers \cup {<<a.team, a.user>>}
    BY DEF Commit
  <1>4. tmembers' \subseteq Team \X User
    BY <1>0, <1>2, <1>3 DEF TypeOK
  <1>5. Grow
    BY <1>1, <1>3, UnchangedGrow
  <1>6. Known(r)' /\ Flow(r)'
    BY <1>1, <1>2, <1>3 DEF Known, Flow
  <1>7. ASSUME NEW q \in Req, q # r PROVE Pending(q)'
    <2>1. arg'[q] = arg[q] /\ pc'[q] = pc[q] /\ Sound(q)
      BY <1>0, <1>1, <1>7, TurnFacts DEF RequestInv
    <2> QED
      BY <1>3, <2>1, PendingKept
  <1>8. OneAnswer'
    <2>1. ASSUME NEW q \in Req, q # r PROVE out'[q] = out[q]
      BY <1>0, <1>1, <2>1, TurnFacts
    <2> QED
      BY <1>0, <1>1, <2>1 DEF OneAnswer
  <1>9. UniqueInv' /\ Provisioned'
    BY <1>0, <1>3 DEF UniqueInv, Provisioned, OrgExists
  <1>10. /\ users' \in [User -> Email \cup {None}] /\ teams' \in [Team -> TeamRow]
         /\ members' \in [Org -> [User -> Role \cup {None}]]
    BY <1>0, <1>3 DEF TypeOK
  <1> QED
    BY <1>1, <1>4, <1>5, <1>6, <1>7, <1>8, <1>9, <1>10, CommitRest

\* The invariant holds after a commit.
LEMMA CommitInv ==
  ASSUME IInv, NEW r \in Req, Commit(r)
  PROVE  IInv'
  <1>1. arg[r].kind \in {"register", "invite", "team", "teammember"}
    BY CommitFacts DEF IInv
  <1> QED
    BY <1>1, RegisterCommitInv, InviteCommitInv, TeamCommitInv, FillCommitInv

----------------------------------------------------------------------------
(* The theorems.                                                           *)

\* The invariant holds at first.
LEMMA InvInit == Init => IInv
  <1> SUFFICES ASSUME Init PROVE IInv
    OBVIOUS
  <1>1. /\ NoArg \in Arg /\ NoArg.kind = "none" /\ NoTeam \in TeamRow
        /\ NoJob \in Job /\ NoJob.st = "none" /\ NoJob.tries = 0 /\ NoJob.mails = 0
    BY NoArgFacts, TeamRowFacts DEF NoJob, Job
  <1>2. None \notin Code /\ MaxTries \in Nat
    BY ConstantsAssumption
  <1>3. TypeOK
    BY <1>1, <1>2 DEF Init, TypeOK, OrgRow, Label
  <1>4. RequestInv
    <2>1. ASSUME NEW r \in Req
          PROVE  arg[r].kind = "none" /\ pc[r] = "idle" /\ out[r] \notin Code
      BY <1>1, <1>2 DEF Init
    <2>2. ASSUME NEW r \in Req PROVE Sound(r)
      BY <2>1 DEF Sound, Asked, Flow, Known, Pending, Code
    <2>3. ASSUME NEW p \in Req, NEW q \in Req PROVE Distinct(p, q)
      BY <2>1 DEF Distinct
    <2> QED
      BY <2>2, <2>3 DEF RequestInv
  <1>5. JobInv
    BY <1>1, <1>2 DEF Init, JobInv
  <1>6. ColumnInv
    BY ConstantsAssumption DEF Init, ColumnInv
  <1>7. UniqueInv
    BY DEF Init, UniqueInv
  <1>8. OneAnswer
    BY <1>1 DEF Init, OneAnswer
  <1>9. Provisioned
    BY DEF Init, Provisioned, OrgExists
  <1> QED
    BY <1>3, <1>4, <1>5, <1>6, <1>7, <1>8, <1>9 DEF IInv

\* Every step keeps the invariant.
LEMMA InvStep ==
  ASSUME IInv, [Next]_vars
  PROVE  IInv'
  <1>0. TypeOK /\ RequestInv
    BY DEF IInv
  <1>1. CASE UNCHANGED vars
    <2>1. UNCHANGED <<users, members, teams, tmembers, orgs, jobs, pc, arg, out>>
      BY <1>1 DEF vars, tables
    <2>2. TypeOK' /\ JobInv' /\ ColumnInv' /\ UniqueInv' /\ OneAnswer'
      BY <2>1 DEF IInv, TypeOK, JobInv, ColumnInv, UniqueInv, OneAnswer
    <2>3. Provisioned'
      BY <2>1 DEF IInv, Provisioned, OrgExists
    <2>4. RequestInv'
      BY <1>0, <2>1
         DEF RequestInv, Sound, Asked, Flow, Known, Pending, Distinct, OrgExists
    <2> QED
      BY <2>2, <2>3, <2>4 DEF IInv
  <1>2. ASSUME NEW r \in Req,
               Register(r) \/ InviteMember(r) \/ CreateTeam(r) \/ AddTeamMember(r)
                 \/ PatchOrganization(r)
        PROVE  IInv'
    BY <1>0, <1>2, StartThinks, ThinkInv
  <1>3. ASSUME NEW r \in Req, Step(r) PROVE IInv'
    <2>1. CASE CheckRole(r) \/ FindEmail(r) \/ FindMember(r) \/ FindTeam(r)
      BY <1>0, <2>1, CheckRoleThinks, FindEmailThinks, FindMemberThinks, FindTeamThinks, ThinkInv
    <2>2. CASE Insert(r) \/ TeamDetail(r) \/ SelectOrg(r) \/ RefreshOrg(r)
      BY <1>0, <2>2, InsertThinks, TeamDetailThinks, SelectOrgThinks, RefreshOrgThinks, ThinkInv
    <2>3. CASE Commit(r) \/ Enqueue(r) \/ CommitPatch(r)
      BY <2>3, CommitInv, EnqueueInv, CommitPatchInv
    <2> QED
      BY <1>3, <2>1, <2>2, <2>3 DEF Step
  <1>4. ASSUME NEW r \in Req, Fail(r) \/ Worker(r) PROVE IInv'
    BY <1>0, <1>4, FailThinks, ThinkInv, WorkerInv
  <1> QED
    BY <1>1, <1>2, <1>3, <1>4 DEF Next, Quiet

\* The inductive invariant holds in every reachable state.
THEOREM Invariance == Spec => []IInv
  <1>1. IInv /\ [Next]_vars => IInv'
    BY InvStep
  <1> QED
    BY InvInit, <1>1, PTL DEF Spec

\* Every variable has its type, and a request is done exactly when it is answered.
THEOREM TypeCorrect == Spec => []TypeOK
  <1>1. IInv => TypeOK
    BY DEF IInv
  <1> QED
    BY Invariance, <1>1, PTL

\* Nobody registers twice: however many registrations pass the lookup at the same
\* time, an address gets one account and one 201 (register, users.email).
THEOREM OneAccount == Spec => []RegisteredOnce
  <1>1. IInv => RegisteredOnce
    <2> SUFFICES ASSUME IInv PROVE RegisteredOnce
      OBVIOUS
    <2>1. ASSUME NEW e \in Email PROVE Cardinality(WithEmail(e)) <= 1
      <3>1. CASE WithEmail(e) = {}
        BY <3>1, FS_EmptySet
      <3>2. CASE WithEmail(e) # {}
        <4>1. PICK u \in WithEmail(e) : TRUE
          BY <3>2
        <4>2. WithEmail(e) = {u}
          BY <2>1, <4>1, ConstantsAssumption DEF WithEmail, IInv, UniqueInv
        <4>3. Cardinality({u}) = 1
          BY FS_Singleton
        <4> QED
          BY <4>2, <4>3
      <3> QED
        BY <3>1, <3>2
    <2> QED
      BY <2>1 DEF RegisteredOnce, IInv, OneAnswer
  <1> QED
    BY Invariance, <1>1, PTL

\* Registration is all or nothing: every user owns an organization, every
\* organization with members has an owner, and every member is a user (register).
THEOREM WhollyProvisioned == Spec => []Provisioned
  <1>1. IInv => Provisioned
    BY DEF IInv
  <1> QED
    BY Invariance, <1>1, PTL

\* An invitation that was answered 201 gave the role it named, and no concurrent
\* invitation has replaced it (invite_member, uq_org_member_user).
THEOREM InvitationsHold == Spec => []InviteHonoured
  <1>1. IInv => InviteHonoured
    BY DEF IInv, RequestInv, Sound, Known, InviteHonoured
  <1> QED
    BY Invariance, <1>1, PTL

\* A slug names one team of an organization, and a manager fills only the teams of
\* the organization the manager acts for (create_team, add_member).
THEOREM TeamsStayApart == Spec => []TeamsApart
  <1>1. IInv => TeamsApart
    BY DEF IInv, RequestInv, Sound, Known, UniqueInv, TeamsApart
  <1> QED
    BY Invariance, <1>1, PTL

\* At most max_tries mails about an invitation, none without its membership, and one
\* at least from a job that ARQ counts as done, whatever becomes of the workers
\* (send_invitation_email, WorkerSettings).
THEOREM MailsBounded == Spec => []MailBounded
  <1>1. IInv => MailBounded
    <2> SUFFICES ASSUME IInv, NEW r \in Req
                 PROVE  /\ jobs[r].mails <= MaxTries
                        /\ jobs[r].mails > 0 => members[arg[r].org][arg[r].user] = arg[r].role
                        /\ jobs[r].st = "done" => jobs[r].mails > 0
      BY DEF MailBounded
    <2>1. jobs[r].mails \in Nat /\ jobs[r].tries \in Nat /\ MaxTries \in Nat
      BY ConstantsAssumption DEF IInv, TypeOK, Job
    <2>2. /\ jobs[r].tries <= MaxTries /\ jobs[r].mails <= jobs[r].tries
          /\ jobs[r].st = "done" => jobs[r].mails > 0
          /\ jobs[r].mails > 0 => arg[r].kind = "invite" /\ out[r] = 201
      BY <2>1 DEF IInv, JobInv
    <2>3. Known(r)
      BY DEF IInv, RequestInv, Sound
    <2> QED
      BY <2>1, <2>2, <2>3 DEF Known
  <1> QED
    BY Invariance, <1>1, PTL

\* A column that a PATCH was answered 200 for holds the value of a PATCH of the
\* organization that named the column (update_current_organization).
THEOREM ColumnsStay == Spec => []ColumnsKept
  <1>1. IInv => ColumnsKept
    <2> SUFFICES ASSUME IInv, NEW r \in Req, NEW c \in Column,
                        arg[r].kind = "patch", out[r] = 200, c \in arg[r].cols
                 PROVE  \E q \in Req : /\ orgs[arg[r].org][c] = q
                                       /\ arg[q].kind = "patch" /\ arg[q].org = arg[r].org
                                       /\ c \in arg[q].cols
      BY DEF ColumnsKept
    <2>1. Known(r) /\ Asked(r)
      BY DEF IInv, RequestInv, Sound
    <2>2. arg[r].org \in Org /\ orgs[arg[r].org][c] \in Req
      BY <2>1 DEF Known, Asked
    <2> QED
      BY <2>2 DEF IInv, ColumnInv
  <1> QED
    BY Invariance, <1>1, PTL
=============================================================================
