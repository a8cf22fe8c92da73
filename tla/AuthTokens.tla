----------------------------- MODULE AuthTokens -----------------------------
(***************************************************************************)
(* Refresh tokens: login issues one, /refresh exchanges it for a new pair  *)
(* and blacklists it in Redis, /logout blacklists it.  A token's expiry is *)
(* a whole second (the exp claim), the clock and Redis run on finer ticks, *)
(* and the blacklist entry's TTL is a whole number of seconds.             *)
(***************************************************************************)
EXTENDS Integers

CONSTANTS Req,          \* handler invocations, each used once
          Token,        \* jti values
          TPS,          \* ticks per second
          Life,         \* lifetime of a refresh token, in seconds
          MaxNow,       \* the clock stops here (a bound of the model)
          None

ASSUME ConstantsAssumption ==
  /\ TPS \in Nat \ {0} /\ Life \in Nat \ {0} /\ MaxNow \in Nat
  /\ None \notin Req \cup Token \cup {200, 204, 401, 500}

VARIABLES
  now,      \* the clock, in ticks
  issued,   \* for each token its exp claim, 0 when it was never issued
  black,    \* Redis: the tick at which the token's blacklist key runs out
  revoked,  \* for the properties: the tokens whose key was ever stored
  lost,     \* for the properties: the requests whose Redis call failed
  pc, arg,  \* each request's next step, and the handler and token it is about
  ttl,      \* the TTL a request has computed
  out       \* the HTTP status answered, None before

vars == <<now, issued, black, revoked, lost, pc, arg, ttl, out>>

Init ==
  /\ now = 0
  /\ issued = [k \in Token |-> 0]
  /\ black = [k \in Token |-> 0]
  /\ revoked = {}
  /\ lost = {}
  /\ pc = [r \in Req |-> "idle"]
  /\ arg = [r \in Req |-> [kind |-> "none", token |-> None]]
  /\ ttl = [r \in Req |-> 0]
  /\ out = [r \in Req |-> None]

Goto(r, label) == pc' = [pc EXCEPT ![r] = label]

Answer(r, code) ==
  /\ Goto(r, "done")
  /\ out' = [out EXCEPT ![r] = code]

\* PyJWT writes exp as whole seconds.
ExpOf(t) == ((t + Life * TPS) \div TPS) * TPS

\* decode_jwt_token accepts the token until exp.
Unexpired(k) == now < issued[k]

----------------------------------------------------------------------------

Receive(r, kind, k) ==
  /\ pc[r] = "idle"
  /\ arg' = [arg EXCEPT ![r] = [kind |-> kind, token |-> k]]
  /\ Goto(r, "decode")
  /\ UNCHANGED <<now, issued, black, revoked, lost, ttl, out>>

\* POST /auth/refresh and POST /auth/logout, with a token that was issued.
Refresh(r) == \E k \in {j \in Token : issued[j] > 0} : Receive(r, "refresh", k)

Logout(r) == \E k \in {j \in Token : issued[j] > 0} : Receive(r, "logout", k)

\* POST /auth/login: authenticate looks the user up and either refuses or goes on
\* to issue a pair.
Login(r) ==
  /\ pc[r] = "idle"
  /\ arg' = [arg EXCEPT ![r] = [kind |-> "login", token |-> None]]
  /\ \/ Goto(r, "issue") /\ UNCHANGED out
     \/ Answer(r, 401)
  /\ UNCHANGED <<now, issued, black, revoked, lost, ttl>>

TtlShort(k) == (issued[k] - now) \div TPS - 1

\* int((expires_at - now).total_seconds()), at the moment it is computed.
Ttl(k) == (issued[k] - now) \div TPS

ThenRevokeAlways(r, k) ==
  /\ ttl' = [ttl EXCEPT ![r] = Ttl(k)]
  /\ Goto(r, "store")
  /\ UNCHANGED out

\* revoke_token sends the key only for a positive TTL.
ThenRevoke(r, k) ==
  /\ ttl' = [ttl EXCEPT ![r] = Ttl(k)]
  /\ IF Ttl(k) > 0 THEN Goto(r, "store") /\ UNCHANGED out
     ELSE IF arg[r].kind = "refresh" THEN Goto(r, "issue") /\ UNCHANGED out
     ELSE Answer(r, 204)

\* Decoding the token.  /refresh refuses an expired one; /logout ignores the
\* error, and goes on to revoke an unexpired one in the same step.
Decode(r) ==
  LET k == arg[r].token
  IN /\ pc[r] = "decode"
     /\ \/ /\ arg[r].kind = "refresh" /\ Unexpired(k)
           /\ Goto(r, "check")
           /\ UNCHANGED <<ttl, out>>
        \/ /\ arg[r].kind = "refresh" /\ ~Unexpired(k)
           /\ Answer(r, 401)
           /\ UNCHANGED ttl
        \/ /\ arg[r].kind = "logout" /\ Unexpired(k)
           /\ ThenRevoke(r, k)
        \/ /\ arg[r].kind = "logout" /\ ~Unexpired(k)
           /\ Answer(r, 204)
           /\ UNCHANGED ttl
     /\ UNCHANGED <<now, issued, black, revoked, lost, arg>>

\* is_token_revoked: the key exists until it runs out.
Blacklisted(k) == black[k] > now

Check(r) ==
  LET k == arg[r].token
  IN /\ pc[r] = "check"
     /\ \/ Blacklisted(k) /\ Answer(r, 401)
        \/ ~Blacklisted(k) /\ Goto(r, "user") /\ UNCHANGED out
     /\ UNCHANGED <<now, issued, black, revoked, lost, arg, ttl>>

\* The user lookup returns (no code in the repository deactivates a user), and
\* the handler computes the TTL.
User(r) ==
  /\ pc[r] = "user"
  /\ ThenRevoke(r, arg[r].token)
  /\ UNCHANGED <<now, issued, black, revoked, lost, arg>>

\* Redis applies SET key EX ttl, counting from when it arrives.
Store(r) ==
  LET k == arg[r].token
  IN /\ pc[r] = "store"
     /\ black' = [black EXCEPT ![k] = now + ttl[r] * TPS]
     /\ revoked' = revoked \cup {k}
     /\ IF arg[r].kind = "refresh" THEN Goto(r, "issue") /\ UNCHANGED out
                                   ELSE Answer(r, 204)
     /\ UNCHANGED <<now, issued, lost, arg, ttl>>

\* _generate_token_pair, with a fresh jti.
Issue(r) ==
  /\ pc[r] = "issue"
  /\ \E k \in Token :
        /\ issued[k] = 0
        /\ issued' = [issued EXCEPT ![k] = ExpOf(now)]
  /\ Answer(r, 200)
  /\ UNCHANGED <<now, black, revoked, lost, arg, ttl>>

InProgress(r) == pc[r] \notin {"idle", "done"}

\* A Redis call fails: /refresh ends with 500; /logout catches every exception
\* and still answers 204.
RedisError(r) ==
  /\ pc[r] \in {"check", "store"}
  /\ lost' = lost \cup {r}
  /\ Answer(r, IF arg[r].kind = "logout" THEN 204 ELSE 500)
  /\ UNCHANGED <<now, issued, black, revoked, arg, ttl>>

\* The database fails or the node is lost: no answer but what Redis has stays.
Fail(r) ==
  /\ InProgress(r)
  /\ Answer(r, 500)
  /\ UNCHANGED <<now, issued, black, revoked, lost, arg, ttl>>

Tick ==
  /\ now < MaxNow
  /\ now' = now + 1
  /\ UNCHANGED <<issued, black, revoked, lost, pc, arg, ttl, out>>

\* No request in progress: the server waits for the next one.
Quiet ==
  /\ \A r \in Req : ~InProgress(r)
  /\ UNCHANGED vars

Step(r) == Decode(r) \/ Check(r) \/ User(r) \/ Store(r) \/ Issue(r)

Next ==
  \/ \E r \in Req : Login(r) \/ Refresh(r) \/ Logout(r)
  \/ \E r \in Req : Step(r) \/ RedisError(r) \/ Fail(r)
  \/ Tick
  \/ Quiet

Spec == Init /\ [][Next]_vars

----------------------------------------------------------------------------
(* Properties.                                                             *)

\* Every variable has its type, a request is done exactly when it is answered, and
\* Redis is never sent a TTL that it would refuse (revoke_token).
TypeOK ==
  /\ now \in 0..MaxNow
  /\ issued \in [Token -> Nat]
  /\ black \in [Token -> Nat]
  /\ revoked \subseteq Token /\ lost \subseteq Req
  /\ pc \in [Req -> {"idle", "decode", "check", "user", "store", "issue", "done"}]
  /\ arg \in [Req -> [kind : {"none", "login", "refresh", "logout"},
                      token : Token \cup {None}]]
  /\ ttl \in [Req -> Int]
  /\ out \in [Req -> {None, 200, 204, 401, 500}]
  /\ \A r \in Req : pc[r] = "done" <=> out[r] # None
  /\ \A r \in Req : pc[r] = "store" => ttl[r] > 0

\* The last second of a token's life, in which the truncated TTL may have run out.
LastSecond(k) == now + TPS > issued[k]

\* The tokens that are used up: blacklisted, exchanged for a new pair, or logged out
\* by a request whose Redis call did not fail (the client is told 204 all the same).
Spent ==
  revoked \cup {arg[r].token : r \in
     {q \in Req : \/ arg[q].kind = "refresh" /\ out[q] = 200
                  \/ arg[q].kind = "logout" /\ out[q] = 204 /\ q \notin lost}}

\* A token that is used up is refused from then on until the last second of its
\* life: nobody has a new pair, or the 204 of a logout, while the old token still
\* works, whatever ran in between and however long the SET took to reach Redis
\* (refresh_tokens, logout, revoke_token).
RevokedUntilLastSecond ==
  \A k \in Spent : LastSecond(k) \/ Blacklisted(k)

\* A refresh token is exchanged at most once.
SingleRotation ==
  \A p, q \in Req :
     /\ arg[p].kind = "refresh" /\ out[p] = 200
     /\ arg[q].kind = "refresh" /\ out[q] = 200
     /\ arg[p].token = arg[q].token
     => p = q
=============================================================================
