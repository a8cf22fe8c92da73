-------------------------- MODULE AuthTokensProofs --------------------------
(***************************************************************************)
(* Theorems about AuthTokens, for any number of requests and tokens, any   *)
(* lifetime and any resolution of the clock.                               *)
(***************************************************************************)
EXTENDS AuthTokens, TLAPS

----------------------------------------------------------------------------
(* The inductive invariant.                                                *)

\* Where a handler can be: one that holds a token holds one that was issued, only
\* /refresh looks into the blacklist, and a handler has no answer before its end.
FlowInv ==
  \A r \in Req :
     /\ arg[r].kind \in {"refresh", "logout"} =>
          arg[r].token \in Token /\ issued[arg[r].token] > 0
     /\ pc[r] \in {"decode", "store"} => arg[r].kind \in {"refresh", "logout"}
     /\ pc[r] \in {"check", "user"} => arg[r].kind = "refresh"
     /\ pc[r] = "issue" => arg[r].kind \in {"refresh", "login"}

\* A TTL that is on its way to Redis reaches into the last second of the token, and
\* so does a key that was ever stored: the clock only makes the SET later.
ReachInv ==
  /\ \A r \in Req : pc[r] = "store" => now + ttl[r] * TPS + TPS > issued[arg[r].token]
  /\ \A k \in revoked : issued[k] > 0 /\ black[k] + TPS > issued[k]

\* Nothing is left to revoke of the token.
Settled(k) == k \in revoked \/ LastSecond(k)

\* A handler that issues a new pair, or has answered, has settled the old token.
SettledInv ==
  \A r \in Req :
     /\ arg[r].kind = "refresh" /\ (pc[r] = "issue" \/ out[r] = 200) =>
          Settled(arg[r].token)
     /\ arg[r].kind = "logout" /\ out[r] = 204 /\ r \notin lost =>
          Settled(arg[r].token)

IInv == TypeOK /\ FlowInv /\ ReachInv /\ SettledInv

----------------------------------------------------------------------------
(* Arithmetic of seconds and ticks.                                        *)

\* Truncation to whole seconds loses less than a second.
LEMMA Truncation ==
  ASSUME NEW a \in Int
  PROVE  /\ a \div TPS \in Int
         /\ (a \div TPS) * TPS <= a
         /\ a < (a \div TPS) * TPS + TPS
  BY ConstantsAssumption

\* Seconds make a whole number of ticks.
LEMMA TicksType == ASSUME NEW n \in Nat PROVE n * TPS \in Nat
  BY ConstantsAssumption

\* The TTL of revoke_token, and how far it reaches.
LEMMA TtlFacts ==
  ASSUME TypeOK, NEW k \in Token
  PROVE  /\ Ttl(k) \in Int
         /\ now + Ttl(k) * TPS + TPS > issued[k]
         /\ ~(Ttl(k) > 0) => LastSecond(k)
  <1>1. now \in Nat /\ issued[k] \in Nat /\ TPS \in Nat
    BY ConstantsAssumption DEF TypeOK
  <1>2. /\ Ttl(k) \in Int
        /\ issued[k] - now < Ttl(k) * TPS + TPS
    BY <1>1, Truncation DEF Ttl
  <1>3. ~(Ttl(k) > 0) => Ttl(k) * TPS <= 0
    BY <1>1, <1>2, ConstantsAssumption
  <1> QED
    BY <1>1, <1>2, <1>3 DEF LastSecond

\* An exp claim is a natural number.
LEMMA ExpType == ASSUME TypeOK PROVE ExpOf(now) \in Nat
  <1>1. now \in Nat /\ Life * TPS \in Nat /\ TPS \in Nat
    BY ConstantsAssumption DEF TypeOK
  <1> DEFINE a == now + Life * TPS
  <1>2. a \in Nat
    BY <1>1
  <1> HIDE DEF a
  <1>3. a \div TPS \in Nat
    BY <1>2, ConstantsAssumption
  <1> QED
    BY <1>1, <1>3 DEF ExpOf, a

\* What ThenRevoke does to its request.
LEMMA ThenRevokeFacts ==
  ASSUME TypeOK, NEW r \in Req, NEW k \in Token, ThenRevoke(r, k)
  PROVE  /\ ttl' = [ttl EXCEPT ![r] = Ttl(k)]
         /\ \/ Ttl(k) > 0 /\ pc' = [pc EXCEPT ![r] = "store"] /\ out' = out
            \/ /\ LastSecond(k)
               /\ \/ arg[r].kind = "refresh" /\ pc' = [pc EXCEPT ![r] = "issue"] /\ out' = out
                  \/ /\ arg[r].kind # "refresh"
                     /\ pc' = [pc EXCEPT ![r] = "done"] /\ out' = [out EXCEPT ![r] = 204]
  BY TtlFacts DEF ThenRevoke, Goto, Answer

----------------------------------------------------------------------------
(* Type correctness.                                                       *)

\* The clock at zero, no token and idle handlers satisfy the invariant.
LEMMA InvInit == Init => IInv
  BY ConstantsAssumption
  DEF Init, IInv, TypeOK, FlowInv, ReachInv, SettledInv, Settled

\* A handler on its way to Redis has a positive TTL.
LEMMA TypeThenRevoke ==
  ASSUME TypeOK, NEW r \in Req, NEW k \in Token, ThenRevoke(r, k), pc[r] # "done",
         UNCHANGED <<now, issued, black, revoked, lost, arg>>
  PROVE  TypeOK'
  <1>1. Ttl(k) \in Int
    BY TtlFacts
  <1>2. ttl' = [ttl EXCEPT ![r] = Ttl(k)]
    BY DEF ThenRevoke
  <1>3. CASE Ttl(k) > 0 /\ pc' = [pc EXCEPT ![r] = "store"] /\ out' = out
    BY <1>1, <1>2, <1>3 DEF TypeOK
  <1>4. CASE pc' = [pc EXCEPT ![r] = "issue"] /\ out' = out
    BY <1>1, <1>2, <1>4 DEF TypeOK
  <1>5. CASE pc' = [pc EXCEPT ![r] = "done"] /\ out' = [out EXCEPT ![r] = 204]
    BY <1>1, <1>2, <1>5, ConstantsAssumption DEF TypeOK
  <1> QED
    BY <1>3, <1>4, <1>5, ThenRevokeFacts

\* Decode leaves the state well typed and the token in its place.
LEMMA TypeDecode == ASSUME TypeOK, FlowInv, NEW r \in Req, Decode(r) PROVE TypeOK'
  <1> DEFINE k == arg[r].token
  <1>1. k \in Token
    BY DEF Decode, FlowInv
  <1>2. CASE ThenRevoke(r, k)
    BY <1>1, <1>2, TypeThenRevoke DEF Decode
  <1>3. CASE UNCHANGED ttl /\ Answer(r, 401)
    BY <1>3, ConstantsAssumption DEF Decode, TypeOK, Answer, Goto
  <1>4. CASE UNCHANGED ttl /\ Answer(r, 204)
    BY <1>4, ConstantsAssumption DEF Decode, TypeOK, Answer, Goto
  <1>5. CASE UNCHANGED <<ttl, out>> /\ Goto(r, "check")
    BY <1>5, ConstantsAssumption DEF Decode, TypeOK, Goto
  <1> QED
    BY <1>2, <1>3, <1>4, <1>5 DEF Decode

\* Every step leaves the state well typed, and sends Redis only positive TTLs.
LEMMA TypeStep == TypeOK /\ FlowInv /\ [Next]_vars => TypeOK'
  <1> SUFFICES ASSUME TypeOK, FlowInv, [Next]_vars PROVE TypeOK'
    OBVIOUS
  <1>1. ASSUME NEW r \in Req, Login(r) PROVE TypeOK'
    <2>1. arg' \in [Req -> [kind : {"none", "login", "refresh", "logout"},
                            token : Token \cup {None}]]
      BY <1>1 DEF TypeOK, Login
    <2>2. CASE Goto(r, "issue") /\ UNCHANGED out
      BY <1>1, <2>1, <2>2, ConstantsAssumption DEF TypeOK, Login, Goto
    <2>3. CASE Answer(r, 401)
      BY <1>1, <2>1, <2>3, ConstantsAssumption DEF TypeOK, Login, Goto, Answer
    <2> QED
      BY <1>1, <2>2, <2>3 DEF Login
  <1>2. ASSUME NEW r \in Req, Refresh(r) \/ Logout(r) PROVE TypeOK'
    <2>1. PICK k \in Token, kind \in {"refresh", "logout"} : Receive(r, kind, k)
      BY <1>2 DEF Refresh, Logout
    <2>2. arg' \in [Req -> [kind : {"none", "login", "refresh", "logout"},
                            token : Token \cup {None}]]
      BY <2>1 DEF TypeOK, Receive
    <2> QED
      BY <2>1, <2>2, ConstantsAssumption DEF TypeOK, Receive, Goto
  <1>3. ASSUME NEW r \in Req, Decode(r) PROVE TypeOK'
    BY <1>3, TypeDecode
  <1>4. ASSUME NEW r \in Req, Check(r) PROVE TypeOK'
    BY <1>4, ConstantsAssumption DEF TypeOK, Check, Goto, Answer
  <1>5. ASSUME NEW r \in Req, User(r) PROVE TypeOK'
    <2>1. arg[r].token \in Token
      BY <1>5 DEF User, FlowInv
    <2> QED
      BY <1>5, <2>1, TypeThenRevoke DEF User
  <1>6. ASSUME NEW r \in Req, Store(r) PROVE TypeOK'
    <2>1. arg[r].token \in Token /\ ttl[r] \in Nat
      BY <1>6 DEF Store, FlowInv, TypeOK
    <2> DEFINE until == now + ttl[r] * TPS
    <2>2. until \in Nat
      BY <2>1, TicksType DEF TypeOK
    <2>3. black' = [black EXCEPT ![arg[r].token] = until]
      BY <1>6 DEF Store
    <2> HIDE DEF until
    <2>4. CASE arg[r].kind = "refresh"
      BY <1>6, <2>1, <2>2, <2>3, <2>4 DEF TypeOK, Store, Goto
    <2>5. CASE arg[r].kind # "refresh"
      BY <1>6, <2>1, <2>2, <2>3, <2>5, ConstantsAssumption DEF TypeOK, Store, Goto, Answer
    <2> QED
      BY <2>4, <2>5
  <1>7. ASSUME NEW r \in Req, Issue(r) PROVE TypeOK'
    BY <1>7, ExpType, ConstantsAssumption DEF TypeOK, Issue, Goto, Answer
  <1>8. ASSUME NEW r \in Req, RedisError(r) PROVE TypeOK'
    BY <1>8, ConstantsAssumption DEF TypeOK, RedisError, Goto, Answer
  <1>9. ASSUME NEW r \in Req, Fail(r) PROVE TypeOK'
    BY <1>9, ConstantsAssumption DEF TypeOK, Fail, InProgress, Goto, Answer
  <1>10. CASE Tick
    BY <1>10, ConstantsAssumption DEF TypeOK, Tick
  <1>11. CASE UNCHANGED vars
    BY <1>11 DEF TypeOK, vars
  <1> QED
    BY <1>1, <1>2, <1>3, <1>4, <1>5, <1>6, <1>7, <1>8, <1>9, <1>10, <1>11
    DEF Next, Step, Quiet

----------------------------------------------------------------------------
(* The invariant.                                                          *)

\* Every step leaves the handlers where they can be.
LEMMA FlowStep == TypeOK /\ FlowInv /\ [Next]_vars => FlowInv'
  <1> SUFFICES ASSUME TypeOK, FlowInv, [Next]_vars PROVE FlowInv'
    OBVIOUS
  <1>1. ASSUME NEW r \in Req, Login(r) PROVE FlowInv'
    BY <1>1 DEF FlowInv, TypeOK, Login, Goto, Answer
  <1>2. ASSUME NEW r \in Req, Refresh(r) \/ Logout(r) PROVE FlowInv'
    BY <1>2 DEF FlowInv, TypeOK, Refresh, Logout, Receive, Goto
  <1>3. ASSUME NEW r \in Req, Decode(r) PROVE FlowInv'
    BY <1>3 DEF FlowInv, TypeOK, Decode, ThenRevoke, Goto, Answer
  <1>4. ASSUME NEW r \in Req, Check(r) PROVE FlowInv'
    BY <1>4 DEF FlowInv, TypeOK, Check, Goto, Answer
  <1>5. ASSUME NEW r \in Req, User(r) PROVE FlowInv'
    BY <1>5 DEF FlowInv, TypeOK, User, ThenRevoke, Goto, Answer
  <1>6. ASSUME NEW r \in Req, Store(r) PROVE FlowInv'
    BY <1>6 DEF FlowInv, TypeOK, Store, Goto, Answer
  <1>7. ASSUME NEW r \in Req, Issue(r) PROVE FlowInv'
    BY <1>7 DEF FlowInv, TypeOK, Issue, Goto, Answer
  <1>8. ASSUME NEW r \in Req, RedisError(r) \/ Fail(r) PROVE FlowInv'
    BY <1>8 DEF FlowInv, TypeOK, RedisError, Fail, Goto, Answer
  <1>9. CASE Tick
    BY <1>9 DEF FlowInv, Tick
  <1>10. CASE UNCHANGED vars
    BY <1>10 DEF FlowInv, vars
  <1> QED
    BY <1>1, <1>2, <1>3, <1>4, <1>5, <1>6, <1>7, <1>8, <1>9, <1>10 DEF Next, Step, Quiet

\* A handler that goes on to Redis computes a TTL that reaches far enough; nothing
\* is stored yet.
LEMMA ReachThenRevoke ==
  ASSUME TypeOK, ReachInv, NEW r \in Req, arg[r].token \in Token,
         ThenRevoke(r, arg[r].token),
         UNCHANGED <<now, issued, black, revoked, lost, arg>>
  PROVE  ReachInv'
  <1>1. ttl' = [ttl EXCEPT ![r] = Ttl(arg[r].token)]
    BY DEF ThenRevoke
  <1>2. now + ttl'[r] * TPS + TPS > issued[arg[r].token]
    BY <1>1, TtlFacts DEF TypeOK
  <1>3. \A q \in Req \ {r} : pc'[q] = pc[q] /\ ttl'[q] = ttl[q]
    BY <1>1 DEF ThenRevoke, Goto, Answer, TypeOK
  <1> QED
    BY <1>2, <1>3 DEF ReachInv

\* Every step keeps the keys of revoked tokens alive until the last second.
LEMMA ReachStep == TypeOK /\ FlowInv /\ ReachInv /\ [Next]_vars => ReachInv'
  <1> SUFFICES ASSUME TypeOK, FlowInv, ReachInv, [Next]_vars PROVE ReachInv'
    OBVIOUS
  <1>1. ASSUME NEW r \in Req, Login(r) PROVE ReachInv'
    BY <1>1 DEF ReachInv, TypeOK, Login, Goto, Answer
  <1>2. ASSUME NEW r \in Req, Refresh(r) \/ Logout(r) PROVE ReachInv'
    BY <1>2 DEF ReachInv, TypeOK, Refresh, Logout, Receive, Goto
  <1>3. ASSUME NEW r \in Req, Decode(r) PROVE ReachInv'
    <2>1. CASE ThenRevoke(r, arg[r].token)
      BY <1>3, <2>1, ReachThenRevoke DEF Decode, FlowInv
    <2>2. CASE ~ThenRevoke(r, arg[r].token)
      <3>1. \A q \in Req : pc'[q] = "store" => pc[q] = "store"
        BY <1>3, <2>2 DEF Decode, Goto, Answer, TypeOK
      <3> QED
        BY <1>3, <2>2, <3>1 DEF Decode, ReachInv
    <2> QED
      BY <1>3, <2>1, <2>2 DEF Decode
  <1>4. ASSUME NEW r \in Req, Check(r) PROVE ReachInv'
    BY <1>4 DEF ReachInv, TypeOK, Check, Goto, Answer
  <1>5. ASSUME NEW r \in Req, User(r) PROVE ReachInv'
    BY <1>5, ReachThenRevoke DEF User, FlowInv
  <1>6. ASSUME NEW r \in Req, Store(r) PROVE ReachInv'
    <2> DEFINE k == arg[r].token
    <2>1. k \in Token /\ issued[k] > 0
      BY <1>6 DEF Store, FlowInv
    <2>2. /\ black' = [black EXCEPT ![k] = now + ttl[r] * TPS]
          /\ revoked' = revoked \cup {k}
          /\ UNCHANGED <<now, issued, arg, ttl>>
      BY <1>6 DEF Store
    <2>3. now + ttl[r] * TPS + TPS > issued[k]
      BY <1>6 DEF Store, ReachInv
    <2>4. black'[k] + TPS > issued[k]
      BY <2>1, <2>2, <2>3 DEF TypeOK
    <2>5. \A j \in revoked' : issued'[j] > 0 /\ black'[j] + TPS > issued'[j]
      BY <2>1, <2>2, <2>4 DEF ReachInv, TypeOK
    <2>6. \A q \in Req : pc'[q] = "store" => pc[q] = "store"
      BY <1>6 DEF Store, Goto, Answer, TypeOK
    <2> QED
      BY <2>2, <2>5, <2>6 DEF ReachInv
  <1>7. ASSUME NEW r \in Req, Issue(r) PROVE ReachInv'
    <2>1. \A k \in Token : issued[k] > 0 => issued'[k] = issued[k]
      BY <1>7 DEF Issue, TypeOK
    <2>2. \A q \in Req : pc'[q] = "store" => pc[q] = "store" /\ issued[arg[q].token] > 0
                                           /\ arg[q].token \in Token
      BY <1>7 DEF Issue, Answer, Goto, TypeOK, FlowInv
    <2> QED
      BY <1>7, <2>1, <2>2 DEF Issue, ReachInv, TypeOK
  <1>8. ASSUME NEW r \in Req, RedisError(r) \/ Fail(r) PROVE ReachInv'
    <2>1. \A q \in Req : pc'[q] = "store" => pc[q] = "store"
      BY <1>8 DEF TypeOK, RedisError, Fail, Goto, Answer
    <2>2. UNCHANGED <<now, issued, black, revoked, arg, ttl>>
      BY <1>8 DEF RedisError, Fail
    <2> QED
      BY <2>1, <2>2 DEF ReachInv
  <1>9. CASE Tick
    <2>1. \A q \in Req : pc[q] = "store" => now + 1 + ttl[q] * TPS + TPS > issued[arg[q].token]
      <3> SUFFICES ASSUME NEW q \in Req, pc[q] = "store"
                   PROVE  now + 1 + ttl[q] * TPS + TPS > issued[arg[q].token]
        OBVIOUS
      <3>1. ttl[q] * TPS \in Nat /\ TPS \in Nat /\ now \in Nat
        BY TicksType, ConstantsAssumption DEF TypeOK
      <3>2. issued[arg[q].token] \in Nat
        BY DEF FlowInv, TypeOK
      <3> QED
        BY <3>1, <3>2 DEF ReachInv
    <2> QED
      BY <1>9, <2>1 DEF ReachInv, Tick
  <1>10. CASE UNCHANGED vars
    BY <1>10 DEF ReachInv, vars
  <1> QED
    BY <1>1, <1>2, <1>3, <1>4, <1>5, <1>6, <1>7, <1>8, <1>9, <1>10 DEF Next, Step, Quiet

\* A token that is settled stays so: it is not issued again and the clock goes on.
LEMMA SettledStays ==
  ASSUME TypeOK, [Next]_vars, NEW k \in Token, issued[k] > 0, Settled(k)
  PROVE  Settled(k)'
  <1>1. now' \in Nat /\ now \in Nat /\ now' >= now
    BY DEF Next, Step, Login, Refresh, Logout, Receive, Decode, Check, User, Store, Issue,
           RedisError, Fail, Tick, Quiet, vars, TypeOK
  <1>2. revoked \subseteq revoked'
    BY DEF Next, Step, Login, Refresh, Logout, Receive, Decode, Check, User, Store, Issue,
           RedisError, Fail, Tick, Quiet, vars
  <1>3. issued'[k] = issued[k] /\ issued[k] \in Nat
    <2>1. CASE \E r \in Req : Issue(r)
      BY <2>1 DEF Issue, TypeOK
    <2>2. CASE UNCHANGED issued
      BY <2>2 DEF TypeOK
    <2> QED
      BY <2>1, <2>2 DEF Next, Step, Login, Refresh, Logout, Receive, Decode, Check, User, Store,
           RedisError, Fail, Tick, Quiet, vars
  <1> QED
    BY <1>1, <1>2, <1>3, ConstantsAssumption DEF Settled, LastSecond

\* The requests that have to have settled their token.
Closing(r) ==
  \/ arg[r].kind = "refresh" /\ (pc[r] = "issue" \/ out[r] = 200)
  \/ arg[r].kind = "logout" /\ out[r] = 204 /\ r \notin lost

\* A handler that comes to its end in a step has settled its token in it.
LEMMA ClosingStep ==
  ASSUME TypeOK, FlowInv, SettledInv, [Next]_vars, NEW r \in Req, ~Closing(r), Closing(r)'
  PROVE  arg'[r] = arg[r] /\ Settled(arg[r].token)'
  <1>1. ASSUME NEW q \in Req, Login(q) PROVE FALSE
    BY <1>1, ConstantsAssumption DEF Closing, Login, Goto, Answer, TypeOK
  <1>2. ASSUME NEW q \in Req, Refresh(q) \/ Logout(q) PROVE FALSE
    BY <1>2, ConstantsAssumption DEF Closing, Refresh, Logout, Receive, Goto, TypeOK
  <1>3. ASSUME NEW q \in Req, Decode(q)
        PROVE  arg'[r] = arg[r] /\ Settled(arg[r].token)'
    <2>0. arg' = arg /\ lost' = lost /\ pc[q] = "decode"
      BY <1>3 DEF Decode
    <2>1. q = r
      <3> SUFFICES ASSUME q # r PROVE FALSE
        OBVIOUS
      <3>1. pc'[r] = pc[r] /\ out'[r] = out[r]
        BY <1>3 DEF Decode, ThenRevoke, Goto, Answer, TypeOK
      <3> QED
        BY <2>0, <3>1 DEF Closing
    <2>2. arg[r].token \in Token /\ UNCHANGED <<now, issued>>
      BY <1>3, <2>1 DEF FlowInv, Decode
    <2>3. CASE ThenRevoke(r, arg[r].token)
      <3>1. LastSecond(arg[r].token)
        BY <2>0, <2>1, <2>2, <2>3, ThenRevokeFacts, ConstantsAssumption DEF Closing, TypeOK
      <3> QED
        BY <2>0, <2>2, <3>1 DEF Settled, LastSecond
    <2>4. CASE ~Unexpired(arg[r].token)
      BY <2>0, <2>2, <2>4, ConstantsAssumption DEF Unexpired, Settled, LastSecond, TypeOK
    <2>5. CASE Goto(r, "check") /\ UNCHANGED out
      BY <2>0, <2>1, <2>5, ConstantsAssumption DEF Closing, Goto, TypeOK
    <2> QED
      BY <1>3, <2>1, <2>3, <2>4, <2>5 DEF Decode
  <1>4. ASSUME NEW q \in Req, Check(q) PROVE FALSE
    BY <1>4, ConstantsAssumption DEF Closing, Check, Goto, Answer, TypeOK
  <1>5. ASSUME NEW q \in Req, User(q)
        PROVE  arg'[r] = arg[r] /\ Settled(arg[r].token)'
    <2>1. q = r /\ arg' = arg /\ arg[r].token \in Token /\ UNCHANGED <<now, issued>>
      BY <1>5, ConstantsAssumption
      DEF Closing, User, ThenRevoke, Goto, Answer, TypeOK, FlowInv
    <2> QED
      BY <1>5, <2>1, ThenRevokeFacts, ConstantsAssumption
      DEF User, Closing, Settled, LastSecond, TypeOK
  <1>6. ASSUME NEW q \in Req, Store(q)
        PROVE  arg'[r] = arg[r] /\ Settled(arg[r].token)'
    BY <1>6, ConstantsAssumption DEF Closing, Store, Goto, Answer, TypeOK, Settled
  <1>7. ASSUME NEW q \in Req, Issue(q) PROVE FALSE
    BY <1>7, ConstantsAssumption DEF Closing, Issue, Goto, Answer, TypeOK
  <1>8. ASSUME NEW q \in Req, RedisError(q) \/ Fail(q) PROVE FALSE
    BY <1>8, ConstantsAssumption DEF Closing, RedisError, Fail, Goto, Answer, TypeOK
  <1>9. CASE Tick
    BY <1>9 DEF Closing, Tick
  <1>10. CASE UNCHANGED vars
    BY <1>10 DEF Closing, vars
  <1> QED
    BY <1>1, <1>2, <1>3, <1>4, <1>5, <1>6, <1>7, <1>8, <1>9, <1>10 DEF Next, Step, Quiet

\* A handler that has come to its end keeps its arguments.
LEMMA ClosingStays ==
  ASSUME TypeOK, [Next]_vars, NEW r \in Req, Closing(r)
  PROVE  arg'[r] = arg[r]
  <1>1. pc[r] # "idle"
    BY ConstantsAssumption DEF Closing, TypeOK
  <1> QED
    BY <1>1 DEF Next, Step, Login, Refresh, Logout, Receive, Decode, Check, User, Store, Issue,
           RedisError, Fail, Tick, Quiet, vars, TypeOK

\* Every step keeps the answers honest.
LEMMA SettledStep == IInv /\ [Next]_vars => SettledInv'
  <1> SUFFICES ASSUME IInv, [Next]_vars, NEW r \in Req, Closing(r)'
               PROVE  Settled(arg[r].token)' /\ arg'[r] = arg[r]
    BY DEF SettledInv, Closing
  <1>0. TypeOK /\ FlowInv /\ SettledInv
    BY DEF IInv
  <1>1. CASE Closing(r)
    <2>1. Settled(arg[r].token) /\ arg[r].token \in Token /\ issued[arg[r].token] > 0
      BY <1>0, <1>1 DEF SettledInv, Closing, FlowInv
    <2> QED
      BY <1>0, <1>1, <2>1, SettledStays, ClosingStays DEF Settled, LastSecond
  <1>2. CASE ~Closing(r)
    BY <1>0, <1>2, ClosingStep
  <1> QED
    BY <1>1, <1>2

\* The invariant holds in every reachable state (refresh_tokens, logout,
\* revoke_token).
THEOREM Invariance == Spec => []IInv
  <1>1. IInv /\ [Next]_vars => IInv'
    BY TypeStep, FlowStep, ReachStep, SettledStep DEF IInv
  <1> QED
    BY <1>1, InvInit, PTL DEF Spec

\* The variables of the token service always have their types, and Redis is never
\* sent a TTL that is not positive (revoke_token).
THEOREM TypeCorrect == Spec => []TypeOK
  BY Invariance, PTL DEF IInv

\* A token that was exchanged, logged out or blacklisted is refused until the last
\* second of its life, for any number of concurrent requests, however long a SET
\* takes to reach Redis (refresh_tokens, logout, revoke_token).
THEOREM RevocationHolds == Spec => []RevokedUntilLastSecond
  <1>1. IInv => RevokedUntilLastSecond
    <2> SUFFICES ASSUME IInv, NEW k \in Spent PROVE LastSecond(k) \/ Blacklisted(k)
      BY DEF RevokedUntilLastSecond
    <2>1. k \in Token /\ Settled(k)
      BY DEF Spent, IInv, SettledInv, Settled, FlowInv, TypeOK
    <2> QED
      BY <2>1, ConstantsAssumption
      DEF IInv, ReachInv, Settled, LastSecond, Blacklisted, TypeOK
  <1> QED
    BY <1>1, Invariance, PTL

=============================================================================
