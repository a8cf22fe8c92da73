---------------------------- MODULE RateLimiter ----------------------------
(***************************************************************************)
(* The sliding-window limiter in front of /auth/login and /auth/register,  *)
(* for one key (client address and path).  A request reads the clock, then *)
(* sends one Redis transaction that drops what has left its window, adds   *)
(* itself, counts, and renews the key's expiry.  Between the two it        *)
(* awaits, so transactions need not reach Redis in the order of their      *)
(* timestamps.  A refused request has been added all the same.             *)
(***************************************************************************)
EXTENDS Integers, FiniteSets

CONSTANTS Req,       \* requests with the same key, each used once
          Limit,     \* requests_per_window
          Window,    \* window_seconds, in ticks
          MaxDelay,  \* the longest time from the clock reading to Redis, in ticks
          MaxNow,    \* the clock stops here (a bound of the model)
          None

ASSUME ConstantsAssumption ==
  /\ IsFiniteSet(Req) /\ None \notin Req
  /\ Limit \in Nat \ {0} /\ Window \in Nat \ {0}
  /\ MaxDelay \in Nat /\ MaxNow \in Nat
  /\ None \notin {200, 429, 500}

VARIABLES
  now,     \* the clock, in ticks
  zset,    \* the members of the sorted set; a member's score is its timestamp
  expiry,  \* the tick at which Redis deletes the key
  pc,      \* idle, sent or done
  ts,      \* current_ts of each request
  applied, \* history: the requests whose transaction ran
  ran,     \* history: the tick at which it did
  out      \* 429, 500, or 200 for a request that goes on to the endpoint

vars == <<now, zset, expiry, pc, ts, applied, ran, out>>

Init ==
  /\ now = 0
  /\ zset = {}
  /\ expiry = 0
  /\ pc = [r \in Req |-> "idle"]
  /\ ts = [r \in Req |-> 0]
  /\ applied = {}
  /\ ran = [r \in Req |-> 0]
  /\ out = [r \in Req |-> None]

\* The request reads the clock and sends its transaction.
Arrive(r) ==
  /\ pc[r] = "idle"
  /\ ts' = [ts EXCEPT ![r] = now]
  /\ pc' = [pc EXCEPT ![r] = "sent"]
  /\ UNCHANGED <<now, zset, expiry, applied, ran, out>>

\* What the key holds: nothing once it has expired.
Held == IF now < expiry THEN zset ELSE {}

InWindowLoose(q, r) == ts[q] >= ts[r] - Window

\* zremrangebyscore(key, 0, current_ts - window) keeps what is strictly younger.
InWindow(q, r) == ts[q] > ts[r] - Window

Counted(r) == {q \in Held : InWindow(q, r)} \cup {r}

VerdictOneOver(n) == IF n > Limit + 1 THEN 429 ELSE 200

\* request_count > limit
Verdict(n) == IF n > Limit THEN 429 ELSE 200

\* The pipeline runs as one Redis transaction.
Exec(r) ==
  /\ zset' = Counted(r)
  /\ expiry' = now + Window
  /\ applied' = applied \cup {r}
  /\ ran' = [ran EXCEPT ![r] = now]

Answer(r, code) ==
  /\ pc[r] = "sent"
  /\ out' = [out EXCEPT ![r] = code]
  /\ pc' = [pc EXCEPT ![r] = "done"]
  /\ UNCHANGED <<now, ts>>

\* The transaction's count decides.
Transaction(r) ==
  /\ Exec(r)
  /\ Answer(r, Verdict(Cardinality(Counted(r))))

\* Redis fails before the transaction has run or after it, with the reply lost:
\* nothing catches the error, the request ends with 500.
RedisError(r) ==
  /\ Exec(r) \/ UNCHANGED <<zset, expiry, applied, ran>>
  /\ Answer(r, 500)

\* Time passes, but no transaction is on its way for longer than MaxDelay.
Tick ==
  /\ now < MaxNow
  /\ \A r \in Req : pc[r] = "sent" => now < ts[r] + MaxDelay
  /\ now' = now + 1
  /\ UNCHANGED <<zset, expiry, pc, ts, applied, ran, out>>

\* No request on its way.
Quiet ==
  /\ \A r \in Req : pc[r] # "sent"
  /\ UNCHANGED vars

Next ==
  \/ \E r \in Req : Arrive(r) \/ Transaction(r) \/ RedisError(r)
  \/ Tick
  \/ Quiet

Spec == Init /\ [][Next]_vars

----------------------------------------------------------------------------
(* Properties.                                                             *)

Admitted == {r \in Req : out[r] = 200}

\* Every variable has its type, every request that ended was answered, and the key
\* holds only requests whose transaction ran, as did that of every verdict.
TypeOK ==
  /\ now \in Nat
  /\ zset \subseteq Req
  /\ expiry \in Nat
  /\ pc \in [Req -> {"idle", "sent", "done"}]
  /\ ts \in [Req -> Nat]
  /\ ran \in [Req -> Nat]
  /\ out \in [Req -> {None, 200, 429, 500}]
  /\ applied \subseteq {r \in Req : pc[r] = "done"}
  /\ \A r \in Req : out[r] # None <=> pc[r] = "done"
  /\ zset \cup {r \in Req : out[r] \in {200, 429}} \subseteq applied

\* No more than Limit requests pass within any stretch of time that is shorter
\* than the window by the delay of a transaction, in whatever order the
\* transactions reach Redis (RateLimiter.__call__).
Throttled ==
  \A S \in SUBSET Admitted :
     (\A p, q \in S : ran[p] - ran[q] < Window - MaxDelay) => Cardinality(S) <= Limit

\* Nobody is refused without cause: a 429 means that Limit other requests, which
\* had reached Redis by then, were stamped within the window before this one.  So
\* a client alone on its key that waits for Retry-After is let in.
RefusedForCause ==
  \A r \in Req : out[r] = 429 =>
     Limit <= Cardinality({q \in applied \ {r} : /\ ran[q] <= ran[r]
                                                 /\ ts[q] > ts[r] - Window})
=============================================================================
