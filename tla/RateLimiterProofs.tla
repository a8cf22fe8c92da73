------------------------- MODULE RateLimiterProofs -------------------------
(***************************************************************************)
(* Theorems about RateLimiter, for any number of requests, any limit,      *)
(* window and delay.                                                       *)
(***************************************************************************)
EXTENDS RateLimiter, FiniteSetTheorems, TLAPS

----------------------------------------------------------------------------
(* The inductive invariant.                                                *)

\* A transaction runs at most MaxDelay after its clock reading.
DelayInv ==
  \A r \in Req :
     /\ pc[r] = "sent" => ts[r] <= now /\ now <= ts[r] + MaxDelay
     /\ r \in applied => /\ ran[r] <= ts[r] + MaxDelay
                         /\ ts[r] <= ran[r] /\ ran[r] <= now

\* Whoever ran recently is still in the set, and the key has not expired.
RememberInv ==
  \A r \in applied :
     /\ expiry >= ran[r] + Window
     /\ now - ran[r] < Window - MaxDelay => r \in zset

IInv == TypeOK /\ DelayInv /\ RememberInv

\* The state before the first request satisfies the invariant.
LEMMA InvInit == Init => IInv
  BY ConstantsAssumption DEF Init, IInv, TypeOK, DelayInv, RememberInv

\* A step that runs the transaction of r, whether its reply arrives or is lost.
Applies(r) == Exec(r) /\ (Answer(r, Verdict(Cardinality(Counted(r)))) \/ Answer(r, 500))

\* A step of r that fails before the transaction.
Unreached(r) == Answer(r, 500) /\ UNCHANGED <<zset, expiry, applied, ran>>

\* The steps of the limiter.
LEMMA StepCases ==
  ASSUME [Next]_vars
  PROVE  \/ \E r \in Req : Arrive(r) \/ Applies(r) \/ Unreached(r)
         \/ Tick \/ UNCHANGED vars
  BY DEF Next, Transaction, RedisError, Quiet, Applies, Unreached

\* A transaction counts itself and requests that ran before, a finite number.
LEMMA CountedFacts ==
  ASSUME TypeOK, NEW r \in Req
  PROVE  /\ Counted(r) \subseteq Req
         /\ r \in Counted(r)
         /\ IsFiniteSet(Counted(r))
         /\ Cardinality(Counted(r)) \in Nat
         /\ \A q \in Counted(r) \ {r} : q \in applied /\ ts[q] > ts[r] - Window
  <1>1. Counted(r) \subseteq Req /\ r \in Counted(r)
    BY DEF Counted, Held, TypeOK
  <1>2. IsFiniteSet(Counted(r))
    BY <1>1, FS_Subset, ConstantsAssumption
  <1>3. \A q \in Counted(r) \ {r} : q \in applied /\ ts[q] > ts[r] - Window
    BY DEF Counted, Held, TypeOK, InWindow
  <1> QED
    BY <1>1, <1>2, <1>3, FS_CardinalityType

\* The verdict of a transaction is 200 within the limit and 429 above it.
LEMMA VerdictFacts ==
  ASSUME NEW n \in Nat
  PROVE  /\ Verdict(n) \in {200, 429}
         /\ Verdict(n) = 200 => n <= Limit
         /\ Verdict(n) = 429 => n > Limit
  BY ConstantsAssumption DEF Verdict

\* Every step leaves the state well typed.
LEMMA TypeStep == TypeOK /\ [Next]_vars => TypeOK'
  <1> SUFFICES ASSUME TypeOK, [Next]_vars PROVE TypeOK'
    OBVIOUS
  <1>1. ASSUME NEW r \in Req, Arrive(r) PROVE TypeOK'
    BY <1>1 DEF TypeOK, Arrive
  <1>2. ASSUME NEW r \in Req, Applies(r) PROVE TypeOK'
    <2>1. PICK code \in {200, 429, 500} : out' = [out EXCEPT ![r] = code]
      BY <1>2, CountedFacts, VerdictFacts DEF Applies, Answer
    <2>2. /\ zset' = Counted(r) /\ expiry' = now + Window /\ applied' = applied \cup {r}
          /\ ran' = [ran EXCEPT ![r] = now] /\ pc' = [pc EXCEPT ![r] = "done"]
          /\ UNCHANGED <<now, ts>>
      BY <1>2 DEF Applies, Exec, Answer
    <2>3. Counted(r) \subseteq Req /\ Counted(r) \subseteq applied \cup {r}
      BY CountedFacts
    <2>4. /\ zset' \cup {q \in Req : out'[q] \in {200, 429}} \subseteq applied'
          /\ \A q \in Req : out'[q] # None <=> pc'[q] = "done"
      BY <2>1, <2>2, <2>3, ConstantsAssumption DEF TypeOK
    <2> QED
      BY <2>1, <2>2, <2>3, <2>4, ConstantsAssumption DEF TypeOK
  <1>3. ASSUME NEW r \in Req, Unreached(r) PROVE TypeOK'
    BY <1>3, ConstantsAssumption DEF TypeOK, Unreached, Answer
  <1>4. CASE Tick
    BY <1>4 DEF TypeOK, Tick
  <1>5. CASE UNCHANGED vars
    BY <1>5 DEF TypeOK, vars
  <1> QED
    BY <1>1, <1>2, <1>3, <1>4, <1>5, StepCases

\* Every step keeps the delay between clock reading and transaction bounded.
LEMMA DelayStep == TypeOK /\ DelayInv /\ [Next]_vars => DelayInv'
  <1> SUFFICES ASSUME TypeOK, DelayInv, [Next]_vars PROVE DelayInv'
    OBVIOUS
  <1>1. ASSUME NEW r \in Req, Arrive(r) PROVE DelayInv'
    BY <1>1, ConstantsAssumption DEF TypeOK, DelayInv, Arrive
  <1>2. ASSUME NEW r \in Req, Applies(r) PROVE DelayInv'
    BY <1>2, ConstantsAssumption DEF TypeOK, DelayInv, Applies, Exec, Answer
  <1>3. ASSUME NEW r \in Req, Unreached(r) PROVE DelayInv'
    BY <1>3, ConstantsAssumption DEF TypeOK, DelayInv, Unreached, Answer
  <1>4. CASE Tick
    BY <1>4, ConstantsAssumption DEF TypeOK, DelayInv, Tick
  <1>5. CASE UNCHANGED vars
    BY <1>5 DEF DelayInv, vars
  <1> QED
    BY <1>1, <1>2, <1>3, <1>4, <1>5, StepCases

\* A transaction drops nobody who ran less than Window - MaxDelay ago.
LEMMA KeepsRecent ==
  ASSUME TypeOK, DelayInv, RememberInv, NEW r \in Req, Applies(r),
         NEW q \in applied, now - ran[q] < Window - MaxDelay
  PROVE  q \in Counted(r)
  <1>1. q \in zset /\ now < expiry
    BY ConstantsAssumption DEF RememberInv, TypeOK
  <1>2. ts[q] > ts[r] - Window
    BY ConstantsAssumption DEF DelayInv, TypeOK, Applies, Answer
  <1> QED
    BY <1>1, <1>2 DEF Counted, Held, InWindow

\* Every step keeps those who ran recently in the set.
LEMMA RememberStep ==
  TypeOK /\ DelayInv /\ RememberInv /\ [Next]_vars => RememberInv'
  <1> SUFFICES ASSUME TypeOK, DelayInv, RememberInv, [Next]_vars PROVE RememberInv'
    OBVIOUS
  <1>1. ASSUME NEW r \in Req, Arrive(r) PROVE RememberInv'
    BY <1>1 DEF RememberInv, Arrive
  <1>2. ASSUME NEW r \in Req, Applies(r) PROVE RememberInv'
    <2> SUFFICES ASSUME NEW q \in applied'
                 PROVE  /\ expiry' >= ran'[q] + Window
                        /\ now' - ran'[q] < Window - MaxDelay => q \in zset'
      BY DEF RememberInv
    <2>0. /\ zset' = Counted(r) /\ expiry' = now + Window /\ applied' = applied \cup {r}
          /\ ran' = [ran EXCEPT ![r] = now] /\ now' = now
      BY <1>2 DEF Applies, Exec, Answer
    <2>1. CASE q = r
      BY <2>0, <2>1, CountedFacts, ConstantsAssumption DEF TypeOK
    <2>2. CASE q # r
      <3>1. q \in applied /\ q \in Req /\ ran'[q] = ran[q]
        BY <2>0, <2>2 DEF TypeOK
      <3>2. now - ran[q] < Window - MaxDelay => q \in Counted(r)
        BY <1>2, <3>1, KeepsRecent
      <3>3. ran[q] <= now
        BY <3>1 DEF DelayInv
      <3> QED
        BY <2>0, <3>1, <3>2, <3>3, ConstantsAssumption DEF TypeOK
    <2> QED
      BY <2>1, <2>2
  <1>3. ASSUME NEW r \in Req, Unreached(r) PROVE RememberInv'
    BY <1>3 DEF RememberInv, Unreached, Answer
  <1>4. CASE Tick
    BY <1>4, ConstantsAssumption DEF RememberInv, Tick, TypeOK
  <1>5. CASE UNCHANGED vars
    BY <1>5 DEF RememberInv, vars
  <1> QED
    BY <1>1, <1>2, <1>3, <1>4, <1>5, StepCases

\* The invariant holds throughout.
THEOREM Invariance == Spec => []IInv
  <1>1. IInv /\ [Next]_vars => IInv'
    BY TypeStep, DelayStep, RememberStep DEF IInv
  <1> QED
    BY InvInit, <1>1, PTL DEF Spec

\* The limiter's variables always have their types, every request that ended was
\* answered, and the key holds only requests whose transaction ran
\* (RateLimiter.__call__).
THEOREM TypeCorrect == Spec => []TypeOK
  BY Invariance, PTL DEF IInv

----------------------------------------------------------------------------
(* The limit.                                                              *)

\* A step that runs no transaction gives no verdict and moves nobody in time.
LEMMA OnlyTransactions ==
  ASSUME TypeOK, [Next]_vars, ~\E r \in Req : Applies(r)
  PROVE  /\ \A q \in Req : out'[q] \in {200, 429} => out[q] = out'[q]
         /\ applied' = applied /\ ran' = ran /\ \A q \in applied : ts'[q] = ts[q]
  <1>1. ASSUME NEW r \in Req, Arrive(r)
        PROVE  UNCHANGED <<out, applied, ran>> /\ \A q \in applied : ts'[q] = ts[q]
    BY <1>1 DEF Arrive, TypeOK
  <1>2. ASSUME NEW r \in Req, Unreached(r)
        PROVE  /\ UNCHANGED <<applied, ran, ts>>
               /\ \A q \in Req : out'[q] \in {200, 429} => out[q] = out'[q]
    BY <1>2 DEF Unreached, Answer, TypeOK
  <1>3. CASE Tick \/ UNCHANGED vars
    BY <1>3 DEF Tick, vars
  <1> QED
    BY <1>1, <1>2, <1>3, StepCases

\* No step lets more than Limit through in a stretch of the given length.
LEMMA ThrottledStep == IInv /\ Throttled /\ [Next]_vars => Throttled'
  <1> SUFFICES ASSUME IInv, Throttled, [Next]_vars,
                      NEW S \in SUBSET Admitted',
                      \A p, q \in S : ran'[p] - ran'[q] < Window - MaxDelay
               PROVE  Cardinality(S) <= Limit
    BY DEF Throttled
  <1> USE DEF IInv
  <1>1. CASE ~\E r \in Req : Applies(r)
    <2>1. S \subseteq Admitted /\ \A p \in S : ran'[p] = ran[p]
      BY <1>1, OnlyTransactions DEF Admitted
    <2> QED
      BY <2>1 DEF Throttled
  <1>2. ASSUME NEW r \in Req, Applies(r) PROVE Cardinality(S) <= Limit
    <2>1. \A q \in Req \ {r} : out'[q] = out[q] /\ ran'[q] = ran[q]
      BY <1>2 DEF Applies, Exec, Answer, TypeOK
    <2>2. CASE r \notin S
      <3>1. S \subseteq Admitted /\ \A p \in S : ran'[p] = ran[p]
        BY <2>1, <2>2 DEF Admitted
      <3> QED
        BY <3>1 DEF Throttled
    <2>3. CASE r \in S
      <3>1. ran'[r] = now /\ out'[r] \in {Verdict(Cardinality(Counted(r))), 500}
        BY <1>2 DEF Applies, Exec, Answer, TypeOK
      <3>2. Cardinality(Counted(r)) <= Limit
        BY <2>3, <3>1, CountedFacts, VerdictFacts DEF Admitted
      <3>3. \A q \in S \ {r} : q \in applied /\ now - ran[q] < Window - MaxDelay
        BY <2>1, <2>3, <3>1 DEF Admitted, TypeOK
      <3>4. S \subseteq Counted(r)
        BY <1>2, <3>3, KeepsRecent, CountedFacts
      <3>5. IsFiniteSet(S) /\ Cardinality(S) <= Cardinality(Counted(r))
        BY <3>4, CountedFacts, FS_Subset
      <3> QED
        BY <3>2, <3>5, CountedFacts, FS_CardinalityType, ConstantsAssumption
    <2> QED
      BY <2>2, <2>3
  <1> QED
    BY <1>1, <1>2

\* However the transactions are delayed and reordered, no more than Limit requests
\* pass in any stretch of Window - MaxDelay.
THEOREM NeverOverLimit == Spec => []Throttled
  <1>1. Init => Throttled
    <2> SUFFICES ASSUME Init, NEW S \in SUBSET Admitted PROVE Cardinality(S) <= Limit
      BY DEF Throttled
    <2>1. S = {}
      BY ConstantsAssumption DEF Init, Admitted
    <2> QED
      BY <2>1, FS_EmptySet, ConstantsAssumption
  <1> QED
    BY <1>1, Invariance, ThrottledStep, PTL DEF Spec

----------------------------------------------------------------------------
(* Refusals.                                                               *)

\* The requests that account for a refusal.
Cause(r) == {q \in applied \ {r} : ran[q] <= ran[r] /\ ts[q] > ts[r] - Window}

\* What accounted for a refusal still does after every step, and a new refusal has
\* its cause in what the transaction counted.
LEMMA CauseStep == IInv /\ RefusedForCause /\ [Next]_vars => RefusedForCause'
  <1> SUFFICES ASSUME IInv, RefusedForCause, [Next]_vars,
                      NEW r \in Req, out'[r] = 429
               PROVE  Limit <= Cardinality(Cause(r)')
    BY DEF RefusedForCause, Cause
  <1> USE DEF IInv
  <1>1. Cause(r)' \subseteq Req /\ IsFiniteSet(Cause(r)')
    <2>1. applied' \subseteq Req
      BY TypeStep DEF TypeOK
    <2> QED
      BY <2>1, FS_Subset, ConstantsAssumption DEF Cause
  <1>2. ASSUME out[r] = 429, Cause(r) \subseteq Cause(r)'
        PROVE  Limit <= Cardinality(Cause(r)')
    <2>1. Limit <= Cardinality(Cause(r))
      BY <1>2 DEF RefusedForCause, Cause
    <2>2. IsFiniteSet(Cause(r)) /\ Cardinality(Cause(r)) <= Cardinality(Cause(r)')
      BY <1>1, <1>2, FS_Subset
    <2> QED
      BY <1>1, <2>1, <2>2, FS_CardinalityType, ConstantsAssumption
  <1>3. CASE ~\E x \in Req : Applies(x)
    <2>1. /\ out[r] = 429 /\ applied' = applied /\ ran' = ran
          /\ \A q \in applied : ts'[q] = ts[q]
      BY <1>3, OnlyTransactions
    <2>2. r \in applied
      BY <2>1 DEF TypeOK
    <2>3. Cause(r) \subseteq Cause(r)'
      BY <2>1, <2>2 DEF Cause
    <2> QED
      BY <1>2, <2>1, <2>3
  <1>4. ASSUME NEW x \in Req, Applies(x), x # r
        PROVE  Limit <= Cardinality(Cause(r)')
    <2>1. /\ out[r] = 429 /\ ts' = ts /\ applied' = applied \cup {x}
          /\ \A q \in Req \ {x} : ran'[q] = ran[q]
      BY <1>4 DEF Applies, Exec, Answer, TypeOK
    <2>2. x \notin applied /\ applied \subseteq Req
      BY <1>4 DEF Applies, Answer, TypeOK
    <2>3. Cause(r) \subseteq Cause(r)'
      BY <1>4, <2>1, <2>2 DEF Cause
    <2> QED
      BY <1>2, <2>1, <2>3
  <1>5. ASSUME Applies(r) PROVE Limit <= Cardinality(Cause(r)')
    <2>1. /\ ran' = [ran EXCEPT ![r] = now] /\ ts' = ts /\ applied' = applied \cup {r}
          /\ out'[r] \in {Verdict(Cardinality(Counted(r))), 500}
      BY <1>5 DEF Applies, Exec, Answer, TypeOK
    <2>2. Counted(r) \ {r} \subseteq Cause(r)'
      <3> SUFFICES ASSUME NEW q \in Counted(r) \ {r} PROVE q \in Cause(r)'
        OBVIOUS
      <3>1. q \in Req /\ q \in applied /\ ts[q] > ts[r] - Window
        BY CountedFacts
      <3>2. ran[q] <= now /\ ran'[q] = ran[q] /\ ran'[r] = now
        BY <2>1, <3>1 DEF DelayInv, TypeOK
      <3> QED
        BY <2>1, <3>1, <3>2 DEF Cause
    <2>3. Cardinality(Counted(r)) > Limit
      BY <2>1, CountedFacts, VerdictFacts
    <2>4. /\ IsFiniteSet(Counted(r) \ {r})
          /\ Cardinality(Counted(r) \ {r}) = Cardinality(Counted(r)) - 1
      BY CountedFacts, FS_RemoveElement
    <2>5. Cardinality(Counted(r) \ {r}) <= Cardinality(Cause(r)')
      BY <1>1, <2>2, FS_Subset
    <2> QED
      BY <1>1, <2>3, <2>4, <2>5, CountedFacts, FS_CardinalityType, ConstantsAssumption
  <1> QED
    BY <1>3, <1>4, <1>5

\* A 429 always has Limit other requests of the same window to account for it.
THEOREM NeverRefusedWithoutCause == Spec => []RefusedForCause
  <1>1. Init => RefusedForCause
    BY ConstantsAssumption DEF Init, RefusedForCause
  <1> QED
    BY <1>1, Invariance, CauseStep, PTL DEF Spec
=============================================================================
