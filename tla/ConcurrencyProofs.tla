--------------------------- MODULE ConcurrencyProofs ---------------------------
(****************************************************************************)
(* Theorems about ConcurrencyLimiter, for any number of workers and         *)
(* requests and any limit.                                                  *)
(****************************************************************************)
EXTENDS ConcurrencyLimiter, FiniteSetTheorems, TLAPS

------------------------------------------------------------------------------
(* Type correctness.                                                        *)

LEMMA TypeStep == TypeOK /\ [Next]_vars => TypeOK'
  <1> SUFFICES ASSUME TypeOK, [Next]_vars PROVE TypeOK'
    OBVIOUS
  <1> USE DEF Goto, CallNext, Bypass, Leave, Place, InWorker, Entering, Leaving,
              Suspended, Ended, After
  <1>1. ASSUME NEW w \in Workers, NEW r \in Requests, Arrive(w, r) PROVE TypeOK'
    BY <1>1 DEF Arrive, TypeOK
  <1>2. ASSUME NEW r \in Requests, CheckConcurrent(r) PROVE TypeOK'
    BY <1>2 DEF CheckConcurrent, TypeOK
  <1>3. ASSUME NEW r \in Requests, Increment(r) PROVE TypeOK'
    BY <1>3 DEF Increment, TypeOK
  <1>4. ASSUME NEW r \in Requests, SetExpiration(r) PROVE TypeOK'
    BY <1>4 DEF SetExpiration, TypeOK
  <1>5. ASSUME NEW r \in Requests, RateAllows(r) PROVE TypeOK'
    BY <1>5 DEF RateAllows, TypeOK
  <1>6. ASSUME NEW r \in Requests, RateExceeded(r) PROVE TypeOK'
    BY <1>6 DEF RateExceeded, TypeOK
  <1>7. ASSUME NEW r \in Requests, HandlerEnds(r) PROVE TypeOK'
    BY <1>7 DEF HandlerEnds, TypeOK
  <1>8. ASSUME NEW r \in Requests, ReadCounter(r) PROVE TypeOK'
    BY <1>8 DEF ReadCounter, TypeOK
  <1>9. ASSUME NEW r \in Requests, Decrement(r) PROVE TypeOK'
    BY <1>9 DEF Decrement, TypeOK
  <1>10. ASSUME NEW r \in Requests, UncheckedEnds(r) PROVE TypeOK'
    BY <1>10 DEF UncheckedEnds, TypeOK
  <1>11. ASSUME NEW r \in Requests, RedisFails(r) PROVE TypeOK'
    <2>1. counter' \in Int
      BY <1>11 DEF RedisFails, Effect, TypeOK
    <2>2. expiring' \in BOOLEAN
      BY <1>11 DEF RedisFails, TypeOK
    <2> QED BY <1>11, <2>1, <2>2 DEF RedisFails, TypeOK
  <1>12. CASE CounterExpires
    <2>1. counter' \in Int /\ lost' \in Nat
      BY <1>12 DEF CounterExpires, TypeOK
    <2>2. expiring' \in BOOLEAN
      BY <1>12 DEF CounterExpires
    <2> QED BY <1>12, <2>1, <2>2 DEF CounterExpires, TypeOK
  <1>13. ASSUME NEW w \in Workers, WorkerDies(w) PROVE TypeOK'
    BY <1>13 DEF WorkerDies, TypeOK
  <1>14. CASE UNCHANGED vars
    BY <1>14 DEF TypeOK, vars
  <1> QED
    BY <1>1, <1>2, <1>3, <1>4, <1>5, <1>6, <1>7, <1>8, <1>9, <1>10, <1>11, <1>12,
       <1>13, <1>14 DEF Next, Step

LEMMA TypeInit == Init => TypeOK
  <1> SUFFICES ASSUME Init PROVE TypeOK
    OBVIOUS
  <1>1. expiring \in BOOLEAN /\ faulty \in BOOLEAN
    BY DEF Init
  <1> QED BY <1>1 DEF Init, TypeOK, Place, After

\* Every variable keeps its type.
THEOREM TypeCorrect == Spec => []TypeOK
  BY TypeInit, TypeStep, PTL DEF Spec

------------------------------------------------------------------------------
(* A worker runs one request at a time between Redis commands.              *)

LEMMA OneStep == TypeOK /\ OneAtATime /\ [Next]_vars => OneAtATime'
  <1> SUFFICES ASSUME TypeOK, OneAtATime, [Next]_vars PROVE OneAtATime'
    OBVIOUS
  <1> USE DEF Goto, CallNext, Bypass, Leave, InWorker, Entering, Leaving, OneAtATime,
              TypeOK
  <1>1. ASSUME NEW w \in Workers, NEW r \in Requests, Arrive(w, r)
        PROVE  OneAtATime'
    BY <1>1 DEF Arrive, Free
  <1>2. ASSUME NEW r \in Requests, CheckConcurrent(r) PROVE OneAtATime'
    BY <1>2 DEF CheckConcurrent
  <1>3. ASSUME NEW r \in Requests,
               Increment(r) \/ SetExpiration(r) \/ RateAllows(r) \/ RateExceeded(r)
        PROVE  OneAtATime'
    BY <1>3 DEF Increment, SetExpiration, RateAllows, RateExceeded
  <1>4. ASSUME NEW r \in Requests, HandlerEnds(r) PROVE OneAtATime'
    BY <1>4 DEF HandlerEnds, Free
  <1>5. ASSUME NEW r \in Requests, ReadCounter(r) \/ Decrement(r)
        PROVE  OneAtATime'
    BY <1>5 DEF ReadCounter, Decrement, After
  <1>6. ASSUME NEW r \in Requests, UncheckedEnds(r) PROVE OneAtATime'
    BY <1>6 DEF UncheckedEnds
  <1>7. ASSUME NEW r \in Requests, RedisFails(r) PROVE OneAtATime'
    BY <1>7 DEF RedisFails
  <1>8. CASE CounterExpires
    BY <1>8 DEF CounterExpires
  <1>9. ASSUME NEW w \in Workers, WorkerDies(w) PROVE OneAtATime'
    BY <1>9 DEF WorkerDies, Suspended
  <1>10. CASE UNCHANGED vars
    BY <1>10 DEF vars
  <1> QED
    BY <1>1, <1>2, <1>3, <1>4, <1>5, <1>6, <1>7, <1>8, <1>9, <1>10 DEF Next, Step

\* At most one request per worker has passed the check and not incremented.
LEMMA PassedBound ==
  ASSUME TypeOK, OneAtATime
  PROVE  Cardinality(Passed) <= Cardinality(Workers)
  <1> DEFINE f == [r \in Passed |-> home[r]]
  <1>1. f \in [Passed -> Workers]
    BY DEF TypeOK, Passed
  <1>2. f \in Injection(Passed, Workers)
    BY <1>1 DEF Injection, IsInjective, OneAtATime, Passed, InWorker, Entering
  <1> QED BY <1>2, FS_Injection, FS_Subset, LimiterAssumption DEF Passed

------------------------------------------------------------------------------
(* The bound on concurrent requests.                                        *)

LimiterInv ==
    /\ TypeOK
    /\ OneAtATime
    /\ NothingForgotten
    /\ NothingLeaks
    /\ ConcurrencyBound

LEMMA Finite ==
  /\ IsFiniteSet(Counted) /\ Cardinality(Counted) \in Nat
  /\ IsFiniteSet(Passed) /\ Cardinality(Passed) \in Nat
  /\ Cardinality(Workers) \in Nat
  BY LimiterAssumption, FS_Subset, FS_CardinalityType DEF Counted, Passed

\* What a step does to the sets and the counter: it shrinks the sets and keeps
\* the counter, lets a request pass the check, counts one, or takes one off.
Shrinks ==
    /\ Counted' \subseteq Counted /\ Passed' \subseteq Passed
    /\ counter' + lost' >= counter + lost /\ lost' >= lost

Passes ==
    /\ counter < Limit
    /\ Counted' = Counted /\ counter' = counter /\ lost' = lost

Counts ==
    \E r \in Passed : /\ Counted' = Counted \cup {r} /\ Passed' = Passed \ {r}
                     /\ counter' = counter + 1 /\ lost' = lost

TakesOff ==
    \E r \in Counted : /\ Counted' = Counted \ {r} /\ Passed' = Passed
                      /\ counter' \in {counter, counter - 1} /\ lost' = lost

\* The arithmetic of the bound: k and l are the counter and what was lost, c and
\* p the sizes of the two sets, m the constant part of the bound.
LEMMA BoundArithmetic ==
  ASSUME NEW k \in Int, NEW k1 \in Int, NEW l \in Nat, NEW l1 \in Nat,
         NEW c \in Nat, NEW c1 \in Nat, NEW p \in Nat, NEW p1 \in Nat, NEW m \in Int,
         k + l >= c, c + p <= m + l,
         \/ c1 <= c /\ p1 <= p /\ k1 + l1 >= k + l /\ l1 >= l
         \/ c1 = c - 1 /\ p1 = p /\ l1 = l /\ k1 \in {k, k - 1}
  PROVE  k1 + l1 >= c1 /\ c1 + p1 <= m + l1
  OBVIOUS

LEMMA EffectKeeps ==
  ASSUME LimiterInv, TypeOK', OneAtATime', NothingLeaks',
         Shrinks \/ Passes \/ Counts \/ TakesOff
  PROVE  LimiterInv'
  <1> DEFINE c == Cardinality(Counted)
             d == Cardinality(Counted')
             p == Cardinality(Passed)
             q == Cardinality(Passed')
             W == Cardinality(Workers)
  <1>1. /\ IsFiniteSet(Counted) /\ IsFiniteSet(Passed)
        /\ c \in Nat /\ p \in Nat /\ W \in Nat
    BY Finite
  <1>2. counter + lost >= c /\ c + p <= Limit + W - 1 + lost
    BY DEF LimiterInv, NothingForgotten, ConcurrencyBound
  <1>3. /\ counter \in Int /\ lost \in Nat /\ counter' \in Int /\ lost' \in Nat
        /\ Limit \in Nat
    BY LimiterAssumption DEF LimiterInv, TypeOK
  <1>4. d \in Nat /\ q \in Nat
    <2>1. IsFiniteSet(Counted') /\ IsFiniteSet(Passed')
      BY LimiterAssumption, FS_Subset DEF Counted, Passed
    <2> QED BY <2>1, FS_CardinalityType
  <1>5. counter' + lost' >= d /\ d + q <= Limit + W - 1 + lost'
    <2>1. CASE Shrinks
      <3>1. d <= c
        BY <1>1, <2>1, FS_Subset DEF Shrinks
      <3>2. q <= p
        BY <1>1, <2>1, FS_Subset DEF Shrinks
      <3>3. counter' + lost' >= counter + lost /\ lost' >= lost
        BY <2>1 DEF Shrinks
      <3>4. Limit + W - 1 \in Int
        BY <1>1, <1>3
      <3> HIDE DEF c, d, p, q, W
      <3>5. PICK k \in Int, k1 \in Int, l \in Nat, l1 \in Nat :
              k = counter /\ k1 = counter' /\ l = lost /\ l1 = lost'
        BY <1>3
      <3>6. k + l >= c /\ c + p <= Limit + W - 1 + l
        BY <1>2, <3>5
      <3>7. k1 + l1 >= k + l /\ l1 >= l
        BY <3>3, <3>5
      <3>8. k1 + l1 >= d /\ d + q <= Limit + W - 1 + l1
        BY <1>1, <1>4, <3>1, <3>2, <3>4, <3>6, <3>7, BoundArithmetic
      <3> QED BY <3>5, <3>8
    <2>2. CASE Passes
      <3>1. d = c
        BY <2>2 DEF Passes
      <3>2. q <= W
        <4> DEFINE f == [r \in Passed' |-> home'[r]]
        <4>1. f \in [Passed' -> Workers]
          BY DEF TypeOK, Passed
        <4>2. f \in Injection(Passed', Workers)
          BY <4>1 DEF Injection, IsInjective, OneAtATime, Passed, InWorker, Entering
        <4> QED BY <4>2, FS_Injection, FS_Subset, LimiterAssumption DEF Passed
      <3> HIDE DEF c, d, p, q, W
      <3> QED BY <1>1, <1>2, <1>3, <1>4, <2>2, <3>1, <3>2 DEF Passes
    <2>3. CASE Counts
      <3>1. PICK r \in Passed :
              /\ Counted' = Counted \cup {r} /\ Passed' = Passed \ {r}
              /\ counter' = counter + 1 /\ lost' = lost
        BY <2>3 DEF Counts
      <3>2. d = IF r \in Counted THEN c ELSE c + 1
        BY <1>1, <3>1, FS_AddElement
      <3>3. d <= c + 1
        BY <1>1, <3>2
      <3>4. q = p - 1
        BY <1>1, <3>1, FS_RemoveElement
      <3>5. counter' = counter + 1 /\ lost' = lost
        BY <3>1
      <3> HIDE DEF c, d, p, q, W
      <3> QED BY <1>1, <1>2, <1>3, <1>4, <3>3, <3>4, <3>5
    <2>4. CASE TakesOff
      <3>1. PICK r \in Counted :
              /\ Counted' = Counted \ {r} /\ Passed' = Passed
              /\ counter' \in {counter, counter - 1} /\ lost' = lost
        BY <2>4 DEF TakesOff
      <3>2. d = c - 1
        BY <1>1, <3>1, FS_RemoveElement
      <3>3. q = p
        BY <3>1
      <3> HIDE DEF c, d, p, q, W
      <3>4. CASE counter' = counter
        BY <1>1, <1>2, <1>3, <1>4, <3>1, <3>2, <3>3, <3>4
      <3>5. CASE counter' = counter - 1
        BY <1>1, <1>2, <1>3, <1>4, <3>1, <3>2, <3>3, <3>5
      <3> QED BY <3>1, <3>4, <3>5
    <2> QED BY <2>1, <2>2, <2>3, <2>4
  <1> QED BY <1>5 DEF LimiterInv, NothingForgotten, ConcurrencyBound

\* Every step has one of these effects.
LEMMA StepEffect ==
  ASSUME TypeOK, Next
  PROVE  Shrinks \/ Passes \/ Counts \/ TakesOff
  <1> USE DEF Goto, CallNext, Bypass, Leave, TypeOK, InWorker, Entering, Leaving,
              After, Counted, Passed
  <1>1. ASSUME NEW w \in Workers, NEW r \in Requests, Arrive(w, r) PROVE Shrinks
    BY <1>1 DEF Arrive, Shrinks
  <1>2. ASSUME NEW r \in Requests, CheckConcurrent(r) PROVE Shrinks \/ Passes
    <2>1. CASE counter >= Limit
      BY <1>2, <2>1 DEF CheckConcurrent, Shrinks
    <2>2. CASE ~(counter >= Limit)
      BY <1>2, <2>2, LimiterAssumption DEF CheckConcurrent, Passes
    <2> QED BY <2>1, <2>2
  <1>3. ASSUME NEW r \in Requests, Increment(r) PROVE Counts
    BY <1>3 DEF Increment, Counts
  <1>4. ASSUME NEW r \in Requests,
               \/ SetExpiration(r) \/ RateAllows(r) \/ RateExceeded(r)
               \/ HandlerEnds(r) \/ UncheckedEnds(r)
        PROVE  Shrinks
    BY <1>4 DEF SetExpiration, RateAllows, RateExceeded, HandlerEnds, UncheckedEnds,
       Shrinks
  <1>5. ASSUME NEW r \in Requests, ReadCounter(r) PROVE Shrinks
    BY <1>5 DEF ReadCounter, Shrinks
  <1>6. ASSUME NEW r \in Requests, Decrement(r) PROVE TakesOff
    BY <1>6 DEF Decrement, TakesOff
  <1>7. ASSUME NEW r \in Requests, RedisFails(r) PROVE Shrinks \/ TakesOff
    <2>1. CASE place[r] = "decrement"
      <3>1. counter' \in {counter, counter - 1} /\ lost' = lost
        BY <1>7, <2>1 DEF RedisFails, Effect
      <3>2. Counted' = Counted \ {r} /\ Passed' = Passed /\ r \in Counted
        BY <1>7, <2>1 DEF RedisFails
      <3> QED BY <3>1, <3>2 DEF TakesOff
    <2>2. CASE place[r] # "decrement"
      <3>1. counter' \in {counter, counter + 1} /\ lost' = lost
        BY <1>7, <2>2 DEF RedisFails, Effect
      <3>2. counter' + lost' >= counter + lost /\ lost' >= lost
        <4>1. CASE counter' = counter
          BY <3>1, <4>1
        <4>2. CASE counter' = counter + 1
          BY <3>1, <4>2
        <4> QED BY <3>1, <4>1, <4>2
      <3>3. Counted' \subseteq Counted /\ Passed' \subseteq Passed
        BY <1>7, <2>2 DEF RedisFails
      <3> QED BY <3>1, <3>2, <3>3 DEF Shrinks
    <2> QED BY <2>1, <2>2
  <1>8. CASE CounterExpires
    BY <1>8 DEF CounterExpires, Shrinks
  <1>9. ASSUME NEW w \in Workers, WorkerDies(w) PROVE Shrinks
    BY <1>9 DEF WorkerDies, Shrinks
  <1> QED
    BY <1>1, <1>2, <1>3, <1>4, <1>5, <1>6, <1>7, <1>8, <1>9 DEF Next, Step

\* While nothing fails or expires, the counter goes with the requests it counts.
LEMMA LeakStep ==
  ASSUME TypeOK, NothingLeaks, Next
  PROVE  NothingLeaks'
  <1> SUFFICES ASSUME ~faulty', lost' = 0 PROVE counter' = Cardinality(Counted')
    BY DEF NothingLeaks
  <1>1. IsFiniteSet(Counted) /\ Cardinality(Counted) \in Nat
    BY Finite
  <1> USE DEF Goto, CallNext, Bypass, Leave, TypeOK, InWorker, Entering, Leaving,
              After, Counted
  <1>2. ASSUME NEW w \in Workers, NEW r \in Requests, Arrive(w, r)
        PROVE  counter' = Cardinality(Counted')
    <2>1. Counted' = Counted
      BY <1>2 DEF Arrive
    <2> QED BY <1>2, <2>1 DEF Arrive, NothingLeaks
  <1>3. ASSUME NEW r \in Requests, CheckConcurrent(r)
        PROVE  counter' = Cardinality(Counted')
    <2>1. Counted' = Counted
      BY <1>3 DEF CheckConcurrent
    <2> QED BY <1>3, <2>1 DEF CheckConcurrent, NothingLeaks
  <1>4. ASSUME NEW r \in Requests, Increment(r)
        PROVE  counter' = Cardinality(Counted')
    <2>1. Counted' = Counted \cup {r} /\ r \notin Counted
      BY <1>4 DEF Increment
    <2>2. Cardinality(Counted') = Cardinality(Counted) + 1
      BY <1>1, <2>1, FS_AddElement
    <2> QED BY <1>4, <2>2 DEF Increment, NothingLeaks
  <1>5. ASSUME NEW r \in Requests,
               \/ SetExpiration(r) \/ RateAllows(r) \/ RateExceeded(r)
               \/ HandlerEnds(r) \/ UncheckedEnds(r)
        PROVE  counter' = Cardinality(Counted')
    <2>1. Counted' = Counted
      BY <1>5 DEF SetExpiration, RateAllows, RateExceeded, HandlerEnds, UncheckedEnds
    <2>2. UNCHANGED <<counter, lost, faulty>>
      BY <1>5 DEF SetExpiration, RateAllows, RateExceeded, HandlerEnds, UncheckedEnds
    <2> QED BY <2>1, <2>2 DEF NothingLeaks
  <1>6. ASSUME NEW r \in Requests, ReadCounter(r)
        PROVE  counter' = Cardinality(Counted')
    <2>1. counter = Cardinality(Counted) /\ r \in Counted
      BY <1>6 DEF ReadCounter, NothingLeaks
    <2>2. Cardinality(Counted) # 0
      BY <1>1, <2>1, FS_EmptySet
    <2>3. counter > 0
      BY <1>1, <2>1, <2>2
    <2>4. Counted' = Counted /\ counter' = counter
      BY <1>6, <2>3 DEF ReadCounter
    <2> QED BY <2>1, <2>4
  <1>7. ASSUME NEW r \in Requests, Decrement(r)
        PROVE  counter' = Cardinality(Counted')
    <2>1. Counted' = Counted \ {r} /\ r \in Counted
      BY <1>7 DEF Decrement
    <2> HIDE DEF Counted
    <2>2. Cardinality(Counted') = Cardinality(Counted) - 1
      BY <1>1, <2>1, FS_RemoveElement
    <2>3. counter' = counter - 1 /\ counter = Cardinality(Counted)
      BY <1>7 DEF Decrement, NothingLeaks
    <2> QED BY <2>2, <2>3
  <1>8. ASSUME NEW r \in Requests, RedisFails(r)
        PROVE  FALSE
    BY <1>8 DEF RedisFails
  <1>9. CASE CounterExpires
    <2>1. Counted' = Counted /\ counter' = 0 /\ faulty' = faulty
      BY <1>9 DEF CounterExpires
    <2>2. lost = 0 /\ ~(counter > 0)
      BY <1>9 DEF CounterExpires
    <2>3. counter = Cardinality(Counted)
      BY <2>1, <2>2 DEF NothingLeaks
    <2> QED BY <1>1, <2>1, <2>2, <2>3
  <1>10. ASSUME NEW w \in Workers, WorkerDies(w)
         PROVE  FALSE
    BY <1>10 DEF WorkerDies
  <1> QED
    BY <1>2, <1>3, <1>4, <1>5, <1>6, <1>7, <1>8, <1>9, <1>10 DEF Next, Step

LEMMA LimiterStep == LimiterInv /\ [Next]_vars => LimiterInv'
  <1> SUFFICES ASSUME LimiterInv, [Next]_vars PROVE LimiterInv'
    OBVIOUS
  <1>1. TypeOK /\ TypeOK' /\ OneAtATime'
    BY TypeStep, OneStep DEF LimiterInv
  <1>2. CASE Next
    <2>1. NothingLeaks'
      BY <1>1, <1>2, LeakStep DEF LimiterInv
    <2> QED BY <1>1, <1>2, <2>1, StepEffect, EffectKeeps
  <1>3. CASE UNCHANGED vars
    BY <1>1, <1>3
       DEF LimiterInv, NothingForgotten, NothingLeaks, ConcurrencyBound, Counted, Passed,
           vars
  <1> QED BY <1>2, <1>3

LEMMA LimiterInit == Init => LimiterInv
  <1> SUFFICES ASSUME Init PROVE LimiterInv
    OBVIOUS
  <1>1. TypeOK /\ OneAtATime
    BY TypeInit DEF Init, OneAtATime, InWorker, Entering, Leaving
  <1>2. Counted = {} /\ Passed = {}
    BY DEF Init, Counted, Passed
  <1>3. Cardinality(Workers) >= 1
    BY LimiterAssumption, FS_EmptySet, FS_CardinalityType
  <1>4. counter = 0 /\ lost = 0 /\ Limit \in Nat /\ Cardinality(Workers) \in Nat
    BY LimiterAssumption, FS_CardinalityType DEF Init
  <1> QED
    BY <1>1, <1>2, <1>3, <1>4, FS_EmptySet
       DEF LimiterInv, NothingForgotten, NothingLeaks, ConcurrencyBound

\* However many workers check, count and fail at the same time, a user never
\* has more than Limit requests on the limited path, plus one for every worker
\* but one, plus what the expiry of the counter has let slip.
THEOREM AtMostLimitPerUser == Spec => []ConcurrencyBound
  <1>1. LimiterInv => ConcurrencyBound
    BY DEF LimiterInv
  <1> QED BY <1>1, LimiterInit, LimiterStep, PTL DEF Spec

\* The counter is never below the number of requests that hold a slot, but for
\* what expired; and while nothing fails or expires it is that number.
THEOREM CounterNeverForgets == Spec => []CounterCovers
  <1>1. LimiterInv => CounterCovers
    BY DEF LimiterInv, CounterCovers
  <1> QED BY <1>1, LimiterInit, LimiterStep, PTL DEF Spec
==============================================================================
