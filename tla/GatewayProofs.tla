----------------------------- MODULE GatewayProofs -----------------------------
(****************************************************************************)
(* Theorems about GatewayLimiter, for any number of requests, any windows   *)
(* and limits, and any horizon of time.                                     *)
(****************************************************************************)
EXTENDS GatewayLimiter, FiniteSetTheorems, TLAPS

------------------------------------------------------------------------------
(* The arithmetic of windows.                                               *)

LEMMA DivRange ==
  ASSUME NEW W \in Nat \ {0}, NEW a \in Nat
  PROVE  a \div W \in Nat /\ a \div W <= a
  BY Z3

\* Two moments of the same window are less than a window apart.
LEMMA DivNear ==
  ASSUME NEW W \in Nat \ {0}, NEW a \in Nat, NEW b \in Nat, a \div W = b \div W
  PROVE  a < b + W
  BY Z3

\* A moment between two of the same window is of that window.
LEMMA DivBetween ==
  ASSUME NEW W \in Nat \ {0}, NEW a \in Nat, NEW b \in Nat, NEW c \in Nat,
         a <= b, b <= c, a \div W = c \div W
  PROVE  b \div W = a \div W
  BY Z3

LEMMA IndexType ==
  ASSUME NEW t \in Time, NEW k \in Kinds
  PROVE  t \div Window[k] \in Index
  <1>1. Window[k] \in Nat \ {0} /\ t \in Nat /\ t <= Horizon /\ Horizon \in Nat
    BY GatewayAssumption DEF Time
  <1>2. t \div Window[k] \in Nat /\ t \div Window[k] <= t
    BY <1>1, DivRange
  <1> QED BY <1>1, <1>2 DEF Index, Time

------------------------------------------------------------------------------
(* Type correctness.                                                        *)

\* What the comparison with the limit does to a request.
LEMMA JudgeEffect ==
  ASSUME NEW q \in Request
  PROVE  /\ Judge(q) \in Request
         /\ Judge(q).time = q.time /\ Judge(q).got = q.got
         /\ Judge(q).prompt = q.prompt
         /\ Judge(q).at \in {"incr", "admitted", "refused"}
         /\ Judge(q).at # "refused" => q.got[q.kind] <= Limit[q.kind]
         /\ Judge(q).at = "incr" => q.kind = "burst" /\ Judge(q).kind = "minute"
         /\ Judge(q).at # "incr" => Judge(q).kind = q.kind
         /\ Judge(q).at = "admitted" => q.kind = "minute"
  <1>1. q.got[q.kind] \in Nat /\ Limit[q.kind] \in Nat
    BY GatewayAssumption DEF Request
  <1>2. CASE q.got[q.kind] > Limit[q.kind]
    <2>1. Judge(q) = [q EXCEPT !.at = "refused"]
      BY <1>2 DEF Judge
    <2> QED BY <2>1 DEF Request, Answered
  <1>3. CASE ~(q.got[q.kind] > Limit[q.kind]) /\ q.kind = "burst"
    <2>1. Judge(q) = [q EXCEPT !.at = "incr", !.kind = "minute"]
      BY <1>3 DEF Judge, Pass
    <2>2. q.got[q.kind] <= Limit[q.kind]
      BY <1>1, <1>3
    <2> QED BY <1>3, <2>1, <2>2 DEF Request, Counting, Kinds
  <1>4. CASE ~(q.got[q.kind] > Limit[q.kind]) /\ q.kind # "burst"
    <2>1. Judge(q) = [q EXCEPT !.at = "admitted"]
      BY <1>4 DEF Judge, Pass
    <2>2. q.got[q.kind] <= Limit[q.kind]
      BY <1>1, <1>4
    <2> QED BY <1>4, <2>1, <2>2 DEF Request, Answered, Kinds
  <1> QED BY <1>2, <1>3, <1>4

LEMMA IndexOfType ==
  ASSUME TypeOK, NEW r \in Requests, NEW k \in Kinds
  PROVE  IndexOf(r, k) \in Index
  <1>1. req[r].time \in Time
    BY DEF TypeOK, Request
  <1> QED BY <1>1, IndexType DEF IndexOf

\* The request as INCR leaves it, before the comparison.
Counted(r, k, n) ==
    [req[r] EXCEPT !.got[k] = n,
                   !.prompt = IF now \div Window[k] = IndexOf(r, k)
                                THEN @ \cup {k} ELSE @]

Waiting(q) == [q EXCEPT !.at = "expire"]

\* What INCR does.
LEMMA IncrEffect ==
  ASSUME TypeOK, NEW r \in Requests, Incr(r),
         NEW k, k = req[r].kind, NEW n, n = count[k][IndexOf(r, k)] + 1
  PROVE  /\ k \in Kinds /\ n \in Nat /\ n > 0
         /\ Counted(r, k, n) \in Request
         /\ req'[r] \in {Waiting(Counted(r, k, n)),
                         Judge(Counted(r, k, n))}
         /\ req' = [req EXCEPT ![r] = req'[r]] /\ req'[r] \in Request
         /\ count' = [count EXCEPT ![k][IndexOf(r, k)] = n]
         /\ count' \in [Kinds -> [Index -> Nat]]
         /\ UNCHANGED <<now, deadline, neglected>>
  <1>1. k \in Kinds /\ req[r] \in Request
    BY DEF TypeOK, Request
  <1>2. IndexOf(r, k) \in Index
    BY <1>1, IndexOfType
  <1>3. count[k] \in [Index -> Nat] /\ count[k][IndexOf(r, k)] \in Nat
    BY <1>1, <1>2 DEF TypeOK
  <1>4. n \in Nat /\ n > 0
    BY <1>3
  <1>5. Counted(r, k, n) \in Request
    <2>1. [req[r].got EXCEPT ![k] = n] \in [Kinds -> Nat]
      BY <1>1, <1>4 DEF Request
    <2>2. (IF now \div Window[k] = IndexOf(r, k)
             THEN req[r].prompt \cup {k} ELSE req[r].prompt) \in SUBSET Kinds
      BY <1>1 DEF Request
    <2> QED BY <1>1, <2>1, <2>2 DEF Counted, Request
  <1>6. Judge(Counted(r, k, n)) \in Request
    BY <1>5, JudgeEffect
  <1>7. Waiting(Counted(r, k, n)) \in Request
    BY <1>5 DEF Request, Counting, Waiting
  <1>8. /\ count' = [count EXCEPT ![k][IndexOf(r, k)] = n]
        /\ UNCHANGED <<now, deadline, neglected>>
        /\ req' = [req EXCEPT ![r] =
             IF n = 1 THEN Waiting(Counted(r, k, n))
                      ELSE Judge(Counted(r, k, n))]
    BY DEF Incr, Counted, Waiting
  <1>9. req'[r] \in {Waiting(Counted(r, k, n)),
                     Judge(Counted(r, k, n))}
    BY <1>8 DEF TypeOK
  <1>10. req' = [req EXCEPT ![r] = req'[r]]
    BY <1>8 DEF TypeOK
  <1>11. count' \in [Kinds -> [Index -> Nat]]
    BY <1>1, <1>2, <1>3, <1>4, <1>8 DEF TypeOK
  <1>12. req'[r] \in Request
    BY <1>6, <1>7, <1>9
  <1> QED
    BY <1>1, <1>4, <1>5, <1>8, <1>9, <1>10, <1>11, <1>12

\* What EXPIRE does.
LEMMA SetDeadlineType ==
  ASSUME TypeOK, NEW k \in Kinds, NEW w \in Index, SetDeadline(k, w, Window[k])
  PROVE  deadline' \in [Kinds -> [Index -> Nat]]
  <1>1. now \in Nat /\ Window[k] \in Nat
    BY GatewayAssumption DEF TypeOK, Time
  <1>2. now + Window[k] \in Nat
    BY <1>1
  <1>3. (IF count[k][w] > 0 THEN now + Window[k] ELSE deadline[k][w]) \in Nat
    BY <1>2 DEF TypeOK
  <1>4. deadline' = [deadline EXCEPT ![k] = [deadline[k] EXCEPT ![w] =
          IF count[k][w] > 0 THEN now + Window[k] ELSE deadline[k][w]]]
    BY DEF SetDeadline, TypeOK
  <1>5. [deadline[k] EXCEPT ![w] =
          IF count[k][w] > 0 THEN now + Window[k] ELSE deadline[k][w]]
            \in [Index -> Nat]
    BY <1>3 DEF TypeOK
  <1> QED BY <1>4, <1>5 DEF TypeOK

LEMMA ExpireEffect ==
  ASSUME TypeOK, NEW r \in Requests, Expire(r)
  PROVE  /\ req'[r] = Judge(req[r]) /\ req'[r] \in Request
         /\ req' = [req EXCEPT ![r] = req'[r]]
         /\ UNCHANGED <<now, count, neglected>>
  <1>1. Judge(req[r]) \in Request
    BY JudgeEffect DEF TypeOK
  <1> QED BY <1>1 DEF Expire, TypeOK

LEMMA TypeStep == TypeOK /\ [Next]_vars => TypeOK'
  <1> SUFFICES ASSUME TypeOK, [Next]_vars PROVE TypeOK'
    OBVIOUS
  <1>0. ASSUME NEW r \in Requests, NEW a \in Answered
        PROVE  [req EXCEPT ![r].at = a] \in [Requests -> Request]
    BY ZenonT(30) DEF TypeOK, Request
  <1>1. ASSUME NEW r \in Requests, RejectToken(r) PROVE TypeOK'
    <2>1. req' = [req EXCEPT ![r].at = "unauthorized"] /\ "unauthorized" \in Answered
      BY <1>1 DEF RejectToken, Answered
    <2> QED BY <1>0, <1>1, <2>1 DEF RejectToken, TypeOK
  <1>2. ASSUME NEW r \in Requests, Authenticate(r) PROVE TypeOK'
    BY <1>2, ZenonT(30) DEF Authenticate, TypeOK, Request, Counting
  <1>3. ASSUME NEW r \in Requests, Incr(r) PROVE TypeOK'
    BY <1>3, IncrEffect DEF TypeOK
  <1>4. ASSUME NEW r \in Requests, Expire(r) PROVE TypeOK'
    <2>1. req[r].kind \in Kinds
      BY DEF TypeOK, Request
    <2>2. deadline' \in [Kinds -> [Index -> Nat]]
      BY <1>4, <2>1, IndexOfType, SetDeadlineType DEF Expire
    <2> QED BY <1>4, <2>2, ExpireEffect DEF TypeOK
  <1>5. ASSUME NEW r \in Requests, CommandFails(r) PROVE TypeOK'
    <2> DEFINE k == req[r].kind
               w == IndexOf(r, k)
    <2>1. k \in Kinds /\ w \in Index
      BY IndexOfType DEF TypeOK, Request
    <2>2. count' \in [Kinds -> [Index -> Nat]] /\ deadline' \in [Kinds -> [Index -> Nat]]
      <3>1. CASE UNCHANGED <<count, deadline>>
        BY <3>1 DEF TypeOK
      <3>2. CASE count' = [count EXCEPT ![k][w] = @ + 1] /\ UNCHANGED deadline
        <4>1. count[k] \in [Index -> Nat] /\ count[k][w] + 1 \in Nat
          BY <2>1 DEF TypeOK
        <4>2. [count[k] EXCEPT ![w] = count[k][w] + 1] \in [Index -> Nat]
          BY <2>1, <4>1
        <4>3. count' = [count EXCEPT ![k] = [count[k] EXCEPT ![w] = count[k][w] + 1]]
          BY <2>1, <3>2 DEF TypeOK
        <4> QED BY <2>1, <3>2, <4>2, <4>3 DEF TypeOK
      <3>3. CASE SetDeadline(k, w, Window[k]) /\ UNCHANGED count
        BY <2>1, <3>3, SetDeadlineType DEF TypeOK
      <3> QED BY <1>5, <3>1, <3>2, <3>3 DEF CommandFails
    <2>3. neglected' \in [Kinds -> SUBSET Index]
      BY <1>5, <2>1 DEF CommandFails, TypeOK
    <2>4. req' \in [Requests -> Request]
      <3>1. req' = [req EXCEPT ![r].at = "unchecked"] /\ "unchecked" \in Answered
        BY <1>5 DEF CommandFails, Answered
      <3> QED BY <1>0, <3>1
    <2> QED BY <1>5, <2>2, <2>3, <2>4 DEF CommandFails, TypeOK
  <1>6. ASSUME NEW r \in Requests, WorkerDies(r) PROVE TypeOK'
    <2>1. req[r].kind \in Kinds /\ IndexOf(r, req[r].kind) \in Index
      BY IndexOfType DEF TypeOK, Request
    <2>2. req' = [req EXCEPT ![r].at = "gone"] /\ "gone" \in Answered
      BY <1>6 DEF WorkerDies, Answered
    <2>3. neglected' \in [Kinds -> SUBSET Index]
      BY <1>6, <2>1 DEF WorkerDies, TypeOK
    <2> QED BY <1>0, <1>6, <2>2, <2>3 DEF WorkerDies, TypeOK
  <1>7. CASE Tick
    <2>1. now' \in Time
      BY <1>7, GatewayAssumption DEF Tick, Time, TypeOK
    <2>2. \A k \in Kinds, w \in Index :
            /\ (IF Over(k, w) THEN 0 ELSE count[k][w]) \in Nat
            /\ (IF Over(k, w) THEN Never ELSE deadline[k][w]) \in Nat
      BY DEF TypeOK, Never
    <2> QED BY <1>7, <2>1, <2>2 DEF Tick, TypeOK
  <1>8. CASE UNCHANGED vars
    BY <1>8 DEF TypeOK, vars
  <1> QED BY <1>1, <1>2, <1>3, <1>4, <1>5, <1>6, <1>7, <1>8 DEF Next

LEMMA TypeInit == Init => TypeOK
  <1> SUFFICES ASSUME Init PROVE TypeOK
    OBVIOUS
  <1>1. 0 \in Time /\ "burst" \in Kinds
    BY GatewayAssumption DEF Time, Kinds
  <1>2. [k \in Kinds |-> 0] \in [Kinds -> Nat] /\ {} \in SUBSET Kinds
    OBVIOUS
  <1> QED BY <1>1, <1>2 DEF Init, TypeOK, Request, Never

\* Every variable keeps its type.
THEOREM TypeCorrect == Spec => []TypeOK
  BY TypeInit, TypeStep, PTL DEF Spec

------------------------------------------------------------------------------
(* The invariant.                                                           *)

\* The steps that neither count, nor let time pass, leave alone what the
\* invariant says of the counters.
LEMMA TimeOf ==
  ASSUME TypeOK, NEW r \in Requests, NEW k \in Kinds
  PROVE  /\ req[r] \in Request /\ req[r].time \in Nat /\ now \in Nat
         /\ Window[k] \in Nat \ {0} /\ req[r].got[k] \in Nat /\ Limit[k] \in Nat
         /\ IndexOf(r, k) \in Index /\ count[k][IndexOf(r, k)] \in Nat
  <1>1. req[r] \in Request
    BY DEF TypeOK
  <1>2. IndexOf(r, k) \in Index
    BY IndexOfType
  <1> QED BY <1>1, <1>2, GatewayAssumption DEF TypeOK, Request, Time

\* A lifetime set at any moment, even late, reaches past the window.
LEMMA SetDeadlineOutlives ==
  ASSUME TypeOK, Judged, OutlivesWindow, NEW r \in Requests, NEW k \in Kinds,
         SetDeadline(k, IndexOf(r, k), Window[k])
  PROVE  OutlivesWindow'
  <1> SUFFICES ASSUME NEW j \in Kinds, NEW w \in Index, deadline'[j][w] # Never,
                      NEW t \in Time, t \div Window[j] = w
               PROVE  t < deadline'[j][w]
    BY DEF OutlivesWindow
  <1>1. CASE j = k /\ w = IndexOf(r, k) /\ count[k][w] > 0
    <2>1. deadline'[j][w] = now + Window[k]
      BY <1>1 DEF SetDeadline, TypeOK
    <2>2. t \in Nat
      BY GatewayAssumption DEF Time
    <2>3. t < req[r].time + Window[k]
      BY <1>1, <2>2, TimeOf, DivNear DEF IndexOf
    <2>4. req[r].time <= now
      BY DEF Judged
    <2> QED BY <2>1, <2>2, <2>3, <2>4, TimeOf
  <1>2. CASE ~(j = k /\ w = IndexOf(r, k) /\ count[k][w] > 0)
    <2>1. deadline'[j][w] = deadline[j][w]
      BY <1>2 DEF SetDeadline, TypeOK
    <2> QED BY <2>1 DEF OutlivesWindow
  <1> QED BY <1>1, <1>2

LEMMA OutlivesStep ==
  ASSUME TypeOK, Judged, OutlivesWindow, Next
  PROVE  OutlivesWindow'
  <1>1. CASE UNCHANGED deadline
    BY <1>1 DEF OutlivesWindow
  <1>2. ASSUME NEW r \in Requests, NEW k \in Kinds,
               SetDeadline(k, IndexOf(r, k), Window[k])
        PROVE  OutlivesWindow'
    BY <1>2, SetDeadlineOutlives
  <1>3. CASE Tick
    <2> SUFFICES ASSUME NEW k \in Kinds, NEW w \in Index, deadline'[k][w] # Never,
                        NEW t \in Time, t \div Window[k] = w
                 PROVE  t < deadline'[k][w]
      BY DEF OutlivesWindow
    <2>1. deadline'[k][w] = deadline[k][w]
      BY <1>3 DEF Tick
    <2> QED BY <2>1 DEF OutlivesWindow
  <1>4. ASSUME NEW r \in Requests, Expire(r) \/ CommandFails(r)
        PROVE  \/ UNCHANGED deadline
               \/ \E k \in Kinds : SetDeadline(k, IndexOf(r, k), Window[k])
    <2>1. req[r].kind \in Kinds
      BY DEF TypeOK, Request
    <2> QED BY <1>4, <2>1 DEF Expire, CommandFails
  <1>5. ASSUME NEW r \in Requests,
               RejectToken(r) \/ Authenticate(r) \/ Incr(r) \/ WorkerDies(r)
        PROVE  UNCHANGED deadline
    BY <1>5 DEF RejectToken, Authenticate, Incr, WorkerDies
  <1> QED BY <1>1, <1>2, <1>3, <1>4, <1>5 DEF Next

\* All but INCR and the clock leave what a request has got alone, and take no
\* counter back.
Quiet ==
    /\ now' = now
    /\ \A k \in Kinds, w \in Index :
         count'[k][w] = count[k][w] \/ count'[k][w] = count[k][w] + 1
    /\ \A r \in Requests : /\ req'[r].got = req[r].got
                           /\ req'[r].prompt = req[r].prompt
                           /\ req'[r].time = req[r].time \/ req[r].at = "new"

LEMMA QuietStep ==
  ASSUME TypeOK, NEW r \in Requests,
         RejectToken(r) \/ Authenticate(r) \/ Expire(r) \/ CommandFails(r)
            \/ WorkerDies(r)
  PROVE  Quiet
  <1>1. req[r] \in Request /\ req[r].kind \in Kinds
    BY DEF TypeOK, Request
  <1>2. CASE RejectToken(r)
    BY <1>2 DEF RejectToken, Quiet, TypeOK, Request
  <1>3. CASE Authenticate(r)
    BY <1>3 DEF Authenticate, Quiet, TypeOK, Request
  <1>4. CASE Expire(r)
    <2>1. /\ req' = [req EXCEPT ![r] = req'[r]] /\ req'[r] = Judge(req[r])
          /\ UNCHANGED <<now, count>>
      BY <1>4, ExpireEffect
    <2>2. /\ req'[r].got = req[r].got /\ req'[r].prompt = req[r].prompt
          /\ req'[r].time = req[r].time
      BY <1>1, <2>1, JudgeEffect
    <2>3. \A s \in Requests : s # r => req'[s] = req[s]
      BY <2>1 DEF TypeOK
    <2> QED BY <2>1, <2>2, <2>3 DEF Quiet
  <1>5. CASE CommandFails(r)
    <2>1. req' = [req EXCEPT ![r].at = "unchecked"] /\ now' = now
      BY <1>5 DEF CommandFails
    <2>2. \/ count' = count
          \/ count' = [count EXCEPT ![req[r].kind][IndexOf(r, req[r].kind)] = @ + 1]
      BY <1>5 DEF CommandFails
    <2>3. \A k \in Kinds, w \in Index :
            count'[k][w] = count[k][w] \/ count'[k][w] = count[k][w] + 1
      BY <1>1, <2>2 DEF TypeOK
    <2> QED BY <2>1, <2>3 DEF Quiet, TypeOK, Request
  <1>6. CASE WorkerDies(r)
    BY <1>6 DEF WorkerDies, Quiet, TypeOK, Request
  <1> QED BY <1>2, <1>3, <1>4, <1>5, <1>6

\* INCR, for the request that does it ...
LEMMA IncrRequest ==
  ASSUME TypeOK, NEW r \in Requests, Incr(r),
         NEW k \in Kinds, k = req[r].kind,
         NEW n \in Nat, n = count[k][IndexOf(r, k)] + 1
  PROVE  /\ req'[r].got[k] = n
         /\ \A j \in Kinds : j # k => req'[r].got[j] = req[r].got[j]
         /\ \A j \in Kinds : j # k /\ j \in req'[r].prompt => j \in req[r].prompt
         /\ k \in req'[r].prompt
              => k \in req[r].prompt \/ now \div Window[k] = IndexOf(r, k)
         /\ req'[r].time = req[r].time
  <1> DEFINE q == Counted(r, k, n)
  <1>1. q \in Request
    BY IncrEffect
  <1>2. req'[r] \in {Waiting(q), Judge(q)}
    BY IncrEffect
  <1>3. req'[r].got = q.got /\ req'[r].prompt = q.prompt /\ req'[r].time = q.time
    <2> HIDE DEF q
    <2>1. CASE req'[r] = Judge(q)
      BY <1>1, <2>1, JudgeEffect
    <2>2. CASE req'[r] = Waiting(q)
      BY <1>1, <2>2 DEF Request, Waiting
    <2> QED BY <1>2, <2>1, <2>2
  <1>4. /\ q.got = [req[r].got EXCEPT ![k] = n] /\ q.time = req[r].time
        /\ q.prompt = IF now \div Window[k] = IndexOf(r, k)
                        THEN req[r].prompt \cup {k} ELSE req[r].prompt
    BY DEF Counted, TypeOK, Request
  <1>5. req[r].got \in [Kinds -> Nat]
    BY DEF TypeOK, Request
  <1> HIDE DEF q
  <1>6. req'[r].got[k] = n /\ \A j \in Kinds : j # k => req'[r].got[j] = req[r].got[j]
    BY <1>3, <1>4, <1>5
  <1>7. /\ \A j \in Kinds : j # k /\ j \in req'[r].prompt => j \in req[r].prompt
        /\ k \in req'[r].prompt
              => k \in req[r].prompt \/ now \div Window[k] = IndexOf(r, k)
    BY <1>3, <1>4
  <1> QED BY <1>3, <1>4, <1>6, <1>7

\* ... and for the others, and the counters.
LEMMA IncrFrame ==
  ASSUME TypeOK, NEW r \in Requests, Incr(r),
         NEW k \in Kinds, k = req[r].kind,
         NEW n \in Nat, n = count[k][IndexOf(r, k)] + 1
  PROVE  /\ \A s \in Requests : s # r => req'[s] = req[s]
         /\ count'[k][IndexOf(r, k)] = n
         /\ \A j \in Kinds, w \in Index :
              ~(j = k /\ w = IndexOf(r, k)) => count'[j][w] = count[j][w]
         /\ now' = now
  <1>1. req' = [req EXCEPT ![r] = req'[r]]
    BY IncrEffect
  <1>2. count' = [count EXCEPT ![k][IndexOf(r, k)] = n] /\ now' = now
    BY DEF Incr
  <1>3. IndexOf(r, k) \in Index
    BY IndexOfType
  <1>4. \A s \in Requests : s # r => req'[s] = req[s]
    BY <1>1 DEF TypeOK
  <1> QED BY <1>2, <1>3, <1>4 DEF TypeOK

\* A counter has not expired within its window, and not even at its end.
LEMMA NotOver ==
  ASSUME TypeOK, OutlivesWindow, Tick, NEW k \in Kinds, NEW w \in Index,
         now' \div Window[k] = w
  PROVE  count'[k][w] = count[k][w]
  <1>1. now' = now + 1 /\ now' \in Time
    BY GatewayAssumption DEF Tick, TypeOK, Time
  <1>2. ~Over(k, w)
    <2> SUFFICES ASSUME deadline[k][w] # Never, deadline[k][w] <= now + 1 PROVE FALSE
      BY DEF Over
    <2>1. now' < deadline[k][w]
      BY <1>1 DEF OutlivesWindow
    <2>2. now \in Nat /\ deadline[k][w] \in Nat
      BY GatewayAssumption DEF TypeOK, Time
    <2> QED BY <1>1, <2>1, <2>2
  <1> QED BY <1>2 DEF Tick

LEMMA CoversStep ==
  ASSUME TypeOK, TypeOK', Judged, OutlivesWindow, CoversReturned, Next
  PROVE  CoversReturned'
  <1> SUFFICES ASSUME NEW s \in Requests, NEW j \in Kinds,
                      j \in req'[s].prompt, IndexOf(s, j)' = now' \div Window[j]
               PROVE  req'[s].got[j] <= count'[j][IndexOf(s, j)']
    BY DEF CoversReturned
  <1>1. CASE Quiet
    <2>1. /\ req'[s].got = req[s].got /\ j \in req[s].prompt /\ now' = now
          /\ req'[s].time = req[s].time \/ req[s].at = "new"
      BY <1>1 DEF Quiet
    <2>2. IndexOf(s, j)' = IndexOf(s, j)
      BY <2>1 DEF Judged, Behind, IndexOf
    <2>3. req[s].got[j] <= count[j][IndexOf(s, j)]
      BY <2>1, <2>2 DEF CoversReturned
    <2>4. IndexOf(s, j) \in Index /\ count[j][IndexOf(s, j)] \in Nat
          /\ req[s].got[j] \in Nat
      BY TimeOf
    <2>5. \/ count'[j][IndexOf(s, j)] = count[j][IndexOf(s, j)]
          \/ count'[j][IndexOf(s, j)] = count[j][IndexOf(s, j)] + 1
      BY <1>1, <2>4 DEF Quiet
    <2> QED BY <2>1, <2>2, <2>3, <2>4, <2>5
  <1>2. ASSUME NEW r \in Requests, Incr(r)
        PROVE  req'[s].got[j] <= count'[j][IndexOf(s, j)']
    <2>1. PICK k \in Kinds : k = req[r].kind
      BY DEF TypeOK, Request
    <2>2. PICK n \in Nat : n = count[k][IndexOf(r, k)] + 1
      BY <2>1, TimeOf
    <2>3. req'[s].time = req[s].time /\ now' = now
      BY <1>2, <2>1, <2>2, IncrFrame, IncrRequest
    <2>4. IndexOf(s, j)' = IndexOf(s, j)
      BY <2>3 DEF IndexOf
    <2>5. IndexOf(s, j) \in Index /\ count[j][IndexOf(s, j)] \in Nat
          /\ req[s].got[j] \in Nat
      BY TimeOf
    <2>6. \/ count'[j][IndexOf(s, j)] = count[j][IndexOf(s, j)]
          \/ count'[j][IndexOf(s, j)] = count[j][IndexOf(s, j)] + 1
      <3>1. CASE j = k /\ IndexOf(s, j) = IndexOf(r, k)
        BY <1>2, <2>1, <2>2, <3>1, IncrFrame
      <3>2. CASE ~(j = k /\ IndexOf(s, j) = IndexOf(r, k))
        BY <1>2, <2>1, <2>2, <2>5, <3>2, IncrFrame
      <3> QED BY <3>1, <3>2
    <2>7. CASE s = r /\ j = k
      <3>1. req'[s].got[j] = n
        BY <1>2, <2>1, <2>2, <2>7, IncrRequest
      <3>2. count'[j][IndexOf(s, j)] = n
        BY <1>2, <2>1, <2>2, <2>7, IncrFrame
      <3> QED BY <2>4, <3>1, <3>2
    <2>8. CASE ~(s = r /\ j = k)
      <3>1. req'[s].got[j] = req[s].got[j] /\ j \in req[s].prompt
        <4>1. CASE s # r
          BY <1>2, <2>1, <2>2, <4>1, IncrFrame
        <4>2. CASE s = r /\ j # k
          BY <1>2, <2>1, <2>2, <4>2, IncrRequest
        <4> QED BY <2>8, <4>1, <4>2
      <3>2. req[s].got[j] <= count[j][IndexOf(s, j)]
        BY <2>3, <2>4, <3>1 DEF CoversReturned
      <3> QED BY <2>4, <2>5, <2>6, <3>1, <3>2
    <2> QED BY <2>7, <2>8
  <1>3. CASE Tick
    <2>1. req' = req /\ now' = now + 1
      BY <1>3 DEF Tick
    <2>2. IndexOf(s, j)' = IndexOf(s, j)
      BY <2>1 DEF IndexOf
    <2>3. req[s].time \in Nat /\ now \in Nat /\ now + 1 \in Nat
          /\ Window[j] \in Nat \ {0} /\ IndexOf(s, j) \in Index
      BY TimeOf
    <2>4. req[s].time <= now /\ now <= now + 1
      BY <2>3 DEF Judged
    <2>5. req[s].time \div Window[j] = (now + 1) \div Window[j]
      BY <2>1, <2>2 DEF IndexOf
    <2>6. now \div Window[j] = IndexOf(s, j)
      BY <2>3, <2>4, <2>5, DivBetween DEF IndexOf
    <2>7. req[s].got[j] <= count[j][IndexOf(s, j)]
      BY <2>1, <2>6 DEF CoversReturned
    <2>8. count'[j][IndexOf(s, j)] = count[j][IndexOf(s, j)]
      BY <1>3, <2>2, <2>3, NotOver
    <2> QED BY <2>1, <2>2, <2>7, <2>8
  <1> QED BY <1>1, <1>2, <1>3, QuietStep DEF Next

LEMMA DistinctStep ==
  ASSUME TypeOK, TypeOK', Judged, CoversReturned, Distinct, Next
  PROVE  Distinct'
  <1>1. CASE Quiet \/ Tick
    <2> SUFFICES ASSUME NEW r \in Requests, NEW s \in Requests, NEW j \in Kinds, r # s,
                        j \in req'[r].prompt, j \in req'[s].prompt,
                        IndexOf(r, j)' = IndexOf(s, j)'
                 PROVE  req'[r].got[j] # req'[s].got[j]
      BY DEF Distinct
    <2>1. \A q \in Requests : j \in req'[q].prompt =>
             /\ j \in req[q].prompt /\ req'[q].got = req[q].got
             /\ IndexOf(q, j)' = IndexOf(q, j)
      <3>1. CASE Quiet
        BY <3>1 DEF Quiet, Judged, Behind, IndexOf
      <3>2. CASE Tick
        BY <3>2 DEF Tick, IndexOf
      <3> QED BY <1>1, <3>1, <3>2
    <2> QED BY <2>1 DEF Distinct
  <1>2. ASSUME NEW r \in Requests, Incr(r) PROVE Distinct'
    <2>1. PICK k \in Kinds : k = req[r].kind
      BY DEF TypeOK, Request
    <2>2. PICK n \in Nat : n = count[k][IndexOf(r, k)] + 1
      BY <2>1, TimeOf
    <2>3. \A q \in Requests : req'[q].time = req[q].time
      BY <1>2, <2>1, <2>2, IncrFrame, IncrRequest
    <2>4. \A q \in Requests, j \in Kinds : IndexOf(q, j)' = IndexOf(q, j)
      BY <2>3 DEF IndexOf
    \* Apart from what r has got now, nothing is new.
    <2>5. \A q \in Requests, j \in Kinds :
             ~(q = r /\ j = k) /\ j \in req'[q].prompt
               => j \in req[q].prompt /\ req'[q].got[j] = req[q].got[j]
      <3> SUFFICES ASSUME NEW q \in Requests, NEW j \in Kinds, ~(q = r /\ j = k),
                          j \in req'[q].prompt
                   PROVE  j \in req[q].prompt /\ req'[q].got[j] = req[q].got[j]
        OBVIOUS
      <3>1. CASE q # r
        BY <1>2, <2>1, <2>2, <3>1, IncrFrame
      <3>2. CASE q = r /\ j # k
        BY <1>2, <2>1, <2>2, <3>2, IncrRequest
      <3> QED BY <3>1, <3>2
    \* In its window, it is higher than what the others have got.
    <2>6. ASSUME NEW s \in Requests, s # r, k \in req'[r].prompt, k \in req'[s].prompt,
                 IndexOf(r, k) = IndexOf(s, k)
          PROVE  req'[r].got[k] # req'[s].got[k]
      <3>1. req[r].at = "incr"
        BY <1>2 DEF Incr
      <3>2. k \notin req[r].prompt
        BY <2>1, <3>1 DEF Judged, Behind
      <3>3. now \div Window[k] = IndexOf(r, k)
        BY <1>2, <2>1, <2>2, <2>6, <3>2, IncrRequest
      <3>4. req'[r].got[k] = n
        BY <1>2, <2>1, <2>2, IncrRequest
      <3>5. k \in req[s].prompt /\ req'[s].got[k] = req[s].got[k]
        BY <2>5, <2>6
      <3>6. req[s].got[k] <= count[k][IndexOf(s, k)]
        BY <2>6, <3>3, <3>5 DEF CoversReturned
      <3>7. req[s].got[k] \in Nat /\ count[k][IndexOf(s, k)] \in Nat
        BY TimeOf
      <3> QED BY <2>2, <2>6, <3>4, <3>5, <3>6, <3>7
    <2> SUFFICES ASSUME NEW p \in Requests, NEW s \in Requests, NEW j \in Kinds, p # s,
                        j \in req'[p].prompt, j \in req'[s].prompt,
                        IndexOf(p, j)' = IndexOf(s, j)'
                 PROVE  req'[p].got[j] # req'[s].got[j]
      BY DEF Distinct
    <2>7. IndexOf(p, j) = IndexOf(s, j)
      BY <2>4
    <2>8. CASE p = r /\ j = k
      BY <2>6, <2>7, <2>8
    <2>9. CASE s = r /\ j = k
      BY <2>6, <2>7, <2>9
    <2>10. CASE ~(p = r /\ j = k) /\ ~(s = r /\ j = k)
      <3>1. /\ j \in req[p].prompt /\ req'[p].got[j] = req[p].got[j]
            /\ j \in req[s].prompt /\ req'[s].got[j] = req[s].got[j]
        BY <2>5, <2>10
      <3> QED BY <2>7, <3>1 DEF Distinct
    <2> QED BY <2>8, <2>9, <2>10
  <1> QED BY <1>1, <1>2, QuietStep DEF Next

\* The comparison with the limit.
LEMMA JudgeBehind ==
  ASSUME NEW q \in Request,
         q.kind = "burst" => "minute" \notin q.prompt,
         \A k \in q.prompt : q.got[k] > 0,
         q.kind = "minute" => q.got["burst"] <= Limit["burst"]
  PROVE  Behind(Judge(q))
  <1> DEFINE j == Judge(q)
  <1>1. /\ j.got = q.got /\ j.prompt = q.prompt
        /\ j.at \in {"incr", "admitted", "refused"}
        /\ j.at # "refused" => q.got[q.kind] <= Limit[q.kind]
        /\ j.at = "incr" => q.kind = "burst" /\ j.kind = "minute"
        /\ j.at # "incr" => j.kind = q.kind
        /\ j.at = "admitted" => q.kind = "minute"
    BY JudgeEffect
  <1> HIDE DEF j
  <1>2. j.at = "incr" => j.kind \notin j.prompt
    BY <1>1
  <1>3. j.kind = "burst" => "minute" \notin j.prompt
    BY <1>1
  <1>4. j.at = "incr" => j.got["burst"] <= Limit["burst"]
    BY <1>1
  <1>5. j.at = "admitted" => \A k \in Kinds : j.got[k] <= Limit[k]
    BY <1>1 DEF Kinds
  <1>6. Behind(j)
    BY <1>1, <1>2, <1>3, <1>4, <1>5 DEF Behind, Counting
  <1> QED BY <1>6 DEF j

LEMMA JudgedStep ==
  ASSUME TypeOK, TypeOK', Judged, Next
  PROVE  Judged'
  <1>0. \A r \in Requests : /\ req[r] \in Request /\ req[r].kind \in Kinds
                            /\ req[r].time \in Nat /\ now \in Nat
                            /\ req[r].time <= now /\ Behind(req[r])
    BY GatewayAssumption DEF TypeOK, Request, Time, Judged
  \* A step of one request that ends, or reads the clock.
  <1>1. ASSUME NEW r \in Requests, RejectToken(r) \/ CommandFails(r) \/ WorkerDies(r)
        PROVE  Judged'
    <2>1. PICK a \in {"unauthorized", "unchecked", "gone"} :
             req' = [req EXCEPT ![r].at = a] /\ now' = now
      BY <1>1 DEF RejectToken, CommandFails, WorkerDies
    <2>2. /\ req'[r].at = a /\ req'[r].time = req[r].time /\ req'[r].got = req[r].got
          /\ req'[r].kind = req[r].kind /\ req'[r].prompt = req[r].prompt
          /\ \A s \in Requests : s # r => req'[s] = req[s]
      BY <1>0, <2>1 DEF TypeOK, Request
    <2>3. Behind(req'[r])
      BY <1>0, <2>2 DEF Behind, Counting
    <2> QED BY <1>0, <2>1, <2>2, <2>3 DEF Judged
  <1>2. ASSUME NEW r \in Requests, Authenticate(r) PROVE Judged'
    <2>1. /\ req[r].at = "new" /\ now' = now
          /\ req'[r].at = "incr" /\ req'[r].time = now /\ req'[r].got = req[r].got
          /\ req'[r].kind = req[r].kind /\ req'[r].prompt = req[r].prompt
          /\ \A s \in Requests : s # r => req'[s] = req[s]
      BY <1>0, <1>2 DEF Authenticate, TypeOK, Request
    <2>2. Behind(req'[r])
      BY <1>0, <2>1 DEF Behind, Counting
    <2> QED BY <1>0, <2>1, <2>2 DEF Judged
  <1>3. ASSUME NEW r \in Requests, Incr(r) PROVE Judged'
    <2>1. PICK k \in Kinds : k = req[r].kind
      BY <1>0
    <2>2. PICK n \in Nat : n = count[k][IndexOf(r, k)] + 1 /\ n > 0
      BY <2>1, TimeOf
    <2>3. now' = now /\ \A s \in Requests : s # r => req'[s] = req[s]
      BY <1>3, <2>1, <2>2, IncrFrame
    <2>4. PICK q \in Request : /\ q = Counted(r, k, n)
                               /\ req'[r] \in {Waiting(q), Judge(q)}
      BY <1>3, <2>1, <2>2, IncrEffect
    <2>5. /\ q.kind = k /\ q.time = req[r].time /\ q.got = [req[r].got EXCEPT ![k] = n]
          /\ q.prompt \subseteq req[r].prompt \cup {k}
      BY <1>0, <2>1, <2>4 DEF Counted, Request
    <2>6. /\ q.kind = "burst" => "minute" \notin q.prompt
          /\ \A j \in q.prompt : q.got[j] > 0
          /\ q.kind = "minute" => q.got["burst"] <= Limit["burst"]
      <3>1. /\ Behind(req[r]) /\ req[r].at = "incr" /\ req[r].got \in [Kinds -> Nat]
            /\ req[r].prompt \subseteq Kinds
        BY <1>0, <1>3 DEF Incr, Request
      <3>2. q.kind = "burst" => "minute" \notin q.prompt
        BY <2>1, <2>5, <3>1 DEF Behind
      <3>3. ASSUME NEW j \in q.prompt PROVE q.got[j] > 0
        <4>1. CASE j = k
          BY <2>2, <2>5, <3>1, <4>1
        <4>2. CASE j # k
          <5>1. j \in req[r].prompt /\ j \in Kinds
            BY <2>5, <3>1, <4>2
          <5>2. req[r].got[j] > 0
            BY <3>1, <5>1 DEF Behind
          <5>3. q.got[j] = req[r].got[j]
            BY <2>5, <3>1, <4>2, <5>1
          <5> QED BY <5>2, <5>3
        <4> QED BY <4>1, <4>2
      <3>4. ASSUME q.kind = "minute" PROVE q.got["burst"] <= Limit["burst"]
        <4>1. req[r].got["burst"] <= Limit["burst"]
          BY <2>1, <2>5, <3>1, <3>4 DEF Behind, Counting
        <4>2. q.got["burst"] = req[r].got["burst"]
          BY <2>1, <2>5, <3>1, <3>4 DEF Kinds
        <4> QED BY <4>1, <4>2
      <3> QED BY <3>2, <3>3, <3>4
    <2>7. Behind(req'[r]) /\ req'[r].time = req[r].time
      <3>1. CASE req'[r] = Judge(q)
        BY <2>5, <2>6, <3>1, JudgeBehind, JudgeEffect
      <3>2. CASE req'[r] = Waiting(q)
        <4>1. /\ Waiting(q).at = "expire" /\ Waiting(q).kind = q.kind
              /\ Waiting(q).got = q.got /\ Waiting(q).prompt = q.prompt
              /\ Waiting(q).time = q.time
          BY DEF Waiting, Request
        <4> QED BY <2>5, <2>6, <3>2, <4>1 DEF Behind
      <3> QED BY <2>4, <3>1, <3>2
    <2> QED BY <1>0, <2>3, <2>7 DEF Judged
  <1>4. ASSUME NEW r \in Requests, Expire(r) PROVE Judged'
    <2>1. /\ req' = [req EXCEPT ![r] = req'[r]] /\ req'[r] = Judge(req[r])
          /\ now' = now
      BY <1>4, ExpireEffect
    <2>2. Behind(req'[r])
      <3>1. Behind(req[r]) /\ req[r].at = "expire"
        BY <1>0, <1>4 DEF Expire
      <3> QED BY <1>0, <2>1, <3>1, JudgeBehind DEF Behind, Counting
    <2>3. req'[r].time = req[r].time
      BY <1>0, <2>1, JudgeEffect
    <2>4. \A s \in Requests : s # r => req'[s] = req[s]
      BY <2>1 DEF TypeOK
    <2> QED BY <1>0, <2>1, <2>2, <2>3, <2>4 DEF Judged
  <1>5. CASE Tick
    <2>1. req' = req /\ now' = now + 1
      BY <1>5 DEF Tick
    <2> QED BY <1>0, <2>1 DEF Judged
  <1> QED BY <1>1, <1>2, <1>3, <1>4, <1>5 DEF Next

LEMMA GatewayStep == GatewayInv /\ [Next]_vars => GatewayInv'
  <1> SUFFICES ASSUME GatewayInv, [Next]_vars PROVE GatewayInv'
    OBVIOUS
  <1>1. TypeOK /\ TypeOK' /\ OutlivesWindow /\ CoversReturned /\ Distinct /\ Judged
    BY TypeStep DEF GatewayInv
  <1>2. CASE Next
    BY <1>1, <1>2, OutlivesStep, CoversStep, DistinctStep, JudgedStep DEF GatewayInv
  <1>3. CASE UNCHANGED vars
    BY <1>1, <1>3 DEF GatewayInv, OutlivesWindow, CoversReturned, Distinct, Judged,
       IndexOf, vars
  <1> QED BY <1>2, <1>3

LEMMA GatewayInit == Init => GatewayInv
  <1> SUFFICES ASSUME Init PROVE GatewayInv
    OBVIOUS
  <1>1. TypeOK /\ OutlivesWindow
    BY TypeInit DEF Init, OutlivesWindow
  <1>2. \A r \in Requests : /\ req[r].at = "new" /\ req[r].kind = "burst"
                            /\ req[r].time = 0 /\ req[r].prompt = {}
    BY DEF Init
  <1>3. CoversReturned /\ Distinct
    BY <1>2 DEF CoversReturned, Distinct
  <1>4. Judged
    BY <1>2 DEF Judged, Behind, Counting, Init
  <1> QED BY <1>1, <1>3, <1>4 DEF GatewayInv

\* The values the admitted requests have got are distinct, from 1 to the limit.
LEMMA GatewayBound == GatewayInv => WindowBound
  <1> SUFFICES ASSUME GatewayInv, NEW k \in Kinds, NEW w \in Index
               PROVE  Cardinality(AdmittedIn(k, w)) <= Limit[k]
    BY DEF WindowBound
  <1> DEFINE A == AdmittedIn(k, w)
             f == [r \in A |-> req[r].got[k]]
  <1>1. Limit[k] \in Nat
    BY GatewayAssumption
  <1>2. \A r \in A : req[r].got[k] \in 1..Limit[k]
    <2> SUFFICES ASSUME NEW r \in A PROVE req[r].got[k] \in 1..Limit[k]
      OBVIOUS
    <2>1. r \in Requests /\ req[r].at = "admitted" /\ k \in req[r].prompt
      BY DEF AdmittedIn
    <2>2. req[r].got[k] > 0 /\ req[r].got[k] <= Limit[k]
      BY <2>1 DEF GatewayInv, Judged, Behind
    <2>3. req[r].got[k] \in Nat
      BY <2>1, TimeOf DEF GatewayInv
    <2> QED BY <1>1, <2>2, <2>3
  <1>3. \A r, s \in A : r # s => req[r].got[k] # req[s].got[k]
    BY DEF GatewayInv, Distinct, AdmittedIn
  <1>4. f \in Injection(A, 1..Limit[k])
    <2> HIDE DEF A
    <2> QED BY <1>2, <1>3 DEF Injection, IsInjective
  <1>5. IsFiniteSet(1..Limit[k]) /\ Cardinality(1..Limit[k]) = Limit[k]
    BY <1>1, FS_Interval, SMTT(30)
  <1>6. Cardinality(A) <= Cardinality(1..Limit[k])
    <2> HIDE DEF A, f
    <2> QED BY <1>4, <1>5, FS_Injection
  <1> QED BY <1>5, <1>6

\* No window of the clock admits more requests than its limit.
THEOREM NoWindowExceeded == Spec => []WindowBound
  BY GatewayInit, GatewayStep, GatewayBound, PTL DEF Spec

------------------------------------------------------------------------------
(* No counter stays for ever.                                               *)

Pending(r, k, w) == req[r].at = "expire" /\ req[r].kind = k /\ IndexOf(r, k) = w

LEMMA KeysStep ==
  ASSUME TypeOK, KeysExpire, Next
  PROVE  KeysExpire'
  <1> SUFFICES ASSUME NEW k \in Kinds, NEW w \in Index,
                      count'[k][w] > 0, deadline'[k][w] = Never, w \notin neglected'[k]
               PROVE  \E s \in Requests : Pending(s, k, w)'
    BY DEF KeysExpire, Pending
  <1>0. count[k][w] \in Nat /\ deadline[k][w] \in Nat
    BY DEF TypeOK
  <1>1. count[k][w] > 0 /\ deadline[k][w] = Never /\ w \notin neglected[k]
          => \E s \in Requests : Pending(s, k, w)
    BY DEF KeysExpire, Pending
  \* The steps that create no counter and set no deadline.
  <1>2. ASSUME NEW r \in Requests, req[r].at # "expire",
               \A s \in Requests : s # r => req'[s] = req[s],
               UNCHANGED <<count, deadline, neglected>>
        PROVE  \E s \in Requests : Pending(s, k, w)'
    <2>1. PICK s \in Requests : Pending(s, k, w)
      BY <1>1, <1>2
    <2>2. s # r
      BY <1>2, <2>1 DEF Pending
    <2>3. Pending(s, k, w)'
      BY <1>2, <2>1, <2>2 DEF Pending, IndexOf
    <2> QED BY <2>3
  <1>3. ASSUME NEW r \in Requests, RejectToken(r) \/ Authenticate(r)
        PROVE  \E s \in Requests : Pending(s, k, w)'
    <2>1. /\ req[r].at = "new" /\ UNCHANGED <<count, deadline, neglected>>
          /\ \A s \in Requests : s # r => req'[s] = req[s]
      BY <1>3 DEF RejectToken, Authenticate, TypeOK
    <2> QED BY <1>2, <2>1
  <1>4. ASSUME NEW r \in Requests, Incr(r)
        PROVE  \E s \in Requests : Pending(s, k, w)'
    <2>1. PICK j \in Kinds : j = req[r].kind
      BY DEF TypeOK, Request
    <2>2. PICK n \in Nat : n = count[j][IndexOf(r, j)] + 1
      BY <2>1, TimeOf
    <2>3. /\ \A s \in Requests : s # r => req'[s] = req[s]
          /\ UNCHANGED <<deadline, neglected>> /\ req[r].at = "incr"
      BY <1>4, <2>1, <2>2, IncrFrame DEF Incr
    <2>4. CASE count[k][w] > 0
      <3>1. PICK s \in Requests : Pending(s, k, w)
        BY <1>1, <2>3, <2>4
      <3>2. s # r
        BY <2>3, <3>1 DEF Pending
      <3>3. Pending(s, k, w)'
        BY <2>3, <3>1, <3>2 DEF Pending, IndexOf
      <3> QED BY <3>3
    <2>5. CASE ~(count[k][w] > 0)
      <3>1. k = j /\ w = IndexOf(r, j)
        BY <1>4, <2>1, <2>2, <2>5, IncrFrame
      <3>2. count[k][w] = 0 /\ n = 1
        BY <1>0, <2>2, <2>5, <3>1
      <3>3. req'[r] = Waiting(Counted(r, k, n))
        BY <1>4, <2>1, <2>2, <3>1, <3>2 DEF Incr, Waiting, Counted, TypeOK
      <3>4. Counted(r, k, n) \in Request
        BY <1>4, <2>1, <2>2, <3>1, IncrEffect
      <3>5. req'[r].at = "expire" /\ req'[r].kind = Counted(r, k, n).kind
            /\ req'[r].time = Counted(r, k, n).time
        BY <3>3, <3>4 DEF Waiting, Request
      <3>6. Counted(r, k, n).kind = k /\ Counted(r, k, n).time = req[r].time
        BY <2>1, <3>1 DEF Counted, TypeOK, Request
      <3>7. Pending(r, k, w)'
        BY <3>1, <3>5, <3>6 DEF Pending, IndexOf
      <3> QED BY <3>7
    <2> QED BY <2>4, <2>5
  <1>5. ASSUME NEW r \in Requests, Expire(r)
        PROVE  \E s \in Requests : Pending(s, k, w)'
    <2>1. /\ req' = [req EXCEPT ![r] = req'[r]] /\ UNCHANGED <<count, neglected>>
      BY <1>5, ExpireEffect
    <2>2. PICK j \in Kinds : j = req[r].kind
      BY DEF TypeOK, Request
    <2>3. SetDeadline(j, IndexOf(r, j), Window[j])
      BY <1>5, <2>2 DEF Expire
    <2>4. now + Window[j] \in Nat /\ now + Window[j] # Never
      BY <2>2, TimeOf DEF Never
    <2>5. ~(k = j /\ w = IndexOf(r, j))
      <3> SUFFICES ASSUME k = j, w = IndexOf(r, j) PROVE FALSE
        OBVIOUS
      <3>1. deadline'[k][w] = now + Window[j]
        BY <2>1, <2>3 DEF SetDeadline, TypeOK
      <3> QED BY <2>4, <3>1
    <2>6. deadline'[k][w] = deadline[k][w]
      BY <2>3, <2>5 DEF SetDeadline, TypeOK
    <2>7. PICK s \in Requests : Pending(s, k, w)
      BY <1>1, <2>1, <2>6
    <2>8. s # r
      BY <2>2, <2>5, <2>7 DEF Pending
    <2>9. Pending(s, k, w)'
      BY <2>1, <2>7, <2>8 DEF Pending, IndexOf, TypeOK
    <2> QED BY <2>9
  \* A request that is given up leaves its counter neglected.
  <1>6. ASSUME NEW r \in Requests, CommandFails(r) \/ WorkerDies(r)
        PROVE  \E s \in Requests : Pending(s, k, w)'
    <2>1. PICK j \in Kinds : j = req[r].kind
      BY DEF TypeOK, Request
    <2>2. /\ neglected' = [neglected EXCEPT ![j] = @ \cup {IndexOf(r, j)}]
          /\ \A s \in Requests : s # r => req'[s] = req[s]
      BY <1>6, <2>1 DEF CommandFails, WorkerDies, TypeOK
    <2>3. ~(k = j /\ w = IndexOf(r, j)) /\ w \notin neglected[k]
      BY <2>1, <2>2 DEF TypeOK
    <2>4. \/ UNCHANGED <<count, deadline>>
          \/ /\ count' = [count EXCEPT ![j][IndexOf(r, j)] = @ + 1]
             /\ UNCHANGED deadline
          \/ SetDeadline(j, IndexOf(r, j), Window[j]) /\ UNCHANGED count
      BY <1>6, <2>1 DEF CommandFails, WorkerDies
    <2>5. count'[k][w] = count[k][w] /\ deadline'[k][w] = deadline[k][w]
      BY <2>1, <2>3, <2>4 DEF SetDeadline, TypeOK
    <2>6. PICK s \in Requests : Pending(s, k, w)
      BY <1>1, <2>3, <2>5
    <2>7. s # r
      BY <2>1, <2>3, <2>6 DEF Pending
    <2>8. Pending(s, k, w)'
      BY <2>2, <2>6, <2>7 DEF Pending, IndexOf
    <2> QED BY <2>8
  <1>7. CASE Tick
    <2>1. req' = req /\ neglected' = neglected
      BY <1>7 DEF Tick
    <2>2. ~Over(k, w) /\ count'[k][w] = count[k][w] /\ deadline'[k][w] = deadline[k][w]
      BY <1>7 DEF Tick
    <2>3. PICK s \in Requests : Pending(s, k, w)
      BY <1>1, <2>1, <2>2
    <2>4. Pending(s, k, w)'
      BY <2>1, <2>3 DEF Pending, IndexOf
    <2> QED BY <2>4
  <1> QED BY <1>3, <1>4, <1>5, <1>6, <1>7 DEF Next

LEMMA KeysInit == Init => KeysExpire
  BY DEF Init, KeysExpire

\* Every counter expires, unless a command on it failed or a worker died.
THEOREM EveryKeyExpires == Spec => []KeysExpire
  <1>1. TypeOK /\ KeysExpire /\ [Next]_vars => KeysExpire'
    <2> SUFFICES ASSUME TypeOK, KeysExpire, UNCHANGED vars PROVE KeysExpire'
      BY KeysStep
    <2> QED BY DEF KeysExpire, IndexOf, vars
  <1> QED BY <1>1, KeysInit, TypeInit, TypeStep, PTL DEF Spec

------------------------------------------------------------------------------
(* Why a refusal has a reason.                                              *)

\* A request that has been at a counter, and may have incremented it.
HasBeenAt(q, k) ==
    /\ q.at \notin {"new", "unauthorized"}
    /\ ~(q.at = "incr" /\ q.kind = k)
    /\ k = "burst" \/ q.kind = "minute"

Counters(k, w) == {r \in Requests : HasBeenAt(req[r], k) /\ IndexOf(r, k) = w}

\* A counter has not counted more than the requests that have been at it, and
\* so it is with every value it has returned.
CountsRequests ==
    \A k \in Kinds, w \in Index : count[k][w] <= Cardinality(Counters(k, w))

ReturnedRequests ==
    \A r \in Requests, k \in Kinds :
        /\ req[r].got[k] <= Cardinality(Counters(k, IndexOf(r, k)))
        /\ req[r].at = "new" => req[r].got[k] = 0

RefusedAbove ==
    \A r \in Requests :
        req[r].at = "refused" => req[r].got[req[r].kind] > Limit[req[r].kind]

Started == {r \in Requests : req[r].at # "new"}

RefusalInv ==
    /\ TypeOK /\ Judged /\ IsFiniteSet(Started)
    /\ CountsRequests /\ ReturnedRequests /\ RefusedAbove

LEMMA JudgeRefuses ==
  ASSUME NEW q \in Request, Judge(q).at = "refused"
  PROVE  Judge(q).got[Judge(q).kind] > Limit[Judge(q).kind]
  <1>1. CASE q.got[q.kind] > Limit[q.kind]
    <2>1. Judge(q).kind = q.kind /\ Judge(q).got = q.got
      BY JudgeEffect
    <2> QED BY <1>1, <2>1
  <1>2. CASE ~(q.got[q.kind] > Limit[q.kind])
    <2>1. Judge(q).at \in {"incr", "admitted"}
      BY <1>2 DEF Judge, Pass, Request
    <2> QED BY <2>1
  <1> QED BY <1>1, <1>2

\* Where the comparison with the limit leads.
LEMMA JudgeStays ==
  ASSUME NEW q \in Request, q.at \in Counting, NEW k \in Kinds
  PROVE  HasBeenAt(Judge(q), k) <=> (q.kind = k \/ k = "burst")
  <1>1. /\ Judge(q).at \in {"incr", "admitted", "refused"}
        /\ Judge(q).at = "incr" => q.kind = "burst" /\ Judge(q).kind = "minute"
        /\ Judge(q).at # "incr" => Judge(q).kind = q.kind
        /\ q.kind \in Kinds
    BY JudgeEffect DEF Request
  <1> QED BY <1>1 DEF HasBeenAt, Kinds

\* Who has been at a counter, still has; and a counter that is incremented is so
\* by a request that was not there before.
CountsOnce ==
    /\ \A r \in Requests, k \in Kinds :
         HasBeenAt(req[r], k) => HasBeenAt(req'[r], k) /\ req'[r].time = req[r].time
    /\ \A k \in Kinds, w \in Index :
         \/ count'[k][w] <= count[k][w]
         \/ /\ count'[k][w] = count[k][w] + 1
            /\ \E r \in Requests : /\ HasBeenAt(req'[r], k) /\ req'[r].time \div Window[k] = w
                                   /\ ~ HasBeenAt(req[r], k)
    /\ \A r \in Requests, k \in Kinds :
         \/ /\ req'[r].got[k] = req[r].got[k]
            /\ req'[r].time = req[r].time \/ req[r].at = "new"
         \/ req'[r].got[k] = count'[k][req'[r].time \div Window[k]] /\ req'[r].at # "new"
    /\ \A r \in Requests :
         req'[r].at = "refused" =>
            req'[r] = req[r] \/ req'[r].got[req'[r].kind] > Limit[req'[r].kind]
    /\ \A r \in Requests : req'[r].at = "new" => req[r].at = "new"
    /\ \E r \in Requests : \A s \in Requests : s # r => req'[s] = req[s]

LEMMA CountIncr ==
  ASSUME TypeOK, NEW r \in Requests, Incr(r)
  PROVE  CountsOnce
  <1>1. PICK k \in Kinds : k = req[r].kind
    BY DEF TypeOK, Request
  <1>2. PICK n \in Nat : n = count[k][IndexOf(r, k)] + 1
    BY <1>1, TimeOf
  <1>3. PICK q \in Request : q = Counted(r, k, n) /\ req'[r] \in {Waiting(q), Judge(q)}
    BY <1>1, <1>2, IncrEffect
  <1>4. q.at = "incr" /\ q.kind = k /\ req[r].at = "incr" /\ req[r] \in Request
    BY <1>1, <1>3 DEF Counted, TypeOK, Request, Incr
  <1>5. /\ \A s \in Requests : s # r => req'[s] = req[s]
        /\ count'[k][IndexOf(r, k)] = n
        /\ \A j \in Kinds, w \in Index :
             ~(j = k /\ w = IndexOf(r, k)) => count'[j][w] = count[j][w]
    BY <1>1, <1>2, IncrFrame
  <1>6. /\ req'[r].got[k] = n /\ req'[r].time = req[r].time
        /\ \A j \in Kinds : j # k => req'[r].got[j] = req[r].got[j]
    BY <1>1, <1>2, IncrRequest
  <1>7. ASSUME NEW j \in Kinds
        PROVE  HasBeenAt(req'[r], j) <=> (k = j \/ j = "burst")
    <2>1. CASE req'[r] = Judge(q)
      BY <1>4, <2>1, JudgeStays DEF Counting
    <2>2. CASE req'[r] = Waiting(q)
      <3>1. req'[r].at = "expire" /\ req'[r].kind = k
        BY <1>4, <2>2 DEF Waiting, Request
      <3> QED BY <3>1 DEF HasBeenAt, Kinds
    <2> QED BY <1>3, <2>1, <2>2
  <1>8. \A j \in Kinds : HasBeenAt(req[r], j) => j = "burst"
    BY <1>1, <1>4 DEF HasBeenAt, Kinds
  <1>9. ~ HasBeenAt(req[r], k)
    BY <1>1, <1>4 DEF HasBeenAt
  <1>10. req'[r].at = "refused" => req'[r].got[req'[r].kind] > Limit[req'[r].kind]
    <2>1. CASE req'[r] = Judge(q)
      BY <2>1, JudgeRefuses
    <2>2. CASE req'[r] = Waiting(q)
      BY <2>2 DEF Waiting, Request
    <2> QED BY <1>3, <2>1, <2>2
  <1>11. req'[r].at # "new"
    <2>1. CASE req'[r] = Judge(q)
      BY <2>1, JudgeEffect
    <2>2. CASE req'[r] = Waiting(q)
      BY <2>2 DEF Waiting, Request
    <2> QED BY <1>3, <2>1, <2>2
  <1>12. ASSUME NEW j \in Kinds, NEW w \in Index
         PROVE  \/ count'[j][w] <= count[j][w]
                \/ /\ count'[j][w] = count[j][w] + 1
                   /\ HasBeenAt(req'[r], j) /\ req'[r].time \div Window[j] = w
                   /\ ~ HasBeenAt(req[r], j)
    <2>1. CASE j = k /\ w = IndexOf(r, k)
      BY <1>2, <1>5, <1>6, <1>7, <1>9, <2>1 DEF IndexOf
    <2>2. CASE ~(j = k /\ w = IndexOf(r, k))
      <3>1. count'[j][w] = count[j][w] /\ count[j][w] \in Nat
        BY <1>5, <2>2 DEF TypeOK
      <3> QED BY <3>1
    <2> QED BY <2>1, <2>2
  <1>13. ASSUME NEW s \in Requests, NEW j \in Kinds
         PROVE  /\ HasBeenAt(req[s], j) => HasBeenAt(req'[s], j) /\ req'[s].time = req[s].time
                /\ \/ /\ req'[s].got[j] = req[s].got[j]
                      /\ req'[s].time = req[s].time \/ req[s].at = "new"
                   \/ /\ req'[s].got[j] = count'[j][req'[s].time \div Window[j]]
                      /\ req'[s].at # "new"
    BY <1>5, <1>6, <1>7, <1>8, <1>11 DEF IndexOf
  <1>14. /\ \A s \in Requests :
              req'[s].at = "refused" =>
                 req'[s] = req[s] \/ req'[s].got[req'[s].kind] > Limit[req'[s].kind]
         /\ \A s \in Requests : req'[s].at = "new" => req[s].at = "new"
    BY <1>5, <1>10, <1>11
  <1> QED BY <1>5, <1>12, <1>13, <1>14 DEF CountsOnce

\* A step of request r that takes it to another place, and leaves alone what it has
\* got.
LEMMA CountOther ==
  ASSUME TypeOK, NEW r \in Requests, NEW a \in Request, req' = [req EXCEPT ![r] = a],
         a.got = req[r].got, a.at # "new",
         a.time = req[r].time \/ req[r].at = "new",
         a.at = "refused" => a.got[a.kind] > Limit[a.kind],
         \A k \in Kinds : HasBeenAt(req[r], k) => HasBeenAt(a, k),
         \A k \in Kinds, w \in Index :
            \/ count'[k][w] <= count[k][w]
            \/ /\ count'[k][w] = count[k][w] + 1
               /\ HasBeenAt(a, k) /\ a.time \div Window[k] = w
               /\ ~ HasBeenAt(req[r], k)
  PROVE  CountsOnce
  <1>1. req'[r] = a /\ \A s \in Requests : s # r => req'[s] = req[s]
    BY DEF TypeOK
  <1>2. \A k \in Kinds : HasBeenAt(req[r], k) => a.time = req[r].time
    BY DEF HasBeenAt
  <1> QED BY <1>1, <1>2 DEF CountsOnce

LEMMA CountStep ==
  ASSUME TypeOK, Judged, Next
  PROVE  CountsOnce \/ (UNCHANGED req /\ \A k \in Kinds, w \in Index : count'[k][w] <= count[k][w])
  <1>0. ASSUME NEW r \in Requests
        PROVE  /\ req[r] \in Request /\ req[r].kind \in Kinds
               /\ \A k \in Kinds, w \in Index : count[k][w] \in Nat
    BY DEF TypeOK, Request
  <1>1. ASSUME NEW r \in Requests, RejectToken(r) PROVE CountsOnce
    <2>1. PICK a \in Request : a = [req[r] EXCEPT !.at = "unauthorized"]
      BY <1>0 DEF Request, Answered
    <2>2. /\ req' = [req EXCEPT ![r] = a] /\ a.at = "unauthorized" /\ a.got = req[r].got
          /\ a.time = req[r].time /\ count' = count /\ req[r].at = "new"
      BY <1>0, <1>1, <2>1 DEF RejectToken, TypeOK, Request
    <2>3. \A k \in Kinds, w \in Index : count'[k][w] <= count[k][w]
      BY <1>0, <2>2
    <2> QED BY <2>2, <2>3, CountOther DEF HasBeenAt
  <1>2. ASSUME NEW r \in Requests, Authenticate(r) PROVE CountsOnce
    <2>1. PICK a \in Request : a = [req[r] EXCEPT !.at = "incr", !.time = now]
      BY <1>0 DEF Request, Counting, TypeOK
    <2>2. /\ req' = [req EXCEPT ![r] = a] /\ a.at = "incr" /\ a.got = req[r].got
          /\ count' = count /\ req[r].at = "new"
      BY <1>0, <1>2, <2>1 DEF Authenticate, TypeOK, Request
    <2>3. \A k \in Kinds, w \in Index : count'[k][w] <= count[k][w]
      BY <1>0, <2>2
    <2> QED BY <2>2, <2>3, CountOther DEF HasBeenAt
  <1>3. ASSUME NEW r \in Requests, Expire(r) PROVE CountsOnce
    <2>1. PICK a \in Request : a = Judge(req[r])
      BY <1>0, JudgeEffect
    <2>2. req' = [req EXCEPT ![r] = a] /\ req[r].at = "expire" /\ count' = count
      BY <1>3, <2>1 DEF Expire, TypeOK
    <2>3. a.got = req[r].got /\ a.time = req[r].time /\ a.at # "new"
      BY <1>0, <2>1, JudgeEffect
    <2>4. a.at = "refused" => a.got[a.kind] > Limit[a.kind]
      BY <1>0, <2>1, JudgeRefuses
    <2>5. ASSUME NEW k \in Kinds, HasBeenAt(req[r], k) PROVE HasBeenAt(a, k)
      <3>1. req[r].kind = k \/ k = "burst"
        BY <1>0, <2>5 DEF HasBeenAt, Kinds
      <3> QED BY <1>0, <2>1, <2>2, <3>1, JudgeStays DEF Counting
    <2>6. \A k \in Kinds, w \in Index : count'[k][w] <= count[k][w]
      BY <1>0, <2>2
    <2> QED BY <2>2, <2>3, <2>4, <2>5, <2>6, CountOther
  <1>4. ASSUME NEW r \in Requests, CommandFails(r) \/ WorkerDies(r) PROVE CountsOnce
    <2>1. PICK p \in {"unchecked", "gone"} : req' = [req EXCEPT ![r].at = p]
      BY <1>4 DEF CommandFails, WorkerDies
    <2>2. PICK a \in Request : a = [req[r] EXCEPT !.at = p]
      BY <1>0 DEF Request, Answered
    <2>3. /\ req' = [req EXCEPT ![r] = a] /\ a.at = p /\ a.got = req[r].got
          /\ a.time = req[r].time /\ a.kind = req[r].kind
      BY <1>0, <2>1, <2>2 DEF TypeOK, Request
    <2>4. \A k \in Kinds : HasBeenAt(req[r], k) => HasBeenAt(a, k)
      BY <2>3 DEF HasBeenAt
    <2>5. PICK j \in Kinds : j = req[r].kind
      BY <1>0
    <2>6. \/ count' = count
          \/ /\ req[r].at = "incr"
             /\ count' = [count EXCEPT ![j][IndexOf(r, j)] = @ + 1]
      BY <1>4, <2>5 DEF CommandFails, WorkerDies
    <2>7. ASSUME NEW k \in Kinds, NEW w \in Index
          PROVE  \/ count'[k][w] <= count[k][w]
                 \/ /\ count'[k][w] = count[k][w] + 1
                    /\ HasBeenAt(a, k) /\ a.time \div Window[k] = w
                    /\ ~ HasBeenAt(req[r], k)
      <3>1. CASE count'[k][w] = count[k][w]
        BY <1>0, <3>1
      <3>2. CASE count'[k][w] # count[k][w]
        <4>1. /\ req[r].at = "incr" /\ k = j /\ w = IndexOf(r, j)
              /\ count'[k][w] = count[k][w] + 1
          BY <2>6, <3>2 DEF TypeOK
        <4>2. HasBeenAt(a, k) /\ ~ HasBeenAt(req[r], k)
          BY <2>3, <2>5, <4>1 DEF HasBeenAt, Kinds
        <4> QED BY <2>3, <4>1, <4>2 DEF IndexOf
      <3> QED BY <3>1, <3>2
    <2> QED BY <2>3, <2>4, <2>7, CountOther
  <1>5. CASE Tick
    <2>1. \A k \in Kinds, w \in Index : count[k][w] \in Nat
      BY DEF TypeOK
    <2> QED BY <1>5, <2>1 DEF Tick
  <1> QED BY <1>1, <1>2, <1>3, <1>4, <1>5, CountIncr DEF Next

LEMMA CountersFinite ==
  ASSUME IsFiniteSet(Started), NEW k, NEW w
  PROVE  IsFiniteSet(Counters(k, w)) /\ Cardinality(Counters(k, w)) \in Nat
  <1>1. Counters(k, w) \subseteq Started
    BY DEF Counters, Started, HasBeenAt
  <1> QED BY <1>1, FS_Subset, FS_CardinalityType

LEMMA RefusalStep ==
  ASSUME RefusalInv, Next
  PROVE  RefusalInv'
  <1>1. /\ TypeOK /\ Judged /\ IsFiniteSet(Started) /\ CountsRequests /\ ReturnedRequests
        /\ RefusedAbove /\ TypeOK' /\ Judged'
    BY TypeStep, JudgedStep DEF RefusalInv
  <1>2. CASE UNCHANGED req /\ \A k \in Kinds, w \in Index : count'[k][w] <= count[k][w]
    <2>1. /\ \A k, w : Counters(k, w)' = Counters(k, w)
          /\ Started' = Started /\ \A r, k : IndexOf(r, k)' = IndexOf(r, k)
      BY <1>2 DEF Counters, IndexOf, Started
    <2>2. ASSUME NEW k \in Kinds, NEW w \in Index
          PROVE  count'[k][w] <= Cardinality(Counters(k, w))
      <3>1. /\ count'[k][w] <= count[k][w] /\ count[k][w] <= Cardinality(Counters(k, w))
            /\ count[k][w] \in Nat /\ count'[k][w] \in Nat
            /\ Cardinality(Counters(k, w)) \in Nat
        BY <1>1, <1>2, CountersFinite DEF CountsRequests, TypeOK
      <3> QED BY <3>1
    <2> QED BY <1>1, <1>2, <2>1, <2>2 DEF RefusalInv, CountsRequests, ReturnedRequests,
                                          RefusedAbove
  <1>3. CASE CountsOnce
    <2>1. IsFiniteSet(Started')
      <3>1. PICK r \in Requests : \A s \in Requests : s # r => req'[s] = req[s]
        BY <1>3 DEF CountsOnce
      <3>2. Started' \subseteq Started \cup {r}
        BY <3>1 DEF Started
      <3> QED BY <1>1, <3>2, FS_AddElement, FS_Subset
    <2>2. ASSUME NEW k \in Kinds, NEW w
          PROVE  /\ Counters(k, w) \subseteq Counters(k, w)'
                 /\ Cardinality(Counters(k, w)) <= Cardinality(Counters(k, w)')
                 /\ IsFiniteSet(Counters(k, w)')
                 /\ Cardinality(Counters(k, w)) \in Nat
                 /\ Cardinality(Counters(k, w)') \in Nat
      <3>1. Counters(k, w) \subseteq Counters(k, w)'
        BY <1>3 DEF Counters, CountsOnce, IndexOf
      <3>2. Counters(k, w)' \subseteq Started'
        BY DEF Counters, Started, HasBeenAt
      <3> QED BY <1>1, <2>1, <3>1, <3>2, CountersFinite, FS_Subset, FS_CardinalityType
    <2>3. CountsRequests'
      <3> SUFFICES ASSUME NEW k \in Kinds, NEW w \in Index
                   PROVE  count'[k][w] <= Cardinality(Counters(k, w)')
        BY DEF CountsRequests
      <3>1. /\ count[k][w] <= Cardinality(Counters(k, w))
            /\ count[k][w] \in Nat /\ count'[k][w] \in Nat
        BY <1>1 DEF CountsRequests, TypeOK
      <3>2. CASE count'[k][w] <= count[k][w]
        BY <2>2, <3>1, <3>2
      <3>3. ASSUME NEW r \in Requests, count'[k][w] = count[k][w] + 1,
                   HasBeenAt(req'[r], k), req'[r].time \div Window[k] = w,
                   ~ HasBeenAt(req[r], k)
            PROVE  count'[k][w] <= Cardinality(Counters(k, w)')
        <4>1. r \notin Counters(k, w) /\ r \in Counters(k, w)'
          BY <3>3 DEF Counters, IndexOf
        <4>2. /\ IsFiniteSet(Counters(k, w) \cup {r})
              /\ Cardinality(Counters(k, w) \cup {r}) = Cardinality(Counters(k, w)) + 1
          BY <1>1, <4>1, CountersFinite, FS_AddElement
        <4>3. Cardinality(Counters(k, w) \cup {r}) <= Cardinality(Counters(k, w)')
          BY <2>2, <4>1, FS_Subset
        <4> QED BY <2>2, <3>1, <3>3, <4>2, <4>3
      <3> QED BY <1>3, <3>2, <3>3 DEF CountsOnce
    <2>4. ReturnedRequests'
      <3> SUFFICES ASSUME NEW r \in Requests, NEW k \in Kinds,
                          NEW w \in Index, w = IndexOf(r, k)'
                   PROVE  /\ req'[r].got[k] <= Cardinality(Counters(k, w)')
                          /\ req'[r].at = "new" => req'[r].got[k] = 0
        <4>1. \A r \in Requests, k \in Kinds : IndexOf(r, k)' \in Index
          BY <1>1, IndexType DEF TypeOK, Request, IndexOf
        <4> QED BY <4>1 DEF ReturnedRequests
      <3>1. req[r].got[k] \in Nat /\ req'[r].got[k] \in Nat
        BY <1>1 DEF TypeOK, Request
      <3>2. CASE req'[r].got[k] = count'[k][req'[r].time \div Window[k]] /\ req'[r].at # "new"
        BY <2>3, <3>2 DEF IndexOf, CountsRequests
      <3>3. CASE req'[r].got[k] = req[r].got[k] /\ req'[r].time = req[r].time
        <4>1. w = IndexOf(r, k)
          BY <3>3 DEF IndexOf
        <4>2. req[r].got[k] <= Cardinality(Counters(k, w))
          BY <1>1, <4>1 DEF ReturnedRequests
        <4> QED BY <1>1, <1>3, <2>2, <3>1, <3>3, <4>2 DEF ReturnedRequests, CountsOnce
      <3>4. CASE req'[r].got[k] = req[r].got[k] /\ req[r].at = "new"
        <4>1. req'[r].got[k] = 0
          BY <1>1, <3>4 DEF ReturnedRequests
        <4> QED BY <2>2, <4>1
      <3> QED BY <1>3, <3>2, <3>3, <3>4 DEF CountsOnce
    <2>5. RefusedAbove'
      BY <1>1, <1>3 DEF RefusedAbove, CountsOnce
    <2> QED BY <1>1, <2>1, <2>3, <2>4, <2>5 DEF RefusalInv
  <1> QED BY <1>1, <1>2, <1>3, CountStep

LEMMA RefusalInit == Init => RefusalInv
  <1> SUFFICES ASSUME Init PROVE RefusalInv
    OBVIOUS
  <1>1. TypeOK /\ Judged
    BY GatewayInit DEF GatewayInv
  <1>2. Started = {} /\ \A k, w : Counters(k, w) = {}
    BY DEF Init, Started, Counters, HasBeenAt
  <1>3. IsFiniteSet(Started) /\ \A k, w : Cardinality(Counters(k, w)) = 0
    BY <1>2, FS_EmptySet
  <1>4. CountsRequests /\ ReturnedRequests
    BY <1>3 DEF Init, CountsRequests, ReturnedRequests
  <1>5. RefusedAbove
    BY DEF Init, RefusedAbove
  <1> QED BY <1>1, <1>3, <1>4, <1>5 DEF RefusalInv

LEMMA RefusalSound == RefusalInv => NoEarlyRefusal
  <1> SUFFICES ASSUME RefusalInv, NEW r \in Requests, req[r].at = "refused",
                      NEW k \in Kinds, k = req[r].kind,
                      NEW w \in Index, w = IndexOf(r, k)
               PROVE  Cardinality(Made(k, w)) > Limit[k]
    BY IndexOfType DEF NoEarlyRefusal, RefusalInv, TypeOK, Request
  <1>1. /\ req[r].got[k] > Limit[k] /\ req[r].got[k] <= Cardinality(Counters(k, w))
        /\ IsFiniteSet(Started)
    BY DEF RefusalInv, RefusedAbove, ReturnedRequests
  <1>2. Counters(k, w) \subseteq Made(k, w) /\ Made(k, w) \subseteq Started
    BY DEF Counters, Made, Started, HasBeenAt
  <1>3. /\ Cardinality(Counters(k, w)) <= Cardinality(Made(k, w))
        /\ Cardinality(Counters(k, w)) \in Nat /\ Cardinality(Made(k, w)) \in Nat
    BY <1>1, <1>2, FS_Subset, FS_CardinalityType
  <1>4. Limit[k] \in Nat /\ req[r].got[k] \in Nat
    BY TimeOf DEF RefusalInv
  <1> QED BY <1>1, <1>3, <1>4

\* A request is refused only for more requests than the limit in the same window,
\* whatever the interleaving of the workers, the errors and the deaths.
THEOREM RefusalsHaveCause == Spec => []NoEarlyRefusal
  <1>1. RefusalInv /\ [Next]_vars => RefusalInv'
    <2> SUFFICES ASSUME RefusalInv, UNCHANGED vars PROVE RefusalInv'
      BY RefusalStep
    <2>1. TypeOK' /\ Judged'
      BY DEF RefusalInv, TypeOK, Judged, vars
    <2>2. /\ \A k, w : Counters(k, w)' = Counters(k, w) /\ Started' = Started
          /\ \A r, k : IndexOf(r, k)' = IndexOf(r, k) /\ req' = req /\ count' = count
      BY DEF vars, Counters, Started, IndexOf
    <2> QED BY <2>1, <2>2 DEF RefusalInv, CountsRequests, ReturnedRequests, RefusedAbove
  <1> QED BY <1>1, RefusalInit, RefusalSound, PTL DEF Spec

==============================================================================
