-------------------------- MODULE ConcurrencyLimiter --------------------------
(****************************************************************************)
(* The limit on a user's concurrent requests: RateLimitMiddleware.dispatch  *)
(* (security/middleware.py) with check_, increment_ and                     *)
(* decrement_concurrent of RateLimiter (security/rate_limiter.py).          *)
(*                                                                          *)
(* One counter in Redis, for one user, is shared by several worker          *)
(* processes.  The Redis client is synchronous, so that a worker runs a     *)
(* request without interruption up to the handler (call_next), where it     *)
(* takes up other requests, and again after it; the workers interleave at   *)
(* every Redis command.                                                     *)
(****************************************************************************)
EXTENDS Integers, FiniteSets

CONSTANTS
    Workers,    \* the worker processes
    Requests,   \* requests of one user
    Limit,      \* concurrent_requests of the user's tier
    NoWorker

ASSUME LimiterAssumption ==
    /\ IsFiniteSet(Workers) /\ Workers # {}
    /\ IsFiniteSet(Requests)
    /\ Limit \in Nat
    /\ NoWorker \notin Workers

VARIABLES
    place,      \* [Requests -> Place]: the next step of each request
    home,       \* [Requests -> Workers or NoWorker]: who runs it
    after,      \* [Requests -> After]: what follows the finally clause
    ran,        \* [Requests -> Nat]: how often its handler was called
    counter,    \* the value of concurrent:{user_id}, 0 if there is none
    expiring,   \* whether the key exists and has an expiration
    lost,       \* history: how much of the counter has expired
    faulty      \* history: a Redis command failed or a worker died

vars == <<place, home, after, ran, counter, expiring, lost, faulty>>

------------------------------------------------------------------------------
\* Inside a worker, between two Redis commands.
Entering == {"check", "increment", "expire", "rate"}
Leaving == {"read", "decrement"}
InWorker == Entering \cup Leaving

\* Suspended in call_next: as part of the limited path, or of a path that
\* skips the limiter.
Suspended == {"handling", "unchecked"}

Ended == {"ok", "limited", "error", "gone"}
Place == {"new"} \cup InWorker \cup Suspended \cup Ended

\* After the finally clause: return the response or the 429, pass on a
\* cancellation, or treat an exception as one of the limiter's own.
After == {"ok", "limited", "error", "retry"}

Free(w) == \A r \in Requests : home[r] = w => place[r] \notin InWorker

Init ==
    /\ place = [r \in Requests |-> "new"]
    /\ home = [r \in Requests |-> NoWorker]
    /\ after = [r \in Requests |-> "ok"]
    /\ ran = [r \in Requests |-> 0]
    /\ counter = 0
    /\ expiring = FALSE
    /\ lost = 0
    /\ faulty = FALSE

Goto(r, p) == place' = [place EXCEPT ![r] = p]

------------------------------------------------------------------------------
\* The handler is called, by either path.
CallNext(r, p) ==
    /\ Goto(r, p)
    /\ ran' = [ran EXCEPT ![r] = @ + 1]

\* A slip: a request that meets an error of the limiter starts again.
Bypass_Retry(r) ==
    /\ Goto(r, "check")
    /\ UNCHANGED ran

\* `except Exception`: do without the limiter.
Bypass(r) == CallNext(r, "unchecked")

\* The finally clause is left: return, or on to the `except Exception`.
Leave(r) ==
    IF after[r] = "retry" THEN Bypass(r)
                          ELSE Goto(r, after[r]) /\ UNCHANGED ran

\* dispatch is entered on a worker that is not in the middle of another request.
Arrive(w, r) ==
    /\ place[r] = "new"
    /\ Free(w)
    /\ Goto(r, "check")
    /\ home' = [home EXCEPT ![r] = w]
    /\ UNCHANGED <<after, ran, counter, expiring, lost, faulty>>

\* A slip: the comparison lets one request too many in.
CheckConcurrent_OffByOne(r) ==
    /\ place[r] = "check"
    /\ Goto(r, IF counter > Limit THEN "limited" ELSE "increment")
    /\ UNCHANGED <<home, after, ran, counter, expiring, lost, faulty>>

\* check_concurrent_requests: GET, and 429 when the limit is reached.
CheckConcurrent(r) ==
    /\ place[r] = "check"
    /\ Goto(r, IF counter >= Limit THEN "limited" ELSE "increment")
    /\ UNCHANGED <<home, after, ran, counter, expiring, lost, faulty>>

\* increment_concurrent: INCR ...
Increment(r) ==
    /\ place[r] = "increment"
    /\ counter' = counter + 1
    /\ Goto(r, "expire")
    /\ UNCHANGED <<home, after, ran, expiring, lost, faulty>>

\* ... and EXPIRE.
SetExpiration(r) ==
    /\ place[r] = "expire"
    /\ expiring' = TRUE
    /\ Goto(r, "rate")
    /\ UNCHANGED <<home, after, ran, counter, lost, faulty>>

\* check_rate_limit and record_request: the handler is called, or the finally
\* clause is entered with a RateLimitExceededError.
RateAllows(r) ==
    /\ place[r] = "rate"
    /\ CallNext(r, "handling")
    /\ UNCHANGED <<home, after, counter, expiring, lost, faulty>>

RateExceeded(r) ==
    /\ place[r] = "rate"
    /\ after' = [after EXCEPT ![r] = "limited"]
    /\ Goto(r, "read")
    /\ UNCHANGED <<home, ran, counter, expiring, lost, faulty>>

\* The handler returns, raises an exception (a RateLimitExceededError or
\* another), or is cancelled; its worker must be free to resume the request.
HandlerEnds(r) ==
    /\ place[r] = "handling"
    /\ Free(home[r])
    /\ \E outcome \in After : after' = [after EXCEPT ![r] = outcome]
    /\ Goto(r, "read")
    /\ UNCHANGED <<home, ran, counter, expiring, lost, faulty>>

\* decrement_concurrent: GET ...
ReadCounter(r) ==
    /\ place[r] = "read"
    /\ IF counter > 0 THEN Goto(r, "decrement") /\ UNCHANGED ran
                      ELSE Leave(r)
    /\ UNCHANGED <<home, after, counter, expiring, lost, faulty>>

\* A slip: the key is deleted instead of decremented.
Decrement_Deletes(r) ==
    /\ place[r] = "decrement"
    /\ counter' = 0
    /\ expiring' = FALSE
    /\ Leave(r)
    /\ UNCHANGED <<home, after, lost, faulty>>

\* ... and DECR.
Decrement(r) ==
    /\ place[r] = "decrement"
    /\ counter' = counter - 1
    /\ Leave(r)
    /\ UNCHANGED <<home, after, expiring, lost, faulty>>

\* The handler of the path around the limiter ends.
UncheckedEnds(r) ==
    /\ place[r] = "unchecked"
    /\ Free(home[r])
    /\ \E outcome \in {"ok", "error"} : Goto(r, outcome)
    /\ UNCHANGED <<home, after, ran, counter, expiring, lost, faulty>>

\* A Redis command raises an error, whether it took effect (only its reply was
\* lost) or not.  Before the inner try and inside its finally clause, the next
\* step is the `except Exception`; in the try block, it is the finally clause.
Effect(r) ==
    CASE place[r] = "increment" -> counter + 1
      [] place[r] = "decrement" -> counter - 1
      [] OTHER                  -> counter

RedisFails(r) ==
    /\ place[r] \in InWorker
    /\ counter' \in {counter, Effect(r)}
    /\ expiring' \in IF place[r] = "expire" THEN BOOLEAN ELSE {expiring}
    /\ IF place[r] = "rate"
         THEN /\ after' = [after EXCEPT ![r] = "retry"]
              /\ Goto(r, "read")
              /\ UNCHANGED ran
         ELSE Bypass(r) /\ UNCHANGED after
    /\ faulty' = TRUE
    /\ UNCHANGED <<home, lost>>

\* The key expires, 300 seconds after the last increment.
CounterExpires ==
    /\ expiring
    /\ expiring' = FALSE
    /\ counter' = 0
    /\ lost' = IF counter > 0 THEN lost + counter ELSE lost
    /\ UNCHANGED <<place, home, after, ran, faulty>>

\* A worker dies with all its requests, and is restarted.
WorkerDies(w) ==
    /\ \E r \in Requests : home[r] = w /\ place[r] \in InWorker \cup Suspended
    /\ place' = [r \in Requests |->
                   IF home[r] = w /\ place[r] \in InWorker \cup Suspended
                     THEN "gone" ELSE place[r]]
    /\ faulty' = TRUE
    /\ UNCHANGED <<home, after, ran, counter, expiring, lost>>

\* The steps a worker takes by itself.
Step(r) ==
    \/ CheckConcurrent(r) \/ Increment(r) \/ SetExpiration(r)
    \/ RateAllows(r) \/ RateExceeded(r)
    \/ ReadCounter(r) \/ Decrement(r)
    \/ RedisFails(r)

Next ==
    \/ \E w \in Workers, r \in Requests : Arrive(w, r)
    \/ \E r \in Requests : Step(r) \/ HandlerEnds(r) \/ UncheckedEnds(r)
    \/ CounterExpires
    \/ \E w \in Workers : WorkerDies(w)

Spec == Init /\ [][Next]_vars

\* A worker goes on with the request it is at, every Redis command returns or
\* times out (socket_timeout), and handlers end.
Fairness ==
    \A r \in Requests : /\ WF_vars(Step(r))
                        /\ WF_vars(HandlerEnds(r)) /\ WF_vars(UncheckedEnds(r))

FairSpec == Spec /\ Fairness

------------------------------------------------------------------------------
(* Properties.                                                              *)

TypeOK ==
    /\ place \in [Requests -> Place]
    /\ home \in [Requests -> Workers \cup {NoWorker}]
    /\ \A r \in Requests : place[r] # "new" => home[r] \in Workers
    /\ after \in [Requests -> After]
    /\ ran \in [Requests -> Nat]
    /\ counter \in Int
    /\ expiring \in BOOLEAN
    /\ lost \in Nat
    /\ faulty \in BOOLEAN

\* The requests that have incremented the counter and not decremented it yet,
\* and those that have passed the check and not incremented it yet.
Counted == {r \in Requests :
              place[r] \in {"expire", "rate", "handling", "read", "decrement"}}
Passed == {r \in Requests : place[r] = "increment"}

\* The counter never falls behind the requests it stands for, but for what
\* expired: no failed or half-done command, death or interleaving of the GET
\* and DECR of several workers makes it forget a request in progress.  Without
\* failures and expiry it is exact: no outcome of a request (response, 429 of the
\* rate check, exception of the handler) leaks a slot.
NothingForgotten == counter + lost >= Cardinality(Counted)
NothingLeaks == ~faulty /\ lost = 0 => counter = Cardinality(Counted)
CounterCovers == NothingForgotten /\ NothingLeaks

\* A user has at most Limit requests in progress on the limited path, and one
\* more for every other worker that checks at the same time: the GET and the
\* INCR are two commands.
ConcurrencyBound ==
    Cardinality(Counted) + Cardinality(Passed)
        <= Limit + Cardinality(Workers) - 1 + lost

\* A worker executes at most one request at a time between Redis commands.
OneAtATime ==
    \A r, s \in Requests :
        home[r] = home[s] /\ place[r] \in InWorker /\ place[s] \in InWorker
            => r = s

\* "Don't block request on rate limiter errors": the request goes around the
\* limiter, and its handler is called again, only after an error of the limiter.
\* (The `except Exception` also catches what the handler itself raised.)
RerunOnlyOnLimiterError == \A r \in Requests : ran[r] > 1 => faulty

\* Every request that arrives is answered, or dies with its worker.
EveryRequestEnds ==
    \A r \in Requests : place[r] = "check" ~> place[r] \in Ended

==============================================================================
