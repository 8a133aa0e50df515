--------------------------- MODULE CircuitBreaker ---------------------------
(****************************************************************************)
(* utils/circuit_breaker.py: the calls of several threads through one       *)
(* breaker.  It takes no lock: each read and write of an attribute, and     *)
(* each look at the clock, is a step.                                       *)
(****************************************************************************)
EXTENDS Integers, FiniteSets

CONSTANTS
    Threads,
    MaxFailures, ResetTimeout,
    MaxTime,        \* bound: of the clock
    MaxCalls        \* bound: how many calls a thread makes

ASSUME BreakerAssumption ==
    /\ MaxFailures \in Nat \ {0} /\ ResetTimeout \in Nat
    /\ MaxTime \in Nat /\ MaxCalls \in Nat

VARIABLES
    now,
    state,          \* "CLOSED", "OPEN", "HALF_OPEN"
    failures,
    lastFailure,    \* last_failure_time
    thread,         \* [Threads -> where it is, and the number it has read]
    \* history
    alone,          \* no two calls were ever in progress at the same time
    failed,         \* how many calls failed
    opened,         \* lastFailure when the breaker was opened last
    stale,          \* calls that had decided by then to try, to close or to date an
                    \*   earlier failure, and have yet to do it
    held            \* it was opened, and none of them has undone it

past == <<alone, failed, opened, stale, held>>
breakerVars == <<now, state, failures, lastFailure, thread, past>>

Waiting == [at |-> "ready", read |-> 0, calls |-> 0]

BreakerInit ==
    /\ now = 0 /\ state = "CLOSED" /\ failures = 0 /\ lastFailure = 0
    /\ thread = [t \in Threads |-> Waiting]
    /\ alone = TRUE /\ failed = 0
    /\ opened = 0 /\ stale = {} /\ held = FALSE

GoWith(t, at, n) == thread' = [thread EXCEPT ![t].at = at, ![t].read = n]
Go(t, at) == GoWith(t, at, 0)
Busy == {t \in Threads : thread[t].at # "ready"}

TimePasses ==
    /\ now < MaxTime /\ now' = now + 1
    /\ UNCHANGED <<state, failures, lastFailure, thread, past>>

\* `if self.state == "OPEN"`
Admit(t) ==
    /\ thread[t].at = "ready" /\ thread[t].calls < MaxCalls
    /\ thread' = [thread EXCEPT ![t].at = IF state = "OPEN" THEN "clock" ELSE "run",
                                ![t].calls = @ + 1]
    /\ alone' = (alone /\ Busy = {})
    /\ UNCHANGED <<now, state, failures, lastFailure, failed, opened, stale, held>>

ReadClock(t) ==
    /\ thread[t].at = "clock" /\ GoWith(t, "compare", now)
    /\ UNCHANGED <<now, state, failures, lastFailure, past>>

\* A slip: at the timeout, and not after it.
Elapsed_At(t) == thread[t].read - lastFailure >= ResetTimeout

\* time.time() - self.last_failure_time > self.reset_timeout
Elapsed(t) == thread[t].read - lastFailure > ResetTimeout

\* Otherwise CircuitBreakerOpenError.
Compare(t) ==
    /\ thread[t].at = "compare"
    /\ Go(t, IF Elapsed(t) THEN "half" ELSE "ready")
    /\ UNCHANGED <<now, state, failures, lastFailure, past>>

\* What t has decided takes effect.
Overrides(t) ==
    /\ held' = (held /\ t \notin stale)
    /\ stale' = stale \ {t}
    /\ UNCHANGED <<alone, failed, opened>>

HalfOpen(t) ==
    /\ thread[t].at = "half" /\ Go(t, "run")
    /\ state' = "HALF_OPEN"
    /\ Overrides(t)
    /\ UNCHANGED <<now, failures, lastFailure>>

\* The function succeeds: `if self.state == "HALF_OPEN"`.
Succeed(t) ==
    /\ thread[t].at = "run"
    /\ Go(t, IF state = "HALF_OPEN" THEN "close" ELSE "ready")
    /\ UNCHANGED <<now, state, failures, lastFailure, past>>

CloseBreaker(t) ==
    /\ thread[t].at = "close" /\ Go(t, "reset")
    /\ state' = "CLOSED"
    /\ Overrides(t)
    /\ UNCHANGED <<now, failures, lastFailure>>

\* A slip: the count is kept.
Reset_Keep == failures
Reset == 0

ResetFailures(t) ==
    /\ thread[t].at = "reset" /\ Go(t, "ready")
    /\ failures' = Reset
    /\ UNCHANGED <<now, state, lastFailure, past>>

\* The function fails: self.failures += 1 reads and writes.
Fail(t) ==
    /\ thread[t].at = "run" /\ GoWith(t, "count", failures)
    /\ failed' = failed + 1
    /\ UNCHANGED <<now, state, failures, lastFailure, alone, opened, stale, held>>

CountFailure(t) ==
    /\ thread[t].at = "count" /\ Go(t, "date")
    /\ failures' = thread[t].read + 1
    /\ UNCHANGED <<now, state, lastFailure, past>>

\* self.last_failure_time = time.time()
TimeFailure(t) ==
    /\ thread[t].at = "date" /\ GoWith(t, "stamp", now)
    /\ UNCHANGED <<now, state, failures, lastFailure, past>>

DateFailure(t) ==
    /\ thread[t].at = "stamp" /\ Go(t, "judge")
    /\ lastFailure' = thread[t].read
    /\ Overrides(t)
    /\ UNCHANGED <<now, state, failures>>

\* if self.failures >= self.max_failures
TooMany == failures >= MaxFailures

Judge(t) ==
    /\ thread[t].at = "judge"
    /\ Go(t, IF TooMany THEN "open" ELSE "ready")
    /\ UNCHANGED <<now, state, failures, lastFailure, past>>

Undecided(u) ==
    /\ thread[u].at \notin {"half", "close"}
    /\ thread[u].at = "stamp" => thread[u].read >= lastFailure

OpenBreaker(t) ==
    /\ thread[t].at = "open" /\ Go(t, "ready")
    /\ state' = "OPEN"
    /\ held' = TRUE /\ opened' = lastFailure
    /\ stale' = {u \in Threads : ~Undecided(u)}
    /\ UNCHANGED <<now, failures, lastFailure, alone, failed>>

BreakerNext ==
    \/ TimePasses
    \/ \E t \in Threads :
        \/ Admit(t) \/ ReadClock(t) \/ Compare(t) \/ HalfOpen(t)
        \/ Succeed(t) \/ CloseBreaker(t) \/ ResetFailures(t)
        \/ Fail(t) \/ CountFailure(t) \/ TimeFailure(t) \/ DateFailure(t)
        \/ Judge(t) \/ OpenBreaker(t)

BreakerSpec == BreakerInit /\ [][BreakerNext]_breakerVars

------------------------------------------------------------------------------
\* It takes as many failures as the maximum for the breaker to open: those of
\* several threads may be counted once, but none is invented.  Used by one call at
\* a time it is closed exactly while it counts less than the maximum, and lets no
\* call through before the timeout has passed since the failure that opened it;
\* threads keep neither, as a reset that comes late leaves it open with no failures
\* counted (call).
OpensForCause ==
    /\ failures <= failed
    /\ state # "CLOSED" => failed >= MaxFailures
    /\ alone =>
        /\ Busy = {} => (state = "CLOSED" <=> failures < MaxFailures)
        /\ \A t \in Threads : thread[t].at = "run" =>
            state = "CLOSED" \/ (state = "HALF_OPEN" /\ now > lastFailure + ResetTimeout)

\* However many threads try, succeed and fail at once, a breaker that was opened stays
\* open until the timeout has passed since the last failure by then.  Only a call
\* that had made up its mind before can cut that short: one that found the breaker
\* half-open or the timeout of an earlier opening passed, or that overwrites the
\* date with an earlier one (call, which decides and acts without a lock).
OpenHolds == held /\ state # "OPEN" => now > opened + ResetTimeout
==============================================================================
