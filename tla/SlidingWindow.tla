---------------------------- MODULE SlidingWindow ----------------------------
(****************************************************************************)
(* The limits on a user's request rate: check_rate_limit and record_request *)
(* of RateLimiter (security/rate_limiter.py), as RateLimitMiddleware        *)
(* (security/middleware.py) calls them for every request.                   *)
(*                                                                          *)
(* A window is a sorted set in Redis of the requests recorded, scored by    *)
(* their time; a check removes those that are too old and counts the rest.  *)
(* A request is recorded only after it passed the checks of all windows.    *)
(* The Redis client is synchronous, so that a worker process checks and     *)
(* records one request without interruption; the workers interleave at      *)
(* every Redis command, and a worker may be slow, so that it works with a   *)
(* time that is over.                                                       *)
(****************************************************************************)
EXTENDS Integers, FiniteSets

CONSTANTS
    Workers,        \* the number of worker processes
    Requests,       \* requests of one user
    Endpoints,
    Endpoint,       \* [Requests -> Endpoints]: the path of a request
    Depth,          \* the number of windows (in the code: hour, minute, burst)
    PerEndpoint,    \* those that are counted for each endpoint (hour, minute)
    Length,         \* [Windows -> Nat]: the length of a window
    Limit,          \* [Windows -> [Scopes -> Nat]]: after the multiplier
    Buffer,         \* how much longer than its window a key lives (60 seconds)
    Horizon,        \* bound: the last moment of time
    MaxFaults       \* bound: how many requests meet a failing command or the
                    \* death of their worker

\* In the order in which they are checked and recorded.
Windows == 1..Depth

\* The scope of a window's key: an endpoint, or the user.
User == "user"
Scopes == Endpoints \cup {User}

ASSUME SlidingAssumption ==
    /\ Workers \in Nat \ {0}
    /\ IsFiniteSet(Requests)
    /\ Endpoint \in [Requests -> Endpoints]
    /\ User \notin Endpoints
    /\ Depth \in Nat \ {0}
    /\ PerEndpoint \subseteq Windows
    /\ Length \in [Windows -> Nat \ {0}]
    /\ Limit \in [Windows -> [Scopes -> Nat]]
    /\ Buffer \in Nat
    /\ Horizon \in Nat
    /\ MaxFaults \in Nat

VARIABLES
    now,        \* the clock of the workers and of Redis
    at,         \* [Requests -> Place]: the next command of each request
    window,     \* [Requests -> Windows]: the one it is at, or was refused by
    read,       \* [Requests -> Time]: `now` of check_rate_limit
    stamp,      \* [Requests -> Time]: `now` of record_request, the score
    retry,      \* [Requests -> Int]: retry_after of the refusal
    entries,    \* [Windows -> [Scopes -> SUBSET Requests]]: the sorted sets
    deadline,   \* [Windows -> [Scopes -> Nat]]: when a key expires, or Never
    added,      \* history: [Requests -> SUBSET Windows]: it was added to a set,
    late,       \*   when it was too old for the window already,
    unlucky     \*   or its key expired between ZADD and EXPIRE

request == <<at, window, read, stamp, retry>>
redis == <<entries, deadline>>
history == <<added, late, unlucky>>
vars == <<now, request, redis, history>>

------------------------------------------------------------------------------
Time == 0..Horizon
Never == 0      \* no deadline is 0, as no window is empty

Checking == {"trim", "count", "oldest"}
Recording == {"record", "add", "expire"}
InWorker == Checking \cup Recording
Answered == {"admitted", "refused", "unchecked", "gone"}
Place == {"new"} \cup InWorker \cup Answered

Scope(r, k) == IF k \in PerEndpoint THEN Endpoint[r] ELSE User

Busy == {r \in Requests : at[r] \in InWorker}

Goto(r, p) == at' = [at EXCEPT ![r] = p]

Init ==
    /\ now = 0
    /\ at = [r \in Requests |-> "new"]
    /\ window = [r \in Requests |-> 1]
    /\ read = [r \in Requests |-> 0]
    /\ stamp = [r \in Requests |-> 0]
    /\ retry = [r \in Requests |-> 0]
    /\ entries = [k \in Windows |-> [s \in Scopes |-> {}]]
    /\ deadline = [k \in Windows |-> [s \in Scopes |-> Never]]
    /\ added = [r \in Requests |-> {}]
    /\ late = [r \in Requests |-> {}]
    /\ unlucky = [r \in Requests |-> {}]

------------------------------------------------------------------------------
(* The Redis commands.  A key exists as long as its set is not empty.       *)

\* A slip: the moment at which the window begins still counts.
Recent_Inclusive(k, s, t) == {r \in entries[k][s] : stamp[r] >= t - Length[k]}

Recent(k, s, t) == {r \in entries[k][s] : stamp[r] > t - Length[k]}

\* ZREMRANGEBYSCORE, for a check at time t.
Trimmed(k, s, t) ==
    /\ entries' = [entries EXCEPT ![k][s] = Recent(k, s, t)]
    /\ deadline' = [deadline EXCEPT ![k][s] =
                      IF Recent(k, s, t) = {} THEN Never ELSE @]
    /\ UNCHANGED history

\* ZADD.
Added(k, s, r) ==
    /\ entries' = [entries EXCEPT ![k][s] = @ \cup {r}]
    /\ added' = [added EXCEPT ![r] = @ \cup {k}]
    /\ late' = [late EXCEPT ![r] = IF stamp[r] > now - Length[k]
                                   THEN @ ELSE @ \cup {k}]
    /\ UNCHANGED <<deadline, unlucky>>

\* EXPIRE; does nothing if there is no key.
Extended(k, s) ==
    /\ deadline' = [deadline EXCEPT ![k][s] =
                      IF entries[k][s] = {} THEN @ ELSE now + Length[k] + Buffer]
    /\ UNCHANGED <<entries, history>>

------------------------------------------------------------------------------
(* check_rate_limit.                                                        *)

\* The middleware calls it on a worker that is not busy with another request.
Enter(r) ==
    /\ at[r] = "new"
    /\ Cardinality(Busy) < Workers
    /\ Goto(r, "trim")
    /\ read' = [read EXCEPT ![r] = now]
    /\ UNCHANGED <<now, window, stamp, retry, redis, history>>

\* _get_request_count: remove the old entries ...
Trim(r) ==
    /\ at[r] = "trim"
    /\ Trimmed(window[r], Scope(r, window[r]), read[r])
    /\ Goto(r, "count")
    /\ UNCHANGED <<now, window, read, stamp, retry>>

\* On to the next window, or at the last one to p, and the first window again.
NextWindow(r, p, last) ==
    /\ Goto(r, IF window[r] = Depth THEN last ELSE p)
    /\ window' = [window EXCEPT ![r] = IF window[r] = Depth THEN 1 ELSE @ + 1]

Entries(r) == Cardinality(entries[window[r]][Scope(r, window[r])])
LimitOf(r) == Limit[window[r]][Scope(r, window[r])]

\* A slip: one more than the limit passes.
Count_OffByOne(r) ==
    /\ at[r] = "count"
    /\ IF Entries(r) > LimitOf(r) THEN Goto(r, "oldest") /\ UNCHANGED window
                                  ELSE NextWindow(r, "trim", "record")
    /\ UNCHANGED <<now, read, stamp, retry, redis, history>>

\* ... and count the rest (ZCARD); go on if they are fewer than the limit.
Count(r) ==
    /\ at[r] = "count"
    /\ IF Entries(r) >= LimitOf(r) THEN Goto(r, "oldest") /\ UNCHANGED window
                                   ELSE NextWindow(r, "trim", "record")
    /\ UNCHANGED <<now, read, stamp, retry, redis, history>>

\* _get_window_reset: when the oldest entry leaves the window.
ResetAt(r) ==
    LET k == window[r]
        stamps == {stamp[q] : q \in entries[k][Scope(r, k)]} IN
    IF stamps = {} THEN read[r] + Length[k]
                   ELSE (CHOOSE t \in stamps : \A u \in stamps : t <= u) + Length[k]

\* raise RateLimitExceededError: 429, with the time to wait.
Refuse(r) ==
    /\ at[r] = "oldest"
    /\ Goto(r, "refused")
    /\ retry' = [retry EXCEPT ![r] = ResetAt(r) - read[r]]
    /\ UNCHANGED <<now, window, read, stamp, redis, history>>

------------------------------------------------------------------------------
(* record_request.                                                          *)

\* It reads the clock again.
Record(r) ==
    /\ at[r] = "record"
    /\ Goto(r, "add")
    /\ stamp' = [stamp EXCEPT ![r] = now]
    /\ UNCHANGED <<now, window, read, retry, redis, history>>

\* _record_in_window: add the request ...
Add(r) ==
    /\ at[r] = "add"
    /\ Added(window[r], Scope(r, window[r]), r)
    /\ Goto(r, "expire")
    /\ UNCHANGED <<now, window, read, stamp, retry>>

\* ... and let the key live for the window and the buffer.
Expire(r) ==
    /\ at[r] = "expire"
    /\ Extended(window[r], Scope(r, window[r]))
    /\ NextWindow(r, "add", "admitted")
    /\ UNCHANGED <<now, read, stamp, retry>>

------------------------------------------------------------------------------
(* Faults, other readers, and time.                                         *)

FaultsLeft ==
    Cardinality({r \in Requests : at[r] \in {"unchecked", "gone"}}) < MaxFaults

\* The command that the request is at takes effect.
Effect(r) ==
    LET k == window[r]
        s == Scope(r, k) IN
    \/ at[r] = "trim" /\ Trimmed(k, s, read[r])
    \/ at[r] = "add" /\ Added(k, s, r)
    \/ at[r] = "expire" /\ Extended(k, s)

\* A command raises a RedisError, before or after it took effect: the
\* middleware calls the handler all the same.
CommandFails(r) ==
    /\ at[r] \in InWorker /\ FaultsLeft
    /\ Effect(r) \/ UNCHANGED <<redis, history>>
    /\ Goto(r, "unchecked")
    /\ UNCHANGED <<now, window, read, stamp, retry>>

\* The worker dies between two commands.
WorkerDies(r) ==
    /\ at[r] \in InWorker /\ FaultsLeft
    /\ Goto(r, "gone")
    /\ UNCHANGED <<now, window, read, stamp, retry, redis, history>>

\* get_usage_stats, by anybody who read the clock at time t, removes the old
\* entries of an endpoint's key, too.
Observe(k, s, t) ==
    /\ t <= now
    /\ Trimmed(k, s, t)
    /\ UNCHANGED <<now, request>>

\* Time passes, and with it the keys that have a deadline.
Over(k, s) == deadline[k][s] # Never /\ deadline[k][s] <= now + 1

Tick ==
    /\ now < Horizon
    /\ now' = now + 1
    /\ entries' = [k \in Windows |-> [s \in Scopes |->
                     IF Over(k, s) THEN {} ELSE entries[k][s]]]
    /\ deadline' = [k \in Windows |-> [s \in Scopes |->
                      IF Over(k, s) THEN Never ELSE deadline[k][s]]]
    /\ unlucky' = [r \in Requests |->
                     LET k == window[r]
                         s == Scope(r, k) IN
                     IF at[r] = "expire" /\ r \in entries[k][s] /\ Over(k, s)
                     THEN unlucky[r] \cup {k} ELSE unlucky[r]]
    /\ UNCHANGED <<request, added, late>>

Next ==
    \/ \E r \in Requests :
         \/ Enter(r)
         \/ Trim(r) \/ Count(r) \/ Refuse(r)
         \/ Record(r) \/ Add(r) \/ Expire(r)
         \/ CommandFails(r) \/ WorkerDies(r)
    \/ \E k \in PerEndpoint, s \in Endpoints, t \in Time : Observe(k, s, t)
    \/ Tick

Spec == Init /\ [][Next]_vars

------------------------------------------------------------------------------
(* Properties.                                                              *)

\* Every variable has its type.
TypeOK ==
    /\ now \in Time
    /\ at \in [Requests -> Place]
    /\ window \in [Requests -> Windows]
    /\ read \in [Requests -> Time]
    /\ stamp \in [Requests -> Time]
    /\ retry \in [Requests -> Int]
    /\ entries \in [Windows -> [Scopes -> SUBSET Requests]]
    /\ deadline \in [Windows -> [Scopes -> Nat]]
    /\ added \in [Requests -> SUBSET Windows]
    /\ late \in [Requests -> SUBSET Windows]
    /\ unlucky \in [Requests -> SUBSET Windows]

\* The requests to an endpoint, or of the user, that were admitted, and recorded
\* at a time of the window that ends with t.
Concerns(r, s) == s \in {User, Endpoint[r]}

AdmittedIn(k, s, t) ==
    {r \in Requests : /\ at[r] = "admitted"
                      /\ Concerns(r, s)
                      /\ stamp[r] \in (t - Length[k] + 1)..t
                      /\ k \notin unlucky[r]}

Limited(k) == IF k \in PerEndpoint THEN Endpoints ELSE {User}

\* No window, whenever it ends, admits more requests than its limit and one
\* for each further worker: the requests that all pass the check before any is
\* recorded are bounded by the workers, whatever fails and however slow they
\* are.  (But for a request whose key expires between its ZADD and EXPIRE.)
WindowBound ==
    \A k \in Windows, t \in Time : \A s \in Limited(k) :
        Cardinality(AdmittedIn(k, s, t)) <= Limit[k][s] + Workers - 1

\* A request is refused only when as many requests as the limit were recorded
\* in the window that ends with its time, or since; but for those that a slow
\* worker recorded too late.  What a key holds from earlier times does not count.
\* It is told to wait, and for some time, but for entries that came too late.
RecordedSince(k, s, t) ==
    {q \in Requests : /\ k \in added[q] /\ Scope(q, k) = s
                      /\ stamp[q] > t \/ k \in late[q]}

NoEarlyRefusal ==
    \A r \in Requests :
        LET k == window[r]
            s == Scope(r, k) IN
        at[r] = "refused" =>
            /\ Cardinality(RecordedSince(k, s, read[r] - Length[k])) >= Limit[k][s]
            /\ \/ retry[r] > 0
               \/ \E q \in Requests : Scope(q, k) = s /\ k \in late[q]

------------------------------------------------------------------------------
(* Why the bound holds: an inductive invariant.                             *)

\* How far a request is with window k: it passed the check, it was added, its
\* key was given a lifetime.
HasPassed(r, k) ==
    \/ at[r] \in Recording \cup {"admitted"}
    \/ at[r] \in Checking /\ window[r] > k

HasStamp(r) == at[r] \in {"add", "expire", "admitted"}

HasExpire(r, k) ==
    \/ at[r] = "admitted"
    \/ at[r] \in {"add", "expire"} /\ window[r] > k

HasEntry(r, k) ==
    \/ HasExpire(r, k)
    \/ at[r] = "expire" /\ window[r] = k

\* Times are not in the future, and no worker has two requests in hand.
TimesPast == \A r \in Requests : read[r] <= now /\ stamp[r] <= now

FirstWindow == \A r \in Requests : at[r] \in {"new", "record"} => window[r] = 1

BusyBound == Cardinality(Busy) <= Workers

\* An entry is in its set as long as it is in the window: no check removes it,
\* and its key does not expire earlier.
EntriesKept ==
    \A r \in Requests, k \in Windows :
        /\ HasEntry(r, k) /\ k \notin unlucky[r]
        /\ stamp[r] > now - Length[k]
        => r \in entries[k][Scope(r, k)]

KeysOutlive ==
    \A r \in Requests, k \in Windows :
        /\ HasExpire(r, k) /\ r \in entries[k][Scope(r, k)]
        /\ deadline[k][Scope(r, k)] # Never
        => deadline[k][Scope(r, k)] >= stamp[r] + Length[k]

\* The requests that are recorded in the window that ends with t, or may still
\* be: those that passed its check and have not read their time yet.
InWindow(r, k, t) ==
    /\ HasPassed(r, k) /\ k \notin unlucky[r]
    /\ IF HasStamp(r) THEN stamp[r] > t - Length[k] /\ stamp[r] <= t ELSE t >= now

Claims(k, s, t) ==
    {r \in Requests : Concerns(r, s) /\ InWindow(r, k, t)}

ClaimBound ==
    \A k \in Windows, t \in Time : \A s \in Limited(k) :
        Cardinality(Claims(k, s, t)) <= Limit[k][s] + Workers - 1

SlidingInv ==
    /\ TypeOK /\ TimesPast /\ FirstWindow /\ BusyBound
    /\ EntriesKept /\ KeysOutlive /\ ClaimBound

==============================================================================
