---------------------------- MODULE GatewayLimiter ----------------------------
(****************************************************************************)
(* The limits on an agent's request rate that every query passes:           *)
(* QueryGateway.authenticate_request and check_rate_limit                   *)
(* (query/gateway.py), called by the REST and the gRPC service.             *)
(*                                                                          *)
(* Counters in Redis, for one agent, are shared by several worker           *)
(* processes.  A counter belongs to a fixed window of time (the minute, or  *)
(* the burst window of ten seconds): its key ends in the index of the       *)
(* window, and is given a lifetime of the window's length by whoever        *)
(* increments it first.  The workers interleave at every Redis command,     *)
(* and a worker may be slow, so that it increments the counter of a window  *)
(* that is over.                                                            *)
(****************************************************************************)
EXTENDS Integers, FiniteSets

CONSTANTS
    Requests,   \* requests of one agent
    Window,     \* [Kinds -> Nat]: the length of a window
    Limit,      \* [Kinds -> Nat]: how many requests may pass in one
    Horizon     \* bound: the last moment of time

\* The burst limit is checked first.
Kinds == {"burst", "minute"}

ASSUME GatewayAssumption ==
    /\ Window \in [Kinds -> Nat \ {0}]
    /\ Limit \in [Kinds -> Nat]
    /\ Horizon \in Nat

VARIABLES
    now,        \* the clock of the workers and of Redis
    req,        \* [Requests -> Request]
    count,      \* [Kinds -> [Index -> Nat]]: the counters, 0 if there is none
    deadline,   \* [Kinds -> [Index -> Nat]]: when a counter expires, or Never
    neglected   \* history: [Kinds -> SUBSET Index]: the counters a command on
                \* which failed, or whose worker died

vars == <<now, req, count, deadline, neglected>>

------------------------------------------------------------------------------
Time == 0..Horizon
Index == Time       \* window w of a kind k: the times t with t \div Window[k] = w
Never == 0          \* no deadline is 0, as no window is empty

Counting == {"incr", "expire"}
Answered == {"admitted", "refused", "unchecked", "unauthorized", "gone"}

Request == [at     : {"new"} \cup Counting \cup Answered,
            kind   : Kinds,             \* the counter it is at, or was refused by
            time   : Time,              \* current_time
            got    : [Kinds -> Nat],    \* burst_count and minute_count
            prompt : SUBSET Kinds]      \* history: incremented in its own window

IndexOf(r, k) == req[r].time \div Window[k]

Init ==
    /\ now = 0
    /\ req = [r \in Requests |->
                [at |-> "new", kind |-> "burst", time |-> 0,
                 got |-> [k \in Kinds |-> 0], prompt |-> {}]]
    /\ count = [k \in Kinds |-> [w \in Index |-> 0]]
    /\ deadline = [k \in Kinds |-> [w \in Index |-> Never]]
    /\ neglected = [k \in Kinds |-> {}]

------------------------------------------------------------------------------
\* On to the next counter, or return.
Pass(q) ==
    IF q.kind = "burst" THEN [q EXCEPT !.at = "incr", !.kind = "minute"]
                        ELSE [q EXCEPT !.at = "admitted"]

\* A slip: the limit itself is refused.
Judge_OffByOne(q) ==
    IF q.got[q.kind] >= Limit[q.kind] THEN [q EXCEPT !.at = "refused"] ELSE Pass(q)

\* The comparison with the limit: raise RateLimitExceededError, or pass.
Judge(q) ==
    IF q.got[q.kind] > Limit[q.kind] THEN [q EXCEPT !.at = "refused"] ELSE Pass(q)

\* verify_token fails: 401, before anything is counted.
RejectToken(r) ==
    /\ req[r].at = "new"
    /\ req' = [req EXCEPT ![r].at = "unauthorized"]
    /\ UNCHANGED <<now, count, deadline, neglected>>

\* The token is valid: check_rate_limit reads the clock, once.
Authenticate(r) ==
    /\ req[r].at = "new"
    /\ req' = [req EXCEPT ![r].at = "incr", ![r].time = now]
    /\ UNCHANGED <<now, count, deadline, neglected>>

\* INCR: creates the counter if there is none.
Incr(r) ==
    LET k == req[r].kind
        w == IndexOf(r, k)
        n == count[k][w] + 1
        q == [req[r] EXCEPT
               !.got[k] = n,
               !.prompt = IF now \div Window[k] = w THEN @ \cup {k} ELSE @] IN
    /\ req[r].at = "incr"
    /\ count' = [count EXCEPT ![k][w] = n]
    /\ req' = [req EXCEPT ![r] = IF n = 1 THEN [q EXCEPT !.at = "expire"]
                                          ELSE Judge(q)]
    /\ UNCHANGED <<now, deadline, neglected>>

\* EXPIRE, with the length of the window; does nothing if there is no key.
SetDeadline(k, w, length) ==
    deadline' = [deadline EXCEPT ![k][w] = IF count[k][w] > 0 THEN now + length
                                                             ELSE @]

\* A slip: every counter lives as long as the one of the burst window.
Expire_BurstLength(r) ==
    /\ req[r].at = "expire"
    /\ SetDeadline(req[r].kind, IndexOf(r, req[r].kind), Window["burst"])
    /\ req' = [req EXCEPT ![r] = Judge(@)]
    /\ UNCHANGED <<now, count, neglected>>

\* A slip: always the burst counter is given a lifetime.
Expire_WrongKey(r) ==
    /\ req[r].at = "expire"
    /\ SetDeadline("burst", IndexOf(r, "burst"), Window[req[r].kind])
    /\ req' = [req EXCEPT ![r] = Judge(@)]
    /\ UNCHANGED <<now, count, neglected>>

Expire(r) ==
    /\ req[r].at = "expire"
    /\ SetDeadline(req[r].kind, IndexOf(r, req[r].kind), Window[req[r].kind])
    /\ req' = [req EXCEPT ![r] = Judge(@)]
    /\ UNCHANGED <<now, count, neglected>>

\* A command raises a RedisError, before or after it took effect: fail open.
CommandFails(r) ==
    LET k == req[r].kind
        w == IndexOf(r, k) IN
    /\ req[r].at \in Counting
    /\ \/ UNCHANGED <<count, deadline>>
       \/ /\ req[r].at = "incr"
          /\ count' = [count EXCEPT ![k][w] = @ + 1]
          /\ UNCHANGED deadline
       \/ /\ req[r].at = "expire"
          /\ SetDeadline(k, w, Window[k])
          /\ UNCHANGED count
    /\ req' = [req EXCEPT ![r].at = "unchecked"]
    /\ neglected' = [neglected EXCEPT ![k] = @ \cup {w}]
    /\ UNCHANGED now

\* The worker dies between two commands.
WorkerDies(r) ==
    LET k == req[r].kind IN
    /\ req[r].at \in Counting
    /\ req' = [req EXCEPT ![r].at = "gone"]
    /\ neglected' = [neglected EXCEPT ![k] = @ \cup {IndexOf(r, k)}]
    /\ UNCHANGED <<now, count, deadline>>

\* Time passes, and with it the keys that have a deadline.
Over(k, w) == deadline[k][w] # Never /\ deadline[k][w] <= now + 1

Tick ==
    /\ now < Horizon
    /\ now' = now + 1
    /\ count' = [k \in Kinds |-> [w \in Index |->
                   IF Over(k, w) THEN 0 ELSE count[k][w]]]
    /\ deadline' = [k \in Kinds |-> [w \in Index |->
                      IF Over(k, w) THEN Never ELSE deadline[k][w]]]
    /\ UNCHANGED <<req, neglected>>

Next ==
    \/ \E r \in Requests :
         \/ RejectToken(r) \/ Authenticate(r)
         \/ Incr(r) \/ Expire(r) \/ CommandFails(r) \/ WorkerDies(r)
    \/ Tick

Spec == Init /\ [][Next]_vars

------------------------------------------------------------------------------
(* Properties.                                                              *)

\* Every variable has its type.
TypeOK ==
    /\ now \in Time
    /\ req \in [Requests -> Request]
    /\ count \in [Kinds -> [Index -> Nat]]
    /\ deadline \in [Kinds -> [Index -> Nat]]
    /\ neglected \in [Kinds -> SUBSET Index]

\* Those that passed both checks, and incremented the counter of window w of
\* kind k before that window was over.
AdmittedIn(k, w) ==
    {r \in Requests : /\ req[r].at = "admitted"
                      /\ k \in req[r].prompt
                      /\ IndexOf(r, k) = w}

\* No more requests than the limit pass the check in any minute of the clock,
\* nor in any burst window, whatever the interleaving of the workers, the
\* errors of Redis and the deaths of workers: the counter of a window is never
\* lost before the window is over.
WindowBound ==
    \A k \in Kinds, w \in Index : Cardinality(AdmittedIn(k, w)) <= Limit[k]

\* A request is refused only when more requests than the limit, with a valid
\* token, were made in the same window: no counter counts twice or for another
\* window.
Made(k, w) ==
    {r \in Requests : /\ req[r].at \notin {"new", "unauthorized"}
                      /\ IndexOf(r, k) = w}

NoEarlyRefusal ==
    \A r \in Requests :
        LET k == req[r].kind IN
        req[r].at = "refused" => Cardinality(Made(k, IndexOf(r, k))) > Limit[k]

\* Every counter that exists will expire, or its creator is about to see to
\* it, unless a command on it failed or a worker died: Redis does not fill up
\* with counters of the past.
KeysExpire ==
    \A k \in Kinds, w \in Index :
        count[k][w] > 0 /\ deadline[k][w] = Never
            => \/ w \in neglected[k]
               \/ \E r \in Requests : /\ req[r].at = "expire"
                                      /\ req[r].kind = k
                                      /\ IndexOf(r, k) = w

------------------------------------------------------------------------------
(* Why the bound holds: an inductive invariant.                             *)

\* A counter outlives its window.
OutlivesWindow ==
    \A k \in Kinds, w \in Index : deadline[k][w] # Never =>
        \A t \in Time : t \div Window[k] = w => t < deadline[k][w]

\* While its window lasts, a counter covers every value it has returned.
CoversReturned ==
    \A r \in Requests, k \in Kinds :
        k \in req[r].prompt /\ IndexOf(r, k) = now \div Window[k]
            => req[r].got[k] <= count[k][IndexOf(r, k)]

\* Within its window, a counter returns no value twice.
Distinct ==
    \A r, s \in Requests, k \in Kinds :
        r # s /\ k \in req[r].prompt \cap req[s].prompt
              /\ IndexOf(r, k) = IndexOf(s, k)
            => req[r].got[k] # req[s].got[k]

\* What a request has behind it: the counters it incremented, and the limits
\* it was found to keep.
Behind(q) ==
    /\ q.at = "new" => q.prompt = {} /\ q.kind = "burst"
    /\ q.at = "incr" => q.kind \notin q.prompt
    /\ q.kind = "burst" => "minute" \notin q.prompt
    /\ \A k \in q.prompt : q.got[k] > 0
    /\ q.at \in Counting /\ q.kind = "minute" => q.got["burst"] <= Limit["burst"]
    /\ q.at = "admitted" => \A k \in Kinds : q.got[k] <= Limit[k]

Judged == \A r \in Requests : req[r].time <= now /\ Behind(req[r])

GatewayInv ==
    TypeOK /\ OutlivesWindow /\ CoversReturned /\ Distinct /\ Judged

==============================================================================
