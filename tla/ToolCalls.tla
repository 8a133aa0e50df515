------------------------------ MODULE ToolCalls ------------------------------
(****************************************************************************)
(* How agents call the REST API: the functions of tools/bob_tools.py and    *)
(* the methods of BobClient (tools/client.py), with their retries           *)
(* (tenacity) and the pool of connections that `with BobClient()` keeps.    *)
(*                                                                          *)
(* Threads or tasks share one BobClient: it is in the toolset of an agent.  *)
(* They interleave wherever a call reads self._sync_client or waits; the    *)
(* asynchronous methods do the same with self._async_client.                *)
(****************************************************************************)
EXTENDS Naturals, FiniteSets

CONSTANTS
    Calls,          \* calls in progress at the same time
    Asked,          \* which function (<<"tool", t>>) or method (<<"client", t>>)
    Heard,          \* the answers that occur, of Responses
    Blocks,         \* with-blocks around calls
    MaxAttempts,    \* stop_after_attempt(3)
    NoClient

VARIABLES
    pool,       \* self._sync_client
    open,       \* the httpx clients that are open
    block,      \* [Blocks -> {"before", "inside", "closing", "after"}]
    call,       \* [Calls -> Call]
    \* history
    shared      \* a block was entered beside another, or during a call

toolVars == <<pool, open, block, call, shared>>

(****************************************************************************)
(* The server's answers, and what a call makes of them                      *)
(****************************************************************************)
Responses == {"ok", "malformed", "401", "404", "4xx", "5xx", "timeout", "unreachable"}
Network == {"timeout", "unreachable"}

\* How an attempt ends: with an answer, an exception of the package, one of httpx,
\* or any other ("bug": KeyError, AttributeError, RuntimeError).
Outcomes == {"answer", "QueryError", "QueryTimeoutError", "NotFound",
             "AuthenticationError", "HTTPError", "bug"}

\* BobClient._handle_response, and the reading of its fields.
HandleResponse(r) ==
    CASE r = "ok" -> "answer"           [] r = "malformed" -> "bug"
      [] r = "401" -> "AuthenticationError" [] r = "404" -> "NotFound"
      [] r = "5xx" -> "QueryError"      [] OTHER -> "HTTPError"

\* The methods of BobClient: only a search turns a timeout into its own error.
ClientSearch(r) == IF r = "timeout" THEN "QueryTimeoutError" ELSE HandleResponse(r)
ClientStackTrace(r) == HandleResponse(r)
ClientDependencies(r) == HandleResponse(r)
ClientBlastRadius(r) == HandleResponse(r)
ClientFile(r) == HandleResponse(r)
ClientDiff(r) == HandleResponse(r)

\* The functions of bob_tools turn every exception into a QueryError.
ToolSearch(r) ==
    CASE r = "ok" -> "answer" [] r = "timeout" -> "QueryTimeoutError" [] OTHER -> "QueryError"
ToolStackTrace(r) == IF r = "ok" THEN "answer" ELSE "QueryError"
ToolDependencies(r) == IF r = "ok" THEN "answer" ELSE "QueryError"
ToolBlastRadius(r) == IF r = "ok" THEN "answer" ELSE "QueryError"
ToolDiff(r) == IF r = "ok" THEN "answer" ELSE "QueryError"

\* get_file_content asks an httpx exception for its response, which those of the
\* network do not have.  Its own ResourceNotFoundError becomes a QueryError too.
ToolFile(r) ==
    CASE r = "ok" -> "answer" [] r \in Network -> "bug" [] OTHER -> "QueryError"

OutcomesOf ==
    [client |-> [search |-> [r \in Responses |-> ClientSearch(r)],
                 trace |-> [r \in Responses |-> ClientStackTrace(r)],
                 dependencies |-> [r \in Responses |-> ClientDependencies(r)],
                 radius |-> [r \in Responses |-> ClientBlastRadius(r)],
                 file |-> [r \in Responses |-> ClientFile(r)],
                 diff |-> [r \in Responses |-> ClientDiff(r)]],
     tool |-> [search |-> [r \in Responses |-> ToolSearch(r)],
               trace |-> [r \in Responses |-> ToolStackTrace(r)],
               dependencies |-> [r \in Responses |-> ToolDependencies(r)],
               radius |-> [r \in Responses |-> ToolBlastRadius(r)],
               file |-> [r \in Responses |-> ToolFile(r)],
               diff |-> [r \in Responses |-> ToolDiff(r)]]]

Apis == DOMAIN OutcomesOf
Tools == DOMAIN OutcomesOf.client

ASSUME ToolAssumption ==
    /\ MaxAttempts \in Nat \ {0}
    /\ Asked \subseteq Apis \X Tools /\ Heard \subseteq Responses
    /\ NoClient \notin (Calls \cup Blocks) \X (0 .. MaxAttempts)

\* retry_if_exception_type((httpx.HTTPError, QueryError)), of which
\* QueryTimeoutError is a subclass.
Retried(outcome) == outcome \in {"QueryError", "QueryTimeoutError", "HTTPError"}

(****************************************************************************)
(* State                                                                    *)
(****************************************************************************)
Idle == [at |-> "idle", api |-> "client", tool |-> "search",
         attempt |-> 0, client |-> NoClient, result |-> "none"]

ToolInit ==
    /\ pool = NoClient /\ open = {}
    /\ block = [b \in Blocks |-> "before"]
    /\ call = [c \in Calls |-> Idle]
    /\ shared = FALSE

InCall == {c \in Calls : call[c].at \in {"take", "send", "finally"}}

(****************************************************************************)
(* with BobClient() as client                                               *)
(****************************************************************************)
Enter(b) ==
    /\ block[b] = "before"
    /\ block' = [block EXCEPT ![b] = "inside"]
    /\ pool' = <<b, 0>>
    /\ open' = open \cup {<<b, 0>>}
    /\ shared' = (shared \/ InCall # {}
                         \/ \E a \in Blocks : block[a] \in {"inside", "closing"})
    /\ UNCHANGED <<call>>

\* __exit__ closes the pool, waits (aclose), and forgets it.
ExitClose(b) ==
    /\ block[b] = "inside"
    /\ block' = [block EXCEPT ![b] = IF pool = NoClient THEN "after" ELSE "closing"]
    /\ open' = open \ {pool}
    /\ UNCHANGED <<pool, call, shared>>

ExitForget(b) ==
    /\ block[b] = "closing"
    /\ block' = [block EXCEPT ![b] = "after"]
    /\ pool' = NoClient
    /\ UNCHANGED <<open, call, shared>>

(****************************************************************************)
(* A call                                                                   *)
(****************************************************************************)
Begin(c) ==
    /\ call[c].at = "idle"
    /\ \E a \in Asked :
        call' = [call EXCEPT ![c] = [Idle EXCEPT !.at = "take", !.attempt = 1,
                                                 !.api = a[1], !.tool = a[2]]]
    /\ UNCHANGED <<pool, open, block, shared>>

Own(c) == <<c, call[c].attempt>>

\* client = self._sync_client or httpx.Client(); a function of bob_tools always
\* makes its own.
Take(c) ==
    /\ call[c].at = "take"
    /\ LET mine == IF call[c].api = "client" /\ pool # NoClient THEN pool ELSE Own(c) IN
        /\ call' = [call EXCEPT ![c].at = "send", ![c].client = mine]
        /\ open' = IF mine = Own(c) THEN open \cup {mine} ELSE open
    /\ UNCHANGED <<pool, block, shared>>

Outcome(c, r) == OutcomesOf[call[c].api][call[c].tool][r]

\* Every request is answered or runs into the timeout of the client.
Send(c) ==
    /\ call[c].at = "send" /\ call[c].client \in open
    /\ \E r \in Heard :
        call' = [call EXCEPT ![c].at = "finally", ![c].result = Outcome(c, r)]
    /\ UNCHANGED <<pool, open, block, shared>>

\* A client that is closed refuses to send (RuntimeError); one that is closed
\* meanwhile breaks the connection.
SendClosed(c) ==
    /\ call[c].at = "send" /\ call[c].client \notin open
    /\ \/ call' = [call EXCEPT ![c].at = "finally", ![c].result = "bug"]
       \/ call' = [call EXCEPT ![c].at = "finally", ![c].result = Outcome(c, "unreachable")]
    /\ UNCHANGED <<pool, open, block, shared>>

\* A slip: a method leaves its own client open.
ClosesClient_None(c) == call[c].api = "tool"
\* finally: if not self._sync_client: client.close()
ClosesClient(c) == call[c].api = "tool" \/ pool = NoClient

LastAttempt(c) == call[c].attempt = MaxAttempts

\* A slip: attempts are not counted.
NextAttempt_Same(n) == n
NextAttempt(n) == n + 1

\* The attempt is over; tenacity waits and tries again, or raises RetryError.
Finally(c) ==
    /\ call[c].at = "finally"
    /\ open' = IF ClosesClient(c) THEN open \ {call[c].client} ELSE open
    /\ call' = [call EXCEPT ![c] =
            CASE ~Retried(@.result) -> [@ EXCEPT !.at = "done", !.client = NoClient]
              [] Retried(@.result) /\ LastAttempt(c) ->
                    [@ EXCEPT !.at = "done", !.client = NoClient, !.result = "RetryError"]
              [] OTHER -> [@ EXCEPT !.at = "take", !.client = NoClient,
                                    !.result = "none",
                                    !.attempt = NextAttempt(call[c].attempt)]]
    /\ UNCHANGED <<pool, block, shared>>

CallStep(c) == Take(c) \/ Send(c) \/ SendClosed(c) \/ Finally(c)

ToolNext ==
    \/ \E b \in Blocks : Enter(b) \/ ExitClose(b) \/ ExitForget(b)
    \/ \E c \in Calls : Begin(c) \/ CallStep(c)

ToolSpec == ToolInit /\ [][ToolNext]_toolVars

ToolFairness == \A c \in Calls : WF_toolVars(CallStep(c))

------------------------------------------------------------------------------
\* No connection is left open: as long as with-blocks neither overlap nor begin
\* during a call, each open client is the pool's or an attempt's that will close
\* it (BobClient.__exit__ and the finally clauses).
NoClientLeaks ==
    ~shared => open \subseteq {pool} \cup {call[c].client : c \in InCall}

\* Every call ends, whatever the server does: requests time out and attempts are
\* counted (the @retry decorators).
CallsEnd == \A c \in Calls : call[c].at = "take" ~> call[c].at = "done"
==============================================================================
