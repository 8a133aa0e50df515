----------------------------- MODULE AgentState -----------------------------
(****************************************************************************)
(* What the agents that work on an incident share: the snapshots of         *)
(* BobStateManager (tools/langgraph_integration.py), which they fill from   *)
(* several threads.                                                         *)
(*                                                                          *)
(* A snapshot is an object that threads hold on to.  They interleave at     *)
(* every access to one of its dictionaries.                                 *)
(****************************************************************************)
EXTENDS Naturals, FiniteSets

CONSTANTS
    Agents, Incidents, AgentTools,
    MaxSnapshots,   \* bound: how many are created
    MaxStores,      \* bound: how many responses an agent stores
    NoSnapshot

ASSUME AgentAssumption == MaxSnapshots \in Nat /\ MaxStores \in Nat

VARIABLES
    snapshots,      \* [Incidents -> number of a snapshot, or NoSnapshot]
    responses,      \* [snapshot -> [tool -> responses]], for the tools that have a list
    invocations,    \* [snapshot -> responses]: agent_invocations
    agent,          \* [Agents -> what it is doing]
    \* history
    raced           \* pairs of a snapshot and a tool of which two threads began a list

agentVars == <<snapshots, responses, invocations, agent, raced>>

Resting == [at |-> "idle", incident |-> NoSnapshot, snapshot |-> 0,
            tool |-> NoSnapshot, stores |-> 0]

AgentInit ==
    /\ snapshots = [i \in Incidents |-> NoSnapshot]
    /\ responses = <<>> /\ invocations = <<>>
    /\ agent = [a \in Agents |-> Resting]
    /\ raced = {}

Created == DOMAIN invocations
Grown(f, x) == [n \in 1 .. Cardinality(Created) + 1 |-> IF n \in Created THEN f[n] ELSE x]

\* An incident that has a snapshot gets a new one.
CreateSnapshot(i) ==
    /\ Cardinality(Created) < MaxSnapshots
    /\ responses' = Grown(responses, [t \in {} |-> {}])
    /\ invocations' = Grown(invocations, {})
    /\ snapshots' = [snapshots EXCEPT ![i] = Cardinality(Created) + 1]
    /\ UNCHANGED <<agent, raced>>

ClearSnapshot(i) ==
    /\ snapshots[i] # NoSnapshot
    /\ snapshots' = [snapshots EXCEPT ![i] = NoSnapshot]
    /\ UNCHANGED <<responses, invocations, agent, raced>>

\* store_response: without a snapshot the response is dropped.
Store(a) ==
    /\ agent[a].at = "idle" /\ agent[a].stores < MaxStores
    /\ \E i \in Incidents, t \in AgentTools :
        /\ snapshots[i] # NoSnapshot
        /\ agent' = [agent EXCEPT ![a] = [Resting EXCEPT !.at = "fetch", !.incident = i,
                                            !.tool = t, !.stores = agent[a].stores + 1]]
    /\ UNCHANGED <<snapshots, responses, invocations, raced>>

\* The snapshot was there; if it is cleared meanwhile, KeyError.
Fetch(a) ==
    /\ agent[a].at = "fetch"
    /\ LET n == snapshots[agent[a].incident] IN
        agent' = [agent EXCEPT ![a] = IF n = NoSnapshot THEN [@ EXCEPT !.at = "idle"]
                                      ELSE [@ EXCEPT !.at = "look", !.snapshot = n]]
    /\ UNCHANGED <<snapshots, responses, invocations, raced>>

Lists(a) == responses[agent[a].snapshot]

\* if tool_name not in snapshot["bob_responses"]
Look(a) ==
    /\ agent[a].at = "look"
    /\ agent' = [agent EXCEPT ![a].at =
            IF agent[a].tool \in DOMAIN Lists(a) THEN "append" ELSE "list"]
    /\ UNCHANGED <<snapshots, responses, invocations, raced>>

With(lists, t, rs) == [u \in DOMAIN lists \cup {t} |-> IF u = t THEN rs ELSE lists[u]]

\* A list of another thread, which may hold responses by now, is replaced.
BeginList(a) ==
    /\ agent[a].at = "list"
    /\ LET n == agent[a].snapshot   t == agent[a].tool IN
        /\ responses' = [responses EXCEPT ![n] = With(@, t, {})]
        /\ raced' = IF t \in DOMAIN Lists(a) THEN raced \cup {<<n, t>>} ELSE raced
    /\ agent' = [agent EXCEPT ![a].at = "append"]
    /\ UNCHANGED <<snapshots, invocations>>

Response(a) == <<a, agent[a].stores>>

Appended(a) == Lists(a)[agent[a].tool] \cup {Response(a)}

AppendResponse(a) ==
    /\ agent[a].at = "append"
    /\ responses' = [responses EXCEPT ![agent[a].snapshot] = With(@, agent[a].tool, Appended(a))]
    /\ agent' = [agent EXCEPT ![a].at = "track"]
    /\ UNCHANGED <<snapshots, invocations, raced>>

\* A slip: into the snapshot that the incident has now.
Tracked_Now(a) == snapshots[agent[a].incident]
Tracked(a) == agent[a].snapshot

TrackInvocation(a) ==
    /\ agent[a].at = "track"
    /\ invocations' = [n \in Created |-> IF n = Tracked(a) THEN invocations[n] \cup {Response(a)}
                                                           ELSE invocations[n]]
    /\ agent' = [agent EXCEPT ![a].at = "idle"]
    /\ UNCHANGED <<snapshots, responses, raced>>

AgentNext ==
    \/ \E i \in Incidents : CreateSnapshot(i) \/ ClearSnapshot(i)
    \/ \E a \in Agents :
        \/ Store(a) \/ Fetch(a) \/ Look(a) \/ BeginList(a)
        \/ AppendResponse(a) \/ TrackInvocation(a)

AgentSpec == AgentInit /\ [][AgentNext]_agentVars

------------------------------------------------------------------------------
Stored(n) == UNION {responses[n][t] : t \in DOMAIN responses[n]}
Tracking(n) == {Response(a) : a \in {b \in Agents : agent[b].at = "track" /\ agent[b].snapshot = n}}

\* Of every response in a snapshot the invocation is tracked, or about to be, in
\* the same snapshot, although the snapshot may be replaced in between; and each
\* one that is tracked is there unless its list was begun by two threads at once
\* (store_response).
SnapshotsAgree ==
    \A n \in Created :
        /\ Stored(n) \subseteq invocations[n] \cup Tracking(n)
        /\ ~(\E t \in AgentTools : <<n, t>> \in raced) => invocations[n] \subseteq Stored(n)
==============================================================================
