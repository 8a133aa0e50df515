------------------------------- MODULE MCTools -------------------------------
(* Instances of the parts that agents work with, for TLC.  The parts share no  *)
(* variables: a behaviour is one of a single part, in which the others rest,   *)
(* so that TLC visits the sum and not the product of their states.             *)
EXTENDS ToolCalls, FileCache, AgentState, CircuitBreaker

VARIABLE part

CONSTANTS k1, k2

SomeCalls == {<<"client", "trace">>, <<"tool", "file">>}
Everything == {{k1, k2}}

vars == <<part, toolVars, cacheVars, agentVars, breakerVars>>

Init ==
    /\ part \in {"tools", "cache", "agents", "breaker"}
    /\ ToolInit /\ CacheInit /\ AgentInit /\ BreakerInit
    /\ part # "cache" => ~configured

Next ==
    /\ UNCHANGED part
    /\ \/ part = "tools" /\ ToolNext /\ UNCHANGED <<cacheVars, agentVars, breakerVars>>
       \/ part = "cache" /\ CacheNext /\ UNCHANGED <<toolVars, agentVars, breakerVars>>
       \/ part = "agents" /\ AgentNext /\ UNCHANGED <<toolVars, cacheVars, breakerVars>>
       \/ part = "breaker" /\ BreakerNext /\ UNCHANGED <<toolVars, cacheVars, agentVars>>

Spec == Init /\ [][Next]_vars /\ (part = "tools" => ToolFairness)
==============================================================================
