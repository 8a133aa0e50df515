---------------------------- MODULE ServiceHealth ----------------------------
(****************************************************************************)
(* The life of the application (main.py, lifespan) and its health           *)
(* (observability/health.py).  The parts are started one after the other; a *)
(* part that fails to start is only reported, and the service starts        *)
(* without it.  GET /health/ready runs the checks one by one, each with a   *)
(* timeout, while the services they ask go down and come back.  A check     *)
(* that cannot import its client library never passes, and any may fail or  *)
(* run out of time though its service is up.                                *)
(****************************************************************************)
EXTENDS Naturals, Sequences, FiniteSets

CONSTANTS
    Dependencies,   \* PostgreSQL, Neo4j, Redis, Weaviate
    Importable,     \* those whose client library is installed
    Probes,         \* requests for the readiness
    MaxOutages      \* bound: how often a service goes down or comes back

ASSUME HealthAssumption == MaxOutages \in Nat

VARIABLES
    phase,          \* of lifespan: what it starts or stops next
    checks,         \* the checks that are registered
    startupComplete,
    gateway, grpc,  \* whether there is one that holds connections, a port
    up,             \* the services that answer
    outages,
    probe,          \* [Probes -> [at, todo, worst]]
    \* history
    seenUp, seenDown,   \* [Probes -> services that were up, down at some moment of it]
    spoilt,         \* [Probes -> services whose check failed while they were up]
    stuck           \* a part failed to stop

healthVars == <<phase, checks, startupComplete, gateway, grpc, up, outages, probe,
                seenUp, seenDown, spoilt, stuck>>

NoProbe == [at |-> "idle", todo |-> {}, worst |-> "healthy"]

HealthInit ==
    /\ phase = "observability"
    /\ checks = {} /\ startupComplete = FALSE
    /\ gateway = FALSE /\ grpc = "none"
    /\ up \in SUBSET Dependencies /\ outages = 0
    /\ probe = [q \in Probes |-> NoProbe]
    /\ seenUp = [q \in Probes |-> {}] /\ seenDown = [q \in Probes |-> {}]
    /\ spoilt = [q \in Probes |-> {}]
    /\ stuck = FALSE

probing == <<up, outages, probe, seenUp, seenDown, spoilt>>

(****************************************************************************)
(* lifespan                                                                 *)
(****************************************************************************)
\* The checks are registered one after the other, behind tracing and metrics; an
\* exception of either leaves out all that come after it.
InitObservability ==
    /\ phase = "observability" /\ phase' = "gateway"
    /\ checks' \in {{}, Dependencies}
    /\ UNCHANGED <<startupComplete, gateway, grpc, stuck, probing>>

InitGateway ==
    /\ phase = "gateway" /\ phase' = "grpc"
    /\ gateway' \in BOOLEAN
    /\ UNCHANGED <<checks, startupComplete, grpc, stuck, probing>>

\* A server that is started is kept in app.state.
StartGrpc ==
    /\ phase = "grpc" /\ phase' = "complete"
    /\ grpc' \in {"none", "kept"}
    /\ UNCHANGED <<checks, startupComplete, gateway, stuck, probing>>

MarkStartupComplete ==
    /\ phase = "complete" /\ phase' = "serving"
    /\ startupComplete' = TRUE
    /\ UNCHANGED <<checks, gateway, grpc, stuck, probing>>

Shutdown ==
    /\ phase = "serving" /\ phase' = "stop grpc"
    /\ \A q \in Probes : probe[q].at # "running"
    /\ UNCHANGED <<checks, startupComplete, gateway, grpc, stuck, probing>>

StopGrpc ==
    /\ phase = "stop grpc" /\ phase' = "close gateway"
    /\ grpc' \in IF grpc = "kept" THEN {"none", "kept"} ELSE {grpc}
    /\ stuck' = (grpc' # "none")
    /\ UNCHANGED <<checks, startupComplete, gateway, probing>>

\* get_gateway makes one if there is none, only to close it; if it fails, the old
\* one stays.
CloseGateway ==
    /\ phase = "close gateway" /\ phase' = "stopped"
    /\ gateway' \in BOOLEAN
    /\ stuck' = (stuck \/ gateway')
    /\ UNCHANGED <<checks, startupComplete, grpc, probing>>

(****************************************************************************)
(* HealthCheckManager.run_checks                                            *)
(****************************************************************************)
Running(q) == probe[q].at = "running"

BeginProbe(q) ==
    /\ phase = "serving" /\ ~Running(q)
    /\ probe' = [probe EXCEPT ![q] = [at |-> "running", todo |-> checks, worst |-> "healthy"]]
    /\ seenUp' = [seenUp EXCEPT ![q] = up]
    /\ seenDown' = [seenDown EXCEPT ![q] = Dependencies \ up]
    /\ spoilt' = [spoilt EXCEPT ![q] = {}]
    /\ UNCHANGED <<phase, checks, startupComplete, gateway, grpc, stuck, up, outages>>

\* check_postgres, check_neo4j, check_redis, check_weaviate, if nothing goes wrong
\* on the way: the library is there and the service answers.
CheckPasses(d) == d \in Importable /\ d \in up

\* A slip: the last check decides.
Overall_Last(q, passes) == IF passes THEN "healthy" ELSE "unhealthy"
Overall(q, passes) == IF passes THEN probe[q].worst ELSE "unhealthy"

RunCheck(q) ==
    /\ Running(q)
    /\ \E d \in probe[q].todo, passes \in BOOLEAN :
        /\ passes => CheckPasses(d)
        /\ probe' = [probe EXCEPT ![q].todo = @ \ {d}, ![q].worst = Overall(q, passes)]
        /\ spoilt' = IF passes \/ d \notin up THEN spoilt
                                             ELSE [spoilt EXCEPT ![q] = @ \cup {d}]
    /\ UNCHANGED <<phase, checks, startupComplete, gateway, grpc, stuck, up, outages,
                   seenUp, seenDown>>

Answer(q) ==
    /\ Running(q) /\ probe[q].todo = {}
    /\ probe' = [probe EXCEPT ![q].at = "answered"]
    /\ UNCHANGED <<phase, checks, startupComplete, gateway, grpc, stuck, up, outages,
                   seenUp, seenDown, spoilt>>

GoDownOrComeBack(d) ==
    /\ phase = "serving" /\ outages < MaxOutages /\ outages' = outages + 1
    /\ up' = IF d \in up THEN up \ {d} ELSE up \cup {d}
    /\ seenUp' = [q \in Probes |-> IF Running(q) THEN seenUp[q] \cup up' ELSE seenUp[q]]
    /\ seenDown' = [q \in Probes |-> IF Running(q) THEN seenDown[q] \cup (Dependencies \ up')
                                     ELSE seenDown[q]]
    /\ UNCHANGED <<phase, checks, startupComplete, gateway, grpc, stuck, probe, spoilt>>

HealthNext ==
    \/ InitObservability \/ InitGateway \/ StartGrpc \/ MarkStartupComplete
    \/ Shutdown \/ StopGrpc \/ CloseGateway
    \/ \E q \in Probes : BeginProbe(q) \/ RunCheck(q) \/ Answer(q)
    \/ \E d \in Dependencies : GoDownOrComeBack(d)

HealthSpec == HealthInit /\ [][HealthNext]_healthVars

------------------------------------------------------------------------------
\* An answer stands for no single moment.  Still, each service it calls healthy has
\* a client that can ask it and was up at some moment of the request; and it is
\* unhealthy only if a service was down at some moment of it, or a check failed by
\* itself.  Without checks, because observability failed to start, it is always
\* healthy (run_checks, register_default_checks).
ReadinessHonest ==
    \A q \in Probes : probe[q].at = "answered" =>
        IF probe[q].worst = "healthy" THEN checks \subseteq seenUp[q] \cap Importable
                                      ELSE checks \cap (seenDown[q] \cup spoilt[q]) # {}
==============================================================================
