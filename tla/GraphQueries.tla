---------------------------- MODULE GraphQueries ----------------------------
(****************************************************************************)
(* Readers of the graph: GraphQuery (graph/query.py) as the REST endpoint   *)
(* for the blast radius and the assembler use it, beside the writers of     *)
(* GraphStore; and the analyzer's own answer to the same question.          *)
(*                                                                          *)
(* Every query is a transaction, and most answers are put together from     *)
(* several: in between, writers go on, and the repository may be deleted.   *)
(****************************************************************************)
EXTENDS GraphStore

CONSTANTS
    Ends,           \* inputs: the files queries are about
    MaxHops         \* bound: how far they look (5 in the code)

None == "none"      \* null

ASSUME QueryAssumption ==
    /\ Ends \subseteq Paths /\ MaxHops \in Nat
    /\ None \notin Services

VARIABLES
    query,      \* the query: its kind, the files it is about, the hops
    step,       \* what the reader does next
    rows,       \* the rows of its first transaction
    more,       \* the rows of its second, or the files still to be enriched
    score,      \* [affected files -> Int]: their fan-in and fan-out, or Unknown
    failed,     \* history: the files whose metrics the database failed to answer
    asked,      \* history: the versions touched at the first transaction, if
                \*   they were all stored; otherwise the empty set
    since       \* history: whether the repository was deleted after it

reader == <<query, step, rows, more, score, failed, asked, since>>

------------------------------------------------------------------------------
(* Paths.                                                                   *)

\* i edges one after the other, the first of which begins at f.
Walks(edges, f, i) ==
    {w \in [1..i -> edges] : w[1][1] = f /\ \A j \in 2..i : w[j][1] = w[j - 1][2]}

\* A trail is a walk that uses no edge twice.
Trails(edges, f, i) ==
    {w \in Walks(edges, f, i) : \A j, k \in 1..i : w[j] = w[k] => j = k}

\* (f)-[*1..n]->(x): the ends and lengths of the trails from f.
TrailEnds(edges, f, n) ==
    UNION {{<<t[i][2], i>> : t \in Trails(edges, f, i)} : i \in 1..n}

Reversed(edges) == {<<e[2], e[1]>> : e \in edges}

\* What edges lead to from the files fs, in 1 to n steps.
Reach(edges, fs, n) ==
    UNION {{w[i][2] : w \in Walks(edges, f, i)} : f \in fs, i \in 1..n}

------------------------------------------------------------------------------
(* The queries, each a transaction on the graph as it is.                   *)

\* A slip: the arrow of the pattern points the other way.
Upstream_Reversed(f, n) ==
    IF f \in files THEN TrailEnds(Reversed(imports), f, n) ELSE {}

\* get_dependencies: files and distances.
Upstream(f, n) == IF f \in files THEN TrailEnds(imports, f, n) ELSE {}
Downstream(f, n) == IF f \in files THEN TrailEnds(Reversed(imports), f, n) ELSE {}

\* A slip: one hop less than asked for.
BlastRows_OneLess(changed, n) ==
    {<<x[1], None>> : x \in UNION {Downstream(f, n - 1) : f \in changed}}

\* compute_blast_radius: the files that import a changed one, each with every
\* service that it belongs to.
BlastRows(changed, n) ==
    LET affected == {x[1] : x \in UNION {Downstream(f, n) : f \in changed}} IN
    {x \in affected \X (services \cup {None}) :
        IF x[2] = None THEN \A s \in services : <<s, x[1]>> \notin members
                       ELSE <<x[2], x[1]>> \in members}

\* A slip: the services change places.
TopologyEdges_Swapped ==
    {p \in services \X services :
        /\ p[1] # p[2]
        /\ \E e \in imports : <<p[2], e[1]>> \in members /\ <<p[1], e[2]>> \in members}

\* get_service_topology: imports from file to file of two services.
TopologyEdges ==
    {p \in services \X services :
        /\ p[1] # p[2]
        /\ \E e \in imports : <<p[1], e[1]>> \in members /\ <<p[2], e[2]>> \in members}

\* get_file_metrics: how many files it imports and is imported by.
Unknown == 0 - 1
Metrics(f) ==
    IF f \in files
      THEN Cardinality({e \in imports : e[1] = f}) + Cardinality({e \in imports : e[2] = f})
      ELSE Unknown

------------------------------------------------------------------------------
(* StructuralAnalyzer.compute_blast_radius, on the graph it built itself.   *)

AnalyzerRadius(edges, changed, n) == changed \cup Reach(edges, changed, n)

------------------------------------------------------------------------------
(* The readers.                                                             *)

InitQueries ==
    /\ Init
    /\ query = [kind |-> None, about |-> {}, hops |-> 0]
    /\ step = "idle"
    /\ rows = {} /\ more = {} /\ score = <<>>
    /\ failed = {} /\ asked = {} /\ since = FALSE

Ask(kind, about, n) ==
    /\ step = "idle"
    /\ query' = [kind |-> kind, about |-> about, hops |-> n]
    /\ asked' = IF touched \subseteq stored THEN touched ELSE {}
    /\ since' = FALSE
    /\ score' = <<>>
    /\ failed' = {}

\* Both directions, one after the other.
AskDependencies(f, n) ==
    /\ Ask("dependencies", {f}, n)
    /\ rows' = Upstream(f, n)
    /\ more' = {}
    /\ step' = "downstream"

ReadDownstream ==
    /\ step = "downstream"
    /\ more' = UNION {Downstream(f, query.hops) : f \in query.about}
    /\ step' = "answered"
    /\ UNCHANGED <<query, rows, score, failed, asked, since>>

\* POST /blast-radius: the affected files, then the metrics of each of them.
AskBlastRadius(changed, n) ==
    /\ Ask("blast", changed, n)
    /\ rows' = BlastRows(changed, n)
    /\ more' = {x[1] : x \in rows'}
    /\ step' = "enrich"

\* The metrics of the next file: those of the database, or none, for the query
\* itself may fail, whatever the reason.
MetricsOrFailure(f) ==
    \/ /\ score' = [g \in DOMAIN score \cup {f} |-> IF g = f THEN Metrics(f) ELSE score[g]]
       /\ UNCHANGED failed
    \/ /\ score' = [g \in DOMAIN score \cup {f} |-> IF g = f THEN Unknown ELSE score[g]]
       /\ failed' = failed \cup {f}

\* A slip: a file without metrics is left out.
Enrich_Drop ==
    /\ step = "enrich"
    /\ \E f \in more :
         /\ \/ MetricsOrFailure(f) /\ score'[f] # Unknown
            \/ UNCHANGED <<score, failed>>
         /\ more' = more \ {f}
    /\ UNCHANGED <<query, step, rows, asked, since>>

\* Without metrics the file is listed all the same.
Enrich ==
    /\ step = "enrich"
    /\ \E f \in more : MetricsOrFailure(f) /\ more' = more \ {f}
    /\ UNCHANGED <<query, step, rows, asked, since>>

Enriched ==
    /\ step = "enrich"
    /\ more = {}
    /\ step' = "answered"
    /\ UNCHANGED <<query, rows, more, score, failed, asked, since>>

\* The services, and then the imports between them.
AskTopology ==
    /\ Ask("topology", {}, 0)
    /\ rows' = services
    /\ more' = {}
    /\ step' = "edges"

ReadEdges ==
    /\ step = "edges"
    /\ more' = TopologyEdges
    /\ step' = "answered"
    /\ UNCHANGED <<query, rows, score, failed, asked, since>>

EndQuery ==
    /\ step' = "idle"
    /\ query' = [kind |-> None, about |-> {}, hops |-> 0]
    /\ rows' = {} /\ more' = {} /\ score' = <<>>
    /\ failed' = {} /\ asked' = {} /\ since' = FALSE

\* The second transaction fails, or the session for the metrics cannot be had:
\* there is no answer.
QueryFails ==
    /\ step \in {"downstream", "edges", "enrich"}
    /\ score = <<>>
    /\ EndQuery

Return == step = "answered" /\ EndQuery

Read ==
    \/ \E n \in 1..MaxHops :
         \/ \E f \in Ends : AskDependencies(f, n)
         \/ \E changed \in SUBSET Ends \ {{}} : AskBlastRadius(changed, n)
    \/ AskTopology
    \/ ReadDownstream \/ Enrich \/ Enriched \/ ReadEdges
    \/ QueryFails \/ Return

\* The writers and deletions of GraphStore.
Write ==
    /\ Next
    /\ since' = (since \/ (step # "idle" /\ Delete))
    /\ UNCHANGED <<query, step, rows, more, score, failed, asked>>

NextQueries == Write \/ (Read /\ UNCHANGED vars)

SpecQueries == InitQueries /\ [][NextQueries]_<<vars, reader>>

------------------------------------------------------------------------------
(* Properties.                                                              *)

Affected == {x[1] : x \in rows}

\* When all that was written is there as a whole, the blast radius is what the
\* imports of the versions say: the files from which a changed file is reached in
\* as many hops, no others, and none is missing.
BlastIsReachability ==
    query.kind = "blast" /\ asked # {} =>
        Affected = Reach(Reversed(UNION {Imports[v] : v \in asked}),
                         query.about, query.hops)

\* Every affected file is in the answer, even if the repository is deleted before
\* its metrics are read or they cannot be had; and each has a score, for it imports
\* something, unless there was a deletion or the query of its own metrics failed.
EveryFileAnswered ==
    query.kind = "blast" =>
        /\ Affected = DOMAIN score \cup more
        /\ \A f \in DOMAIN score : score[f] > 0 \/ since \/ f \in failed

\* What imports a file and is imported by it, according to one answer from two
\* moments, is on a cycle with it by then, unless there was a deletion.
CyclesReal ==
    query.kind = "dependencies" /\ step = "answered" /\ ~since =>
        \A f \in query.about, x \in rows, y \in more :
            x[1] = y[1] => f \in Reach(imports, {f}, x[2] + y[2])

\* An answer from the time when a version was there as a whole stays true of it:
\* the topology of a version has its services and the imports between them.
TopologyOfVersion ==
    query.kind = "topology" /\ step = "answered" /\ ~since =>
        \A v \in asked : \A s, t \in Boundaries[v], e \in Imports[v] :
            s # t /\ <<s, e[1]>> \in Members[v] /\ <<t, e[2]>> \in Members[v]
                /\ e[2] \in Parsed[v]
            => {s, t} \subseteq rows /\ <<s, t>> \in more

\* "Get all descendants (files that depend on this file)": the analyzer's blast
\* radius has the files that the graph's has.
AnalyzerAgrees ==
    query.kind = "blast" /\ asked # {} =>
        Affected \subseteq AnalyzerRadius(UNION {Imports[v] : v \in asked},
                                          query.about, query.hops)

==============================================================================
