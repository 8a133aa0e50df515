----------------------------- MODULE GraphStore -----------------------------
(****************************************************************************)
(* What GraphWriter (graph/writer.py) makes of a repository in Neo4j.       *)
(*                                                                          *)
(* A writer stores one version of the repository: its node, then files,     *)
(* symbols, imports and DEFINES relationships in batches, then services and *)
(* calls.  Each batch is a transaction of its own that MERGEs what it       *)
(* brings with what is there.  Between two transactions the writer may      *)
(* break off, another one may write another version, and somebody may       *)
(* delete the repository.                                                   *)
(*                                                                          *)
(* All nodes and relationships are those of one repository, since every     *)
(* query carries its repo_id.  Transactions are taken to be serialised.     *)
(****************************************************************************)
EXTENDS Naturals, FiniteSets

CONSTANTS
    Writers,        \* GraphWriters: threads or processes
    Versions,       \* of the repository
    Paths,          \* of files, and the module names of relative imports
    Symbols,        \* keys: file, name and first line
    Services,       \* names of services
    FileOf,         \* [Symbols -> Paths]
    NodeOf,         \* [Symbols -> Any]: file and name, which calls refer to
    Parsed,         \* [Versions -> SUBSET Paths]: the files parsed
    Defines,        \* [Versions -> SUBSET Symbols]: their symbols
    Imports,        \* [Versions -> SUBSET (Paths \X Paths)]: relative imports
    Boundaries,     \* [Versions -> SUBSET Services]
    Members,        \* [Versions -> SUBSET (Services \X Paths)]
    Calls,          \* [Versions -> SUBSET (Any \X Any)]: edges of the call graph
    BatchSize,
    MaxJobs         \* bound: how many versions are written

ASSUME GraphAssumption ==
    /\ FileOf \in [Symbols -> Paths]
    /\ DOMAIN NodeOf = Symbols
    /\ Parsed \in [Versions -> SUBSET Paths]
    /\ Defines \in [Versions -> SUBSET Symbols]
    /\ Imports \in [Versions -> SUBSET (Paths \X Paths)]
    /\ Boundaries \in [Versions -> SUBSET Services]
    /\ Members \in [Versions -> SUBSET (Services \X Paths)]
    /\ BatchSize \in Nat \ {0}
    /\ MaxJobs \in Nat

\* A version is the output of the parsers and of the analyzer: symbols,
\* imports and services are those of its files.
ASSUME VersionsCoherent ==
    \A v \in Versions :
        /\ \A s \in Defines[v] : FileOf[s] \in Parsed[v]
        /\ \A e \in Imports[v] : e[1] \in Parsed[v]
        /\ \A m \in Members[v] : m[1] \in Boundaries[v]
        /\ IsFiniteSet(Imports[v])

VARIABLES
    repository,     \* whether there is a Repository node
    files,          \* the File nodes
    symbols,        \* the Symbol nodes
    services,       \* the Service nodes
    contained,      \* the files and services that the repository CONTAINS
    defined,        \* the symbols that their file DEFINES
    imports,        \* IMPORTS, from file to file
    members,        \* CONTAINS, from service to file, and BELONGS_TO back
    calls,          \* CALLS, from symbol to symbol
    at,             \* [Writers -> Place]: what each writer writes next
    version,        \* [Writers -> Versions]
    left,           \* [Writers -> SUBSET items]: the rest of its list
    jobs,           \* how many versions were begun
    whole,          \* history: [Writers -> BOOLEAN]: no deletion fell into the job
    stored,         \* history: the versions written as a whole, and
    touched         \*   those written at all, since the last deletion

nodes == <<repository, files, symbols, services>>
relationships == <<contained, defined, imports, members, calls>>
graph == <<nodes, relationships>>
writer == <<at, version, left>>
vars == <<graph, writer, jobs, whole, stored, touched>>

------------------------------------------------------------------------------
Batched == {"files", "symbols", "imports", "defines", "calls"}
Writing == {"repository", "services"} \cup Batched
Place == {"idle", "done", "failed"} \cup Writing

\* What is written in batches, as a list in the code.
Items(v) == [files |-> Parsed[v],
             symbols |-> Defines[v],
             imports |-> Imports[v],
             defines |-> {FileOf[s] : s \in Defines[v]},
             calls |-> Calls[v]]

Following ==
    [files |-> "symbols", symbols |-> "imports", imports |-> "defines",
     defines |-> "services", calls |-> "done"]

Init ==
    /\ repository = FALSE
    /\ files = {} /\ symbols = {} /\ services = {}
    /\ contained = {} /\ defined = {} /\ imports = {} /\ members = {} /\ calls = {}
    /\ at = [w \in Writers |-> "idle"]
    /\ version \in [Writers -> Versions]
    /\ left = [w \in Writers |-> {}]
    /\ jobs = 0
    /\ whole = [w \in Writers |-> FALSE]
    /\ stored = {} /\ touched = {}

------------------------------------------------------------------------------
(* The transactions.                                                        *)

PutRepository ==
    /\ repository' = TRUE
    /\ UNCHANGED <<files, symbols, services, relationships>>

\* MERGE the files, and the CONTAINS of a repository that is there.
PutFiles(batch) ==
    /\ files' = files \cup batch
    /\ contained' = IF repository THEN contained \cup batch ELSE contained
    /\ UNCHANGED <<repository, symbols, services, defined, imports, members, calls>>

PutSymbols(batch) ==
    /\ symbols' = symbols \cup batch
    /\ UNCHANGED <<repository, files, services, relationships>>

\* The importing file must be there; the imported one is MERGEd.
PutImports(batch) ==
    LET found == {e \in batch : e[1] \in files} IN
    /\ files' = files \cup {e[2] : e \in found}
    /\ imports' = imports \cup found
    /\ UNCHANGED <<repository, symbols, services, contained, defined, members, calls>>

PutDefines(batch) ==
    /\ defined' = defined \cup {s \in symbols : FileOf[s] \in batch \cap files}
    /\ UNCHANGED <<nodes, contained, imports, members, calls>>

\* All services in one transaction; without the repository's node only their nodes.
PutServices(v) ==
    /\ services' = services \cup Boundaries[v]
    /\ IF repository
         THEN /\ contained' = contained \cup Boundaries[v]
              /\ members' = members \cup {m \in Members[v] : m[2] \in files}
         ELSE UNCHANGED <<contained, members>>
    /\ UNCHANGED <<repository, files, symbols, defined, imports, calls>>

\* Every symbol of the caller's file and name with every one of the callee's.
PutCalls(batch) ==
    /\ calls' = calls \cup {c \in symbols \X symbols :
                              <<NodeOf[c[1]], NodeOf[c[2]]>> \in batch}
    /\ UNCHANGED <<nodes, contained, defined, imports, members>>

Put(w, batch) ==
    \/ at[w] = "files" /\ PutFiles(batch)
    \/ at[w] = "symbols" /\ PutSymbols(batch)
    \/ at[w] = "imports" /\ PutImports(batch)
    \/ at[w] = "defines" /\ PutDefines(batch)
    \/ at[w] = "calls" /\ PutCalls(batch)

------------------------------------------------------------------------------
(* A job: write_repository, write_parse_results, write_analysis_result.     *)

Begin(w, v) ==
    /\ at[w] \in {"idle", "done", "failed"}
    /\ jobs < MaxJobs
    /\ at' = [at EXCEPT ![w] = "repository"]
    /\ version' = [version EXCEPT ![w] = v]
    /\ left' = [left EXCEPT ![w] = {}]
    /\ jobs' = jobs + 1
    /\ whole' = [whole EXCEPT ![w] = TRUE]
    /\ touched' = touched \cup {v}
    /\ UNCHANGED <<graph, stored>>

\* Go on to p, with its list if it is written in batches.
Proceed(w, p) ==
    /\ at' = [at EXCEPT ![w] = p]
    /\ left' = [left EXCEPT ![w] = IF p \in Batched THEN Items(version[w])[p] ELSE {}]
    /\ UNCHANGED <<version, jobs, whole, touched>>

WriteRepository(w) ==
    /\ at[w] = "repository"
    /\ PutRepository
    /\ Proceed(w, "files")
    /\ UNCHANGED stored

\* A slice of the list.
Batches(w) ==
    {batch \in SUBSET left[w] : Cardinality(batch) \in 1..BatchSize}

WriteBatch(w) ==
    /\ at[w] \in Batched
    /\ \E batch \in Batches(w) :
         /\ Put(w, batch)
         /\ left' = [left EXCEPT ![w] = @ \ batch]
    /\ UNCHANGED <<at, version, jobs, whole, stored, touched>>

\* A slip: a list's last batch is forgotten if it is a single item.
EndOfList_Rest(w) ==
    /\ at[w] \in Batched
    /\ Cardinality(left[w]) <= 1
    /\ Proceed(w, Following[at[w]])
    /\ stored' = IF at[w] = "calls" /\ whole[w] THEN stored \cup {version[w]}
                                                ELSE stored
    /\ UNCHANGED graph

EndOfList(w) ==
    /\ at[w] \in Batched
    /\ left[w] = {}
    /\ Proceed(w, Following[at[w]])
    /\ stored' = IF at[w] = "calls" /\ whole[w] THEN stored \cup {version[w]}
                                                ELSE stored
    /\ UNCHANGED graph

WriteServices(w) ==
    /\ at[w] = "services"
    /\ PutServices(version[w])
    /\ Proceed(w, "calls")
    /\ UNCHANGED stored

\* A transaction fails, or its answer is lost, or the process dies: nothing is
\* undone, and nothing remembers how far the job came.
Break(w) ==
    /\ at[w] \in Writing
    /\ \/ at[w] = "repository" /\ PutRepository
       \/ at[w] = "services" /\ PutServices(version[w])
       \/ \E batch \in Batches(w) : Put(w, batch)
       \/ UNCHANGED graph
    /\ at' = [at EXCEPT ![w] = "failed"]
    /\ left' = [left EXCEPT ![w] = {}]
    /\ UNCHANGED <<version, jobs, whole, stored, touched>>

------------------------------------------------------------------------------
(* delete_repository: all nodes, with their relationships.                  *)

Running == {w \in Writers : at[w] \in Writing}

Forget ==
    /\ whole' = [w \in Writers |-> at[w] = "repository"]
    /\ stored' = {}
    /\ touched' = {version[w] : w \in Running}
    /\ UNCHANGED <<writer, jobs>>

\* A slip: symbols are not reached from the repository's node.
Delete_Contained ==
    /\ repository' = FALSE
    /\ files' = files \ contained /\ services' = services \ contained
    /\ contained' = {} /\ defined' = {} /\ members' = {} /\ imports' = {}
    /\ UNCHANGED <<symbols, calls>>
    /\ Forget

Delete ==
    /\ repository' = FALSE
    /\ files' = {} /\ symbols' = {} /\ services' = {}
    /\ contained' = {} /\ defined' = {} /\ imports' = {} /\ members' = {} /\ calls' = {}
    /\ Forget

Next ==
    \/ \E w \in Writers :
         \/ \E v \in Versions : Begin(w, v)
         \/ WriteRepository(w) \/ WriteBatch(w) \/ EndOfList(w) \/ WriteServices(w)
         \/ Break(w)
    \/ Delete

Spec == Init /\ [][Next]_vars

------------------------------------------------------------------------------
(* check_graph_integrity.                                                   *)

\* Symbols without a file that DEFINES them.
OrphanedSymbols == symbols \ defined

\* A slip: files that no service CONTAINS.
OrphanedFiles_Service == files \ {x[2] : x \in members}

\* Files that the repository does not CONTAIN.
OrphanedFiles == files \ contained

\* Symbols that are not DEFINEd by the file of their path, which is there.
MissingDefines == {s \in symbols \ defined : FileOf[s] \in files}

------------------------------------------------------------------------------
(* Properties.                                                              *)

\* Every variable has its type.
TypeOK ==
    /\ repository \in BOOLEAN
    /\ files \in SUBSET Paths
    /\ symbols \in SUBSET Symbols
    /\ services \in SUBSET Services
    /\ contained \in SUBSET (files \cup services)
    /\ defined \in SUBSET symbols
    /\ imports \in SUBSET (files \X files)
    /\ members \in SUBSET (services \X files)
    /\ calls \in SUBSET (symbols \X symbols)
    /\ at \in [Writers -> Place]
    /\ version \in [Writers -> Versions]
    /\ DOMAIN left = Writers
    /\ \A w \in Writers :
         left[w] \subseteq IF at[w] \in Batched THEN Items(version[w])[at[w]] ELSE {}
    /\ jobs \in Nat
    /\ whole \in [Writers -> BOOLEAN]
    /\ stored \in SUBSET Versions
    /\ touched \in SUBSET Versions

\* A version that was written to its end is in the graph as a whole, and stays
\* until it is deleted: what broken jobs left behind is completed by the next
\* one, and whatever other writers do, finish or leave, nothing gets lost.
Has(v) ==
    /\ repository
    /\ Parsed[v] \subseteq files \cap contained
    /\ Defines[v] \subseteq symbols \cap defined
    /\ Imports[v] \subseteq imports
    /\ Boundaries[v] \subseteq services \cap contained
    /\ {m \in Members[v] : m[2] \in Parsed[v]} \subseteq members
    /\ \A s, t \in Defines[v] :
         <<NodeOf[s], NodeOf[t]>> \in Calls[v] => <<s, t>> \in calls

WrittenIsStored == \A v \in stored : Has(v)

\* Nothing is in the graph but what some version written since the last
\* deletion, or across it, brought there: a deleted repository does not come
\* back.  (Calls may join symbols of two versions by their names.)
FromVersions ==
    /\ touched = {} => ~repository
    /\ \A f \in files : \E v \in touched :
         f \in Parsed[v] \/ \E e \in Imports[v] : f = e[2]
    /\ symbols \subseteq UNION {Defines[v] : v \in touched}
    /\ services \subseteq UNION {Boundaries[v] : v \in touched}
    /\ imports \subseteq UNION {Imports[v] : v \in touched}
    /\ members \subseteq UNION {Members[v] : v \in touched}
    /\ \A c \in calls : \E v \in touched : <<NodeOf[c[1]], NodeOf[c[2]]>> \in Calls[v]

\* When every version written at all was written to its end, the integrity
\* check finds no fault, but for the targets of imports that are no file: in
\* whatever order jobs broke off and were repeated.
Unresolved(f) == \A v \in touched : f \notin Parsed[v]

SoundWhenWhole ==
    touched \subseteq stored =>
        /\ OrphanedSymbols = {}
        /\ MissingDefines = {}
        /\ \A f \in OrphanedFiles : Unresolved(f)

------------------------------------------------------------------------------
(* Why they hold: an inductive invariant.                                   *)

\* The places of a writer that has written all items of list p.
Beyond == [files |-> {"symbols", "imports", "defines", "services", "calls"},
           symbols |-> {"imports", "defines", "services", "calls"},
           imports |-> {"defines", "services", "calls"},
           defines |-> {"services", "calls"},
           calls |-> {}]

Wrote(w, p, x) == \/ at[w] = p /\ x \notin left[w]
                  \/ at[w] \in Beyond[p]

\* What a writer wrote without being interrupted by a deletion is there.
Progress(w) ==
    LET v == version[w] IN
    /\ repository
    /\ \A f \in Parsed[v] : Wrote(w, "files", f) => f \in files /\ f \in contained
    /\ \A s \in Defines[v] : Wrote(w, "symbols", s) => s \in symbols
    /\ \A e \in Imports[v] : Wrote(w, "imports", e) => e \in imports
    /\ \A s \in Defines[v] : Wrote(w, "defines", FileOf[s]) => s \in defined
    /\ at[w] = "calls" =>
         /\ Boundaries[v] \subseteq services \cap contained
         /\ \A m \in Members[v] : m[2] \in Parsed[v] => m \in members
    /\ \A s, t \in Defines[v] :
         LET c == <<NodeOf[s], NodeOf[t]>> IN
         c \in Calls[v] /\ Wrote(w, "calls", c) => <<s, t>> \in calls

ProgressInv ==
    \A w \in Writers :
        at[w] \in Writing \ {"repository"} /\ whole[w] => Progress(w)

TouchedInv == \A w \in Writers : at[w] \in Writing => version[w] \in touched

GraphInv == TypeOK /\ ProgressInv /\ TouchedInv /\ WrittenIsStored /\ FromVersions

==============================================================================
