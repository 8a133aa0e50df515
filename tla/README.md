# RuntimeOps repository intelligence agent: TLA+ specifications

This directory holds TLA+ models of the repository intelligence agent ("Bob") of
RuntimeOps, the TLC configurations that check them on small instances, and
theorems about them with proofs checked by TLAPS. The reference for every
definition is the Python code under `src/bob/`; paths below are relative to it.

1. [The system](#the-system)
2. [What is modelled](#what-is-modelled)
3. [The checks](#the-checks)
4. [The proofs](#the-proofs)
5. [Where the code and its documentation disagree](#where-the-code-and-its-documentation-disagree)
6. [What is not modelled](#what-is-not-modelled)
7. [Plan](#plan)
8. [Running it](#running-it)

## The system

The agent ingests repositories (clone, parse, analyse, embed, extract
conventions), stores what it learns (Neo4j graph, Weaviate vectors, PostgreSQL
registry, Redis cache), and answers queries of other agents over REST and gRPC.
Everything between a query and its answer runs in several worker processes
(`api_workers`, `WORKERS=4` in the production compose file, three replicas on
Kubernetes) that share Redis and the databases.

| Component | Source | State | Operations |
|---|---|---|---|
| Ingestion pipeline | `ingestion/orchestrator.py` | `_checkpoints` in memory; local variables of a call | `ingest_repository` (six stages), `_save_checkpoint`, `get_progress` |
| Repository fetcher | `ingestion/fetcher.py` | `_workspace_dir`, directories on disk | clone, pull, metadata, clean-up, context manager |
| Structural analyzer, convention extractor | `ingestion/analyzer.py`, `convention_extractor.py` | graphs of one call | analyse, blast radius, dependencies; heuristics or an LLM |
| Language parsers | `parsers/` | none | parse one file |
| Embedder, vector store | `semantic/` | model handle; Weaviate objects | chunk, embed, fall back; insert, search, delete |
| Graph writer, graph queries | `graph/` | Neo4j nodes and relationships | batched MERGE, integrity check; dependencies, dependents, blast radius |
| Registry | `storage/registry.py` | repositories and jobs in PostgreSQL | status updates, error counts, staleness |
| Cache | `storage/cache.py` | keys with a time to live in Redis | get, set, invalidate by pattern |
| Query gateway | `query/gateway.py` | counters per window in Redis | `authenticate_request`, `check_rate_limit` |
| Router, assembler | `query/router.py`, `assembler.py` | none | fan out, rank, fit into a token budget |
| REST, gRPC | `api/` | none | endpoints, batch queries |
| Rate limiter and its middleware | `security/rate_limiter.py`, `middleware.py` | sorted sets and a counter per user in Redis | check and record, concurrent counter |
| Authentication, authorisation, secrets, audit | `security/` | revoked tokens, keys, roles, secrets, log | issue, refresh, revoke, rotate; check; clean up |
| Tools, events, agent state, client | `tools/` | connections of a client, handlers, snapshots | call with retries; emit, handle; create, store, clear |
| Circuit breaker | `utils/circuit_breaker.py` | state, failures, last failure | `call` |
| Start, health, metrics | `main.py`, `observability/` | what was started, checks | start and stop, run checks |

How they interact: the pipeline calls fetcher, parsers, analyzer, embedder and extractor in one
thread (parsing files in a pool), and is itself called from several threads on one orchestrator. A
query passes the gateway (and, where it is installed, the rate-limit middleware), is routed to the
graph and the vector store, and its answer assembled. Workers share nothing but Redis and the
databases, with several commands per operation and no transactions around them.

What is hard: interleavings of workers between two Redis commands; threads that
share the checkpoints of a job; the order of clean-up and use of a workspace;
errors, interrupts and deaths between two steps; windows of time and keys that
expire while someone still relies on them; error paths that repeat what was
already done. What makes each part correct:

* pipeline: a result belongs to its repository, its parts fit together, work
  that was saved is not lost, and nothing is left behind, neither checkpoints nor
  workspaces;
* limiters: never more than the limit (and how much more, where the commands are
  not atomic), no refusal below it, no slot and no key lost for ever, every
  request answered once;
* graph and registry: every reader sees a state some sequence of whole updates
  could have produced, or can tell that it does not;
* index: what is stored of a file covers it, with vectors of one model; an answer leaves
  out nothing it should hold;
* access: what was revoked stays out, what is rotated stays usable, a yes means a right
  that existed, and requests answered are in the log;
* breaker, cache, snapshots, health: no update lost but to a race that can be named, no
  late decision that undoes a newer one unnoticed, no answer without a state behind it.

The hazards, each at its line, are listed in `PROJECT.json`.

## What is modelled

### Ingestion, IngestContract (`ingestion/orchestrator.py`, `ingestion/fetcher.py`)

A *run* is a thread that calls `ingest_repository` on the shared orchestrator, as
often as it likes. `run[r]` holds its local variables: `pc` (the stage), `repo` and
`job`, `seen` (the checkpoint read at entry, once), `work` (the local variables that
go into the result) and `workspace` (`fetcher._workspace_dir`, or, between `mkdtemp` and
the assignment, the directory that is to be assigned). `checkpoints` is
`self._checkpoints`; `exists`, `disk` and `used` are the workspaces on disk. History:
`orphaned`, the directories whose removal failed or nobody can attempt any more, and
`unfinished`, how calls of a job ended otherwise than by completing it since its
checkpoint was deleted last.

The data are sets of files: a list of parse results, the embeddings and the
conventions are each the set of files they were computed from, and an analysis is
the set of its one such set, because an `AnalysisResult` of no files is truthy where
an empty list is not. That distinction decides what a resumed call reuses.

| Action | Code |
|---|---|
| `Begin` | entry of `ingest_repository`, `self._checkpoints.get(job_id)` |
| `CreateWorkspace`, `AssignWorkspace`, `CloneSucceeds`, `LeaveFetcher` | `_fetch_repository`: authenticate and `mkdtemp`; the assignment of `_workspace_dir`; `clone_from`; metadata, the end of the `with` block (which removes the workspace) and the first checkpoint |
| `FetchRefused`, `CloneFails` | the error paths of the fetcher, with and without a workspace |
| `Parse`, `Analyze`, `Embed`, `ExtractConventions` | stages 2 to 5, each with its `_save_checkpoint` |
| `SkipFetch`, `Reuse...` | the same stages when the checkpoint already has their output |
| `FindCheckpoint`, `DeleteCheckpoint`, `Return` | stage 6, `if job_id in self._checkpoints`; the `del`; the return of a result, or of an empty one after a failure |
| `DeleteMisses` | another call deleted the checkpoint in between: `KeyError`, the error checkpoint |
| `StageFails` | `except Exception`: the error checkpoint, the empty result |
| `Interrupt` | KeyboardInterrupt or SystemExit: only the context manager runs, which knows of no directory before the assignment |
| `Crash` | the process dies: checkpoints are gone, directories stay |

`rmtree` may fail half-way, in which case any part of the directory remains and is
forgotten (`CleanupWorkspace`). A file of `FlakyFiles` may fail to parse in one call and
parse in the next. `IngestContract` is what a caller relies on: a call runs and then
returns a result that is sound for its repository, fails, or is broken off. It has
neither stages nor checkpoints. `ImplementsContract` maps the pipeline to it.

### ConcurrencyLimiter (`security/middleware.py`, `security/rate_limiter.py`)

`RateLimitMiddleware.dispatch` for the requests of one user on several workers.
`place[r]` is the next Redis command of a request, or the handler it is suspended in,
`home[r]` its worker, `after[r]` what follows the `finally` clause (a response, a 429,
a cancellation, or an exception on its way to `except Exception`). `counter` and
`expiring` are the key `concurrent:{user}`. The Redis client is synchronous, so that a
worker is busy with one request until it reaches `call_next` (`Free`), and the workers
interleave at every command. A command may fail before or after it took effect
(`RedisFails`), a worker may die, the key may expire. `ran` counts the calls of the
handler; `lost` and `faulty` are history. Whether the rate check lets a request pass is
nondeterministic here.

### GatewayLimiter (`query/gateway.py`)

`authenticate_request` and `check_rate_limit` for the requests of one agent. There is a
counter for every window of each kind (burst, minute), because its key ends in
`current_time // length`; `deadline` is its time to live. A request reads the clock once
(`Authenticate`) and then goes through INCR, EXPIRE where it created the key, and the
comparison (`Judge`), for the burst window and for the minute. Between any two of these
time may pass (`Tick`), so that a slow worker increments a counter whose window is over
or that has expired. A command may fail, which admits the request unchecked, and the
worker may die. `prompt` (history) says in which windows a request was counted in time.

### SlidingWindow (`security/rate_limiter.py`, `security/middleware.py`)

`check_rate_limit` and `record_request` for the requests of one user to several
endpoints: the nondeterministic answer of ConcurrencyLimiter, in detail. `entries[k][s]`
is the sorted set of window `k` and scope `s` (an endpoint, or the user for the burst
window), a request's score is its `stamp`, and `deadline[k][s]` the time to live of the
key. A request reads the clock and then, window after window, removes the old entries
(`Trim`) and counts the rest (`Count`); refused, it looks for the oldest one (`Refuse`);
otherwise it reads the clock again (`Record`) and adds itself (`Add`) and extends the key
(`Expire`), window after window. Workers interleave at every command and may be slow;
commands fail and workers die as above; `get_usage_stats` removes old entries with a time
read at any earlier moment (`Observe`). There are `Workers` workers, of which only the
number matters. History: the windows a request was `added` to, to which it was added too
`late`, and those whose key expired between its ZADD and its EXPIRE (`unlucky`: the
request is then in no set although it was recorded).

### GraphStore (`graph/writer.py`)

What `GraphWriter` makes of one repository in Neo4j; every query carries its `repo_id`,
so that repositories do not meet. A *job* of a writer stores one version of the
repository, in the order of the methods and of the tests (nothing in `src/bob` calls the
writer): the repository's node, then files, symbols, imports and DEFINES in batches, then
services in one transaction and calls in batches. Nodes and relationships are sets of
keys, their properties are left out.

| Action | Code |
|---|---|
| `Begin`, `WriteRepository` | a new job, `write_repository` |
| `WriteBatch`, `EndOfList` | a batch of `_write_file_batch`, `_write_symbol_batch`, `_write_import_batch`, `_create_defines_relationships`, `_write_call_graph`; the end of their loops |
| `WriteServices` | `write_service_boundaries` |
| `Break` | a transaction fails, or its answer is lost, or the process dies |
| `Delete` | `delete_repository` |

A batch is any part of the list of at most `BatchSize` items, which covers any order of
the list. What a transaction does depends on what it finds: `MATCH` finds nothing after
a deletion, `MERGE` on an import's target creates a file node. `OrphanedSymbols`,
`OrphanedFiles` and `MissingDefines` are the three questions of `check_graph_integrity`.
History: a job is `whole` if no deletion fell into it; `stored` are the versions that were
written by whole jobs to their end, `touched` those written at all, since the last
deletion or across it. Transactions are taken to be serialised; that concurrent MERGEs
may duplicate a node where Neo4j has no uniqueness constraint is not modelled.

### GraphQueries (`graph/query.py`, `api/rest.py`, `ingestion/analyzer.py`)

Extends GraphStore by a reader. Each query method is one transaction, or two: `get_dependencies`
asks for one direction (`AskDependencies`) and then for the other (`ReadDownstream`),
`get_service_topology` for the services and then for the edges (`AskTopology`, `ReadEdges`), and
`POST /blast-radius` for the affected files and then for the metrics of each (`AskBlastRadius`,
`Enrich`). Writers go on and the repository may be deleted in between; the query for a file's
metrics may raise any exception, which the endpoint catches and answers with a file without a
score, and any other failure on the way ends the request (`QueryFails`). Variable-length patterns
are evaluated as Cypher does, over *trails*, the walks that use no relationship twice (`Walks`,
`Trails`, `TrailEnds`); `BlastRows` has a row for every pair of affected file and service.
`AnalyzerRadius` is the analyzer's answer to the same question, which it computes on its own
graph. `asked` (history) are the versions a query saw as a whole, `since` says that the repository
was deleted after it, `failed` are the files whose metrics could not be had.

### Registry (`storage/registry.py`)

The tables `index_registry` and `index_jobs`. Every method works in a session of its own:
`Load` SELECTs the row and computes the assignments in Python (`Assigned`), and
`CommitUpdate` UPDATEs the columns whose value differs from the loaded one (`Dirty`), which
is what SQLAlchemy does; under PostgreSQL's READ COMMITTED others commit in between.
`create_repository` and `create_index_job` are single statements under the database's
constraints, `CommitDelete` takes the jobs along, and `Rollback` is a commit that fails or
never comes. Two readers need several statements: `CountAll` and `CountStatus` for
`get_health_metrics`, `FirstPage` and `NextPage` for a client that walks through
`list_repositories`, which has no ORDER BY: `heap` is the order of a scan, in which a row
moves when it is updated. History: `ideal`, the rows if each call had happened at its
commit; `mixed`, the rows written by a session that had loaded an older version; the errors
`reported` and `owed`; what happened beside a reader.

### Chunking, ResultAssembly, SemanticIndex (`semantic/`, `query/assembler.py`, `api/rest.py`)

`Chunking` (`ExtractChunks`) and `ResultAssembly` (`AssembleSearchResults`) are operators: how the
body of a symbol is cut into overlapping chunks, and how hits become results by confidence within
a budget. A line is its length, a chunk its first and last line; the loop over the lines does not
count line ends, the chunk has them (`Content`), and an empty body has no chunks. `SemanticIndex`
runs them in a system. The first run over the chunks is that of the API or, without one, of the
local model (`Begin`); it embeds them in batches (`EmbedOneBatch`) and retries when the rate is
limited (`RateLimited`). An error ends it, and the local model embeds all chunks again, even where
it was the local model that failed (`FirstRunFails`). What that second run raises nobody catches,
nor what happens before the first batch of either (`GiveUp`). Then `InvalidateFile`, and
`PutObject` for each chunk. `Search` is POST /search: a page of the nearest objects (`Slice` of
`k` from `skip` on), of them the certain ones, less those for which the assembler meets an
exception. Nothing in `src/bob` calls `upsert_embeddings`; that an indexer invalidates a file and
then stores it is taken from `tests/integration/test_databases.py`. Weaviate keeps the length of
the first vector and refuses others, and may refuse any object, which the client does not report.
History: `alone`, the jobs nobody interfered with, and `whole`, the body whose chunks a file's
objects then are.

### ToolCalls (`tools/bob_tools.py`, `tools/client.py`)

Six functions and six methods that ask the REST API, with the exceptions each makes of an
answer (`OutcomesOf`), the attempts tenacity grants them, and the connections: a function opens
its own, a method takes that of `with BobClient()` or opens one, and decides a second time,
in its `finally` clause, whether to close it (`Take`, `Finally`). The with-block (`Enter`,
`ExitClose`, `ExitForget`) may open and close beside the calls of other threads. `shared`
(history) says that it did.

### FileCache (`storage/cache.py`, `api/rest.py`)

Entries in Redis, each written by a session with a cipher of its own. `CacheSet`, `Prewarm`,
`Invalidate`; `ListPattern` and `DeleteListed` are the KEYS and the DEL of
`invalidate_pattern`; `Vanish` is expiry and eviction; `GetFile` the endpoint that serves files from
the cache alone. `dropped` (history) holds the entries that an invalidation has reported
removed.

### AgentState (`tools/langgraph_integration.py`)

`CreateSnapshot`, `ClearSnapshot`, and `store_response` in the steps in which it reads and
writes dictionaries that threads share (`Store`, `Fetch`, `Look`, `BeginList`, `AppendResponse`,
`TrackInvocation`). `raced` (history) are lists that two threads began.

### CircuitBreaker (`utils/circuit_breaker.py`)

`call` in several threads: `Admit`, `ReadClock`, `Compare`, `HalfOpen`; `Succeed`, `CloseBreaker`,
`ResetFailures`; `Fail`, `CountFailure`, `TimeFailure`, `DateFailure`, `Judge`, `OpenBreaker`. No
lock is taken, and every read and write of an attribute, and every look at the clock, is a step.
History: whether calls were made one at a time (`alone`) and how many `failed`; when the breaker
was `opened` last, the calls whose decisions were `stale` by then, and whether the opening has
`held` against them.

### Tokens, ApiKeys, SecretRotation, Permissions (`security/auth.py`, `secrets.py`, `rbac.py`, `middleware.py`)

* `Tokens`: JWTs that expire at whole seconds, while the clock counts half ones;
  `BeginRevocation` computes the time to live that `StoreRevocation` gives to the entry of the
  blacklist. A request decodes a token (`Decode`), asks Redis (`AskBlacklist`) and goes on
  (`UseToken`, which is `refresh_access_token` for some). Redis may evict entries, being
  configured with `allkeys-lfu`.
* `ApiKeys`: `rotate_api_key` is `SelectKey`, `RevokeOld`, `StoreNew`, of which the last two commit
  one by one, or it breaks off; `verify_api_key` is `LookUpKey` and `UpdateLastUsed`. Keys that come
  from one another share a root.
* `SecretRotation`: instances of `SecretsManager`, each with its key, rotate in transactions that
  lock the rows they write (`SelectSecrets`, `SkipSecret`, `UpdateSecret`, `UpdateFails`,
  `CommitRotation`, `RotationFails`), while others store secrets. `readable` (history) are the
  rows an instance must be able to decrypt.
* `Permissions`: scopes of roles against endpoints, and the three queries behind a
  repository check (`AskSource`), while rights and roles change.

### AuditTrail, ServiceHealth (`security/audit.py`, `middleware.py`, `main.py`, `observability/health.py`)

* `AuditTrail`: `AuditLoggingMiddleware.dispatch` (`Handle`, `StampRequest`, `LogSuccess`,
  `LogFailure`) and other events write through one connection, which an error makes unusable
  (`aborted`); an entry gets its time before it is inserted. `ReadPage` walks through
  `query_audit_log`, `Cleanup` deletes. `MonthLength` shortens the month for `replace(day=...)`.
* `ServiceHealth`: `lifespan` part by part, each of which may fail, and `run_checks` check by
  check, while services go down and come back. A check passes only if its client library is
  installed (`Importable`) and its service is up, and then may still fail or run out of time;
  `spoilt` (history) are the services whose check failed while they were up.

### MCTools, MCServices

Some of the modules above share no variables but do share their surroundings. `MCTools` checks
ToolCalls, FileCache, AgentState and CircuitBreaker, `MCServices` the others. A variable `part`
says which of them moves, so that a run goes through the sum of their states and not through the
product.

## The checks

`MC...` modules hold the instances; every `.cfg` is one run.

| Run | What it shows | Instance | States |
|---|---|---|---|
| `ingest_safety` | `ResultCoherent`, `LeftoverHasCause`, `NoSilentLeak`, `SavedWorkSurvives` | one repository with two files, of which one defines symbols and may fail to parse; one job id; two threads; two workspaces | 464,006 |
| `ingest_contract` | `ResultMatchesRepo`, `ImplementsContract` | two repositories with a file and a job id each, two threads, two workspaces | 981,516 |
| `limiter_safety` | `CounterCovers`, `ConcurrencyBound` | two workers, three requests, limit 1 | 1,226,682 |
| `limiter_liveness` | `EveryRequestEnds` | two workers, two requests, limit 1 | 90,615 |
| `gateway_safety` | `WindowBound`, `NoEarlyRefusal`, `KeysExpire` | three requests, a minute of two moments with two burst windows, limits 2 and 1, two minutes | 793,822 |
| `sliding_safety` | `WindowBound`, `NoEarlyRefusal` | two workers, three requests to two endpoints, a window of two moments per endpoint and one of one moment for the user, limits of one, keys that live exactly as long as their window, three moments, one fault | 671,190 |
| `query_safety` | `WrittenIsStored`, `FromVersions`, `SoundWhenWhole`, `BlastIsReachability`, `EveryFileAnswered`, `CyclesReal`, `TopologyOfVersion` | two writers, two jobs, batches of one; two versions of two files and a module whose imports together form a cycle, three symbols of which one is another one moved, two services that share a file; two hops | 3,941,094 |
| `tools_safety` | `NoClientLeaks`, `CallsEnd`; `ServedIsCurrent`; `SnapshotsAgree`; `OpensForCause`, `OpenHolds` | two calls of two attempts, two with-blocks, four kinds of answers; two sessions, two keys, two entries; three agents, two snapshots of an incident; two threads of three calls, a maximum of two failures, a timeout of one, four ticks | 626,252 |
| `services_safety` | `SerialUnlessMixed`, `ErrorsRemembered`, `WithinDrift`; `OneModel`, `StoredCovers`, `AnswerSound`; `RevokedStaysOut`, `OneValidKey`, `ReadableAfterRotation`, `CheckMeansAccess`; `AnsweredIsLogged`, `PagesMissNone`; `ReadinessHonest` | two sessions, two repositories, a job, three calls; two indexers, two files, two jobs, bodies of up to three lines, limits in the order of the code's (5, 4 and 2 characters), a budget of ten, pages of one or three from the first hit on or the second; two tokens, five half seconds; two rotators, three keys; two managers, two rows, three cipher keys, two rotations; three changes of rights; two requests, three entries, pages of one; three services, three outages | 1,902,595 |

Three more runs (`ingest_all_files`, `limiter_rerun`, `query_analyzer`) expect a violation;
they are the subject of
[a section of their own](#where-the-code-and-its-documentation-disagree).

The properties, and why they are not evident:

* `ResultCoherent`: two calls of a job overwrite each other's checkpoints between any
  two stages, and a third resumes from what it finds; still the embeddings and the
  conventions of every result cover exactly its parse results, because a call that
  computes parse results anew never reuses what was computed from others.
* `SavedWorkSurvives`: no save of a call drops what the call itself resumed from or
  computed; what is lost is lost to the deletion by a call that has all its results, a
  failure, a crash, or a concurrent call that read the checkpoint before the work was saved
  and has not come as far itself.
* `LeftoverHasCause`: whether there is a checkpoint to delete is asked in one step and it is
  deleted in another, while other calls of the job save theirs or delete it first. When none
  is in progress, what is left still tells of an accident: work of an interrupted call, or an
  error of one that failed or found its checkpoint deleted.
* `NoSilentLeak`: over all the ways a call can end no directory is left but by a failed
  `rmtree`, a crash, or an interrupt between `mkdtemp` and the assignment.
* `ResultMatchesRepo`, `ImplementsContract`: hold if no two repositories share a job id
  (`IdsAreUnique`), and only then.
* `CounterCovers`: the GETs and DECRs of several workers may interleave, but each
  worker takes off at most what it put on, so that no request in progress is forgotten;
  and every way out of the middleware passes the decrement, so that nothing else is
  counted, except for what an error or a death left.
* `ConcurrencyBound`: the check is not atomic with the increment; the limit can be
  exceeded by one request per other worker, and by no more, except for what expired.
* `WindowBound`: a counter outlives its window even if its lifetime is set late, and
  returns no value twice while the window lasts; whatever fails, the window never
  admits more than its limit of checked requests.
* `NoEarlyRefusal`: a refusal proves that the limit was exceeded in that window.
* `KeysExpire`: a counter without a lifetime is about to get one, or was left by an
  error or a death.
* `WindowBound` of SlidingWindow: all requests that pass the check before any of them is
  recorded are admitted; however they interleave, and whatever fails, they are no more
  than the limit and one for each further worker, in every window and not only in the one
  that a check looked at. Entries that are trimmed, or expire with their key, are never
  among those that still count.
* `NoEarlyRefusal` of SlidingWindow: a stale entry never causes a refusal, unless it was
  recorded late, and the advertised wait is never zero.
* `WrittenIsStored`: relationships are created between nodes written by earlier
  transactions, and silently not created if they are missing; still a job that no
  deletion interrupts leaves its version there as a whole, whatever other jobs left
  half-done, and others cannot take anything from it.
* `FromVersions`: a deleted repository does not come back, except for what jobs write that
  were going on; in particular nothing survives a deletion by not being reached.
* `SoundWhenWhole`: the integrity check does not complain about a graph whose jobs all
  came to their end, whatever broke off before; its one false alarm are imported modules
  that are no files.
* `BlastIsReachability`: trails of bounded length find exactly the files that reach a
  changed one, also around a cycle and over imports of two versions.
* `EveryFileAnswered`: the two steps of the endpoint neither lose nor invent a file, even
  if it is deleted between them or its metrics cannot be had; and without either it has a
  score.
* `CyclesReal`, `TopologyOfVersion`: answers put together from two transactions still mean
  something, since without deletions the graph only grows.
* `SerialUnlessMixed`: updates that overlap write only the columns they changed, so that
  most overlaps do no harm; a row differs from what its calls make of it one after the
  other only if a session wrote it on the base of an older version, and no late commit
  brings a deleted row back.
* `ErrorsRemembered`: of errors reported at once some are lost, never all, and none is
  invented.
* `WithinDrift`: the total and the counts of `get_health_metrics` are taken in different
  states, and the pages of `list_repositories` have no order; answers are off by at most one per
  commit in between.
* `OneModel`: retries, the fallback and the second run of a local model that failed neither
  lose nor repeat a chunk, and never mix vectors of two models.
* `StoredCovers`: ids are made of the first line of a chunk, so that chunks may replace one
  another; what remains still covers every line of a body that is not empty. How long a chunk
  may be is less than the docstrings say, and the property says how much: a body that was
  split has only chunks within the limit but for line ends, or but for a last line behind the
  overlap.
* `AnswerSound`: offset and limit are applied before the certainty, the assembler drops a hit
  for any exception of the graph, the budget cuts off the rest. How many objects are nearer
  than a hit, or at least as near, tells which must be on a page and which may be, whatever
  the order of equals; the answer has none that may not, it lacks one that must only for an
  exception or for lack of room, and none for the sake of a less certain hit of an equally
  central file.
* `NoClientLeaks`: whether to close a connection is decided twice, from state that others
  share; nothing leaks as long as with-blocks neither overlap nor begin during a call.
* `CallsEnd`: a call ends whatever the server does.
* `ServedIsCurrent`: keys are listed and deleted in two steps, and yet an invalidation that
  reports success leaves nothing behind that was there when it began; and without a
  configured key nothing cached is ever served.
* `SnapshotsAgree`: the list of responses and that of invocations are written one after the
  other; they agree, in one snapshot, even if it is replaced in between, unless two threads
  began the same list.
* `OpensForCause`: without a lock failures get lost, but none is invented, and the breaker opens
  only after as many as its maximum. If calls are made one at a time it is closed exactly while it
  counts less than that, and lets nothing through before the timeout; consecutive the failures
  need not be (see the disagreements below).
* `OpenHolds`: threads may test a half-open breaker at once, and a success that comes late
  closes one that a failure has just opened again. Still only a call that had decided before
  that opening can end it early, so once such calls are through it holds for its timeout.
* `RevokedStaysOut`: times to live and dates of expiry are rounded differently; the entry in
  the blacklist still outlives its token.
* `OneValidKey`: in a sequence of rotations one key of a family is valid at any time they
  are over, and never two. Overlap and failure are excluded, since the code does not
  survive them.
* `ReadableAfterRotation`: the rotations of several instances and the secrets stored in
  between leave to each instance what only it wrote.
* `CheckMeansAccess`: three queries see three states; a yes means that the right existed at
  some moment, and a no that it did not, or moved from a source not yet asked to one that
  was.
* `AnsweredIsLogged`, `PagesMissNone`: error paths that log again what could not be logged; pages
  that shift because entries appear at the front and are deleted at the end.
* `ReadinessHonest`: the checks see different moments; a service that the answer calls healthy
  was up at one of them and has a client library to ask it with, and an unhealthy answer
  means that a service was down at one of them or a check failed by itself.

**Bounds.** Two threads and one shared job give every pairwise interleaving of stages, and since a
thread calls again after each end, sequences of calls that resume from one another. Two workspaces
bound the number of clones in a behaviour; the third call has to resume or fail. Three requests on
two workers let two workers check at once while a third request holds the slot or waits on a
worker that is suspended. Three requests over two minutes with limits 2 and 1 let each limit
refuse, a counter expire while a request is still in progress, and a slow request re-create it. In
SlidingWindow two workers check side by side, the third request meets the entries of both, time
suffices for entries to leave each window and for a slow worker to record an entry that is too old
already; after one fault, in any command, everything else still goes on. Two graph writers
interleave their batches; the second job repeats a version that broke off, or writes the other one
beside it, across it or across a deletion. Two hops reach around the cycle that the imports of
both versions form. Two sessions with three calls are enough for an update that another one falls
into and for a row deleted under it; two repositories and pages of one let a row move across the
border of a page. Bodies of up to three lines have no chunk, one, or several that overlap, that
repeat a whole chunk or that start at one line, with lines that are too long or empty; three
chunks make two batches, and pages of one or three hits from the first or the second leave hits
out on either side. A token lives one second, or one and a half, begins at either half of a
second, and is revoked and presented at every moment of its life. Three keys allow two rotations
in a row or at once, three cipher keys two rotations to two different ones. With two rows a
rotation can write one and fail at the other. Three changes take a right from one source, give it
by another and move it on behind a check. In the run every service has its client library; the
theorem holds for any that have. Three entries on three pages may shift twice; two days in a month
of three suffice for a clean-up with and without its date. Three agents race for one list and find
it begun. Two threads of three calls with a maximum of two failures and four ticks with a timeout
of one open a breaker, half-open it in both threads, and open it again while the other still
decides by what it read before. Runs, workers, requests, graph writers, workspaces, and in
`services_safety` the sets that nothing tells apart are symmetric, as is the exchange of the two
repositories with all that is theirs in `ingest_contract`. Every run disables the deadlock check,
since calls, requests, jobs and time all come to an end.

**Fairness.** `limiter_liveness` and `CallsEnd` need some. A worker goes on with the request it is
at (`WF_vars(Step(r))`), because it has nothing else to do until the next `await` and every
Redis command returns or fails by the socket timeout; and handlers end, because the
event loop resumes a coroutine whose result is there (`WF_vars(HandlerEnds(r))`,
`WF_vars(UncheckedEnds(r))`). Nothing is assumed of arrivals, deaths or expiry. A call of the
API goes on (`ToolFairness`, a condition on behaviours with `part = "tools"` only) because its
thread does nothing else, and httpx answers every request or raises an exception by its
timeout. Nothing is assumed of with-blocks.

## The proofs

TLAPS proves, for every value of the constants that satisfies the named assumptions
of the modules:

| Theorem | Module | Statement |
|---|---|---|
| `TypeCorrect` | `IngestionProofs`, `ConcurrencyProofs`, `GatewayProofs`, `SlidingProofs`, `GraphProofs` | `Spec => []TypeOK`, of five modules |
| `ResultsCoherent` | `IngestionProofs` | `Spec => []ResultCoherent` |
| `NoWorkspaceLeaks` | `IngestionProofs` | `Spec => []NoSilentLeak` |
| `LeftoversAreAccidents` | `IngestionProofs` | `Spec => []LeftoverHasCause` |
| `SavedWorkIsKept` | `IngestionProofs` | `Spec => SavedWorkSurvives` |
| `ResultsSound` | `IngestionProofs` | `Spec => []ResultMatchesRepo`, if `IdsAreUnique` |
| `Implements` | `IngestionProofs` | `Spec => ImplementsContract`, if `IdsAreUnique` |
| `AtMostLimitPerUser` | `ConcurrencyProofs` | `Spec => []ConcurrencyBound` |
| `CounterNeverForgets` | `ConcurrencyProofs` | `Spec => []CounterCovers` |
| `NoWindowExceeded` | `GatewayProofs` | `Spec => []WindowBound` |
| `EveryKeyExpires` | `GatewayProofs` | `Spec => []KeysExpire` |
| `RefusalsHaveCause` | `GatewayProofs`, `SlidingProofs` | `Spec => []NoEarlyRefusal`, of both |
| `WindowsBounded` | `SlidingProofs` | `Spec => []WindowBound` |
| `WrittenVersionsStay` | `GraphProofs` | `Spec => []WrittenIsStored` |
| `NothingForeign` | `GraphProofs` | `Spec => []FromVersions` |
| `IntegritySound` | `GraphProofs` | `Spec => []SoundWhenWhole` |
| `RadiusIsReachability` | `GraphProofs` | `SpecQueries => []BlastIsReachability` |
| `AffectedAreAnswered` | `GraphProofs` | `SpecQueries => []EveryFileAnswered` |
| `CyclesAreReal` | `GraphProofs` | `SpecQueries => []CyclesReal` |
| `TopologyIsWhole` | `GraphProofs` | `SpecQueries => []TopologyOfVersion` |
| `RowsAreSerial` | `ServiceProofs` | `RegistrySpec => []SerialUnlessMixed` |
| `ErrorsAreRemembered` | `ServiceProofs` | `RegistrySpec => []ErrorsRemembered` |
| `ReadersStayWithinDrift` | `ServiceProofs` | `RegistrySpec => []WithinDrift` |
| `AnswersAreLogged` | `ServiceProofs` | `AuditSpec => []AnsweredIsLogged` |
| `PagesMissNothing` | `ServiceProofs` | `AuditSpec => []PagesMissNone` |
| `ReadinessIsHonest` | `ServiceProofs` | `HealthSpec => []ReadinessHonest` |
| `OneModelEach` | `ServiceProofs` | `IndexSpec => []OneModel` |
| `StoredBodiesAreCovered` | `ServiceProofs` | `IndexSpec => []StoredCovers` |
| `AnswersAreSound` | `ServiceProofs` | `IndexSpec => []AnswerSound` |
| `RevocationHolds` | `AccessProofs` | `TokensSpec => []RevokedStaysOut` |
| `OneKeyAtATime` | `AccessProofs` | `KeysSpec => []OneValidKey` |
| `SecretsStayReadable` | `AccessProofs` | `SecretsSpec => []ReadableAfterRotation` |
| `ChecksMeanAccess` | `AccessProofs` | `RightsSpec => []CheckMeansAccess` |
| `ClientsAreClosed` | `ToolProofs` | `ToolSpec => []NoClientLeaks` |
| `InvalidationHolds` | `ToolProofs` | `CacheSpec => []ServedIsCurrent` |
| `SnapshotsStayTogether` | `ToolProofs` | `AgentSpec => []SnapshotsAgree` |
| `OpeningHasCause` | `ToolProofs` | `BreakerSpec => []OpensForCause` |
| `BreakerHolds` | `ToolProofs` | `BreakerSpec => []OpenHolds` |

The modules of MCServices and MCTools have specifications of their own (`RegistrySpec`,
`TokensSpec` and so on), and the theorems are about these. In the runs `part` says which
of them moves while the variables of the others keep their initial values, so that every
behaviour of a run is one of each of them.

**Ingestion.** `ResultCoherent` speaks of completed calls only and is not inductive: a call
becomes incoherent earlier, when it takes over or saves the wrong thing. `CoherenceInv` says that
every checkpoint, and every checkpoint a call has read, is `Consistent` (its embeddings and
conventions are absent or cover its parse results), and that a call is `InStep`: it took over the
parse results it read, if there were any, and its other parts cover its parse results as far as it
has come. `SoundnessInv` adds the workspaces: no two fetchers share one, each holds only files of
its fetcher's repository, and every saved path points to a workspace that was released with
nothing but files of the job's repository in it (`Released`, `Belongs`). With unique ids that
gives `ResultMatchesRepo`, and both invariants together the refinement, one step of the contract
or a stutter for every action. `LeftoverInv`: a checkpoint is `Explained` by the end of an earlier
call, or by one in progress that saved it or will come to its deletion; only `DeleteCheckpoint`
forgets those ends, and with them the checkpoint. `SavedWorkSurvives` is about single steps; it
follows from `CoherenceInv` and `OrderInv`, which relates what a call has come to do with the
checkpoint it read.

**ConcurrencyLimiter.** `CounterCovers` and `ConcurrencyBound` are proved together (`LimiterInv`).
Every step has one of four effects on the two sets and the counter (`StepEffect`): it shrinks the
sets, lets a request pass the check below the limit, counts one, or takes one off; each effect
keeps the invariant (`EffectKeeps`). That nothing is counted that is not in progress
(`NothingLeaks`) is kept by every step for a reason of its own: an error or a death is noted, and
every other step moves set and counter together (`LeakStep`). A request that passes is on a worker
that runs no other (`OneAtATime`), so that at most one per worker has passed and not counted
(`PassedBound`, an injection into the workers).

**GatewayLimiter.** `GatewayInv`: a counter's deadline lies beyond its window
(`OutlivesWindow`, from the arithmetic of `t \div length`), so that while the window lasts
the counter covers every value it has returned (`CoversReturned`), hence no value is
returned twice to requests that are in time (`Distinct`), and an admitted request got one
from 1 to the limit (`Judged`). The bound is the injection into `1..Limit[k]`.

**SlidingWindow.** `SlidingInv` speaks of *claims*: a request that has passed the check of a
window has a claim to every window of that kind that its stamp lies in or, as long as it
has not read its time, may come to lie in. Only `Count` adds a claim. At that moment every
claim in the window checked is an entry of its set, since checks and expiry take off only
entries that are over (`EntriesKept`, `KeysOutlive`), or belongs to a request that is still
on a worker; the first are fewer than the limit and the second fewer than the workers
(`BusyBound`), the request itself being one of them. So claims stay at or below
limit + workers - 1 (`ClaimBound`), and admitted requests are among them.

**GraphStore.** `GraphInv`: what a writer whose job is still whole has written is there, list by
list, as far as it has come (`Progress`), and its version counts as touched
(`TouchedInv`). Transactions only add to the graph (`Grows`), so that the others keep what
one writer has achieved; deletions reset it together with `whole`. The end of the last
list turns `Progress` into `Has` (`ProgressEnds`), which gives `WrittenIsStored`, and
`SoundWhenWhole` follows from it and `FromVersions`: every node belongs to a touched version,
hence to a stored one, which has its relationships.

**Refusals.** Both `NoEarlyRefusal` need the converse of a bound: that what a request found is
really there. In GatewayLimiter a counter never exceeds the number of requests that have
been at it (`CountsRequests`), and neither does any value it has returned. In SlidingWindow
what is in a set was added to it (`EntriesAdded`) by a request that had read its time
(`AddedStamped`); between its ZREMRANGEBYSCORE and its ZCARD a request finds only entries of its
window, or some that were recorded late (`FindsRecent`), so that the number that led to a
refusal is one of requests in the window (`LimitReached`).

**GraphQueries.** `QueryInv` adds to `GraphInv` what the first half of an answer means while the
second is still to come: `AskedKept` (the versions that the query saw are still there, unless
the repository was deleted), and for each kind of query that its rows are walks along
imports, or services of those versions (`EnrichInv`, `DependencyInv`, `TopologyInv`). The theorem
about the blast radius needs that trails reach what walks reach: among the walks of bounded
length from one file to another there is a shortest, and it uses no relationship twice,
since otherwise the part between could be cut out.

**Registry.** `RegistryInv`: a session that is `alone` holds the assignments that its call makes
to the row as it is now (`UpToDate`), and however old a session's row is, only reports and
metrics write the count of errors (`CountsKept`). `DriftInv` is about the readers: `heap` is an order
of the rows that exist; the counts taken so far and the rows that later counts would find
differ from the total by at most `drift`; and so do the rows that the remaining pages
would miss or repeat. Each commit moves any of these by at most one place (`OneWritten`), which
is why one such invariant serves both readers.

**AuditTrail, ServiceHealth.** `AuditInv`: the number of an entry stands for its time, days
included (`DaysInOrder`), which makes what a clean-up deletes a suffix of the list; what is
about to be written has a number of its own (`LoggedOnce`); and of the entries that were there at
the start, those before the reader's offset are the ones it has got (`PagesKept`). `HealthInv`:
no request is under way before the checks are registered, and its worst result so far
stands for the checks it has run: all of services seen up with their library, or one of a
service seen down or spoilt (`ProbesTell`).

**Chunking, SemanticIndex.** The loop over the lines is a recursive function on the numbers up to
the length of the body. `LoopHolds` shows of each of its values that the finished chunks cover the
lines before the current one, end further on one after the other and keep their limits;
`ChunksCover` adds the last chunk, and the body that fits into one or has none. `StoredInv` says
where a job is: its first chunks are embedded by one model (`JobOK`), and as long as nobody
interferes the objects of its file are those of its first chunks, where of two with one id the
later is left (`Holds`). What a chunk that was replaced covered, the one that replaced it covers
too, since both begin at the same line and the later one ends further on.

**ResultAssembly.** `Ranked` is proved to number the places of a finite set in the order it is
given, so that filtering keeps the order (`PickedAre`) and sorting is a permutation that keeps
the order of equals (`SortedAre`); `TrimKeepsBudget` says that the result of the cut fits and that its
next element would not. With equal centrality confidence grows with certainty
(`ConfidenceGrows`), so that the order of the answer is that of the certainties. `ObjectsOK` provides
that the objects are finitely many and have the ids of chunks; and the place of a hit among
the nearest lies between the number of objects nearer than it and that of those at least as
near (`PlaceIs`), which decides whether `Slice` has it (`SliceIs`).

**Tokens, ApiKeys, SecretRotation, Permissions.** `TokensInv`: the time to live that a revocation
carries reaches beyond the token's end although both are rounded (`StoresLongEnough`), and so does
the entry it stores (`EntryOutlives`). `KeysInv`: a family of keys is in one of three states, the
valid key untouched, selected, or revoked and about to be replaced (`Orderly`). `SecretsInv`: no
two transactions hold the same row (`LocksExclude`), and a row that an instance must be able to
read is encrypted with its key, was so when a rotation selected it, and is still to be written or
written and locked, unless a statement failed (`ReadableThroughout`). `RightsInv`: when a source
has been asked in vain, the right does not come from it now, unless it was gained since
(`CheckFollows`).

**ToolCalls, FileCache, AgentState, CircuitBreaker.** `ToolInv`: as long as with-blocks do not
overlap, the pool is that of the only block (`PoolOwned`) and a call that took a client of its own
closes it unless it has become the pool (`OwnIsClosed`). `CacheInv`: every write has its number
(`NumbersUnique`), and what an invalidation has found is under the keys it has listed, or gone,
whatever was written in between (`ListedHolds`). `SnapshotInv` states `SnapshotsAgree` in both
directions for the responses that are still to be tracked. `BreakerInv`: neither the number of
failures nor one that a thread is about to write exceeds what has failed (`NoneInvented`); whoever
opens the breaker, or found it open, has seen enough of them (`Cause`); as long as an opening
holds, the date of the last failure is none before it, and what threads decide that were not yet
on their way is timely (`Holding`); and if calls come one at a time each place in the code has its
own condition on the three attributes (`OneByOne`).

Induction over numbers is obtained from the fact that a set of numbers has a least
element (`LeastNumber`, from the library's well-founded induction): the least
number for which a recursive function fails to do what it should is a contradiction.
No operator is passed as a parameter, and no module that is proved about declares an
operator RECURSIVE.

What the theorems assume of the constants are the assumptions named in the modules. Most give
types; those that say more are these. The job ids of repositories differ where `IdsAreUnique` is
mentioned. Values that stand for nothing (`NoJob`, `NoRow`, `None`) are none of the values they
are told from. The imports of a version, and the rows that are there at first (`Given`), are
finitely many. A key that is read with the cipher of the request was written with that of a
session, whence `"request" \notin Sessions`. `Certainty` is a number of tenths for every id that a
chunk of one of the bodies may get.

**Left to TLC.** `EveryRequestEnds` and `CallsEnd`, since the prover handles neither fairness nor
ENABLED: the steps could be proved to decrease a measure, but not that they are enabled. All other
properties that the passing runs check are proved. The three that are expected to be violated
have, of course, no proof. The proofs trust the backends (Z3, Zenon, LS4) and the library's
theorems on finite sets, sequences and well-founded induction.

## Where the code and its documentation disagree

Three runs find a behaviour of the code that contradicts what the quoted line says.

* `ingest_all_files`: `with RepositoryFetcher()` (orchestrator.py:311) removes the workspace
  before its files are parsed; the call succeeds without a single parse result, against
  "Language Parsers - Parse all source files" (line 113).
* `limiter_rerun`: `except Exception` (middleware.py:311) also catches exceptions of the
  handler and calls it again, under "Don't block request on rate limiter errors".
* `query_analyzer`: descendants along imports are called "files that depend on this file"
  (analyzer.py:435) and are the files this file depends on.

Others show in the actions of the models, without a run of their own:

* the error checkpoint (orchestrator.py:287, `StageFails`) replaces the work that earlier
  stages saved in a "Checkpoint for resuming long-running jobs" (line 44);
* of two calls of one job that complete at once the later finds its checkpoint deleted between
  `in` and `del` (orchestrator.py:264–265, `DeleteMisses`), and returns a failure with all its
  results computed;
* an interrupt between `mkdtemp` and the assignment of `_workspace_dir` (fetcher.py:135, 196;
  `Interrupt`) leaves a directory that "Context manager exit - cleanup workspace"
  (fetcher.py:496) does not know;
* an analysis of no files is reused (orchestrator.py:197, `ReuseAnalysis`) while the files
  are parsed again, so that a "complete" result (line 86) has an analysis of nothing;
* around a border of fixed windows, twice "500 req/min" (gateway.py:33) pass within a minute,
  and "1000 requests per minute burst" (gateway.py:149) are never admitted, since the lower
  limit per minute is checked in a burst, too (`Judge`);
* check and record of the sliding windows are not atomic: the term `Workers - 1` of
  `WindowBound` is the excess over a limit that is kept in Redis "for distributed rate
  limiting" (rate_limiter.py:73);
* `retry_after`, "Seconds to wait if rate limited" (rate_limiter.py:95), is computed for the
  first window over its limit, and another may refuse after the wait (`Refuse`);
* symbols are merged by file, name and first line and never removed (writer.py:271,
  `PutSymbols`): one that moved is in the graph twice, against "Implement conflict resolution
  for incremental updates" (writer.py:39);
* the edges of a topology are read after its services (query.py:323, `ReadEdges`): "all
  services and inter-service dependencies" (query.py:285) may have dependencies of services
  it does not list;
* a file of two services counts twice among the "affected files" (query.py:264, 270;
  `BlastRows` has two rows);
* the default id `ingest_{int(time.time())}` (orchestrator.py:162) is shared by calls in the
  same second, the later of which resumes from the checkpoint of another repository:
  `ResultMatchesRepo` holds if `IdsAreUnique`.

In the queries, the registry and the index:

* any exception of the metrics leaves an affected file without a score (rest.py:433, `Enrich`),
  and any exception of the graph drops a hit from an answer that does not say so
  (assembler.py:178, `Assembled`);
* a local model that fails where no API is configured is logged as "API embedding failed" and
  run again over all chunks (embedder.py:165–172, `FirstRunFails`); Gemini, a documented
  provider, raises a NotImplementedError that the fallback does not catch (embedder.py:369), so
  that `provider` is modelled as OpenAI or none;
* sentence-transformers is in neither pyproject.toml nor poetry.lock, and without it
  embedder.py:12–17 takes openai for missing, too: in an image built from them every run ends in
  an ImportError (`GiveUp`). The model has the packages installed;
* "stale" is said of repositories without a push for ten minutes, while the code
  compares the date of the last incremental index, and one without such a date never is;
* a new chunk begins with the overlap and the line that did not fit, whatever they amount to
  together, and line ends are not counted (embedder.py:280, `AddLine`): a line of 200 and one of
  1900 characters make a chunk of 2101, which is 525 tokens at four characters each, against
  "≤512 tokens per chunk" (embedder.py:54, 183); `Bounded` is what holds;
* objects whose vector has another length are refused without notice, and
  `upsert_embeddings` returns the number it was given (`PutObject`, `EndUpsert`);
* with re-ranking enabled the weight of centrality rises instead of falling (`Weights`);
* a best result too large for the budget leaves an empty answer (`TrimToTokenBudget`); the limit of
  hits is applied before `min_certainty`, which a certainty of zero passes (`Enough`).

In the tools:

* retries end in tenacity's `RetryError` and not in the documented `QueryError`
  (bob_tools.py:70, `Finally`), and `max_retries` of `BobClient` is not used;
* `get_file_content` turns its own `ResourceNotFoundError` into a `QueryError`, which is retried,
  and fails with an AttributeError on a network error (`ToolFile`);
* `FileCache` has no attribute `redis_client`, so that `trigger_reindex` and the event bus never
  reach Redis, and nothing in `src/bob` consumes the queue;
* snapshots called immutable are handed out as live objects, and the handlers of incidents
  make a state manager of their own;
* an empty file in the cache is "not found" (`GetFile`).

In access and operation:

* a success in CLOSED does not reset the count: with a maximum of two a failure, a success and
  a failure open a breaker (circuit_breaker.py:34, `Succeed`) that "OPENED due to consecutive
  failures" (line 44), even if calls are made one after the other;
* `check_postgres` imports asyncpg (health.py:223), which is no dependency in pyproject.toml and
  only an extra in poetry.lock (line 4434): in an image built from them PostgreSQL is not
  `Importable`, and the application never ready, against "Returns 200 if service is ready to
  accept traffic" (main.py:234), though all it needs is up;

* "Allow expired tokens to be revoked" (auth.py:182): Redis refuses a time to live of zero
  (`StoreRevocation`);
* rotating a revoked API key makes a valid one, and a rotation that breaks off leaves none
  (`SelectKey`, `BreakOff`);
* the rows that `rotate_encryption_key` re-encrypts hold hashes that no key decrypts, if
  `APIKeyManager` wrote them; after a failed statement the commit rolls back without an
  error, and the instance changes its key all the same (`UpdateFails`, `CommitRotation`); a
  restart returns to the configured key;
* the clean-up of the audit log computes its date within the current month (`HasCutoff`), so
  that the default of 90 days always fails;
* one error of the audit connection makes every later entry fail, and with it every
  request that succeeds behind the middleware (`AfterFailedLog`);
* the list of accessible repositories counts grants to write, which a check to read refuses
  (`InAcl`); the middlewares of `security/` are installed nowhere in `main.py`;
* readiness without any registered check is "healthy" (`ReadinessHonest`), and stopping the
  application may create a gateway only to close it (`CloseGateway`).

## What is not modelled

Parsers, the convention extractor, metrics, tracing, logging, input validation and the
masking of secrets hold no state that outlives a call and no concurrency; their outcome is
nondeterministic where a model needs it. GitHub, git, Redis, Neo4j, Weaviate, PostgreSQL
with SQLAlchemy, httpx, tenacity and PyJWT are modelled by what the code can observe of
them. Cryptography is an outcome, or a key that fits or does not.

Of components that are modelled, these parts are left out:

* operations that only read, in one statement, and return what they find: the getters of
  the registry and `detect_stale_repositories`, `search_by_text`, `get_stats`, `list_api_keys`,
  `get_user_activity_summary`;
* functions of data nothing calls: `enrich_with_dependencies`, `filter_by_confidence`,
  `deduplicate_results`; the query router, a table of patterns;
* the tools that only rearrange an answer (test map, conventions, risk context);
* the event bus and the queue of re-indexing jobs, which is never reached (see above): handlers
  are called one after the other, and their exceptions are logged; the stubs for Kafka;
* the remaining REST endpoints with the batch, and gRPC, which pass on the same calls;
* `pull_updates` of the fetcher, which nothing calls; call chains, dependency paths and git
  blame of the graph; how the analyzer builds its graphs; the middleware that sets headers;
* MERGEs that are not serialised.

## Plan

1. *Done*: the pipeline with its contract; the concurrent-request limiter; the
   gateway's windows; their type invariants and main safety theorems.
2. *Done*: `SlidingWindow` under several workers, with the bound of the excess;
   `CircuitBreaker`, with what an opening still means to threads that interleave.
3. *Done*: `GraphStore` and `GraphQueries` with their proofs; the analyzer's blast radius. Left:
   the parts named above.
4. *Done*: `Registry`, `AgentState`, `ToolCalls`.
5. *Done*: `Tokens`, `ApiKeys`, `SecretRotation`, `Permissions`, `AuditTrail`, `ServiceHealth`.
6. *Done*: `FileCache`; chunking, index and search.
7. *Done*, proofs: an inductive invariant for every module, and with it all safety properties
   of the runs.
8. Left: the refinement of the graph queries by one atomic query where `asked` allows it; a
   contract of the registry (calls in the order of their commits) that `Registry`
   implements; a measure for `EveryRequestEnds` whose decrease is a theorem even if the end is not.

The project keeps to a dozen runs in all: a component that is added shares a run with
others of its kind.

## Running it

    tlc -workers 2 -config ingest_safety.cfg MCIngestion.tla
    tlapm GatewayProofs.tla

The configurations named `ingest_...` belong to `MCIngestion`, `limiter_...` to
`MCConcurrencyLimiter`, `gateway_...` to `MCGatewayLimiter`, `sliding_...` to `MCSlidingWindow`,
`query_...` to `MCGraphQueries`, `tools_...` to `MCTools`, and `services_...` to `MCServices`. The
proofs of ServiceProofs take some minutes, those of the other modules less.
