------------------------------ MODULE Registry ------------------------------
(****************************************************************************)
(* IndexRegistryManager (storage/registry.py): the tables index_registry    *)
(* and index_jobs in PostgreSQL.                                            *)
(*                                                                          *)
(* Every method works in a session of its own.  An update SELECTs the row,  *)
(* computes its assignments in Python, and commits; the ORM then UPDATEs    *)
(* the columns whose value differs from the one it loaded, and no others.   *)
(* Under READ COMMITTED other sessions commit in between.  Two readers take *)
(* several statements for one answer: get_health_metrics, and a client that *)
(* goes through the pages of list_repositories.                             *)
(*                                                                          *)
(* ideal is what the same calls would have made of the rows if each had     *)
(* happened at once, at its commit.                                         *)
(****************************************************************************)
EXTENDS Naturals, Sequences, FiniteSets, SequencesExt

CONSTANTS
    Sessions,       \* callers of the updating methods
    Ids, JobIds,    \* what uuid4 gives out
    UrlOf,          \* [Ids -> Any]: the URL a repository is created for
    RepoOf,         \* [JobIds -> Ids]
    Asked,          \* the statuses callers set beside those the methods set
    Found,          \* the error counts callers report as metrics
    Given,          \* SUBSET Keys: rows from earlier
    PageSize,       \* the limit of list_repositories
    MaxCalls,       \* bound: how many rows are created or loaded for update
    NoRow, NoWork, NoReport

Statuses == {"idle", "indexing", "error", "stale"}
JobStatuses == {"pending", "running", "completed", "failed"}
Finished == {"completed", "failed"}
Keys == Ids \cup JobIds

\* The columns that a call changes.  Of a date it only matters whether it is set.
RepositoryRows == [status : Statuses, errors : Nat, full : BOOLEAN, incremental : BOOLEAN]
JobRows == [status : JobStatuses, started : BOOLEAN, completed : BOOLEAN]

ASSUME RegistryAssumption ==
    /\ Ids \cap JobIds = {}
    /\ NoRow \notin RepositoryRows \cup JobRows
    /\ DOMAIN UrlOf = Ids
    /\ RepoOf \in [JobIds -> Ids]
    /\ Asked \subseteq Statuses
    /\ Found \subseteq Nat
    /\ Given \subseteq Keys /\ IsFiniteSet(Given)
    /\ \A j \in Given \cap JobIds : RepoOf[j] \in Given
    /\ \A i, x \in Given \cap Ids : UrlOf[i] = UrlOf[x] => i = x
    /\ PageSize \in Nat \ {0}
    /\ MaxCalls \in Nat

VARIABLES
    row,            \* the rows of both tables, by key
    heap,           \* the order in which a scan of index_registry finds its rows
    born,           \* the keys given out so far
    work,           \* what a session has loaded and is about to commit
    calls,
    report,         \* the reader's answer so far
    \* history
    ideal,          \* the rows if calls happened at once
    mixed,          \* keys written by a session that had loaded an older row
    reported,       \* errors reported for a repository
    owed,           \* repositories with an error reported since metrics were set
    drift, touched  \* commits since the reader began, and the rows they wrote

tables == <<row, heap, born, ideal, mixed, reported, owed, drift, touched>>
registryVars == <<tables, work, calls, report>>

Exists(k) == row[k] # NoRow

(****************************************************************************)
(* What the methods assign to the row they loaded                           *)
(****************************************************************************)
StatusUpdated_Cleared(old, c) ==
    [old EXCEPT !.status = c.status,
                !.errors = IF c.status = "error" /\ c.message THEN @ + 1
                           ELSE IF c.status = "error" THEN @ ELSE 0]
StatusUpdated(old, c) ==
    [old EXCEPT !.status = c.status,
                !.errors = IF c.status = "error" /\ c.message THEN @ + 1 ELSE @]

MetricsUpdated(old, c) == [old EXCEPT !.errors = c.errors]

FullIndexComplete(old) == [old EXCEPT !.full = TRUE, !.status = "idle"]

IncrementalComplete(old) == [old EXCEPT !.incremental = TRUE, !.status = "idle"]

JobUpdated(old, c) ==
    [old EXCEPT !.status = c.status,
                !.started = @ \/ c.status = "running",
                !.completed = @ \/ c.status \in Finished]

Assigned(c, old) ==
    CASE c.method = "status" -> StatusUpdated(old, c)
      [] c.method = "metrics" -> MetricsUpdated(old, c)
      [] c.method = "full" -> FullIndexComplete(old)
      [] c.method = "incremental" -> IncrementalComplete(old)
      [] c.method = "job" -> JobUpdated(old, c)

\* The ORM writes the columns that changed.
Dirty_Status(new, old) == {"status"} \cap {c \in DOMAIN old : new[c] # old[c]}
Dirty(new, old) == {c \in DOMAIN old : new[c] # old[c]}

Overwritten(old, new, columns) ==
    [c \in DOMAIN old |-> IF c \in columns THEN new[c] ELSE old[c]]

RepositoryCalls ==
    UNION {
        {[method |-> "status", status |-> s, message |-> m] :
            s \in Asked, m \in BOOLEAN},
        {[method |-> "metrics", errors |-> n] : n \in Found},
        {[method |-> "full"], [method |-> "incremental"]} }
JobCalls == {[method |-> "job", status |-> s] : s \in JobStatuses}

(****************************************************************************)
(* The effect of a commit                                                   *)
(****************************************************************************)
Positions(h) == 1 .. Len(h) + 1
Without(h, k) ==
    IF k \in ToSet(h) THEN RemoveAt(h, CHOOSE p \in DOMAIN h : h[p] = k) ELSE h

\* A new version of a row goes wherever there is room.
Placed(k) ==
    IF k \in Ids
    THEN \E p \in Positions(Without(heap, k)) : heap' = InsertAt(Without(heap, k), p, k)
    ELSE UNCHANGED heap

\* Other sessions that loaded this row are behind from now on.
Behind(keys, s) ==
    [x \in Sessions |->
        IF x # s /\ work[x] # NoWork /\ work[x].key \in keys
        THEN [work[x] EXCEPT !.alone = FALSE] ELSE work[x]]

Noted(keys) ==
    /\ drift' = IF report = NoReport THEN 0 ELSE drift + 1
    /\ touched' = IF report = NoReport THEN {} ELSE touched \cup keys

\* The defaults of the columns.
NewRow(status) == [status |-> status, errors |-> 0, full |-> FALSE, incremental |-> FALSE]
NewJob == [status |-> "pending", started |-> FALSE, completed |-> FALSE]

RegistryInit ==
    /\ row = [k \in Keys |-> IF k \notin Given THEN NoRow
                             ELSE IF k \in Ids THEN NewRow("idle") ELSE NewJob]
    /\ ideal = row
    /\ heap \in SetToSeqs(Given \cap Ids) /\ born = Given
    /\ work = [s \in Sessions |-> NoWork]
    /\ calls = 0
    /\ report = NoReport
    /\ mixed = {} /\ reported = [i \in Ids |-> 0] /\ owed = {}
    /\ drift = 0 /\ touched = {}

(****************************************************************************)
(* Creation: one statement, whose uniqueness and foreign key are checked by *)
(* the database                                                             *)
(****************************************************************************)
Inserted(k, new) ==
    /\ calls < MaxCalls /\ calls' = calls + 1
    /\ k \notin born /\ born' = born \cup {k}
    /\ row' = [row EXCEPT ![k] = new]
    /\ ideal' = [ideal EXCEPT ![k] = new]
    /\ Placed(k)
    /\ Noted({k})
    /\ UNCHANGED <<work, report, mixed, reported, owed>>

create_repository(i, status) ==
    /\ \A x \in Ids : Exists(x) => UrlOf[x] # UrlOf[i]
    /\ Inserted(i, NewRow(status))

create_index_job(j) ==
    /\ Exists(RepoOf[j])
    /\ Inserted(j, NewJob)

(****************************************************************************)
(* Updates and deletion: load, then commit                                  *)
(****************************************************************************)
\* first() finds the row, and the method assigns to it.
Load(s, k) ==
    /\ calls < MaxCalls /\ calls' = calls + 1
    /\ work[s] = NoWork
    /\ Exists(k)
    /\ \E c \in IF k \in Ids THEN RepositoryCalls \cup {[method |-> "delete"]} ELSE JobCalls :
        work' = [work EXCEPT ![s] =
            [key |-> k, call |-> c, alone |-> TRUE,
             new |-> IF c.method = "delete" THEN row[k] ELSE Assigned(c, row[k]),
             columns |-> IF c.method = "delete" THEN {} ELSE Dirty(Assigned(c, row[k]), row[k])]]
    /\ UNCHANGED <<tables, report>>

Counted(c) == c.method = "status" /\ c.status = "error" /\ c.message

\* UPDATE ... WHERE the key is that of the row.  If it is gone, the ORM raises an
\* error unless there was nothing to write; either way nothing happens.
Written(w) ==
    IF Exists(w.key)
    THEN [row EXCEPT ![w.key] = Overwritten(@, w.new, w.columns)]
    ELSE row

Remembered(w) ==
    IF Exists(w.key)
    THEN /\ ideal' = [ideal EXCEPT ![w.key] = Assigned(w.call, @)]
         /\ mixed' = IF w.alone THEN mixed ELSE mixed \cup {w.key}
         /\ reported' = IF Counted(w.call) THEN [reported EXCEPT ![w.key] = @ + 1] ELSE reported
         /\ owed' = CASE Counted(w.call) -> owed \cup {w.key}
                      [] w.call.method = "metrics" -> owed \ {w.key}
                      [] OTHER -> owed
         /\ Noted({w.key})
    ELSE UNCHANGED <<ideal, mixed, reported, owed, drift, touched>>

\* An UPDATE is sent: something changed, at least the date.
Moves(w) == w.columns # {} \/ w.call.method \in {"full", "incremental"}

CommitUpdate(s) ==
    LET w == work[s] IN
    /\ w # NoWork /\ w.call.method # "delete"
    /\ row' = Written(w)
    /\ IF row'[w.key] # NoRow /\ Moves(w) THEN Placed(w.key) ELSE UNCHANGED heap
    /\ Remembered(w)
    /\ work' = [Behind({w.key}, s) EXCEPT ![s] = NoWork]
    /\ UNCHANGED <<born, calls, report>>

\* The ORM deletes the jobs it finds, the foreign key those it does not.
Gone(i) == {i} \cup {j \in JobIds : RepoOf[j] = i}

CommitDelete(s) ==
    LET w == work[s]
        gone == Gone(w.key)
    IN
    /\ w # NoWork /\ w.call.method = "delete"
    /\ row' = [k \in Keys |-> IF k \in gone THEN NoRow ELSE row[k]]
    /\ ideal' = [k \in Keys |-> IF k \in gone THEN NoRow ELSE ideal[k]]
    /\ heap' = Without(heap, w.key)
    /\ Noted(gone)
    /\ work' = [Behind(gone, s) EXCEPT ![s] = NoWork]
    /\ UNCHANGED <<born, calls, report, mixed, reported, owed>>

\* The commit fails, or the process dies before it.
Rollback(s) ==
    /\ work[s] # NoWork
    /\ work' = [work EXCEPT ![s] = NoWork]
    /\ UNCHANGED <<tables, calls, report>>

(****************************************************************************)
(* get_health_metrics: the number of rows, and then of each status          *)
(****************************************************************************)
StatusOrder == <<"idle", "indexing", "error", "stale">>
Present == {i \in Ids : Exists(i)}
WithStatus(s) == {i \in Present : row[i].status = s}

Start(answer) ==
    /\ report = NoReport
    /\ report' = answer
    /\ drift' = 0 /\ touched' = {}
    /\ UNCHANGED <<row, heap, born, ideal, mixed, reported, owed, work, calls>>

CountAll == Start([task |-> "health", total |-> Cardinality(Present), counts |-> <<>>])

CountStatus ==
    /\ report # NoReport /\ report.task = "health"
    /\ Len(report.counts) < Len(StatusOrder)
    /\ report' = [report EXCEPT !.counts =
           Append(@, Cardinality(WithStatus(StatusOrder[Len(@) + 1])))]
    /\ UNCHANGED <<tables, work, calls>>

(****************************************************************************)
(* list_repositories, page after page                                       *)
(****************************************************************************)
Page_Late(offset) ==
    LET end == offset + PageSize IN
    SubSeq(heap, offset + 2, IF end < Len(heap) THEN end + 1 ELSE Len(heap))
Page(offset) ==
    LET end == offset + PageSize IN
    SubSeq(heap, offset + 1, IF end < Len(heap) THEN end ELSE Len(heap))

FirstPage == Start([task |-> "list", got |-> Page(0), offset |-> PageSize,
                    last |-> Len(heap) < PageSize])

NextPage ==
    /\ report # NoReport /\ report.task = "list" /\ ~report.last
    /\ LET page == Page(report.offset) IN
       report' = [report EXCEPT !.got = @ \o page, !.offset = @ + PageSize,
                                !.last = Len(page) < PageSize]
    /\ UNCHANGED <<tables, work, calls>>

Answered ==
    /\ report # NoReport
    /\ \/ report.task = "health" /\ Len(report.counts) = Len(StatusOrder)
       \/ report.task = "list" /\ report.last

Close ==
    /\ Answered
    /\ report' = NoReport
    /\ drift' = 0 /\ touched' = {}
    /\ UNCHANGED <<row, heap, born, ideal, mixed, reported, owed, work, calls>>

RegistryNext ==
    \/ \E i \in Ids, s \in Asked \cup {"idle"} : create_repository(i, s)
    \/ \E j \in JobIds : create_index_job(j)
    \/ \E s \in Sessions, k \in Keys : Load(s, k)
    \/ \E s \in Sessions : CommitUpdate(s) \/ CommitDelete(s) \/ Rollback(s)
    \/ CountAll \/ CountStatus \/ FirstPage \/ NextPage \/ Close

RegistrySpec == RegistryInit /\ [][RegistryNext]_registryVars

-----------------------------------------------------------------------------
\* Writing only the columns that changed is not noticed as long as nobody else
\* commits to a row between a session's load and its commit: the row is then
\* what the calls, one after the other, make of it, and once it is deleted no
\* late commit brings it back.
SerialUnlessMixed == \A k \in Keys \ mixed : row[k] = ideal[k]

\* error_count is incremented in Python.  Concurrent reports may be lost, but
\* one of them survives until metrics replace the count, and no session makes
\* the count exceed the errors that metrics and reports amount to.
ErrorsRemembered ==
    \A i \in Ids : Exists(i) =>
        /\ i \in owed => row[i].errors >= 1
        /\ \E n \in Found \cup {0} : row[i].errors <= n + reported[i]

\* The statements of get_health_metrics see different states, and the pages of
\* list_repositories have no order of their own.  Per commit in between, total and
\* counts differ by at most one, and a client that goes through the pages misses
\* at most one repository and gets at most one twice.
WithinDrift ==
    Answered =>
        IF report.task = "health"
        THEN LET of == report.counts
                 sum == of[1] + of[2] + of[3] + of[4]  \* as many as in StatusOrder
             IN
             sum <= report.total + drift /\ report.total <= sum + drift
        ELSE /\ Cardinality((Present \ touched) \ ToSet(report.got)) <= drift
             /\ Len(report.got) - Cardinality(ToSet(report.got)) <= drift
=============================================================================
