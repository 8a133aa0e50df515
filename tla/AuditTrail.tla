----------------------------- MODULE AuditTrail -----------------------------
(****************************************************************************)
(* AuditLogger (security/audit.py) and AuditLoggingMiddleware (security/    *)
(* middleware.py): requests that are logged when they end, other events, a  *)
(* reader that goes through the pages of query_audit_log, and the cleanup.  *)
(*                                                                          *)
(* An entry gets its time before it is inserted, so that entries may appear *)
(* out of order; the number of an entry stands for its time.  All methods   *)
(* share one connection.  After an error nobody rolls it back, and from     *)
(* then on PostgreSQL refuses every statement.                              *)
(****************************************************************************)
EXTENDS Naturals, Sequences, FiniteSets

CONSTANTS
    WebRequests,
    Retentions,     \* retention_days that callers ask for
    AuditPage,      \* the limit of query_audit_log
    MonthLength, LastDay,
    MaxEvents       \* bound: how many entries get a time

ASSUME AuditAssumption ==
    /\ Retentions \subseteq Nat /\ AuditPage \in Nat \ {0}
    /\ MonthLength \in Nat \ {0} /\ LastDay \in Nat /\ MaxEvents \in Nat

VARIABLES
    day,
    entries,        \* the table: numbers of entries
    about,          \* [number -> [day, result, request]], of all that got a time
    aborted,        \* the transaction of the connection
    web,            \* [WebRequests -> where it is]
    event,          \* the number of another event that is being logged, or 0
    reader,         \* of pages: [offset, got, atStart, done]
    \* history
    swept           \* entries that a cleanup deleted

auditVars == <<day, entries, about, aborted, web, event, reader, swept>>

NotReading == [on |-> FALSE, done |-> FALSE, got |-> {}, offset |-> 0, atStart |-> {}]
NewRequest == [at |-> "new", outcome |-> "none", entry |-> 0]

AuditInit ==
    /\ day = 0 /\ entries = {} /\ about = <<>> /\ aborted = FALSE
    /\ web = [w \in WebRequests |-> NewRequest]
    /\ event = 0 /\ reader = NotReading /\ swept = {}

(****************************************************************************)
(* log_event: the time is taken, and the entry inserted and committed       *)
(****************************************************************************)
Stamped(result, w) == Append(about, [day |-> day, result |-> result, request |-> w])
MayStamp == Len(about) < MaxEvents

Inserts(n) ==
    /\ ~aborted /\ aborted' = FALSE
    /\ entries' = entries \cup {n}

\* The statement or the commit fails; a commit may have taken effect.
InsertFails(n) ==
    /\ aborted' = TRUE
    /\ entries' \in IF aborted THEN {entries} ELSE {entries, entries \cup {n}}

\* log_authentication, log_authorization, log_data_access, log_admin_action and
\* log_security_event differ in what they log.
LogEvent ==
    /\ event = 0 /\ MayStamp
    /\ about' = Stamped("other", "none")
    /\ event' = Len(about) + 1
    /\ UNCHANGED <<day, entries, aborted, web, reader, swept>>

StoreEvent ==
    /\ event # 0 /\ event' = 0
    /\ Inserts(event) \/ InsertFails(event)
    /\ UNCHANGED <<day, about, web, reader, swept>>

(****************************************************************************)
(* AuditLoggingMiddleware.dispatch                                          *)
(****************************************************************************)
MoveRequest(w, at) == web' = [web EXCEPT ![w].at = at]

\* The endpoint answers, or raises an exception.  Only what succeeds is logged, and
\* a request for the health of the service is not.
Handle(w) ==
    /\ web[w].at = "new"
    /\ \E outcome \in {"ok", "health", "4xx", "raise"} :
        /\ web' = [web EXCEPT ![w] = [at |-> CASE outcome = "ok" -> "success"
                                               [] outcome = "raise" -> "failure"
                                               [] OTHER -> "answered",
                                      outcome |-> outcome, entry |-> 0]]
    /\ UNCHANGED <<day, entries, about, aborted, event, reader, swept>>

StampRequest(w) ==
    /\ web[w].at \in {"success", "failure"} /\ web[w].entry = 0 /\ MayStamp
    /\ about' = Stamped(web[w].at, w)
    /\ web' = [web EXCEPT ![w].entry = Len(about) + 1]
    /\ UNCHANGED <<day, entries, aborted, event, reader, swept>>

\* A slip: the answer is given although it could not be logged.
AfterFailedLog_Answer(w) == [web[w] EXCEPT !.at = "answered"]
\* The exception of log_event is itself logged as a failure, outside the try.
AfterFailedLog(w) == [web[w] EXCEPT !.at = "failure", !.entry = 0]

LogSuccess(w) ==
    /\ web[w].at = "success" /\ web[w].entry # 0
    /\ \/ Inserts(web[w].entry) /\ MoveRequest(w, "answered")
       \/ InsertFails(web[w].entry) /\ web' = [web EXCEPT ![w] = AfterFailedLog(w)]
    /\ UNCHANGED <<day, about, event, reader, swept>>

\* Either way the request ends with an exception.
LogFailure(w) ==
    /\ web[w].at = "failure" /\ web[w].entry # 0
    /\ Inserts(web[w].entry) \/ InsertFails(web[w].entry)
    /\ MoveRequest(w, "raised")
    /\ UNCHANGED <<day, about, event, reader, swept>>

(****************************************************************************)
(* query_audit_log, page by page                                            *)
(****************************************************************************)
\* A slip: oldest first.
Rank_Oldest(n) == Cardinality({m \in entries : m < n})
\* ORDER BY timestamp DESC
Rank(n) == Cardinality({m \in entries : m > n})

ReadPage ==
    /\ ~aborted /\ ~reader.done
    /\ LET start == IF reader.on THEN reader.atStart ELSE entries
           page == {n \in entries : reader.offset <= Rank(n) /\ Rank(n) < reader.offset + AuditPage}
       IN reader' = [on |-> TRUE, done |-> Cardinality(page) < AuditPage,
                     got |-> reader.got \cup page, offset |-> reader.offset + AuditPage,
                     atStart |-> start]
    /\ UNCHANGED <<day, entries, about, aborted, web, event, swept>>

CloseReader ==
    /\ reader.done /\ reader' = NotReading
    /\ UNCHANGED <<day, entries, about, aborted, web, event, swept>>

(****************************************************************************)
(* cleanup_old_logs                                                         *)
(****************************************************************************)
DayOfMonth == (day % MonthLength) + 1

\* date.replace(day = day - n), which exists in this month only; ValueError before
\* any statement otherwise.
HasCutoff(retention) == DayOfMonth > retention

Cleanup(retention) ==
    /\ HasCutoff(retention) /\ ~aborted
    /\ LET old == {n \in entries : about[n].day < day - retention} IN
        /\ entries' = entries \ old
        /\ swept' = swept \cup old
    /\ UNCHANGED <<day, about, aborted, web, event, reader>>

\* Any statement may fail, and with it the connection.
StatementFails ==
    /\ ~aborted /\ aborted' = TRUE
    /\ UNCHANGED <<day, entries, about, web, event, reader, swept>>

NextDay ==
    /\ day < LastDay /\ day' = day + 1
    /\ UNCHANGED <<entries, about, aborted, web, event, reader, swept>>

AuditNext ==
    \/ LogEvent \/ StoreEvent
    \/ \E w \in WebRequests : Handle(w) \/ StampRequest(w) \/ LogSuccess(w) \/ LogFailure(w)
    \/ ReadPage \/ CloseReader
    \/ \E r \in Retentions : Cleanup(r)
    \/ StatementFails \/ NextDay

AuditSpec == AuditInit /\ [][AuditNext]_auditVars

-----------------------------------------------------------------------------
EntriesOf(w, result) ==
    {n \in entries \cup swept : about[n].request = w /\ about[n].result = result}

\* A request that was answered with success has an entry that says so, and one
\* that ended with an exception had a reason: its endpoint raised it, or the entry
\* could not be written.  No request that failed is logged as a success
\* (AuditLoggingMiddleware.dispatch).
AnsweredIsLogged ==
    \A w \in WebRequests :
        /\ web[w].at = "answered" /\ web[w].outcome = "ok" => EntriesOf(w, "success") # {}
        /\ web[w].at = "raised" => web[w].outcome = "raise" \/ aborted
        /\ EntriesOf(w, "success") # {} => web[w].outcome = "ok"
        /\ EntriesOf(w, "failure") # {} => web[w].outcome = "raise"

\* The pages of the log shift while entries are added and old ones are deleted.  A
\* reader may get entries twice, but misses none that was there when it began and
\* still is (query_audit_log).
PagesMissNone ==
    reader.done => (reader.atStart \cap entries) \subseteq reader.got
=============================================================================
