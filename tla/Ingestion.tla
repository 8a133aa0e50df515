------------------------------ MODULE Ingestion ------------------------------
(****************************************************************************)
(* The ingestion pipeline: IngestOrchestrator.ingest_repository with the    *)
(* in-memory checkpoints it resumes from (ingestion/orchestrator.py), and   *)
(* the ephemeral workspace its RepositoryFetcher clones into and removes    *)
(* (ingestion/fetcher.py).                                                  *)
(*                                                                          *)
(* A run is one thread of the process that calls ingest_repository, over    *)
(* and over, on one shared orchestrator.  Source files are the data: a      *)
(* parse result, an analysis, an embedding or a convention is represented   *)
(* by the set of files it was computed from, so that the model can tell     *)
(* whose data a result holds and whether a list is empty.                   *)
(****************************************************************************)
CONSTANTS
    Repos,          \* repository URLs
    Files,          \* source files that a parser accepts
    FilesIn,        \* [Repos -> SUBSET Files]: the files of each repository
    WithSymbols,    \* the files that define at least one symbol with a body
    FlakyFiles,     \* the files whose parse may fail once and succeed later
    JobIds,         \* job identifiers, keys of the checkpoint dictionary
    IdsOf,          \* [Repos -> SUBSET JobIds]: the ids given to its jobs
    Runs,           \* threads that call ingest_repository
    Workspaces,     \* temporary directories; bounds the number of clones
    NoPath, NoCheckpoint, NoRepo, NoJob

ASSUME DataAssumption ==
    /\ FilesIn \in [Repos -> SUBSET Files]
    /\ IdsOf \in [Repos -> SUBSET JobIds]
    /\ WithSymbols \subseteq Files
    /\ FlakyFiles \subseteq Files

VARIABLES
    run,            \* [Runs -> Run]: the local variables of each thread
    checkpoints,    \* self._checkpoints
    exists,         \* the workspaces on disk
    disk,           \* [Workspaces -> SUBSET Files]: their contents
    used,           \* workspaces ever created (mkdtemp never reuses a name)
    orphaned,       \* history: left behind by a failed rmtree, a crash, or an
                    \* interrupt before the fetcher knew of the directory
    unfinished      \* history: [JobIds -> SUBSET Endings], the ends of calls
                    \* other than by completion, since the last deletion of
                    \* the job's checkpoint

vars == <<run, checkpoints, exists, disk, used, orphaned, unfinished>>
diskVars == <<exists, disk, used, orphaned>>

------------------------------------------------------------------------------
(* The data.                                                                *)

\* IngestionStatus, for the values a checkpoint is saved with.
Status == {"fetching", "parsing", "analyzing", "embedding",
           "extracting_conventions", "failed"}

\* What the stages have produced so far: the fields of IngestionCheckpoint,
\* and the local variables of ingest_repository that go into them.
Work == [path        : Workspaces \cup {NoPath},
         parsed      : SUBSET Files,
         analysis    : SUBSET SUBSET Files,    \* {}: None, {S}: of the files S
         embeddings  : SUBSET Files,
         conventions : SUBSET Files]

NoWork == [path |-> NoPath, parsed |-> {}, analysis |-> {},
           embeddings |-> {}, conventions |-> {}]

Checkpoint == [status : Status, work : Work]

ASSUME MarkerAssumption ==
    /\ NoPath \notin Workspaces
    /\ NoCheckpoint \notin Checkpoint

\* Where a thread is: idle, in one of the stages ("made", "clone" and "cloned"
\* are inside the fetcher), about to delete the checkpoint it has found, about
\* to return a result or, behind the error handler, an empty one; or back from
\* its last call.
InFetcher == {"made", "clone", "cloned"}
Fetching == {"fetch"} \cup InFetcher
Returning == {"return", "refuse"}
Active == Fetching \cup {"parse", "analyze", "embed", "learn", "store", "delete"}
                   \cup Returning
Ended == {"idle", "completed", "failed"}

\* A stage failed, an interrupt came, or another call had deleted the checkpoint.
Endings == {"failed", "interrupted", "beaten"}

Run == [pc        : Active \cup Ended,
        repo      : Repos \cup {NoRepo},
        job       : JobIds \cup {NoJob},
        seen      : Work,    \* the checkpoint read at entry (NoWork: none)
        work      : Work,
        workspace : Workspaces \cup {NoPath}]  \* fetcher._workspace_dir, and
                             \* at "made" the directory still to be assigned

IdleRun == [pc |-> "idle", repo |-> NoRepo, job |-> NoJob, seen |-> NoWork,
            work |-> NoWork, workspace |-> NoPath]

ActiveRuns(j) == {r \in Runs : run[r].pc \in Active /\ run[r].job = j}

Init ==
    /\ run = [r \in Runs |-> IdleRun]
    /\ checkpoints = [j \in JobIds |-> NoCheckpoint]
    /\ exists = {}
    /\ disk = [w \in Workspaces |-> {}]
    /\ used = {}
    /\ orphaned = {}
    /\ unfinished = [j \in JobIds |-> {}]

------------------------------------------------------------------------------
(* Helpers.                                                                 *)

\* _save_checkpoint: the dictionary entry is replaced as a whole.
SaveCheckpoint(j, status, work) ==
    checkpoints' = [checkpoints EXCEPT ![j] = [status |-> status, work |-> work]]

\* The work saved for a job, NoWork where its checkpoint holds none.
Saved(j) == IF checkpoints[j] = NoCheckpoint THEN NoWork ELSE checkpoints[j].work

\* A stage produced `work`: save it and go on.
StageDone(r, status, work, next) ==
    /\ SaveCheckpoint(run[r].job, status, work)
    /\ run' = [run EXCEPT ![r].work = work, ![r].pc = next]
    /\ UNCHANGED <<diskVars, unfinished>>

\* A stage was skipped, its output taken from the checkpoint read at entry.
StageReused(r, work, next) ==
    /\ run' = [run EXCEPT ![r].work = work, ![r].pc = next]
    /\ UNCHANGED <<checkpoints, diskVars, unfinished>>

\* A call of the job ends otherwise than by completing it.
Unfinished(r, ending) ==
    unfinished' = [unfinished EXCEPT ![run[r].job] = @ \cup {ending}]

\* A slip: the error is logged and the partial result returned as a success.
FailRun_Swallowed(r, ending) ==
    /\ SaveCheckpoint(run[r].job, "failed", NoWork)
    /\ run' = [run EXCEPT ![r].pc = "return", ![r].seen = NoWork,
                          ![r].workspace = NoPath]
    /\ Unfinished(r, ending)

\* The handler of `except Exception`: the checkpoint is replaced by one that
\* holds nothing but the error, and an empty result is about to be returned.
FailRun(r, ending) ==
    /\ SaveCheckpoint(run[r].job, "failed", NoWork)
    /\ run' = [run EXCEPT ![r].pc = "refuse", ![r].work = NoWork,
                          ![r].seen = NoWork, ![r].workspace = NoPath]
    /\ Unfinished(r, ending)

\* _cleanup_workspace: rmtree removes everything, or stops at some file, is
\* logged, and the directory is forgotten either way.
CleanupWorkspace(w) ==
    \/ /\ exists' = exists \ {w}
       /\ disk' = [disk EXCEPT ![w] = {}]
       /\ UNCHANGED <<used, orphaned>>
    \/ /\ \E left \in SUBSET disk[w] : disk' = [disk EXCEPT ![w] = left]
       /\ orphaned' = orphaned \cup {w}
       /\ UNCHANGED <<exists, used>>

------------------------------------------------------------------------------
(* The stages of ingest_repository.                                         *)

\* A slip: any checkpoint will do, not the one of this job.
Begin_AnyCheckpoint(r, p, j) ==
    /\ run[r].pc \in Ended
    /\ j \in IdsOf[p]
    /\ \E k \in JobIds :
         run' = [run EXCEPT ![r] =
           [pc |-> "fetch", repo |-> p, job |-> j,
            seen |-> Saved(k), work |-> NoWork, workspace |-> NoPath]]
    /\ UNCHANGED <<checkpoints, diskVars, unfinished>>

\* A call of ingest_repository: read the checkpoint of the job, once.
Begin(r, p, j) ==
    /\ run[r].pc \in Ended
    /\ j \in IdsOf[p]
    /\ run' = [run EXCEPT ![r] =
         [pc |-> "fetch", repo |-> p, job |-> j,
          seen |-> Saved(j), work |-> NoWork, workspace |-> NoPath]]
    /\ UNCHANGED <<checkpoints, diskVars, unfinished>>

\* Stage 1, resumed: take the path in the checkpoint, whatever is there now.
SkipFetch(r) ==
    /\ run[r].pc = "fetch"
    /\ run[r].seen.path # NoPath
    /\ StageReused(r, [run[r].work EXCEPT !.path = run[r].seen.path], "parse")

\* Stage 1, first half: authenticate, find the repository, and make a
\* directory, which mkdtemp has yet to return.
CreateWorkspace(r) ==
    /\ run[r].pc = "fetch"
    /\ run[r].seen.path = NoPath
    /\ \E w \in Workspaces \ used :
         /\ run' = [run EXCEPT ![r].pc = "made", ![r].workspace = w]
         /\ exists' = exists \cup {w}
         /\ used' = used \cup {w}
    /\ UNCHANGED <<checkpoints, disk, orphaned, unfinished>>

\* self._workspace_dir is assigned: from now on the fetcher can clean up.
AssignWorkspace(r) ==
    /\ run[r].pc = "made"
    /\ run' = [run EXCEPT ![r].pc = "clone"]
    /\ UNCHANGED <<checkpoints, diskVars, unfinished>>

\* Stage 1: git clone succeeds.
CloneSucceeds(r) ==
    /\ run[r].pc = "clone"
    /\ disk' = [disk EXCEPT ![run[r].workspace] = FilesIn[run[r].repo]]
    /\ run' = [run EXCEPT ![r].pc = "cloned"]
    /\ UNCHANGED <<checkpoints, exists, used, orphaned, unfinished>>

\* A slip: the fetcher is not used as a context manager, nobody cleans up.
LeaveFetcher_NoCleanup(r) ==
    LET work == [NoWork EXCEPT !.path = run[r].workspace] IN
    /\ run[r].pc = "cloned"
    /\ SaveCheckpoint(run[r].job, "fetching", work)
    /\ run' = [run EXCEPT ![r].pc = "parse", ![r].work = work,
                          ![r].workspace = NoPath]
    /\ UNCHANGED <<diskVars, unfinished>>

\* Stage 1, second half: the metadata scan succeeds and the `with` block of the
\* fetcher is left, which removes the workspace; the path into it is saved and
\* handed to stage 2.
LeaveFetcher(r) ==
    LET w == run[r].workspace
        work == [NoWork EXCEPT !.path = w] IN
    /\ run[r].pc = "cloned"
    /\ CleanupWorkspace(w)
    /\ SaveCheckpoint(run[r].job, "fetching", work)
    /\ run' = [run EXCEPT ![r].pc = "parse", ![r].work = work,
                          ![r].workspace = NoPath]
    /\ UNCHANGED unfinished

\* Stage 1 fails before there is a workspace (configuration, authentication,
\* repository not found).
FetchRefused(r) ==
    /\ run[r].pc = "fetch"
    /\ run[r].seen.path = NoPath
    /\ FailRun(r, "failed")
    /\ UNCHANGED diskVars

\* Stage 1 fails in clone_repository (clone or metadata): clean up, re-raise.
CloneFails(r) ==
    /\ run[r].pc \in {"clone", "cloned"}
    /\ CleanupWorkspace(run[r].workspace)
    /\ FailRun(r, "failed")

\* Stage 2: the files found under the path, without those that do not parse.
\* A path that does not exist has no files.
Parse(r) ==
    /\ run[r].pc = "parse"
    /\ run[r].seen.parsed = {}
    /\ \E bad \in SUBSET FlakyFiles :
         StageDone(r, "parsing",
                   [run[r].work EXCEPT !.parsed = disk[run[r].work.path] \ bad],
                   "analyze")

ReuseParse(r) ==
    /\ run[r].pc = "parse"
    /\ run[r].seen.parsed # {}
    /\ StageReused(r, [run[r].work EXCEPT !.parsed = run[r].seen.parsed],
                   "analyze")

\* Stage 3: an AnalysisResult is never falsy, even one of no files.
Analyze(r) ==
    /\ run[r].pc = "analyze"
    /\ run[r].seen.analysis = {}
    /\ StageDone(r, "analyzing",
                 [run[r].work EXCEPT !.analysis = {run[r].work.parsed}], "embed")

ReuseAnalysis(r) ==
    /\ run[r].pc = "analyze"
    /\ run[r].seen.analysis # {}
    /\ StageReused(r, [run[r].work EXCEPT !.analysis = run[r].seen.analysis],
                   "embed")

\* A slip: the parse results are left out of the checkpoint.
Embed_DropsParse(r) ==
    LET work == [run[r].work EXCEPT !.embeddings =
                   run[r].work.parsed \cap WithSymbols] IN
    /\ run[r].pc = "embed"
    /\ run[r].seen.embeddings = {}
    /\ SaveCheckpoint(run[r].job, "embedding", [work EXCEPT !.parsed = {}])
    /\ run' = [run EXCEPT ![r].work = work, ![r].pc = "learn"]
    /\ UNCHANGED <<diskVars, unfinished>>

\* A slip: the parse results are taken from the dictionary, as it is by now.
Embed_RereadsCheckpoint(r) ==
    /\ run[r].pc = "embed"
    /\ run[r].seen.embeddings = {}
    /\ StageDone(r, "embedding",
                 [run[r].work EXCEPT !.embeddings =
                    Saved(run[r].job).parsed \cap WithSymbols], "learn")

\* Stage 4: one or more chunks for each symbol that has a body.
Embed(r) ==
    /\ run[r].pc = "embed"
    /\ run[r].seen.embeddings = {}
    /\ StageDone(r, "embedding",
                 [run[r].work EXCEPT !.embeddings =
                    run[r].work.parsed \cap WithSymbols], "learn")

ReuseEmbeddings(r) ==
    /\ run[r].pc = "embed"
    /\ run[r].seen.embeddings # {}
    /\ StageReused(r, [run[r].work EXCEPT !.embeddings = run[r].seen.embeddings],
                   "learn")

\* Stage 5: one convention for each language that has a file with symbols.
ExtractConventions(r) ==
    /\ run[r].pc = "learn"
    /\ run[r].seen.conventions = {}
    /\ StageDone(r, "extracting_conventions",
                 [run[r].work EXCEPT !.conventions =
                    run[r].work.parsed \cap WithSymbols], "store")

ReuseConventions(r) ==
    /\ run[r].pc = "learn"
    /\ run[r].seen.conventions # {}
    /\ StageReused(r, [run[r].work EXCEPT !.conventions =
                         run[r].seen.conventions], "store")

\* A slip: the checkpoint of a completed job is kept.
FindCheckpoint_Keeps(r) ==
    /\ run[r].pc = "store"
    /\ run' = [run EXCEPT ![r].pc = "return", ![r].seen = NoWork]
    /\ UNCHANGED <<checkpoints, diskVars, unfinished>>

\* Stage 6 stores nothing yet; is there a checkpoint to delete?  The one read
\* at entry is not looked at any more.
FindCheckpoint(r) ==
    /\ run[r].pc = "store"
    /\ run' = [run EXCEPT ![r].seen = NoWork,
                          ![r].pc = IF checkpoints[run[r].job] = NoCheckpoint
                                    THEN "return" ELSE "delete"]
    /\ UNCHANGED <<checkpoints, diskVars, unfinished>>

\* `del` finds it, whoever saved it.
DeleteCheckpoint(r) ==
    /\ run[r].pc = "delete"
    /\ checkpoints[run[r].job] # NoCheckpoint
    /\ checkpoints' = [checkpoints EXCEPT ![run[r].job] = NoCheckpoint]
    /\ run' = [run EXCEPT ![r].pc = "return"]
    /\ unfinished' = [unfinished EXCEPT ![run[r].job] = {}]
    /\ UNCHANGED diskVars

\* Another call deleted it in between: `del` raises KeyError, and the call that
\* has all its results fails.
DeleteMisses(r) ==
    /\ run[r].pc = "delete"
    /\ checkpoints[run[r].job] = NoCheckpoint
    /\ FailRun(r, "beaten")
    /\ UNCHANGED diskVars

\* The call returns: of its local variables, only the result remains.
Return(r) ==
    /\ run[r].pc \in Returning
    /\ run' = [run EXCEPT ![r].pc = IF @ = "return" THEN "completed" ELSE "failed"]
    /\ UNCHANGED <<checkpoints, diskVars, unfinished>>

\* Stages 2 to 5 raise an Exception, unless they are skipped.
StageFails(r) ==
    /\ \/ run[r].pc = "parse"   /\ run[r].seen.parsed = {}
       \/ run[r].pc = "analyze" /\ run[r].seen.analysis = {}
       \/ run[r].pc = "embed"   /\ run[r].seen.embeddings = {}
       \/ run[r].pc = "learn"   /\ run[r].seen.conventions = {}
    /\ FailRun(r, "failed")
    /\ UNCHANGED diskVars

\* A BaseException that is no Exception (KeyboardInterrupt, SystemExit): only
\* the context manager of the fetcher runs, the checkpoint stays as it is.  The
\* directory that mkdtemp has made is not the fetcher's yet, and stays.
Interrupt(r) ==
    /\ run[r].pc \in Active
    /\ CASE run[r].pc = "made" ->
              /\ orphaned' = orphaned \cup {run[r].workspace}
              /\ UNCHANGED <<exists, disk, used>>
         [] run[r].pc \in {"clone", "cloned"} -> CleanupWorkspace(run[r].workspace)
         [] OTHER -> UNCHANGED diskVars
    /\ run' = [run EXCEPT ![r] = IdleRun]
    /\ Unfinished(r, "interrupted")
    /\ UNCHANGED checkpoints

\* The process dies and restarts: checkpoints live in its memory, workspaces
\* on its disk.
Crash ==
    /\ \E r \in Runs : run[r].pc \in Active
    /\ run' = [r \in Runs |-> IdleRun]
    /\ checkpoints' = [j \in JobIds |-> NoCheckpoint]
    /\ orphaned' = orphaned \cup ({run[r].workspace : r \in Runs} \ {NoPath})
    /\ unfinished' = [j \in JobIds |-> {}]
    /\ UNCHANGED <<exists, disk, used>>

Stage(r) ==
    \/ SkipFetch(r) \/ CreateWorkspace(r) \/ AssignWorkspace(r) \/ CloneSucceeds(r)
    \/ LeaveFetcher(r) \/ FetchRefused(r) \/ CloneFails(r)
    \/ Parse(r) \/ ReuseParse(r)
    \/ Analyze(r) \/ ReuseAnalysis(r)
    \/ Embed(r) \/ ReuseEmbeddings(r)
    \/ ExtractConventions(r) \/ ReuseConventions(r)
    \/ FindCheckpoint(r) \/ DeleteCheckpoint(r) \/ DeleteMisses(r)
    \/ Return(r) \/ StageFails(r)

Next ==
    \/ \E r \in Runs, p \in Repos, j \in JobIds : Begin(r, p, j)
    \/ \E r \in Runs : Stage(r) \/ Interrupt(r)
    \/ Crash

Spec == Init /\ [][Next]_vars

------------------------------------------------------------------------------
(* Properties.                                                              *)

\* A call has a workspace exactly while it is inside the fetcher, and hands a
\* path on when it leaves.
Placed(x, dirs) ==
    /\ x.pc # "idle" => x.repo \in Repos /\ x.job \in IdsOf[x.repo]
    /\ IF x.pc \in InFetcher THEN x.workspace \in dirs ELSE x.workspace = NoPath
    /\ x.pc \in Active \ (Fetching \cup Returning) => x.work.path # NoPath

\* Every variable has its type, and every call its workspace.
TypeOK ==
    /\ run \in [Runs -> Run]
    /\ \A r \in Runs : Placed(run[r], used)
    /\ checkpoints \in [JobIds -> Checkpoint \cup {NoCheckpoint}]
    /\ exists \subseteq used
    /\ used \subseteq Workspaces
    /\ disk \in [Workspaces -> SUBSET Files]
    /\ orphaned \subseteq used
    /\ unfinished \in [JobIds -> SUBSET Endings]

\* Callers never give the same job id to two repositories.  The default id,
\* "ingest_" and the second the call was made in, does not ensure that.
IdsAreUnique == \A p, q \in Repos : p # q => IdsOf[p] \cap IdsOf[q] = {}

\* A result holds the files of the repository it was asked for, although its
\* parts may come out of a checkpoint that another call saved.
ResultMatchesRepo ==
    \A r \in Runs : run[r].pc = "completed" =>
        run[r].work.parsed \subseteq FilesIn[run[r].repo]

\* The embeddings and the conventions of a result were computed from exactly
\* its parse results, whichever calls (this one, an interrupted one, a
\* concurrent one) computed each of them.
ResultCoherent ==
    \A r \in Runs : run[r].pc = "completed" =>
        /\ run[r].work.embeddings = run[r].work.parsed \cap WithSymbols
        /\ run[r].work.conventions = run[r].work.parsed \cap WithSymbols

\* When no call of a job is in progress, what is left of its checkpoint tells
\* of an accident: work to resume from, of a call that was interrupted; an
\* error, of one that failed, or lost the race for the deletion.  If all that
\* happened since the last deletion are completions, nothing is left, and the
\* next call with that id starts afresh.
LeftoverHasCause ==
    \A j \in JobIds :
        checkpoints[j] # NoCheckpoint /\ ActiveRuns(j) = {} =>
            IF checkpoints[j].status = "failed"
            THEN unfinished[j] \cap {"failed", "beaten"} # {}
            ELSE "interrupted" \in unfinished[j]

\* A directory is on disk only while the call that made it is in the fetcher,
\* unless rmtree failed, the process died, or an interrupt came between mkdtemp
\* and the assignment: no path through the errors of clone_repository, the
\* other interrupts and the context manager leaks one.
NoSilentLeak ==
    exists \subseteq orphaned \cup {run[r].workspace : r \in Runs}

\* Work saved for a job is lost only when a call of the job deletes the
\* checkpoint or fails, when the process dies, or when a concurrent call saves
\* its own, which began before that work was saved and has not come that far
\* itself: what a call resumed from or computed stays in every checkpoint it
\* saves until it ends.
LostAtSave(j, field) ==
    /\ Saved(j)[field] # {} /\ Saved(j)'[field] = {}
    /\ ~ \E r \in ActiveRuns(j) :
          /\ run'[r] # run[r]
          /\ \/ run'[r].pc \in Returning
             \/ run[r].seen[field] = {} /\ run[r].work[field] = {}

SavedWorkSurvives ==
    [][~Crash => \A j \in JobIds : /\ ~LostAtSave(j, "parsed")
                                  /\ ~LostAtSave(j, "embeddings")
                                  /\ ~LostAtSave(j, "conventions")]_vars

\* "Language Parsers - Parse all source files": a successful result holds
\* every source file of the repository.
SuccessParsesAllFiles ==
    \A r \in Runs : run[r].pc = "completed" =>
        run[r].work.parsed = FilesIn[run[r].repo]

\* ingest_repository implements its contract: stages, checkpoints, workspaces
\* and the other calls are invisible but for the outcome.
CallOf(r) ==
    [phase  |-> IF run[r].pc \in Active THEN "running" ELSE run[r].pc,
     repo   |-> run[r].repo,
     result |-> LET work == IF run[r].pc = "completed" THEN run[r].work
                                                       ELSE NoWork IN
                [parsed |-> work.parsed, embeddings |-> work.embeddings,
                 conventions |-> work.conventions]]

calls == [r \in Runs |-> CallOf(r)]

Contract == INSTANCE IngestContract WITH call <- calls

ImplementsContract == Contract!Spec

------------------------------------------------------------------------------
(* Why the results are coherent and sound: inductive invariants.            *)

\* What any call could save or resume from: each part covers the parse
\* results, or has not been computed.
Consistent(work) ==
    /\ work.embeddings \in {{}, work.parsed \cap WithSymbols}
    /\ work.conventions \in {{}, work.parsed \cap WithSymbols}

\* The places where a call has all its results.
Finished == {"store", "delete", "return", "completed"}

\* A call's work follows the parse results it took over, and covers them as
\* far as it has come.
InStep(x) ==
    LET covered == x.work.parsed \cap WithSymbols IN
    /\ Consistent(x.seen)
    /\ x.pc \in {"analyze", "embed", "learn", "store"} /\ x.seen.parsed # {}
         => x.work.parsed = x.seen.parsed
    /\ x.work.embeddings =
         IF x.pc \in {"learn"} \cup Finished THEN covered ELSE {}
    /\ x.work.conventions = IF x.pc \in Finished THEN covered ELSE {}

CoherenceInv ==
    /\ TypeOK
    /\ \A j \in JobIds : Consistent(Saved(j))
    /\ \A r \in Runs : InStep(run[r])

\* The workspaces that no fetcher will write to again and that hold files of
\* repository p only.
Released(p) ==
    {w \in used : /\ disk[w] \subseteq FilesIn[p]
                  /\ \A r \in Runs : run[r].workspace # w}

\* The work of a job belongs to the repository the job is for.
Belongs(j, work) ==
    \A p \in Repos : j \in IdsOf[p] =>
        /\ work.parsed \subseteq FilesIn[p]
        /\ work.path \in Released(p) \cup {NoPath}

\* A fetcher has its workspace to itself, and finds only its repository there.
WorkspaceInv ==
    /\ TypeOK
    /\ NoSilentLeak
    /\ \A w \in Workspaces \ used : disk[w] = {}
    /\ \A r, s \in Runs : r # s /\ run[r].workspace = run[s].workspace
                           => run[r].workspace = NoPath
    /\ \A r \in Runs : run[r].workspace # NoPath
                           => disk[run[r].workspace] \subseteq FilesIn[run[r].repo]

SoundnessInv ==
    /\ WorkspaceInv
    /\ \A j \in JobIds : Belongs(j, Saved(j))
    /\ \A r \in Runs : run[r].pc # "idle" => /\ Belongs(run[r].job, run[r].seen)
                                            /\ Belongs(run[r].job, run[r].work)

============================================================================
