---------------------------- MODULE IngestionProofs ----------------------------
(****************************************************************************)
(* Theorems about Ingestion, for any number of repositories, files, jobs,   *)
(* threads and workspaces: its types and the coherence of its results, its  *)
(* workspaces and whose files a result holds, and that it implements        *)
(* IngestContract.                                                          *)
(****************************************************************************)
EXTENDS Ingestion, TLAPS

------------------------------------------------------------------------------
(* Type correctness.                                                        *)

LEMMA NoWorkType == NoWork \in Work
  BY DEF NoWork, Work

LEMMA IdleRunType == IdleRun \in Run
  BY NoWorkType DEF IdleRun, Run, Ended

\* What the checkpoint of a job holds is work, also where there is none.
LEMMA SavedType ==
  ASSUME TypeOK, NEW j \in JobIds
  PROVE  Saved(j) \in Work
  BY NoWorkType DEF TypeOK, Saved, Checkpoint

\* _cleanup_workspace keeps the types of what it touches.
LEMMA CleanupType ==
  ASSUME TypeOK, NEW w \in used, CleanupWorkspace(w)
  PROVE  /\ exists' \subseteq used' /\ used' = used
         /\ disk' \in [Workspaces -> SUBSET Files]
         /\ orphaned' \subseteq used'
  <1>1. CASE /\ exists' = exists \ {w}
             /\ disk' = [disk EXCEPT ![w] = {}]
             /\ UNCHANGED <<used, orphaned>>
    BY <1>1 DEF TypeOK
  <1>2. CASE /\ \E left \in SUBSET disk[w] : disk' = [disk EXCEPT ![w] = left]
             /\ orphaned' = orphaned \cup {w}
             /\ UNCHANGED <<exists, used>>
    <2>1. PICK left \in SUBSET disk[w] : disk' = [disk EXCEPT ![w] = left]
      BY <1>2
    <2>2. left \subseteq Files
      BY <2>1 DEF TypeOK
    <2> QED BY <1>2, <2>1, <2>2 DEF TypeOK
  <1> QED BY <1>1, <1>2 DEF CleanupWorkspace

\* What a call that is not idle has in hand.
LEMMA RunType ==
  ASSUME TypeOK, NEW r \in Runs, run[r].pc # "idle"
  PROVE  /\ run[r] \in Run /\ run[r].repo \in Repos /\ run[r].job \in JobIds
         /\ run[r].job \in IdsOf[run[r].repo]
         /\ run[r].work \in Work /\ run[r].seen \in Work
         /\ run[r].work.parsed \subseteq Files
         /\ run[r].pc \in InFetcher => run[r].workspace \in used
         /\ run[r].pc \in InFetcher \/ run[r].workspace = NoPath
         /\ run[r].pc \in Active \ (Fetching \cup Returning) =>
              run[r].work.path \in Workspaces
  BY DataAssumption DEF TypeOK, Placed, Run, Work, Active, Fetching, InFetcher, Returning

\* Saving typed work under a status of the enumeration is a typed checkpoint.
LEMMA SaveType ==
  ASSUME TypeOK, NEW j \in JobIds, NEW status \in Status, NEW work \in Work,
         SaveCheckpoint(j, status, work)
  PROVE  checkpoints' \in [JobIds -> Checkpoint \cup {NoCheckpoint}]
  BY DEF TypeOK, SaveCheckpoint, Checkpoint

RunsOK == run \in [Runs -> Run] /\ \A r \in Runs : Placed(run[r], used)

\* One call changes, to a well-placed one, and no workspace is forgotten.
LEMMA UpdateType ==
  ASSUME TypeOK, NEW r \in Runs, NEW new \in Run, Placed(new, used'),
         run' = [run EXCEPT ![r] = new], used \subseteq used'
  PROVE  RunsOK'
  <1>1. ASSUME NEW s \in Runs PROVE Placed(run'[s], used')
    <2>1. CASE s = r
      BY <2>1 DEF TypeOK
    <2>2. CASE s # r
      <3>1. run'[s] = run[s] /\ Placed(run[s], used)
        BY <2>2 DEF TypeOK
      <3> QED BY <3>1 DEF Placed
    <2> QED BY <2>1, <2>2
  <1> QED BY <1>1 DEF RunsOK, TypeOK

\* A call that fails is typed, and leaves a typed checkpoint.
LEMMA FailType ==
  ASSUME TypeOK, NEW r \in Runs, run[r].pc # "idle", NEW ending \in Endings,
         FailRun(r, ending), used' = used
  PROVE  /\ RunsOK' /\ unfinished' \in [JobIds -> SUBSET Endings]
         /\ checkpoints' \in [JobIds -> Checkpoint \cup {NoCheckpoint}]
  <1> DEFINE new == [run[r] EXCEPT !.pc = "refuse", !.work = NoWork,
                                   !.seen = NoWork, !.workspace = NoPath]
  <1>1. run' = [run EXCEPT ![r] = new]
    BY RunType DEF FailRun, TypeOK, Run
  <1>2. new \in Run
    BY NoWorkType, RunType DEF Run, Active, Returning
  <1>3. Placed(new, used')
    BY RunType DEF Placed, Run, Active, Fetching, InFetcher, Returning
  <1>4. unfinished' \in [JobIds -> SUBSET Endings]
    BY RunType DEF TypeOK, FailRun, Unfinished
  <1>5. checkpoints' \in [JobIds -> Checkpoint \cup {NoCheckpoint}]
    BY NoWorkType, RunType, SaveType DEF FailRun, Status
  <1> HIDE DEF new
  <1> QED BY <1>1, <1>2, <1>3, <1>4, <1>5, UpdateType

\* The steps of a call that has all its results, or has failed, and returns.
Tail(r, new) ==
    /\ run' = [run EXCEPT ![r] = new] /\ run[r].pc # "idle" /\ new \in Run
    /\ new.repo = run[r].repo /\ new.job = run[r].job /\ new.work = run[r].work
    /\ new.seen \in {NoWork, run[r].seen}
    /\ run[r].workspace = NoPath /\ new.workspace = NoPath
    /\ \/ run[r].pc = "store" /\ new.pc = "delete"
       \/ run[r].pc \in {"store", "delete"} /\ new.pc = "return"
       \/ run[r].pc = "return" /\ new.pc = "completed"
       \/ run[r].pc = "refuse" /\ new.pc = "failed"
    /\ UNCHANGED diskVars

LEMMA TailMoves ==
  ASSUME TypeOK, NEW r \in Runs,
         FindCheckpoint(r) \/ DeleteCheckpoint(r) \/ Return(r)
  PROVE  /\ \E new : Tail(r, new)
         /\ \A j \in JobIds : Saved(j)' \in {Saved(j), NoWork}
         /\ checkpoints' \in [JobIds -> Checkpoint \cup {NoCheckpoint}]
         /\ unfinished' \in [JobIds -> SUBSET Endings]
  <1> USE DEF TypeOK
  <1>0. run[r].pc \in {"store", "delete", "return", "refuse"} /\ UNCHANGED diskVars
    BY DEF FindCheckpoint, DeleteCheckpoint, Return, Returning
  <1>1. /\ run[r] \in Run /\ run[r].job \in JobIds /\ run[r].workspace = NoPath
        /\ run[r].seen \in Work
    BY <1>0, RunType DEF InFetcher
  <1>2. CASE FindCheckpoint(r)
    <2> DEFINE next == IF checkpoints[run[r].job] = NoCheckpoint
                       THEN "return" ELSE "delete"
               new == [run[r] EXCEPT !.seen = NoWork, !.pc = next]
    <2>1. run' = [run EXCEPT ![r] = new] /\ run[r].pc = "store"
      BY <1>1, <1>2 DEF FindCheckpoint
    <2>2. new \in Run
      BY <1>1, NoWorkType DEF Run, Active, Returning
    <2>3. Tail(r, new)
      BY <1>0, <1>1, <2>1, <2>2 DEF Tail, Run
    <2> QED BY <1>2, <2>3 DEF FindCheckpoint, Saved
  <1>3. CASE DeleteCheckpoint(r)
    <2> DEFINE new == [run[r] EXCEPT !.pc = "return"]
    <2>1. run' = [run EXCEPT ![r] = new] /\ run[r].pc = "delete"
      BY <1>1, <1>3 DEF DeleteCheckpoint
    <2>2. new \in Run
      BY <1>1 DEF Run, Active, Returning
    <2>3. Tail(r, new)
      BY <1>0, <1>1, <2>1, <2>2 DEF Tail, Run
    <2>4. \A j \in JobIds : Saved(j)' \in {Saved(j), NoWork}
      BY <1>1, <1>3 DEF DeleteCheckpoint, Saved
    <2> QED BY <1>1, <1>3, <2>3, <2>4 DEF DeleteCheckpoint
  <1>4. CASE Return(r)
    <2> DEFINE next == IF run[r].pc = "return" THEN "completed" ELSE "failed"
               new == [run[r] EXCEPT !.pc = next]
    <2>1. run' = [run EXCEPT ![r] = new] /\ run[r].pc \in {"return", "refuse"}
      BY <1>1, <1>4 DEF Return, Returning
    <2>2. new \in Run
      BY <1>1 DEF Run, Ended
    <2>3. Tail(r, new)
      BY <1>0, <1>1, <2>1, <2>2 DEF Tail, Run
    <2> QED BY <1>4, <2>3 DEF Return, Saved
  <1> QED BY <1>2, <1>3, <1>4

\* A stage that produces or takes over typed work keeps everything typed.
LEMMA StageType ==
  ASSUME TypeOK, NEW r \in Runs,
         run[r].pc \in {"fetch", "parse", "analyze", "embed", "learn"},
         NEW work \in Work, work.path # NoPath,
         NEW next \in Active \ (Fetching \cup Returning),
         \/ \E status \in Status : StageDone(r, status, work, next)
         \/ StageReused(r, work, next)
  PROVE  TypeOK'
  <1> DEFINE new == [run[r] EXCEPT !.work = work, !.pc = next]
  <1>1. run' = [run EXCEPT ![r] = new] /\ UNCHANGED <<diskVars, unfinished>>
    BY RunType DEF StageDone, StageReused, TypeOK, Run
  <1>2. new \in Run
    BY RunType DEF Run
  <1>3. Placed(new, used')
    BY <1>1, RunType DEF Placed, Run, Active, Fetching, InFetcher, Returning, diskVars
  <1>4. checkpoints' \in [JobIds -> Checkpoint \cup {NoCheckpoint}]
    BY RunType, SaveType DEF StageDone, StageReused, TypeOK
  <1> HIDE DEF new
  <1> QED
    BY <1>1, <1>2, <1>3, <1>4, UpdateType DEF TypeOK, RunsOK, diskVars

\* What begins with a cleanup of the call's own workspace.
LEMMA CleanupOwnType ==
  ASSUME TypeOK, NEW r \in Runs, run[r].workspace # NoPath,
         CleanupWorkspace(run[r].workspace)
  PROVE  /\ run[r].pc \in InFetcher /\ run[r].workspace \in used
         /\ exists' \subseteq used' /\ used' = used
         /\ disk' \in [Workspaces -> SUBSET Files]
         /\ orphaned' \subseteq used'
  <1>1. run[r].pc \in InFetcher /\ run[r].workspace \in used
    BY DEF TypeOK, Placed
  <1> QED BY <1>1, CleanupType

\* An interrupt takes the call's workspace from it, as a cleanup that removes
\* nothing would, where the fetcher does not know of the directory yet.
LEMMA InterruptCleans ==
  ASSUME TypeOK, NEW r \in Runs, Interrupt(r)
  PROVE  IF run[r].workspace = NoPath THEN UNCHANGED diskVars
                                     ELSE CleanupWorkspace(run[r].workspace)
  <1>1. /\ run[r].pc \in Active /\ run[r].pc # "idle"
        /\ run[r].pc \in InFetcher => run[r].workspace \in used
        /\ run[r].pc \in InFetcher \/ run[r].workspace = NoPath
        /\ used \subseteq Workspaces /\ NoPath \notin Workspaces
        /\ disk \in [Workspaces -> SUBSET Files]
    BY RunType, MarkerAssumption
       DEF Interrupt, TypeOK, Active, Fetching, InFetcher, Returning
  <1>2. CASE run[r].pc = "made"
    <2>1. /\ orphaned' = orphaned \cup {run[r].workspace}
          /\ exists' = exists /\ disk' = disk /\ used' = used
      BY <1>2 DEF Interrupt
    <2>2. run[r].workspace \in Workspaces
      BY <1>1, <1>2 DEF InFetcher
    <2>3. disk' = [disk EXCEPT ![run[r].workspace] = disk[run[r].workspace]]
      BY <1>1, <2>1, <2>2
    <2> QED BY <1>1, <2>1, <2>2, <2>3 DEF CleanupWorkspace
  <1>3. CASE run[r].pc \in {"clone", "cloned"}
    BY <1>1, <1>3 DEF Interrupt, InFetcher
  <1>4. CASE run[r].pc \notin InFetcher
    BY <1>1, <1>4 DEF Interrupt, InFetcher
  <1> QED BY <1>2, <1>3, <1>4 DEF InFetcher

\* Every action keeps the types.
LEMMA TypeStep == TypeOK /\ [Next]_vars => TypeOK'
  <1> SUFFICES ASSUME TypeOK, [Next]_vars PROVE TypeOK'
    OBVIOUS
  <1>1. ASSUME NEW r \in Runs, NEW p \in Repos, NEW j \in JobIds, Begin(r, p, j)
        PROVE  TypeOK'
    <2> DEFINE new == [pc |-> "fetch", repo |-> p, job |-> j, seen |-> Saved(j),
                       work |-> NoWork, workspace |-> NoPath]
    <2>1. new \in Run
      BY NoWorkType, SavedType DEF Run, Active, Fetching, InFetcher, Returning
    <2>2. /\ run' = [run EXCEPT ![r] = new] /\ j \in IdsOf[p]
          /\ UNCHANGED <<checkpoints, diskVars, unfinished>>
      BY <1>1 DEF Begin
    <2>3. Placed(new, used')
      BY <2>2 DEF Placed, Active, Fetching, InFetcher, Returning
    <2> HIDE DEF new
    <2> QED BY <2>1, <2>2, <2>3, UpdateType DEF TypeOK, RunsOK, diskVars
  <1>2. ASSUME NEW r \in Runs, SkipFetch(r) PROVE TypeOK'
    <2>1. [run[r].work EXCEPT !.path = run[r].seen.path] \in Work
      BY <1>2, RunType DEF SkipFetch, Work
    <2>2. [run[r].work EXCEPT !.path = run[r].seen.path].path # NoPath
      BY <1>2, RunType DEF SkipFetch, Work
    <2> QED BY <1>2, <2>1, <2>2, StageType DEF SkipFetch, Active, Fetching, InFetcher, Returning
  <1>3. ASSUME NEW r \in Runs, CreateWorkspace(r) PROVE TypeOK'
    <2>1. PICK w \in Workspaces \ used :
            /\ run' = [run EXCEPT ![r].pc = "made", ![r].workspace = w]
            /\ exists' = exists \cup {w} /\ used' = used \cup {w}
      BY <1>3 DEF CreateWorkspace
    <2> DEFINE new == [run[r] EXCEPT !.pc = "made", !.workspace = w]
    <2>2. run' = [run EXCEPT ![r] = new] /\ new \in Run
      BY <1>3, <2>1, RunType, ZenonT(30) DEF CreateWorkspace, TypeOK, Run, Active, Fetching, InFetcher, Returning
    <2>3. Placed(new, used')
      BY <1>3, <2>1, RunType DEF CreateWorkspace, Placed, Run, Active, Fetching, InFetcher, Returning
    <2> HIDE DEF new
    <2>4. RunsOK'
      BY <2>1, <2>2, <2>3, UpdateType
    <2> QED BY <1>3, <2>1, <2>4 DEF CreateWorkspace, TypeOK, RunsOK
  <1>4. ASSUME NEW r \in Runs, CloneSucceeds(r) PROVE TypeOK'
    <2> DEFINE new == [run[r] EXCEPT !.pc = "cloned"]
    <2>1. run' = [run EXCEPT ![r] = new] /\ new \in Run
      BY <1>4, RunType DEF CloneSucceeds, TypeOK, Run, Active, Fetching, InFetcher, Returning
    <2>2. Placed(new, used')
      BY <1>4, RunType DEF CloneSucceeds, Placed, Run, Active, Fetching, InFetcher, Returning
    <2>3. FilesIn[run[r].repo] \subseteq Files
      BY <1>4, RunType, DataAssumption DEF CloneSucceeds
    <2>4. disk' \in [Workspaces -> SUBSET Files]
      BY <1>4, <2>3 DEF CloneSucceeds, TypeOK
    <2> HIDE DEF new
    <2>5. RunsOK'
      BY <1>4, <2>1, <2>2, UpdateType DEF CloneSucceeds
    <2> QED BY <1>4, <2>4, <2>5 DEF CloneSucceeds, TypeOK, RunsOK
  <1>5. ASSUME NEW r \in Runs, LeaveFetcher(r) PROVE TypeOK'
    <2> DEFINE work == [NoWork EXCEPT !.path = run[r].workspace]
               new == [run[r] EXCEPT !.pc = "parse", !.work = work,
                                     !.workspace = NoPath]
    <2>1. run[r].workspace \in used /\ used' = used /\ used \subseteq Workspaces
      BY <1>5, RunType, CleanupType DEF LeaveFetcher, InFetcher, TypeOK
    <2>2. work \in Work /\ work.path # NoPath
      BY <2>1, NoWorkType, MarkerAssumption DEF Work
    <2>3. run' = [run EXCEPT ![r] = new] /\ new \in Run
      BY <1>5, <2>2, RunType DEF LeaveFetcher, TypeOK, Run, Active, Fetching, InFetcher, Returning
    <2>4. Placed(new, used')
      BY <1>5, <2>2, RunType DEF LeaveFetcher, Placed, Run, Active, Fetching, InFetcher, Returning
    <2> HIDE DEF new
    <2>5. RunsOK'
      BY <2>1, <2>3, <2>4, UpdateType
    <2>6. checkpoints' \in [JobIds -> Checkpoint \cup {NoCheckpoint}]
      BY <1>5, <2>2, RunType, SaveType DEF LeaveFetcher, Status
    <2> QED
      BY <1>5, <2>1, <2>5, <2>6, CleanupType DEF LeaveFetcher, TypeOK, RunsOK
  <1>a. ASSUME NEW r \in Runs, AssignWorkspace(r) PROVE TypeOK'
    <2> DEFINE new == [run[r] EXCEPT !.pc = "clone"]
    <2>1. run' = [run EXCEPT ![r] = new] /\ new \in Run
      BY <1>a, RunType
         DEF AssignWorkspace, TypeOK, Run, Active, Fetching, InFetcher, Returning
    <2>2. Placed(new, used')
      BY <1>a, RunType DEF AssignWorkspace, diskVars, Placed, Run, Active, Fetching,
         InFetcher, Returning
    <2> HIDE DEF new
    <2>3. RunsOK'
      BY <1>a, <2>1, <2>2, UpdateType DEF AssignWorkspace, diskVars
    <2> QED BY <1>a, <2>3 DEF AssignWorkspace, TypeOK, RunsOK, diskVars
  <1>6. ASSUME NEW r \in Runs, FetchRefused(r) PROVE TypeOK'
    BY <1>6, FailType DEF FetchRefused, Endings, TypeOK, RunsOK, diskVars
  <1>7. ASSUME NEW r \in Runs, CloneFails(r) PROVE TypeOK'
    <2>1. /\ run[r].pc # "idle" /\ run[r].workspace \in used
          /\ CleanupWorkspace(run[r].workspace) /\ FailRun(r, "failed")
      BY <1>7, RunType DEF CloneFails, InFetcher
    <2>2. /\ exists' \subseteq used' /\ used' = used
          /\ disk' \in [Workspaces -> SUBSET Files]
          /\ orphaned' \subseteq used'
      BY <2>1, CleanupType
    <2> QED BY <2>1, <2>2, FailType DEF Endings, TypeOK, RunsOK
  <1>8. ASSUME NEW r \in Runs, Parse(r) PROVE TypeOK'
    <2>1. PICK bad \in SUBSET FlakyFiles :
            StageDone(r, "parsing",
                      [run[r].work EXCEPT !.parsed = disk[run[r].work.path] \ bad],
                      "analyze")
      BY <1>8 DEF Parse
    <2>2. run[r].pc = "parse" /\ run[r].work \in Work
             /\ run[r].work.path \in Workspaces
      BY <1>8, RunType DEF Parse, Active, Fetching, InFetcher, Returning
    <2>3. disk[run[r].work.path] \ bad \subseteq Files
      BY <2>2 DEF TypeOK
    <2> DEFINE work == [run[r].work EXCEPT !.parsed = disk[run[r].work.path] \ bad]
    <2>4. work \in Work /\ work.path # NoPath
      BY <2>2, <2>3, MarkerAssumption DEF Work
    <2>5. StageDone(r, "parsing", work, "analyze")
      BY <2>1
    <2> HIDE DEF work
    <2> QED BY <2>2, <2>4, <2>5, StageType DEF Active, Fetching, InFetcher, Returning, Status
  <1>9. ASSUME NEW r \in Runs, ReuseParse(r) PROVE TypeOK'
    <2> DEFINE work == [run[r].work EXCEPT !.parsed = run[r].seen.parsed]
    <2>1. run[r].pc = "parse" /\ StageReused(r, work, "analyze")
      BY <1>9 DEF ReuseParse
    <2>2. work \in Work /\ work.path # NoPath
      BY <2>1, RunType, MarkerAssumption DEF Work, Active, Fetching, InFetcher, Returning
    <2> HIDE DEF work
    <2> QED BY <2>1, <2>2, StageType DEF Active, Fetching, InFetcher, Returning
  <1>10. ASSUME NEW r \in Runs, Analyze(r) PROVE TypeOK'
    <2> DEFINE work == [run[r].work EXCEPT !.analysis = {run[r].work.parsed}]
    <2>1. run[r].pc = "analyze" /\ StageDone(r, "analyzing", work, "embed")
      BY <1>10 DEF Analyze
    <2>2. work \in Work /\ work.path # NoPath
      BY <2>1, RunType, MarkerAssumption DEF Work, Active, Fetching, InFetcher, Returning
    <2> HIDE DEF work
    <2> QED BY <2>1, <2>2, StageType DEF Active, Fetching, InFetcher, Returning, Status
  <1>11. ASSUME NEW r \in Runs, ReuseAnalysis(r) PROVE TypeOK'
    <2> DEFINE work == [run[r].work EXCEPT !.analysis = run[r].seen.analysis]
    <2>1. run[r].pc = "analyze" /\ StageReused(r, work, "embed")
      BY <1>11 DEF ReuseAnalysis
    <2>2. work \in Work /\ work.path # NoPath
      BY <2>1, RunType, MarkerAssumption DEF Work, Active, Fetching, InFetcher, Returning
    <2> HIDE DEF work
    <2> QED BY <2>1, <2>2, StageType DEF Active, Fetching, InFetcher, Returning
  <1>12. ASSUME NEW r \in Runs, Embed(r) PROVE TypeOK'
    <2> DEFINE work == [run[r].work EXCEPT !.embeddings = run[r].work.parsed \cap WithSymbols]
    <2>1. run[r].pc = "embed" /\ StageDone(r, "embedding", work, "learn")
      BY <1>12 DEF Embed
    <2>2. work \in Work /\ work.path # NoPath
      BY <2>1, RunType, MarkerAssumption DEF Work, Active, Fetching, InFetcher, Returning
    <2> HIDE DEF work
    <2> QED BY <2>1, <2>2, StageType DEF Active, Fetching, InFetcher, Returning, Status
  <1>13. ASSUME NEW r \in Runs, ReuseEmbeddings(r) PROVE TypeOK'
    <2> DEFINE work == [run[r].work EXCEPT !.embeddings = run[r].seen.embeddings]
    <2>1. run[r].pc = "embed" /\ StageReused(r, work, "learn")
      BY <1>13 DEF ReuseEmbeddings
    <2>2. work \in Work /\ work.path # NoPath
      BY <2>1, RunType, MarkerAssumption DEF Work, Active, Fetching, InFetcher, Returning
    <2> HIDE DEF work
    <2> QED BY <2>1, <2>2, StageType DEF Active, Fetching, InFetcher, Returning
  <1>14. ASSUME NEW r \in Runs, ExtractConventions(r) PROVE TypeOK'
    <2> DEFINE work == [run[r].work EXCEPT !.conventions = run[r].work.parsed \cap WithSymbols]
    <2>1. run[r].pc = "learn" /\ StageDone(r, "extracting_conventions", work, "store")
      BY <1>14 DEF ExtractConventions
    <2>2. work \in Work /\ work.path # NoPath
      BY <2>1, RunType, MarkerAssumption DEF Work, Active, Fetching, InFetcher, Returning
    <2> HIDE DEF work
    <2> QED BY <2>1, <2>2, StageType DEF Active, Fetching, InFetcher, Returning, Status
  <1>15. ASSUME NEW r \in Runs, ReuseConventions(r) PROVE TypeOK'
    <2> DEFINE work == [run[r].work EXCEPT !.conventions = run[r].seen.conventions]
    <2>1. run[r].pc = "learn" /\ StageReused(r, work, "store")
      BY <1>15 DEF ReuseConventions
    <2>2. work \in Work /\ work.path # NoPath
      BY <2>1, RunType, MarkerAssumption DEF Work, Active, Fetching, InFetcher, Returning
    <2> HIDE DEF work
    <2> QED BY <2>1, <2>2, StageType DEF Active, Fetching, InFetcher, Returning
  <1>16. ASSUME NEW r \in Runs, FindCheckpoint(r) \/ DeleteCheckpoint(r) \/ Return(r)
         PROVE  TypeOK'
    <2>1. PICK new : Tail(r, new)
      BY <1>16, TailMoves
    <2>2. Placed(new, used')
      <3>1. /\ new.repo \in Repos /\ new.job \in IdsOf[new.repo]
            /\ run[r].pc = "store" => run[r].work.path \in Workspaces
        BY <2>1, RunType DEF Tail, Active, Fetching, InFetcher, Returning
      <3>2. new.pc \in {"delete", "return", "completed", "failed"}
        BY <2>1 DEF Tail
      <3>3. new.pc = "delete" => new.work.path # NoPath
        BY <2>1, <3>1, MarkerAssumption DEF Tail
      <3>4. new.workspace = NoPath
        BY <2>1 DEF Tail
      <3> QED
        BY <3>1, <3>2, <3>3, <3>4 DEF Placed, Active, Fetching, InFetcher, Returning
    <2>3. RunsOK'
      BY <2>1, <2>2, UpdateType DEF Tail, diskVars
    <2> QED BY <1>16, <2>1, <2>3, TailMoves DEF Tail, TypeOK, RunsOK, diskVars
  <1>17. ASSUME NEW r \in Runs, DeleteMisses(r) \/ StageFails(r) PROVE TypeOK'
    <2>1. PICK ending \in Endings : FailRun(r, ending)
      BY <1>17 DEF DeleteMisses, StageFails, Endings
    <2>2. run[r].pc # "idle" /\ UNCHANGED diskVars
      BY <1>17 DEF DeleteMisses, StageFails
    <2> QED BY <2>1, <2>2, FailType DEF TypeOK, RunsOK, diskVars
  <1>18. ASSUME NEW r \in Runs, Interrupt(r) PROVE TypeOK'
    <2>1. /\ run[r].pc # "idle" /\ run' = [run EXCEPT ![r] = IdleRun]
          /\ Unfinished(r, "interrupted")
          /\ checkpoints' = checkpoints
      BY <1>18 DEF Interrupt, Active, Fetching, InFetcher, Returning
    <2>2. /\ exists' \subseteq used' /\ used' = used
          /\ disk' \in [Workspaces -> SUBSET Files]
          /\ orphaned' \subseteq used'
      BY <1>18, InterruptCleans, CleanupOwnType DEF TypeOK, diskVars
    <2>3. Placed(IdleRun, used')
      BY DEF Placed, IdleRun, Active, Fetching, InFetcher, Returning
    <2>4. RunsOK'
      BY <2>1, <2>2, <2>3, IdleRunType, UpdateType
    <2>5. unfinished' \in [JobIds -> SUBSET Endings]
      BY <2>1, RunType DEF TypeOK, Unfinished, Endings
    <2> QED BY <2>1, <2>2, <2>4, <2>5 DEF TypeOK, RunsOK
  <1>19. ASSUME Crash PROVE TypeOK'
    <2>1. {run[r].workspace : r \in Runs} \ {NoPath} \subseteq used
      BY DEF TypeOK, Placed
    <2>2. Placed(IdleRun, used')
      BY DEF Placed, IdleRun, Active, Fetching, InFetcher, Returning
    <2>3. RunsOK'
      BY <1>19, <2>2, IdleRunType DEF Crash, RunsOK
    <2> QED BY <1>19, <2>1, <2>3 DEF Crash, TypeOK, RunsOK
  <1>20. CASE UNCHANGED vars
    BY <1>20 DEF TypeOK, vars
  <1> QED
    BY <1>1, <1>2, <1>3, <1>4, <1>5, <1>6, <1>7, <1>8, <1>9, <1>10, <1>11, <1>12,
       <1>13, <1>14, <1>15, <1>16, <1>17, <1>18, <1>19, <1>20, <1>a DEF Next, Stage

LEMMA TypeInit == Init => TypeOK
  <1> SUFFICES ASSUME Init PROVE TypeOK
    OBVIOUS
  <1>1. Placed(IdleRun, used)
    BY DEF Placed, IdleRun, Active, Fetching, InFetcher, Returning
  <1> QED BY <1>1, IdleRunType DEF Init, TypeOK

\* Every variable keeps its type, and every call its place: whatever calls,
\* interrupts and crashes are interleaved, a call of ingest_repository has a
\* workspace exactly inside its fetcher, and a path to parse after it.
THEOREM TypeCorrect == Spec => []TypeOK
  BY TypeInit, TypeStep, PTL DEF Spec

------------------------------------------------------------------------------
(* A result is coherent: the inductive invariant CoherenceInv.              *)

LEMMA TypeNext == TypeOK /\ Next => TypeOK'
  BY TypeStep

\* Saving work for a job changes what is saved for that job only.
LEMMA SavedAfterSave ==
  ASSUME TypeOK, NEW j \in JobIds, NEW status \in Status, NEW work \in Work,
         SaveCheckpoint(j, status, work)
  PROVE  \A k \in JobIds : Saved(k)' = IF k = j THEN work ELSE Saved(k)
  <1>1. [status |-> status, work |-> work] # NoCheckpoint
    BY MarkerAssumption DEF Checkpoint
  <1> QED BY <1>1 DEF TypeOK, SaveCheckpoint, Saved

LEMMA NoWorkConsistent == Consistent(NoWork)
  BY DEF Consistent, NoWork

LEMMA IdleInStep == InStep(IdleRun)
  BY NoWorkConsistent DEF InStep, IdleRun, NoWork, Finished

\* One call goes on in step, and what is saved stays consistent.
LEMMA CoherenceUpdate ==
  ASSUME CoherenceInv, TypeOK', NEW r \in Runs, NEW new, InStep(new),
         run' = [run EXCEPT ![r] = new],
         \A j \in JobIds : Saved(j)' = Saved(j) \/ Consistent(Saved(j)')
  PROVE  CoherenceInv'
  <1>1. \A s \in Runs : InStep(run'[s])
    BY DEF CoherenceInv, TypeOK
  <1>2. \A j \in JobIds : Consistent(Saved(j)')
    BY DEF CoherenceInv
  <1>3. \A j \in JobIds : Consistent(Saved(j))'
    BY <1>2 DEF Consistent
  <1>4. \A s \in Runs : InStep(run[s])'
    BY <1>1 DEF InStep, Consistent, Finished
  <1> QED BY <1>3, <1>4 DEF CoherenceInv

\* A stage leaves a call in step, and saves or takes over consistent work.
LEMMA CoherenceStage ==
  ASSUME CoherenceInv, TypeOK', NEW r \in Runs, run[r].pc # "idle",
         NEW work \in Work, NEW next \in Active,
         InStep([run[r] EXCEPT !.work = work, !.pc = next]),
         \/ \E status \in Status : StageDone(r, status, work, next)
         \/ StageReused(r, work, next)
  PROVE  CoherenceInv'
  <1> DEFINE new == [run[r] EXCEPT !.work = work, !.pc = next]
  <1>1. run' = [run EXCEPT ![r] = new]
    BY RunType DEF StageDone, StageReused, CoherenceInv, TypeOK, Run
  <1>2. Consistent(work)
    BY RunType DEF InStep, Consistent, CoherenceInv, Finished, Run
  <1>3. \A j \in JobIds : Saved(j)' = Saved(j) \/ Consistent(Saved(j)')
    BY <1>2, RunType, SavedAfterSave DEF StageDone, StageReused, CoherenceInv, Saved
  <1> HIDE DEF new
  <1>4. InStep(new)
    BY DEF new
  <1> QED BY <1>1, <1>3, <1>4, CoherenceUpdate

\* The call fails: nothing is left of it.
LEMMA CoherenceFail ==
  ASSUME CoherenceInv, TypeOK', NEW r \in Runs, run[r].pc # "idle", NEW ending,
         FailRun(r, ending)
  PROVE  CoherenceInv'
  <1> DEFINE new == [run[r] EXCEPT !.pc = "refuse", !.work = NoWork,
                                   !.seen = NoWork, !.workspace = NoPath]
  <1>1. run' = [run EXCEPT ![r] = new]
    BY RunType DEF FailRun, CoherenceInv, TypeOK, Run
  <1>2. new.pc = "refuse" /\ new.work = NoWork /\ new.seen = NoWork
    BY RunType DEF CoherenceInv, Run
  <1>3. InStep(new)
    BY <1>2, NoWorkConsistent DEF InStep, NoWork, Finished
  <1>4. \A j \in JobIds : Saved(j)' \in {Saved(j), NoWork}
    BY NoWorkType, RunType, SavedAfterSave DEF FailRun, Status, CoherenceInv
  <1> HIDE DEF new
  <1> QED BY <1>1, <1>3, <1>4, NoWorkConsistent, CoherenceUpdate

\* It keeps its results while it returns them.
LEMMA CoherenceTail ==
  ASSUME CoherenceInv, TypeOK', NEW r \in Runs,
         FindCheckpoint(r) \/ DeleteCheckpoint(r) \/ Return(r)
  PROVE  CoherenceInv'
  <1>1. PICK new : Tail(r, new)
    BY TailMoves DEF CoherenceInv
  <1>2. InStep(run[r]) /\ \A j \in JobIds : Saved(j)' \in {Saved(j), NoWork}
    BY TailMoves DEF CoherenceInv
  <1>3. Consistent(new.seen)
    BY <1>1, <1>2, NoWorkConsistent DEF Tail, InStep
  <1>4. InStep(new)
    BY <1>1, <1>2, <1>3 DEF Tail, InStep, Finished
  <1> QED BY <1>1, <1>2, <1>4, NoWorkConsistent, CoherenceUpdate DEF Tail

LEMMA CoherenceStep == CoherenceInv /\ [Next]_vars => CoherenceInv'
  <1> SUFFICES ASSUME CoherenceInv, Next PROVE CoherenceInv'
    BY DEF vars, CoherenceInv, TypeOK, Saved, InStep, Consistent, Finished
  <1>t. TypeOK /\ TypeOK'
    BY TypeNext DEF CoherenceInv
  <1>1. ASSUME NEW r \in Runs, NEW p \in Repos, NEW j \in JobIds, Begin(r, p, j)
        PROVE  CoherenceInv'
    <2> DEFINE new == [pc |-> "fetch", repo |-> p, job |-> j, seen |-> Saved(j),
                       work |-> NoWork, workspace |-> NoPath]
    <2>1. run' = [run EXCEPT ![r] = new] /\ checkpoints' = checkpoints
      BY <1>1 DEF Begin
    <2>2. InStep(new)
      BY DEF InStep, NoWork, CoherenceInv
    <2>3. \A k \in JobIds : Saved(k)' = Saved(k)
      BY <2>1 DEF Saved
    <2> HIDE DEF new
    <2> QED BY <1>t, <2>1, <2>2, <2>3, CoherenceUpdate
  <1>2. ASSUME NEW r \in Runs, CreateWorkspace(r) PROVE CoherenceInv'
    <2>1. PICK w \in Workspaces \ used :
            run' = [run EXCEPT ![r].pc = "made", ![r].workspace = w]
      BY <1>2 DEF CreateWorkspace
    <2> DEFINE new == [run[r] EXCEPT !.pc = "made", !.workspace = w]
    <2>2. run' = [run EXCEPT ![r] = new]
      BY <1>t, <1>2, <2>1, RunType DEF CreateWorkspace, TypeOK, Run
    <2>3. InStep(new)
      BY <1>t, <1>2, RunType DEF CreateWorkspace, InStep, CoherenceInv, Finished, Run
    <2>4. \A k \in JobIds : Saved(k)' = Saved(k)
      BY <1>2 DEF CreateWorkspace, Saved
    <2> HIDE DEF new
    <2> QED BY <1>t, <2>2, <2>3, <2>4, CoherenceUpdate
  <1>a. ASSUME NEW r \in Runs, AssignWorkspace(r) PROVE CoherenceInv'
    <2> DEFINE new == [run[r] EXCEPT !.pc = "clone"]
    <2>1. run' = [run EXCEPT ![r] = new]
      BY <1>t, <1>a, RunType DEF AssignWorkspace, TypeOK, Run
    <2>2. InStep(new)
      BY <1>t, <1>a, RunType DEF AssignWorkspace, InStep, CoherenceInv, Finished, Run
    <2>3. \A k \in JobIds : Saved(k)' = Saved(k)
      BY <1>a DEF AssignWorkspace, Saved
    <2> HIDE DEF new
    <2> QED BY <1>t, <2>1, <2>2, <2>3, CoherenceUpdate
  <1>3. ASSUME NEW r \in Runs, CloneSucceeds(r) PROVE CoherenceInv'
    <2> DEFINE new == [run[r] EXCEPT !.pc = "cloned"]
    <2>1. run' = [run EXCEPT ![r] = new]
      BY <1>t, <1>3, RunType DEF CloneSucceeds, TypeOK, Run
    <2>2. InStep(new)
      BY <1>t, <1>3, RunType DEF CloneSucceeds, InStep, CoherenceInv, Finished, Run
    <2>3. \A k \in JobIds : Saved(k)' = Saved(k)
      BY <1>3 DEF CloneSucceeds, Saved
    <2> HIDE DEF new
    <2> QED BY <1>t, <2>1, <2>2, <2>3, CoherenceUpdate
  <1>4. ASSUME NEW r \in Runs, LeaveFetcher(r) PROVE CoherenceInv'
    <2> DEFINE work == [NoWork EXCEPT !.path = run[r].workspace]
               new == [run[r] EXCEPT !.pc = "parse", !.work = work,
                                     !.workspace = NoPath]
    <2>1. run' = [run EXCEPT ![r] = new]
      BY <1>t, <1>4, RunType DEF LeaveFetcher, TypeOK, Run
    <2>2. work \in Work /\ Consistent(work)
      BY <1>t, <1>4, RunType DEF LeaveFetcher, TypeOK, NoWork, Work, Consistent
    <2>3. InStep(new)
      BY <1>t, <1>4, RunType DEF LeaveFetcher, InStep, CoherenceInv, Finished, Run, NoWork
    <2>4. \A k \in JobIds : Saved(k)' = Saved(k) \/ Consistent(Saved(k)')
      BY <1>t, <1>4, <2>2, RunType, SavedAfterSave DEF LeaveFetcher, Status
    <2> HIDE DEF new
    <2> QED BY <1>t, <2>1, <2>3, <2>4, CoherenceUpdate
  <1>5. ASSUME NEW r \in Runs,
               FetchRefused(r) \/ CloneFails(r) \/ StageFails(r) \/ DeleteMisses(r)
        PROVE  CoherenceInv'
    BY <1>t, <1>5, CoherenceFail
       DEF FetchRefused, CloneFails, StageFails, DeleteMisses
  <1>6. ASSUME NEW r \in Runs, SkipFetch(r) PROVE CoherenceInv'
    <2> DEFINE work == [run[r].work EXCEPT !.path = run[r].seen.path]
    <2>1. run[r].pc = "fetch" /\ StageReused(r, work, "parse")
      BY <1>6 DEF SkipFetch
    <2>2. work \in Work
      BY <1>t, <2>1, RunType DEF Work
    <2>3. InStep([run[r] EXCEPT !.work = work, !.pc = "parse"])
      BY <1>t, <1>6, <2>1, RunType DEF SkipFetch, InStep, Consistent, CoherenceInv, Finished,
         Run, Work
    <2> HIDE DEF work
    <2> QED BY <1>t, <2>1, <2>2, <2>3, CoherenceStage DEF Active, Fetching, InFetcher, Returning
  <1>7. ASSUME NEW r \in Runs, Parse(r) PROVE CoherenceInv'
    <2>1. PICK bad \in SUBSET FlakyFiles :
            StageDone(r, "parsing",
                      [run[r].work EXCEPT !.parsed = disk[run[r].work.path] \ bad],
                      "analyze")
      BY <1>7 DEF Parse
    <2> DEFINE work == [run[r].work EXCEPT !.parsed = disk[run[r].work.path] \ bad]
    <2>2. run[r].pc = "parse" /\ StageDone(r, "parsing", work, "analyze")
      BY <1>7, <2>1 DEF Parse
    <2>3. run[r].work.path \in Workspaces /\ run[r].work \in Work
      BY <1>t, <2>2, RunType DEF Active, Fetching, InFetcher, Returning
    <2>4. work \in Work
      BY <1>t, <2>3 DEF TypeOK, Work
    <2>5. InStep([run[r] EXCEPT !.work = work, !.pc = "analyze"])
      BY <1>t, <1>7, <2>2, <2>3, RunType DEF Parse, InStep, Consistent, CoherenceInv, Finished,
         Run, Work
    <2> HIDE DEF work
    <2> QED BY <1>t, <2>2, <2>4, <2>5, CoherenceStage DEF Active, Fetching, InFetcher, Returning, Status
  <1>8. ASSUME NEW r \in Runs, ReuseParse(r) PROVE CoherenceInv'
    <2> DEFINE work == [run[r].work EXCEPT !.parsed = run[r].seen.parsed]
    <2>1. run[r].pc = "parse" /\ StageReused(r, work, "analyze")
      BY <1>8 DEF ReuseParse
    <2>2. work \in Work
      BY <1>t, <2>1, RunType DEF Work
    <2>3. InStep([run[r] EXCEPT !.work = work, !.pc = "analyze"])
      BY <1>t, <1>8, <2>1, RunType DEF ReuseParse, InStep, Consistent, CoherenceInv, Finished,
         Run, Work
    <2> HIDE DEF work
    <2> QED BY <1>t, <2>1, <2>2, <2>3, CoherenceStage DEF Active, Fetching, InFetcher, Returning
  <1>9. ASSUME NEW r \in Runs, Analyze(r) PROVE CoherenceInv'
    <2> DEFINE work == [run[r].work EXCEPT !.analysis = {run[r].work.parsed}]
    <2>1. run[r].pc = "analyze" /\ StageDone(r, "analyzing", work, "embed")
      BY <1>9 DEF Analyze
    <2>2. work \in Work
      BY <1>t, <2>1, RunType DEF Work
    <2>3. InStep([run[r] EXCEPT !.work = work, !.pc = "embed"])
      BY <1>t, <1>9, <2>1, RunType DEF Analyze, InStep, Consistent, CoherenceInv, Finished,
         Run, Work
    <2> HIDE DEF work
    <2> QED BY <1>t, <2>1, <2>2, <2>3, CoherenceStage DEF Active, Fetching, InFetcher, Returning, Status
  <1>10. ASSUME NEW r \in Runs, ReuseAnalysis(r) PROVE CoherenceInv'
    <2> DEFINE work == [run[r].work EXCEPT !.analysis = run[r].seen.analysis]
    <2>1. run[r].pc = "analyze" /\ StageReused(r, work, "embed")
      BY <1>10 DEF ReuseAnalysis
    <2>2. work \in Work
      BY <1>t, <2>1, RunType DEF Work
    <2>3. InStep([run[r] EXCEPT !.work = work, !.pc = "embed"])
      BY <1>t, <1>10, <2>1, RunType DEF ReuseAnalysis, InStep, Consistent, CoherenceInv, Finished,
         Run, Work
    <2> HIDE DEF work
    <2> QED BY <1>t, <2>1, <2>2, <2>3, CoherenceStage DEF Active, Fetching, InFetcher, Returning
  <1>11. ASSUME NEW r \in Runs, Embed(r) PROVE CoherenceInv'
    <2> DEFINE work == [run[r].work EXCEPT !.embeddings = run[r].work.parsed \cap WithSymbols]
    <2>1. run[r].pc = "embed" /\ StageDone(r, "embedding", work, "learn")
      BY <1>11 DEF Embed
    <2>2. work \in Work
      BY <1>t, <2>1, RunType DEF Work
    <2>3. InStep([run[r] EXCEPT !.work = work, !.pc = "learn"])
      BY <1>t, <1>11, <2>1, RunType DEF Embed, InStep, Consistent, CoherenceInv, Finished,
         Run, Work
    <2> HIDE DEF work
    <2> QED BY <1>t, <2>1, <2>2, <2>3, CoherenceStage DEF Active, Fetching, InFetcher, Returning, Status
  <1>12. ASSUME NEW r \in Runs, ReuseEmbeddings(r) PROVE CoherenceInv'
    <2> DEFINE work == [run[r].work EXCEPT !.embeddings = run[r].seen.embeddings]
    <2>1. run[r].pc = "embed" /\ StageReused(r, work, "learn")
      BY <1>12 DEF ReuseEmbeddings
    <2>2. work \in Work
      BY <1>t, <2>1, RunType DEF Work
    <2>3. InStep([run[r] EXCEPT !.work = work, !.pc = "learn"])
      BY <1>t, <1>12, <2>1, RunType DEF ReuseEmbeddings, InStep, Consistent, CoherenceInv, Finished,
         Run, Work
    <2> HIDE DEF work
    <2> QED BY <1>t, <2>1, <2>2, <2>3, CoherenceStage DEF Active, Fetching, InFetcher, Returning
  <1>13. ASSUME NEW r \in Runs, ExtractConventions(r) PROVE CoherenceInv'
    <2> DEFINE work == [run[r].work EXCEPT !.conventions = run[r].work.parsed \cap WithSymbols]
    <2>1. run[r].pc = "learn" /\ StageDone(r, "extracting_conventions", work, "store")
      BY <1>13 DEF ExtractConventions
    <2>2. work \in Work
      BY <1>t, <2>1, RunType DEF Work
    <2>3. InStep([run[r] EXCEPT !.work = work, !.pc = "store"])
      BY <1>t, <1>13, <2>1, RunType, SMTT(30) DEF ExtractConventions, InStep, Consistent, CoherenceInv, Finished,
         Run, Work
    <2> HIDE DEF work
    <2> QED BY <1>t, <2>1, <2>2, <2>3, CoherenceStage DEF Active, Fetching, InFetcher, Returning, Status
  <1>14. ASSUME NEW r \in Runs, ReuseConventions(r) PROVE CoherenceInv'
    <2> DEFINE work == [run[r].work EXCEPT !.conventions = run[r].seen.conventions]
    <2>1. run[r].pc = "learn" /\ StageReused(r, work, "store")
      BY <1>14 DEF ReuseConventions
    <2>2. work \in Work
      BY <1>t, <2>1, RunType DEF Work
    <2>3. InStep([run[r] EXCEPT !.work = work, !.pc = "store"])
      BY <1>t, <1>14, <2>1, RunType, ZenonT(30) DEF ReuseConventions, InStep, Consistent, CoherenceInv, Finished,
         Run, Work
    <2> HIDE DEF work
    <2> QED BY <1>t, <2>1, <2>2, <2>3, CoherenceStage DEF Active, Fetching, InFetcher, Returning
  <1>15. ASSUME NEW r \in Runs, FindCheckpoint(r) \/ DeleteCheckpoint(r) \/ Return(r)
         PROVE  CoherenceInv'
    BY <1>t, <1>15, CoherenceTail
  <1>16. ASSUME NEW r \in Runs, Interrupt(r) PROVE CoherenceInv'
    <2>1. run' = [run EXCEPT ![r] = IdleRun] /\ \A j \in JobIds : Saved(j)' = Saved(j)
      BY <1>16 DEF Interrupt, Saved
    <2> QED BY <1>t, <2>1, IdleInStep, CoherenceUpdate
  <1>17. ASSUME Crash PROVE CoherenceInv'
    <2>1. \A r \in Runs : InStep(run'[r])
      BY <1>17, IdleInStep DEF Crash
    <2>2. \A j \in JobIds : Saved(j)' = NoWork
      BY <1>17 DEF Crash, Saved
    <2> QED BY <1>t, <2>1, <2>2, NoWorkConsistent DEF CoherenceInv, InStep, Consistent, Finished
  <1> QED
    BY <1>1, <1>2, <1>3, <1>4, <1>5, <1>6, <1>7, <1>8, <1>9, <1>10, <1>11, <1>12,
       <1>13, <1>14, <1>15, <1>16, <1>17, <1>a DEF Next, Stage

LEMMA InitCoherent == Init => CoherenceInv
  <1> SUFFICES ASSUME Init PROVE CoherenceInv
    OBVIOUS
  <1>1. \A j \in JobIds : Saved(j) = NoWork
    BY DEF Init, Saved
  <1> QED BY <1>1, TypeInit, IdleInStep, NoWorkConsistent DEF Init, CoherenceInv

\* The embeddings and conventions of every result cover exactly its parse
\* results, for any interleaving of calls of any number of jobs: a call takes
\* the parts it does not compute from the one checkpoint it read at entry, and
\* whatever it saves is consistent for the calls that resume from it.
THEOREM ResultsCoherent == Spec => []ResultCoherent
  <1>1. CoherenceInv => ResultCoherent
    BY DEF CoherenceInv, InStep, Finished, ResultCoherent
  <1> QED BY <1>1, InitCoherent, CoherenceStep, PTL DEF Spec

------------------------------------------------------------------------------
(* What a step of a call does to workspaces: leave them alone, create one,  *)
(* fill one, or clean one up.                                               *)

LeavesAlone(r, new) ==
    /\ new.workspace = run[r].workspace
    /\ new.workspace # NoPath => new.repo = run[r].repo
    /\ UNCHANGED diskVars

Creates(r, new) ==
    /\ run[r].workspace = NoPath
    /\ new.workspace \in Workspaces \ used /\ new.repo = run[r].repo
    /\ exists' = exists \cup {new.workspace} /\ used' = used \cup {new.workspace}
    /\ UNCHANGED <<disk, orphaned>>

Fills(r, new) ==
    /\ run[r].workspace \in used
    /\ new.workspace = run[r].workspace /\ new.repo = run[r].repo
    /\ disk' = [disk EXCEPT ![run[r].workspace] = FilesIn[run[r].repo]]
    /\ UNCHANGED <<exists, used, orphaned>>

CleansUp(r, new) ==
    /\ run[r].workspace \in used /\ new.workspace = NoPath
    /\ CleanupWorkspace(run[r].workspace)

Moves(r, new) ==
    /\ run' = [run EXCEPT ![r] = new]
    /\ LeavesAlone(r, new) \/ Creates(r, new) \/ Fills(r, new) \/ CleansUp(r, new)

LEMMA StageMoves ==
  ASSUME TypeOK, NEW r \in Runs, Stage(r)
  PROVE  \E new : Moves(r, new)
  <1>e. ASSUME NEW ending, FailRun(r, ending), run[r].pc # "idle"
        PROVE  \E new : run' = [run EXCEPT ![r] = new] /\ new.workspace = NoPath
    <2> DEFINE new == [run[r] EXCEPT !.pc = "refuse", !.work = NoWork,
                                     !.seen = NoWork, !.workspace = NoPath]
    <2>1. run' = [run EXCEPT ![r] = new] /\ new.workspace = NoPath
      BY <1>e, RunType DEF FailRun, TypeOK, Run
    <2> QED BY <2>1
  <1>1. CASE CreateWorkspace(r)
    <2>1. PICK w \in Workspaces \ used :
            /\ run' = [run EXCEPT ![r].pc = "made", ![r].workspace = w]
            /\ exists' = exists \cup {w} /\ used' = used \cup {w}
      BY <1>1 DEF CreateWorkspace
    <2> DEFINE new == [run[r] EXCEPT !.pc = "made", !.workspace = w]
    <2>2. run[r] \in Run /\ run[r].workspace = NoPath
      BY <1>1, RunType DEF CreateWorkspace, InFetcher
    <2>3. /\ run' = [run EXCEPT ![r] = new]
          /\ new.workspace = w /\ new.repo = run[r].repo
      BY <2>1, <2>2 DEF TypeOK, Run
    <2>4. Creates(r, new)
      BY <1>1, <2>1, <2>2, <2>3 DEF Creates, CreateWorkspace
    <2> QED BY <2>3, <2>4 DEF Moves
  <1>2. CASE CloneSucceeds(r)
    <2> DEFINE new == [run[r] EXCEPT !.pc = "cloned"]
    <2>1. run[r] \in Run /\ run[r].workspace \in used
      BY <1>2, RunType DEF CloneSucceeds, InFetcher
    <2>2. run' = [run EXCEPT ![r] = new] /\ Fills(r, new)
      BY <1>2, <2>1 DEF CloneSucceeds, TypeOK, Run, Fills
    <2> QED BY <2>2 DEF Moves
  <1>3. CASE LeaveFetcher(r)
    <2> DEFINE new == [run[r] EXCEPT !.pc = "parse", !.workspace = NoPath,
                         !.work = [NoWork EXCEPT !.path = run[r].workspace]]
    <2>1. run[r] \in Run /\ run[r].workspace \in used
      BY <1>3, RunType DEF LeaveFetcher, InFetcher
    <2>2. run' = [run EXCEPT ![r] = new] /\ CleansUp(r, new)
      BY <1>3, <2>1 DEF LeaveFetcher, TypeOK, Run, CleansUp
    <2> QED BY <2>2 DEF Moves
  <1>4. CASE CloneFails(r)
    <2>1. run[r].pc # "idle" /\ run[r].workspace \in used
      BY <1>4, RunType DEF CloneFails, InFetcher
    <2>2. PICK new : run' = [run EXCEPT ![r] = new] /\ new.workspace = NoPath
      BY <1>e, <1>4, <2>1 DEF CloneFails
    <2> QED BY <1>4, <2>1, <2>2 DEF CloneFails, Moves, CleansUp
  <1>5. CASE FetchRefused(r) \/ StageFails(r) \/ DeleteMisses(r)
    <2>1. /\ run[r].pc \in {"fetch", "parse", "analyze", "embed", "learn", "delete"}
          /\ UNCHANGED diskVars
      BY <1>5 DEF FetchRefused, StageFails, DeleteMisses
    <2>2. run[r].workspace = NoPath /\ run[r].pc # "idle"
      BY <2>1, RunType DEF InFetcher
    <2>3. PICK new : run' = [run EXCEPT ![r] = new] /\ new.workspace = NoPath
      BY <1>e, <1>5, <2>2 DEF FetchRefused, StageFails, DeleteMisses
    <2> QED BY <2>1, <2>2, <2>3 DEF Moves, LeavesAlone
  <1>a. CASE AssignWorkspace(r)
    <2> DEFINE new == [run[r] EXCEPT !.pc = "clone"]
    <2>1. run[r] \in Run
      BY <1>a, RunType DEF AssignWorkspace
    <2>2. run' = [run EXCEPT ![r] = new] /\ LeavesAlone(r, new)
      BY <1>a, <2>1 DEF AssignWorkspace, TypeOK, Run, LeavesAlone
    <2> QED BY <2>2 DEF Moves
  <1>b. CASE FindCheckpoint(r) \/ DeleteCheckpoint(r) \/ Return(r)
    BY <1>b, TailMoves DEF Tail, Moves, LeavesAlone
  <1>6. ASSUME NEW work, NEW next, run[r].pc \notin {"idle", "made", "clone", "cloned"},
               \/ \E status : StageDone(r, status, work, next)
               \/ StageReused(r, work, next)
        PROVE  \E new : Moves(r, new)
    <2> DEFINE new == [run[r] EXCEPT !.work = work, !.pc = next]
    <2>1. run[r] \in Run /\ run[r].workspace = NoPath
      BY <1>6, RunType DEF InFetcher
    <2>2. /\ run' = [run EXCEPT ![r] = new] /\ UNCHANGED diskVars
      BY <1>6, <2>1 DEF StageDone, StageReused, TypeOK, Run
    <2>3. new.workspace = NoPath
      BY <2>1 DEF Run
    <2> QED BY <2>1, <2>2, <2>3 DEF Moves, LeavesAlone
  <1>7. CASE \/ SkipFetch(r) \/ ReuseParse(r) \/ ReuseAnalysis(r)
             \/ ReuseEmbeddings(r) \/ ReuseConventions(r)
    BY <1>6, <1>7 DEF SkipFetch, ReuseParse, ReuseAnalysis, ReuseEmbeddings,
       ReuseConventions
  <1>8. CASE Analyze(r) \/ Embed(r) \/ ExtractConventions(r)
    BY <1>6, <1>8 DEF Analyze, Embed, ExtractConventions
  <1>9. CASE Parse(r)
    <2>1. PICK bad \in SUBSET FlakyFiles :
            StageDone(r, "parsing",
                      [run[r].work EXCEPT !.parsed = disk[run[r].work.path] \ bad],
                      "analyze")
      BY <1>9 DEF Parse
    <2> QED BY <1>6, <1>9, <2>1 DEF Parse
  <1> QED BY <1>1, <1>2, <1>3, <1>4, <1>5, <1>7, <1>8, <1>9, <1>a, <1>b DEF Stage

LEMMA OtherMoves ==
  ASSUME TypeOK, NEW r \in Runs,
         \/ \E p \in Repos, j \in JobIds : Begin(r, p, j)
         \/ Interrupt(r)
  PROVE  \E new : Moves(r, new)
  <1>1. ASSUME NEW p \in Repos, NEW j \in JobIds, Begin(r, p, j)
        PROVE  \E new : Moves(r, new)
    <2> DEFINE new == [pc |-> "fetch", repo |-> p, job |-> j, seen |-> Saved(j),
                       work |-> NoWork, workspace |-> NoPath]
    <2>1. run' = [run EXCEPT ![r] = new] /\ UNCHANGED diskVars
      BY <1>1 DEF Begin, diskVars
    <2>2. run[r].workspace = NoPath
      BY <1>1 DEF Begin, Ended, InFetcher, TypeOK, Placed
    <2>3. new.workspace = NoPath
      OBVIOUS
    <2> HIDE DEF new
    <2> QED BY <2>1, <2>2, <2>3 DEF Moves, LeavesAlone
  <1>2. CASE Interrupt(r)
    <2>1. run' = [run EXCEPT ![r] = IdleRun] /\ IdleRun.workspace = NoPath
      BY <1>2 DEF Interrupt, IdleRun
    <2>2. CASE run[r].workspace = NoPath
      BY <1>2, <2>1, <2>2, InterruptCleans DEF Moves, LeavesAlone
    <2>3. CASE run[r].workspace # NoPath
      BY <1>2, <2>1, <2>3, InterruptCleans, CleanupOwnType DEF Moves, CleansUp
    <2> QED BY <2>2, <2>3
  <1> QED BY <1>1, <1>2

------------------------------------------------------------------------------
(* Workspaces: the inductive invariant WorkspaceInv.                        *)

\* A step of a call keeps the invariant and every released workspace.
LEMMA MovesKeep ==
  ASSUME WorkspaceInv, TypeOK', NEW r \in Runs, NEW new, Moves(r, new)
  PROVE  /\ WorkspaceInv'
         /\ \A p \in Repos : Released(p) \subseteq Released(p)'
         /\ CleansUp(r, new) => /\ run[r].workspace \in used'
                               /\ disk'[run[r].workspace]
                                    \subseteq FilesIn[run[r].repo]
                               /\ \A s \in Runs : run'[s].workspace
                                                   # run[r].workspace
  <1> USE DEF WorkspaceInv
  <1>r. /\ run'[r] = new
        /\ \A s \in Runs : s # r => run'[s] = run[s]
    BY DEF Moves, TypeOK
  <1>t. /\ exists \subseteq used /\ used \subseteq Workspaces /\ NoPath \notin used
        /\ disk \in [Workspaces -> SUBSET Files]
        /\ \A s \in Runs : run[s].workspace \in used \cup {NoPath}
    BY MarkerAssumption DEF TypeOK, Placed
  <1>1. CASE LeavesAlone(r, new)
    <2>1. \A s \in Runs : run'[s].workspace = run[s].workspace
      BY <1>1, <1>r DEF LeavesAlone
    <2>2. \A s \in Runs : run'[s].workspace # NoPath => run'[s].repo = run[s].repo
      BY <1>1, <1>r DEF LeavesAlone
    <2>3. exists' = exists /\ disk' = disk /\ used' = used /\ orphaned' = orphaned
      BY <1>1 DEF LeavesAlone, diskVars
    <2>4. NoSilentLeak'
      BY <2>1, <2>3 DEF NoSilentLeak
    <2>5. WorkspaceInv'
      BY <2>1, <2>2, <2>3, <2>4
    <2>6. ~CleansUp(r, new)
      BY <1>1, <1>t DEF LeavesAlone, CleansUp
    <2> QED BY <2>1, <2>3, <2>5, <2>6 DEF Released
  <1>2. CASE Creates(r, new)
    <2>1. NoSilentLeak'
      BY <1>2, <1>r, <1>t DEF Creates, NoSilentLeak
    <2>2. \A w \in Workspaces \ used' : disk'[w] = {}
      BY <1>2 DEF Creates
    <2>3. \A s \in Runs : run'[s].workspace # NoPath
                         => disk'[run'[s].workspace] \subseteq FilesIn[run'[s].repo]
      BY <1>2, <1>r DEF Creates
    <2>4. \A s, u \in Runs : s # u /\ run'[s].workspace = run'[u].workspace
                            => run'[s].workspace = NoPath
      BY <1>2, <1>r, <1>t DEF Creates
    <2>5. \A p \in Repos : Released(p) \subseteq Released(p)'
      BY <1>2, <1>r DEF Creates, Released
    <2>6. ~CleansUp(r, new)
      BY <1>2, <1>t DEF Creates, CleansUp
    <2> QED BY <2>1, <2>2, <2>3, <2>4, <2>5, <2>6
  <1>3. CASE Fills(r, new)
    <2>1. \A s \in Runs : run'[s].workspace = run[s].workspace
      BY <1>3, <1>r DEF Fills
    <2>2. NoSilentLeak'
      BY <1>3, <2>1 DEF Fills, NoSilentLeak
    <2>3. \A w \in Workspaces \ used' : disk'[w] = {}
      BY <1>3, <1>t DEF Fills
    <2>4. \A s \in Runs : run'[s].workspace # NoPath
                         => disk'[run'[s].workspace] \subseteq FilesIn[run'[s].repo]
      BY <1>3, <1>r, <1>t, <2>1 DEF Fills
    <2>5. \A p \in Repos : Released(p) \subseteq Released(p)'
      BY <1>3, <1>t, <2>1 DEF Fills, Released
    <2>6. ~CleansUp(r, new)
      BY <1>3, <1>t DEF Fills, CleansUp
    <2>7. WorkspaceInv'
      BY <2>1, <2>2, <2>3, <2>4
    <2> QED BY <2>5, <2>6, <2>7
  <1>4. CASE CleansUp(r, new)
    <2> DEFINE w == run[r].workspace
    <2>1. /\ used' = used /\ orphaned \subseteq orphaned'
          /\ exists' \subseteq exists /\ (w \in exists' => w \in orphaned')
          /\ \A v \in Workspaces : v # w => disk'[v] = disk[v]
          /\ disk'[w] \subseteq disk[w]
      <3>1. CASE /\ exists' = exists \ {w}
                 /\ disk' = [disk EXCEPT ![w] = {}]
                 /\ UNCHANGED <<used, orphaned>>
        BY <1>4, <1>t, <3>1 DEF CleansUp
      <3>2. CASE /\ \E left \in SUBSET disk[w] : disk' = [disk EXCEPT ![w] = left]
                 /\ orphaned' = orphaned \cup {w}
                 /\ UNCHANGED <<exists, used>>
        BY <1>4, <1>t, <3>2 DEF CleansUp
      <3> QED BY <1>4, <3>1, <3>2 DEF CleansUp, CleanupWorkspace
    <2>2. w \in used /\ w # NoPath /\ new.workspace = NoPath
      BY <1>4, <1>t DEF CleansUp
    <2>3. \A s \in Runs : run'[s].workspace # w
      BY <1>r, <2>2
    <2>4. NoSilentLeak'
      BY <1>r, <2>1 DEF NoSilentLeak
    <2>5. \A v \in Workspaces \ used' : disk'[v] = {}
      BY <2>1, <2>2
    <2>6. \A s, u \in Runs : s # u /\ run'[s].workspace = run'[u].workspace
                            => run'[s].workspace = NoPath
      BY <1>r, <2>2
    <2>7. \A s \in Runs : run'[s].workspace # NoPath
                         => disk'[run'[s].workspace] \subseteq FilesIn[run'[s].repo]
      BY <1>r, <1>t, <2>1, <2>2
    <2>8. \A p \in Repos : Released(p) \subseteq Released(p)'
      BY <1>r, <1>t, <2>1, <2>2 DEF Released
    <2>9. disk'[w] \subseteq FilesIn[run[r].repo]
      BY <2>1, <2>2
    <2> QED BY <2>1, <2>2, <2>3, <2>4, <2>5, <2>6, <2>7, <2>8, <2>9
  <1> QED BY <1>1, <1>2, <1>3, <1>4 DEF Moves

\* The process dies: workspaces stay, nobody holds one any more.
LEMMA CrashKeeps ==
  ASSUME WorkspaceInv, TypeOK', Crash
  PROVE  /\ WorkspaceInv'
         /\ \A p \in Repos : Released(p) \subseteq Released(p)'
  <1>1. /\ \A r \in Runs : run'[r].workspace = NoPath
        /\ exists' = exists /\ disk' = disk /\ used' = used
        /\ orphaned' = orphaned \cup ({run[r].workspace : r \in Runs} \ {NoPath})
    BY DEF Crash, IdleRun
  <1>2. NoPath \notin exists /\ NoPath \notin used
    BY MarkerAssumption DEF WorkspaceInv, TypeOK
  <1>3. NoSilentLeak'
    BY <1>1, <1>2 DEF WorkspaceInv, NoSilentLeak
  <1>4. WorkspaceInv'
    BY <1>1, <1>3 DEF WorkspaceInv
  <1> QED BY <1>1, <1>2, <1>4 DEF Released

LEMMA WorkspaceStep == WorkspaceInv /\ [Next]_vars => WorkspaceInv'
  <1> SUFFICES ASSUME WorkspaceInv, [Next]_vars PROVE WorkspaceInv'
    OBVIOUS
  <1>1. TypeOK /\ TypeOK'
    BY TypeStep DEF WorkspaceInv
  <1>2. CASE Crash
    BY <1>1, <1>2, CrashKeeps
  <1>3. CASE \/ \E r \in Runs, p \in Repos, j \in JobIds : Begin(r, p, j)
             \/ \E r \in Runs : Stage(r) \/ Interrupt(r)
    BY <1>1, <1>3, StageMoves, OtherMoves, MovesKeep
  <1>4. CASE UNCHANGED vars
    BY <1>1, <1>4 DEF WorkspaceInv, NoSilentLeak, vars
  <1> QED BY <1>2, <1>3, <1>4 DEF Next

LEMMA WorkspaceInit == Init => WorkspaceInv
  BY TypeInit DEF Init, WorkspaceInv, NoSilentLeak, IdleRun

\* No interleaving of errors, interrupts and calls leaves a workspace on disk
\* that its fetcher is not at work in, unless rmtree failed, the process died,
\* or the interrupt came before the fetcher knew of the directory.
THEOREM NoWorkspaceLeaks == Spec => []NoSilentLeak
  <1>1. WorkspaceInv => NoSilentLeak
    BY DEF WorkspaceInv
  <1> QED BY <1>1, WorkspaceInit, WorkspaceStep, PTL DEF Spec

------------------------------------------------------------------------------
(* Whose files a result holds: the inductive invariant SoundnessInv.        *)

Grows == \A p \in Repos : Released(p) \subseteq Released(p)'

Dirs == [p \in Repos |-> Released(p)]

\* Belongs, of the directories released before or after a step.
Lands(j, work, dirs) ==
    \A p \in Repos : j \in IdsOf[p] =>
        /\ work.parsed \subseteq FilesIn[p]
        /\ work.path \in dirs[p] \cup {NoPath}

LEMMA NoWorkLands == \A j \in JobIds : Lands(j, NoWork, Dirs')
  BY DEF Lands, NoWork

LEMMA BelongsLands ==
  ASSUME Grows, NEW j \in JobIds, NEW work, Belongs(j, work)
  PROVE  Lands(j, work, Dirs')
  BY DEF Grows, Belongs, Lands, Dirs

\* The job and the work of a call that is not idle.
LEMMA CallBelongs ==
  ASSUME SoundnessInv, NEW r \in Runs, run[r].pc # "idle"
  PROVE  /\ run[r].job \in JobIds /\ run[r].repo \in Repos
         /\ run[r].job \in IdsOf[run[r].repo]
         /\ run[r] \in Run /\ run[r].work \in Work /\ run[r].seen \in Work
         /\ Belongs(run[r].job, run[r].seen)
         /\ Belongs(run[r].job, run[r].work)
  BY RunType DEF SoundnessInv, WorkspaceInv

LEMMA SoundnessUpdate ==
  ASSUME SoundnessInv, WorkspaceInv', Grows, NEW r \in Runs, NEW new,
         run' = [run EXCEPT ![r] = new],
         new.pc # "idle" => /\ Lands(new.job, new.seen, Dirs')
                            /\ Lands(new.job, new.work, Dirs'),
         \A j \in JobIds : Saved(j)' = Saved(j) \/ Lands(j, Saved(j)', Dirs')
  PROVE  SoundnessInv'
  <1>1. \A j \in JobIds : Lands(j, Saved(j)', Dirs')
    BY BelongsLands DEF SoundnessInv
  <1>2. \A s \in Runs : run'[s].pc # "idle" => /\ Lands(run'[s].job, run'[s].seen, Dirs')
                                             /\ Lands(run'[s].job, run'[s].work, Dirs')
    <2> SUFFICES ASSUME NEW s \in Runs, run'[s].pc # "idle"
                 PROVE  /\ Lands(run'[s].job, run'[s].seen, Dirs')
                        /\ Lands(run'[s].job, run'[s].work, Dirs')
      OBVIOUS
    <2>1. CASE s = r
      BY <2>1 DEF SoundnessInv, WorkspaceInv, TypeOK
    <2>2. CASE s # r
      <3>1. run'[s] = run[s]
        BY <2>2 DEF SoundnessInv, WorkspaceInv, TypeOK
      <3> QED BY <3>1, CallBelongs, BelongsLands
    <2> QED BY <2>1, <2>2
  <1>3. \A j \in JobIds : Belongs(j, Saved(j))'
    BY <1>1 DEF Lands, Belongs, Dirs
  <1> QED BY <1>2, <1>3 DEF SoundnessInv, Lands, Belongs, Dirs

LEMMA SoundnessStage ==
  ASSUME SoundnessInv, WorkspaceInv', Grows, NEW r \in Runs, run[r].pc # "idle",
         NEW work \in Work, NEW next, Belongs(run[r].job, work),
         \/ \E status \in Status : StageDone(r, status, work, next)
         \/ StageReused(r, work, next)
  PROVE  SoundnessInv'
  <1> DEFINE new == [run[r] EXCEPT !.work = work, !.pc = next]
  <1>1. run[r] \in Run /\ TypeOK
    BY CallBelongs DEF SoundnessInv, WorkspaceInv
  <1>2. run' = [run EXCEPT ![r] = new]
    BY <1>1 DEF StageDone, StageReused, TypeOK, Run
  <1>3. new.job = run[r].job /\ new.seen = run[r].seen /\ new.work = work
    BY <1>1 DEF Run
  <1>4. Lands(new.job, new.seen, Dirs') /\ Lands(new.job, new.work, Dirs')
    BY <1>3, CallBelongs, BelongsLands
  <1>5. \A j \in JobIds : Saved(j)' = Saved(j) \/ Lands(j, Saved(j)', Dirs')
    BY <1>1, CallBelongs, BelongsLands, SavedAfterSave
       DEF StageDone, StageReused, Saved
  <1> HIDE DEF new
  <1> QED BY <1>2, <1>4, <1>5, SoundnessUpdate

LEMMA SoundnessFail ==
  ASSUME SoundnessInv, WorkspaceInv', Grows, NEW r \in Runs, run[r].pc # "idle",
         NEW ending, FailRun(r, ending)
  PROVE  SoundnessInv'
  <1> DEFINE new == [run[r] EXCEPT !.pc = "refuse", !.work = NoWork,
                                   !.seen = NoWork, !.workspace = NoPath]
  <1>1. run[r] \in Run /\ TypeOK
    BY CallBelongs DEF SoundnessInv, WorkspaceInv
  <1>2. run' = [run EXCEPT ![r] = new]
    BY <1>1 DEF FailRun, TypeOK, Run
  <1>3. new.job = run[r].job /\ new.seen = NoWork /\ new.work = NoWork
    BY <1>1 DEF Run
  <1>4. Lands(new.job, new.seen, Dirs') /\ Lands(new.job, new.work, Dirs')
    BY <1>3, CallBelongs, NoWorkLands
  <1>5. \A j \in JobIds : Saved(j)' \in {Saved(j), NoWork}
    BY <1>1, NoWorkType, CallBelongs, SavedAfterSave DEF FailRun, Status
  <1> HIDE DEF new
  <1> QED BY <1>2, <1>4, <1>5, NoWorkLands, SoundnessUpdate

LEMMA SoundnessTail ==
  ASSUME SoundnessInv, WorkspaceInv', Grows, NEW r \in Runs,
         FindCheckpoint(r) \/ DeleteCheckpoint(r) \/ Return(r)
  PROVE  SoundnessInv'
  <1>1. TypeOK
    BY DEF SoundnessInv, WorkspaceInv
  <1>2. PICK new : Tail(r, new)
    BY <1>1, TailMoves
  <1>3. \A j \in JobIds : Saved(j)' \in {Saved(j), NoWork}
    BY <1>1, TailMoves
  <1>4. Lands(new.job, new.seen, Dirs') /\ Lands(new.job, new.work, Dirs')
    BY <1>2, CallBelongs, BelongsLands, NoWorkLands DEF Tail
  <1> QED BY <1>2, <1>3, <1>4, NoWorkLands, SoundnessUpdate DEF Tail

\* A stage that does not touch the path or the parse results.
LEMMA SameSourceBelongs ==
  ASSUME NEW j, NEW old, NEW work, Belongs(j, old),
         work.parsed = old.parsed, work.path = old.path
  PROVE  Belongs(j, work)
  BY DEF Belongs

LEMMA SoundnessStep ==
  ASSUME IdsAreUnique
  PROVE  SoundnessInv /\ [Next]_vars => SoundnessInv'
  <1> SUFFICES ASSUME SoundnessInv, [Next]_vars PROVE SoundnessInv'
    OBVIOUS
  <1>t. TypeOK /\ TypeOK' /\ WorkspaceInv /\ WorkspaceInv'
    BY TypeStep, WorkspaceStep DEF SoundnessInv, WorkspaceInv
  <1>g. ASSUME Next PROVE Grows
    BY <1>t, <1>g, StageMoves, OtherMoves, MovesKeep, CrashKeeps DEF Next, Grows
  <1>1. ASSUME NEW r \in Runs, NEW p \in Repos, NEW j \in JobIds, Begin(r, p, j)
        PROVE  SoundnessInv'
    <2> DEFINE new == [pc |-> "fetch", repo |-> p, job |-> j, seen |-> Saved(j),
                       work |-> NoWork, workspace |-> NoPath]
    <2>1. run' = [run EXCEPT ![r] = new] /\ Grows
      BY <1>1, <1>g DEF Begin, Next
    <2>2. \A k \in JobIds : Saved(k)' = Saved(k)
      BY <1>1 DEF Begin, Saved
    <2>3. new.job = j /\ new.seen = Saved(j) /\ new.work = NoWork
      OBVIOUS
    <2>4. Belongs(j, Saved(j))
      BY DEF SoundnessInv
    <2> HIDE DEF new
    <2>5. Lands(new.job, new.seen, Dirs') /\ Lands(new.job, new.work, Dirs')
      BY <2>1, <2>3, <2>4, BelongsLands, NoWorkLands
    <2> QED BY <1>t, <2>1, <2>2, <2>5, SoundnessUpdate
  <1>2. ASSUME NEW r \in Runs, Interrupt(r) PROVE SoundnessInv'
    <2>1. /\ run' = [run EXCEPT ![r] = IdleRun] /\ IdleRun.pc = "idle" /\ Grows
          /\ \A k \in JobIds : Saved(k)' = Saved(k)
      BY <1>2, <1>g DEF Interrupt, IdleRun, Next, Saved
    <2> QED BY <1>t, <2>1, SoundnessUpdate
  <1>3. ASSUME Crash PROVE SoundnessInv'
    <2>1. /\ \A j \in JobIds : Saved(j)' = NoWork
          /\ \A r \in Runs : run'[r].pc = "idle"
      BY <1>3 DEF Crash, Saved, IdleRun
    <2>2. \A j \in JobIds : Belongs(j, Saved(j))'
      BY <2>1 DEF Belongs, NoWork
    <2> QED BY <1>t, <2>1, <2>2 DEF SoundnessInv
  <1>4. ASSUME NEW r \in Runs, Stage(r) PROVE SoundnessInv'
    <2>g. Grows
      BY <1>4, <1>g DEF Next
    <2>1. run[r].pc \in Active
      BY <1>4 DEF Stage, SkipFetch, CreateWorkspace, CloneSucceeds, LeaveFetcher,
         FetchRefused, CloneFails, Parse, ReuseParse, Analyze, ReuseAnalysis,
         Embed, ReuseEmbeddings, ExtractConventions, ReuseConventions,
         AssignWorkspace, FindCheckpoint, DeleteCheckpoint, DeleteMisses, Return,
         StageFails, Active, Fetching, InFetcher, Returning
    <2>2. /\ run[r].job \in JobIds /\ run[r].repo \in Repos /\ run[r] \in Run
          /\ run[r].job \in IdsOf[run[r].repo] /\ run[r].pc # "idle"
          /\ run[r].work \in Work /\ run[r].seen \in Work
          /\ Belongs(run[r].job, run[r].seen)
          /\ Belongs(run[r].job, run[r].work)
      BY <2>1, CallBelongs DEF Active, Fetching, InFetcher, Returning
    <2>3. CASE CreateWorkspace(r) \/ AssignWorkspace(r) \/ CloneSucceeds(r)
      <3>1. PICK new : /\ run' = [run EXCEPT ![r] = new] /\ new.job = run[r].job
                       /\ new.seen = run[r].seen /\ new.work = run[r].work
        <4>1. CASE AssignWorkspace(r) \/ CloneSucceeds(r)
          <5>0. PICK next : run' = [run EXCEPT ![r].pc = next]
            BY <4>1 DEF AssignWorkspace, CloneSucceeds
          <5> DEFINE new == [run[r] EXCEPT !.pc = next]
          <5>1. run' = [run EXCEPT ![r] = new]
            BY <1>t, <2>2, <5>0 DEF TypeOK, Run
          <5>2. /\ new.job = run[r].job /\ new.seen = run[r].seen
                /\ new.work = run[r].work
            BY <2>2 DEF Run
          <5> HIDE DEF new
          <5> QED BY <5>1, <5>2
        <4>2. CASE CreateWorkspace(r)
          <5>1. PICK w : run' = [run EXCEPT ![r].pc = "made", ![r].workspace = w]
            BY <4>2 DEF CreateWorkspace
          <5> DEFINE new == [run[r] EXCEPT !.pc = "made", !.workspace = w]
          <5>2. run' = [run EXCEPT ![r] = new]
            BY <1>t, <2>2, <5>1 DEF TypeOK, Run
          <5>3. /\ new.job = run[r].job /\ new.seen = run[r].seen
                /\ new.work = run[r].work
            BY <2>2 DEF Run
          <5> HIDE DEF new
          <5> QED BY <5>2, <5>3
        <4> QED BY <2>3, <4>1, <4>2
      <3>2. \A k \in JobIds : Saved(k)' = Saved(k)
        BY <2>3 DEF CreateWorkspace, AssignWorkspace, CloneSucceeds, Saved
      <3>3. Lands(new.job, new.seen, Dirs') /\ Lands(new.job, new.work, Dirs')
        BY <2>g, <2>2, <3>1, BelongsLands
      <3> QED BY <1>t, <2>g, <3>1, <3>2, <3>3, SoundnessUpdate
    <2>4. CASE LeaveFetcher(r)
      <3> DEFINE w == run[r].workspace
                 work == [NoWork EXCEPT !.path = w]
                 new == [run[r] EXCEPT !.pc = "parse", !.work = work,
                                       !.workspace = NoPath]
      <3>1. run' = [run EXCEPT ![r] = new] /\ new.workspace = NoPath
        BY <1>t, <2>2, <2>4 DEF LeaveFetcher, TypeOK, Run
      <3>2. w \in used /\ used \subseteq Workspaces
        BY <1>t, <2>4, RunType DEF LeaveFetcher, InFetcher, TypeOK
      <3>3. Moves(r, new) /\ CleansUp(r, new)
        BY <2>4, <3>1, <3>2 DEF LeaveFetcher, Moves, CleansUp
      <3>4. new.job = run[r].job /\ new.seen = run[r].seen /\ new.work = work
        BY <2>2 DEF Run
      <3>5. work \in Work /\ work.path = w /\ work.parsed = {}
        BY <3>2 DEF Work, NoWork
      <3> HIDE DEF new, work
      <3>6. w \in Dirs'[run[r].repo]
        <4>1. /\ w \in used' /\ disk'[w] \subseteq FilesIn[run[r].repo]
              /\ \A s \in Runs : run'[s].workspace # w
          BY <1>t, <3>3, MovesKeep
        <4>2. \A q \in Repos, d \in used' :
                 /\ disk'[d] \subseteq FilesIn[q]
                 /\ \A s \in Runs : run'[s].workspace # d
                 => d \in Dirs'[q]
          BY DEF Dirs, Released
        <4> QED BY <2>2, <4>1, <4>2
      <3>7. Lands(run[r].job, work, Dirs')
        <4>1. \A p \in Repos : run[r].job \in IdsOf[p] => p = run[r].repo
          BY <2>2 DEF IdsAreUnique
        <4> QED BY <3>5, <3>6, <4>1 DEF Lands
      <3>8. Lands(new.job, new.seen, Dirs') /\ Lands(new.job, new.work, Dirs')
        BY <2>g, <2>2, <3>4, <3>7, BelongsLands
      <3>9. \A k \in JobIds : Saved(k)' = Saved(k) \/ Lands(k, Saved(k)', Dirs')
        BY <1>t, <2>2, <2>4, <3>5, <3>7, SavedAfterSave
           DEF LeaveFetcher, Status, work
      <3> QED BY <1>t, <2>g, <3>1, <3>8, <3>9, SoundnessUpdate
    <2>5. CASE FetchRefused(r) \/ CloneFails(r) \/ StageFails(r) \/ DeleteMisses(r)
      BY <1>t, <2>g, <2>2, <2>5, SoundnessFail
         DEF FetchRefused, CloneFails, StageFails, DeleteMisses
    <2>6. CASE FindCheckpoint(r) \/ DeleteCheckpoint(r) \/ Return(r)
      BY <1>t, <2>g, <2>6, SoundnessTail
    <2>7. CASE SkipFetch(r)
      <3> DEFINE work == [run[r].work EXCEPT !.path = run[r].seen.path]
      <3>1. work \in Work /\ Belongs(run[r].job, work)
        BY <2>2 DEF Work, Belongs
      <3>2. StageReused(r, work, "parse")
        BY <2>7 DEF SkipFetch
      <3> HIDE DEF work
      <3> QED BY <1>t, <2>g, <2>2, <3>1, <3>2, SoundnessStage
    <2>8. CASE Parse(r)
      <3>1. PICK bad \in SUBSET FlakyFiles :
              StageDone(r, "parsing",
                        [run[r].work EXCEPT !.parsed = disk[run[r].work.path] \ bad],
                        "analyze")
        BY <2>8 DEF Parse
      <3> DEFINE work == [run[r].work EXCEPT !.parsed = disk[run[r].work.path] \ bad]
      <3>2. run[r].work.path \in Workspaces /\ run[r].work.path # NoPath
        BY <1>t, <2>8, RunType, MarkerAssumption DEF Parse, Active, Fetching, InFetcher, Returning
      <3>3. work \in Work
        BY <1>t, <2>2, <3>2 DEF Work, TypeOK
      <3>4. Belongs(run[r].job, work)
        BY <2>2, <3>2 DEF Belongs, Work, Released
      <3>5. StageDone(r, "parsing", work, "analyze") /\ "parsing" \in Status
        BY <3>1 DEF Status
      <3> HIDE DEF work
      <3> QED BY <1>t, <2>g, <2>2, <3>3, <3>4, <3>5, SoundnessStage
    <2>9. CASE ReuseParse(r)
      <3> DEFINE work == [run[r].work EXCEPT !.parsed = run[r].seen.parsed]
      <3>1. work \in Work /\ Belongs(run[r].job, work)
        BY <2>2 DEF Work, Belongs
      <3>2. StageReused(r, work, "analyze")
        BY <2>9 DEF ReuseParse
      <3> HIDE DEF work
      <3> QED BY <1>t, <2>g, <2>2, <3>1, <3>2, SoundnessStage
    <2>10. CASE Analyze(r)
      <3> DEFINE work == [run[r].work EXCEPT !.analysis = {run[r].work.parsed}]
      <3>1. work \in Work /\ Belongs(run[r].job, work)
        BY <2>2, SameSourceBelongs DEF Work
      <3>2. StageDone(r, "analyzing", work, "embed") /\ "analyzing" \in Status
        BY <2>10 DEF Analyze, Status
      <3> HIDE DEF work
      <3> QED BY <1>t, <2>g, <2>2, <3>1, <3>2, SoundnessStage
    <2>11. CASE ReuseAnalysis(r)
      <3> DEFINE work == [run[r].work EXCEPT !.analysis = run[r].seen.analysis]
      <3>1. work \in Work /\ Belongs(run[r].job, work)
        BY <2>2, SameSourceBelongs DEF Work
      <3>2. StageReused(r, work, "embed")
        BY <2>11 DEF ReuseAnalysis
      <3> HIDE DEF work
      <3> QED BY <1>t, <2>g, <2>2, <3>1, <3>2, SoundnessStage
    <2>12. CASE Embed(r)
      <3> DEFINE work == [run[r].work EXCEPT !.embeddings = run[r].work.parsed \cap WithSymbols]
      <3>1. work \in Work /\ Belongs(run[r].job, work)
        BY <2>2, SameSourceBelongs DEF Work
      <3>2. StageDone(r, "embedding", work, "learn") /\ "embedding" \in Status
        BY <2>12 DEF Embed, Status
      <3> HIDE DEF work
      <3> QED BY <1>t, <2>g, <2>2, <3>1, <3>2, SoundnessStage
    <2>13. CASE ReuseEmbeddings(r)
      <3> DEFINE work == [run[r].work EXCEPT !.embeddings = run[r].seen.embeddings]
      <3>1. work \in Work /\ Belongs(run[r].job, work)
        BY <2>2, SameSourceBelongs DEF Work
      <3>2. StageReused(r, work, "learn")
        BY <2>13 DEF ReuseEmbeddings
      <3> HIDE DEF work
      <3> QED BY <1>t, <2>g, <2>2, <3>1, <3>2, SoundnessStage
    <2>14. CASE ExtractConventions(r)
      <3> DEFINE work == [run[r].work EXCEPT !.conventions = run[r].work.parsed \cap WithSymbols]
      <3>1. work \in Work /\ Belongs(run[r].job, work)
        BY <2>2, SameSourceBelongs DEF Work
      <3>2. StageDone(r, "extracting_conventions", work, "store") /\ "extracting_conventions" \in Status
        BY <2>14 DEF ExtractConventions, Status
      <3> HIDE DEF work
      <3> QED BY <1>t, <2>g, <2>2, <3>1, <3>2, SoundnessStage
    <2>15. CASE ReuseConventions(r)
      <3> DEFINE work == [run[r].work EXCEPT !.conventions = run[r].seen.conventions]
      <3>1. work \in Work /\ Belongs(run[r].job, work)
        BY <2>2, SameSourceBelongs DEF Work
      <3>2. StageReused(r, work, "store")
        BY <2>15 DEF ReuseConventions
      <3> HIDE DEF work
      <3> QED BY <1>t, <2>g, <2>2, <3>1, <3>2, SoundnessStage
    <2> QED
      BY <1>4, <2>3, <2>4, <2>5, <2>6, <2>7, <2>8, <2>9, <2>10, <2>11, <2>12,
         <2>13, <2>14, <2>15 DEF Stage
  <1>5. CASE UNCHANGED vars
    BY <1>t, <1>5 DEF SoundnessInv, Belongs, Released, Saved, vars
  <1> QED BY <1>1, <1>2, <1>3, <1>4, <1>5 DEF Next

LEMMA InitSound == Init => SoundnessInv
  <1> SUFFICES ASSUME Init PROVE SoundnessInv
    OBVIOUS
  <1>1. \A j \in JobIds : Saved(j) = NoWork
    BY DEF Init, Saved
  <1>2. \A j \in JobIds : Belongs(j, NoWork)
    BY DEF Belongs, NoWork
  <1> QED BY <1>1, <1>2, WorkspaceInit DEF Init, IdleRun, SoundnessInv

\* A result holds files of the repository it was asked for only, provided no
\* two repositories are given the same job id: what a call takes from a
\* checkpoint, and the path it parses, were left by a call for the same
\* repository.
THEOREM ResultsSound ==
  ASSUME IdsAreUnique
  PROVE  Spec => []ResultMatchesRepo
  <1>1. SoundnessInv => ResultMatchesRepo
    <2> SUFFICES ASSUME SoundnessInv, NEW r \in Runs, run[r].pc = "completed"
                 PROVE  run[r].work.parsed \subseteq FilesIn[run[r].repo]
      BY DEF ResultMatchesRepo
    <2> QED BY CallBelongs DEF Belongs
  <1> QED BY <1>1, InitSound, SoundnessStep, PTL DEF Spec

------------------------------------------------------------------------------
(* The contract.                                                            *)

\* What a caller sees of a call, as a function of the call's record.
Seen(x) ==
    [phase  |-> IF x.pc \in Active THEN "running" ELSE x.pc,
     repo   |-> x.repo,
     result |-> LET work == IF x.pc = "completed" THEN x.work ELSE NoWork IN
                [parsed |-> work.parsed, embeddings |-> work.embeddings,
                 conventions |-> work.conventions]]

LEMMA CallsSeen == calls = [r \in Runs |-> Seen(run[r])]
  BY DEF calls, CallOf, Seen

LEMMA SeenIdle == Seen(IdleRun) = Contract!NoCall
  BY DEF Seen, IdleRun, NoWork, Active, Fetching, InFetcher, Returning, Contract!NoCall,
         Contract!NoResult, Contract!SoundResult

\* A step of one call changes what is seen of that call only.
LEMMA OneSeen ==
  ASSUME run \in [Runs -> Run], NEW r \in Runs, NEW new,
         run' = [run EXCEPT ![r] = new]
  PROVE  calls' = [calls EXCEPT ![r] = Seen(new)]
  <1>1. \A s \in Runs : run'[s] = IF s = r THEN new ELSE run[s]
    OBVIOUS
  <1>2. calls' = [s \in Runs |-> Seen(run'[s])]
    BY DEF calls, CallOf, Seen
  <1>3. calls = [s \in Runs |-> Seen(run[s])]
    BY CallsSeen
  <1>4. [calls EXCEPT ![r] = Seen(new)]
          = [s \in Runs |-> IF s = r THEN Seen(new) ELSE Seen(run[s])]
    BY <1>3
  <1>5. \A s \in Runs : Seen(run'[s]) = IF s = r THEN Seen(new) ELSE Seen(run[s])
    BY <1>1
  <1> QED BY <1>2, <1>4, <1>5

\* What can be seen of a call that is in progress, and of one that ended.
LEMMA SeenRunning ==
  ASSUME NEW x, x.pc \in Active
  PROVE  Seen(x) = [phase |-> "running", repo |-> x.repo, result |-> Contract!NoResult]
  BY DEF Seen, NoWork, Active, Fetching, InFetcher, Returning,
         Contract!NoResult, Contract!SoundResult

LEMMA SeenFailed ==
  ASSUME NEW x, x.pc = "failed"
  PROVE  Seen(x) = [phase |-> "failed", repo |-> x.repo, result |-> Contract!NoResult]
  BY DEF Seen, NoWork, Active, Fetching, InFetcher, Returning,
         Contract!NoResult, Contract!SoundResult

\* A stage that does not end the call is invisible.
LEMMA InvisibleStage ==
  ASSUME TypeOK, NEW r \in Runs, run[r].pc \in Active,
         NEW new, run' = [run EXCEPT ![r] = new],
         new.pc \in Active, new.repo = run[r].repo
  PROVE  UNCHANGED calls
  <1>1. calls' = [calls EXCEPT ![r] = Seen(new)] /\ calls = [s \in Runs |-> Seen(run[s])]
    BY OneSeen, CallsSeen DEF TypeOK
  <1>2. Seen(new) = Seen(run[r])
    BY SeenRunning
  <1> QED BY <1>1, <1>2

\* A failure becomes visible when the call returns.
LEMMA FailSeen ==
  ASSUME TypeOK, NEW r \in Runs, run[r].pc # "idle", NEW ending, FailRun(r, ending),
         run[r].pc \in Active
  PROVE  UNCHANGED calls
  <1> DEFINE new == [run[r] EXCEPT !.pc = "refuse", !.work = NoWork,
                                   !.seen = NoWork, !.workspace = NoPath]
  <1>1. run[r] \in Run /\ run \in [Runs -> Run]
    BY DEF TypeOK
  <1>2. /\ run' = [run EXCEPT ![r] = new]
        /\ new.pc = "refuse" /\ new.repo = run[r].repo
    BY <1>1 DEF FailRun, Run
  <1> HIDE DEF new
  <1> QED BY <1>2, InvisibleStage DEF Active, Returning

LEMMA RefuseSeen ==
  ASSUME TypeOK, NEW r \in Runs, NEW new, Tail(r, new), new.pc = "failed"
  PROVE  Contract!GiveUp(r)
  <1>1. run \in [Runs -> Run]
    BY DEF TypeOK
  <1>2. /\ run' = [run EXCEPT ![r] = new] /\ run[r].pc \in Active
        /\ new.pc = "failed" /\ new.repo = run[r].repo
    BY DEF Tail, Active, Returning
  <1>3. calls' = [calls EXCEPT ![r] = Seen(new)] /\ calls = [s \in Runs |-> Seen(run[s])]
    BY <1>1, <1>2, OneSeen, CallsSeen
  <1>4. /\ Seen(run[r]) = [phase |-> "running", repo |-> run[r].repo,
                           result |-> Contract!NoResult]
        /\ Seen(new) = [phase |-> "failed", repo |-> run[r].repo,
                        result |-> Contract!NoResult]
    BY <1>2, SeenRunning, SeenFailed
  <1>5. calls[r].phase = "running" /\ Seen(new) = [calls[r] EXCEPT !.phase = "failed"]
    BY <1>3, <1>4
  <1>6. calls' = [calls EXCEPT ![r].phase = "failed"]
    BY <1>3, <1>5
  <1> QED BY <1>5, <1>6 DEF Contract!GiveUp

LEMMA CompleteSeen ==
  ASSUME CoherenceInv, SoundnessInv, NEW r \in Runs, NEW new, Tail(r, new),
         new.pc = "completed"
  PROVE  Contract!Succeed(r)
  <1> DEFINE res == [parsed |-> run[r].work.parsed,
                     embeddings |-> run[r].work.embeddings,
                     conventions |-> run[r].work.conventions]
  <1>1. run[r] \in Run /\ run \in [Runs -> Run] /\ run[r].pc = "return"
    BY DEF SoundnessInv, WorkspaceInv, TypeOK, Tail
  <1>2. /\ run' = [run EXCEPT ![r] = new]
        /\ new.pc = "completed" /\ new.repo = run[r].repo /\ new.work = run[r].work
    BY DEF Tail
  <1>3. run[r].work \in Work /\ run[r].repo \in Repos
        /\ run[r].work.parsed \subseteq FilesIn[run[r].repo]
    BY <1>1, CallBelongs DEF Belongs
  <1>4. /\ run[r].work.embeddings = run[r].work.parsed \cap WithSymbols
        /\ run[r].work.conventions = run[r].work.parsed \cap WithSymbols
    <2>1. InStep(run[r])
      BY DEF CoherenceInv
    <2>2. run[r].work.embeddings = run[r].work.parsed \cap WithSymbols
      BY <1>1, <2>1 DEF InStep, Finished
    <2>3. run[r].work.conventions = run[r].work.parsed \cap WithSymbols
      BY <1>1, <2>1 DEF InStep, Finished
    <2> QED BY <2>2, <2>3
  <1>5. /\ run[r].work.parsed \in SUBSET FilesIn[run[r].repo]
        /\ res = Contract!SoundResult(run[r].work.parsed)
    BY <1>3, <1>4 DEF Contract!SoundResult
  <1>6. Seen(run[r]) = [phase |-> "running", repo |-> run[r].repo,
                        result |-> Contract!NoResult]
    BY <1>1, SeenRunning DEF Active, Returning
  <1>7. Seen(new) = [phase |-> "completed", repo |-> run[r].repo, result |-> res]
    BY <1>2 DEF Seen, Active, Fetching, InFetcher, Returning
  <1> HIDE DEF res
  <1>8. calls' = [calls EXCEPT ![r] = Seen(new)] /\ calls = [s \in Runs |-> Seen(run[s])]
    BY <1>1, <1>2, OneSeen, CallsSeen
  <1>a. calls[r] = [phase |-> "running", repo |-> run[r].repo,
                    result |-> Contract!NoResult]
    BY <1>6, <1>8
  <1>b. Seen(new) = [calls[r] EXCEPT !.phase = "completed", !.result = res]
    <2> DEFINE mid == [calls[r] EXCEPT !.phase = "completed"]
    <2>1. mid = [phase |-> "completed", repo |-> run[r].repo,
                 result |-> Contract!NoResult]
      BY <1>a
    <2> HIDE DEF mid
    <2>2. [mid EXCEPT !.result = res]
            = [phase |-> "completed", repo |-> run[r].repo, result |-> res]
      BY <2>1
    <2> QED BY <1>7, <2>2 DEF mid
  <1>9. /\ calls[r].phase = "running" /\ calls[r].repo = run[r].repo
        /\ Seen(new) = [calls[r] EXCEPT !.phase = "completed", !.result = res]
    BY <1>a, <1>b
  <1>10. calls' = [calls EXCEPT ![r].phase = "completed", ![r].result = res]
    BY <1>8, <1>9
  <1> QED BY <1>5, <1>9, <1>10 DEF Contract!Succeed

LEMMA StageSeen ==
  ASSUME CoherenceInv, SoundnessInv, NEW r \in Runs, Stage(r)
  PROVE  Contract!Succeed(r) \/ Contract!GiveUp(r) \/ UNCHANGED calls
  <1>1. TypeOK /\ run[r] \in Run /\ run \in [Runs -> Run]
    BY DEF SoundnessInv, WorkspaceInv, TypeOK
  <1>2. CASE FindCheckpoint(r) \/ DeleteCheckpoint(r) \/ Return(r)
    <2>1. PICK new : Tail(r, new)
      BY <1>1, <1>2, TailMoves
    <2>2. CASE new.pc \in {"delete", "return"}
      <3>1. /\ run' = [run EXCEPT ![r] = new] /\ run[r].pc \in Active
            /\ new.pc \in Active /\ new.repo = run[r].repo
        BY <2>1, <2>2 DEF Tail, Active, Returning
      <3> QED BY <1>1, <3>1, InvisibleStage
    <2>3. CASE new.pc = "completed"
      BY <2>1, <2>3, CompleteSeen
    <2>4. CASE new.pc = "failed"
      BY <1>1, <2>1, <2>4, RefuseSeen
    <2> QED BY <2>1, <2>2, <2>3, <2>4 DEF Tail
  <1>3. CASE FetchRefused(r) \/ CloneFails(r) \/ StageFails(r) \/ DeleteMisses(r)
    <2>1. run[r].pc \in Active /\ run[r].pc # "idle"
      BY <1>3 DEF FetchRefused, CloneFails, StageFails, DeleteMisses, Active, Fetching,
         InFetcher
    <2> QED
      BY <1>1, <1>3, <2>1, FailSeen DEF FetchRefused, CloneFails, StageFails, DeleteMisses
  <1>a. CASE AssignWorkspace(r)
    <2> DEFINE new == [run[r] EXCEPT !.pc = "clone"]
    <2>1. run' = [run EXCEPT ![r] = new] /\ new.pc = "clone" /\ new.repo = run[r].repo
      BY <1>1, <1>a DEF AssignWorkspace, Run
    <2> HIDE DEF new
    <2> QED BY <1>1, <1>a, <2>1, InvisibleStage DEF AssignWorkspace, Active, Fetching, InFetcher
  <1>4. CASE CreateWorkspace(r)
    <2>1. PICK w : run' = [run EXCEPT ![r].pc = "made", ![r].workspace = w]
      BY <1>4 DEF CreateWorkspace
    <2> DEFINE new == [run[r] EXCEPT !.pc = "made", !.workspace = w]
    <2>2. run' = [run EXCEPT ![r] = new] /\ new.pc = "made" /\ new.repo = run[r].repo
      BY <1>1, <2>1 DEF Run
    <2> HIDE DEF new
    <2> QED BY <1>1, <1>4, <2>2, InvisibleStage DEF CreateWorkspace, Active, Fetching, InFetcher, Returning
  <1>5. CASE CloneSucceeds(r)
    <2> DEFINE new == [run[r] EXCEPT !.pc = "cloned"]
    <2>1. run' = [run EXCEPT ![r] = new] /\ new.pc = "cloned" /\ new.repo = run[r].repo
      BY <1>1, <1>5 DEF CloneSucceeds, Run
    <2> HIDE DEF new
    <2> QED BY <1>1, <1>5, <2>1, InvisibleStage DEF CloneSucceeds, Active, Fetching, InFetcher, Returning
  <1>6. CASE LeaveFetcher(r)
    <2> DEFINE new == [run[r] EXCEPT !.pc = "parse", !.workspace = NoPath,
                         !.work = [NoWork EXCEPT !.path = run[r].workspace]]
    <2>1. run' = [run EXCEPT ![r] = new] /\ new.pc = "parse" /\ new.repo = run[r].repo
      BY <1>1, <1>6 DEF LeaveFetcher, Run
    <2> HIDE DEF new
    <2> QED BY <1>1, <1>6, <2>1, InvisibleStage DEF LeaveFetcher, Active, Fetching, InFetcher, Returning
  <1>7. ASSUME NEW work, NEW next, next \in Active, run[r].pc \in Active,
               \/ \E status : StageDone(r, status, work, next)
               \/ StageReused(r, work, next)
        PROVE  UNCHANGED calls
    <2> DEFINE new == [run[r] EXCEPT !.work = work, !.pc = next]
    <2>1. run' = [run EXCEPT ![r] = new] /\ new.pc = next /\ new.repo = run[r].repo
      BY <1>1, <1>7 DEF StageDone, StageReused, Run
    <2> HIDE DEF new
    <2> QED BY <1>1, <1>7, <2>1, InvisibleStage
  <1>8. CASE \/ SkipFetch(r) \/ ReuseParse(r) \/ ReuseAnalysis(r)
             \/ ReuseEmbeddings(r) \/ ReuseConventions(r)
    BY <1>7, <1>8 DEF SkipFetch, ReuseParse, ReuseAnalysis, ReuseEmbeddings,
       ReuseConventions, Active, Fetching, InFetcher, Returning
  <1>9. CASE Analyze(r) \/ Embed(r) \/ ExtractConventions(r)
    BY <1>7, <1>9 DEF Analyze, Embed, ExtractConventions, Active, Fetching, InFetcher, Returning
  <1>10. CASE Parse(r)
    <2>1. PICK bad \in SUBSET FlakyFiles :
            StageDone(r, "parsing",
                      [run[r].work EXCEPT !.parsed = disk[run[r].work.path] \ bad],
                      "analyze")
      BY <1>10 DEF Parse
    <2> QED BY <1>7, <1>10, <2>1 DEF Parse, Active, Fetching, InFetcher, Returning
  <1> QED
    BY <1>2, <1>3, <1>4, <1>5, <1>6, <1>8, <1>9, <1>10, <1>a DEF Stage

LEMMA ContractStep ==
  ASSUME CoherenceInv, SoundnessInv, [Next]_vars
  PROVE  [Contract!Next]_calls
  <1>1. TypeOK /\ run \in [Runs -> Run]
    BY DEF SoundnessInv, WorkspaceInv, TypeOK
  <1>2. ASSUME NEW r \in Runs, Stage(r) PROVE [Contract!Next]_calls
    BY <1>2, StageSeen DEF Contract!Next
  <1>3. ASSUME NEW r \in Runs, NEW p \in Repos, NEW j \in JobIds, Begin(r, p, j)
        PROVE  Contract!Next
    <2> DEFINE new == [pc |-> "fetch", repo |-> p, job |-> j, seen |-> Saved(j),
                       work |-> NoWork, workspace |-> NoPath]
    <2>1. run' = [run EXCEPT ![r] = new] /\ run[r].pc \in Ended
      BY <1>3 DEF Begin
    <2>2. new.pc \in Active /\ new.repo = p
      BY DEF Active, Fetching, InFetcher, Returning
    <2> HIDE DEF new
    <2>3. calls' = [calls EXCEPT ![r] = Seen(new)]
          /\ calls = [s \in Runs |-> Seen(run[s])]
      BY <1>1, <2>1, OneSeen, CallsSeen
    <2>4. Seen(run[r]).phase # "running"
      BY <2>1 DEF Seen, Ended, Active, Fetching, InFetcher, Returning
    <2>5. Contract!Accept(r, p)
      BY <2>2, <2>3, <2>4, SeenRunning DEF Contract!Accept
    <2> QED BY <2>5 DEF Contract!Next
  <1>4. ASSUME NEW r \in Runs, Interrupt(r) PROVE Contract!Next
    <2>1. run' = [run EXCEPT ![r] = IdleRun]
      BY <1>4 DEF Interrupt
    <2>2. calls' = [calls EXCEPT ![r] = Contract!NoCall]
          /\ calls = [s \in Runs |-> Seen(run[s])]
      BY <1>1, <2>1, OneSeen, CallsSeen, SeenIdle
    <2>3. calls' = [s \in Runs |-> IF s \in {r} THEN Contract!NoCall ELSE calls[s]]
      BY <2>2
    <2>4. Contract!BreakOff({r})
      BY <2>3 DEF Contract!BreakOff
    <2> QED BY <2>4 DEF Contract!Next
  <1>5. CASE Crash
    <2>1. calls' = [r \in Runs |-> Seen(run'[r])]
      BY DEF calls, CallOf, Seen
    <2>2. \A r \in Runs : Seen(run'[r]) = Contract!NoCall
      BY <1>5, SeenIdle DEF Crash
    <2>3. calls' = [r \in Runs |-> Contract!NoCall]
      BY <2>1, <2>2
    <2>4. calls' = [r \in Runs |-> IF r \in Runs THEN Contract!NoCall ELSE calls[r]]
      BY <2>3
    <2>5. Contract!BreakOff(Runs)
      BY <2>4 DEF Contract!BreakOff
    <2> QED BY <2>5 DEF Contract!Next
  <1>6. CASE UNCHANGED vars
    BY <1>6 DEF vars, calls, CallOf
  <1> QED BY <1>2, <1>3, <1>4, <1>5, <1>6 DEF Next

\* Stages, checkpoints, workspaces, and the other calls on the same orchestrator
\* are invisible to the caller of ingest_repository: it gets a result computed
\* from its own repository and consistent in itself, or a failure.
THEOREM Implements ==
  ASSUME IdsAreUnique
  PROVE  Spec => ImplementsContract
  <1>1. Init => Contract!Init
    BY SeenIdle, CallsSeen DEF Init, Contract!Init
  <1>2. Init => CoherenceInv /\ SoundnessInv
    BY InitCoherent, InitSound
  <1>3. CoherenceInv /\ SoundnessInv /\ [Next]_vars
          => CoherenceInv' /\ SoundnessInv' /\ [Contract!Next]_calls
    BY CoherenceStep, SoundnessStep, ContractStep
  <1> QED BY <1>1, <1>2, <1>3, PTL DEF Spec, ImplementsContract, Contract!Spec

------------------------------------------------------------------------------
(* What is left of a checkpoint: the inductive invariant LeftoverInv.       *)

\* The places from which a call, unless it is broken off or fails, goes on to
\* look for the checkpoint of its job and deletes it.
Bearing == {"parse", "analyze", "embed", "learn", "store", "delete"}

\* A checkpoint has its cause: an error, an interrupt, or a call that will
\* still come to it.
Explained(j) ==
    checkpoints[j] # NoCheckpoint =>
        IF checkpoints[j].status = "failed"
        THEN unfinished[j] \cap {"failed", "beaten"} # {}
        ELSE \/ "interrupted" \in unfinished[j]
             \/ \E r \in Runs : run[r].pc \in Bearing /\ run[r].job = j

LeftoverInv == \A j \in JobIds : Explained(j)

\* A step that leaves the checkpoint of a job alone leaves its cause, unless
\* it takes the call away that would have deleted it.
LEMMA CauseStays ==
  ASSUME TypeOK, NEW k \in JobIds, Explained(k), NEW r \in Runs, NEW new,
         run' = [run EXCEPT ![r] = new],
         checkpoints'[k] = checkpoints[k], unfinished[k] \subseteq unfinished'[k],
         run[r].pc \in Bearing /\ run[r].job = k =>
            \/ new.pc \in Bearing /\ new.job = k
            \/ "interrupted" \in unfinished'[k]
            \/ checkpoints[k] = NoCheckpoint
  PROVE  Explained(k)'
  <1>1. run'[r] = new /\ \A s \in Runs : s # r => run'[s] = run[s]
    BY DEF TypeOK
  <1>2. (\E s \in Runs : run[s].pc \in Bearing /\ run[s].job = k)
           => \/ \E s \in Runs : run'[s].pc \in Bearing /\ run'[s].job = k
              \/ "interrupted" \in unfinished'[k]
              \/ checkpoints[k] = NoCheckpoint
    BY <1>1
  <1> QED BY <1>2 DEF Explained

\* A stage that saves for its job is on its way to the deletion.
LEMMA CauseOfSave ==
  ASSUME TypeOK, LeftoverInv, NEW r \in Runs, run[r].pc # "idle", NEW new,
         run' = [run EXCEPT ![r] = new], new.pc \in Bearing, new.job = run[r].job,
         NEW status \in Status \ {"failed"}, NEW work,
         \/ SaveCheckpoint(run[r].job, status, work)
         \/ checkpoints' = checkpoints,
         unfinished' = unfinished
  PROVE  LeftoverInv'
  <1> SUFFICES ASSUME NEW k \in JobIds PROVE Explained(k)'
    BY DEF LeftoverInv
  <1>1. run[r].job \in JobIds /\ run'[r] = new
    BY RunType DEF TypeOK
  <1>2. CASE checkpoints'[k] = checkpoints[k]
    BY <1>2, CauseStays DEF LeftoverInv
  <1>3. CASE checkpoints'[k] # checkpoints[k]
    <2>1. k = run[r].job /\ checkpoints'[k].status = status
      BY <1>1, <1>3 DEF SaveCheckpoint, TypeOK
    <2> QED BY <1>1, <2>1 DEF Explained
  <1> QED BY <1>2, <1>3

\* A failure leaves an error behind, and is recorded.
LEMMA CauseOfFailure ==
  ASSUME TypeOK, LeftoverInv, NEW r \in Runs, run[r].pc # "idle",
         NEW ending \in {"failed", "beaten"}, FailRun(r, ending)
  PROVE  LeftoverInv'
  <1> SUFFICES ASSUME NEW k \in JobIds PROVE Explained(k)'
    BY DEF LeftoverInv
  <1> DEFINE new == [run[r] EXCEPT !.pc = "refuse", !.work = NoWork,
                                   !.seen = NoWork, !.workspace = NoPath]
  <1>1. run' = [run EXCEPT ![r] = new] /\ run[r].job \in JobIds
    BY RunType DEF FailRun, TypeOK, Run
  <1> HIDE DEF new
  <1>2. CASE k = run[r].job
    <2>1. checkpoints'[k].status = "failed" /\ ending \in unfinished'[k]
      BY <1>1, <1>2 DEF FailRun, Unfinished, SaveCheckpoint, TypeOK
    <2> QED BY <2>1 DEF Explained
  <1>3. CASE k # run[r].job
    <2>1. checkpoints'[k] = checkpoints[k] /\ unfinished'[k] = unfinished[k]
      BY <1>1, <1>3 DEF FailRun, Unfinished, SaveCheckpoint, TypeOK
    <2> QED BY <1>1, <1>3, <2>1, CauseStays DEF LeftoverInv
  <1> QED BY <1>2, <1>3

\* What a call does before it has a path, and at its end.
LEMMA CauseOfRest ==
  ASSUME TypeOK, LeftoverInv, NEW r \in Runs, NEW new,
         run' = [run EXCEPT ![r] = new], run[r].pc \notin Bearing,
         UNCHANGED <<checkpoints, unfinished>>
  PROVE  LeftoverInv'
  BY CauseStays DEF LeftoverInv

LEMMA LeftoverStep == TypeOK /\ LeftoverInv /\ [Next]_vars => LeftoverInv'
  <1> SUFFICES ASSUME TypeOK, LeftoverInv, [Next]_vars PROVE LeftoverInv'
    OBVIOUS
  <1>1. ASSUME NEW r \in Runs,
               FetchRefused(r) \/ CloneFails(r) \/ StageFails(r) \/ DeleteMisses(r)
        PROVE  LeftoverInv'
    BY <1>1, CauseOfFailure DEF FetchRefused, CloneFails, StageFails, DeleteMisses
  <1>2. ASSUME NEW r \in Runs, NEW p \in Repos, NEW j \in JobIds, Begin(r, p, j)
        PROVE  LeftoverInv'
    <2>1. run[r].pc \notin Bearing
      BY <1>2 DEF Begin, Ended, Bearing
    <2> QED BY <1>2, <2>1, CauseOfRest DEF Begin
  <1>3. ASSUME NEW r \in Runs,
               CreateWorkspace(r) \/ AssignWorkspace(r) \/ CloneSucceeds(r) \/ Return(r)
        PROVE  LeftoverInv'
    <2>1. /\ run[r].pc \notin Bearing /\ run[r].pc # "idle"
          /\ UNCHANGED <<checkpoints, unfinished>>
      BY <1>3 DEF CreateWorkspace, AssignWorkspace, CloneSucceeds, Return, Returning,
         Bearing
    <2>2. PICK new : run' = [run EXCEPT ![r] = new]
      <3>1. Stage(r)
        BY <1>3 DEF Stage
      <3> QED BY <3>1, StageMoves DEF Moves
    <2> QED BY <2>1, <2>2, CauseOfRest
  <1>4. ASSUME NEW r \in Runs, LeaveFetcher(r) PROVE LeftoverInv'
    <2> DEFINE work == [NoWork EXCEPT !.path = run[r].workspace]
               new == [run[r] EXCEPT !.pc = "parse", !.work = work,
                                     !.workspace = NoPath]
    <2>1. /\ run' = [run EXCEPT ![r] = new] /\ new.pc = "parse"
          /\ new.job = run[r].job /\ SaveCheckpoint(run[r].job, "fetching", work)
      BY <1>4 DEF LeaveFetcher, TypeOK, Run
    <2> HIDE DEF new, work
    <2> QED BY <1>4, <2>1, CauseOfSave DEF LeaveFetcher, Bearing, Status
  <1>5. ASSUME NEW r \in Runs, NEW work, NEW next \in Bearing, run[r].pc # "idle",
               \/ \E status \in Status \ {"failed"} : StageDone(r, status, work, next)
               \/ StageReused(r, work, next)
        PROVE  LeftoverInv'
    <2> DEFINE new == [run[r] EXCEPT !.work = work, !.pc = next]
    <2>1. /\ run' = [run EXCEPT ![r] = new] /\ new.pc = next
          /\ new.job = run[r].job /\ unfinished' = unfinished
      BY <1>5 DEF StageDone, StageReused, TypeOK, Run
    <2>2. PICK status \in Status \ {"failed"} :
            \/ SaveCheckpoint(run[r].job, status, work)
            \/ checkpoints' = checkpoints
      BY <1>5 DEF StageDone, StageReused, Status
    <2> HIDE DEF new
    <2> QED BY <1>5, <2>1, <2>2, CauseOfSave
  <1>6. ASSUME NEW r \in Runs, Parse(r) PROVE LeftoverInv'
    <2>1. PICK bad \in SUBSET FlakyFiles :
            StageDone(r, "parsing",
                      [run[r].work EXCEPT !.parsed = disk[run[r].work.path] \ bad],
                      "analyze")
      BY <1>6 DEF Parse
    <2> QED BY <1>5, <1>6, <2>1 DEF Parse, Bearing, Status
  <1>7. ASSUME NEW r \in Runs, \/ SkipFetch(r) \/ ReuseParse(r) \/ ReuseAnalysis(r)
                               \/ ReuseEmbeddings(r) \/ ReuseConventions(r)
        PROVE  LeftoverInv'
    BY <1>5, <1>7 DEF SkipFetch, ReuseParse, ReuseAnalysis, ReuseEmbeddings,
       ReuseConventions, Bearing
  <1>8. ASSUME NEW r \in Runs, Analyze(r) \/ Embed(r) \/ ExtractConventions(r)
        PROVE  LeftoverInv'
    BY <1>5, <1>8 DEF Analyze, Embed, ExtractConventions, Bearing, Status
  <1>9. ASSUME NEW r \in Runs, FindCheckpoint(r) PROVE LeftoverInv'
    <2> DEFINE next == IF checkpoints[run[r].job] = NoCheckpoint
                       THEN "return" ELSE "delete"
               new == [run[r] EXCEPT !.seen = NoWork, !.pc = next]
    <2>1. /\ run' = [run EXCEPT ![r] = new] /\ new.job = run[r].job
          /\ \/ checkpoints[run[r].job] = NoCheckpoint
             \/ new.pc = "delete"
      BY <1>9 DEF FindCheckpoint, TypeOK, Run
    <2> HIDE DEF new
    <2>2. ASSUME NEW k \in JobIds PROVE Explained(k)'
      <3>1. /\ checkpoints' = checkpoints /\ unfinished' = unfinished
            /\ Explained(k)
        BY <1>9 DEF FindCheckpoint, LeftoverInv
      <3>2. run[r].job = k => \/ new.pc \in Bearing /\ new.job = k
                              \/ checkpoints[k] = NoCheckpoint
        BY <2>1 DEF Bearing
      <3> QED BY <2>1, <3>1, <3>2, CauseStays
    <2> QED BY <2>2 DEF LeftoverInv
  <1>10. ASSUME NEW r \in Runs, DeleteCheckpoint(r) PROVE LeftoverInv'
    <2>1. PICK new : run' = [run EXCEPT ![r] = new]
      BY <1>10, TailMoves DEF Tail
    <2>2. /\ run[r].job \in JobIds /\ checkpoints'[run[r].job] = NoCheckpoint
          /\ \A k \in JobIds \ {run[r].job} : /\ checkpoints'[k] = checkpoints[k]
                                             /\ unfinished'[k] = unfinished[k]
      BY <1>10, RunType DEF DeleteCheckpoint, TypeOK
    <2>3. ASSUME NEW k \in JobIds, k = run[r].job PROVE Explained(k)'
      BY <2>2, <2>3 DEF Explained
    <2>4. ASSUME NEW k \in JobIds, k # run[r].job PROVE Explained(k)'
      BY <2>1, <2>2, <2>4, CauseStays DEF LeftoverInv
    <2> QED BY <2>3, <2>4 DEF LeftoverInv
  <1>11. ASSUME NEW r \in Runs, Interrupt(r) PROVE LeftoverInv'
    <2>1. /\ run' = [run EXCEPT ![r] = IdleRun] /\ run[r].job \in JobIds
          /\ checkpoints' = checkpoints /\ Unfinished(r, "interrupted")
      BY <1>11, RunType DEF Interrupt, Active, Fetching, InFetcher, Returning
    <2>2. \A k \in JobIds : unfinished[k] \subseteq unfinished'[k]
      BY <2>1 DEF Unfinished, TypeOK
    <2>3. "interrupted" \in unfinished'[run[r].job]
      BY <2>1 DEF Unfinished, TypeOK
    <2>4. ASSUME NEW k \in JobIds PROVE Explained(k)'
      <3>1. Explained(k) /\ checkpoints'[k] = checkpoints[k]
        BY <2>1 DEF LeftoverInv
      <3> QED BY <2>1, <2>2, <2>3, <3>1, CauseStays
    <2> QED BY <2>4 DEF LeftoverInv
  <1>12. CASE Crash
    BY <1>12 DEF Crash, LeftoverInv, Explained
  <1>13. CASE UNCHANGED vars
    BY <1>13 DEF vars, LeftoverInv, Explained
  <1> QED
    BY <1>1, <1>2, <1>3, <1>4, <1>6, <1>7, <1>8, <1>9, <1>10, <1>11, <1>12, <1>13
       DEF Next, Stage

\* Once no call of a job is in progress, what is left of its checkpoint is the
\* work of a call that was interrupted, or the error of one that failed or lost
\* the race for the deletion: any number of calls that all complete leave
\* nothing, in whatever order they save, find and delete.
THEOREM LeftoversAreAccidents == Spec => []LeftoverHasCause
  <1>1. Init => LeftoverInv
    BY DEF Init, LeftoverInv, Explained
  <1>2. LeftoverInv => LeftoverHasCause
    BY DEF LeftoverInv, Explained, LeftoverHasCause, ActiveRuns, Bearing, Active
  <1> QED BY <1>1, <1>2, TypeInit, TypeStep, LeftoverStep, PTL DEF Spec

------------------------------------------------------------------------------
(* Saved work survives.                                                     *)

\* The parts of a checkpoint were saved in the order of the stages.
Staged(work) ==
    /\ work.parsed # {} => work.path # NoPath
    /\ work.embeddings # {} => work.analysis # {}
    /\ work.conventions # {} => work.embeddings # {}

\* A call fetches only if there was no path to resume from, has no parse results
\* before it parsed, and always an analysis after it analysed.
InOrder(x) ==
    /\ Staged(x.seen)
    /\ x.pc \in InFetcher => x.seen.path = NoPath
    /\ x.pc \in Fetching \cup {"parse"} => x.work.parsed = {}
    /\ x.pc \in {"embed", "learn", "store"} => x.work.analysis # {}

OrderInv ==
    /\ \A j \in JobIds : Staged(Saved(j))
    /\ \A r \in Runs : InOrder(run[r])

\* A part that a call has neither resumed from nor computed.
Lacks(x, part) == x.seen[part] = {} /\ x.work[part] = {}

\* A call may save work only if it lacks the parts that the work lacks.
Keeps(x, work) ==
    /\ work.parsed = {} => Lacks(x, "parsed")
    /\ work.embeddings = {} => Lacks(x, "embeddings")
    /\ work.conventions = {} => Lacks(x, "conventions")

NothingLost ==
    \A j \in JobIds : /\ ~LostAtSave(j, "parsed")
                      /\ ~LostAtSave(j, "embeddings")
                      /\ ~LostAtSave(j, "conventions")

LEMMA NoWorkStaged == Staged(NoWork)
  BY DEF Staged, NoWork

LEMMA SameKeeps ==
  ASSUME UNCHANGED checkpoints
  PROVE  NothingLost /\ \A j \in JobIds : Saved(j)' = Saved(j)
  BY DEF NothingLost, LostAtSave, Saved

\* What a call that ends does to the checkpoints is in the property.
LEMMA EndKeeps ==
  ASSUME TypeOK, NEW r \in Runs, run[r].pc \in Active \ Returning,
         run'[r].pc \in Returning,
         \A j \in JobIds \ {run[r].job} : Saved(j)' = Saved(j)
  PROVE  NothingLost
  <1>1. run'[r] # run[r]
    OBVIOUS
  <1>2. r \in ActiveRuns(run[r].job)
    BY DEF ActiveRuns
  <1> QED BY <1>1, <1>2 DEF NothingLost, LostAtSave

LEMMA SaveKeeps ==
  ASSUME TypeOK, NEW r \in Runs, run[r].pc \in Active, run'[r].pc # run[r].pc,
         NEW status \in Status, NEW work \in Work,
         SaveCheckpoint(run[r].job, status, work), Keeps(run[r], work)
  PROVE  NothingLost
  <1>1. run'[r] # run[r] /\ r \in ActiveRuns(run[r].job) /\ run[r].job \in JobIds
    BY RunType DEF ActiveRuns, Active, Fetching, InFetcher, Returning
  <1>2. \A j \in JobIds : Saved(j)' = IF j = run[r].job THEN work ELSE Saved(j)
    BY <1>1, SavedAfterSave
  <1>3. \A j \in JobIds : ~LostAtSave(j, "parsed")
    BY <1>1, <1>2 DEF Keeps, Lacks, LostAtSave
  <1>4. \A j \in JobIds : ~LostAtSave(j, "embeddings")
    BY <1>1, <1>2 DEF Keeps, Lacks, LostAtSave
  <1>5. \A j \in JobIds : ~LostAtSave(j, "conventions")
    BY <1>1, <1>2 DEF Keeps, Lacks, LostAtSave
  <1> QED BY <1>3, <1>4, <1>5 DEF NothingLost

\* One call goes on in order.
LEMMA OrderUpdate ==
  ASSUME TypeOK, OrderInv, NEW r \in Runs, NEW new, InOrder(new),
         run' = [run EXCEPT ![r] = new],
         \A j \in JobIds : Saved(j)' = Saved(j) \/ Staged(Saved(j)')
  PROVE  OrderInv'
  <1>1. \A s \in Runs : InOrder(run'[s])
    BY DEF OrderInv, TypeOK
  <1>2. \A j \in JobIds : Staged(Saved(j)')
    BY DEF OrderInv
  <1>3. \A j \in JobIds : Staged(Saved(j))'
    BY <1>2 DEF Staged
  <1>4. \A s \in Runs : InOrder(run[s])'
    BY <1>1 DEF InOrder, Staged
  <1> QED BY <1>3, <1>4 DEF OrderInv

\* A stage leaves a call in order, and saves what keeps the parts it has, or
\* nothing.
LEMMA OrderStage ==
  ASSUME TypeOK, OrderInv, NEW r \in Runs, run[r].pc \in Active,
         NEW work \in Work, NEW next \in Active, run[r].pc # next,
         InOrder([run[r] EXCEPT !.work = work, !.pc = next]),
         \/ \E status \in Status : StageDone(r, status, work, next)
                                   /\ Staged(work) /\ Keeps(run[r], work)
         \/ StageReused(r, work, next)
  PROVE  OrderInv' /\ NothingLost
  <1> DEFINE new == [run[r] EXCEPT !.work = work, !.pc = next]
  <1>1. /\ run[r].pc # "idle" /\ run[r] \in Run
        /\ run' = [run EXCEPT ![r] = new] /\ run'[r].pc # run[r].pc
        /\ run[r].job \in JobIds
    BY RunType DEF StageDone, StageReused, TypeOK, Run, Active, Fetching, InFetcher, Returning
  <1>2. CASE StageReused(r, work, next)
    <2>1. NothingLost /\ \A j \in JobIds : Saved(j)' = Saved(j)
      BY <1>2, SameKeeps DEF StageReused
    <2> QED BY <1>1, <2>1, OrderUpdate
  <1>3. ASSUME NEW status \in Status, StageDone(r, status, work, next), Staged(work),
               Keeps(run[r], work)
        PROVE  OrderInv' /\ NothingLost
    <2>1. SaveCheckpoint(run[r].job, status, work)
      BY <1>3 DEF StageDone
    <2>2. \A j \in JobIds : Saved(j)' = Saved(j) \/ Staged(Saved(j)')
      BY <1>1, <1>3, <2>1, SavedAfterSave
    <2>3. NothingLost
      BY <1>1, <1>3, <2>1, SaveKeeps
    <2> QED BY <1>1, <2>2, <2>3, OrderUpdate
  <1> QED BY <1>2, <1>3

\* A call that fails leaves no work behind.
LEMMA OrderFail ==
  ASSUME TypeOK, OrderInv, NEW r \in Runs, run[r].pc \in Active \ Returning,
         NEW ending, FailRun(r, ending)
  PROVE  OrderInv' /\ NothingLost
  <1> DEFINE new == [run[r] EXCEPT !.pc = "refuse", !.work = NoWork,
                                   !.seen = NoWork, !.workspace = NoPath]
  <1>1. run[r] \in Run /\ run' = [run EXCEPT ![r] = new]
    BY DEF FailRun, TypeOK
  <1>2. new.pc = "refuse" /\ new.seen = NoWork /\ run'[r].pc = "refuse"
    BY <1>1 DEF Run, TypeOK
  <1>3. InOrder(new)
    BY <1>2, NoWorkStaged DEF InOrder, Fetching, InFetcher
  <1>4. run[r].job \in JobIds
    BY RunType DEF Active, Fetching, InFetcher
  <1>5. \A j \in JobIds : Saved(j)' = IF j = run[r].job THEN NoWork ELSE Saved(j)
    BY <1>4, NoWorkType, SavedAfterSave DEF FailRun, Status
  <1>6. NothingLost
    BY <1>2, <1>5, EndKeeps DEF Returning
  <1> HIDE DEF new
  <1> QED BY <1>1, <1>3, <1>5, <1>6, NoWorkStaged, OrderUpdate

\* A call that returns its result deletes the checkpoint, or leaves it alone.
LEMMA OrderTail ==
  ASSUME TypeOK, OrderInv, NEW r \in Runs,
         FindCheckpoint(r) \/ DeleteCheckpoint(r) \/ Return(r)
  PROVE  OrderInv' /\ NothingLost
  <1>1. PICK new : Tail(r, new)
    BY TailMoves
  <1>2. \A j \in JobIds : Saved(j)' = Saved(j) \/ Staged(Saved(j)')
    BY TailMoves, NoWorkStaged
  <1>3. Staged(new.seen)
    BY <1>1, NoWorkStaged DEF Tail, OrderInv, InOrder
  <1>4. InOrder(new)
    BY <1>1, <1>3 DEF Tail, InOrder, Fetching, InFetcher
  <1>5. OrderInv'
    BY <1>1, <1>2, <1>4, OrderUpdate DEF Tail
  <1>6. CASE DeleteCheckpoint(r)
    <2>1. run[r].pc = "delete" /\ run'[r].pc = "return" /\ run[r].job \in JobIds
      BY <1>6, RunType DEF DeleteCheckpoint, TypeOK
    <2>2. \A j \in JobIds \ {run[r].job} : Saved(j)' = Saved(j)
      BY <1>6, <2>1 DEF DeleteCheckpoint, TypeOK, Saved
    <2> QED BY <1>5, <2>1, <2>2, EndKeeps DEF Active, Returning
  <1>7. CASE FindCheckpoint(r) \/ Return(r)
    BY <1>5, <1>7, SameKeeps DEF FindCheckpoint, Return
  <1> QED BY <1>6, <1>7

LEMMA OrderStep ==
  ASSUME CoherenceInv, OrderInv, Next
  PROVE  OrderInv' /\ (~Crash => NothingLost)
  <1>t. TypeOK /\ (\A r \in Runs : InStep(run[r]) /\ InOrder(run[r]))
    BY DEF CoherenceInv, OrderInv
  <1>0. ASSUME NEW r \in Runs, run[r].pc \in Active
        PROVE  /\ run[r] \in Run /\ run[r].work \in Work /\ run[r].seen \in Work
               /\ run[r].pc \in {"parse", "analyze", "embed", "learn"}
                    => run[r].work.path \in Workspaces
    BY <1>t, <1>0, RunType DEF Active, Fetching, InFetcher, Returning
  <1>1. ASSUME NEW r \in Runs, NEW p \in Repos, NEW j \in JobIds, Begin(r, p, j)
        PROVE  OrderInv' /\ NothingLost
    <2> DEFINE new == [pc |-> "fetch", repo |-> p, job |-> j, seen |-> Saved(j),
                       work |-> NoWork, workspace |-> NoPath]
    <2>1. run' = [run EXCEPT ![r] = new] /\ checkpoints' = checkpoints
      BY <1>1 DEF Begin
    <2>2. InOrder(new)
      BY DEF InOrder, OrderInv, InFetcher, NoWork
    <2> HIDE DEF new
    <2> QED BY <1>t, <2>1, <2>2, SameKeeps, OrderUpdate
  <1>2. ASSUME NEW r \in Runs, CreateWorkspace(r) PROVE OrderInv' /\ NothingLost
    <2>1. PICK w \in Workspaces \ used :
            run' = [run EXCEPT ![r].pc = "made", ![r].workspace = w]
      BY <1>2 DEF CreateWorkspace
    <2> DEFINE new == [run[r] EXCEPT !.pc = "made", !.workspace = w]
    <2>2. run' = [run EXCEPT ![r] = new] /\ checkpoints' = checkpoints
      BY <1>t, <1>2, <2>1 DEF CreateWorkspace, TypeOK, Run
    <2>3. InOrder(new)
      BY <1>t, <1>0, <1>2 DEF CreateWorkspace, InOrder, Run, Active, Fetching, InFetcher, Returning
    <2> HIDE DEF new
    <2> QED BY <1>t, <2>2, <2>3, SameKeeps, OrderUpdate
  <1>a. ASSUME NEW r \in Runs, AssignWorkspace(r) PROVE OrderInv' /\ NothingLost
    <2> DEFINE new == [run[r] EXCEPT !.pc = "clone"]
    <2>1. run' = [run EXCEPT ![r] = new] /\ checkpoints' = checkpoints
      BY <1>t, <1>a DEF AssignWorkspace, TypeOK, Run
    <2>2. InOrder(new)
      BY <1>t, <1>0, <1>a
         DEF AssignWorkspace, InOrder, Run, Active, Fetching, InFetcher, Returning
    <2> HIDE DEF new
    <2> QED BY <1>t, <2>1, <2>2, SameKeeps, OrderUpdate
  <1>3. ASSUME NEW r \in Runs, CloneSucceeds(r) PROVE OrderInv' /\ NothingLost
    <2> DEFINE new == [run[r] EXCEPT !.pc = "cloned"]
    <2>1. run' = [run EXCEPT ![r] = new] /\ checkpoints' = checkpoints
      BY <1>t, <1>3 DEF CloneSucceeds, TypeOK, Run
    <2>2. InOrder(new)
      BY <1>t, <1>0, <1>3 DEF CloneSucceeds, InOrder, Run, Active, Fetching, InFetcher, Returning
    <2> HIDE DEF new
    <2> QED BY <1>t, <2>1, <2>2, SameKeeps, OrderUpdate
  <1>4. ASSUME NEW r \in Runs, LeaveFetcher(r) PROVE OrderInv' /\ NothingLost
    <2> DEFINE work == [NoWork EXCEPT !.path = run[r].workspace]
               new == [run[r] EXCEPT !.pc = "parse", !.work = work,
                                     !.workspace = NoPath]
    <2>0. run[r].pc = "cloned" /\ run[r].pc \in Active /\ run[r] \in Run
      BY <1>0, <1>4 DEF LeaveFetcher, Active, Fetching, InFetcher, Returning
    <2>1. run' = [run EXCEPT ![r] = new]
      BY <1>t, <1>4, <2>0 DEF LeaveFetcher, TypeOK, Run
    <2>2. work \in Work /\ Staged(work)
      BY <1>t, <1>4, <2>0, RunType DEF LeaveFetcher, TypeOK, NoWork, Work, Staged
    <2>3. InOrder(new) /\ new.pc = "parse"
      BY <1>t, <2>0 DEF InOrder, Run, NoWork, Fetching, InFetcher
    <2>4. Keeps(run[r], work)
      <3>1. /\ Staged(run[r].seen) /\ run[r].seen.path = NoPath /\ run[r].work.parsed = {}
            /\ Consistent(run[r].seen)
            /\ run[r].work.embeddings = {} /\ run[r].work.conventions = {}
        BY <1>t, <2>0 DEF InOrder, InStep, Finished, Fetching, InFetcher
      <3> QED BY <3>1 DEF Keeps, Lacks, Staged, Consistent
    <2>5. SaveCheckpoint(run[r].job, "fetching", work) /\ "fetching" \in Status
      BY <1>4 DEF LeaveFetcher, Status
    <2>6. run[r].job \in JobIds /\ run'[r].pc # run[r].pc
      BY <1>t, <2>0, <2>1, <2>3, RunType DEF TypeOK
    <2> HIDE DEF new, work
    <2>7. \A j \in JobIds : Saved(j)' = Saved(j) \/ Staged(Saved(j)')
      BY <1>t, <2>2, <2>5, <2>6, SavedAfterSave
    <2>8. NothingLost
      BY <1>t, <2>0, <2>2, <2>4, <2>5, <2>6, SaveKeeps
    <2> QED BY <1>t, <2>1, <2>3, <2>7, <2>8, OrderUpdate
  <1>5. ASSUME NEW r \in Runs,
               FetchRefused(r) \/ CloneFails(r) \/ StageFails(r) \/ DeleteMisses(r)
        PROVE  OrderInv' /\ NothingLost
    <2>1. run[r].pc \in Active \ Returning
      BY <1>5 DEF FetchRefused, CloneFails, StageFails, DeleteMisses, Active, Fetching,
         InFetcher, Returning
    <2> QED
      BY <1>t, <1>5, <2>1, OrderFail DEF FetchRefused, CloneFails, StageFails, DeleteMisses
  <1>6. ASSUME NEW r \in Runs, SkipFetch(r) PROVE OrderInv' /\ NothingLost
    <2>0. run[r].pc = "fetch" /\ run[r].pc \in Active
      BY <1>6 DEF SkipFetch, Active, Fetching, InFetcher, Returning
    <2>1. PICK work \in Work : work = [run[r].work EXCEPT !.path = run[r].seen.path]
      BY <1>0, <2>0 DEF Work
    <2>2. InOrder([run[r] EXCEPT !.work = work, !.pc = "parse"])
      BY <1>t, <1>0, <2>0, <2>1 DEF InOrder, Run, Work, Fetching, InFetcher
    <2> QED BY <1>t, <1>6, <2>0, <2>1, <2>2, OrderStage DEF SkipFetch, Active, Fetching, InFetcher, Returning
  <1>7. ASSUME NEW r \in Runs, Parse(r) PROVE OrderInv' /\ NothingLost
    <2>0. run[r].pc = "parse" /\ run[r].pc \in Active
      BY <1>7 DEF Parse, Active, Fetching, InFetcher, Returning
    <2>1. PICK parsed \in SUBSET Files :
            StageDone(r, "parsing", [run[r].work EXCEPT !.parsed = parsed], "analyze")
      BY <1>t, <1>0, <1>7, <2>0 DEF Parse, TypeOK, Fetching, InFetcher
    <2>2. PICK work \in Work : work = [run[r].work EXCEPT !.parsed = parsed]
      BY <1>0, <2>0 DEF Work
    <2>3. /\ work.path = run[r].work.path /\ work.embeddings = {} /\ work.conventions = {}
          /\ work.path # NoPath
      BY <1>t, <1>0, <2>0, <2>2, MarkerAssumption DEF InStep, Finished, Work, Fetching, InFetcher
    <2>4. Staged(work) /\ Keeps(run[r], work)
      <3>1. /\ run[r].seen.parsed = {} /\ Consistent(run[r].seen) /\ run[r].work.parsed = {}
            /\ run[r].work.embeddings = {} /\ run[r].work.conventions = {}
        BY <1>t, <1>7, <2>0 DEF Parse, InStep, InOrder, Finished
      <3> QED BY <2>3, <3>1 DEF Staged, Keeps, Lacks, Consistent
    <2>5. InOrder([run[r] EXCEPT !.work = work, !.pc = "analyze"])
      BY <1>t, <1>0, <2>0 DEF InOrder, Run, Fetching, InFetcher
    <2> QED BY <1>t, <2>0, <2>1, <2>2, <2>4, <2>5, OrderStage DEF Status, Active
  <1>8. ASSUME NEW r \in Runs, ReuseParse(r) PROVE OrderInv' /\ NothingLost
    <2>0. run[r].pc = "parse" /\ run[r].pc \in Active
      BY <1>8 DEF ReuseParse, Active, Fetching, InFetcher, Returning
    <2>1. PICK work \in Work : work = [run[r].work EXCEPT !.parsed = run[r].seen.parsed]
      BY <1>0, <2>0 DEF Work
    <2>2. InOrder([run[r] EXCEPT !.work = work, !.pc = "analyze"])
      BY <1>t, <1>0, <2>0 DEF InOrder, Run, Fetching, InFetcher
    <2> QED BY <1>t, <1>8, <2>0, <2>1, <2>2, OrderStage DEF ReuseParse, Active
  <1>9. ASSUME NEW r \in Runs, Analyze(r) PROVE OrderInv' /\ NothingLost
    <2>0. run[r].pc = "analyze" /\ run[r].pc \in Active
      BY <1>9 DEF Analyze, Active, Fetching, InFetcher, Returning
    <2>w. run[r].work \in Work /\ {run[r].work.parsed} \in SUBSET SUBSET Files
      <3>1. run[r].work \in Work
        BY <1>0, <2>0
      <3> QED BY <3>1 DEF Work
    <2>x. [run[r].work EXCEPT !.analysis = {run[r].work.parsed}] \in Work
      BY <2>w DEF Work
    <2>1. PICK work \in Work : work = [run[r].work EXCEPT !.analysis = {run[r].work.parsed}]
      BY <2>x, Zenon
    <2>2. /\ work.path = run[r].work.path /\ work.embeddings = {} /\ work.conventions = {}
          /\ work.path # NoPath /\ work.parsed = run[r].work.parsed /\ work.analysis # {}
      BY <1>t, <1>0, <2>0, <2>1, MarkerAssumption DEF InStep, Finished, Work, Fetching, InFetcher
    <2>3. Staged(work) /\ Keeps(run[r], work)
      <3>1. /\ run[r].seen.analysis = {} /\ Staged(run[r].seen)
            /\ run[r].work.embeddings = {} /\ run[r].work.conventions = {}
            /\ run[r].seen.parsed # {} => run[r].work.parsed = run[r].seen.parsed
        BY <1>t, <1>9, <2>0 DEF Analyze, InStep, InOrder, Finished
      <3> QED BY <2>2, <3>1 DEF Staged, Keeps, Lacks
    <2>4. InOrder([run[r] EXCEPT !.work = work, !.pc = "embed"])
      BY <1>t, <1>0, <2>0, <2>2 DEF InOrder, Run, Fetching, InFetcher
    <2> QED BY <1>t, <1>9, <2>0, <2>1, <2>3, <2>4, OrderStage DEF Analyze, Status, Active
  <1>10. ASSUME NEW r \in Runs, ReuseAnalysis(r) PROVE OrderInv' /\ NothingLost
    <2>0. run[r].pc = "analyze" /\ run[r].pc \in Active
      BY <1>10 DEF ReuseAnalysis, Active, Fetching, InFetcher, Returning
    <2>1. PICK work \in Work : work = [run[r].work EXCEPT !.analysis = run[r].seen.analysis]
      BY <1>0, <2>0 DEF Work
    <2>2. InOrder([run[r] EXCEPT !.work = work, !.pc = "embed"])
      BY <1>t, <1>0, <1>10, <2>0, <2>1 DEF ReuseAnalysis, InOrder, Run, Work, Fetching, InFetcher
    <2> QED BY <1>t, <1>10, <2>0, <2>1, <2>2, OrderStage DEF ReuseAnalysis, Active
  <1>11. ASSUME NEW r \in Runs, Embed(r) PROVE OrderInv' /\ NothingLost
    <2>0. run[r].pc = "embed" /\ run[r].pc \in Active
      BY <1>11 DEF Embed, Active, Fetching, InFetcher, Returning
    <2>1. PICK work \in Work :
            work = [run[r].work EXCEPT !.embeddings = run[r].work.parsed \cap WithSymbols]
      BY <1>0, <2>0 DEF Work
    <2>2. /\ work.path = run[r].work.path /\ work.conventions = {}
          /\ work.embeddings = work.parsed \cap WithSymbols
          /\ work.path # NoPath /\ work.parsed = run[r].work.parsed
          /\ work.analysis = run[r].work.analysis
      BY <1>t, <1>0, <2>0, <2>1, MarkerAssumption DEF InStep, Finished, Work, Fetching, InFetcher
    <2>3. Staged(work) /\ Keeps(run[r], work)
      <3>1. /\ run[r].seen.embeddings = {} /\ Staged(run[r].seen)
            /\ run[r].work.embeddings = {} /\ run[r].work.conventions = {}
            /\ run[r].seen.parsed # {} => run[r].work.parsed = run[r].seen.parsed
            /\ run[r].work.analysis # {}
        BY <1>t, <1>11, <2>0 DEF Embed, InStep, InOrder, Finished
      <3> QED BY <2>2, <3>1 DEF Staged, Keeps, Lacks
    <2>4. InOrder([run[r] EXCEPT !.work = work, !.pc = "learn"])
      BY <1>t, <1>0, <2>0, <2>2 DEF InOrder, Run, Fetching, InFetcher
    <2> QED BY <1>t, <1>11, <2>0, <2>1, <2>3, <2>4, OrderStage DEF Embed, Status, Active
  <1>12. ASSUME NEW r \in Runs, ReuseEmbeddings(r) PROVE OrderInv' /\ NothingLost
    <2>0. run[r].pc = "embed" /\ run[r].pc \in Active
      BY <1>12 DEF ReuseEmbeddings, Active, Fetching, InFetcher, Returning
    <2>1. PICK work \in Work : work = [run[r].work EXCEPT !.embeddings = run[r].seen.embeddings]
      BY <1>0, <2>0 DEF Work
    <2>2. InOrder([run[r] EXCEPT !.work = work, !.pc = "learn"])
      BY <1>t, <1>0, <2>0, <2>1 DEF InOrder, Run, Work, Fetching, InFetcher
    <2> QED BY <1>t, <1>12, <2>0, <2>1, <2>2, OrderStage DEF ReuseEmbeddings, Active
  <1>13. ASSUME NEW r \in Runs, ExtractConventions(r) PROVE OrderInv' /\ NothingLost
    <2>0. run[r].pc = "learn" /\ run[r].pc \in Active
      BY <1>13 DEF ExtractConventions, Active, Fetching, InFetcher, Returning
    <2>1. PICK work \in Work :
            work = [run[r].work EXCEPT !.conventions = run[r].work.parsed \cap WithSymbols]
      BY <1>0, <2>0 DEF Work
    <2>2. /\ work.path = run[r].work.path /\ work.embeddings = run[r].work.embeddings
          /\ work.conventions = work.parsed \cap WithSymbols
          /\ work.path # NoPath /\ work.parsed = run[r].work.parsed
          /\ work.analysis = run[r].work.analysis
      BY <1>t, <1>0, <2>0, <2>1, MarkerAssumption DEF Work, Fetching, InFetcher
    <2>3. Staged(work) /\ Keeps(run[r], work)
      <3>1. /\ run[r].seen.conventions = {} /\ Consistent(run[r].seen)
            /\ run[r].work.embeddings = run[r].work.parsed \cap WithSymbols
            /\ run[r].work.conventions = {}
            /\ run[r].seen.parsed # {} => run[r].work.parsed = run[r].seen.parsed
            /\ run[r].work.analysis # {}
        BY <1>t, <1>13, <2>0 DEF ExtractConventions, InStep, InOrder, Finished
      <3>2. run[r].work.embeddings = {} => run[r].seen.embeddings = {}
        BY <3>1 DEF Consistent
      <3> QED BY <2>2, <3>1, <3>2 DEF Staged, Keeps, Lacks
    <2>4. InOrder([run[r] EXCEPT !.work = work, !.pc = "store"])
      BY <1>t, <1>0, <2>0, <2>2 DEF InOrder, Run, Fetching, InFetcher
    <2> QED
      BY <1>t, <1>13, <2>0, <2>1, <2>3, <2>4, OrderStage DEF ExtractConventions, Status, Active
  <1>14. ASSUME NEW r \in Runs, ReuseConventions(r) PROVE OrderInv' /\ NothingLost
    <2>0. run[r].pc = "learn" /\ run[r].pc \in Active
      BY <1>14 DEF ReuseConventions, Active, Fetching, InFetcher, Returning
    <2>1. PICK work \in Work :
            work = [run[r].work EXCEPT !.conventions = run[r].seen.conventions]
      BY <1>0, <2>0 DEF Work
    <2>2. InOrder([run[r] EXCEPT !.work = work, !.pc = "store"])
      BY <1>t, <1>0, <2>0, <2>1 DEF InOrder, Run, Work, Fetching, InFetcher
    <2> QED BY <1>t, <1>14, <2>0, <2>1, <2>2, OrderStage DEF ReuseConventions, Active
  <1>15. ASSUME NEW r \in Runs, FindCheckpoint(r) \/ DeleteCheckpoint(r) \/ Return(r)
         PROVE  OrderInv' /\ NothingLost
    BY <1>t, <1>15, OrderTail
  <1>16. ASSUME NEW r \in Runs, Interrupt(r) PROVE OrderInv' /\ NothingLost
    <2>1. run' = [run EXCEPT ![r] = IdleRun] /\ checkpoints' = checkpoints
      BY <1>16 DEF Interrupt
    <2>2. InOrder(IdleRun)
      BY NoWorkStaged DEF InOrder, IdleRun, NoWork
    <2> QED BY <1>t, <2>1, <2>2, SameKeeps, OrderUpdate
  <1>17. CASE Crash
    <2>1. \A r \in Runs : run'[r] = IdleRun
      BY <1>17 DEF Crash
    <2>2. \A j \in JobIds : Saved(j)' = NoWork
      BY <1>17 DEF Crash, Saved
    <2>3. InOrder(IdleRun)
      BY NoWorkStaged DEF InOrder, IdleRun, NoWork
    <2> QED BY <1>17, <2>1, <2>2, <2>3, NoWorkStaged DEF OrderInv, InOrder, Staged
  <1> QED
    BY <1>1, <1>2, <1>3, <1>4, <1>5, <1>6, <1>7, <1>8, <1>9, <1>10, <1>11, <1>12,
       <1>13, <1>14, <1>15, <1>16, <1>17, <1>a DEF Next, Stage

LEMMA OrderInit == Init => OrderInv
  <1> SUFFICES ASSUME Init PROVE OrderInv
    OBVIOUS
  <1>1. \A j \in JobIds : Saved(j) = NoWork
    BY DEF Init, Saved
  <1>2. InOrder(IdleRun)
    BY NoWorkStaged DEF InOrder, IdleRun, NoWork
  <1> QED BY <1>1, <1>2, NoWorkStaged DEF Init, OrderInv

\* Work saved for a job is lost only when a call of the job fails or deletes the
\* checkpoint, when the process dies, or when a concurrent call saves that resumed
\* without it and has not computed it either, for any number of calls of any jobs:
\* what a call took over or computed is in every checkpoint it saves.
THEOREM SavedWorkIsKept == Spec => SavedWorkSurvives
  <1>1. CoherenceInv /\ OrderInv /\ [Next]_vars => OrderInv'
    <2> SUFFICES ASSUME OrderInv, UNCHANGED vars PROVE OrderInv'
      BY OrderStep
    <2> QED BY DEF vars, OrderInv, Saved, InOrder, Staged
  <1>2. CoherenceInv /\ OrderInv /\ [Next]_vars
          => [~Crash => \A j \in JobIds : /\ ~LostAtSave(j, "parsed")
                                         /\ ~LostAtSave(j, "embeddings")
                                         /\ ~LostAtSave(j, "conventions")]_vars
    BY OrderStep DEF NothingLost
  <1> QED
    BY <1>1, <1>2, InitCoherent, CoherenceStep, OrderInit, PTL DEF Spec, SavedWorkSurvives

================================================================================
