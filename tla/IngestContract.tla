---------------------------- MODULE IngestContract ----------------------------
(****************************************************************************)
(* What ingest_repository promises its caller, without stages, checkpoints  *)
(* or workspaces: a call for a repository runs, and then either returns a   *)
(* result computed from files of that very repository and consistent in     *)
(* itself, or returns a failure, or is broken off.                          *)
(****************************************************************************)
CONSTANTS Repos, Files, FilesIn, WithSymbols, Runs, NoRepo

VARIABLE call   \* [Runs -> Call]: the call each thread is in, or its outcome

\* The parts of an IngestionResult the pipeline derives from the parse results
\* cover exactly the parsed files.
SoundResult(parsed) == [parsed |-> parsed, embeddings |-> parsed \cap WithSymbols,
                        conventions |-> parsed \cap WithSymbols]

NoResult == SoundResult({})

NoCall == [phase |-> "idle", repo |-> NoRepo, result |-> NoResult]

Init == call = [r \in Runs |-> NoCall]

Accept(r, p) ==
    /\ call[r].phase # "running"
    /\ call' = [call EXCEPT ![r] = [phase |-> "running", repo |-> p,
                                    result |-> NoResult]]

\* Nothing in a result comes from another repository.
Succeed(r) ==
    /\ call[r].phase = "running"
    /\ \E parsed \in SUBSET FilesIn[call[r].repo] :
         call' = [call EXCEPT ![r].phase = "completed",
                              ![r].result = SoundResult(parsed)]

GiveUp(r) ==
    /\ call[r].phase = "running"
    /\ call' = [call EXCEPT ![r].phase = "failed"]

\* One call is broken off, or, when the process dies, all of them.
BreakOff(S) ==
    call' = [r \in Runs |-> IF r \in S THEN NoCall ELSE call[r]]

Next ==
    \/ \E r \in Runs, p \in Repos : Accept(r, p)
    \/ \E r \in Runs : Succeed(r) \/ GiveUp(r)
    \/ \E S \in SUBSET Runs : BreakOff(S)

Spec == Init /\ [][Next]_call
==============================================================================
