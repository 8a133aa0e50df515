----------------------------- MODULE MCIngestion -----------------------------
(* Instances of Ingestion for TLC.                                          *)
EXTENDS Ingestion, TLC

CONSTANTS p1, p2, fa, fb, j1, j2

\* One repository with two files, of which only fa defines a symbol.
OneRepo == {p1}
TwoFiles == {fa, fb}
FilesOfOne == p1 :> {fa, fb}
OneId == p1 :> {j1}
JustA == {fa}
None == {}

\* Two repositories with a file each, and job ids of their own.
TwoRepos == {p1, p2}
FilesOfTwo == (p1 :> {fa}) @@ (p2 :> {fb})
OwnIds == (p1 :> {j1}) @@ (p2 :> {j2})

\* The two repositories, with all that is theirs, may be exchanged.
Swap == (p1 :> p2) @@ (p2 :> p1) @@ (fa :> fb) @@ (fb :> fa)
           @@ (j1 :> j2) @@ (j2 :> j1)

SwapSymmetry == Permutations(Runs) \cup Permutations(Workspaces) \cup {Swap}

Symmetry == Permutations(Runs) \cup Permutations(Workspaces)
==============================================================================
