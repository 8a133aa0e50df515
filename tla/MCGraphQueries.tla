--------------------------- MODULE MCGraphQueries ---------------------------
(* Instances of GraphQueries for TLC: writers of two versions of a repository,*)
(* whose imports together form a cycle.  In the new version a symbol has moved, *)
(* an import leads to a module that is no file, and a service is gone.          *)
EXTENDS GraphQueries, TLC

CONSTANTS w1, w2, old, new, f1, f2, m, s1, s2, s3, svc1, svc2

TheFile == (s1 :> f1) @@ (s2 :> f2) @@ (s3 :> f1)
TheNode == (s1 :> "a") @@ (s2 :> "b") @@ (s3 :> "a")
TheParsed == (old :> {f1, f2}) @@ (new :> {f1, f2})
TheSymbols == (old :> {s1, s2}) @@ (new :> {s3})
TheImports == (old :> {<<f1, f2>>}) @@ (new :> {<<f2, f1>>, <<f1, m>>})
TheServices == (old :> {svc1, svc2}) @@ (new :> {svc1})
TheMembers == (old :> {<<svc1, f1>>, <<svc2, f1>>, <<svc2, f2>>}) @@ (new :> {<<svc1, m>>, <<svc1, f1>>})
TheCalls == (old :> {<<"a", "b">>}) @@ (new :> {})
Symmetry == Permutations(Writers)
==============================================================================
