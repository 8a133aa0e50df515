----------------------------- MODULE GraphProofs -----------------------------
(* Proofs about GraphStore: what was written to its end is in the graph until *)
(* it is deleted, and nothing else is, for any versions, writers and batches. *)
(* Then about GraphQueries: what its answers mean, for any graph and any      *)
(* interleaving of their transactions with those of the writers.              *)
EXTENDS GraphQueries, FiniteSetTheorems, WellFoundedInduction, TLAPS

------------------------------------------------------------------------------
(* The lists of a version, and the places behind them.                        *)

LEMMA ItemsOf ==
    ASSUME NEW v
    PROVE  /\ Items(v)["files"] = Parsed[v]
           /\ Items(v)["symbols"] = Defines[v]
           /\ Items(v)["imports"] = Imports[v]
           /\ Items(v)["defines"] = {FileOf[s] : s \in Defines[v]}
           /\ Items(v)["calls"] = Calls[v]
BY DEF Items

LEMMA FollowingOf ==
    /\ Following["files"] = "symbols"
    /\ Following["symbols"] = "imports"
    /\ Following["imports"] = "defines"
    /\ Following["defines"] = "services"
    /\ Following["calls"] = "done"
BY DEF Following

LEMMA BeyondOf ==
    /\ Beyond["files"] = {"symbols", "imports", "defines", "services", "calls"}
    /\ Beyond["symbols"] = {"imports", "defines", "services", "calls"}
    /\ Beyond["imports"] = {"defines", "services", "calls"}
    /\ Beyond["defines"] = {"services", "calls"}
    /\ Beyond["calls"] = {}
BY DEF Beyond

------------------------------------------------------------------------------
(* Every transaction only adds to the graph.                                  *)

Grows ==
    /\ repository => repository'
    /\ files \subseteq files' /\ symbols \subseteq symbols'
    /\ services \subseteq services' /\ contained \subseteq contained'
    /\ defined \subseteq defined' /\ imports \subseteq imports'
    /\ members \subseteq members' /\ calls \subseteq calls'

LEMMA PutGrows ==
    ASSUME NEW w \in Writers, NEW batch, Put(w, batch)
    PROVE  Grows
<1> USE DEF Grows, nodes, relationships
<1>1. CASE PutFiles(batch)
  BY <1>1 DEF PutFiles
<1>2. CASE PutSymbols(batch)
  BY <1>2 DEF PutSymbols
<1>3. CASE PutImports(batch)
  BY <1>3 DEF PutImports
<1>4. CASE PutDefines(batch)
  BY <1>4 DEF PutDefines
<1>5. CASE PutCalls(batch)
  BY <1>5 DEF PutCalls
<1> QED
  BY <1>1, <1>2, <1>3, <1>4, <1>5 DEF Put

LEMMA OthersGrow ==
    /\ PutRepository => Grows
    /\ \A v : PutServices(v) => Grows
    /\ UNCHANGED graph => Grows
BY DEF PutRepository, PutServices, Grows, graph, nodes, relationships

LEMMA StepGrows ==
    ASSUME Next
    PROVE  Grows \/ Delete
<1>1. ASSUME NEW w \in Writers, NEW v \in Versions, Begin(w, v)
      PROVE  Grows
  BY <1>1, OthersGrow DEF Begin
<1>2. ASSUME NEW w \in Writers, WriteRepository(w)
      PROVE  Grows
  BY <1>2, OthersGrow DEF WriteRepository
<1>3. ASSUME NEW w \in Writers, WriteBatch(w)
      PROVE  Grows
  BY <1>3, PutGrows DEF WriteBatch
<1>4. ASSUME NEW w \in Writers, EndOfList(w)
      PROVE  Grows
  BY <1>4, OthersGrow DEF EndOfList
<1>5. ASSUME NEW w \in Writers, WriteServices(w)
      PROVE  Grows
  BY <1>5, OthersGrow DEF WriteServices
<1>6. ASSUME NEW w \in Writers, Break(w)
      PROVE  Grows
  BY <1>6, OthersGrow, PutGrows DEF Break
<1> QED
  BY <1>1, <1>2, <1>3, <1>4, <1>5, <1>6 DEF Next

LEMMA GrowthKeeps ==
    ASSUME NEW v \in Versions, Grows, Has(v)
    PROVE  Has(v)'
BY DEF Grows, Has

------------------------------------------------------------------------------
(* Types.                                                                     *)

LEMMA ProductGrows ==
    ASSUME NEW A, NEW B, NEW C, NEW D, NEW R, R \subseteq A \X B,
           A \subseteq C, B \subseteq D
    PROVE  R \subseteq C \X D
OBVIOUS

LEMMA PutKeepsType ==
    ASSUME GraphAssumption, TypeOK, NEW w \in Writers, at[w] \in Batched,
           NEW batch \in SUBSET left[w], Put(w, batch)
    PROVE  /\ repository' \in BOOLEAN
           /\ files' \in SUBSET Paths
           /\ symbols' \in SUBSET Symbols
           /\ services' \in SUBSET Services
           /\ contained' \in SUBSET (files' \cup services')
           /\ defined' \in SUBSET symbols'
           /\ imports' \in SUBSET (files' \X files')
           /\ members' \in SUBSET (services' \X files')
           /\ calls' \in SUBSET (symbols' \X symbols')
<1> USE DEF TypeOK, nodes, relationships
<1>1. version[w] \in Versions
  OBVIOUS
<1>2. left[w] \subseteq Items(version[w])[at[w]]
  OBVIOUS
<1>3. CASE at[w] = "files" /\ PutFiles(batch)
  <2>1. batch \subseteq Paths
    <3>1. Items(version[w])[at[w]] = Parsed[version[w]]
      BY <1>3, ItemsOf
    <3>2. Parsed[version[w]] \subseteq Paths
      BY <1>1 DEF GraphAssumption
    <3> QED
      BY <1>2, <3>1, <3>2
  <2>2. files \subseteq files'
    BY <1>3 DEF PutFiles
  <2>3. imports' \subseteq files' \X files' /\ members' \subseteq services' \X files'
    BY <1>3, <2>2, ProductGrows DEF PutFiles
  <2> QED
    BY <1>3, <2>1, <2>3 DEF PutFiles
<1>4. CASE at[w] = "symbols" /\ PutSymbols(batch)
  <2>1. batch \subseteq Symbols
    <3>1. Items(version[w])[at[w]] = Defines[version[w]]
      BY <1>4, ItemsOf
    <3>2. Defines[version[w]] \subseteq Symbols
      BY <1>1 DEF GraphAssumption
    <3> QED
      BY <1>2, <3>1, <3>2
  <2>2. symbols \subseteq symbols'
    BY <1>4 DEF PutSymbols
  <2>3. calls' \subseteq symbols' \X symbols'
    BY <1>4, <2>2, ProductGrows DEF PutSymbols
  <2> QED
    BY <1>4, <2>1, <2>3 DEF PutSymbols
<1>5. CASE at[w] = "imports" /\ PutImports(batch)
  <2>1. batch \subseteq Paths \X Paths
    <3>1. Items(version[w])[at[w]] = Imports[version[w]]
      BY <1>5, ItemsOf
    <3>2. Imports[version[w]] \subseteq Paths \X Paths
      BY <1>1 DEF GraphAssumption
    <3> QED
      BY <1>2, <3>1, <3>2
  <2> DEFINE found == {e \in batch : e[1] \in files}
  <2>2. files' = files \cup {e[2] : e \in found} /\ imports' = imports \cup found
    BY <1>5 DEF PutImports
  <2>3. files' \subseteq Paths
    BY <2>1, <2>2
  <2>4. found \subseteq files' \X files'
    <3> SUFFICES ASSUME NEW e \in found
                 PROVE  e \in files' \X files'
      OBVIOUS
    <3>1. e \in Paths \X Paths /\ e[1] \in files /\ e[2] \in files'
      BY <2>1, <2>2
    <3> QED
      BY <2>2, <3>1
  <2>5. imports' \subseteq files' \X files'
    BY <2>2, <2>4
  <2>6. members' \subseteq services' \X files'
    BY <1>5, <2>2 DEF PutImports
  <2> QED
    BY <1>5, <2>2, <2>3, <2>5, <2>6 DEF PutImports
<1>6. CASE at[w] = "defines" /\ PutDefines(batch)
  BY <1>6 DEF PutDefines
<1>7. CASE at[w] = "calls" /\ PutCalls(batch)
  BY <1>7 DEF PutCalls
<1> QED
  BY <1>3, <1>4, <1>5, <1>6, <1>7 DEF Put

LEMMA ServicesKeepType ==
    ASSUME GraphAssumption, VersionsCoherent, TypeOK, NEW v \in Versions, PutServices(v)
    PROVE  /\ repository' \in BOOLEAN
           /\ files' \in SUBSET Paths
           /\ symbols' \in SUBSET Symbols
           /\ services' \in SUBSET Services
           /\ contained' \in SUBSET (files' \cup services')
           /\ defined' \in SUBSET symbols'
           /\ imports' \in SUBSET (files' \X files')
           /\ members' \in SUBSET (services' \X files')
           /\ calls' \in SUBSET (symbols' \X symbols')
<1>1. \A m \in Members[v] : m \in Services \X Paths /\ m[1] \in Boundaries[v]
  BY DEF GraphAssumption, VersionsCoherent
<1>2. {m \in Members[v] : m[2] \in files} \subseteq services' \X files'
  <2> SUFFICES ASSUME NEW m \in Members[v], m[2] \in files
               PROVE  m \in services' \X files'
    OBVIOUS
  <2>1. m = <<m[1], m[2]>> /\ m[1] \in services' /\ m[2] \in files'
    BY <1>1 DEF PutServices
  <2> QED
    BY <2>1
<1>3. Boundaries[v] \subseteq Services
  BY DEF GraphAssumption
<1> QED
  BY <1>2, <1>3 DEF PutServices, TypeOK, GraphAssumption

\* The part of TypeOK that is about the graph, and the part about the writers.
GraphType ==
    /\ repository \in BOOLEAN
    /\ files \in SUBSET Paths
    /\ symbols \in SUBSET Symbols
    /\ services \in SUBSET Services
    /\ contained \in SUBSET (files \cup services)
    /\ defined \in SUBSET symbols
    /\ imports \in SUBSET (files \X files)
    /\ members \in SUBSET (services \X files)
    /\ calls \in SUBSET (symbols \X symbols)

WriterType ==
    /\ at \in [Writers -> Place]
    /\ version \in [Writers -> Versions]
    /\ DOMAIN left = Writers
    /\ \A w \in Writers :
         left[w] \subseteq IF at[w] \in Batched THEN Items(version[w])[at[w]] ELSE {}
    /\ jobs \in Nat
    /\ whole \in [Writers -> BOOLEAN]
    /\ stored \in SUBSET Versions
    /\ touched \in SUBSET Versions

LEMMA TypeParts == TypeOK <=> GraphType /\ WriterType
BY DEF TypeOK, GraphType, WriterType

LEMMA SameGraph ==
    ASSUME GraphType, UNCHANGED graph
    PROVE  GraphType'
BY DEF GraphType, graph, nodes, relationships

LEMMA ProceedKeepsType ==
    ASSUME WriterType, NEW w \in Writers, NEW p \in Place, Proceed(w, p),
           stored' \in SUBSET Versions
    PROVE  WriterType'
<1> USE DEF WriterType, Proceed
<1>1. /\ at' \in [Writers -> Place] /\ DOMAIN left' = Writers
      /\ UNCHANGED <<version, jobs, whole, touched>>
  OBVIOUS
<1>2. ASSUME NEW x \in Writers
      PROVE  left'[x] \subseteq IF at'[x] \in Batched
                                THEN Items(version'[x])[at'[x]] ELSE {}
  <2>1. CASE x = w
    <3>1. /\ at'[x] = p /\ version'[x] = version[w]
          /\ left'[x] = IF p \in Batched THEN Items(version[w])[p] ELSE {}
      BY <2>1, <1>1
    <3> QED
      BY <3>1
  <2>2. CASE x # w
    <3>1. at'[x] = at[x] /\ version'[x] = version[x] /\ left'[x] = left[x]
      BY <2>2, <1>1
    <3> QED
      BY <3>1
  <2> QED
    BY <2>1, <2>2
<1> QED
  BY <1>1, <1>2

LEMMA PlacesOf ==
    /\ Batched \subseteq Writing /\ Writing \subseteq Place
    /\ \A p \in Batched : Following[p] \in Place
    /\ {"repository", "files", "services", "calls", "failed", "done", "idle"} \subseteq Place
    /\ {"repository", "services", "failed", "done", "idle"} \cap Batched = {}
BY DEF Place, Writing, Batched, Following

LEMMA TypeStep ==
    ASSUME GraphAssumption, VersionsCoherent, TypeOK, [Next]_vars
    PROVE  TypeOK'
<1> USE PlacesOf
<1>0. GraphType /\ WriterType
  BY TypeParts
<1>1. ASSUME NEW w \in Writers, NEW v \in Versions, Begin(w, v)
      PROVE  GraphType' /\ WriterType'
  <2>1. GraphType'
    BY <1>0, <1>1, SameGraph DEF Begin
  <2>2. WriterType'
    BY <1>0, <1>1 DEF Begin, WriterType
  <2> QED
    BY <2>1, <2>2
<1>2. ASSUME NEW w \in Writers, WriteRepository(w)
      PROVE  GraphType' /\ WriterType'
  <2>1. GraphType'
    BY <1>0, <1>2 DEF WriteRepository, PutRepository, GraphType, relationships
  <2>2. WriterType'
    BY <1>0, <1>2, ProceedKeepsType DEF WriteRepository, WriterType
  <2> QED
    BY <2>1, <2>2
<1>3. ASSUME NEW w \in Writers, WriteBatch(w)
      PROVE  GraphType' /\ WriterType'
  <2>1. PICK batch \in SUBSET left[w] :
          Put(w, batch) /\ left' = [left EXCEPT ![w] = @ \ batch]
    BY <1>3 DEF WriteBatch, Batches
  <2>2. GraphType'
    BY <2>1, <1>3, PutKeepsType DEF GraphType, WriteBatch
  <2>3. WriterType'
    BY <1>0, <1>3, <2>1 DEF WriteBatch, WriterType
  <2> QED
    BY <2>2, <2>3
<1>4. ASSUME NEW w \in Writers, EndOfList(w)
      PROVE  GraphType' /\ WriterType'
  <2>1. GraphType'
    BY <1>0, <1>4, SameGraph DEF EndOfList
  <2>2. stored' \in SUBSET Versions /\ at[w] \in Batched
    BY <1>0, <1>4 DEF EndOfList, WriterType
  <2>3. WriterType'
    BY <1>0, <1>4, <2>2, ProceedKeepsType DEF EndOfList
  <2> QED
    BY <2>1, <2>3
<1>5. ASSUME NEW w \in Writers, WriteServices(w)
      PROVE  GraphType' /\ WriterType'
  <2>1. version[w] \in Versions
    BY <1>0 DEF WriterType
  <2>2. GraphType'
    BY <1>5, <2>1, ServicesKeepType DEF WriteServices, GraphType
  <2>3. WriterType'
    BY <1>0, <1>5, ProceedKeepsType DEF WriteServices, WriterType
  <2> QED
    BY <2>2, <2>3
<1>6. ASSUME NEW w \in Writers, Break(w)
      PROVE  GraphType' /\ WriterType'
  <2>1. ASSUME PutRepository
        PROVE  GraphType'
    BY <1>0, <2>1 DEF PutRepository, GraphType, relationships
  <2>2. ASSUME PutServices(version[w])
        PROVE  GraphType'
    BY <1>0, <2>2, ServicesKeepType DEF GraphType, WriterType
  <2>3. ASSUME NEW batch \in Batches(w), Put(w, batch)
        PROVE  GraphType'
    BY <2>3, PutKeepsType DEF Batches, GraphType, Put, Batched
  <2>4. ASSUME UNCHANGED graph
        PROVE  GraphType'
    BY <1>0, <2>4, SameGraph
  <2>5. GraphType'
    BY <1>6, <2>1, <2>2, <2>3, <2>4 DEF Break
  <2>6. WriterType'
    BY <1>0, <1>6 DEF Break, WriterType
  <2> QED
    BY <2>5, <2>6
<1>7. ASSUME Delete
      PROVE  GraphType' /\ WriterType'
  <2>1. GraphType'
    BY <1>7 DEF Delete, GraphType
  <2>2. WriterType'
    BY <1>0, <1>7 DEF Delete, Forget, WriterType, writer, Running
  <2> QED
    BY <2>1, <2>2
<1>8. ASSUME UNCHANGED vars
      PROVE  GraphType' /\ WriterType'
  <2>1. GraphType'
    BY <1>0, <1>8, SameGraph DEF vars
  <2>2. WriterType'
    BY <1>0, <1>8 DEF vars, writer, WriterType
  <2> QED
    BY <2>1, <2>2
<1>9. GraphType' /\ WriterType'
  BY <1>1, <1>2, <1>3, <1>4, <1>5, <1>6, <1>7, <1>8 DEF Next
<1> QED
  BY <1>9 DEF TypeOK, GraphType, WriterType

LEMMA InitType ==
    ASSUME GraphAssumption, Init
    PROVE  TypeOK
BY DEF Init, TypeOK, Place, Batched

\* Every variable has its type.
THEOREM TypeCorrect == Spec => []TypeOK
<1>1. Init => TypeOK
  BY InitType, GraphAssumption
<1>2. TypeOK /\ [Next]_vars => TypeOK'
  BY TypeStep, GraphAssumption, VersionsCoherent
<1> QED
  BY <1>1, <1>2, PTL DEF Spec

------------------------------------------------------------------------------
(* What uninterrupted writers wrote is there.                                 *)

\* The graph only grows and the writer goes on as before: its part is there.
LEMMA GrowthKeepsProgress ==
    ASSUME NEW w \in Writers, Grows, Progress(w),
           at'[w] = at[w], version'[w] = version[w], left'[w] = left[w]
    PROVE  Progress(w)'
BY DEF Grows, Progress, Wrote

\* The end of a list: the next one is all to be written.
LEMMA NextListKeepsProgress ==
    ASSUME TypeOK, NEW w \in Writers, Grows, Progress(w), at[w] \in Batched,
           left[w] = {}, Proceed(w, Following[at[w]]), at'[w] # "done"
    PROVE  Progress(w)'
<1> USE BeyondOf, FollowingOf, ItemsOf
<1>1. /\ at'[w] = Following[at[w]]
      /\ version'[w] = version[w]
      /\ left'[w] = IF at'[w] \in Batched THEN Items(version[w])[at'[w]] ELSE {}
  BY DEF Proceed, TypeOK
<1>2. at[w] \in {"files", "symbols", "imports", "defines"}
  BY <1>1 DEF Batched
<1>3. /\ at'[w] # "calls"
      /\ at'[w] \in {"symbols", "imports", "defines", "services"}
  BY <1>1, <1>2
<1>4. \A f \in Parsed[version[w]] : Wrote(w, "files", f)' => Wrote(w, "files", f)
  BY <1>1, <1>2 DEF Wrote
<1>5. \A s \in Defines[version[w]] : Wrote(w, "symbols", s)' => Wrote(w, "symbols", s)
  BY <1>1, <1>2 DEF Wrote, Batched
<1>6. \A e \in Imports[version[w]] : Wrote(w, "imports", e)' => Wrote(w, "imports", e)
  BY <1>1, <1>2 DEF Wrote, Batched
<1>7. \A s \in Defines[version[w]] :
        Wrote(w, "defines", FileOf[s])' => Wrote(w, "defines", FileOf[s])
  BY <1>1, <1>2 DEF Wrote, Batched
<1>8. \A c : ~Wrote(w, "calls", c)'
  BY <1>3 DEF Wrote
<1> QED
  BY <1>1, <1>3, <1>4, <1>5, <1>6, <1>7, <1>8 DEF Progress, Grows

\* A batch is written, and with it the writer's part is there as before.
LEMMA BatchKeepsProgress ==
    ASSUME TypeOK, NEW w \in Writers, Progress(w), at[w] \in Batched,
           NEW batch \in SUBSET left[w], Put(w, batch),
           at' = at, version' = version, left' = [left EXCEPT ![w] = @ \ batch]
    PROVE  Progress(w)'
<1> USE BeyondOf
<1>0. /\ left'[w] = left[w] \ batch /\ Grows
      /\ at'[w] = at[w] /\ version'[w] = version[w]
  BY PutGrows DEF TypeOK
<1>1. CASE at[w] = "files" /\ PutFiles(batch)
  <2>1. repository /\ files' = files \cup batch /\ contained' = contained \cup batch
    BY <1>1 DEF PutFiles, Progress
  <2>2. \A f \in Parsed[version[w]] : Wrote(w, "files", f)'
          => f \in files' /\ f \in contained'
    BY <1>0, <1>1, <2>1 DEF Wrote, Progress
  <2>3. \A x : ~Wrote(w, "symbols", x)' /\ ~Wrote(w, "imports", x)'
               /\ ~Wrote(w, "defines", x)' /\ ~Wrote(w, "calls", x)'
    BY <1>0, <1>1 DEF Wrote
  <2> QED
    BY <1>0, <1>1, <2>1, <2>2, <2>3 DEF Progress, Grows
<1>2. CASE at[w] = "symbols" /\ PutSymbols(batch)
  <2>1. \A s \in Defines[version[w]] : Wrote(w, "symbols", s)' => s \in symbols'
    BY <1>0, <1>2 DEF Wrote, Progress, PutSymbols
  <2>2. \A f \in Parsed[version[w]] : f \in files' /\ f \in contained'
    BY <1>0, <1>2 DEF Wrote, Progress, Grows
  <2>3. \A x : ~Wrote(w, "imports", x)' /\ ~Wrote(w, "defines", x)'
               /\ ~Wrote(w, "calls", x)'
    BY <1>0, <1>2 DEF Wrote
  <2> QED
    BY <1>0, <1>2, <2>1, <2>2, <2>3 DEF Progress, Grows
<1>3. CASE at[w] = "imports" /\ PutImports(batch)
  <2>1. \A f \in Parsed[version[w]] : f \in files /\ f \in contained
    BY <1>3 DEF Wrote, Progress
  <2>2. \A s \in Defines[version[w]] : s \in symbols
    BY <1>3 DEF Wrote, Progress
  <2>3. \A e \in Imports[version[w]] : Wrote(w, "imports", e)' => e \in imports'
    <3> SUFFICES ASSUME NEW e \in Imports[version[w]], Wrote(w, "imports", e)'
                 PROVE  e \in imports'
      OBVIOUS
    <3>1. CASE e \in batch
      <4>1. e[1] \in files
        BY <2>1, VersionsCoherent DEF TypeOK
      <4> QED
        BY <1>3, <3>1, <4>1 DEF PutImports
    <3>2. CASE e \notin batch
      <4>1. Wrote(w, "imports", e)
        BY <1>0, <1>3, <3>2 DEF Wrote
      <4> QED
        BY <1>0, <4>1 DEF Progress, Grows
    <3> QED
      BY <3>1, <3>2
  <2>4. \A x : ~Wrote(w, "defines", x)' /\ ~Wrote(w, "calls", x)'
    BY <1>0, <1>3 DEF Wrote
  <2> QED
    BY <1>0, <1>3, <2>1, <2>2, <2>3, <2>4 DEF Progress, Grows
<1>4. CASE at[w] = "defines" /\ PutDefines(batch)
  <2>1. \A f \in Parsed[version[w]] : f \in files /\ f \in contained
    BY <1>4 DEF Wrote, Progress
  <2>2. \A s \in Defines[version[w]] : s \in symbols
    BY <1>4 DEF Wrote, Progress
  <2>3. \A e \in Imports[version[w]] : e \in imports
    BY <1>4 DEF Wrote, Progress
  <2>4. \A s \in Defines[version[w]] : Wrote(w, "defines", FileOf[s])' => s \in defined'
    <3> SUFFICES ASSUME NEW s \in Defines[version[w]], Wrote(w, "defines", FileOf[s])'
                 PROVE  s \in defined'
      OBVIOUS
    <3>1. CASE FileOf[s] \in batch
      <4>1. FileOf[s] \in files
        BY <2>1, VersionsCoherent DEF TypeOK
      <4> QED
        BY <1>4, <2>2, <3>1, <4>1 DEF PutDefines
    <3>2. CASE FileOf[s] \notin batch
      <4>1. Wrote(w, "defines", FileOf[s])
        BY <1>0, <1>4, <3>2 DEF Wrote
      <4> QED
        BY <1>0, <4>1 DEF Progress, Grows
    <3> QED
      BY <3>1, <3>2
  <2>5. \A x : ~Wrote(w, "calls", x)'
    BY <1>0, <1>4 DEF Wrote
  <2> QED
    BY <1>0, <1>4, <2>1, <2>2, <2>3, <2>4, <2>5 DEF Progress, Grows
<1>5. CASE at[w] = "calls" /\ PutCalls(batch)
  <2>1. \A s \in Defines[version[w]] : s \in symbols /\ s \in defined
    BY <1>5 DEF Wrote, Progress
  <2>2. /\ \A f \in Parsed[version[w]] : f \in files /\ f \in contained
        /\ \A e \in Imports[version[w]] : e \in imports
    BY <1>5 DEF Wrote, Progress
  <2>3. ASSUME NEW s \in Defines[version[w]], NEW t \in Defines[version[w]],
               <<NodeOf[s], NodeOf[t]>> \in Calls[version[w]],
               Wrote(w, "calls", <<NodeOf[s], NodeOf[t]>>)'
        PROVE  <<s, t>> \in calls'
    <3>1. CASE <<NodeOf[s], NodeOf[t]>> \in batch
      <4>1. <<s, t>> \in symbols \X symbols
        BY <2>1
      <4> QED
        BY <1>5, <3>1, <4>1 DEF PutCalls
    <3>2. CASE <<NodeOf[s], NodeOf[t]>> \notin batch
      <4>1. Wrote(w, "calls", <<NodeOf[s], NodeOf[t]>>)
        BY <1>0, <1>5, <2>3, <3>2 DEF Wrote
      <4>2. <<s, t>> \in calls
        BY <2>3, <4>1 DEF Progress
      <4> QED
        BY <1>0, <4>2 DEF Grows
    <3> QED
      BY <3>1, <3>2
  <2> QED
    BY <1>0, <1>5, <2>1, <2>2, <2>3 DEF Progress, Grows
<1> QED
  BY <1>1, <1>2, <1>3, <1>4, <1>5 DEF Put

\* The services, in one transaction.
LEMMA ServicesKeepProgress ==
    ASSUME TypeOK, NEW w \in Writers, Progress(w), at[w] = "services",
           PutServices(version[w]), Proceed(w, "calls")
    PROVE  Progress(w)'
<1> USE BeyondOf, ItemsOf
<1>0. /\ left'[w] = Calls[version[w]] /\ at'[w] = "calls"
      /\ version'[w] = version[w]
  BY DEF Proceed, TypeOK, Batched
<1>1. Grows
  BY OthersGrow
<1>2. /\ \A f \in Parsed[version[w]] : f \in files /\ f \in contained
      /\ \A s \in Defines[version[w]] : s \in symbols /\ s \in defined
      /\ \A e \in Imports[version[w]] : e \in imports
  BY DEF Progress, Wrote
<1>3. /\ Boundaries[version[w]] \subseteq services' \cap contained'
      /\ \A m \in Members[version[w]] : m[2] \in Parsed[version[w]] => m \in members'
  BY <1>2 DEF PutServices, Progress
<1>4. \A c \in Calls[version[w]] : ~Wrote(w, "calls", c)'
  BY <1>0 DEF Wrote
<1> QED
  BY <1>0, <1>1, <1>2, <1>3, <1>4 DEF Progress, Grows

\* The end of the last list: the version is there.
LEMMA ProgressEnds ==
    ASSUME NEW w \in Writers, Progress(w), at[w] = "calls", left[w] = {}
    PROVE  Has(version[w])
<1> USE BeyondOf
<1>1. /\ \A f \in Parsed[version[w]] : f \in files /\ f \in contained
      /\ \A s \in Defines[version[w]] : s \in symbols /\ s \in defined
      /\ \A e \in Imports[version[w]] : e \in imports
  BY DEF Progress, Wrote
<1>2. \A s, t \in Defines[version[w]] :
        <<NodeOf[s], NodeOf[t]>> \in Calls[version[w]] => <<s, t>> \in calls
  BY DEF Progress, Wrote
<1> QED
  BY <1>1, <1>2 DEF Progress, Has

LEMMA ProgressStep ==
    ASSUME TypeOK, ProgressInv, [Next]_vars
    PROVE  ProgressInv'
<1> USE PlacesOf
<1> SUFFICES ASSUME NEW x \in Writers, whole'[x],
                    at'[x] \in Writing \ {"repository"}
             PROVE  Progress(x)'
  BY DEF ProgressInv
<1>0. ASSUME Grows, at'[x] = at[x], version'[x] = version[x], left'[x] = left[x],
             whole'[x] = whole[x]
      PROVE  Progress(x)'
  BY <1>0, GrowthKeepsProgress DEF ProgressInv
<1>1. ASSUME NEW w \in Writers, NEW v \in Versions, Begin(w, v)
      PROVE  Progress(x)'
  <2>1. x # w
    BY <1>1 DEF Begin, TypeOK
  <2>2. Grows
    BY <1>1, OthersGrow DEF Begin
  <2> QED
    BY <1>0, <1>1, <2>1, <2>2 DEF Begin, TypeOK
<1>2. ASSUME NEW w \in Writers, WriteRepository(w)
      PROVE  Progress(x)'
  <2>1. Grows /\ repository'
    BY <1>2, OthersGrow DEF WriteRepository, PutRepository
  <2>2. CASE x # w
    BY <1>0, <1>2, <2>1, <2>2 DEF WriteRepository, Proceed, TypeOK
  <2>3. CASE x = w
    <3>1. /\ at'[w] = "files" /\ version'[w] = version[w]
          /\ left'[w] = Parsed[version[w]]
      BY <1>2, ItemsOf DEF WriteRepository, Proceed, TypeOK, Batched
    <3>2. \A f \in Parsed[version[w]] : ~Wrote(w, "files", f)'
      BY <3>1, BeyondOf DEF Wrote
    <3>3. \A y : ~Wrote(w, "symbols", y)' /\ ~Wrote(w, "imports", y)'
                 /\ ~Wrote(w, "defines", y)' /\ ~Wrote(w, "calls", y)'
      BY <3>1, BeyondOf DEF Wrote
    <3> QED
      BY <2>1, <2>3, <3>1, <3>2, <3>3 DEF Progress
  <2> QED
    BY <2>2, <2>3
<1>3. ASSUME NEW w \in Writers, WriteBatch(w)
      PROVE  Progress(x)'
  <2>1. PICK batch \in SUBSET left[w] :
          Put(w, batch) /\ left' = [left EXCEPT ![w] = @ \ batch]
    BY <1>3 DEF WriteBatch, Batches
  <2>2. Grows
    BY <2>1, PutGrows
  <2>3. CASE x # w
    BY <1>0, <1>3, <2>1, <2>2, <2>3 DEF WriteBatch, TypeOK
  <2>4. CASE x = w
    <3>1. at[w] \in Writing \ {"repository"} /\ whole[w]
      BY <1>3, <2>4 DEF WriteBatch
    <3> QED
      BY <1>3, <2>1, <2>4, <3>1, BatchKeepsProgress DEF WriteBatch, ProgressInv
  <2> QED
    BY <2>3, <2>4
<1>4. ASSUME NEW w \in Writers, EndOfList(w)
      PROVE  Progress(x)'
  <2>1. Grows
    BY <1>4, OthersGrow DEF EndOfList
  <2>2. CASE x # w
    BY <1>0, <1>4, <2>1, <2>2 DEF EndOfList, Proceed, TypeOK
  <2>3. CASE x = w
    <3>1. at[w] \in Batched /\ left[w] = {} /\ Proceed(w, Following[at[w]])
      BY <1>4 DEF EndOfList
    <3>2. Progress(w)
      BY <2>3, <3>1 DEF ProgressInv, Proceed, Batched, Writing
    <3>3. at'[w] # "done"
      BY <2>3 DEF Writing, Batched
    <3> QED
      BY <2>1, <2>3, <3>1, <3>2, <3>3, NextListKeepsProgress
  <2> QED
    BY <2>2, <2>3
<1>5. ASSUME NEW w \in Writers, WriteServices(w)
      PROVE  Progress(x)'
  <2>1. Grows
    BY <1>5, OthersGrow DEF WriteServices
  <2>2. CASE x # w
    BY <1>0, <1>5, <2>1, <2>2 DEF WriteServices, Proceed, TypeOK
  <2>3. CASE x = w
    <3>1. Progress(w)
      BY <1>5, <2>3 DEF WriteServices, ProgressInv, Proceed, Writing
    <3> QED
      BY <1>5, <2>3, <3>1, ServicesKeepProgress DEF WriteServices
  <2> QED
    BY <2>2, <2>3
<1>6. ASSUME NEW w \in Writers, Break(w)
      PROVE  Progress(x)'
  <2>1. Grows
    BY <1>6, OthersGrow, PutGrows DEF Break
  <2>2. x # w
    BY <1>6 DEF Break, TypeOK, Writing, Batched
  <2> QED
    BY <1>0, <1>6, <2>1, <2>2 DEF Break, TypeOK
<1>7. CASE Delete
  BY <1>7 DEF Delete, Forget, writer
<1>8. CASE UNCHANGED vars
  <2>1. Grows
    BY <1>8, OthersGrow DEF vars
  <2> QED
    BY <1>0, <1>8, <2>1 DEF vars, writer
<1> QED
  BY <1>1, <1>2, <1>3, <1>4, <1>5, <1>6, <1>7, <1>8 DEF Next

LEMMA StoredStep ==
    ASSUME TypeOK, ProgressInv, WrittenIsStored, [Next]_vars
    PROVE  WrittenIsStored'
<1>1. CASE Delete
  BY <1>1 DEF Delete, Forget, WrittenIsStored
<1>2. ASSUME NEW w \in Writers, EndOfList(w)
      PROVE  WrittenIsStored'
  <2>1. Grows
    BY <1>2, OthersGrow DEF EndOfList
  <2>2. \A v \in stored : Has(v)'
    BY <2>1, GrowthKeeps DEF WrittenIsStored, TypeOK
  <2>3. CASE at[w] = "calls" /\ whole[w]
    <3>1. Progress(w)
      BY <2>3 DEF ProgressInv, Writing, Batched
    <3>2. Has(version[w]) /\ version[w] \in Versions
      BY <1>2, <2>3, <3>1, ProgressEnds DEF EndOfList, TypeOK
    <3>3. Has(version[w])'
      BY <1>2, <3>2 DEF EndOfList, Has, graph, nodes, relationships, Proceed
    <3> QED
      BY <1>2, <2>2, <2>3, <3>3 DEF EndOfList, WrittenIsStored, Proceed
  <2>4. CASE ~(at[w] = "calls" /\ whole[w])
    BY <1>2, <2>2, <2>4 DEF EndOfList, WrittenIsStored
  <2> QED
    BY <2>3, <2>4
<1>3. CASE ~Delete /\ ~(\E w \in Writers : EndOfList(w))
  <2>1. Grows
    BY <1>3, StepGrows, OthersGrow DEF vars
  <2>2. stored' = stored
    BY <1>3 DEF Next, Begin, WriteRepository, WriteBatch, WriteServices, Break, vars
  <2> QED
    BY <2>1, <2>2, GrowthKeeps DEF WrittenIsStored, TypeOK
<1> QED
  BY <1>1, <1>2, <1>3

LEMMA TouchedStep ==
    ASSUME TypeOK, TouchedInv, [Next]_vars
    PROVE  TouchedInv'
<1> SUFFICES ASSUME NEW x \in Writers, at'[x] \in Writing
             PROVE  version'[x] \in touched'
  BY DEF TouchedInv
<1> USE PlacesOf DEF TypeOK
<1>1. ASSUME NEW w \in Writers, NEW v \in Versions, Begin(w, v)
      PROVE  version'[x] \in touched'
  BY <1>1 DEF Begin, TouchedInv
<1>2. ASSUME NEW w \in Writers, at[w] \in Writing,
             at'[x] = at[x] \/ x = w, UNCHANGED <<version, touched>>
      PROVE  version'[x] \in touched'
  BY <1>2 DEF TouchedInv
<1>3. ASSUME NEW w \in Writers,
             WriteRepository(w) \/ WriteBatch(w) \/ EndOfList(w) \/ WriteServices(w)
               \/ Break(w)
      PROVE  version'[x] \in touched'
  <2>1. at[w] \in Writing /\ UNCHANGED <<version, touched>>
    BY <1>3 DEF WriteRepository, WriteBatch, EndOfList, WriteServices, Break,
                Proceed, Writing
  <2>2. at'[x] = at[x] \/ x = w
    BY <1>3 DEF WriteRepository, WriteBatch, EndOfList, WriteServices, Break, Proceed
  <2> QED
    BY <1>2, <2>1, <2>2
<1>4. CASE Delete
  BY <1>4 DEF Delete, Forget, Running, writer
<1>5. CASE UNCHANGED vars
  BY <1>5 DEF vars, writer, TouchedInv
<1> QED
  BY <1>1, <1>3, <1>4, <1>5 DEF Next

------------------------------------------------------------------------------
(* Nothing else is there.                                                     *)

LEMMA SameFromVersions ==
    ASSUME FromVersions, UNCHANGED graph, touched \subseteq touched'
    PROVE  FromVersions'
BY DEF FromVersions, graph, nodes, relationships

LEMMA PutFromVersions ==
    ASSUME TypeOK, FromVersions, NEW w \in Writers, version[w] \in touched,
           at[w] \in Batched, NEW batch \in SUBSET left[w], Put(w, batch),
           touched' = touched
    PROVE  FromVersions'
<1>0. left[w] \subseteq Items(version[w])[at[w]]
  BY DEF TypeOK
<1> DEFINE v == version[w]
<1>1. CASE at[w] = "files" /\ PutFiles(batch)
  <2>1. batch \subseteq Parsed[v]
    BY <1>0, <1>1, ItemsOf
  <2> QED
    BY <1>1, <2>1 DEF PutFiles, FromVersions
<1>2. CASE at[w] = "symbols" /\ PutSymbols(batch)
  <2>1. batch \subseteq Defines[v]
    BY <1>0, <1>2, ItemsOf
  <2> QED
    BY <1>2, <2>1 DEF PutSymbols, FromVersions, relationships
<1>3. CASE at[w] = "imports" /\ PutImports(batch)
  <2>1. batch \subseteq Imports[v]
    BY <1>0, <1>3, ItemsOf
  <2>2. \A f \in files' : \E u \in touched :
          f \in Parsed[u] \/ \E e \in Imports[u] : f = e[2]
    BY <1>3, <2>1 DEF PutImports, FromVersions
  <2>3. imports' \subseteq UNION {Imports[u] : u \in touched}
    BY <1>3, <2>1 DEF PutImports, FromVersions
  <2> QED
    BY <1>3, <2>2, <2>3 DEF PutImports, FromVersions
<1>4. CASE at[w] = "defines" /\ PutDefines(batch)
  BY <1>4 DEF PutDefines, FromVersions, nodes
<1>5. CASE at[w] = "calls" /\ PutCalls(batch)
  <2>1. batch \subseteq Calls[v]
    BY <1>0, <1>5, ItemsOf
  <2>2. \A c \in calls' : \E u \in touched :
          <<NodeOf[c[1]], NodeOf[c[2]]>> \in Calls[u]
    BY <1>5, <2>1 DEF PutCalls, FromVersions
  <2> QED
    BY <1>5, <2>2 DEF PutCalls, FromVersions, nodes
<1> QED
  BY <1>1, <1>2, <1>3, <1>4, <1>5 DEF Put

LEMMA ServicesFromVersions ==
    ASSUME FromVersions, NEW v \in touched, PutServices(v), touched' = touched
    PROVE  FromVersions'
BY DEF PutServices, FromVersions

LEMMA RepositoryFromVersions ==
    ASSUME FromVersions, NEW v \in touched, PutRepository, touched' = touched
    PROVE  FromVersions'
BY DEF PutRepository, FromVersions, relationships

LEMMA FromVersionsStep ==
    ASSUME TypeOK, TouchedInv, FromVersions, [Next]_vars
    PROVE  FromVersions'
<1> USE PlacesOf
<1>1. ASSUME NEW w \in Writers, NEW v \in Versions, Begin(w, v)
      PROVE  FromVersions'
  BY <1>1, SameFromVersions DEF Begin
<1>2. ASSUME NEW w \in Writers, WriteRepository(w)
      PROVE  FromVersions'
  <2>1. version[w] \in touched
    BY <1>2 DEF WriteRepository, TouchedInv, Writing
  <2> QED
    BY <1>2, <2>1, RepositoryFromVersions DEF WriteRepository, Proceed
<1>3. ASSUME NEW w \in Writers, WriteBatch(w)
      PROVE  FromVersions'
  <2>1. version[w] \in touched
    BY <1>3 DEF WriteBatch, TouchedInv
  <2> QED
    BY <1>3, <2>1, PutFromVersions DEF WriteBatch, Batches
<1>4. ASSUME NEW w \in Writers, EndOfList(w)
      PROVE  FromVersions'
  BY <1>4, SameFromVersions DEF EndOfList, Proceed
<1>5. ASSUME NEW w \in Writers, WriteServices(w)
      PROVE  FromVersions'
  <2>1. version[w] \in touched
    BY <1>5 DEF WriteServices, TouchedInv, Writing
  <2> QED
    BY <1>5, <2>1, ServicesFromVersions DEF WriteServices, Proceed
<1>6. ASSUME NEW w \in Writers, Break(w)
      PROVE  FromVersions'
  <2>1. version[w] \in touched /\ touched' = touched
    BY <1>6 DEF Break, TouchedInv
  <2>2. ASSUME NEW batch \in Batches(w), Put(w, batch)
        PROVE  FromVersions'
    <3>1. at[w] \in Batched /\ batch \in SUBSET left[w]
      BY <2>2 DEF Put, Batched, Batches
    <3> QED
      BY <2>1, <2>2, <3>1, PutFromVersions
  <2> QED
    BY <1>6, <2>1, <2>2, RepositoryFromVersions, ServicesFromVersions,
       SameFromVersions DEF Break
<1>7. CASE Delete
  BY <1>7 DEF Delete, FromVersions
<1>8. CASE UNCHANGED vars
  BY <1>8, SameFromVersions DEF vars
<1> QED
  BY <1>1, <1>2, <1>3, <1>4, <1>5, <1>6, <1>7, <1>8 DEF Next

------------------------------------------------------------------------------
(* The theorems.                                                              *)

LEMMA InitInv ==
    ASSUME GraphAssumption, Init
    PROVE  GraphInv
<1>1. TypeOK
  BY InitType
<1>2. ProgressInv /\ TouchedInv
  BY DEF Init, ProgressInv, TouchedInv, Writing, Batched
<1>3. WrittenIsStored /\ FromVersions
  BY DEF Init, WrittenIsStored, FromVersions
<1> QED
  BY <1>1, <1>2, <1>3 DEF GraphInv

LEMMA InvStep ==
    ASSUME GraphInv, [Next]_vars
    PROVE  GraphInv'
<1> USE DEF GraphInv
<1>1. TypeOK'
  BY TypeStep, GraphAssumption, VersionsCoherent
<1>2. ProgressInv'
  BY ProgressStep
<1>3. TouchedInv'
  BY TouchedStep
<1>4. WrittenIsStored'
  BY StoredStep
<1>5. FromVersions'
  BY FromVersionsStep
<1> QED
  BY <1>1, <1>2, <1>3, <1>4, <1>5

\* The inductive invariant behind them: writers progress, and what they wrote stays.
THEOREM Inductive == Spec => []GraphInv
<1>1. Init => GraphInv
  BY InitInv, GraphAssumption
<1>2. GraphInv /\ [Next]_vars => GraphInv'
  BY InvStep
<1> QED
  BY <1>1, <1>2, PTL DEF Spec

\* A version that was written to its end is in the graph until it is deleted.
THEOREM WrittenVersionsStay == Spec => []WrittenIsStored
<1>1. GraphInv => WrittenIsStored
  BY DEF GraphInv
<1> QED
  BY <1>1, Inductive, PTL

\* Nothing is in the graph that no version brought there since it was deleted.
THEOREM NothingForeign == Spec => []FromVersions
<1>1. GraphInv => FromVersions
  BY DEF GraphInv
<1> QED
  BY <1>1, Inductive, PTL

\* The integrity check finds no fault where every version was written to its end.
THEOREM IntegritySound == Spec => []SoundWhenWhole
<1>1. GraphInv => SoundWhenWhole
  <2> SUFFICES ASSUME GraphInv, touched \subseteq stored
               PROVE  /\ OrphanedSymbols = {}
                      /\ MissingDefines = {}
                      /\ \A f \in OrphanedFiles : Unresolved(f)
    BY DEF SoundWhenWhole
  <2>1. \A v \in touched : Has(v)
    BY DEF GraphInv, WrittenIsStored
  <2>2. symbols \subseteq defined
    <3> SUFFICES ASSUME NEW s \in symbols
                 PROVE  s \in defined
      OBVIOUS
    <3>1. PICK v \in touched : s \in Defines[v]
      BY DEF GraphInv, FromVersions
    <3> QED
      BY <2>1, <3>1 DEF Has
  <2>3. \A f \in OrphanedFiles : Unresolved(f)
    BY <2>1 DEF OrphanedFiles, Unresolved, Has
  <2> QED
    BY <2>2, <2>3 DEF OrphanedSymbols, MissingDefines
<1> QED
  BY <1>1, Inductive, PTL

------------------------------------------------------------------------------
(* Walks and trails, for any edges.                                           *)

\* Every set of numbers that is not empty has a least element.
LEMMA LeastNumber ==
    ASSUME NEW T, T \subseteq Nat, T # {}
    PROVE  \E m \in T : \A k \in T : m <= k
<1> DEFINE below == OpToRel(<, Nat)
<1>1. \E m \in T : \A k \in T : ~(<<k, m>> \in below)
  BY NatLessThanWellFounded, WFMin
<1>2. \A k, m \in Nat : <<k, m>> \in below <=> k < m
  BY DEF OpToRel
<1> HIDE DEF below
<1>3. PICK m \in T : \A k \in T : ~(<<k, m>> \in below)
  BY <1>1
<1>4. ASSUME NEW k \in T
      PROVE  m <= k
  <2>1. m \in Nat /\ k \in Nat
    OBVIOUS
  <2>2. ~(k < m)
    BY <1>2, <1>3, <2>1
  <2> QED
    BY <2>1, <2>2
<1> QED
  BY <1>4

LEMMA MoreWalks ==
    ASSUME NEW edges, NEW others, edges \subseteq others, NEW f, NEW i \in Nat \ {0}
    PROVE  Walks(edges, f, i) \subseteq Walks(others, f, i)
BY DEF Walks

LEMMA ReachOf ==
    ASSUME NEW edges, NEW fs, NEW n \in Nat, NEW y
    PROVE  y \in Reach(edges, fs, n) <=>
             \E f \in fs : \E i \in 1..n : \E w \in Walks(edges, f, i) : y = w[i][2]
<1> DEFINE Last(f, i) == {w[i][2] : w \in Walks(edges, f, i)}
<1>1. Reach(edges, fs, n) = UNION {Last(f, i) : f \in fs, i \in 1..n}
  BY DEF Reach
<1>2. ASSUME NEW f \in fs, NEW i \in 1..n
      PROVE  Last(f, i) \in {Last(g, k) : g \in fs, k \in 1..n}
  OBVIOUS
<1>3. y \in Reach(edges, fs, n) <=> \E f \in fs : \E i \in 1..n : y \in Last(f, i)
  <2> HIDE DEF Last
  <2> QED
    BY <1>1, <1>2
<1> QED
  BY <1>3

\* A walk that uses an edge twice has a shorter one with the same ends: without
\* what lies between.
LEMMA Shortcut ==
    ASSUME NEW edges, NEW f, NEW i \in Nat \ {0}, NEW w \in Walks(edges, f, i),
           NEW j \in 1..i, NEW k \in 1..i, j < k, w[j] = w[k]
    PROVE  \E n \in 1..(i - 1) : \E u \in Walks(edges, f, n) : u[n] = w[i]
<1> DEFINE d == k - j
           n == i - d
           u == [a \in 1..n |-> IF a <= j THEN w[a] ELSE w[a + d]]
<1>1. d \in 1..(i - 1) /\ n \in 1..(i - 1) /\ j \in 1..n /\ k = j + d /\ i = n + d
  OBVIOUS
<1>2. \A a \in 1..n : a \in 1..i /\ a + d \in 1..i
  BY <1>1
<1>3. w \in [1..i -> edges] /\ w[1][1] = f /\ \A a \in 2..i : w[a][1] = w[a - 1][2]
  BY DEF Walks
<1> HIDE DEF d, n
<1>4. u \in [1..n -> edges]
  BY <1>2, <1>3
<1>5. u[1] = w[1]
  BY <1>1
<1>6. ASSUME NEW a \in 2..n
      PROVE  u[a][1] = u[a - 1][2]
  <2>1. a \in 1..n /\ a - 1 \in 1..n /\ n \in Nat /\ d \in Nat
    BY <1>1, <1>6
  <2>2. CASE a <= j
    <3>1. u[a] = w[a] /\ u[a - 1] = w[a - 1] /\ a \in 2..i
      BY <1>1, <2>1, <2>2
    <3> QED
      BY <1>3, <3>1
  <2>3. CASE a = j + 1
    <3>1. u[a] = w[k + 1] /\ u[a - 1] = w[j] /\ k + 1 \in 2..i /\ k + 1 - 1 = k
      BY <1>1, <2>1, <2>3
    <3> QED
      BY <1>3, <3>1
  <2>4. CASE a > j + 1
    <3>1. /\ u[a] = w[a + d] /\ u[a - 1] = w[(a + d) - 1] /\ a + d \in 2..i
      BY <1>1, <2>1, <2>4
    <3> QED
      BY <1>3, <3>1
  <2> QED
    BY <2>1, <2>2, <2>3, <2>4
<1>7. u[n] = w[i]
  <2>1. CASE n <= j
    <3>1. n = j /\ i = k
      BY <1>1, <2>1
    <3> QED
      BY <1>1, <3>1
  <2>2. CASE n > j
    BY <1>1, <2>2
  <2> QED
    BY <1>1, <2>1, <2>2
<1> HIDE DEF u
<1>8. u \in Walks(edges, f, n)
  BY <1>3, <1>4, <1>5, <1>6 DEF Walks
<1> QED
  BY <1>1, <1>7, <1>8

\* Trails end where walks do: the shortest walk is a trail.
LEMMA TrailsReach ==
    ASSUME NEW edges, NEW f, NEW n \in Nat
    PROVE  {x[1] : x \in TrailEnds(edges, f, n)} = Reach(edges, {f}, n)
<1>1. ASSUME NEW x \in TrailEnds(edges, f, n)
      PROVE  x[1] \in Reach(edges, {f}, n)
  <2>1. PICK i \in 1..n : \E w \in Trails(edges, f, i) : x = <<w[i][2], i>>
    BY DEF TrailEnds
  <2>2. PICK w \in Trails(edges, f, i) : x = <<w[i][2], i>>
    BY <2>1
  <2>3. w \in Walks(edges, f, i) /\ x[1] = w[i][2]
    BY <2>2 DEF Trails
  <2> QED
    BY <2>3, ReachOf
<1>2. ASSUME NEW y \in Reach(edges, {f}, n)
      PROVE  \E x \in TrailEnds(edges, f, n) : x[1] = y
  <2> DEFINE lengths == {i \in 1..n : \E w \in Walks(edges, f, i) : w[i][2] = y}
  <2>1. lengths # {} /\ lengths \subseteq Nat
    BY ReachOf
  <2>2. PICK i \in lengths : \A k \in lengths : i <= k
    BY <2>1, LeastNumber
  <2>3. PICK w \in Walks(edges, f, i) : w[i][2] = y
    BY <2>2
  <2>4. ASSUME NEW j \in 1..i, NEW k \in 1..i, j < k
        PROVE  w[j] # w[k]
    <3>1. i \in 1..n /\ i \in Nat \ {0}
      BY <2>2
    <3> SUFFICES ASSUME w[j] = w[k]
                 PROVE  FALSE
      OBVIOUS
    <3>2. PICK m \in 1..(i - 1) : \E u \in Walks(edges, f, m) : u[m] = w[i]
      BY <2>3, <2>4, <3>1, Shortcut
    <3>3. m \in lengths
      BY <2>3, <3>1, <3>2
    <3> QED
      BY <2>2, <3>1, <3>2, <3>3
  <2>5. \A j, k \in 1..i : w[j] = w[k] => j = k
    <3> SUFFICES ASSUME NEW j \in 1..i, NEW k \in 1..i, j # k
                 PROVE  w[j] # w[k]
      OBVIOUS
    <3>1. j < k \/ k < j
      BY <2>2
    <3> QED
      BY <2>4, <3>1
  <2>6. w \in Trails(edges, f, i) /\ i \in 1..n
    BY <2>2, <2>3, <2>5 DEF Trails
  <2>7. <<y, i>> \in TrailEnds(edges, f, n)
    BY <2>3, <2>6 DEF TrailEnds
  <2> QED
    BY <2>7
<1> QED
  BY <1>1, <1>2

\* A walk along the reversed edges is one along the edges, the other way round.
LEMMA BackWalk ==
    ASSUME NEW edges, \A e \in edges : e = <<e[1], e[2]>>, NEW f, NEW i \in Nat \ {0},
           NEW g, NEW w \in Walks(Reversed(edges), f, i), w[i][2] = g
    PROVE  \E u \in Walks(edges, g, i) : u[i][2] = f
<1>1. w \in [1..i -> Reversed(edges)] /\ w[1][1] = f /\ \A a \in 2..i : w[a][1] = w[a - 1][2]
  BY DEF Walks
<1>2. \A a \in 1..i : <<w[a][2], w[a][1]>> \in edges
  <2> SUFFICES ASSUME NEW a \in 1..i
               PROVE  <<w[a][2], w[a][1]>> \in edges
    OBVIOUS
  <2>1. PICK e \in edges : w[a] = <<e[2], e[1]>>
    BY <1>1 DEF Reversed
  <2>2. e = <<e[1], e[2]>>
    OBVIOUS
  <2> QED
    BY <2>1, <2>2
<1> DEFINE u == [a \in 1..i |-> <<w[i + 1 - a][2], w[i + 1 - a][1]>>]
<1>3. \A a \in 1..i : i + 1 - a \in 1..i
  OBVIOUS
<1>4. u \in [1..i -> edges]
  BY <1>2, <1>3
<1>5. u[1][1] = g /\ u[i][2] = f
  BY <1>1
<1>6. ASSUME NEW a \in 2..i
      PROVE  u[a][1] = u[a - 1][2]
  <2>1. /\ a \in 1..i /\ a - 1 \in 1..i /\ i + 1 - a \in 1..i
        /\ i + 1 - (a - 1) \in 2..i /\ (i + 1 - (a - 1)) - 1 = i + 1 - a
    OBVIOUS
  <2>2. u[a][1] = w[i + 1 - a][2] /\ u[a - 1][2] = w[i + 1 - (a - 1)][1]
    BY <2>1
  <2> QED
    BY <1>1, <2>1, <2>2
<1> HIDE DEF u
<1> QED
  BY <1>4, <1>5, <1>6 DEF Walks

\* Two walks, the second from where the first ends, make one.
LEMMA Joined ==
    ASSUME NEW edges, NEW f, NEW i \in Nat \ {0}, NEW k \in Nat \ {0},
           NEW w \in Walks(edges, f, i), NEW u \in Walks(edges, w[i][2], k)
    PROVE  u[k][2] \in Reach(edges, {f}, i + k)
<1> DEFINE both == [a \in 1..(i + k) |-> IF a <= i THEN w[a] ELSE u[a - i]]
<1>1. w \in [1..i -> edges] /\ w[1][1] = f /\ \A a \in 2..i : w[a][1] = w[a - 1][2]
  BY DEF Walks
<1>2. u \in [1..k -> edges] /\ u[1][1] = w[i][2] /\ \A a \in 2..k : u[a][1] = u[a - 1][2]
  BY DEF Walks
<1>3. both \in [1..(i + k) -> edges]
  BY <1>1, <1>2
<1>4. both[1][1] = f /\ both[i + k][2] = u[k][2]
  BY <1>1
<1>5. ASSUME NEW a \in 2..(i + k)
      PROVE  both[a][1] = both[a - 1][2]
  <2>1. a \in 1..(i + k) /\ a - 1 \in 1..(i + k)
    OBVIOUS
  <2>2. CASE a <= i
    BY <1>1, <2>1, <2>2
  <2>3. CASE a = i + 1
    <3>1. both[a] = u[1] /\ both[a - 1] = w[i]
      BY <2>1, <2>3
    <3> QED
      BY <1>2, <3>1
  <2>4. CASE a > i + 1
    <3>1. both[a] = u[a - i] /\ both[a - 1] = u[(a - i) - 1] /\ a - i \in 2..k
      BY <2>1, <2>4
    <3> QED
      BY <1>2, <3>1
  <2> QED
    BY <2>1, <2>2, <2>3, <2>4
<1> HIDE DEF both
<1>6. both \in Walks(edges, f, i + k)
  BY <1>3, <1>4, <1>5 DEF Walks
<1> QED
  BY <1>4, <1>6, ReachOf

------------------------------------------------------------------------------
(* The queries.                                                               *)

LEMMA AffectedRows ==
    ASSUME QueryAssumption, services \subseteq Services, NEW changed, NEW n \in Nat
    PROVE  {x[1] : x \in BlastRows(changed, n)} =
             {x[1] : x \in UNION {Downstream(f, n) : f \in changed}}
<1> DEFINE affected == {x[1] : x \in UNION {Downstream(f, n) : f \in changed}}
<1>0. None \notin services
  BY DEF QueryAssumption
<1>1. BlastRows(changed, n) =
        {x \in affected \X (services \cup {None}) :
            IF x[2] = None THEN \A s \in services : <<s, x[1]>> \notin members
                           ELSE <<x[2], x[1]>> \in members}
  BY DEF BlastRows
<1> HIDE DEF affected
<1>x. \A x \in BlastRows(changed, n) : x[1] \in affected
  BY <1>1
<1>2. ASSUME NEW f \in affected
      PROVE  \E x \in BlastRows(changed, n) : x[1] = f
  <2>1. CASE \E s \in services : <<s, f>> \in members
    <3>1. PICK s \in services : <<s, f>> \in members
      BY <2>1
    <3>2. <<f, s>> \in BlastRows(changed, n)
      BY <1>0, <1>1, <3>1
    <3> QED
      BY <3>2
  <2>2. CASE \A s \in services : <<s, f>> \notin members
    <3>1. <<f, None>> \in BlastRows(changed, n)
      BY <1>1, <2>2
    <3> QED
      BY <3>1
  <2> QED
    BY <2>1, <2>2
<1>3. {x[1] : x \in BlastRows(changed, n)} = affected
  BY <1>x, <1>2
<1> QED
  BY <1>3 DEF affected

\* The files that a query for the blast radius finds are those that the imports
\* lead back to.
LEMMA AffectedAreReached ==
    ASSUME QueryAssumption, TypeOK, NEW changed, NEW n \in Nat
    PROVE  {x[1] : x \in BlastRows(changed, n)} = Reach(Reversed(imports), changed, n)
<1> DEFINE back == Reversed(imports)
<1>1. {x[1] : x \in BlastRows(changed, n)} =
        {x[1] : x \in UNION {Downstream(f, n) : f \in changed}}
  BY AffectedRows DEF TypeOK
<1>2. ASSUME NEW f \in changed, NEW i \in 1..n, NEW w \in Walks(back, f, i)
      PROVE  f \in files
  <2>1. w[1] \in back /\ w[1][1] = f
    BY DEF Walks
  <2>2. PICK e \in imports : w[1] = <<e[2], e[1]>>
    BY <2>1 DEF Reversed
  <2> QED
    BY <2>1, <2>2 DEF TypeOK
<1>3. ASSUME NEW f \in changed, NEW x \in Downstream(f, n)
      PROVE  x[1] \in Reach(back, changed, n)
  <2>1. x \in TrailEnds(back, f, n)
    BY DEF Downstream
  <2>2. x[1] \in Reach(back, {f}, n)
    BY <2>1, TrailsReach
  <2> QED
    BY <2>2, ReachOf
<1>4. ASSUME NEW y \in Reach(back, changed, n)
      PROVE  \E f \in changed : \E x \in Downstream(f, n) : x[1] = y
  <2>1. PICK f \in changed : \E i \in 1..n : \E w \in Walks(back, f, i) : y = w[i][2]
    BY ReachOf
  <2>2. f \in files
    BY <1>2, <2>1
  <2>3. y \in Reach(back, {f}, n)
    BY <2>1, ReachOf
  <2>4. \E x \in TrailEnds(back, f, n) : x[1] = y
    BY <2>3, TrailsReach
  <2> QED
    BY <2>2, <2>4 DEF Downstream
<1> HIDE DEF back
<1>5. {x[1] : x \in UNION {Downstream(f, n) : f \in changed}} = Reach(back, changed, n)
  BY <1>3, <1>4
<1> QED
  BY <1>1, <1>5 DEF back

\* What a query finds upstream and downstream, it finds at the end of a walk.
LEMMA UpstreamWalks ==
    ASSUME NEW f, NEW n \in Nat, NEW x \in Upstream(f, n)
    PROVE  x[2] \in Nat \ {0} /\ \E w \in Walks(imports, f, x[2]) : w[x[2]][2] = x[1]
<1>1. PICK i \in 1..n : \E w \in Trails(imports, f, i) : x = <<w[i][2], i>>
  BY DEF Upstream, TrailEnds
<1>2. PICK w \in Trails(imports, f, i) : x = <<w[i][2], i>>
  BY <1>1
<1>3. w \in Walks(imports, f, i) /\ x[2] = i /\ x[1] = w[i][2]
  BY <1>2 DEF Trails
<1> QED
  BY <1>3

LEMMA DownstreamWalks ==
    ASSUME NEW f, NEW n \in Nat, NEW x \in Downstream(f, n)
    PROVE  x[2] \in Nat \ {0} /\ \E w \in Walks(Reversed(imports), f, x[2]) : w[x[2]][2] = x[1]
<1>1. PICK i \in 1..n : \E w \in Trails(Reversed(imports), f, i) : x = <<w[i][2], i>>
  BY DEF Downstream, TrailEnds
<1>2. PICK w \in Trails(Reversed(imports), f, i) : x = <<w[i][2], i>>
  BY <1>1
<1>3. w \in Walks(Reversed(imports), f, i) /\ x[2] = i /\ x[1] = w[i][2]
  BY <1>2 DEF Trails
<1> QED
  BY <1>3

\* When every version touched is stored, the imports are those of the versions.
LEMMA ImportsOfVersions ==
    ASSUME GraphInv, touched \subseteq stored
    PROVE  imports = UNION {Imports[v] : v \in touched}
<1>1. \A v \in touched : Imports[v] \subseteq imports
  BY DEF GraphInv, WrittenIsStored, Has
<1>2. imports \subseteq UNION {Imports[v] : v \in touched}
  BY DEF GraphInv, FromVersions
<1> QED
  BY <1>1, <1>2

------------------------------------------------------------------------------
(* What a reader holds: an inductive invariant.                               *)

StepOfKind ==
    /\ step \in {"idle", "downstream", "enrich", "edges", "answered"}
    /\ query.hops \in Nat
    /\ since \in BOOLEAN
    /\ asked \subseteq Versions
    /\ query.kind = "dependencies" => \A f, g \in query.about : f = g
    /\ step = "idle" => query.kind = None
    /\ step = "downstream" => query.kind = "dependencies"
    /\ step = "enrich" => query.kind = "blast"
    /\ step = "edges" => query.kind = "topology"

\* The versions that were there at the first transaction still are.
AskedKept == step # "idle" /\ ~since => \A v \in asked : Has(v)

\* An affected file imports something, and none is forgotten.
Importing(f) == f \in files /\ \E e \in imports : e[1] = f

EnrichInv ==
    query.kind = "blast" =>
        /\ Affected = DOMAIN score \cup more
        /\ ~since => \A f \in Affected : Importing(f)
        /\ \A f \in DOMAIN score : score[f] > 0 \/ since \/ f \in failed

\* What the two answers say of a file is a walk along the imports.
DependencyInv ==
    query.kind = "dependencies" /\ ~since =>
        \A f \in query.about :
            /\ \A x \in rows : /\ x[2] \in Nat \ {0}
                               /\ \E w \in Walks(imports, f, x[2]) : w[x[2]][2] = x[1]
            /\ step = "answered" =>
                 \A y \in more : /\ y[2] \in Nat \ {0}
                                 /\ \E w \in Walks(imports, y[1], y[2]) : w[y[2]][2] = f

\* The services were read when the versions were there, and so were the imports.
TopologyInv ==
    query.kind = "topology" /\ ~since =>
        \A v \in asked :
            /\ Boundaries[v] \subseteq rows
            /\ step = "answered" =>
                 \A s, t \in Boundaries[v], e \in Imports[v] :
                    s # t /\ <<s, e[1]>> \in Members[v] /\ <<t, e[2]>> \in Members[v]
                        /\ e[2] \in Parsed[v]
                    => <<s, t>> \in more

QueryInv ==
    /\ GraphInv
    /\ IsFiniteSet(imports)
    /\ StepOfKind
    /\ AskedKept
    /\ BlastIsReachability
    /\ EnrichInv
    /\ DependencyInv
    /\ TopologyInv

\* A batch of imports is part of a version's, which are finitely many.
LEMMA PutImportsFinite ==
    ASSUME VersionsCoherent, TypeOK, IsFiniteSet(imports), NEW w \in Writers,
           NEW batch \in SUBSET left[w], Put(w, batch)
    PROVE  IsFiniteSet(imports')
<1>1. CASE at[w] = "imports" /\ PutImports(batch)
  <2>1. left[w] \subseteq Imports[version[w]] /\ version[w] \in Versions
    BY <1>1, ItemsOf DEF TypeOK, Batched
  <2>2. IsFiniteSet({e \in batch : e[1] \in files})
    <3>1. IsFiniteSet(Imports[version[w]])
      BY <2>1 DEF VersionsCoherent
    <3>2. {e \in batch : e[1] \in files} \subseteq Imports[version[w]]
      BY <2>1
    <3> QED
      BY <3>1, <3>2, FS_Subset
  <2>3. imports' = imports \cup {e \in batch : e[1] \in files}
    BY <1>1 DEF PutImports
  <2> QED
    BY <2>2, <2>3, FS_Union
<1>2. CASE ~(at[w] = "imports" /\ PutImports(batch))
  <2>1. imports' = imports
    BY <1>2 DEF Put, PutFiles, PutSymbols, PutDefines, PutCalls, relationships
  <2> QED
    BY <2>1
<1> QED
  BY <1>1, <1>2

LEMMA ImportsFinite ==
    ASSUME VersionsCoherent, TypeOK, IsFiniteSet(imports), [Next]_vars
    PROVE  IsFiniteSet(imports')
<1> USE DEF graph, nodes, relationships
<1>1. ASSUME NEW w \in Writers, NEW v \in Versions, Begin(w, v)
      PROVE  IsFiniteSet(imports')
  BY <1>1 DEF Begin
<1>2. ASSUME NEW w \in Writers, WriteRepository(w)
      PROVE  IsFiniteSet(imports')
  BY <1>2 DEF WriteRepository, PutRepository
<1>3. ASSUME NEW w \in Writers, WriteBatch(w)
      PROVE  IsFiniteSet(imports')
  <2>1. PICK batch \in SUBSET left[w] : Put(w, batch)
    BY <1>3 DEF WriteBatch, Batches
  <2> QED
    BY <2>1, PutImportsFinite
<1>4. ASSUME NEW w \in Writers, EndOfList(w)
      PROVE  IsFiniteSet(imports')
  BY <1>4 DEF EndOfList
<1>5. ASSUME NEW w \in Writers, WriteServices(w)
      PROVE  IsFiniteSet(imports')
  BY <1>5 DEF WriteServices, PutServices
<1>6. ASSUME NEW w \in Writers, Break(w)
      PROVE  IsFiniteSet(imports')
  <2>1. CASE \E batch \in Batches(w) : Put(w, batch)
    <3>1. PICK batch \in SUBSET left[w] : Put(w, batch)
      BY <2>1 DEF Batches
    <3> QED
      BY <3>1, PutImportsFinite
  <2>2. CASE ~\E batch \in Batches(w) : Put(w, batch)
    <3>1. imports' = imports
      BY <1>6, <2>2 DEF Break, PutRepository, PutServices
    <3> QED
      BY <3>1
  <2> QED
    BY <2>1, <2>2
<1>7. CASE Delete
  <2>1. imports' = {}
    BY <1>7 DEF Delete
  <2> QED
    BY <2>1, FS_EmptySet
<1>8. CASE UNCHANGED vars
  BY <1>8 DEF vars
<1> QED
  BY <1>1, <1>2, <1>3, <1>4, <1>5, <1>6, <1>7, <1>8 DEF Next

\* A writer's step leaves what the reader holds true, for it only adds to the
\* graph, or the reader takes note that it was deleted.
LEMMA WriteKeeps ==
    ASSUME VersionsCoherent, QueryInv, Write
    PROVE  StepOfKind' /\ AskedKept' /\ BlastIsReachability' /\ EnrichInv'
           /\ DependencyInv' /\ TopologyInv'
<1>0. /\ UNCHANGED <<query, step, rows, more, score, failed, asked>>
      /\ since' = (since \/ (step # "idle" /\ Delete)) /\ Next
  BY DEF Write
<1>1. StepOfKind' /\ BlastIsReachability'
  BY <1>0 DEF QueryInv, StepOfKind, BlastIsReachability, Affected
<1>2. CASE step # "idle" /\ ~since'
  <2>1. Grows /\ ~since
    BY <1>0, <1>2, StepGrows DEF QueryInv, StepOfKind
  <2>2. AskedKept'
    BY <1>0, <1>2, <2>1, GrowthKeeps DEF QueryInv, StepOfKind, AskedKept
  <2>3. EnrichInv'
    BY <1>0, <2>1 DEF QueryInv, EnrichInv, Affected, Importing, Grows
  <2>4. DependencyInv'
    <3> SUFFICES ASSUME query.kind = "dependencies", NEW f \in query.about
                 PROVE  /\ \A x \in rows :
                             /\ x[2] \in Nat \ {0}
                             /\ \E w \in Walks(imports', f, x[2]) : w[x[2]][2] = x[1]
                        /\ step = "answered" =>
                             \A y \in more :
                               /\ y[2] \in Nat \ {0}
                               /\ \E w \in Walks(imports', y[1], y[2]) : w[y[2]][2] = f
      BY <1>0 DEF DependencyInv, Walks
    <3>1. imports \subseteq imports'
      BY <2>1 DEF Grows
    <3>2. \A g : \A i \in Nat \ {0} : Walks(imports, g, i) \subseteq Walks(imports', g, i)
      BY <3>1, MoreWalks
    <3> QED
      BY <2>1, <3>2 DEF QueryInv, DependencyInv
  <2>5. TopologyInv'
    BY <1>0, <2>1 DEF QueryInv, TopologyInv
  <2> QED
    BY <1>1, <2>2, <2>3, <2>4, <2>5
<1>3. CASE step = "idle"
  BY <1>0, <1>1, <1>3
     DEF QueryInv, StepOfKind, AskedKept, EnrichInv, DependencyInv, TopologyInv, None
<1>4. CASE since'
  BY <1>0, <1>1, <1>4 DEF QueryInv, AskedKept, EnrichInv, DependencyInv, TopologyInv,
     Affected
<1> QED
  BY <1>1, <1>2, <1>3, <1>4

\* What a first transaction finds true, and remembers as asked.
LEMMA AskKeeps ==
    ASSUME QueryInv, UNCHANGED vars, NEW kind, NEW about, NEW n \in Nat,
           Ask(kind, about, n), kind # None,
           step' \in {"downstream", "enrich", "edges"},
           step' = "downstream" => kind = "dependencies",
           step' = "enrich" => kind = "blast",
           step' = "edges" => kind = "topology",
           kind = "dependencies" => \A f, g \in about : f = g
    PROVE  /\ StepOfKind' /\ AskedKept'
           /\ query'.kind = kind /\ query'.about = about /\ query'.hops = n
           /\ since' = FALSE /\ score' = <<>>
           /\ asked' # {} => asked' = touched /\ touched \subseteq stored
<1>1. /\ query' = [kind |-> kind, about |-> about, hops |-> n]
      /\ asked' = IF touched \subseteq stored THEN touched ELSE {}
      /\ since' = FALSE /\ score' = <<>>
  BY DEF Ask
<1>2. asked' \subseteq Versions /\ asked' \subseteq stored
  BY <1>1 DEF QueryInv, GraphInv, TypeOK
<1>3. StepOfKind'
  <2>1. query'.kind = kind /\ query'.about = about /\ query'.hops = n
    BY <1>1
  <2> QED
    BY <1>1, <1>2, <2>1 DEF StepOfKind
<1>4. AskedKept'
  BY <1>2 DEF AskedKept, QueryInv, GraphInv, WrittenIsStored, Has, vars, graph, nodes,
     relationships
<1> QED
  BY <1>1, <1>3, <1>4

LEMMA ReadKeeps ==
    ASSUME QueryAssumption, VersionsCoherent, QueryInv, Read, UNCHANGED vars
    PROVE  StepOfKind' /\ AskedKept' /\ BlastIsReachability' /\ EnrichInv'
           /\ DependencyInv' /\ TopologyInv'
<1> DEFINE Goal == StepOfKind' /\ AskedKept' /\ BlastIsReachability' /\ EnrichInv'
                   /\ DependencyInv' /\ TopologyInv'
<1>s. /\ UNCHANGED <<repository, files, symbols, services, contained, defined, imports,
                     members, calls>>
      /\ UNCHANGED <<touched, stored>>
  BY DEF vars, graph, nodes, relationships
<1>t. TypeOK /\ imports \in SUBSET (files \X files)
  BY DEF QueryInv, GraphInv, TypeOK
<1>1. ASSUME NEW n \in 1..MaxHops, NEW f \in Ends, AskDependencies(f, n)
      PROVE  Goal
  <2>1. Ask("dependencies", {f}, n) /\ step' = "downstream" /\ rows' = Upstream(f, n)
    BY <1>1 DEF AskDependencies
  <2>2. n \in Nat /\ "dependencies" # None /\ \A g, h \in {f} : g = h
    BY DEF QueryAssumption, None
  <2>3. /\ StepOfKind' /\ AskedKept' /\ query'.kind = "dependencies"
        /\ query'.about = {f}
    BY <2>1, <2>2, AskKeeps
  <2>4. DependencyInv'
    BY <1>s, <2>1, <2>2, <2>3, UpstreamWalks DEF DependencyInv, Walks
  <2> QED
    BY <2>3, <2>4 DEF BlastIsReachability, EnrichInv, TopologyInv
<1>2. ASSUME NEW n \in 1..MaxHops, NEW changed \in SUBSET Ends \ {{}},
             AskBlastRadius(changed, n)
      PROVE  Goal
  <2>1. /\ Ask("blast", changed, n) /\ step' = "enrich"
        /\ rows' = BlastRows(changed, n) /\ more' = {x[1] : x \in rows'}
    BY <1>2 DEF AskBlastRadius
  <2>2. n \in Nat /\ "blast" # None /\ "blast" # "dependencies"
    BY DEF QueryAssumption, None
  <2>3. /\ StepOfKind' /\ AskedKept' /\ query'.kind = "blast"
        /\ query'.about = changed /\ query'.hops = n /\ score' = <<>> /\ ~since'
        /\ asked' # {} => asked' = touched /\ touched \subseteq stored
    <3>1. Ask("blast", changed, n)
      BY <2>1
    <3>2. /\ step' \in {"downstream", "enrich", "edges"}
          /\ step' # "downstream" /\ step' # "edges"
      BY <2>1
    <3> QED
      BY <2>2, <3>1, <3>2, AskKeeps
  <2>4. Affected' = Reach(Reversed(imports), changed, n)
    BY <1>t, <2>1, <2>2, AffectedAreReached DEF Affected
  <2>5. BlastIsReachability'
    <3> SUFFICES ASSUME asked' # {}
                 PROVE  Affected' = Reach(Reversed(UNION {Imports[v] : v \in touched}),
                                          changed, n)
      BY <2>3 DEF BlastIsReachability
    <3>1. imports = UNION {Imports[v] : v \in touched}
      BY <2>3, ImportsOfVersions DEF QueryInv
    <3> QED
      BY <2>4, <3>1
  <2>6. \A g \in Affected' : Importing(g)'
    <3> SUFFICES ASSUME NEW g \in Affected'
                 PROVE  g \in files /\ \E e \in imports : e[1] = g
      BY <1>s DEF Importing
    <3>1. PICK h \in changed : \E i \in 1..n :
                  \E w \in Walks(Reversed(imports), h, i) : g = w[i][2]
      BY <2>2, <2>4, ReachOf
    <3>2. PICK i \in 1..n : \E w \in Walks(Reversed(imports), h, i) : g = w[i][2]
      BY <3>1
    <3>3. PICK w \in Walks(Reversed(imports), h, i) : g = w[i][2]
      BY <3>2
    <3>4. w[i] \in Reversed(imports)
      BY <2>2, <3>3 DEF Walks
    <3> QED
      BY <1>t, <3>3, <3>4 DEF Reversed
  <2>7. DOMAIN score' = {}
    BY <2>3
  <2>8. EnrichInv'
    BY <2>1, <2>3, <2>6, <2>7 DEF EnrichInv, Affected
  <2> QED
    BY <2>3, <2>5, <2>8 DEF DependencyInv, TopologyInv
<1>3. CASE AskTopology
  <2>1. Ask("topology", {}, 0) /\ step' = "edges" /\ rows' = services
    BY <1>3 DEF AskTopology
  <2>2. /\ StepOfKind' /\ AskedKept' /\ query'.kind = "topology" /\ ~since'
        /\ asked' # {} => asked' = touched /\ touched \subseteq stored
    BY <2>1, AskKeeps DEF None
  <2>3. \A v \in asked' : Boundaries[v] \subseteq rows'
    BY <2>1, <2>2 DEF QueryInv, GraphInv, WrittenIsStored, Has
  <2>4. TopologyInv'
    BY <2>1, <2>3 DEF TopologyInv
  <2> QED
    BY <2>2, <2>4 DEF BlastIsReachability, EnrichInv, DependencyInv
<1>4. CASE ReadDownstream
  <2>0. /\ step = "downstream" /\ step' = "answered" /\ query.kind = "dependencies"
        /\ more' = UNION {Downstream(f, query.hops) : f \in query.about}
        /\ UNCHANGED <<query, rows, score, failed, asked, since>>
    BY <1>4 DEF ReadDownstream, QueryInv, StepOfKind
  <2>1. StepOfKind' /\ AskedKept'
    BY <1>s, <2>0 DEF QueryInv, StepOfKind, AskedKept, Has
  <2>2. DependencyInv'
    <3> SUFFICES ASSUME ~since, NEW f \in query.about
                 PROVE  /\ \A x \in rows :
                             /\ x[2] \in Nat \ {0}
                             /\ \E w \in Walks(imports, f, x[2]) : w[x[2]][2] = x[1]
                        /\ \A y \in more' :
                             /\ y[2] \in Nat \ {0}
                             /\ \E w \in Walks(imports, y[1], y[2]) : w[y[2]][2] = f
      BY <1>s, <2>0 DEF DependencyInv, Walks
    <3>1. \A x \in rows : /\ x[2] \in Nat \ {0}
                          /\ \E w \in Walks(imports, f, x[2]) : w[x[2]][2] = x[1]
      BY <2>0 DEF QueryInv, DependencyInv
    <3>2. ASSUME NEW y \in more'
          PROVE  /\ y[2] \in Nat \ {0}
                 /\ \E w \in Walks(imports, y[1], y[2]) : w[y[2]][2] = f
      <4>1. PICK g \in query.about : y \in Downstream(g, query.hops)
        BY <2>0, <3>2
      <4>2. g = f /\ query.hops \in Nat
        BY <2>0 DEF QueryInv, StepOfKind
      <4>3. /\ y[2] \in Nat \ {0}
            /\ \E w \in Walks(Reversed(imports), f, y[2]) : w[y[2]][2] = y[1]
        BY <4>1, <4>2, DownstreamWalks
      <4>4. PICK w \in Walks(Reversed(imports), f, y[2]) : w[y[2]][2] = y[1]
        BY <4>3
      <4>5. \E u \in Walks(imports, y[1], y[2]) : u[y[2]][2] = f
        <5> DEFINE k == y[2]
        <5>1. k \in Nat \ {0} /\ w \in Walks(Reversed(imports), f, k) /\ w[k][2] = y[1]
          BY <4>3, <4>4
        <5> HIDE DEF k
        <5>2. \A e \in imports : e = <<e[1], e[2]>>
          BY <1>t
        <5>3. \E u \in Walks(imports, y[1], k) : u[k][2] = f
          BY <5>1, <5>2, BackWalk
        <5> QED
          BY <5>3 DEF k
      <4> QED
        BY <4>3, <4>5
    <3> QED
      BY <3>1, <3>2
  <2> QED
    BY <2>0, <2>1, <2>2 DEF BlastIsReachability, EnrichInv, TopologyInv
<1>5. CASE Enrich
  <2>0. /\ step = "enrich" /\ query.kind = "blast"
        /\ UNCHANGED <<query, step, rows, asked, since>>
    BY <1>5 DEF Enrich, QueryInv, StepOfKind
  <2>1. PICK f \in more : MetricsOrFailure(f) /\ more' = more \ {f}
    BY <1>5 DEF Enrich
  <2>5. PICK value \in {Metrics(f), Unknown} :
          /\ score' = [g \in DOMAIN score \cup {f} |-> IF g = f THEN value ELSE score[g]]
          /\ failed \subseteq failed'
          /\ value = Metrics(f) \/ f \in failed'
    BY <2>1 DEF MetricsOrFailure
  <2>2. StepOfKind' /\ AskedKept' /\ BlastIsReachability'
    BY <1>s, <2>0 DEF QueryInv, StepOfKind, AskedKept, BlastIsReachability, Affected, Has
  <2>3. ~since => Metrics(f) > 0
    <3> SUFFICES ASSUME ~since
                 PROVE  Metrics(f) > 0
      OBVIOUS
    <3> DEFINE out == {e \in imports : e[1] = f}
               in == {e \in imports : e[2] = f}
    <3>1. f \in files /\ out # {}
      BY <2>0, <2>1 DEF QueryInv, EnrichInv, Importing, Affected
    <3>2. IsFiniteSet(out) /\ IsFiniteSet(in)
      BY FS_Subset DEF QueryInv
    <3>3. Cardinality(out) \in Nat /\ Cardinality(in) \in Nat /\ Cardinality(out) # 0
      BY <3>1, <3>2, FS_CardinalityType, FS_EmptySet
    <3>4. Metrics(f) = Cardinality(out) + Cardinality(in)
      BY <3>1 DEF Metrics
    <3> HIDE DEF out, in
    <3> QED
      BY <3>3, <3>4
  <2>4. EnrichInv'
    <3>1. DOMAIN score' = DOMAIN score \cup {f} /\ more' = more \ {f}
      BY <2>1, <2>5
    <3>2. Affected' = DOMAIN score' \cup more'
      BY <2>0, <2>1, <3>1 DEF QueryInv, EnrichInv, Affected
    <3>3. ASSUME NEW g \in DOMAIN score'
          PROVE  score'[g] > 0 \/ since \/ g \in failed'
      <4>1. CASE g = f
        BY <2>3, <2>5, <4>1
      <4>2. CASE g # f
        <5>1. score'[g] = score[g] /\ g \in DOMAIN score
          BY <2>5, <3>1, <4>2
        <5> QED
          BY <2>0, <2>5, <5>1 DEF QueryInv, EnrichInv
      <4> QED
        BY <4>1, <4>2
    <3>4. ~since => \A g \in Affected' : Importing(g)'
      BY <1>s, <2>0 DEF QueryInv, EnrichInv, Affected, Importing
    <3> QED
      BY <2>0, <3>2, <3>3, <3>4 DEF EnrichInv
  <2> QED
    BY <2>0, <2>2, <2>4 DEF DependencyInv, TopologyInv
<1>6. CASE Enriched
  <2>0. /\ step = "enrich" /\ query.kind = "blast" /\ step' = "answered" /\ more = {}
        /\ UNCHANGED <<query, rows, more, score, failed, asked, since>>
    BY <1>6 DEF Enriched, QueryInv, StepOfKind
  <2> QED
    BY <1>s, <2>0 DEF QueryInv, StepOfKind, AskedKept, BlastIsReachability, EnrichInv,
       DependencyInv, TopologyInv, Affected, Importing, Has
<1>7. CASE ReadEdges
  <2>0. /\ step = "edges" /\ query.kind = "topology" /\ step' = "answered"
        /\ more' = TopologyEdges
        /\ UNCHANGED <<query, rows, score, failed, asked, since>>
    BY <1>7 DEF ReadEdges, QueryInv, StepOfKind
  <2>1. StepOfKind' /\ AskedKept'
    BY <1>s, <2>0 DEF QueryInv, StepOfKind, AskedKept, Has
  <2>2. ASSUME ~since, NEW v \in asked, NEW s \in Boundaries[v], NEW t \in Boundaries[v],
               NEW e \in Imports[v], s # t, <<s, e[1]>> \in Members[v],
               <<t, e[2]>> \in Members[v], e[2] \in Parsed[v]
        PROVE  <<s, t>> \in TopologyEdges
    <3>1. Has(v) /\ v \in Versions
      BY <2>0, <2>2 DEF QueryInv, AskedKept, StepOfKind
    <3>2. s \in services /\ t \in services /\ e \in imports
      BY <3>1 DEF Has
    <3>3. e[1] \in Parsed[v]
      BY <3>1 DEF VersionsCoherent
    <3>4. <<s, e[1]>> \in members /\ <<t, e[2]>> \in members
      BY <2>2, <3>1, <3>3 DEF Has
    <3> QED
      BY <2>2, <3>2, <3>4 DEF TopologyEdges
  <2>3. TopologyInv'
    BY <2>0, <2>2 DEF QueryInv, TopologyInv
  <2> QED
    BY <2>0, <2>1, <2>3 DEF BlastIsReachability, EnrichInv, DependencyInv
<1>8. CASE QueryFails \/ Return
  <2>0. /\ step' = "idle" /\ query' = [kind |-> None, about |-> {}, hops |-> 0]
        /\ since' = FALSE /\ asked' = {}
    BY <1>8 DEF QueryFails, Return, EndQuery
  <2>1. query'.kind = None /\ query'.hops = 0
    BY <2>0
  <2> QED
    BY <2>0, <2>1 DEF StepOfKind, AskedKept, BlastIsReachability, EnrichInv,
       DependencyInv, TopologyInv, None
<1> QED
  BY <1>1, <1>2, <1>3, <1>4, <1>5, <1>6, <1>7, <1>8 DEF Read

LEMMA QueryInit == InitQueries => QueryInv
<1> SUFFICES ASSUME InitQueries
             PROVE  QueryInv
  OBVIOUS
<1>1. GraphInv
  BY InitInv, GraphAssumption DEF InitQueries
<1>2. IsFiniteSet(imports)
  <2>1. imports = {}
    BY DEF InitQueries, Init
  <2> QED
    BY <2>1, FS_EmptySet
<1>3. query.kind = None /\ query.hops = 0
  BY DEF InitQueries
<1> QED
  BY <1>1, <1>2, <1>3 DEF InitQueries, QueryInv, StepOfKind, AskedKept,
     BlastIsReachability, EnrichInv, DependencyInv, TopologyInv, None

LEMMA QueryStep == QueryInv /\ [NextQueries]_<<vars, reader>> => QueryInv'
<1> SUFFICES ASSUME QueryInv, [NextQueries]_<<vars, reader>>
             PROVE  QueryInv'
  OBVIOUS
<1>1. [Next]_vars
  BY DEF NextQueries, Write
<1>2. GraphInv'
  BY <1>1, InvStep DEF QueryInv
<1>3. IsFiniteSet(imports')
  BY <1>1, ImportsFinite, VersionsCoherent DEF QueryInv, GraphInv
<1>4. CASE Write
  BY <1>2, <1>3, <1>4, WriteKeeps, VersionsCoherent DEF QueryInv
<1>5. CASE Read /\ UNCHANGED vars
  BY <1>2, <1>3, <1>5, ReadKeeps, QueryAssumption, VersionsCoherent DEF QueryInv
<1>6. CASE UNCHANGED <<vars, reader>>
  BY <1>2, <1>3, <1>6 DEF QueryInv, StepOfKind, AskedKept, BlastIsReachability,
     EnrichInv, DependencyInv, TopologyInv, Affected, Importing, Has, Walks,
     vars, reader, graph, nodes, relationships
<1> QED
  BY <1>4, <1>5, <1>6 DEF NextQueries

THEOREM QueriesInductive == SpecQueries => []QueryInv
  BY QueryInit, QueryStep, PTL DEF SpecQueries

\* When all that was written is there as a whole, the blast radius is what the
\* imports of the versions lead back to, whatever cycles they form.
THEOREM RadiusIsReachability == SpecQueries => []BlastIsReachability
<1>1. QueryInv => BlastIsReachability
  BY DEF QueryInv
<1> QED
  BY <1>1, QueriesInductive, PTL

\* No affected file gets lost between the two transactions of its answer.
THEOREM AffectedAreAnswered == SpecQueries => []EveryFileAnswered
<1>1. QueryInv => EveryFileAnswered
  BY DEF QueryInv, EnrichInv, EveryFileAnswered
<1> QED
  BY <1>1, QueriesInductive, PTL

\* A cycle put together from two answers is one.
THEOREM CyclesAreReal == SpecQueries => []CyclesReal
<1>1. QueryInv => CyclesReal
  <2> SUFFICES ASSUME QueryInv, query.kind = "dependencies", step = "answered", ~since,
                      NEW f \in query.about, NEW x \in rows, NEW y \in more, x[1] = y[1]
               PROVE  f \in Reach(imports, {f}, x[2] + y[2])
    BY DEF CyclesReal
  <2>1. PICK w \in Walks(imports, f, x[2]) : w[x[2]][2] = x[1]
    BY DEF QueryInv, DependencyInv
  <2>2. PICK u \in Walks(imports, y[1], y[2]) : u[y[2]][2] = f
    BY DEF QueryInv, DependencyInv
  <2>3. x[2] \in Nat \ {0} /\ y[2] \in Nat \ {0}
    BY DEF QueryInv, DependencyInv
  <2> QED
    BY <2>1, <2>2, <2>3, Joined
<1> QED
  BY <1>1, QueriesInductive, PTL

\* The topology of a version that is there has its services and what joins them,
\* although they are read one after the other.
THEOREM TopologyIsWhole == SpecQueries => []TopologyOfVersion
<1>1. QueryInv => TopologyOfVersion
  BY DEF QueryInv, TopologyInv, TopologyOfVersion
<1> QED
  BY <1>1, QueriesInductive, PTL

==============================================================================
