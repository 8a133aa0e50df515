---------------------------- MODULE SemanticIndex ----------------------------
(****************************************************************************)
(* From the parsed symbols of a file to the answer of a search: the         *)
(* embedder (semantic/embedder.py), the vector store (semantic/             *)
(* vector_store.py, Weaviate) and the endpoint POST /search (api/rest.py).  *)
(*                                                                          *)
(* An indexer cuts the body of a symbol into chunks, embeds them in batches *)
(* with the API or, where none is configured, the local model, and when     *)
(* that fails all of them with the local model, and stores them under ids   *)
(* made of file, symbol and first line.  As in the tests, it invalidates    *)
(* the file before.  Every request to Weaviate is a step of its own, and    *)
(* objects that Weaviate refuses are refused silently.                      *)
(*                                                                          *)
(* All objects are those of one repository and a file has one symbol.       *)
(****************************************************************************)
EXTENDS Chunking, ResultAssembly

CONSTANTS
    Indexers, Files,
    BodiesOf,       \* [Indexers -> SUBSET Seq(Nat)]: what an indexer may find in a file
    EmbedBatch,     \* the batch size of both models
    MaxRetries,
    Certainty(_),   \* of an id, in tenths: how similar the object is to the query
    MinCertainty,
    Connections,    \* [Files -> Nat]: fan-in and fan-out in the graph
    Limits, Offsets, \* of a search: k and skip
    MaxJobs,        \* bound: how many files are indexed
    NoJob, NoAnswer, NoBody

Models == {"api", "local"}
Bodies == UNION {BodiesOf[x] : x \in Indexers}

\* File and first line of a chunk.
ObjectIds == Files \X UNION {DOMAIN b : b \in Bodies}

\* The runs over the chunks: the first one, by the API or by the local model, and
\* that of the local model after an error of the first.
Embedding == {"api", "local", "fallback"}
ModelOf(phase) == IF phase = "api" THEN "api" ELSE "local"

\* What an indexer is at: a file with the body of its symbol, its CodeChunks, and
\* the Embeddings of the first of them.
Jobs == [phase : Embedding \cup {"embedded", "storing"}, file : Files, body : Seq(Nat),
         chunks : Seq(Nat \X Nat), embedded : Seq([chunk : Nat \X Nat, model : Models]),
         attempt : Nat, stored : Nat]

ASSUME IndexAssumption ==
    /\ NoJob \notin Jobs
    /\ \A x \in Indexers : BodiesOf[x] \subseteq Seq(Nat) \ {<<>>}
    /\ EmbedBatch \in Nat \ {0} /\ MaxRetries \in Nat \ {0}
    /\ \A k \in ObjectIds : Certainty(k) \in 0 .. 10
    /\ MinCertainty \in 0 .. 10
    /\ Connections \in [Files -> Nat]
    /\ Limits \subseteq Nat \ {0} /\ Offsets \subseteq Nat
    /\ MaxJobs \in Nat

VARIABLES
    provider,       \* settings.llm_provider: an API with a key, or none
    job,            \* what an indexer is at
    store,          \* the objects of the collection, by id
    dimension,      \* the model of the first vector, whose length all must have
    jobs,
    answer,         \* of a search
    \* history
    alone,          \* jobs that no other request for their file interfered with
    whole           \* the body whose chunks a file's objects are

indexVars == <<provider, job, store, dimension, jobs, answer, alone, whole>>

NoModel == "none"

\* An upsert is a partial function of ids, extended by one.
With(objects, id, o) ==
    [k \in DOMAIN objects \cup {id} |-> IF k = id THEN o ELSE objects[k]]
WithoutFile(objects, f) ==
    [k \in {k \in DOMAIN objects : k[1] # f} |-> objects[k]]

IndexInit ==
    /\ provider \in {"openai", "none"}
    /\ job = [x \in Indexers |-> NoJob]
    /\ store = [k \in {} |-> NoBody]
    /\ dimension = NoModel
    /\ jobs = 0
    /\ answer = NoAnswer
    /\ alone = {}
    /\ whole = [f \in Files |-> NoBody]

(****************************************************************************)
(* embed_parse_results                                                      *)
(****************************************************************************)
At(x, phase) == job[x] # NoJob /\ job[x].phase = phase /\ answer = NoAnswer
Set(x, j) == job' = [job EXCEPT ![x] = j]

Begin(x) ==
    /\ job[x] = NoJob /\ answer = NoAnswer
    /\ jobs < MaxJobs /\ jobs' = jobs + 1
    /\ \E f \in Files, b \in BodiesOf[x] :
        Set(x, [phase |-> IF provider = "openai" THEN "api" ELSE "local",
                file |-> f, body |-> b, chunks |-> ExtractChunks(b),
                embedded |-> <<>>, attempt |-> 0, stored |-> 0])
    /\ UNCHANGED <<provider, store, dimension, answer, alone, whole>>

Batch(j) ==
    LET first == Len(j.embedded) + 1
        last == first + EmbedBatch - 1
    IN SubSeq(j.chunks, first, IF last < Len(j.chunks) THEN last ELSE Len(j.chunks))

Embedded(chunks, model) == [n \in DOMAIN chunks |-> [chunk |-> chunks[n], model |-> model]]

Appended(j) ==
    LET all == j.embedded \o Embedded(Batch(j), ModelOf(j.phase)) IN
    [j EXCEPT !.embedded = all, !.attempt = 0,
              !.phase = IF Len(all) = Len(j.chunks) THEN "embedded" ELSE @]

\* A batch, of either model, is embedded.  Without chunks there is none, and the
\* run ends at once.
EmbedOneBatch(x) ==
    /\ \E phase \in Embedding : At(x, phase)
    /\ Set(x, Appended(job[x]))
    /\ UNCHANGED <<provider, store, dimension, jobs, answer, alone, whole>>

\* A slip: what has been embedded so far is kept.
Restarted_Keep(j) == [j EXCEPT !.phase = "fallback", !.attempt = 0]
\* LLMAPIError, EmbeddingError: the local model embeds all chunks.
Restarted(j) == [j EXCEPT !.phase = "fallback", !.attempt = 0, !.embedded = <<>>]

\* A model can only fail at a batch.
AtBatch(x, phase) == At(x, phase) /\ job[x].chunks # <<>>

RetriesLeft(j) == j.attempt < MaxRetries - 1

RateLimited(x) ==
    /\ AtBatch(x, "api")
    /\ Set(x, IF RetriesLeft(job[x])
              THEN [job[x] EXCEPT !.attempt = @ + 1] ELSE Restarted(job[x]))
    /\ UNCHANGED <<provider, store, dimension, jobs, answer, alone, whole>>

\* An error of the API, or of the local model where no API is configured: in both
\* cases the local model, so possibly the one that failed, begins again.
FirstRunFails(x) ==
    /\ AtBatch(x, "api") \/ AtBatch(x, "local")
    /\ Set(x, Restarted(job[x]))
    /\ UNCHANGED <<provider, store, dimension, jobs, answer, alone, whole>>

\* What nobody catches: an EmbeddingError of the second run, and the ImportError of
\* a package, or the error of a model, that a run cannot load before its first batch.
GiveUp(x) ==
    /\ \/ At(x, "fallback")
       \/ (At(x, "api") \/ At(x, "local")) /\ job[x].embedded = <<>> /\ job[x].attempt = 0
    /\ Set(x, NoJob)
    /\ UNCHANGED <<provider, store, dimension, jobs, answer, alone, whole>>

(****************************************************************************)
(* VectorStore                                                              *)
(****************************************************************************)
\* A request for file f by indexer x interferes with the jobs of others that
\* are writing the file.
Interfered(f, x) ==
    {y \in alone : y = x \/ job[y].file # f}

InvalidateFile(x) ==
    /\ At(x, "embedded")
    /\ LET f == job[x].file IN
        /\ store' = WithoutFile(store, f)
        /\ alone' = Interfered(f, x) \cup {x}
        /\ whole' = [whole EXCEPT ![f] = NoBody]
    /\ Set(x, [job[x] EXCEPT !.phase = "storing"])
    /\ UNCHANGED <<provider, dimension, jobs, answer>>

\* A slip: the id does not tell where in the symbol a chunk begins.
ObjectId_Symbol(f, chunk) == <<f, 1>>
\* uuid5 of repository, file, symbol and start line.
ObjectId(f, chunk) == <<f, chunk[1]>>

Object(e, body) ==
    [chunk |-> e.chunk, model |-> e.model,
     chars |-> Content(body, e.chunk)]

\* The objects of a batch are put one by one.  One whose vector has another
\* length than the others is refused, and so may any be.
PutObject(x) ==
    /\ At(x, "storing") /\ job[x].stored < Len(job[x].embedded)
    /\ LET j == job[x]
           e == j.embedded[j.stored + 1]
       IN \/ /\ dimension \in {NoModel, e.model}
             /\ store' = With(store, ObjectId(j.file, e.chunk), Object(e, j.body))
             /\ dimension' = e.model
             /\ alone' = Interfered(j.file, x)
             /\ whole' = [whole EXCEPT ![j.file] = NoBody]
          \/ /\ alone' = alone \ {x}
             /\ UNCHANGED <<store, dimension, whole>>
    /\ Set(x, [job[x] EXCEPT !.stored = @ + 1])
    /\ UNCHANGED <<provider, jobs, answer>>

\* upsert_embeddings returns the number of objects it was given, at once if none.
EndUpsert(x) ==
    /\ At(x, "storing") /\ job[x].stored = Len(job[x].embedded)
    /\ whole' = IF x \in alone THEN [whole EXCEPT ![job[x].file] = job[x].body] ELSE whole
    /\ alone' = alone \ {x}
    /\ Set(x, NoJob)
    /\ UNCHANGED <<provider, store, dimension, jobs, answer>>

\* Somebody removes the repository from the collection.
InvalidateRepository ==
    /\ answer = NoAnswer /\ DOMAIN store # {}
    /\ store' = [k \in {} |-> NoBody]
    /\ alone' = {} /\ whole' = [f \in Files |-> NoBody]
    /\ UNCHANGED <<provider, job, dimension, jobs, answer>>

(****************************************************************************)
(* POST /search: the hits of a vector search, and the answer made of them   *)
(****************************************************************************)
Hit(k) == [id |-> k, file |-> k[1], chars |-> store[k].chars, certainty |-> Certainty(k)]

\* All objects, the nearest first.
Nearest ==
    {s \in SetToSeqs({Hit(o) : o \in DOMAIN store}) :
        \A m, n \in DOMAIN s : m < n => s[m].certainty >= s[n].certainty}

FirstOf(k, s) == SubSeq(s, 1, IF k < Len(s) THEN k ELSE Len(s))
\* limit and offset of a query.
Slice(k, skip, s) == SubSeq(s, skip + 1, IF skip + k < Len(s) THEN skip + k ELSE Len(s))
\* A certainty of zero counts as none given.
Enough(c) == c = 0 \/ c >= MinCertainty
Certain(hits) == Picked(hits, {n \in DOMAIN hits : Enough(hits[n].certainty)})

\* The embedding of the query has the length of the vectors, or the search fails.
Search ==
    /\ answer = NoAnswer
    /\ \E k \in Limits, skip \in Offsets, model \in Models :
        /\ model = "api" => provider = "openai"
        /\ dimension \in {NoModel, model}
        /\ \E s \in Nearest :
            LET hits == Certain(Slice(k, skip, s)) IN
            \E lost \in SUBSET {hits[n].id : n \in DOMAIN hits} :
                answer' = [k |-> k, skip |-> skip, lost |-> lost,
                           results |-> AssembleSearchResults(hits, Connections, lost)]
    /\ UNCHANGED <<provider, job, store, dimension, jobs, alone, whole>>

Respond ==
    /\ answer # NoAnswer /\ answer' = NoAnswer
    /\ UNCHANGED <<provider, job, store, dimension, jobs, alone, whole>>

IndexNext ==
    \/ \E x \in Indexers :
        \/ Begin(x) \/ EmbedOneBatch(x)
        \/ RateLimited(x) \/ FirstRunFails(x) \/ GiveUp(x)
        \/ InvalidateFile(x) \/ PutObject(x) \/ EndUpsert(x)
    \/ InvalidateRepository
    \/ Search \/ Respond

IndexSpec == IndexInit /\ [][IndexNext]_indexVars

-----------------------------------------------------------------------------
\* However often batches are retried, wherever the API breaks off, and though the
\* local model may have to begin again, each chunk is embedded once, in order, and
\* all by the same model (embed_parse_results).
OneModel ==
    \A x \in Indexers : job[x] # NoJob =>
        \E m \in Models : job[x].embedded = Embedded(FirstOf(Len(job[x].embedded), job[x].chunks), m)

\* Two chunks that begin at the same line have one id, and the later one replaces
\* the earlier.  Nothing is lost by it: after an upsert that nobody interfered
\* with and of which nothing was refused, the objects of a file are chunks of its
\* body and cover every line of it, unless it is empty, in order of their ids, and
\* each ends further on than the last.  A body that was split has no chunk that is
\* longer but by line ends and a last line behind no more than the overlap.
StoredCovers ==
    \A f \in Files : whole[f] # NoBody =>
        LET chunks == {store[k].chunk : k \in {k \in DOMAIN store : k[1] = f}}
            body == whole[f]
        IN
        /\ chunks \subseteq ToSet(ExtractChunks(body))
        /\ BodyLength(body) # 0 => Covered(chunks) = 1 .. Len(body)
        /\ \A c, d \in chunks : c[1] < d[1] => c[2] < d[2]
        /\ BodyLength(body) > WholeChars => \A c \in chunks : Bounded(body, c)

\* The objects that are nearer than k, and those that are at least as near.
Nearer(objects, k) == {l \in DOMAIN objects : Certainty(l) > Certainty(k)}
AsNear(objects, k) == {l \in DOMAIN objects : Certainty(l) >= Certainty(k)}

Sound(a, objects) ==
    LET out == a.results
        ids == {out[n].hit.id : n \in DOMAIN out}
        end == a.skip + a.k
        usable == {l \in DOMAIN objects : Enough(Certainty(l)) /\ l \notin a.lost}
        mayBe == {l \in usable : /\ Cardinality(Nearer(objects, l)) < end
                                 /\ a.skip < Cardinality(AsNear(objects, l))}
        mustBe == {l \in usable : /\ a.skip <= Cardinality(Nearer(objects, l))
                                  /\ Cardinality(AsNear(objects, l)) <= end}
    IN
    /\ ids \subseteq mayBe /\ Cardinality(ids) = Len(out) /\ Len(out) <= a.k
    /\ Size(out) <= MaxContext
    /\ \A m, n \in DOMAIN out :
        /\ Connections[out[m].hit.file] = Connections[out[n].hit.file]
        /\ out[m].hit.certainty > out[n].hit.certainty
        => m < n
    /\ \A l \in mustBe \ ids, n \in DOMAIN out :
        Connections[l[1]] = Connections[out[n].hit.file] =>
            Certainty(l) <= out[n].hit.certainty
    /\ \/ mustBe \subseteq ids
       \/ \E l \in mayBe \ ids : Size(out) + objects[l].chars > MaxContext

\* An answer holds objects of the page that was asked for, that are certain enough
\* and for which no query failed, within the budget of tokens; of two results in
\* files alike, the more certain comes first; and of what must be on the page,
\* whatever the order of equals, it leaves out hits only when the budget is used
\* up, and no hit for the sake of a less certain one (search_code, VectorStore.search,
\* assemble_search_results).
AnswerSound == answer # NoAnswer => Sound(answer, store)
=============================================================================
