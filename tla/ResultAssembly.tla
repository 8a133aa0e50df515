--------------------------- MODULE ResultAssembly ---------------------------
(****************************************************************************)
(* ResultAssembler (query/assembler.py): from the hits of a search to the   *)
(* results of an answer.  Scores are counted in tenths, confidence in       *)
(* thousandths.                                                             *)
(****************************************************************************)
EXTENDS Naturals, Sequences, SequencesExt, FiniteSets

CONSTANTS
    EnableReranking,
    MaxContext      \* max_tokens * 4

ASSUME AssemblyAssumption == EnableReranking \in BOOLEAN /\ MaxContext \in Nat

One == 1000

\* self.weights, in hundredths.
Weights ==
    [similarity |-> 50, rerank |-> IF EnableReranking THEN 35 ELSE 0,
     centrality |-> IF EnableReranking THEN 50 ELSE 15]

\* Fifty connections, in and out, make a file as central as can be.
CalculateCentrality(connections) == IF connections > 50 THEN 10 ELSE connections \div 5

\* The placeholder of re-ranking repeats the certainty.
CalculateConfidence(certainty, centrality) ==
    LET sum == certainty * (Weights.similarity + Weights.rerank)
                 + centrality * Weights.centrality
    IN IF sum > One THEN One ELSE sum

\* Places in the order in which upTo[n] are those up to n, and what a sequence has
\* at places, in their order.
Ranked(places, upTo) ==
    [p \in 1 .. Cardinality(places) |-> CHOOSE n \in places : Cardinality(upTo[n]) = p]
Picked(s, places) ==
    LET at == Ranked(places, [n \in places |-> {m \in places : m <= n}])
    IN [p \in DOMAIN at |-> s[at[p]]]

\* Evidence: a hit for which a query of the graph raises an exception, as it does
\* in a file the graph does not know, is lost.
Assembled(hits, connections, lost) ==
    LET kept == Picked(hits, {n \in DOMAIN hits : hits[n].id \notin lost}) IN
    [n \in DOMAIN kept |->
        [hit |-> kept[n],
         confidence |-> CalculateConfidence(kept[n].certainty,
                            CalculateCentrality(connections[kept[n].file]))]]

\* list.sort, which keeps the order of equals.
ByConfidence(results) ==
    LET all == DOMAIN results
        at == Ranked(all, [n \in all |->
                  {m \in all : \/ results[m].confidence > results[n].confidence
                               \/ results[m].confidence = results[n].confidence /\ m <= n}])
    IN [p \in DOMAIN at |-> results[at[p]]]

Size(results) ==
    LET sum[n \in 0 .. Len(results)] ==
            IF n = 0 THEN 0 ELSE sum[n - 1] + results[n].hit.chars
    IN sum[Len(results)]

\* A slip: what does not fit is left out, and what comes after it is not.
TrimToTokenBudget_Skip(results) ==
    FoldLeft(LAMBDA kept, r :
        IF Size(kept) + r.hit.chars <= MaxContext THEN Append(kept, r) ELSE kept,
        <<>>, results)

\* The results up to the first one that does not fit.
TrimToTokenBudget(results) ==
    LET fits == {n \in 0 .. Len(results) : Size(SubSeq(results, 1, n)) <= MaxContext}
    IN SubSeq(results, 1, CHOOSE n \in fits : \A m \in fits : m <= n)

AssembleSearchResults(hits, connections, lost) ==
    TrimToTokenBudget(ByConfidence(Assembled(hits, connections, lost)))
=============================================================================
