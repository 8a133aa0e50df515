------------------------------ MODULE Chunking ------------------------------
(****************************************************************************)
(* How SemanticEmbedder (semantic/embedder.py) cuts the body of a symbol    *)
(* into chunks.  A body is the sequence of the lengths of its lines, of     *)
(* which there is at least one, and a chunk the pair of its first and its   *)
(* last line, counted from the start of the symbol.  A line end is one      *)
(* character, which the loop over the lines does not count.                 *)
(****************************************************************************)
EXTENDS Naturals, Sequences

CONSTANTS
    WholeChars,     \* the most characters that are 512 tokens: 512 * 4 + 3
    MaxChars,       \* max_tokens * 4
    OverlapChars    \* overlap_tokens * 4

ASSUME ChunkingAssumption ==
    WholeChars \in Nat /\ MaxChars \in Nat /\ OverlapChars \in Nat

\* The characters of lines i to j, without line ends.
CharsOf(body, i, j) ==
    LET sum[k \in 0 .. Len(body)] == IF k < i THEN 0 ELSE sum[k - 1] + body[k]
    IN sum[j]

\* What a chunk holds: its lines with the line ends between them.
Content(body, c) == CharsOf(body, c[1], c[2]) + (c[2] - c[1])

\* len(symbol.body)
BodyLength(body) == Content(body, <<1, Len(body)>>)

\* The lines of the last chunk that the next one repeats: as many from the end
\* as fit into the overlap, possibly all of them or none.
OverlapFrom(body, from, i) ==
    CHOOSE k \in from .. i :
        /\ CharsOf(body, k, i - 1) <= OverlapChars
        /\ \A l \in from .. k - 1 : CharsOf(body, l, i - 1) > OverlapChars

\* The loop over the lines: the chunks that are finished, the first line of the
\* current one, and its characters.
AddLine(body, loop, i) ==
    IF loop.chars + body[i] > MaxChars /\ loop.from < i
    THEN LET from == OverlapFrom(body, loop.from, i) IN
         [chunks |-> Append(loop.chunks, <<loop.from, i - 1>>),
          from |-> from, chars |-> CharsOf(body, from, i)]
    ELSE [loop EXCEPT !.chars = @ + body[i]]

Loop(body) ==
    LET loop[i \in 0 .. Len(body)] ==
            IF i = 0 THEN [chunks |-> <<>>, from |-> 1, chars |-> 0]
                     ELSE AddLine(body, loop[i - 1], i)
    IN loop

SplitIntoChunks(body) ==
    LET end == Loop(body)[Len(body)]
    IN Append(end.chunks, <<end.from, Len(body)>>)

ExtractChunks(body) ==
    IF BodyLength(body) = 0 THEN <<>>
    ELSE IF BodyLength(body) <= WholeChars THEN << <<1, Len(body)>> >>
    ELSE SplitIntoChunks(body)

-----------------------------------------------------------------------------
(* What the chunks of a body have to be.                                    *)

Lines(c) == c[1] .. c[2]
Covered(chunks) == UNION {Lines(c) : c \in chunks}

\* Line ends apart, a chunk exceeds the limit only by its last line, which then
\* follows no more than the overlap.
Bounded(body, c) ==
    \/ CharsOf(body, c[1], c[2]) <= MaxChars
    \/ CharsOf(body, c[1], c[2] - 1) <= OverlapChars
=============================================================================
