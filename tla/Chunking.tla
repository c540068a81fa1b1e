------------------------------- MODULE Chunking -------------------------------
(***************************************************************************)
(* chunk_text (ingestion/chunking.py), one iteration of its loop a step.   *)
(* A text is a number of tokens and the positions its sentences end at; a  *)
(* piece is a sentence, or as much of it as fits a chunk; a chunk is a     *)
(* stretch of the text, from one cut between pieces to another.  Positions *)
(* count the tokens before them, so that a length is a difference.         *)
(*                                                                         *)
(* A character may take several tokens.  A sentence that is split between  *)
(* them is decoded piece by piece, and what is left of the character in    *)
(* either piece is not the character any more.                             *)
(***************************************************************************)
EXTENDS Integers, Sequences, FiniteSets

CONSTANTS
    ChunkSize,     \* chunk_size_tokens
    ChunkOverlap,  \* chunk_overlap_tokens, which nothing relates to ChunkSize
    MaxLength,     \* bound: tokens in a text
    MaxInside      \* bound: positions inside characters in a text

ASSUME ChunkingAssumption == ChunkSize \in Nat \ {0} /\ ChunkOverlap \in Nat /\ MaxLength \in Nat

VARIABLES
    chunking,       \* is a text being chunked?
    sentenceEnds,   \* the text: it ends with its last sentence
    inside,         \* the text: the positions between two tokens of one character
    cuts,           \* where the pieces taken so far begin and end
    start, end,     \* the chunk being filled
    chunks

chunkVars == <<chunking, sentenceEnds, inside, cuts, start, end, chunks>>

Position == 0 .. MaxLength
Stretch == [from : Position, to : Position]
Tokens(c) == c.to - c.from

ChunkTypeOK ==
    /\ chunking \in BOOLEAN
    /\ sentenceEnds \subseteq Position \ {0}
    /\ inside \subseteq Position \ {0} /\ inside \cap sentenceEnds = {}
    /\ cuts \subseteq Position
    /\ start \in Position /\ end \in Position
    /\ chunks \in Seq(Stretch)

ChunkInit ==
    /\ chunking = FALSE
    /\ sentenceEnds = {} /\ inside = {} /\ cuts = {0}
    /\ start = 0 /\ end = 0
    /\ chunks = <<>>

--------------------------------------------------------------------------------
\* The call is over, with its result or with the process.
DropText ==
    /\ chunking' = FALSE /\ sentenceEnds' = {} /\ inside' = {} /\ cuts' = {0}
    /\ start' = 0 /\ end' = 0 /\ chunks' = <<>>

\* A blank text has no sentences.  A sentence ends with a character.
StartText(ends, within) ==
    /\ Cardinality(within) <= MaxInside
    /\ \A p \in within : p \notin ends /\ \E e \in ends : p < e
    /\ chunking' = TRUE /\ sentenceEnds' = ends /\ inside' = within
    /\ UNCHANGED <<cuts, start, end, chunks>>

Rest == {e \in sentenceEnds : e > end}

\* The end of the sentence, or of its next piece if it is longer than a chunk.
PieceEnds(p) ==
    \E e \in Rest :
        /\ \A f \in Rest : e <= f
        /\ p = IF e - end > ChunkSize THEN end + ChunkSize ELSE e

Flushed == Append(chunks, [from |-> start, to |-> end])

\* Mutant: the last sentence is carried whatever its length.
CarriedLast(c) ==
    /\ c \in cuts /\ start <= c /\ c < end
    /\ \A d \in cuts : start <= d /\ d < end => d <= c

\* _carry_overlap: from the cut furthest back that is not too far back.
Carried(c) ==
    /\ c \in cuts /\ start <= c /\ end - c <= ChunkOverlap
    /\ \A d \in cuts : start <= d /\ end - d <= ChunkOverlap => c <= d

\* The piece fits, or the chunk has nothing in it yet.
AddPiece(p) ==
    /\ chunking /\ PieceEnds(p)
    /\ start = end \/ p - start <= ChunkSize
    /\ end' = p /\ cuts' = cuts \union {p}
    /\ UNCHANGED <<chunking, sentenceEnds, inside, start, chunks>>

\* Mutant: the piece that did not fit is left to the next iteration's sentence.
FlushChunkLosing(p) ==
    /\ chunking /\ PieceEnds(p)
    /\ start # end /\ p - start > ChunkSize
    /\ chunks' = Flushed
    /\ start' = p /\ end' = p /\ cuts' = cuts \union {p}
    /\ UNCHANGED <<chunking, sentenceEnds, inside>>

\* The piece goes with what is carried over, without another look at the size.
FlushChunk(p) ==
    /\ chunking /\ PieceEnds(p)
    /\ start # end /\ p - start > ChunkSize
    /\ chunks' = Flushed
    /\ Carried(start')
    /\ end' = p /\ cuts' = cuts \union {p}
    /\ UNCHANGED <<chunking, sentenceEnds, inside>>

EndText ==
    /\ chunking /\ Rest = {}
    /\ chunking' = FALSE
    /\ chunks' = IF start # end THEN Flushed ELSE chunks
    /\ UNCHANGED <<sentenceEnds, inside, cuts, start, end>>

ChunkNext ==
    \/ /\ ~chunking /\ sentenceEnds = {}
       /\ \E ends, within \in SUBSET (1 .. MaxLength) : StartText(ends, within)
    \/ \E p \in Position : AddPiece(p) \/ FlushChunk(p)
    \/ EndText \/ DropText

ChunkSpec == ChunkInit /\ [][ChunkNext]_chunkVars

--------------------------------------------------------------------------------
\* A cut between two tokens of the character that token t belongs to: decode
\* puts replacement characters into both pieces.
Garbled(t) ==
    \E c \in cuts : IF c < t THEN c .. t - 1 \subseteq inside ELSE t .. c \subseteq inside

\* The sentence from a to e is too long for a chunk.
TooLong(a, e) ==
    /\ a \in sentenceEnds \union {0} /\ e \in sentenceEnds /\ e - a > ChunkSize
    /\ \A f \in sentenceEnds : ~(a < f /\ f < e)

(***************************************************************************)
(* Nothing is skipped: chunks come in the order of the text, each reaches  *)
(* further than the one before and starts no later than that one ended,    *)
(* and a finished text is covered from its first token to its last.  What  *)
(* is garbled on the way is a character of a sentence that was too long    *)
(* for a chunk, never one of a sentence that fits (chunk_text).            *)
(***************************************************************************)
NothingLost ==
    /\ \A i \in 1 .. Len(chunks) :
        LET before == IF i = 1 THEN 0 ELSE chunks[i - 1].to
        IN  chunks[i].from <= before /\ before < chunks[i].to
    /\ ~chunking => \A e \in sentenceEnds :
                        chunks # <<>> /\ e <= chunks[Len(chunks)].to
    /\ \A t \in 1 .. MaxLength :
        Garbled(t) => \E a, e \in sentenceEnds \union {0} : TooLong(a, e) /\ a < t /\ t <= e

(***************************************************************************)
(* A chunk exceeds its size by no more than the overlap, and repeats no    *)
(* more than that of the one before it, however long the sentences are     *)
(* (chunk_text; tests/test_chunking.py allows "a little slack").           *)
(***************************************************************************)
WithinBudget ==
    \A i \in 1 .. Len(chunks) :
        /\ Tokens(chunks[i]) <= ChunkSize + ChunkOverlap
        /\ i > 1 => chunks[i - 1].to - chunks[i].from <= ChunkOverlap
================================================================================
