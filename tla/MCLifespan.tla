------------------------------ MODULE MCLifespan ------------------------------
(***************************************************************************)
(* Two rows, so that a migration can be cut off between them, two keys of  *)
(* each kind to rotate, and one token at a time: tokens do not meet.  Two  *)
(* sessions, one of two chunks, that rank before, after and between the    *)
(* notes, one similarity below 0 and so behind what has the score of a     *)
(* date; replies that say nothing, repeat, leave out and invent numbers.   *)
(* Questions on the first and the last day of each month, and on two weeks *)
(* around a leap day.  A capture of two passages beside three notes and a  *)
(* session: it comes first, last and in between, and fills a pool or not.  *)
(***************************************************************************)
EXTENDS Lifespan, TLC

CONSTANTS n1, n2, s1, s2, s3,
    c1, c2, noteA, noteB, noteC, sess, cap, pA1, pA2, pB, pC, pS, own1, own2

MCSessionOf == s1 :> 1 @@ s2 :> 1 @@ s3 :> 2

MCRankings == {
    n1 :> 5 @@ n2 :> 4 @@ s1 :> 3 @@ s2 :> 2 @@ s3 :> 1,
    n1 :> 1 @@ n2 :> 2 @@ s1 :> 3 @@ s2 :> 4 @@ s3 :> 5,
    n1 :> 3 @@ n2 :> -1 @@ s1 :> 5 @@ s2 :> 2 @@ s3 :> 4 }

MCReplies == {<<>>, <<0, 0, 1>>, <<2, 1>>, <<-1, 7, 1>>}

MCQuestionDays ==
    (421 .. 434) \cup UNION {{FirstOf[m], FirstOf[m + 1] - 1} : m \in 13 .. 24}

MCEntityOf ==
    pA1 :> noteA @@ pA2 :> noteA @@ pB :> noteB @@ pC :> noteC @@ pS :> sess
        @@ own1 :> cap @@ own2 :> cap

MCFilings == {
    noteA :> c1 @@ noteB :> c2 @@ noteC :> NoCourse @@ sess :> c2,
    noteA :> NoCourse @@ noteB :> c1 @@ noteC :> c2 @@ sess :> c1,
    noteA :> NoCourse @@ noteB :> NoCourse @@ noteC :> NoCourse @@ sess :> c2 }

\* From the worst match to the best.
Ranked(s) == [p \in {s[i] : i \in 1 .. Len(s)} |-> CHOOSE i \in 1 .. Len(s) : s[i] = p]

MCWeights == {
    Ranked(<<c1, c2, pS, pC, pB, pA2, pA1, own2, own1>>),
    Ranked(<<c1, pA1, pA2, pC, own2, pS, c2, pB, own1>>),
    Ranked(<<own1, c1, pC, own2, pA2, c2, pB, pS, pA1>>) }
================================================================================
