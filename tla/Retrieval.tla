------------------------------- MODULE Retrieval -------------------------------
(***************************************************************************)
(* What a question finds (rag/retrieval.py, rag/rerank.py): a quota of     *)
(* hits from each content type, for sessions from two pools, by date and   *)
(* by topic; a language model puts the hits in order, or fails to.  When   *)
(* the question names dates, what the dates match is kept out of that      *)
(* ranking.  The awaits and their failures are ChatStream's; here is what  *)
(* becomes of the hits.  Notes stand for all types with a plain quota.     *)
(***************************************************************************)
EXTENDS Ranking, Sequences

CONSTANTS
    NoteChunks, SessionChunks,  \* the user's points
    SessionOf,                  \* the session a chunk is of
    Rankings,                   \* similarities to the question, all different
    MaxDays,                    \* bound: days between today and a session
    TopK, CandidateK,           \* retrieval_top_k, rerank_candidate_k
    WindowTopK, RangeCap,       \* session_window_top_k, date_range_chunk_cap
    Replies                     \* what the reranker may say: numbers, or no number

Points == NoteChunks \union SessionChunks
Sessions == {SessionOf[c] : c \in SessionChunks}

ASSUME QuotasAssumption ==
    TopK \in Nat /\ CandidateK \in Nat /\ WindowTopK \in Nat /\ RangeCap \in Nat /\ MaxDays \in Nat
ASSUME PointsAssumption ==
    IsFiniteSet(NoteChunks) /\ IsFiniteSet(SessionChunks) /\ NoteChunks \intersect SessionChunks = {}
ASSUME RankingsAssumption ==
    /\ Rankings # {} /\ Rankings \subseteq [Points -> Int \ {0}]
    /\ \A r \in Rankings : \A p, q \in Points : r[p] = r[q] => p = q
ASSUME RepliesAssumption == Replies \subseteq Seq(Int)

VARIABLES
    stage,       \* idle, asked, found, answered
    similarity,  \* of each chunk to the question
    daysAway,    \* of each session from today
    near,        \* the sessions in the range the question names, or in the fixed window
    exact,       \* does the question name a range?
    windowed,    \* history: did the search by date answer?
    hits,        \* the merged pool
    dated,       \* those of it found by date
    worth,       \* what the pool is sorted by
    answer

retrievalVars == <<stage, similarity, daysAway, near, exact, windowed, hits, dated, worth, answer>>

NTypes == 4
Quota == IF CandidateK < NTypes THEN 1 ELSE CandidateK \div NTypes

RetrievalTypeOK ==
    /\ stage \in {"idle", "asked", "found", "answered"}
    /\ similarity \in Rankings /\ daysAway \in [Sessions -> 0 .. MaxDays]
    /\ near \subseteq Sessions /\ exact \in BOOLEAN /\ windowed \in BOOLEAN
    /\ hits \subseteq Points /\ dated \subseteq SessionChunks /\ worth \in [Points -> Int]
    /\ answer \in Seq(Points)

AnyRanking == CHOOSE r \in Rankings : TRUE

RetrievalInit ==
    /\ stage = "idle"
    /\ similarity = AnyRanking /\ daysAway = [s \in Sessions |-> 0]
    /\ near = {} /\ exact = FALSE /\ windowed = FALSE
    /\ hits = {} /\ dated = {} /\ worth = AnyRanking /\ answer = <<>>

--------------------------------------------------------------------------------
First(s, n) == SubSeq(s, 1, IF n < Len(s) THEN n ELSE Len(s))

\* Qdrant's vector search.
Closest(points, n) == Best(points, similarity, n)

Days(c) == daysAway[SessionOf[c]]

\* get_sessions_in_window scrolls in no order; the sort by day is stable.  (The nearest
\* day has the greatest number, and all are below 0.)
Sooner ==
    {f \in [SessionChunks -> {-i : i \in 1 .. Cardinality(SessionChunks)}] :
        \A c, d \in SessionChunks : (f[c] = f[d] => c = d) /\ (Days(c) < Days(d) => f[c] > f[d])}

\* What a search by date finds has the score 0, and between similarities above and below
\* 0 is room for its order.
Worth(byDate, sooner) ==
    [p \in Points |-> IF p \in byDate THEN sooner[p] ELSE similarity[p] * (Cardinality(SessionChunks) + 1)]

\* The call is over, with its result or with the process.
DropQuestion ==
    /\ stage' = "idle"
    /\ similarity' = AnyRanking /\ daysAway' = [s \in Sessions |-> 0]
    /\ near' = {} /\ exact' = FALSE /\ windowed' = FALSE
    /\ hits' = {} /\ dated' = {} /\ worth' = AnyRanking /\ answer' = <<>>

Ask(r, d, n, e) ==
    /\ stage = "idle"
    /\ stage' = "asked"
    /\ similarity' = r /\ daysAway' = d /\ near' = n /\ exact' = e
    /\ UNCHANGED <<windowed, hits, dated, worth, answer>>

\* _fetch_sessions: a session found by date is not taken from the topic search.
Merged(byDate, byTopic) ==
    byDate \union {c \in byTopic : \A d \in byDate : SessionOf[c] # SessionOf[d]}

\* A search that fails finds nothing.
OrNothing(points, failed) == IF failed THEN {} ELSE points

\* Left out: the window's scroll stops at 1000 chunks (safety_cap), in storage order.
Search(notesFail, topicFails, windowFails) ==
    /\ stage = "asked" /\ stage' = "found"
    /\ \E sooner \in Sooner :
          /\ dated' = OrNothing(Best({c \in SessionChunks : SessionOf[c] \in near}, sooner,
                                     IF exact THEN RangeCap ELSE WindowTopK), windowFails)
          /\ worth' = Worth(dated', sooner)
    /\ hits' = OrNothing(Closest(NoteChunks, Quota), notesFail)
                   \union Merged(dated', OrNothing(Closest(SessionChunks, Quota), topicFails))
    /\ windowed' = ~windowFails
    /\ UNCHANGED <<similarity, daysAway, near, exact, answer>>

\* A question about one content type, as the agent's search_notes asks.
SearchNotes(fails) ==
    /\ stage = "asked" /\ stage' = "found"
    /\ hits' = OrNothing(Closest(NoteChunks, CandidateK), fails)
    /\ dated' = {} /\ worth' = similarity
    /\ windowed' = FALSE
    /\ UNCHANGED <<similarity, daysAway, near, exact, answer>>

\* exact_date_match
Exact(p) == exact /\ p \in dated
ExactHits == {p \in hits : Exact(p)}
PlainHits == {p \in hits : ~Exact(p)}

\* Mutant: a number the model repeats is taken again.
SaidAnew(reply, n) == {i \in 1 .. Len(reply) : reply[i] \in 0 .. n - 1}

\* _parse_order: where the model says something that makes sense, and had not said it.
Said(reply, n) ==
    {i \in 1 .. Len(reply) : reply[i] \in 0 .. n - 1 /\ \A j \in 1 .. i - 1 : reply[j] # reply[i]}

Unsaid(reply, n) == {k \in 0 .. n - 1 : \A i \in 1 .. Len(reply) : reply[i] # k}

Ascending(numbers) == InOrder(numbers, Upwards(numbers))

\* What it said, then the others as they were.
Order(reply, n) ==
    LET said == Ascending(Said(reply, n))
    IN  [k \in 1 .. Len(said) |-> reply[said[k]]] \o Ascending(Unsaid(reply, n))

Reranked(s, reply) ==
    LET order == Order(reply, Len(s)) IN [k \in 1 .. Len(order) |-> s[order[k] + 1]]

\* Mutant: what the dates match is ranked and cut with the rest.
CutTogether(reply) == First(Reranked(InOrder(hits, worth), reply), TopK)

Cut(reply) ==
    First(InOrder(ExactHits, worth), RangeCap) \o First(Reranked(InOrder(PlainHits, worth), reply), TopK)

\* A reranker that is not configured or fails is one that says nothing.
Tell(reply) ==
    /\ stage = "found" /\ stage' = "answered"
    /\ answer' = Cut(reply)
    /\ UNCHANGED <<similarity, daysAway, near, exact, windowed, hits, dated, worth>>

RetrievalNext ==
    \/ /\ stage = "idle"
       /\ \E r \in Rankings, d \in [Sessions -> 0 .. MaxDays], n \in SUBSET Sessions, e \in BOOLEAN :
             Ask(r, d, n, e)
    \/ \E notesFail, topicFails, windowFails \in BOOLEAN : Search(notesFail, topicFails, windowFails)
    \/ \E fails \in BOOLEAN : SearchNotes(fails)
    \/ \E reply \in Replies : Tell(reply)
    \/ DropQuestion

RetrievalSpec == RetrievalInit /\ [][RetrievalNext]_retrievalVars

--------------------------------------------------------------------------------
Places == 1 .. Len(answer)

(***************************************************************************)
(* A question that names dates is answered with the sessions of those      *)
(* dates, however well something else matches its words and whatever the   *)
(* reranker makes of them; only past the cap do the days furthest from     *)
(* today give way (retrieve_with_rerank, date_range_chunk_cap).            *)
(***************************************************************************)
DatesAnswered ==
    stage = "answered" /\ exact /\ windowed =>
        \A c \in SessionChunks : SessionOf[c] \in near =>
            \/ \E i \in Places : answer[i] = c
            \/ /\ Cardinality({i \in Places : Exact(answer[i])}) = RangeCap
               /\ \A i \in Places : Exact(answer[i]) => Days(answer[i]) <= Days(c)

(***************************************************************************)
(* Nothing is told twice and no place is wasted: whatever the reranker     *)
(* says, repeats, leaves out or invents, it only decides which of more     *)
(* than TopK hits are told (rerank_chunks, _parse_order).                  *)
(***************************************************************************)
RerankOnlyReorders ==
    stage = "answered" =>
        LET plain == Cardinality({i \in Places : ~Exact(answer[i])})
        IN  /\ \A i, j \in Places : i # j => answer[i] # answer[j]
            /\ \A i \in Places : answer[i] \in hits
            /\ plain = IF Cardinality(PlainHits) < TopK THEN Cardinality(PlainHits) ELSE TopK
================================================================================
