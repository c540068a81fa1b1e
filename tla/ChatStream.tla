------------------------------ MODULE ChatStream ------------------------------
(***************************************************************************)
(* A /chat request from the first provider call to data: [DONE]            *)
(* (api/chat.py, rag/retrieval.py, llm/retry.py): embed the question,      *)
(* search the content types concurrently, resolve the question's dates     *)
(* beside them, fetch the session window once dates and topic search are   *)
(* in, rerank, open the model's stream, pass it on.  Every stage may fail. *)
(*                                                                         *)
(* Of the chunks found only their number matters here: whether there is    *)
(* none, one or several to rerank.  A stage that is waiting for its retry  *)
(* is a stage with a call open.                                            *)
(***************************************************************************)
EXTENDS Integers, Sequences

CONSTANTS
    Requests,        \* the requests in flight, each with its own event stream
    ContentTypes,    \* the content types other than session
    DateModel,       \* is settings.date_parse_model set?
    RerankModel,     \* is settings.rerank_model set?
    MaxAttempts,     \* _MAX_ATTEMPTS
    MaxDeltas        \* bound: deltas the model sends

ASSUME ModelsAssumption == DateModel \in BOOLEAN /\ RerankModel \in BOOLEAN
ASSUME AttemptsAssumption == MaxAttempts \in Nat \ {0} /\ MaxDeltas \in Nat
ASSUME LegsAssumption == ContentTypes \cap {"topic", "dates", "window"} = {}

VARIABLES
    step,      \* the await a request is suspended at
    attempt,   \* with_retry: the number of the open call's attempt
    pending,   \* the legs of the search that are still out
    pool,      \* chunks to rerank: none, one, several
    sent,      \* the events the client received
    calls      \* history: the provider calls the request made

streamVars == <<step, attempt, pending, pool, sent, calls>>

Legs == ContentTypes \union {"topic", "window"} \union (IF DateModel THEN {"dates"} ELSE {})
Several == 2

StreamSteps == {"idle", "embed", "search", "rerank", "open", "stream", "sources", "done", "closed"}

StreamTypeOK ==
    /\ step \in [Requests -> StreamSteps]
    /\ attempt \in [Requests -> 1 .. MaxAttempts]
    /\ pending \in [Requests -> SUBSET Legs]
    /\ pool \in [Requests -> 0 .. Several]
    /\ sent \in [Requests -> Seq({"delta", "error", "sources", "done"})]
    /\ calls \in [Requests -> Nat]

StreamInit ==
    /\ step = [r \in Requests |-> "idle"]
    /\ attempt = [r \in Requests |-> 1]
    /\ pending = [r \in Requests |-> {}]
    /\ pool = [r \in Requests |-> 0]
    /\ sent = [r \in Requests |-> <<>>]
    /\ calls = [r \in Requests |-> 0]

--------------------------------------------------------------------------------
Await(r, s) == step' = [step EXCEPT ![r] = s]
Send(r, event) == sent' = [sent EXCEPT ![r] = Append(@, event)]

\* The first attempt of a call under with_retry.
Call(r) ==
    /\ attempt' = [attempt EXCEPT ![r] = 1]
    /\ calls' = [calls EXCEPT ![r] = @ + 1]

CallOpen(r) ==
    \/ step[r] \in {"embed", "rerank", "open"}
    \/ step[r] = "search" /\ "dates" \in pending[r]

BeginStream(r) ==
    /\ step[r] = "idle"
    /\ Await(r, "embed") /\ Call(r)
    /\ UNCHANGED <<pending, pool, sent>>

\* Mutant: one attempt too many.
RetryOnceMore(r) ==
    /\ CallOpen(r)
    /\ attempt[r] <= MaxAttempts
    /\ attempt' = [attempt EXCEPT ![r] = @ + 1]
    /\ calls' = [calls EXCEPT ![r] = @ + 1]
    /\ UNCHANGED <<step, pending, pool, sent>>

\* The open call failed transiently and attempts are left.
Retry(r) ==
    /\ CallOpen(r)
    /\ attempt[r] < MaxAttempts
    /\ attempt' = [attempt EXCEPT ![r] = @ + 1]
    /\ calls' = [calls EXCEPT ![r] = @ + 1]
    /\ UNCHANGED <<step, pending, pool, sent>>

\* The vector is there: asyncio.gather starts all legs.
EmbedAnswers(r) ==
    /\ step[r] = "embed"
    /\ Await(r, "search")
    /\ pending' = [pending EXCEPT ![r] = Legs]
    /\ IF DateModel THEN Call(r) ELSE UNCHANGED <<attempt, calls>>
    /\ UNCHANGED <<pool, sent>>

\* Retrieval raised, or there is no vector: the answer goes on without context.
EmbedFails(r) ==
    /\ step[r] = "embed"
    /\ Await(r, "open") /\ Call(r)
    /\ UNCHANGED <<pending, pool, sent>>

\* parse_date_range never raises: a failed call is no range.
DatesResolved(r) ==
    /\ step[r] = "search" /\ "dates" \in pending[r]
    /\ pending' = [pending EXCEPT ![r] = @ \ {"dates"}]
    /\ UNCHANGED <<step, attempt, pool, sent, calls>>

\* Mutant: the session window waits for the gather it is itself a part of.
SearchableWaiting(r) ==
    {leg \in pending[r] \ {"dates"} : leg = "window" => pending[r] = {}}

\* The session window waits for the dates and for the topic search.
Searchable(r) ==
    {leg \in pending[r] \ {"dates"} :
        leg = "window" => pending[r] \cap {"topic", "dates"} = {}}

\* A search answers, or fails and found nothing.  What the topic search found is
\* counted with the window, whose sessions it is freed of.
Found(leg) == IF leg = "topic" THEN {0} ELSE 0 .. Several

SearchAnswers(r, leg, n) ==
    /\ step[r] = "search" /\ leg \in Searchable(r)
    /\ pending' = [pending EXCEPT ![r] = @ \ {leg}]
    /\ LET chunks == IF pool[r] + n > Several THEN Several ELSE pool[r] + n
       IN IF pending[r] # {leg}
            THEN /\ pool' = [pool EXCEPT ![r] = chunks]
                 /\ UNCHANGED <<step, attempt, calls>>
            ELSE \* the last leg: the pool is complete, and ranked if there is a choice
                 /\ Await(r, IF RerankModel /\ chunks = Several THEN "rerank" ELSE "open")
                 /\ Call(r)
                 /\ pool' = [pool EXCEPT ![r] = 0]
    /\ UNCHANGED sent

\* rerank_chunks never raises: a failed call keeps the order.
Reranked(r) ==
    /\ step[r] = "rerank"
    /\ Await(r, "open") /\ Call(r)
    /\ UNCHANGED <<pending, pool, sent>>

Opens(r) ==
    /\ step[r] = "open"
    /\ Await(r, "stream")
    /\ UNCHANGED <<attempt, pending, pool, sent, calls>>

Delta(r) ==
    /\ step[r] = "stream"
    /\ Len(sent[r]) < MaxDeltas
    /\ Send(r, "delta")
    /\ UNCHANGED <<step, attempt, pending, pool, calls>>

StreamEnds(r) ==
    /\ step[r] = "stream"
    /\ Await(r, "sources")
    /\ UNCHANGED <<attempt, pending, pool, sent, calls>>

\* Mutant: a stream that breaks is opened again.
ModelFailsReopening(r) ==
    /\ step[r] = "stream"
    /\ Await(r, "open") /\ Call(r)
    /\ UNCHANGED <<pending, pool, sent>>

\* Mutant: the error handler ends the events.
ModelFailsSilent(r) ==
    /\ step[r] \in {"open", "stream"}
    /\ Send(r, "error") /\ Await(r, "done")
    /\ UNCHANGED <<attempt, pending, pool, calls>>

\* The stream cannot be opened, or breaks: an error event takes its place.
ModelFails(r) ==
    /\ step[r] \in {"open", "stream"}
    /\ Send(r, "error") /\ Await(r, "sources")
    /\ UNCHANGED <<attempt, pending, pool, calls>>

SendSources(r) ==
    /\ step[r] = "sources"
    /\ Send(r, "sources") /\ Await(r, "done")
    /\ UNCHANGED <<attempt, pending, pool, calls>>

SendDone(r) ==
    /\ step[r] = "done"
    /\ Send(r, "done") /\ Await(r, "closed")
    /\ UNCHANGED <<attempt, pending, pool, calls>>

\* The client goes away: the generator is cancelled at its await.
Disconnect(r) ==
    /\ step[r] \notin {"idle", "closed"}
    /\ Await(r, "closed")
    /\ UNCHANGED <<attempt, pending, pool, sent, calls>>

Advance(r) ==
    \/ Retry(r) \/ EmbedAnswers(r) \/ EmbedFails(r) \/ DatesResolved(r)
    \/ \E leg \in Legs : \E n \in Found(leg) : SearchAnswers(r, leg, n)
    \/ Reranked(r) \/ Opens(r) \/ Delta(r) \/ StreamEnds(r) \/ ModelFails(r)
    \/ SendSources(r) \/ SendDone(r)

\* The service restarts.  The requests begin anew, and so do their histories.
EndStreams ==
    /\ step' = [r \in Requests |-> "idle"]
    /\ attempt' = [r \in Requests |-> 1]
    /\ pending' = [r \in Requests |-> {}]
    /\ pool' = [r \in Requests |-> 0]
    /\ sent' = [r \in Requests |-> <<>>]
    /\ calls' = [r \in Requests |-> 0]

StreamNext ==
    \/ \E r \in Requests : BeginStream(r) \/ Advance(r) \/ Disconnect(r)
    \/ EndStreams

StreamSpec == StreamInit /\ [][StreamNext]_streamVars

--------------------------------------------------------------------------------
(***************************************************************************)
(* The event order api/chat.py documents: deltas, at most one error, then  *)
(* always the sources, then DONE and nothing more; an interrupted stream   *)
(* is a beginning of that (_sse_event_stream).                             *)
(***************************************************************************)
Follows ==
    {<<"delta", "delta">>, <<"delta", "error">>, <<"delta", "sources">>,
     <<"error", "sources">>, <<"sources", "done">>}

EventOrder ==
    \A r \in Requests :
        /\ sent[r] # <<>> => sent[r][1] \in {"delta", "error", "sources"}
        /\ \A i \in 1 .. Len(sent[r]) - 1 : <<sent[r][i], sent[r][i + 1]>> \in Follows

(***************************************************************************)
(* The stages are retried one by one and none is entered twice, so that a  *)
(* request costs a bounded number of provider calls, however they fail     *)
(* (with_retry, "without turning a real outage into a long hang").         *)
(***************************************************************************)
Stages == 2 + (IF DateModel THEN 1 ELSE 0) + (IF RerankModel THEN 1 ELSE 0)

CallBudget == \A r \in Requests : calls[r] <= Stages * MaxAttempts

(***************************************************************************)
(* Once the client has received anything, the request calls no provider    *)
(* again: content that was sent cannot be un-sent (stream_chat_completion).*)
(***************************************************************************)
NoCallAfterDelta ==
    [][\A r \in Requests : sent[r] # <<>> /\ sent'[r] # <<>> => calls'[r] = calls[r]]_streamVars

(***************************************************************************)
(* Whatever fails at whatever stage, a request that began comes to its end *)
(* (_sse_event_stream).                                                    *)
(***************************************************************************)
EveryStreamEnds == \A r \in Requests : step[r] = "embed" ~> step[r] \in {"closed", "idle"}
================================================================================
