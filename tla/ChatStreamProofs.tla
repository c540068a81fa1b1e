---------------------------- MODULE ChatStreamProofs ----------------------------
(***************************************************************************)
(* The event streams of /chat, for any number of requests and attempts,    *)
(* and with or without the optional models.                                *)
(***************************************************************************)
EXTENDS ChatStream, TLAPS

--------------------------------------------------------------------------------
(***************************************************************************)
(* What a request has cost and sent by the time it is at a step.           *)
(***************************************************************************)
DateCost == IF DateModel THEN MaxAttempts ELSE 0
RankCost == IF RerankModel THEN MaxAttempts ELSE 0

CallsSoFar(r) ==
    CASE step[r] = "idle" -> calls[r] = 0
      [] step[r] = "embed" -> calls[r] <= attempt[r]
      [] step[r] = "search" ->
            calls[r] <= MaxAttempts + (IF "dates" \in pending[r] THEN attempt[r] ELSE DateCost)
      [] step[r] = "rerank" -> RerankModel /\ calls[r] <= MaxAttempts + DateCost + attempt[r]
      [] step[r] = "open" -> calls[r] <= MaxAttempts + DateCost + RankCost + attempt[r]
      [] OTHER -> calls[r] <= 2 * MaxAttempts + DateCost + RankCost

Last(r) == sent[r][Len(sent[r])]

SentSoFar(r) ==
    CASE step[r] = "stream" -> sent[r] = <<>> \/ Last(r) = "delta"
      [] step[r] = "sources" -> sent[r] = <<>> \/ Last(r) \in {"delta", "error"}
      [] step[r] = "done" -> sent[r] # <<>> /\ Last(r) = "sources"
      [] step[r] = "closed" -> TRUE
      [] OTHER -> sent[r] = <<>>

InOrder(r) ==
    /\ sent[r] # <<>> => sent[r][1] \in {"delta", "error", "sources"}
    /\ \A i \in 1 .. Len(sent[r]) - 1 : <<sent[r][i], sent[r][i + 1]>> \in Follows

StreamInv == \A r \in Requests : CallsSoFar(r) /\ SentSoFar(r) /\ InOrder(r)

--------------------------------------------------------------------------------
\* Every step of a request keeps the types.
LEMMA StreamTypeStep ==
    ASSUME StreamTypeOK, NEW r \in Requests, BeginStream(r) \/ Advance(r) \/ Disconnect(r)
    PROVE  StreamTypeOK'
<1> DEFINE Events == {"delta", "error", "sources", "done"}
<1> USE DEF StreamTypeOK
<1>a. MaxAttempts \in Nat /\ MaxAttempts >= 1
  BY AttemptsAssumption
<1>b. \A e \in Events : Send(r, e) => sent' \in [Requests -> Seq(Events)]
  <2> SUFFICES ASSUME NEW e \in Events, Send(r, e) PROVE sent' \in [Requests -> Seq(Events)]
    OBVIOUS
  <2>1. sent \in [Requests -> Seq(Events)]
    OBVIOUS
  <2> HIDE DEF Events
  <2>2. Append(sent[r], e) \in Seq(Events)
    BY <2>1
  <2> QED BY <2>1, <2>2 DEF Send
<1>c. \A s \in StreamSteps : Await(r, s) => step' \in [Requests -> StreamSteps]
  BY DEF Await
<1>d. Call(r) => attempt' \in [Requests -> 1 .. MaxAttempts] /\ calls' \in [Requests -> Nat]
  BY <1>a DEF Call
<1>1. CASE BeginStream(r)
  BY <1>1, <1>c, <1>d DEF BeginStream, StreamSteps
<1>2. CASE Retry(r)
  <2>1. attempt[r] + 1 \in 1 .. MaxAttempts /\ calls[r] + 1 \in Nat
    BY <1>2, <1>a DEF Retry
  <2> QED BY <2>1, <1>2 DEF Retry
<1>3. CASE EmbedAnswers(r)
  BY <1>3, <1>c, <1>d DEF EmbedAnswers, StreamSteps
<1>4. CASE EmbedFails(r)
  BY <1>4, <1>c, <1>d DEF EmbedFails, StreamSteps
<1>5. CASE DatesResolved(r)
  BY <1>5 DEF DatesResolved
<1>6. ASSUME NEW leg \in Legs, NEW n \in Found(leg), SearchAnswers(r, leg, n)
      PROVE  StreamTypeOK'
  <2> DEFINE chunks == IF pool[r] + n > Several THEN Several ELSE pool[r] + n
  <2>1. chunks \in 0 .. Several /\ 0 \in 0 .. Several
    <3>1. n \in 0 .. Several
      BY DEF Found, Several
    <3>2. pool[r] \in 0 .. Several
      OBVIOUS
    <3> QED BY <3>1, <3>2 DEF Several
  <2> HIDE DEF chunks
  <2>2. pending' \in [Requests -> SUBSET Legs] /\ sent' = sent
    BY <1>6 DEF SearchAnswers
  <2>3. CASE pending[r] # {leg}
    BY <2>1, <2>2, <2>3, <1>6 DEF SearchAnswers, chunks
  <2>4. CASE pending[r] = {leg}
    <3>1. pool' \in [Requests -> 0 .. Several]
      BY <2>1, <2>4, <1>6 DEF SearchAnswers
    <3>2. step' \in [Requests -> StreamSteps] /\ Call(r)
      BY <2>4, <1>6, <1>c DEF SearchAnswers, StreamSteps
    <3> QED BY <3>1, <3>2, <2>2, <1>d
  <2> QED BY <2>3, <2>4
<1>7. CASE Reranked(r)
  BY <1>7, <1>c, <1>d DEF Reranked, StreamSteps
<1>8. CASE Opens(r)
  BY <1>8, <1>c DEF Opens, StreamSteps
<1>9. CASE Delta(r)
  BY <1>9, <1>b DEF Delta
<1>10. CASE StreamEnds(r)
  BY <1>10, <1>c DEF StreamEnds, StreamSteps
<1>11. CASE ModelFails(r)
  BY <1>11, <1>b, <1>c DEF ModelFails, StreamSteps
<1>12. CASE SendSources(r)
  BY <1>12, <1>b, <1>c DEF SendSources, StreamSteps
<1>13. CASE SendDone(r)
  BY <1>13, <1>b, <1>c DEF SendDone, StreamSteps
<1>14. CASE Disconnect(r)
  BY <1>14, <1>c DEF Disconnect, StreamSteps
<1> QED
  BY <1>1, <1>2, <1>3, <1>4, <1>5, <1>6, <1>7, <1>8, <1>9, <1>10, <1>11, <1>12, <1>13, <1>14
  DEF Advance

\* A step of one request leaves the others alone.
LEMMA OtherRequests ==
    ASSUME StreamTypeOK, NEW r \in Requests, BeginStream(r) \/ Advance(r) \/ Disconnect(r),
           NEW q \in Requests \ {r}
    PROVE  /\ step'[q] = step[q] /\ attempt'[q] = attempt[q] /\ pending'[q] = pending[q]
           /\ sent'[q] = sent[q] /\ calls'[q] = calls[q]
<1> USE DEF StreamTypeOK, Await, Send, Call
<1>1. ASSUME NEW leg \in Legs, NEW n \in Found(leg), SearchAnswers(r, leg, n)
      PROVE  /\ step'[q] = step[q] /\ attempt'[q] = attempt[q] /\ pending'[q] = pending[q]
             /\ sent'[q] = sent[q] /\ calls'[q] = calls[q]
  <2>1. CASE pending[r] # {leg}
    BY <1>1, <2>1 DEF SearchAnswers
  <2>2. CASE pending[r] = {leg}
    BY <1>1, <2>2 DEF SearchAnswers
  <2> QED BY <2>1, <2>2
<1> QED
  BY <1>1 DEF Advance, BeginStream, Retry, EmbedAnswers, EmbedFails, DatesResolved, Reranked, Opens,
              Delta, StreamEnds, ModelFails, SendSources, SendDone, Disconnect

\* What a request costs, step by step.
LEMMA CallsStep ==
    ASSUME StreamTypeOK, NEW r \in Requests, CallsSoFar(r), BeginStream(r) \/ Advance(r) \/ Disconnect(r)
    PROVE  CallsSoFar(r)'
<1>a. /\ MaxAttempts \in Nat /\ MaxAttempts >= 1 /\ DateCost \in Nat /\ RankCost \in Nat
      /\ attempt[r] \in Nat /\ attempt[r] >= 1 /\ attempt[r] <= MaxAttempts /\ calls[r] \in Nat
      /\ (DateModel => DateCost = MaxAttempts) /\ (RerankModel => RankCost = MaxAttempts)
      /\ (~DateModel => DateCost = 0) /\ (~RerankModel => RankCost = 0)
  BY AttemptsAssumption DEF StreamTypeOK, DateCost, RankCost
<1>b. "dates" \in Legs <=> DateModel
  BY LegsAssumption DEF Legs
<1>c. pending[r] \subseteq Legs
  BY DEF StreamTypeOK
<1>d. \A s \in StreamSteps : Await(r, s) => step'[r] = s
  BY DEF Await, StreamTypeOK
<1>e. Call(r) => attempt'[r] = 1 /\ calls'[r] = calls[r] + 1
  BY DEF Call, StreamTypeOK
<1> DEFINE Budget == 2 * MaxAttempts + DateCost + RankCost
<1>f. calls[r] <= Budget
  BY <1>a, <1>b, <1>c DEF CallsSoFar
<1>1. CASE BeginStream(r)
  BY <1>1, <1>a, <1>d, <1>e DEF BeginStream, CallsSoFar, StreamSteps
<1>2. CASE Retry(r)
  <2>1. step'[r] = step[r] /\ pending'[r] = pending[r] /\ attempt'[r] = attempt[r] + 1
        /\ calls'[r] = calls[r] + 1
    BY <1>2 DEF Retry, StreamTypeOK
  <2>2. step[r] \in {"embed", "rerank", "open"} \/ (step[r] = "search" /\ "dates" \in pending[r])
    BY <1>2 DEF Retry, CallOpen
  <2> QED BY <2>1, <2>2, <1>a DEF CallsSoFar, DateCost, RankCost
<1>3. CASE EmbedAnswers(r)
  <2>1. step'[r] = "search" /\ step[r] = "embed" /\ pending'[r] = Legs
    BY <1>3, <1>d DEF EmbedAnswers, StreamSteps, StreamTypeOK
  <2>2. CASE DateModel
    BY <2>1, <2>2, <1>3, <1>a, <1>e DEF EmbedAnswers, CallsSoFar
  <2>3. CASE ~DateModel
    BY <2>1, <2>3, <1>3, <1>a, <1>b DEF EmbedAnswers, CallsSoFar, DateCost
  <2> QED BY <2>2, <2>3
<1>4. CASE EmbedFails(r)
  BY <1>4, <1>a, <1>d, <1>e DEF EmbedFails, CallsSoFar, StreamSteps, DateCost, RankCost
<1>5. CASE DatesResolved(r)
  <2>1. step'[r] = "search" /\ step[r] = "search" /\ calls'[r] = calls[r]
        /\ "dates" \in pending[r] /\ "dates" \notin pending'[r]
    BY <1>5 DEF DatesResolved, StreamTypeOK
  <2> QED BY <2>1, <1>a, <1>b, <1>c DEF CallsSoFar, DateCost
<1>6. ASSUME NEW leg \in Legs, NEW n \in Found(leg), SearchAnswers(r, leg, n)
      PROVE  CallsSoFar(r)'
  <2>1. step[r] = "search" /\ leg \in pending[r] /\ leg # "dates" /\ pending'[r] = pending[r] \ {leg}
    BY <1>6 DEF SearchAnswers, Searchable, StreamTypeOK
  <2>2. CASE pending[r] # {leg}
    <3>1. step'[r] = "search" /\ attempt'[r] = attempt[r] /\ calls'[r] = calls[r]
      BY <2>1, <2>2, <1>6 DEF SearchAnswers
    <3> QED BY <3>1, <2>1, <1>a DEF CallsSoFar, DateCost
  <2>3. CASE pending[r] = {leg}
    <3>1. Call(r) /\ (step'[r] = "open" \/ (step'[r] = "rerank" /\ RerankModel))
      BY <2>1, <2>3, <1>6 DEF SearchAnswers, Await, StreamTypeOK
    <3>2. "dates" \notin pending[r]
      BY <2>1, <2>3
    <3>3. calls[r] <= MaxAttempts + DateCost
      BY <2>1, <3>2 DEF CallsSoFar
    <3> QED BY <3>1, <3>3, <1>a, <1>e DEF CallsSoFar, DateCost, RankCost
  <2> QED BY <2>2, <2>3
<1>7. CASE Reranked(r)
  BY <1>7, <1>a, <1>d, <1>e DEF Reranked, CallsSoFar, StreamSteps, DateCost, RankCost
<1>8. CASE Opens(r) \/ StreamEnds(r) \/ ModelFails(r) \/ SendSources(r) \/ SendDone(r) \/ Disconnect(r)
  <2>1. step'[r] \in {"stream", "sources", "done", "closed"} /\ calls' = calls
    BY <1>8, <1>d DEF Opens, StreamEnds, ModelFails, SendSources, SendDone, Disconnect, StreamSteps
  <2> QED BY <2>1, <1>f DEF CallsSoFar, DateCost, RankCost
<1>9. CASE Delta(r)
  BY <1>9 DEF Delta, CallsSoFar, DateCost, RankCost
<1> QED BY <1>1, <1>2, <1>3, <1>4, <1>5, <1>6, <1>7, <1>8, <1>9 DEF Advance

\* What Append does, entry by entry.
LEMMA AppendFacts ==
    ASSUME NEW S, NEW s \in Seq(S), NEW e \in S
    PROVE  /\ Len(Append(s, e)) = Len(s) + 1
           /\ \A i \in 1 .. Len(s) : Append(s, e)[i] = s[i]
           /\ Append(s, e)[Len(s) + 1] = e
OBVIOUS

\* Appending an event that may follow keeps the order.
LEMMA SendInOrder ==
    ASSUME StreamTypeOK, NEW r \in Requests, InOrder(r),
           NEW e \in {"delta", "error", "sources", "done"}, Send(r, e),
           IF sent[r] = <<>> THEN e \in {"delta", "error", "sources"} ELSE <<Last(r), e>> \in Follows
    PROVE  InOrder(r)' /\ sent'[r] # <<>> /\ Last(r)' = e
<1> DEFINE Events == {"delta", "error", "sources", "done"}
           n == Len(sent[r])
<1>1. sent[r] \in Seq(Events) /\ e \in Events /\ sent'[r] = Append(sent[r], e)
  BY DEF StreamTypeOK, Send
<1> HIDE DEF Events
<1>2. /\ n \in Nat /\ Len(sent'[r]) = n + 1 /\ sent'[r][n + 1] = e
      /\ \A i \in 1 .. n : sent'[r][i] = sent[r][i]
  BY <1>1, AppendFacts
<1>3. sent'[r] # <<>> /\ (sent[r] = <<>> <=> n = 0)
  BY <1>1, <1>2
<1>4. Last(r)' = e
  BY <1>2 DEF Last
<1>5. sent'[r][1] \in {"delta", "error", "sources"}
  <2>1. CASE n = 0
    BY <2>1, <1>2, <1>3
  <2>2. CASE n # 0
    BY <2>2, <1>2, <1>3 DEF InOrder
  <2> QED BY <2>1, <2>2
<1>6. ASSUME NEW i \in 1 .. n
      PROVE  <<sent'[r][i], sent'[r][i + 1]>> \in Follows
  <2>1. CASE i = n
    BY <2>1, <1>2, <1>3 DEF Last
  <2>2. CASE i # n
    <3>1. i \in 1 .. n - 1 /\ i + 1 \in 1 .. n
      BY <2>2, <1>2
    <3> QED BY <3>1, <1>2 DEF InOrder
  <2> QED BY <2>1, <2>2
<1>7. InOrder(r)'
  <2>1. Len(sent'[r]) - 1 = n
    BY <1>2
  <2> QED BY <2>1, <1>5, <1>6 DEF InOrder
<1> QED BY <1>3, <1>4, <1>7

\* What a request has sent, step by step.
LEMMA SentStep ==
    ASSUME StreamTypeOK, NEW r \in Requests, SentSoFar(r), InOrder(r),
           BeginStream(r) \/ Advance(r) \/ Disconnect(r)
    PROVE  SentSoFar(r)' /\ InOrder(r)'
<1>d. \A s \in StreamSteps : Await(r, s) => step'[r] = s
  BY DEF Await, StreamTypeOK
<1>1. CASE BeginStream(r) \/ Retry(r) \/ EmbedAnswers(r) \/ EmbedFails(r) \/ DatesResolved(r) \/ Reranked(r)
           \/ Opens(r) \/ StreamEnds(r) \/ Disconnect(r)
           \/ \E leg \in Legs : \E n \in Found(leg) : SearchAnswers(r, leg, n)
  <2>1. sent' = sent
    BY <1>1 DEF BeginStream, Retry, EmbedAnswers, EmbedFails, DatesResolved, Reranked, Opens, StreamEnds,
                Disconnect, SearchAnswers
  <2>2. InOrder(r)'
    BY <2>1 DEF InOrder
  <2>3. \/ step[r] \in StreamSteps \ {"stream", "sources", "done", "closed"} /\ step'[r] # "done"
        \/ step[r] = "stream" /\ step'[r] = "sources"
        \/ step'[r] = "closed"
    <3>1. CASE \E leg \in Legs : \E n \in Found(leg) : SearchAnswers(r, leg, n)
      <4>1. PICK leg \in Legs : \E n \in Found(leg) : SearchAnswers(r, leg, n)
        BY <3>1
      <4>2. PICK n \in Found(leg) : SearchAnswers(r, leg, n)
        BY <4>1
      <4>3. step[r] = "search" /\ step'[r] \in {"search", "rerank", "open"}
        <5>1. CASE pending[r] # {leg}
          BY <4>2, <5>1 DEF SearchAnswers
        <5>2. CASE pending[r] = {leg}
          BY <4>2, <5>2 DEF SearchAnswers, Await, StreamTypeOK
        <5> QED BY <5>1, <5>2
      <4> QED BY <4>3 DEF StreamSteps
    <3>2. CASE ~ \E leg \in Legs : \E n \in Found(leg) : SearchAnswers(r, leg, n)
      BY <1>1, <3>2, <1>d DEF BeginStream, Retry, CallOpen, EmbedAnswers, EmbedFails, DatesResolved,
            Reranked, Opens, StreamEnds, Disconnect, StreamSteps
    <3> QED BY <3>1, <3>2
  <2> QED BY <2>1, <2>2, <2>3 DEF SentSoFar, Last
<1>2. CASE Delta(r)
  <2>1. step[r] = "stream" /\ step'[r] = "stream" /\ Send(r, "delta")
    BY <1>2 DEF Delta
  <2>2. IF sent[r] = <<>> THEN TRUE ELSE <<Last(r), "delta">> \in Follows
    BY <2>1 DEF SentSoFar, Follows
  <2> QED BY <2>1, <2>2, SendInOrder DEF SentSoFar
<1>3. CASE ModelFails(r)
  <2>1. step[r] \in {"open", "stream"} /\ step'[r] = "sources" /\ Send(r, "error")
    BY <1>3, <1>d DEF ModelFails, StreamSteps
  <2>2. IF sent[r] = <<>> THEN TRUE ELSE <<Last(r), "error">> \in Follows
    BY <2>1 DEF SentSoFar, Follows
  <2> QED BY <2>1, <2>2, SendInOrder DEF SentSoFar
<1>4. CASE SendSources(r)
  <2>1. step[r] = "sources" /\ step'[r] = "done" /\ Send(r, "sources")
    BY <1>4, <1>d DEF SendSources, StreamSteps
  <2>2. IF sent[r] = <<>> THEN TRUE ELSE <<Last(r), "sources">> \in Follows
    BY <2>1 DEF SentSoFar, Follows
  <2> QED BY <2>1, <2>2, SendInOrder DEF SentSoFar
<1>5. CASE SendDone(r)
  <2>1. step[r] = "done" /\ step'[r] = "closed" /\ Send(r, "done")
    BY <1>5, <1>d DEF SendDone, StreamSteps
  <2>2. sent[r] # <<>> /\ <<Last(r), "done">> \in Follows
    BY <2>1 DEF SentSoFar, Follows
  <2> QED BY <2>1, <2>2, SendInOrder DEF SentSoFar
<1> QED BY <1>1, <1>2, <1>3, <1>4, <1>5 DEF Advance

--------------------------------------------------------------------------------
\* A step of one request keeps the invariant of all.
LEMMA OneRequestSteps ==
    ASSUME StreamTypeOK, StreamInv, NEW r \in Requests, BeginStream(r) \/ Advance(r) \/ Disconnect(r)
    PROVE  StreamInv'
<1>1. CallsSoFar(r)' /\ SentSoFar(r)' /\ InOrder(r)'
  BY CallsStep, SentStep DEF StreamInv
<1>2. ASSUME NEW q \in Requests \ {r} PROVE (CallsSoFar(q) /\ SentSoFar(q) /\ InOrder(q))'
  BY OtherRequests DEF StreamInv, CallsSoFar, SentSoFar, InOrder, Last, DateCost, RankCost
<1> QED BY <1>1, <1>2 DEF StreamInv

\* A new process has made no calls and sent nothing.
LEMMA FreshStreams ==
    (\A r \in Requests : step[r] = "idle" /\ calls[r] = 0 /\ sent[r] = <<>>) => StreamInv
<1> SUFFICES ASSUME NEW r \in Requests, step[r] = "idle" /\ calls[r] = 0 /\ sent[r] = <<>>
             PROVE  CallsSoFar(r) /\ SentSoFar(r) /\ InOrder(r)
  BY DEF StreamInv
<1>1. CallsSoFar(r) /\ SentSoFar(r)
  BY DEF CallsSoFar, SentSoFar
<1>2. Len(sent[r]) = 0
  OBVIOUS
<1>3. InOrder(r)
  BY <1>2 DEF InOrder
<1> QED BY <1>1, <1>3

LEMMA StreamInitInv == StreamInit => StreamTypeOK /\ StreamInv
<1> SUFFICES ASSUME StreamInit PROVE StreamTypeOK /\ StreamInv
  OBVIOUS
<1>1. StreamTypeOK
  BY AttemptsAssumption DEF StreamInit, StreamTypeOK, StreamSteps, Several
<1>2. StreamInv
  BY FreshStreams DEF StreamInit
<1> QED BY <1>1, <1>2

\* A restart is a new process.
LEMMA EndStreamsStep == EndStreams => StreamTypeOK' /\ StreamInv'
<1> SUFFICES ASSUME EndStreams PROVE StreamTypeOK' /\ StreamInv'
  OBVIOUS
<1>1. StreamTypeOK'
  BY AttemptsAssumption DEF EndStreams, StreamTypeOK, StreamSteps, Several
<1>2. (\A r \in Requests : step[r] = "idle" /\ calls[r] = 0 /\ sent[r] = <<>>)'
  BY DEF EndStreams
<1>3. StreamInv'
  BY <1>2, FreshStreams, PTL
<1> QED BY <1>1, <1>3

LEMMA StreamInvStep == StreamTypeOK /\ StreamInv /\ [StreamNext]_streamVars => StreamTypeOK' /\ StreamInv'
<1> SUFFICES ASSUME StreamTypeOK, StreamInv, [StreamNext]_streamVars
             PROVE  StreamTypeOK' /\ StreamInv'
  OBVIOUS
<1>1. ASSUME NEW r \in Requests, BeginStream(r) \/ Advance(r) \/ Disconnect(r)
      PROVE  StreamTypeOK' /\ StreamInv'
  BY <1>1, StreamTypeStep, OneRequestSteps
<1>2. CASE UNCHANGED streamVars
  <2>1. StreamTypeOK'
    BY <1>2 DEF StreamTypeOK, streamVars
  <2>2. StreamInv'
    BY <1>2 DEF StreamInv, CallsSoFar, SentSoFar, InOrder, Last, DateCost, RankCost, streamVars
  <2> QED BY <2>1, <2>2
<1> QED BY <1>1, <1>2, EndStreamsStep DEF StreamNext

\* The price of all stages.
LEMMA StagesCost == Stages * MaxAttempts = 2 * MaxAttempts + DateCost + RankCost
<1>1. MaxAttempts \in Nat
  BY AttemptsAssumption
<1>2. CASE DateModel /\ RerankModel
  BY <1>1, <1>2 DEF Stages, DateCost, RankCost
<1>3. CASE DateModel /\ ~RerankModel
  BY <1>1, <1>3 DEF Stages, DateCost, RankCost
<1>4. CASE ~DateModel /\ RerankModel
  BY <1>1, <1>4 DEF Stages, DateCost, RankCost
<1>5. CASE ~DateModel /\ ~RerankModel
  BY <1>1, <1>5 DEF Stages, DateCost, RankCost
<1> QED BY <1>2, <1>3, <1>4, <1>5

LEMMA StreamInvHolds == StreamSpec => [](StreamTypeOK /\ StreamInv)
BY StreamInitInv, StreamInvStep, PTL DEF StreamSpec

\* Every variable of the streams stays in its set.
THEOREM StreamTypeCorrect == StreamSpec => []StreamTypeOK
BY StreamInvHolds, PTL

\* with_retry at every stage: a request's calls are bounded by its stages.
THEOREM CallBudgetHolds == StreamSpec => []CallBudget
<1>1. StreamTypeOK /\ StreamInv => CallBudget
  <2> SUFFICES ASSUME StreamTypeOK, StreamInv, NEW r \in Requests PROVE calls[r] <= Stages * MaxAttempts
    BY DEF CallBudget
  <2>1. /\ MaxAttempts \in Nat /\ DateCost \in Nat /\ RankCost \in Nat
        /\ attempt[r] \in Nat /\ attempt[r] <= MaxAttempts /\ calls[r] \in Nat
        /\ (RerankModel => RankCost = MaxAttempts)
    BY AttemptsAssumption DEF StreamTypeOK, DateCost, RankCost
  <2>2. CASE step[r] = "search" /\ "dates" \in pending[r]
    <3>1. DateModel
      <4>1. "dates" \in Legs
        BY <2>2 DEF StreamTypeOK
      <4> QED BY <4>1, LegsAssumption DEF Legs
    <3>2. DateCost = MaxAttempts
      BY <3>1 DEF DateCost
    <3> QED BY <2>1, <2>2, <3>2, StagesCost DEF StreamInv, CallsSoFar
  <2>3. CASE ~ (step[r] = "search" /\ "dates" \in pending[r])
    BY <2>1, <2>3, StagesCost DEF StreamInv, CallsSoFar
  <2> QED BY <2>2, <2>3
<1> QED BY StreamInvHolds, <1>1, PTL

\* _sse_event_stream: the documented order of events.
THEOREM EventOrderHolds == StreamSpec => []EventOrder
<1>1. StreamInv => EventOrder
  BY DEF StreamInv, InOrder, EventOrder
<1> QED BY StreamInvHolds, <1>1, PTL

\* stream_chat_completion: no provider is called once something was sent.
THEOREM NoCallAfterDeltaHolds == StreamSpec => NoCallAfterDelta
<1>1. StreamTypeOK /\ StreamInv /\ [StreamNext]_streamVars
        => [\A r \in Requests : sent[r] # <<>> /\ sent'[r] # <<>> => calls'[r] = calls[r]]_streamVars
  <2> SUFFICES ASSUME StreamTypeOK, StreamInv, [StreamNext]_streamVars, NEW r \in Requests,
                      sent[r] # <<>>, sent'[r] # <<>>
               PROVE  calls'[r] = calls[r]
    OBVIOUS
  <2>1. step[r] \in {"stream", "sources", "done", "closed"}
    BY DEF StreamInv, SentSoFar
  <2>2. ASSUME NEW q \in Requests, BeginStream(q) \/ Advance(q) \/ Disconnect(q)
        PROVE  calls'[r] = calls[r]
    <3>1. CASE q = r
      BY <2>1, <2>2, <3>1 DEF Advance, BeginStream, Retry, CallOpen, EmbedAnswers, EmbedFails,
           DatesResolved, SearchAnswers, Reranked, Opens, Delta, StreamEnds, ModelFails,
           SendSources, SendDone, Disconnect
    <3>2. CASE q # r
      BY <2>2, <3>2, OtherRequests
    <3> QED BY <3>1, <3>2
  <2>3. CASE EndStreams
    BY <2>3 DEF EndStreams
  <2>4. CASE UNCHANGED streamVars
    BY <2>4 DEF streamVars
  <2> QED BY <2>2, <2>3, <2>4 DEF StreamNext
<1> QED BY StreamInvHolds, <1>1, PTL DEF StreamSpec, NoCallAfterDelta
================================================================================
