------------------------- MODULE AccountLifecycleProofs -------------------------
(***************************************************************************)
(* Type correctness of AccountLifecycle, the proof that purge_user's order *)
(* leaves no orphaned data behind, and what a condemned registration's key *)
(* is: for every number of users, requests, keys, threads and crashes.     *)
(***************************************************************************)
EXTENDS AccountLifecycle, TLAPS

\* What an actor that is past a stage of its purge knows about the stores.
PurgeProgress ==
    \A a \in Actors : who[a] \in Users \ disturbed =>
        /\ pc[a] \in {"list", "threads", "row"} => who[a] \notin partition
        /\ pc[a] = "threads" => OwnThreads(who[a]) \subseteq rows[a]
        /\ pc[a] = "row" => OwnThreads(who[a]) = {}

OrphanInv == NoUnexplainedOrphan /\ PurgeProgress

USE DEF Keys, NoKey, Revocation, PCs, SyncPCs, PurgePCs

\* The part of TypeOK about an actor's pc and what it holds.
CoroutinesTyped ==
    /\ pc \in [Actors -> PCs]
    /\ who \in [Actors -> Users \cup {Nobody}]
    /\ \A a \in Actors : pc[a] \notin {"idle", "pick"} => who[a] \in Users
    /\ key \in [Actors -> 0 .. MaxKeys]
    /\ settled \in [Actors -> BOOLEAN]
    /\ rows \in [Actors -> SUBSET Threads]
    /\ \A a \in Actors : \A t \in rows[a] : t[1] = who[a]

--------------------------------------------------------------------------------
LEMMA LeaveTyped ==
    ASSUME TypeOK, NEW a \in Actors, Leave(a)
    PROVE  CoroutinesTyped'
<1>1. Rest(a) \in {"idle", "pick"}
  BY DEF Rest
<1> QED
  BY <1>1, BoundsAssumption DEF TypeOK, CoroutinesTyped, Leave, Goto

\* Every step keeps every variable in its set: the registry, the two data stores
\* and the program counters of the coroutines of sync.py, internal.py and agent.py.
THEOREM TypeCorrect == Spec => []TypeOK
<1>1. Init => TypeOK
  BY ActorsAssumption, BoundsAssumption, ThresholdAssumption DEF Init, TypeOK, Actors, Threads
<1>2. TypeOK /\ [Next]_vars => TypeOK'
  <2> SUFFICES ASSUME TypeOK, [Next]_vars PROVE TypeOK'
    OBVIOUS
  <2> USE ActorsAssumption, BoundsAssumption, ThresholdAssumption
          DEF TypeOK, Actors, Threads, vars, studylife, registry, coroutines
  <2>1. ASSUME NEW u \in Users, GenerateKey(u) \/ WithdrawKey(u) PROVE TypeOK'
    <3>1. CASE GenerateKey(u)
      <4>1. issued[u] + 1 \in 0 .. MaxKeys
        BY <3>1 DEF GenerateKey
      <4> QED BY <3>1, <4>1 DEF GenerateKey
    <3>2. CASE WithdrawKey(u)
      BY <3>2 DEF WithdrawKey
    <3> QED BY <2>1, <3>1, <3>2
  <2>2. CASE LoopStep
    <3>1. CASE StartRun
      BY <3>1 DEF StartRun, Goto
    <3>2. ASSUME NEW u \in Users, PickUser(u) PROVE TypeOK'
      <4>1. CASE registered[u] = NoKey
        BY <3>2, <4>1 DEF PickUser
      <4>2. CASE registered[u] # NoKey
        BY <3>2, <4>2 DEF PickUser, Arrive, Goto
      <4> QED BY <4>1, <4>2
    <3>3. CASE EndRun
      BY <3>3 DEF EndRun, Goto
    <3>4. CASE RecordSyncSuccess
      BY <3>4, LeaveTyped DEF RecordSyncSuccess, CoroutinesTyped
    <3>5. CASE RecordSync401
      BY <3>5 DEF RecordSync401, Goto
    <3>6. CASE BelowThreshold
      BY <3>6, LeaveTyped DEF BelowThreshold, CoroutinesTyped
    <3>7. CASE Condemn
      BY <3>7 DEF Condemn, Goto
    <3> QED BY <2>2, <3>1, <3>2, <3>3, <3>4, <3>5, <3>6, <3>7 DEF LoopStep
  <2>3. CASE RunAborts
    BY <2>3 DEF RunAborts
  <2>4. ASSUME NEW a \in Actors, SyncStep(a) \/ SyncFails(a) PROVE TypeOK'
    <3>1. CASE ReadKnown(a)
      BY <3>1 DEF ReadKnown, Goto
    <3>2. CASE FetchAccepted(a)
      BY <3>2 DEF FetchAccepted, Goto
    <3>3. CASE FetchUnauthorized(a)
      <4>1. CASE a = Loop
        BY <3>3, <4>1 DEF FetchUnauthorized, Goto
      <4>2. CASE a # Loop
        BY <3>3, <4>2, LeaveTyped DEF FetchUnauthorized, CoroutinesTyped
      <4> QED BY <4>1, <4>2
    <3>4. CASE WriteEntity(a)
      BY <3>4 DEF WriteEntity, Disturb
    <3>5. CASE FinishSync(a)
      <4>1. CASE a = Loop
        BY <3>5, <4>1 DEF FinishSync, Goto
      <4>2. CASE a # Loop
        BY <3>5, <4>2, LeaveTyped DEF FinishSync, CoroutinesTyped
      <4> QED BY <4>1, <4>2
    <3>6. CASE SyncFails(a)
      BY <3>6, LeaveTyped DEF SyncFails, CoroutinesTyped
    <3> QED BY <2>4, <3>1, <3>2, <3>3, <3>4, <3>5, <3>6 DEF SyncStep
  <2>5. ASSUME NEW a \in Actors, PurgeStep(a) \/ PurgeFault(a) PROVE TypeOK'
    <3>1. CASE EraseUser(a)
      BY <3>1 DEF EraseUser, Goto
    <3>2. CASE ListThreads(a)
      BY <3>2 DEF ListThreads, Goto, OwnThreads
    <3>3. ASSUME NEW t \in Threads, DeleteThread(a, t) PROVE TypeOK'
      BY <3>3 DEF DeleteThread
    <3>4. CASE ThreadsGone(a)
      BY <3>4 DEF ThreadsGone, Goto
    <3>5. CASE DeleteRow(a)
      BY <3>5, LeaveTyped DEF DeleteRow, CoroutinesTyped
    <3>6. CASE EraseFails(a)
      BY <3>6 DEF EraseFails, Disturb, Goto
    <3>7. CASE ThreadsFail(a)
      BY <3>7 DEF ThreadsFail, Disturb, Goto
    <3> QED BY <2>5, <3>1, <3>2, <3>3, <3>4, <3>5, <3>6, <3>7 DEF PurgeStep, PurgeFault
  <2>6. ASSUME NEW h \in Handlers, Request(h) PROVE TypeOK'
    <3>1. ASSUME NEW u \in Users, NEW k \in Keys, RegisterKey(h, u, k) PROVE TypeOK'
      BY <3>1 DEF RegisterKey, Arrive, Goto
    <3>2. ASSUME NEW u \in Users, RevokeKey(h, u) \/ EnrichCapture(h, u) PROVE TypeOK'
      BY <3>2 DEF RevokeKey, EnrichCapture, Arrive, Goto
    <3>3. ASSUME NEW u \in Users, NEW t \in Threads, StartTurn(h, u, t) PROVE TypeOK'
      BY <3>3 DEF StartTurn, Arrive, Goto
    <3>4. CASE IngestNote(h)
      BY <3>4, LeaveTyped DEF IngestNote, Disturb, CoroutinesTyped
    <3>5. CASE SaveCheckpoint(h)
      <4>1. rows[h] \subseteq Threads
        OBVIOUS
      <4> QED BY <3>5, <4>1 DEF SaveCheckpoint, Disturb
    <3>6. CASE DropThread(h)
      BY <3>6, LeaveTyped DEF DropThread, CoroutinesTyped
    <3>7. CASE IngestNoteFails(h) \/ EndTurn(h) \/ DeleteRowFails(h)
      BY <3>7, LeaveTyped DEF IngestNoteFails, EndTurn, DeleteRowFails, CoroutinesTyped
    <3> QED BY <2>6, <3>1, <3>2, <3>3, <3>4, <3>5, <3>6, <3>7 DEF Request
  <2>7. ASSUME NEW t \in Threads, ExpireThread(t) PROVE TypeOK'
    BY <2>7 DEF ExpireThread
  <2>8. CASE Crash
    BY <2>8 DEF Crash
  <2>9. CASE UNCHANGED vars
    BY <2>9
  <2> QED BY <2>1, <2>2, <2>3, <2>4, <2>5, <2>6, <2>7, <2>8, <2>9 DEF Next, StudyLife
<1>3. QED
  BY <1>1, <1>2, PTL DEF Spec

--------------------------------------------------------------------------------
\* A step that adds no data, takes no registration away, forgives no disturbance
\* and brings no actor past a purge stage keeps the invariant.
LEMMA QuietStep ==
    ASSUME TypeOK, TypeOK', OrphanInv,
           partition' \subseteq partition,
           threads' \subseteq threads,
           disturbed \subseteq disturbed',
           \A u \in Users : registered'[u] = NoKey => registered[u] = NoKey,
           \A a \in Actors : pc'[a] \in {"list", "threads", "row"} =>
               pc'[a] = pc[a] /\ who'[a] = who[a] /\ rows'[a] = rows[a]
    PROVE  OrphanInv'
<1>1. \A u \in Users : OwnThreads(u)' \subseteq OwnThreads(u)
  BY DEF OwnThreads
<1>2. NoUnexplainedOrphan'
  BY <1>1 DEF OrphanInv, NoUnexplainedOrphan, HasData
<1>3. PurgeProgress'
  BY <1>1 DEF OrphanInv, PurgeProgress
<1> QED BY <1>2, <1>3 DEF OrphanInv

\* Data written for user u is either attached to a registration with no purge
\* past the stage that would miss it, or makes u a disturbed user.
LEMMA WriteStep ==
    ASSUME TypeOK, TypeOK', OrphanInv, NEW u \in Users,
           UNCHANGED registered,
           \A a \in Actors : pc'[a] \in {"list", "threads", "row"} =>
               pc'[a] = pc[a] /\ who'[a] = who[a] /\ rows'[a] = rows[a],
           \/ /\ partition' = partition \cup {u}
              /\ threads' = threads
              /\ Disturb(u, registered[u] = NoKey \/ PastErase(u))
           \/ /\ partition' = partition
              /\ \A t \in threads' \ threads : t[1] = u
              /\ Disturb(u, registered[u] = NoKey \/ PastListing(u))
    PROVE  OrphanInv'
<1>1. disturbed \subseteq disturbed'
  BY DEF Disturb
<1>2. \A v \in Users : v # u => OwnThreads(v)' \subseteq OwnThreads(v)
  BY DEF OwnThreads
<1>3. \A v \in Users : v # u => (v \in partition' => v \in partition)
  OBVIOUS
<1>4. NoUnexplainedOrphan'
  <2> SUFFICES ASSUME NEW v \in Users, v \notin disturbed', registered'[v] = NoKey
               PROVE  ~HasData(v)'
    BY DEF NoUnexplainedOrphan
  <2>1. v # u
    BY DEF Disturb
  <2> QED BY <1>1, <1>2, <1>3, <2>1 DEF OrphanInv, NoUnexplainedOrphan, HasData
<1>5. PurgeProgress'
  <2> SUFFICES ASSUME NEW a \in Actors, NEW v \in Users \ disturbed', who'[a] = v,
                      pc'[a] \in {"list", "threads", "row"}
               PROVE  /\ v \notin partition'
                      /\ pc'[a] = "threads" => OwnThreads(v)' \subseteq rows'[a]
                      /\ pc'[a] = "row" => OwnThreads(v)' = {}
    BY DEF PurgeProgress, OwnThreads
  <2>1. pc'[a] = pc[a] /\ who[a] = v /\ rows'[a] = rows[a]
    OBVIOUS
  <2>2. /\ v \notin partition
        /\ pc[a] = "threads" => OwnThreads(v) \subseteq rows[a]
        /\ pc[a] = "row" => OwnThreads(v) = {}
    BY <1>1, <2>1 DEF OrphanInv, PurgeProgress
  <2>3. CASE v # u
    BY <1>2, <1>3, <2>1, <2>2, <2>3
  <2>4. CASE v = u
    <3>1. PastErase(u)
      BY <2>1, <2>4 DEF PastErase
    <3>2. /\ partition' = partition
          /\ ~PastListing(u)
      BY <2>4, <3>1 DEF Disturb
    <3>3. pc[a] = "list"
      BY <2>1, <2>4, <3>2 DEF PastListing
    <3> QED BY <2>1, <2>2, <3>2, <3>3
  <2> QED BY <2>3, <2>4
<1> QED BY <1>4, <1>5 DEF OrphanInv

--------------------------------------------------------------------------------
\* Whoever writes, crashes, registers or purges in whatever order: data without a
\* registration is always the trace of a disturbed purge, never of purge_user's
\* own order of deletions (sync.py, purge_user).
THEOREM NoUnexplainedOrphanHolds == Spec => []NoUnexplainedOrphan
<1>1. Init => OrphanInv
  BY DEF Init, OrphanInv, NoUnexplainedOrphan, PurgeProgress, HasData, OwnThreads
<1>2. TypeOK /\ TypeOK' /\ OrphanInv /\ [Next]_vars => OrphanInv'
  <2> SUFFICES ASSUME TypeOK, TypeOK', OrphanInv, [Next]_vars PROVE OrphanInv'
    OBVIOUS
  <2> USE ActorsAssumption DEF Actors, vars, studylife, registry, coroutines
  <2>1. ASSUME NEW u \in Users, GenerateKey(u) \/ WithdrawKey(u) PROVE OrphanInv'
    BY <2>1, QuietStep DEF GenerateKey, WithdrawKey
  <2>2. CASE LoopStep
    <3>1. CASE StartRun \/ EndRun \/ Condemn
      BY <3>1, QuietStep DEF StartRun, EndRun, Condemn, Goto, TypeOK
    <3>2. ASSUME NEW u \in Users, PickUser(u) PROVE OrphanInv'
      BY <3>2, QuietStep DEF PickUser, Arrive, Goto, TypeOK
    <3>3. CASE RecordSyncSuccess \/ RecordSync401 \/ BelowThreshold
      BY <3>3, QuietStep DEF RecordSyncSuccess, RecordSync401, BelowThreshold, Leave, Goto, Rest, TypeOK
    <3> QED BY <2>2, <3>1, <3>2, <3>3 DEF LoopStep
  <2>3. CASE RunAborts
    BY <2>3, QuietStep DEF RunAborts, TypeOK
  <2>4. ASSUME NEW a \in Actors, SyncStep(a) \/ SyncFails(a) PROVE OrphanInv'
    <3>1. CASE ReadKnown(a) \/ FetchAccepted(a)
      BY <3>1, QuietStep DEF ReadKnown, FetchAccepted, Goto, TypeOK
    <3>2. CASE FetchUnauthorized(a) \/ FinishSync(a)
      BY <3>2, QuietStep DEF FetchUnauthorized, FinishSync, Leave, Goto, Rest, TypeOK
    <3>3. CASE SyncFails(a)
      BY <3>3, QuietStep DEF SyncFails, Leave, Goto, Rest, TypeOK
    <3>4. CASE WriteEntity(a)
      <4>1. who[a] \in Users
        BY <3>4 DEF WriteEntity, TypeOK
      <4> QED BY <3>4, <4>1, WriteStep DEF WriteEntity
    <3> QED BY <2>4, <3>1, <3>2, <3>3, <3>4 DEF SyncStep
  <2>5. ASSUME NEW a \in Actors, PurgeStep(a) \/ PurgeFault(a) PROVE OrphanInv'
    <3>1. CASE EraseUser(a)
      <4>1. NoUnexplainedOrphan'
        BY <3>1 DEF EraseUser, OrphanInv, NoUnexplainedOrphan, HasData, OwnThreads
      <4>2. PurgeProgress'
        BY <3>1 DEF EraseUser, Goto, OrphanInv, PurgeProgress, OwnThreads, TypeOK
      <4> QED BY <4>1, <4>2 DEF OrphanInv
    <3>2. CASE ListThreads(a)
      <4>1. NoUnexplainedOrphan'
        BY <3>2 DEF ListThreads, OrphanInv, NoUnexplainedOrphan, HasData, OwnThreads
      <4>2. PurgeProgress'
        BY <3>2 DEF ListThreads, Goto, OrphanInv, PurgeProgress, OwnThreads, TypeOK
      <4> QED BY <4>1, <4>2 DEF OrphanInv
    <3>3. ASSUME NEW t \in Threads, DeleteThread(a, t) PROVE OrphanInv'
      <4>1. NoUnexplainedOrphan'
        BY <3>3 DEF DeleteThread, OrphanInv, NoUnexplainedOrphan, HasData, OwnThreads
      <4>2. PurgeProgress'
        BY <3>3 DEF DeleteThread, OrphanInv, PurgeProgress, OwnThreads, TypeOK
      <4> QED BY <4>1, <4>2 DEF OrphanInv
    <3>4. CASE ThreadsGone(a)
      <4>1. NoUnexplainedOrphan'
        BY <3>4 DEF ThreadsGone, OrphanInv, NoUnexplainedOrphan, HasData, OwnThreads
      <4>2. PurgeProgress'
        BY <3>4 DEF ThreadsGone, Goto, OrphanInv, PurgeProgress, OwnThreads, TypeOK
      <4> QED BY <4>1, <4>2 DEF OrphanInv
    <3>5. CASE DeleteRow(a)
      <4>1. who[a] \in Users
        BY <3>5 DEF DeleteRow, TypeOK
      <4>2. who[a] \notin disturbed => ~HasData(who[a])
        BY <3>5, <4>1 DEF DeleteRow, OrphanInv, PurgeProgress, HasData
      <4>3. NoUnexplainedOrphan'
        BY <3>5, <4>1, <4>2 DEF DeleteRow, OrphanInv, NoUnexplainedOrphan, HasData, OwnThreads, TypeOK
      <4>4. PurgeProgress'
        BY <3>5 DEF DeleteRow, Leave, Goto, Rest, OrphanInv, PurgeProgress, OwnThreads, TypeOK
      <4> QED BY <4>3, <4>4 DEF OrphanInv
    <3>6. CASE EraseFails(a) \/ ThreadsFail(a)
      <4>1. NoUnexplainedOrphan'
        BY <3>6 DEF EraseFails, ThreadsFail, Disturb, OrphanInv, NoUnexplainedOrphan, HasData, OwnThreads
      <4>2. PurgeProgress'
        BY <3>6 DEF EraseFails, ThreadsFail, Disturb, Goto, OrphanInv, PurgeProgress, OwnThreads, TypeOK
      <4> QED BY <4>1, <4>2 DEF OrphanInv
    <3> QED BY <2>5, <3>1, <3>2, <3>3, <3>4, <3>5, <3>6 DEF PurgeStep, PurgeFault
  <2>6. ASSUME NEW h \in Handlers, Request(h) PROVE OrphanInv'
    <3>1. ASSUME NEW u \in Users, NEW k \in Keys, RegisterKey(h, u, k) PROVE OrphanInv'
      <4>1. NoUnexplainedOrphan'
        BY <3>1 DEF RegisterKey, OrphanInv, NoUnexplainedOrphan, HasData, OwnThreads, TypeOK
      <4>2. PurgeProgress'
        BY <3>1 DEF RegisterKey, Arrive, Goto, PastErase, OrphanInv, PurgeProgress, OwnThreads, TypeOK
      <4> QED BY <4>1, <4>2 DEF OrphanInv
    <3>2. ASSUME NEW u \in Users, RevokeKey(h, u) \/ EnrichCapture(h, u) PROVE OrphanInv'
      BY <3>2, QuietStep DEF RevokeKey, EnrichCapture, Arrive, Goto, TypeOK
    <3>3. ASSUME NEW u \in Users, NEW t \in Threads, StartTurn(h, u, t) PROVE OrphanInv'
      BY <3>3, QuietStep DEF StartTurn, Arrive, Goto, TypeOK
    <3>4. CASE IngestNote(h)
      <4>1. who[h] \in Users
        BY <3>4 DEF IngestNote, TypeOK
      <4> QED BY <3>4, <4>1, WriteStep DEF IngestNote, Leave, Goto, Rest, TypeOK
    <3>5. CASE SaveCheckpoint(h)
      <4>1. who[h] \in Users /\ \A t \in rows[h] : t[1] = who[h]
        BY <3>5 DEF SaveCheckpoint, TypeOK
      <4> QED BY <3>5, <4>1, WriteStep DEF SaveCheckpoint
    <3>6. CASE DropThread(h)
      BY <3>6, QuietStep DEF DropThread, Leave, Goto, Rest, TypeOK
    <3>7. CASE IngestNoteFails(h) \/ EndTurn(h) \/ DeleteRowFails(h)
      BY <3>7, QuietStep DEF IngestNoteFails, EndTurn, DeleteRowFails, Leave, Goto, Rest, TypeOK
    <3> QED BY <2>6, <3>1, <3>2, <3>3, <3>4, <3>5, <3>6, <3>7 DEF Request
  <2>7. ASSUME NEW t \in Threads, ExpireThread(t) PROVE OrphanInv'
    BY <2>7, QuietStep DEF ExpireThread
  <2>8. CASE Crash
    BY <2>8, QuietStep DEF Crash
  <2>9. CASE UNCHANGED vars
    BY <2>9, QuietStep
  <2> QED BY <2>1, <2>2, <2>3, <2>4, <2>5, <2>6, <2>7, <2>8, <2>9 DEF Next, StudyLife
<1>3. OrphanInv => NoUnexplainedOrphan
  BY DEF OrphanInv
<1>4. QED
  BY <1>1, <1>2, <1>3, TypeCorrect, PTL DEF Spec

--------------------------------------------------------------------------------
(***************************************************************************)
(* No key is older than the one StudyLife issued last, so a key that was   *)
(* refused once is refused for ever: the next key is another one.          *)
(***************************************************************************)
KeyInv ==
    /\ \A u \in Users : alive[u] => issued[u] > 0
    /\ \A u \in Users : registered[u] <= issued[u]
    /\ \A c \in calls : c[2] <= issued[c[1]]
    /\ \A a \in Actors : who[a] \in Users => key[a] <= issued[who[a]]
    /\ pc[Loop] \in SyncPCs => key[Loop] # NoKey
    /\ pc[Loop] \in {"got401", "judge"} =>
          key[Loop] # NoKey /\ ~KeyAccepted(who[Loop], key[Loop])

\* A step of which StudyLife takes no part, in which no actor takes a key and the
\* loop gets no answer.
LEMMA SameKeys ==
    ASSUME TypeOK, TypeOK', KeyInv, UNCHANGED <<issued, alive>>, calls' \subseteq calls,
           \A u \in Users : registered'[u] \in {registered[u], NoKey},
           \A a \in Actors : \/ who'[a] = who[a] /\ key'[a] = key[a]
                             \/ who'[a] = Nobody
                             \/ a # Loop /\ key'[a] = NoKey,
           pc'[Loop] \in SyncPCs => pc[Loop] \in SyncPCs /\ key'[Loop] = key[Loop],
           pc'[Loop] \in {"got401", "judge"} =>
               pc[Loop] \in {"got401", "judge"} /\ who'[Loop] = who[Loop] /\ key'[Loop] = key[Loop]
    PROVE  KeyInv'
<1>1. Nobody \notin Users /\ Loop \in Actors
  BY ActorsAssumption DEF Actors
<1>2. \A u \in Users : registered'[u] <= issued[u]
  BY DEF KeyInv, TypeOK
<1>3. \A a \in Actors : who'[a] \in Users => key'[a] <= issued[who'[a]]
  BY <1>1 DEF KeyInv, TypeOK
<1>4. \A c \in calls' : c[2] <= issued'[c[1]]
  BY DEF KeyInv
<1> QED BY <1>1, <1>2, <1>3, <1>4 DEF KeyInv, KeyAccepted

LEMMA KeysKept == TypeOK /\ TypeOK' /\ KeyInv /\ [Next]_vars => KeyInv'
<1> SUFFICES ASSUME TypeOK, TypeOK', KeyInv, [Next]_vars PROVE KeyInv'
  OBVIOUS
<1> USE DEF vars, studylife, registry, coroutines
<1>0. Loop \in Actors /\ Handlers \subseteq Actors /\ Loop \notin Handlers
  BY ActorsAssumption DEF Actors
<1>1. ASSUME NEW u \in Users, GenerateKey(u) PROVE KeyInv'
  <2>1. /\ issued' = [issued EXCEPT ![u] = issued[u] + 1] /\ alive' = [alive EXCEPT ![u] = TRUE]
        /\ calls' = calls \cup {<<u, issued[u] + 1>>} /\ UNCHANGED <<registered, pc, who, key>>
    BY <1>1 DEF GenerateKey
  <2>2. \A v \in Users : issued[v] \in Nat /\ issued'[v] \in Nat /\ issued[v] <= issued'[v]
    BY <2>1, BoundsAssumption DEF TypeOK
  <2>3. issued'[u] = issued[u] + 1 /\ \A v \in Users \ {u} : issued'[v] = issued[v] /\ alive'[v] = alive[v]
    BY <2>1 DEF TypeOK
  <2>4. \A c \in calls' : c[2] <= issued'[c[1]]
    <3>1. ASSUME NEW c \in calls PROVE c[2] <= issued'[c[1]]
      <4>1. c[1] \in Users /\ c[2] \in Nat
        BY BoundsAssumption DEF TypeOK
      <4> QED BY <2>2, <4>1 DEF KeyInv
    <3> QED BY <2>1, <2>2, <2>3, <3>1
  <2>5. \A v \in Users : (alive'[v] => issued'[v] > 0) /\ registered'[v] <= issued'[v]
    BY <2>1, <2>2, <2>3, BoundsAssumption DEF KeyInv, TypeOK
  <2>6. \A a \in Actors : who'[a] \in Users => key'[a] <= issued'[who'[a]]
    BY <2>1, <2>2, BoundsAssumption DEF KeyInv, TypeOK
  <2>7. ASSUME pc[Loop] \in {"got401", "judge"} PROVE ~KeyAccepted(who[Loop], key[Loop])'
    <3>1. who[Loop] \in Users /\ key[Loop] \in Nat
      BY <1>0, <2>7, BoundsAssumption DEF TypeOK
    <3> QED BY <1>0, <2>1, <2>2, <2>3, <2>7, <3>1 DEF KeyInv, KeyAccepted
  <2> QED BY <2>1, <2>4, <2>5, <2>6, <2>7 DEF KeyInv
<1>2. ASSUME NEW u \in Users, WithdrawKey(u) PROVE KeyInv'
  <2>1. \A c \in calls' : c[2] <= issued'[c[1]]
    BY <1>2, BoundsAssumption DEF WithdrawKey, KeyInv, TypeOK
  <2>2. \A v \in Users : alive'[v] => alive[v]
    BY <1>2 DEF WithdrawKey, TypeOK
  <2>3. pc[Loop] \in {"got401", "judge"} => ~KeyAccepted(who[Loop], key[Loop])'
    BY <1>0, <1>2, <2>2 DEF WithdrawKey, KeyInv, KeyAccepted, TypeOK
  <2> QED BY <1>2, <2>1, <2>2, <2>3 DEF WithdrawKey, KeyInv
<1>3. CASE LoopStep
  <2>1. CASE StartRun \/ EndRun \/ RecordSync401 \/ Condemn
    BY <1>0, <2>1, SameKeys DEF StartRun, EndRun, RecordSync401, Condemn, Goto, TypeOK
  <2>2. ASSUME NEW u \in Users, PickUser(u) PROVE KeyInv'
    <3>1. CASE registered[u] = NoKey
      BY <1>0, <2>2, <3>1, SameKeys DEF PickUser, TypeOK
    <3>2. CASE registered[u] # NoKey
      <4>1. /\ pc'[Loop] = "known" /\ who' = [who EXCEPT ![Loop] = u]
            /\ key' = [key EXCEPT ![Loop] = registered[u]] /\ UNCHANGED <<issued, alive, calls, registered>>
        BY <1>0, <2>2, <3>2 DEF PickUser, Arrive, Goto, TypeOK
      <4> QED BY <1>0, <3>2, <4>1 DEF KeyInv, TypeOK
    <3> QED BY <3>1, <3>2
  <2>3. CASE RecordSyncSuccess \/ BelowThreshold
    BY <1>0, <2>3, SameKeys DEF RecordSyncSuccess, BelowThreshold, Leave, Goto, Rest, TypeOK
  <2> QED BY <1>3, <2>1, <2>2, <2>3 DEF LoopStep
<1>4. CASE RunAborts
  BY <1>0, <1>4, SameKeys DEF RunAborts, TypeOK
<1>5. ASSUME NEW a \in Actors, SyncStep(a) \/ SyncFails(a) PROVE KeyInv'
  <2>1. CASE ReadKnown(a) \/ FetchAccepted(a) \/ WriteEntity(a)
    BY <1>0, <2>1, SameKeys DEF ReadKnown, FetchAccepted, WriteEntity, Goto, TypeOK
  <2>2. CASE SyncFails(a)
    BY <1>0, <2>2, SameKeys DEF SyncFails, Leave, Goto, Rest, TypeOK
  <2>3. CASE FinishSync(a)
    BY <1>0, <2>3, SameKeys DEF FinishSync, Leave, Goto, Rest, TypeOK
  <2>4. CASE FetchUnauthorized(a)
    <3>1. CASE a = Loop
      <4>1. /\ pc[Loop] = "fetch" /\ pc'[Loop] = "got401" /\ ~KeyAccepted(who[Loop], key[Loop])
            /\ UNCHANGED <<issued, alive, calls, registered, who, key>>
        BY <1>0, <2>4, <3>1 DEF FetchUnauthorized, Goto, TypeOK
      <4> QED BY <1>0, <4>1 DEF KeyInv, KeyAccepted
    <3>2. CASE a # Loop
      BY <1>0, <2>4, <3>2, SameKeys DEF FetchUnauthorized, Leave, Goto, Rest, TypeOK
    <3> QED BY <3>1, <3>2
  <2> QED BY <1>5, <2>1, <2>2, <2>3, <2>4 DEF SyncStep
<1>6. ASSUME NEW a \in Actors, PurgeStep(a) \/ PurgeFault(a) PROVE KeyInv'
  <2>1. CASE EraseUser(a) \/ ListThreads(a) \/ ThreadsGone(a) \/ EraseFails(a) \/ ThreadsFail(a)
    BY <1>0, <2>1, SameKeys DEF EraseUser, ListThreads, ThreadsGone, EraseFails, ThreadsFail, Goto, TypeOK
  <2>2. ASSUME NEW t \in Threads, DeleteThread(a, t) PROVE KeyInv'
    BY <1>0, <2>2, SameKeys DEF DeleteThread, TypeOK
  <2>3. CASE DeleteRow(a)
    BY <1>0, <2>3, SameKeys DEF DeleteRow, Leave, Goto, Rest, TypeOK
  <2> QED BY <1>6, <2>1, <2>2, <2>3 DEF PurgeStep, PurgeFault
<1>7. ASSUME NEW h \in Handlers, Request(h) PROVE KeyInv'
  <2>1. ASSUME NEW u \in Users, NEW k \in Keys, RegisterKey(h, u, k) PROVE KeyInv'
    <3>1. k <= issued[u]
      BY <2>1 DEF RegisterKey, KeyInv
    <3>2. /\ UNCHANGED <<issued, alive>> /\ calls' \subseteq calls /\ pc'[Loop] = pc[Loop]
          /\ registered' = [registered EXCEPT ![u] = k]
          /\ who' = [who EXCEPT ![h] = u] /\ key' = [key EXCEPT ![h] = k]
      BY <1>0, <2>1 DEF RegisterKey, Arrive, Goto, TypeOK
    <3>3. \A v \in Users : registered'[v] <= issued[v]
      BY <3>1, <3>2 DEF KeyInv, TypeOK
    <3>4. \A a \in Actors : who'[a] \in Users => key'[a] <= issued[who'[a]]
      BY <1>0, <3>1, <3>2 DEF KeyInv, TypeOK
    <3>5. who'[Loop] = who[Loop] /\ key'[Loop] = key[Loop]
      BY <1>0, <3>2 DEF TypeOK
    <3> QED BY <3>2, <3>3, <3>4, <3>5 DEF KeyInv, KeyAccepted
  <2>2. ASSUME NEW u \in Users, RevokeKey(h, u) \/ EnrichCapture(h, u) PROVE KeyInv'
    BY <1>0, <2>2, SameKeys DEF RevokeKey, EnrichCapture, Arrive, Goto, TypeOK
  <2>3. ASSUME NEW u \in Users, NEW t \in Threads, StartTurn(h, u, t) PROVE KeyInv'
    <3>1. /\ UNCHANGED <<issued, alive, calls, registered>> /\ pc'[Loop] = pc[Loop]
          /\ who' = [who EXCEPT ![h] = u] /\ key' = [key EXCEPT ![h] = registered[u]]
      BY <1>0, <2>3 DEF StartTurn, Arrive, Goto, TypeOK
    <3>2. \A a \in Actors : who'[a] \in Users => key'[a] <= issued[who'[a]]
      BY <1>0, <3>1 DEF KeyInv, TypeOK
    <3>3. who'[Loop] = who[Loop] /\ key'[Loop] = key[Loop]
      BY <1>0, <3>1 DEF TypeOK
    <3> QED BY <3>1, <3>2, <3>3 DEF KeyInv, KeyAccepted
  <2>4. CASE IngestNote(h) \/ IngestNoteFails(h) \/ EndTurn(h) \/ DropThread(h) \/ DeleteRowFails(h)
    BY <1>0, <2>4, SameKeys
       DEF IngestNote, IngestNoteFails, EndTurn, DropThread, DeleteRowFails, Leave, Goto, Rest, TypeOK
  <2>5. CASE SaveCheckpoint(h)
    BY <1>0, <2>5, SameKeys DEF SaveCheckpoint, TypeOK
  <2> QED BY <1>7, <2>1, <2>2, <2>3, <2>4, <2>5 DEF Request
<1>8. ASSUME NEW t \in Threads, ExpireThread(t) PROVE KeyInv'
  BY <1>0, <1>8, SameKeys DEF ExpireThread, TypeOK
<1>9. CASE Crash
  BY <1>0, <1>9, SameKeys DEF Crash, TypeOK
<1>10. CASE UNCHANGED vars
  BY <1>0, <1>10, SameKeys DEF TypeOK
<1> QED BY <1>1, <1>2, <1>3, <1>4, <1>5, <1>6, <1>7, <1>8, <1>9, <1>10 DEF Next, StudyLife

LEMMA KeyInvHolds == Spec => []KeyInv
<1>1. Init => KeyInv
  BY ActorsAssumption DEF Init, KeyInv, Actors
<1> QED
  BY <1>1, KeysKept, TypeCorrect, PTL DEF Spec

\* A step that condemns a registration leaves StudyLife and the loop's key alone.
LEMMA CondemnsRefused ==
    ASSUME TypeOK, KeyInv, NEW u \in Users, who[Loop] = u, pc[Loop] = "judge"
    PROVE  key[Loop] \in Keys /\ ~KeyAccepted(u, key[Loop])
  BY BoundsAssumption DEF KeyInv, TypeOK, Actors

\* A purge by the loop begins with a key that is refused at that moment, however the
\* account was re-registered or revoked since the 401 (sync.py, _handle_sync_401).
THEOREM CondemnedWasRefusedHolds == Spec => CondemnedWasRefused
<1>1. TypeOK /\ KeyInv /\ [Next]_vars =>
        [\A u \in Users : who[Loop] = u /\ pc[Loop] = "judge" /\ pc'[Loop] = "erase"
            => ~KeyAccepted(u, key[Loop])]_vars
  BY CondemnsRefused
<1> QED
  BY <1>1, KeyInvHolds, TypeCorrect, PTL DEF Spec, CondemnedWasRefused

\* Where StudyLife generates one key per user and no more, a registration with a good
\* key is never condemned: what run account_blip finds takes a second key.
THEOREM OneKeyNeverCondemned ==
    ASSUME MaxKeys = 1
    PROVE  Spec => StillValidNeverCondemned
<1>1. TypeOK /\ KeyInv /\ [Next]_vars =>
        [\A u \in Users : who[Loop] = u /\ pc[Loop] = "judge" /\ pc'[Loop] = "erase"
            => ~KeyAccepted(u, registered[u])]_vars
  <2> SUFFICES ASSUME TypeOK, KeyInv, NEW u \in Users, who[Loop] = u, pc[Loop] = "judge"
               PROVE  ~KeyAccepted(u, registered[u])
    OBVIOUS
  <2>1. key[Loop] = 1 /\ ~KeyAccepted(u, 1)
    BY CondemnsRefused
  <2>2. registered[u] \in {0, 1} /\ (alive[u] => issued[u] > 0)
    BY DEF KeyInv, TypeOK
  <2> QED BY <2>1, <2>2 DEF KeyAccepted, TypeOK
<1> QED
  BY <1>1, KeyInvHolds, TypeCorrect, PTL DEF Spec, StillValidNeverCondemned
================================================================================
