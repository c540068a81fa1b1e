---------------------------- MODULE AccountLifecycle ----------------------------
(***************************************************************************)
(* The life of a registered StudyLife account inside studylife-ai: the     *)
(* registration row (registered_keys.py), the periodic sync loop with its  *)
(* consecutive-401 counter (ingestion/sync.py, ingestion/scheduler.py),    *)
(* the internal endpoints that register and revoke a key or enrich a note  *)
(* (api/internal.py), and the three-store purge they share (purge_user).   *)
(*                                                                         *)
(* Every await of the code is a point where another coroutine may run, so  *)
(* each stretch between two awaits that touch a store is one action.  The  *)
(* single sync loop is the actor Loop; a request in flight occupies one of *)
(* the Handlers.  A user's Qdrant partition is abstracted to "has points"  *)
(* (the entity level is module EntitySync), the agent's checkpoint threads *)
(* are kept as a set of thread ids <<owner, number>>.                      *)
(***************************************************************************)
EXTENDS Naturals

CONSTANTS
    Users,          \* StudyLife user ids
    Handlers,       \* requests that can be in flight at the same time
    Loop,           \* the run_periodic_sync task
    Nobody,         \* an actor that works for no user
    MaxKeys,        \* bound: AiApiKeys StudyLife generates per user
    ThreadNumbers,  \* bound: agent threads alive at once per user
    MaxCrashes,     \* bound: crashes of the service process
    Threshold,      \* ZOMBIE_401_THRESHOLD
    Requests,       \* the request kinds this instance admits
    StoreFaults,    \* may Qdrant / SQLite calls of a purge or a run fail?
    Healthy         \* users for whom no service fails forever (FairSpec only)

Actors == Handlers \cup {Loop}
Threads == Users \X ThreadNumbers
NoKey == 0
Keys == 1 .. MaxKeys
Revocation == 0     \* a /internal/revoke-key call, beside the register calls

ASSUME ActorsAssumption == Loop \notin Handlers /\ Nobody \notin Users
ASSUME BoundsAssumption == MaxKeys \in Nat /\ MaxCrashes \in Nat
ASSUME ThresholdAssumption == Threshold \in Nat \ {0}
ASSUME HealthyAssumption == Healthy \subseteq Users
ASSUME RequestsAssumption == Requests \subseteq {"register", "revoke", "enrich", "agent"}

VARIABLES
    issued, alive, calls,                 \* StudyLife: keys, validity, calls under way
    registered, count401,                 \* the registered_keys table
    partition, threads,                   \* Qdrant, the agent checkpoint database
    pc, who, key, settled, rows, todo,    \* the coroutines
    disturbed,                            \* history: see NoUnexplainedOrphan
    crashes

studylife == <<issued, alive, calls>>
registry == <<registered, count401>>
coroutines == <<pc, who, key, settled, rows, todo>>
vars == <<studylife, registry, partition, threads, coroutines, disturbed, crashes>>

SyncPCs == {"known", "fetch", "write"}
PurgePCs == {"erase", "list", "threads", "row"}
PCs == {"idle", "pick", "got401", "judge", "synced", "enrich", "agent"} \cup SyncPCs \cup PurgePCs

TypeOK ==
    /\ issued \in [Users -> 0 .. MaxKeys]
    /\ alive \in [Users -> BOOLEAN]
    /\ calls \subseteq Users \X (0 .. MaxKeys)
    /\ registered \in [Users -> 0 .. MaxKeys]
    /\ count401 \in [Users -> 0 .. Threshold]
    /\ partition \subseteq Users
    /\ threads \subseteq Threads
    /\ pc \in [Actors -> PCs]
    /\ who \in [Actors -> Users \cup {Nobody}]
    /\ \A a \in Actors : pc[a] \notin {"idle", "pick"} => who[a] \in Users
    /\ key \in [Actors -> 0 .. MaxKeys]
    /\ settled \in [Actors -> BOOLEAN]
    /\ rows \in [Actors -> SUBSET Threads]
    /\ \A a \in Actors : \A t \in rows[a] : t[1] = who[a]
    /\ todo \subseteq Users
    /\ disturbed \subseteq Users
    /\ crashes \in 0 .. MaxCrashes

Init ==
    /\ issued = [u \in Users |-> 0]
    /\ alive = [u \in Users |-> FALSE]
    /\ calls = {}
    /\ registered = [u \in Users |-> NoKey]
    /\ count401 = [u \in Users |-> 0]
    /\ partition = {}
    /\ threads = {}
    /\ pc = [a \in Actors |-> "idle"]
    /\ who = [a \in Actors |-> Nobody]
    /\ key = [a \in Actors |-> NoKey]
    /\ settled = [a \in Actors |-> FALSE]
    /\ rows = [a \in Actors |-> {}]
    /\ todo = {}
    /\ disturbed = {}
    /\ crashes = 0

--------------------------------------------------------------------------------
\* Vocabulary.

\* The code selects them by the prefix "user_id:" of the thread id, with LIKE.
OwnThreads(u) == {t \in threads : t[1] = u}
HasData(u) == u \in partition \/ OwnThreads(u) # {}
KeyAccepted(u, k) == alive[u] /\ k = issued[u]

\* Purge progress of user u: the partition is erased, the threads are listed.
PastErase(u) == \E a \in Actors : who[a] = u /\ pc[a] \in {"list", "threads", "row"}
PastListing(u) == \E a \in Actors : who[a] = u /\ pc[a] \in {"threads", "row"}

Disturb(u, late) == disturbed' = IF late THEN disturbed \cup {u} ELSE disturbed

\* The loop goes on with its next user, a request handler is done.
Rest(a) == IF a = Loop THEN "pick" ELSE "idle"

Goto(a, label) == pc' = [pc EXCEPT ![a] = label]

\* Mutant: the actor goes on while it still holds what it read of the last user.
LeaveStaleRows(a) ==
    /\ Goto(a, Rest(a))
    /\ who' = [who EXCEPT ![a] = Nobody]
    /\ key' = [key EXCEPT ![a] = NoKey]
    /\ settled' = [settled EXCEPT ![a] = FALSE]
    /\ UNCHANGED rows

\* The actor is through with its user.
Leave(a) ==
    /\ Goto(a, Rest(a))
    /\ who' = [who EXCEPT ![a] = Nobody]
    /\ key' = [key EXCEPT ![a] = NoKey]
    /\ settled' = [settled EXCEPT ![a] = FALSE]
    /\ rows' = [rows EXCEPT ![a] = {}]

Arrive(a, label, u, k, held) ==
    /\ Goto(a, label)
    /\ who' = [who EXCEPT ![a] = u]
    /\ key' = [key EXCEPT ![a] = k]
    /\ rows' = [rows EXCEPT ![a] = held]
    /\ UNCHANGED settled

--------------------------------------------------------------------------------
\* StudyLife, the system that calls the internal endpoints.

\* A new AiApiKey replaces the old one and is announced by a register call.
GenerateKey(u) ==
    /\ issued[u] < MaxKeys
    /\ issued' = [issued EXCEPT ![u] = @ + 1]
    /\ alive' = [alive EXCEPT ![u] = TRUE]
    /\ calls' = calls \cup {<<u, issued[u] + 1>>}
    /\ UNCHANGED <<registry, partition, threads, coroutines, disturbed, crashes>>

\* The key is withdrawn; a repeat is StudyLife's retry of the revoke call.
WithdrawKey(u) ==
    /\ "revoke" \in Requests
    /\ issued[u] > 0
    /\ <<u, Revocation>> \notin calls
    /\ alive' = [alive EXCEPT ![u] = FALSE]
    /\ calls' = calls \cup {<<u, Revocation>>}
    /\ UNCHANGED <<issued, registry, partition, threads, coroutines, disturbed, crashes>>

--------------------------------------------------------------------------------
\* The sync loop: sync_all and _handle_sync_401.

\* list_user_ids; with no user sync_all raises and the loop sleeps again.
StartRun ==
    /\ pc[Loop] = "idle"
    /\ todo' = {u \in Users : registered[u] # NoKey}
    /\ todo' # {}
    /\ Goto(Loop, "pick")
    /\ UNCHANGED <<studylife, registry, partition, threads, who, key, settled, rows, disturbed, crashes>>

PickUser(u) ==
    /\ pc[Loop] = "pick"
    /\ u \in todo
    /\ todo' = todo \ {u}
    /\ IF registered[u] = NoKey
       THEN UNCHANGED <<pc, who, key, rows, settled>>      \* revoked mid-run: skipped
       ELSE Arrive(Loop, "known", u, registered[u], {})
    /\ UNCHANGED <<studylife, registry, partition, threads, disturbed, crashes>>

EndRun ==
    /\ pc[Loop] = "pick"
    /\ todo = {}
    /\ Goto(Loop, "idle")
    /\ UNCHANGED <<studylife, registry, partition, threads, who, key, settled, rows, todo, disturbed, crashes>>

\* record_sync_success; the UPDATE finds no row when the user was revoked.
RecordSyncSuccess ==
    /\ pc[Loop] = "synced"
    /\ count401' = [count401 EXCEPT ![who[Loop]] = 0]
    /\ Leave(Loop)
    /\ UNCHANGED <<studylife, registered, partition, threads, todo, disturbed, crashes>>

\* record_sync_401's UPDATE.  The counter is only ever compared with Threshold,
\* so it saturates there.
RecordSync401 ==
    /\ pc[Loop] = "got401"
    /\ LET u == who[Loop] IN
       count401' = [count401 EXCEPT ![u] =
                       IF registered[u] = NoKey \/ @ = Threshold THEN @ ELSE @ + 1]
    /\ Goto(Loop, "judge")
    /\ UNCHANGED <<studylife, registered, partition, threads, who, key, settled, rows, todo, disturbed, crashes>>

\* record_sync_401's SELECT, and the comparison in _handle_sync_401.
BelowThreshold ==
    /\ pc[Loop] = "judge"
    /\ count401[who[Loop]] < Threshold
    /\ Leave(Loop)
    /\ UNCHANGED <<studylife, registry, partition, threads, todo, disturbed, crashes>>

Condemn ==
    /\ pc[Loop] = "judge"
    /\ count401[who[Loop]] >= Threshold
    /\ Goto(Loop, "erase")
    /\ UNCHANGED <<studylife, registry, partition, threads, who, key, settled, rows, todo, disturbed, crashes>>

\* A store call outside the per-user try block raises: the whole run ends.
RunAborts ==
    /\ StoreFaults
    /\ pc[Loop] \in {"pick", "synced", "got401", "judge", "row"}
    /\ pc' = [pc EXCEPT ![Loop] = "idle"]
    /\ who' = [who EXCEPT ![Loop] = Nobody]
    /\ key' = [key EXCEPT ![Loop] = NoKey]
    /\ settled' = [settled EXCEPT ![Loop] = FALSE]
    /\ rows' = [rows EXCEPT ![Loop] = {}]
    /\ todo' = {}
    /\ UNCHANGED <<studylife, registry, partition, threads, disturbed, crashes>>

--------------------------------------------------------------------------------
\* sync_user, run by the loop or in the background of a registration.

\* get_known_fingerprints.
ReadKnown(a) ==
    /\ pc[a] = "known"
    /\ settled' = [settled EXCEPT ![a] = who[a] \in partition]
    /\ Goto(a, "fetch")
    /\ UNCHANGED <<studylife, registry, partition, threads, who, key, rows, todo, disturbed, crashes>>

FetchAccepted(a) ==
    /\ pc[a] = "fetch"
    /\ KeyAccepted(who[a], key[a])
    /\ Goto(a, "write")
    /\ UNCHANGED <<studylife, registry, partition, threads, who, key, settled, rows, todo, disturbed, crashes>>

\* Mutant: sync_all has no clause of its own for a 401.
FetchUnauthorizedLogged(a) ==
    /\ pc[a] = "fetch"
    /\ ~KeyAccepted(who[a], key[a])
    /\ Leave(a)
    /\ UNCHANGED <<studylife, registry, partition, threads, todo, disturbed, crashes>>

\* Only sync_all tells a 401 from any other failure; a background sync logs it.
FetchUnauthorized(a) ==
    /\ pc[a] = "fetch"
    /\ ~KeyAccepted(who[a], key[a])
    /\ IF a = Loop
       THEN Goto(a, "got401") /\ UNCHANGED <<who, key, settled, rows>>
       ELSE Leave(a)
    /\ UNCHANGED <<studylife, registry, partition, threads, todo, disturbed, crashes>>

\* replace_entity puts one entity's points into the user's partition.
WriteEntity(a) ==
    /\ pc[a] = "write"
    /\ partition' = partition \cup {who[a]}
    /\ settled' = [settled EXCEPT ![a] = TRUE]
    /\ Disturb(who[a], registered[who[a]] = NoKey \/ PastErase(who[a]))
    /\ UNCHANGED <<studylife, registry, threads, pc, who, key, rows, todo, crashes>>

\* StudyLife has content for the user, so a sync that found an empty partition
\* has written before it ends.
FinishSync(a) ==
    /\ pc[a] = "write"
    /\ settled[a]
    /\ IF a = Loop
       THEN Goto(a, "synced") /\ UNCHANGED <<who, key, settled, rows>>
       ELSE Leave(a)
    /\ UNCHANGED <<studylife, registry, partition, threads, todo, disturbed, crashes>>

\* Mutant: the first user whose sync fails ends the loop's run.
SyncFailsRun(a) ==
    /\ pc[a] \in SyncPCs
    /\ Leave(a)
    /\ todo' = IF a = Loop THEN {} ELSE todo
    /\ UNCHANGED <<studylife, registry, partition, threads, disturbed, crashes>>

\* Mutant: every failure of a sync is taken for a 401.
SyncFailsCounted(a) ==
    /\ pc[a] \in SyncPCs
    /\ IF a = Loop
       THEN Goto(a, "got401") /\ UNCHANGED <<who, key, settled, rows>>
       ELSE Leave(a)
    /\ UNCHANGED <<studylife, registry, partition, threads, todo, disturbed, crashes>>

\* Any other failure: StudyLife, the embedding endpoint or Qdrant; logged, skipped.
SyncFails(a) ==
    /\ pc[a] \in SyncPCs
    /\ Leave(a)
    /\ UNCHANGED <<studylife, registry, partition, threads, todo, disturbed, crashes>>

--------------------------------------------------------------------------------
\* purge_user, run by a revoke request or by the loop for a zombie registration.

EraseUser(a) ==
    /\ pc[a] = "erase"
    /\ partition' = partition \ {who[a]}
    /\ Goto(a, "list")
    /\ UNCHANGED <<studylife, registry, threads, who, key, settled, rows, todo, disturbed, crashes>>

EraseFails(a) ==
    /\ StoreFaults
    /\ pc[a] = "erase"
    /\ Disturb(who[a], TRUE)
    /\ Goto(a, "list")
    /\ UNCHANGED <<studylife, registry, partition, threads, who, key, settled, rows, todo, crashes>>

\* _delete_checkpoint_threads: the SELECT, then one adelete_thread per row.
ListThreads(a) ==
    /\ pc[a] = "list"
    /\ rows' = [rows EXCEPT ![a] = OwnThreads(who[a])]
    /\ Goto(a, "threads")
    /\ UNCHANGED <<studylife, registry, partition, threads, who, key, settled, todo, disturbed, crashes>>

DeleteThread(a, t) ==
    /\ pc[a] = "threads"
    /\ t \in rows[a]
    /\ threads' = threads \ {t}
    /\ rows' = [rows EXCEPT ![a] = @ \ {t}]
    /\ UNCHANGED <<studylife, registry, partition, pc, who, key, settled, todo, disturbed, crashes>>

ThreadsGone(a) ==
    /\ pc[a] = "threads"
    /\ rows[a] = {}
    /\ Goto(a, "row")
    /\ UNCHANGED <<studylife, registry, partition, threads, who, key, settled, rows, todo, disturbed, crashes>>

ThreadsFail(a) ==
    /\ StoreFaults
    /\ pc[a] \in {"list", "threads"}
    /\ Disturb(who[a], TRUE)
    /\ Goto(a, "row")
    /\ rows' = [rows EXCEPT ![a] = {}]
    /\ UNCHANGED <<studylife, registry, partition, threads, who, key, settled, todo, crashes>>

DeleteRow(a) ==
    /\ pc[a] = "row"
    /\ registered' = [registered EXCEPT ![who[a]] = NoKey]
    /\ count401' = [count401 EXCEPT ![who[a]] = 0]
    /\ Leave(a)
    /\ UNCHANGED <<studylife, partition, threads, todo, disturbed, crashes>>

DeleteRowFails(h) ==
    /\ StoreFaults
    /\ pc[h] = "row"
    /\ Leave(h)
    /\ UNCHANGED <<studylife, registry, partition, threads, todo, disturbed, crashes>>

--------------------------------------------------------------------------------
\* The requests of api/internal.py and api/agent.py.

\* RegisteredKeyStore.set leaves the 401 counter of an existing row as it is.
\* The request's background task is a sync_user with the key just received.
RegisterKey(h, u, k) ==
    /\ "register" \in Requests
    /\ pc[h] = "idle"
    /\ k # Revocation /\ <<u, k>> \in calls
    /\ calls' = calls \ {<<u, k>>}
    /\ registered' = [registered EXCEPT ![u] = k]
    /\ disturbed' = IF PastErase(u) THEN disturbed ELSE disturbed \ {u}
    /\ Arrive(h, "known", u, k, {})
    /\ UNCHANGED <<issued, alive, count401, partition, threads, todo, crashes>>

\* Mutant: the row is deleted before the user's data is.
RevokeKeyRowFirst(h, u) ==
    /\ "revoke" \in Requests
    /\ pc[h] = "idle"
    /\ <<u, Revocation>> \in calls
    /\ calls' = calls \ {<<u, Revocation>>}
    /\ registered' = [registered EXCEPT ![u] = NoKey]
    /\ Arrive(h, "erase", u, NoKey, {})
    /\ UNCHANGED <<issued, alive, count401, partition, threads, todo, disturbed, crashes>>

RevokeKey(h, u) ==
    /\ "revoke" \in Requests
    /\ pc[h] = "idle"
    /\ <<u, Revocation>> \in calls
    /\ calls' = calls \ {<<u, Revocation>>}
    /\ Arrive(h, "erase", u, NoKey, {})
    /\ UNCHANGED <<issued, alive, registry, partition, threads, todo, disturbed, crashes>>

\* enrich_capture_endpoint looks at no registration before it ingests the note.
EnrichCapture(h, u) ==
    /\ "enrich" \in Requests
    /\ pc[h] = "idle"
    /\ issued[u] > 0
    /\ Arrive(h, "enrich", u, NoKey, {})
    /\ UNCHANGED <<studylife, registry, partition, threads, todo, disturbed, crashes>>

IngestNote(h) ==
    /\ pc[h] = "enrich"
    /\ partition' = partition \cup {who[h]}
    /\ Disturb(who[h], registered[who[h]] = NoKey \/ PastErase(who[h]))
    /\ Leave(h)
    /\ UNCHANGED <<studylife, registry, threads, todo, crashes>>

IngestNoteFails(h) ==
    /\ pc[h] = "enrich"
    /\ Leave(h)
    /\ UNCHANGED <<studylife, registry, partition, threads, todo, disturbed, crashes>>

\* A turn runs on a new thread (/agent) or on one of the user's (/agent/confirm);
\* the key is read first, without one the answer is 404.
StartTurn(h, u, t) ==
    /\ "agent" \in Requests
    /\ pc[h] = "idle"
    /\ registered[u] # NoKey
    /\ t[1] = u
    /\ \/ t \in threads
       \/ \A a \in Actors : t \notin rows[a]      \* a uuid nobody holds
    /\ Arrive(h, "agent", u, registered[u], {t})
    /\ UNCHANGED <<studylife, registry, partition, threads, todo, disturbed, crashes>>

\* The graph saves a checkpoint after each of its steps.
SaveCheckpoint(h) ==
    /\ pc[h] = "agent"
    /\ threads' = threads \cup rows[h]
    /\ Disturb(who[h], registered[who[h]] = NoKey \/ PastListing(who[h]))
    /\ UNCHANGED <<studylife, registry, partition, coroutines, crashes>>

\* Success, a pause for confirmation, or a transient failure: the thread stays.
EndTurn(h) ==
    /\ pc[h] = "agent"
    /\ Leave(h)
    /\ UNCHANGED <<studylife, registry, partition, threads, todo, disturbed, crashes>>

\* _invoke_and_handle_failure on a permanent failure.
DropThread(h) ==
    /\ pc[h] = "agent"
    /\ threads' = threads \ rows[h]
    /\ Leave(h)
    /\ UNCHANGED <<studylife, registry, partition, todo, disturbed, crashes>>

--------------------------------------------------------------------------------
\* sweep_stale_checkpoint_threads reaches a thread past its TTL.
ExpireThread(t) ==
    /\ t \in threads
    /\ threads' = threads \ {t}
    /\ UNCHANGED <<studylife, registry, partition, coroutines, disturbed, crashes>>

\* The process ends (crash, deployment, cancelled lifespan) and starts again:
\* every coroutine is gone, the three stores and StudyLife's calls remain.
Crash ==
    /\ crashes < MaxCrashes
    /\ crashes' = crashes + 1
    /\ pc' = [a \in Actors |-> "idle"]
    /\ who' = [a \in Actors |-> Nobody]
    /\ key' = [a \in Actors |-> NoKey]
    /\ settled' = [a \in Actors |-> FALSE]
    /\ rows' = [a \in Actors |-> {}]
    /\ todo' = {}
    /\ UNCHANGED <<studylife, registry, partition, threads, disturbed>>

SyncStep(a) ==
    \/ ReadKnown(a)
    \/ FetchAccepted(a)
    \/ FetchUnauthorized(a)
    \/ WriteEntity(a)
    \/ FinishSync(a)

PurgeStep(a) ==
    \/ EraseUser(a)
    \/ ListThreads(a)
    \/ \E t \in Threads : DeleteThread(a, t)
    \/ ThreadsGone(a)
    \/ DeleteRow(a)

PurgeFault(a) ==
    \/ EraseFails(a)
    \/ ThreadsFail(a)

LoopStep ==
    \/ StartRun
    \/ \E u \in Users : PickUser(u)
    \/ EndRun
    \/ RecordSyncSuccess
    \/ RecordSync401
    \/ BelowThreshold
    \/ Condemn

StudyLife ==
    \E u \in Users : GenerateKey(u) \/ WithdrawKey(u)

Request(h) ==
    \/ \E u \in Users, k \in Keys : RegisterKey(h, u, k)
    \/ \E u \in Users : RevokeKey(h, u) \/ EnrichCapture(h, u)
    \/ \E u \in Users, t \in Threads : StartTurn(h, u, t)
    \/ IngestNote(h)
    \/ IngestNoteFails(h)
    \/ SaveCheckpoint(h)
    \/ EndTurn(h)
    \/ DropThread(h)
    \/ DeleteRowFails(h)

Next ==
    \/ StudyLife
    \/ LoopStep
    \/ RunAborts
    \/ \E a \in Actors : SyncStep(a) \/ SyncFails(a) \/ PurgeStep(a) \/ PurgeFault(a)
    \/ \E h \in Handlers : Request(h)
    \/ \E t \in Threads : ExpireThread(t)
    \/ Crash

Spec == Init /\ [][Next]_vars

\* run_periodic_sync never ends and catches every exception, so the loop takes
\* its next step however its calls turn out.  For a healthy user a call that is
\* tried again and again is answered in the end: that is the environment's part.
LoopServes(u) ==
    /\ SF_vars(who[Loop] = u /\ ReadKnown(Loop))
    /\ SF_vars(who[Loop] = u /\ FetchAccepted(Loop))
    /\ SF_vars(who[Loop] = u /\ FetchUnauthorized(Loop))
    /\ SF_vars(who[Loop] = u /\ WriteEntity(Loop))
    /\ SF_vars(who[Loop] = u /\ FinishSync(Loop))

FairSpec ==
    /\ Spec
    /\ WF_vars(LoopStep \/ SyncStep(Loop) \/ SyncFails(Loop) \/ PurgeStep(Loop))
    /\ \A u \in Healthy : LoopServes(u)

--------------------------------------------------------------------------------
\* Properties.

\* A user without a registration has no points and no agent threads left, unless
\* some coroutine wrote behind the purge's back (after the partition was erased,
\* after the threads were listed, or with no registration at all) or a deletion
\* itself failed.  A crash at any point of any purge is no such excuse: that is
\* what purge_user's order, the row last, is for.
NoUnexplainedOrphan ==
    \A u \in Users \ disturbed : registered[u] = NoKey => ~HasData(u)

\* "One operation = user fully gone" (purge_user): once nobody works for a user
\* who has no registration, nothing of theirs is left.
PurgedMeansGone ==
    \A u \in Users :
        registered[u] = NoKey /\ (\A a \in Actors : who[a] # u) => ~HasData(u)

\* _handle_sync_401 purges for a 401 and for no other failure: the key the run worked
\* with is still refused when the purge starts, whatever StudyLife and the requests
\* have done to the account since the answer.
CondemnedWasRefused ==
    [][\A u \in Users :
        who[Loop] = u /\ pc[Loop] = "judge" /\ pc'[Loop] = "erase"
            => ~KeyAccepted(u, key[Loop])]_vars

\* _handle_sync_401 never starts to purge a registration whose key StudyLife
\* accepts at that moment (the comment on ZOMBIE_401_THRESHOLD).
StillValidNeverCondemned ==
    [][\A u \in Users :
        who[Loop] = u /\ pc[Loop] = "judge" /\ pc'[Loop] = "erase"
            => ~KeyAccepted(u, registered[u])]_vars

\* A registration whose key is dead for good is purged in the end: the loop does
\* not 401 on it forever (ZOMBIE_401_THRESHOLD), whatever else it has to do.
ZombieEventuallyPurged ==
    \A u \in Healthy :
        []<>(registered[u] = NoKey \/ KeyAccepted(u, registered[u]))

\* A user with a good key is indexed in the end and again after every purge, even
\* if the sync of each other account fails on every run (sync_all's docstring).
HealthyEventuallyIndexed ==
    \A u \in Healthy :
        []<>(u \in partition \/ ~KeyAccepted(u, registered[u]))
================================================================================
