# A TLA+ model of studylife-ai

studylife-ai is a small Python service beside the study planner StudyLife. It
keeps a vector index (Qdrant) of each user's notes, courses, sessions and course
goals in step with StudyLife, answers questions over that index (`/chat`), and
runs an agent that proposes writes to StudyLife and carries them out once a
human has confirmed them (`/agent`, `/agent/confirm`). It is one process with
one event loop: what is hard about it comes from coroutines that interleave
between two awaits, from three stores (Qdrant, the registered-key table, the
checkpoint database) that share no transaction, and from a process that may end
at any await and start again. What is not on the event loop are dependencies that
are a plain `def`: FastAPI runs those in a pool of threads, and they interleave
anywhere. The rate limiter is one.

This directory models that. `PROJECT.json` maps every definition to the lines it
stands for; this file says what is modelled, checked and proved, and what is not.
Paths below are relative to `src/src/studylife_ai/` unless they say otherwise.

## 1. Inventory

| component | state it keeps | operations | what makes it correct |
|---|---|---|---|
| registered-key store (`studylife/registered_keys.py`) | one row per user: encrypted AiApiKey, `consecutive_401_count` | `get`, `set`, `delete`, `list_user_ids`, `record_sync_success`, `record_sync_401`, `setup` with its migration | the counter counts only 401s that speak against the key in the row; the migration never damages a row |
| periodic sync (`ingestion/scheduler.py`, `ingestion/sync.py`) | none between ticks | `sync_all`, `sync_user`, `sync_content_type`, `_handle_sync_401`, `purge_user` | index = StudyLife in the long run; one user's failure costs nobody else; a dead registration goes; a purge leaves nothing |
| internal API (`api/internal.py`, `internal_server.py`) | none | `register-key` (and its background sync), `revoke-key`, `enrich-capture` | as above, at any moment relative to the loop |
| vector store (`ingestion/qdrant_store.py`) | points of all users | `replace_entity` (delete, then upsert), `delete_entity`, `delete_user`, `get_known_fingerprints`, `ensure_collection`, searches | an entity is stored once, and no operation touches another user |
| capture enrichment (`rag/enrichment.py`) | none | `enrich_capture`: match a course, find related notes, ingest the note | a match has evidence other than the capture; asked twice, it comes to the same result; its ingestion does not disturb the sync |
| agent (`api/agent.py`, `agent/graph.py`, `agent/tools.py`) | a checkpoint thread per `/agent` call | `run_agent`, `confirm_agent_action`, `_invoke_and_handle_failure`, the graph's steps | a write happens only if, and only as often as, a human approved it |
| checkpoint sweep (`agent/checkpoint_cleanup.py`) | none | `sweep_stale_checkpoint_threads` | only deletes; nothing depends on a thread staying |
| identity (`api/identity.py`) | "have we warned" flag | `resolve_identity` | a token is accepted iff it is signed with a configured key and not expired |
| rate limiter (`api/rate_limit.py`) | window per user | `_check_and_increment` | at most `limit` requests per window, which overlapping checks of one user break; nobody refused early, `Retry-After` kept |
| chat (`api/chat.py`, `rag/prompt.py`) | none | the event stream | deltas, at most one error, one sources event, DONE, in this order |
| retrieval (`rag/retrieval.py`, `rag/rerank.py`, `rag/date_parse.py`) | none | `retrieve_with_rerank` and its helpers | dates named are answered; nothing twice, no place wasted, whatever the reranker says; a range is what its name means |
| chunking (`ingestion/chunking.py`) | none | `chunk_text` | nothing is skipped, only what is cut inside a sentence too long for a chunk is garbled; no chunk exceeds its size by more than the overlap |
| LLM calls (`llm/`) | none | `with_retry`, streaming, completion, embedding | three attempts for transient errors, one for the others, none after the first token |
| TLS (`tls.py`), lifespan (`main.py`) | SSL contexts, watcher baseline | start, watch, reload, stop | a renewed pair is served once it has been polled; a failed reload costs nothing that lasts |
| rendering, configuration, logging, health, evaluation | none | | no state and no control worth a model |

Interactions: StudyLife calls the internal API and is called by the sync loop and
by the agent's tools. The loop, the background syncs, the enrichments and the
purges all write to Qdrant without a lock; the loop and the internal API share the
registered-key table through two connections; agent turns, the sweep and the
purges share the checkpoint database.

Hard behaviours, in the order of what they can cost: a purge against work in
flight; a valid registration taken for a dead one; an agent write carried out
twice or without approval; two writers of one entity; restarts between two steps
of a purge, of a replacement or of an agent turn; one user's trouble becoming
everybody's; a fingerprint that does not cover what it stands for. The full list,
with lines, is `hazards` in `PROJECT.json`.

## 2. Modules

    AccountLifecycle        registration, 401 counter, loop, purge, requests
      AccountLifecycleProofs
    EntitySync              one user's partition, entity by entity
      MCEntitySync
      EntitySyncProofs
    SearchIndex             what a search may find while one sync is at work
    AgentConfirm            one agent thread from proposal to write
      MCAgentConfirm        (the two disagreements of the agent)
      AgentConfirmProofs
    RateLimit               the fixed window in front of chat and agent
      RateLimitProofs
    ChatStream              one chat request from its first call to DONE
      ChatStreamProofs
    ApiService              RateLimit, ChatStream and AgentConfirm in one service
      MCApiService
    KeyStore                encryption at rest, migration, key rotation
    TokenRotation           proxy tokens while their secrets are rotated
    SecretRotation          KeyStore and TokenRotation in one deployment
      SecretRotationProofs
    KeyTable                what KeyStore promises: a plain table
    TlsListeners            certificate watcher and the owner of the files
    Chunking                chunk_text
    Ranking                 the best of what is found, and its order
    Retrieval               quotas, two pools of sessions, rerank, cuts
    DateRanges              named ranges and the weeks the prompt states
    CaptureMatch            course and related notes of a capture
      SearchProofs          of Ranking, Retrieval, DateRanges, CaptureMatch
    Lifespan                one process made of the seven parts above
      MCLifespan
      LifespanProofs        of TlsListeners, Chunking and the process

The first three are layers, not copies of each other. `AccountLifecycle` sees a user's
partition as "has points" and a sync as read, fetch, any number of writes, end:
it is about who may write when. `EntitySync` opens that sync up: fingerprints,
diff, content types, delete and upsert, for one user. `AgentConfirm` opens up the
agent turn, which `AccountLifecycle` knows as "saves checkpoints of a thread".

### AccountLifecycle

Actors are `Loop` (the `run_periodic_sync` task) and `Handlers`, the requests in
flight. `pc[a]` is the await an actor is suspended at; the code between two awaits
is one action. `who`, `key`, `rows` are the actor's locals: user, AiApiKey, and
the checkpoint threads it works on. `settled` says that the user's partition held
points when the sync looked, or that the sync has written since: the user has
content in StudyLife, so a sync that started from nothing does not end before it
has written something.

| code | actions |
|---|---|
| StudyLife generates / withdraws a key and calls the internal API | `GenerateKey`, `WithdrawKey` |
| `sync_all` | `StartRun`, `PickUser`, `EndRun`, `RunAborts` (a store call outside the per-user `try`) |
| `sync_user` | `ReadKnown`, `FetchAccepted`, `FetchUnauthorized`, `WriteEntity`, `FinishSync`, `SyncFails` |
| `_handle_sync_401`, `record_sync_*` | `RecordSyncSuccess`, `RecordSync401`, `BelowThreshold`, `Condemn` |
| `purge_user` | `EraseUser`/`EraseFails`, `ListThreads`, `DeleteThread`, `ThreadsGone`/`ThreadsFail`, `DeleteRow`/`DeleteRowFails` |
| `register_key`, `revoke_key`, `enrich_capture_endpoint` | `RegisterKey`, `RevokeKey`, `EnrichCapture`, `IngestNote`, `IngestNoteFails` |
| agent turns | `StartTurn`, `SaveCheckpoint`, `EndTurn`, `DropThread` |
| sweep, restart | `ExpireThread`, `Crash` |

The UPDATE and the SELECT of `record_sync_401` are two actions, since a purge or a
registration may run between them. The two `await`s of one UPDATE (execute and
commit) are one. The counter saturates at `Threshold`, the only number it is
compared with. `calls` are StudyLife's calls under way, served in any order; a
revoke call may be repeated. The history variable `disturbed` marks the users
behind whose purge somebody wrote, or one of whose purges failed at a store.

### EntitySync

`stored[e]` is the set of batches (one per upsert) Qdrant holds for entity `e`,
each labelled with its writer; a version of an entity is `<<text, course>>`, where
the text is what `fingerprint_*` hashes and the course is a payload field it leaves
out. `sync_content_type` recomputes nothing while it works: it is a loop over a
`changed` list and a `deleted_ids` set made from `known` and the fetched entities.
The model keeps `known` and `fetched` and strikes an entity from the diff by
marking it known, which is the same list, shorter by one. Some texts have no chunks
(`BlankTexts`): for those `replace_entity` only deletes, and the next tick finds the
entity changed again. Others cannot be embedded at all (`PoisonTexts`): `EmbedRaises`
then ends the sync of the user at the same place on every tick, and `Blocked` names
what such an entity stands in the way of, which `IndexCatchesUp` exempts and nothing
else. `get_known_fingerprints` keeps the fingerprint scrolled last;
with several batches that is any of them, and a different one the next time.

`SearchIndex` is the abstract specification of a sync that works alone: StudyLife, a
copy of it taken when the sync looks, and the versions of each entity a search finds.
A sync withdraws what its copy contradicts (`Withdraw`), shows what is not found
(`Show`), and ends anywhere. Nothing of fingerprints, types, order, failures or
restarts is in it. `Index` in `EntitySync` instantiates it with the stored versions, and
`ImplementsSearchIndex` is the refinement: reading the fingerprints, the diff, a
restart before the copy is taken are stutters. With a second writer it does not
hold, which is what `entity_duplicates` shows; so `EntitySync` records in the history
variable `shared` whether one has been at work, and `SearchIndex` promises nothing
from then on (`Share`). That the sync also gets done what
`SearchIndex` lets it do is `SyncedAsRead`: at the end of the last type, the index
shows what was read. Of a version it compares the text; the course may be stale, which
`entity_course` is about.

### AgentConfirm

LangGraph and its SQLite saver are libraries. What the code relies on is modelled:
a run loads the checkpoint when `ainvoke` starts, goes on from memory, and a step is
durable once it is complete. `mode` is what `confirm_agent_action` decided from
`aget_state` (a decision to resume with, or `None`), which is one await older than
what `ainvoke` loads. `executed[b]` counts how often StudyLife received the writes
of proposal batch `b`. The human decides on the batch on the screen, sticks to the
decision, and repeats a confirmation whose answer was lost or a 503. The check of
the thread id's prefix (403), a missing key (404) and a missing base URL (503) come
before any state is touched and are left out; the read tools change nothing and
are part of the model's step. The sweep and a purge may delete the thread at any
time: the sweep's check of the thread's age is some awaits older than its delete.

Three places speak of a retry after the model's follow-up call has failed. The
docstring of `_invoke_and_handle_failure` (`api/agent.py:204-209`) says that it has
the tools run once more. `docs/decisions.md:817` says that it does not, and
`tests/test_agent_api.py:354` checks that it does not. The model follows the code:
the tool step is a checkpoint of its own (`SaveTools`), from which the retry goes on.
`RunsOnceUnlessCutOff` holds, and so the docstring is wrong about this case. It is
right about a failure between the write and the end of the tool step, which is what
`interrupted` counts.

### RateLimit, ChatStream, ApiService

The docstring of `_check_and_increment` says that no lock is needed because it has no
await and runs "within a single event-loop iteration". But `enforce_rate_limit` is a
plain `def`, and FastAPI runs such a dependency in a thread. So in `RateLimit` a check
is three steps of a thread `k`, with those of other threads between them: `ReadClock`,
`ReadWindow`, then `Admit` or `Refuse`. What follows from what was read (`Current`) is
local to the thread (`clock`, `window`). `Admit` writes back the count it read with one
more in it, whatever another thread has written since.
The clock counts ticks, several to a second, so that the rounding of `Retry-After`
is visible. `log` (what was admitted, each with the window it was counted in),
`promises` (when a refused user was told to come back) and `overlapped` (users two
of whose checks were under way at once) are histories. A thread reads the clock
before the window, as in the code, so that its clock may be older than the window.

`ChatStream` is `_sse_event_stream` with everything it awaits. `step[r]` is the stage
a request is at, `pending[r]` the legs of the search still out; a leg answers in any
order, except that the session window is fetched after dates and topic search. Of
the chunks only `pool[r]` is kept, which tells none, one and several apart: that is
what decides whether there is a rerank call. What the topic search found is counted
when the window is in, since the two are merged then. `attempt[r]` is `with_retry`'s
counter; a stage that sleeps between two attempts is a stage with a call open, so the
length of the backoff is not modelled. `calls` counts provider calls.

`ApiService` puts the three of them into one service. They share no variable: the
limiter decides whether a request comes in at all and looks at nothing the request does
then, and streams and agent threads have nothing in common. So `ApiService` takes
them one at a time (`LimiterStep`, `StreamStep`, `ThreadStep`), as `Lifespan` does, and
claims nothing about how they would interact. In the limiter's part every request is
admitted or refused; what it does afterwards, a stream, a turn or a 400, makes no
difference to the windows.

### KeyStore, TokenRotation, SecretRotation

`KeyStore` is `RegisteredKeyStore` below the level of `AccountLifecycle`: a row is an
AiApiKey and the Fernet keys it is encrypted with, outermost first, so that a value
encrypted twice can be told from one encrypted once. There are two connections, the
lifespan's (`main`) and the one every sync tick opens (`tick`), and each runs `setup`
with its migration: `OpenStore` reads the rows, `SkipRow` and `MigrateRow` treat them
one by one, `FinishSetup` commits. `Decryptable` is what the code can tell of a row,
whether one of its keys opens it. SQLite has one writer: an UPDATE waits for the other
connection's commit (`Unlocked`); the wait's timeout is one of the store failures of
`AccountLifecycle`. `Stop` is an end of the process at any point, with the rollback.
Of the list of keys, the first encrypts and the order of the others decides nothing,
so it is `encrypting` and the set `listed`. The operator follows the order the
module's docstring gives: put the new key first, drop the others when every row was
written again. The history `rewritten` is what "every row" means.

`TokenRotation` has StudyLife's signer on one side and the verifier's settings on the
other. A key id stands for its secret and `Legacy` for the shared secret. A token's
age stands for its expiry: `left` is the whole seconds it has left, 0 in its last
good second. The operator lists an entry here before StudyLife signs with it, and
drops it once StudyLife's last change of signer is longer ago than a token lives.

`SecretRotation` composes them: settings are read once per process (`get_settings`),
so a change takes effect with a restart (`Deploy` needs `Down`), while StudyLife, its
tokens and the clock go on (`World`).

`KeyTable` is the abstract specification: a table which a registration, a revocation
or a purge of one user changes at that user's place, and nothing else changes at all.
`KeyStore!Table` instantiates it with what `get()` makes of the rows (`Answer`), and
`ImplementsKeyTable` is the refinement: migrations, commits, rollbacks, restarts and
rotations are stutters of it. The rows are what this connection would read; an UPDATE
not yet committed is not among them.

### TlsListeners

`tls.py` against whoever writes the two files. A version stands for a matching pair.
The owner either swaps both at once (a Kubernetes volume) or rewrites them one by one,
in any order, each possibly missing for a while. A load and a poll look at the
certificate first and at the key second, and the owner may act between the two:
`OpenCert` and `StatCert` are the first halves, `LoadKey`, `ReloadFails`, `Baseline`
and the `Poll` actions the second ones. `AfterLoad` is what OpenSSL leaves in a
context: the new certificate drops a key it does not match, so that a load failing at
the key leaves neither the old pair nor the new one (`Broken`). `turn` is the listener
the loop over the servers is at: a failure leaves the ones after it as they were.
The first `_fingerprint` of `watch_certificates` is outside its `try`; `BaselineFails`
is the end of the watcher's task, of which nobody is told. Renewals are weeks apart and
polls are minutes, so the next one comes after the last one has been polled.
`polled`, `unread` and `missed` are histories.

### Chunking, Retrieval, DateRanges, CaptureMatch

What the process computes, each as the steps its code takes.

In `Chunking` a text is its length in tokens and the positions its sentences end at;
one iteration of the loop of `chunk_text` is `AddPiece` or `FlushChunk`, the pieces of
a long sentence are cut as `_hard_split_by_tokens` does, and `Carried` is where
`_carry_overlap` begins. The chunk size and the overlap are unrelated constants, as in
the settings. A character may take several tokens: `inside` has the positions between
two tokens of one. A hard split cuts there as anywhere, and as it decodes each piece on
its own, tiktoken puts U+FFFD in place of the broken character in both pieces.
`Garbled` says which tokens that costs. Taken for granted is that counts add up: the
code counts each piece on its own, and the tokenizer may merge tokens across a join by
one or so, or make another number of tokens of a U+FFFD than of what it stands for.

`Ranking` is what sorting and cutting come to: a key gives each point a number, all
different, `Best` is the `n` with the greatest, `InOrder` lists all of them. A set and a
key say the same as the sorted list and can be reasoned about without induction over
sequences.

In `Retrieval` a hit is a point, `worth` its score and `dated` its date mark. `Search` is the merge:
a quota of each type, sessions by date and by topic (`Merged` leaves out of the second
pool what the first has), ranked by `worth`: hits by date have
the score 0 and are ranked among each other by day, so their numbers lie in the room
that `Worth` leaves between the similarities above and below 0. What ties there are the
sort decides by position, that is in any way; the keys of the model are all different,
and the order of days is any that is sorted (`Sooner`). Each of the
searches may fail on its own. `Order` is `_parse_order` on any reply, `Cut` the split of
exact matches before the reranker and the two caps after it. `SearchNotes` is the
agent's variant, whose search may fail like the others. One type with a plain quota stands for three.

`DateRanges` has the day twice: `asked` is read when the search starts, `clock` when
`_sse_event_stream` writes the date message, and `Midnight` may come between. Days are
numbers, the calendar two years of which the second is a leap year. The model's reply is
any of the kinds `_parse_response` knows, month numbers out of range included.

`CaptureMatch` is one enrichment and its repetition. Course matching goes from the
courses to the notes and to the sessions, the related notes are looked for beside it, a
failing search ends its leg. What a search finds is a set ranked by the similarities
(`weight`), the first of a list the one that is `Before` all others. The capture is then stored under what was found, or not, or
is lost between delete and upsert. When StudyLife asks again, the sync may have stored
the capture under the course its user chose, and other courses may be active.

### Lifespan

`_lifespan`: the store of keys is opened before anything else, the listeners start last,
a listener that cannot be built or bound ends the process, and the end of the process
drops all locals and contexts and keeps the table, the files, and StudyLife's side. The
parts share only the process. So the run bounds them to one at a time (`SecretsRest`,
`ListenersRest`, `ChunksRest`, `QuestionRests`, `CaptureRests`): interleavings of parts
that share no variable show nothing, and the product of their states would be
astronomic. The guards that remain (`Serving`, and `EndServing`, which ends all parts
together) are the code's.

## 3. What is checked

| run | instance | result |
|---|---|---|
| `account_safety` | 1 user, 2 requests of every kind, 2 keys, 1 thread, 1 restart, failing stores, threshold 2 | `TypeOK`, `NoUnexplainedOrphan`, `CondemnedWasRefused` hold (2.7 million states) |
| `account_liveness` | 2 users, 1 request, 2 keys, no restart | `ZombieEventuallyPurged`, `HealthyEventuallyIndexed` hold (92 thousand states) |
| `account_blip` | 1 user, registrations only | `StillValidNeverCondemned` is violated |
| `account_revoke` | 1 user, one registration and one revocation | `PurgedMeansGone` is violated |
| `entity_catchup` | 2 entities of 2 types, 4 texts (one blank, one that cannot be embedded), loop, background sync, enrichment, 2 edits, 2 faults | `TypeOK`, `OneBatchPerWriter`, `SyncedAsRead`, `IndexCatchesUp`, `ImplementsSearchIndex` hold (291 thousand states) |
| `entity_duplicates` | 1 note, loop and enrichment | `NoDuplicates` is violated |
| `entity_course` | 1 note, 2 courses, loop only | `PayloadCatchesUp` is violated |
| `agent_unseen` | 1 request at a time, 2 batches, no faults | `OnlyApprovedRuns` is violated |
| `agent_overlap` | 2 requests at a time, 1 batch, no faults | `ConfirmedOnce` is violated |
| `api_service` | 2 users, 2 threads, limit 1, a window of 1 second or 2 ticks, 3 ticks, 3 admissions of a user; 1 stream, 3 attempts, 1 content type, 1 delta; 1 agent request at a time, 3 batches, 2 faults | `RoutesTypeOK`, `TypeOK`, `BurstBound`, `RetryAfterKept`, `RefusedOnlyAtLimit`, `EventOrder`, `CallBudget`, `RejectedNeverRuns`, `RunsOnceUnlessCutOff`, `NoCallAfterDelta`, `EveryStreamEnds` hold (1.2 million states) |
| `limiter_overlap` | 1 user, 2 threads, limit 2 | `LimitPerWindow` is violated |
| `lifespan` | 2 users, 2 AiApiKeys, 2 Fernet keys, 2 key ids, 1 token in flight, a lifetime of 2 seconds; 2 listeners, 2 renewals; texts of up to 10 tokens, 2 positions inside characters, chunks of 4, an overlap of 2; 2 notes and 2 sessions; questions on 36 days; a capture beside 3 notes, a session and 2 courses | `TypeOK`, `PartsTypeOK`, `KeysReadable`, `TicksMigrateNothing`, `ImplementsKeyTable`, `GoodForItsLifetime`, `RenewedIsServed`, `OutageOnlyMidRewrite`, `NothingLost`, `WithinBudget`, `DatesAnswered`, `RerankOnlyReorders`, `RangeMeansItsName`, `WeeksAgree`, `MatchHasEvidence`, `RetryAgrees` hold (1.2 million states) |

Why these bounds are enough. The interesting cases need two purges of one user (a
revocation and a zombie purge) with a third party between them: the loop and two
requests are those. Two keys are a key and its successor. A threshold of 2 is the
least that tells "in a row" from "ever"; 20 adds states and no case. Users do not
interact in the safety run, except through the order of the loop, which is what the
liveness run has a second user for. In `EntitySync` two entities of two types give
the loop a position at which it may be cut off, three writers of three kinds give
every pair that overlaps, and two edits give an entity that is indexed and then changes
or goes away while the sync is at work, with a restart on either side of an upsert.
In `AgentConfirm` three batches are the one confirmed, the one behind a lost answer
and one more; two faults are one to cause a retry and one to disturb it.

In `api_service` two threads are what it takes for a check to be overtaken, and two
users tell a check of the same user from another one's. Three ticks are a window, its
boundary and a tick beyond; with a limit of 1 and three admissions a burst is one on
either side of a boundary and the request that must wait, which is also where a
rounded `Retry-After` would be too short. The theorems hold for every limit, clock and
number of threads; `limiter_overlap` has the limit 2. Streams do not interact, so one
is enough for the run, and the theorems hold for any number.

In `lifespan` two rows are what a migration can be cut off between, two keys of each
kind an old and a new one, with the way back. Tokens do not interact, so one is enough.
Rotations and restarts are unbounded. Two listeners are one at which a reload can stop
and one it leaves behind; two renewals are one while the process starts and one while
the watcher runs. Ten tokens are two full chunks and a rest, with sentences of every
length: shorter than the overlap, as long, longer than a chunk. Two positions inside
characters are a character of three tokens or two of two. Two sessions, one of
two chunks, are one found by date and one by topic, in either order, or one found by
both; the caps of 2 overflow and do not. The questions are asked on the first and the
last day of each month of a leap year and on every day of two weeks around its 29th of
February. The capture has two passages and the pool two places, so that it can fill it.

### Disagreements

Seven runs show the code doing something its documentation rules out.

- `account_blip`: `RegisteredKeyStore.set` leaves the 401 counter of an existing row
  alone. The loop collects 401s with the old key, StudyLife registers the new one,
  and the next 401, for example of the run that already carries the old key, purges
  a registration that StudyLife accepts at that moment.
- `account_revoke`: a sync past its fetch writes into the partition that a revocation
  has just erased; the row is then deleted, so nothing comes back for the points.
  An enrichment, which looks at no registration, does the same.
- `entity_duplicates`: the enrichment and the loop replace the same note as delete,
  delete, upsert, upsert.
- `entity_course`: the fingerprint of a note does not cover its course.
- `agent_unseen`: the answer to an approved confirmation would have shown a second
  proposal and is lost; the repeated confirmation approves the second proposal.
- `agent_overlap`: the second of two confirmations takes the first, still running its
  tools, for one that failed, continues the run from its checkpoint, and the tools
  run twice.
- `limiter_overlap`: two requests of one user are checked in two threads, both read the
  window before either has counted, and both are admitted by the same count.

An eighth needs no run of its own, since the model, a test and `docs/decisions.md` agree
against it: the docstring of `_invoke_and_handle_failure` on retries, see AgentConfirm above.

### Fairness

`AccountLifecycle!FairSpec` has weak fairness of the loop as a whole:
`run_periodic_sync` never ends and catches every exception. Requests get none: a
handler may hang for ever. For the users in `Healthy` the loop's sync steps are
strongly fair: their service calls, tried on every tick, are answered now and then.
The other users' calls may fail on every tick. Without that assumption no liveness is possible; with it, the properties
say that the counter, the re-registrations, the purge and the other users do not get
in the way. `EntitySync!FairSpec` has weak fairness of the loop and bounds the number
of failing calls and restarts; other writers may stop at any await for ever.
`ApiService!ServiceSpec` has weak fairness of each stream's `Advance`: every provider call
and every search ends, if only by the timeout its client sets. No request has to come,
no client has to stay or to go, the clock need not move, and no thread need be run.
`SecretRotation` is about safety only and has no fairness.

### Promises with an exception

Some promises hold but for a case which their property names, and which a maintainer
should know of.

- `RenewedIsServed` exempts what became complete between the first load and the
  watcher's baseline (`missed`): `watch_certificates` takes the fingerprint of files
  nobody has loaded for that of the ones served, and serves the old pair until the next
  renewal. And if a file is away at that moment, the watcher is gone for good.
- `OutageOnlyMidRewrite`: `reload_certificates` says that it "keeps serving the old pair"
  when it fails. With files swapped in at once and a readable key that is so. With files
  written one by one, or a key that cannot be read, OpenSSL has dropped the old key by
  then, and the listener has a certificate without a key until the next good poll.
- `WeeksAgree`: the comment in `_sse_event_stream` says the weeks it states "can never
  disagree with what was actually retrieved". They can if the midnight that ends a Sunday
  falls into the search.
- `RetryAgrees`: `_match_course_via_related_content` leaves out the capture itself, but
  after the pool was cut. A capture of five passages or more that is enriched again can
  fill the pool and is then given no course by way of notes. The related notes get
  fewer in the same way.
- `BurstBound` exempts users two of whose checks have overlapped, for whom
  `limiter_overlap` shows that no bound holds. `RetryAfterKept` and `RefusedOnlyAtLimit`
  hold for them too; a promise is one that a refusal made by the window as it stood, and
  that no admission has outdated.
- `NothingLost` exempts the characters of a sentence that is too long for a chunk: a hard
  split garbles those it cuts in two. `chunk_text` promises nothing of them.
- `IndexCatchesUp`: an entity that can never be embedded holds up its own content type and
  those after it, on every tick, deletions included (`Blocked`).

## 4. What is proved

TLAPS checks the `*Proofs` modules from nothing, for every value of the
constants that satisfies the modules' assumptions (`ActorsAssumption`: the loop is no
handler, `BoundsAssumption`: bounds are natural numbers, and so on; none of them says
anything about the size of an instance).

- `TypeCorrect`, `EntityTypeCorrect`, `ThreadTypeCorrect`: `Spec => []TypeOK` of each
  module.
- `NoUnexplainedOrphanHolds`. The property alone is not inductive: a purge that has
  erased the partition and is listing threads satisfies it and may break it with its
  next step. `PurgeProgress` adds what each actor's program counter promises about
  the stores: past `erase` the partition is empty, in `threads` every thread of the
  user is in the actor's list, at `row` there is none, all of it for users nobody has
  disturbed. One step per action.
- `CondemnedWasRefusedHolds`, from `KeyInv`: no key that is registered, under way or in
  the hands of an actor is newer than the one StudyLife issued last, and between the
  401 and the verdict the loop holds a key that is refused. It stays refused, since the
  next key is another one; that is the argument for judging by an answer some awaits
  old. `OneKeyNeverCondemned` follows: with one key per user a good registration is never
  condemned. So `account_blip` is about a second key and nothing else.
- `OneBatchPerWriterHolds`. `UpsertAddsFirst` adds that a writer about to upsert has no
  batch in the entity: its own delete took it, and only it could put one back.
- `SoleWriterNoDuplicates`: as long as no one but the loop has been at work (`~shared`),
  `NoDuplicates` holds. So the violation above takes a second writer.
- `IndexImplemented`: `Spec => ImplementsSearchIndex`, for any number of writers. A step
  that leaves `shared` FALSE is one of the loop's own, an edit or a crash (`OnlyTheLoop`),
  and nobody else begins in it (`StaysAlone`). `AloneInv` says of these that what the sync knows of an entity is the fingerprint of what is
  stored, that what it replaces is what it fetched and differs from that, and that at an
  upsert nothing is stored. One step per action, each to a step of `SearchIndex` or none.
- `SyncedAsReadHolds`. `DoneInv` adds the converse: what is not
  stored is unknown or has a blank text, and what belongs to a type before the one at
  hand is known as it was fetched.
- `RejectedNeverRunsHolds`, `RunsOnceUnlessCutOffHolds`, for a single request at a
  time. `ThreadInv` says that the run's memory is the checkpoint unless the thread was
  deleted (`InStep`), that what is asked was proposed last and is untouched
  (`AskedLast`), that a tool step still to be taken has written nothing but what was
  cut off (`NotYetWritten`), that the decision a run carries is the one made on the
  screen (`CarriesDecision`), and that what is on its way to StudyLife is not open to
  a rejection (`CommittedIsNotRejected`). `AwaitedConfirmsOnce`: without a fault a batch
  is then written once, so `agent_overlap` takes a second request.
- `BurstBoundHolds`, `RetryAfterKeptHolds`, `RefusedOnlyAtLimitHolds`, for any number of
  users and threads, with checks interleaving at every step. `LimiterInv` says of every
  thread that the window it answers by is not over by its clock, and that as many
  requests were admitted in it as it has counted, or more (`AnswerSound`); the
  same of the windows kept (`CountsAdmitted`); and that nobody was promised less than the
  end of the window that refused them (`PromisesLate`). Lost counts only ever make the
  count too small, so these need no exemption. `InTurn` is for users whose checks come
  one by one (`OneAtATime`): each admitted request lies in the window it was counted in
  (`EntriesInWindow`), the counter is the number of admissions in the present window
  (`CountIsRecent`), and of `Limit + 1` requests in a row the first and the last are in
  windows at least a window's length apart (`LimitApart`). The burst bound follows: of
  `2 * Limit + 1` requests the first and the last are counted in windows that start at
  least two lengths apart, and the first comes before the end of its own.
- `CallBudgetHolds`, `EventOrderHolds`, `NoCallAfterDeltaHolds`, for any number of
  streams, attempts and deltas.
  `CallsSoFar` bounds the calls by the stage a request has reached and its attempt,
  `SentSoFar` says which events it can have sent there.
- `KeysReadableHolds`, `TicksMigrateNothingHolds`. `StoreInv` says that a row holds what
  was registered last, plain or under exactly one listed key, and under the first one if
  it was written since that was put first (`RowKept`, which is what makes the drop of the
  others safe), that during the first migration nothing but the migration changes
  the table (`FirstMigration`), and that afterwards no row is plain and a tick reads
  nothing it would have to migrate (`LaterMigration`).
- `GoodForItsLifetimeHolds`. `TokenInv`: an unexpired token of another signer than the
  present one expires before the change of signer counts as waited out.
- `KeyTableImplemented`: `Spec => ImplementsKeyTable` of the key store with its tokens.
  Step by step: with `StoreInv` and `RowKept` every step of a migration leaves `Answer`
  alone for all users, and `set` and `delete` change it for one.
- `NothingLostHolds`, `WithinBudgetHolds`, for any chunk size, any
  overlap, even one larger than the chunk, and any text. `ChunkInv` says that each
  finished chunk is sound beside the one before it (`AllSound`), that the chunk being
  filled begins at a cut no later than the last one ended and would be sound as well
  (`Filling`), and that a finished text is covered (`Covered`). `CutsLawful` says that
  every cut is the end of a sentence or lies within a sentence too long for a chunk, and
  as no character reaches beyond its sentence, that is where the garbled ones are.
- `RenewedIsServedHolds`, `OutageOnlyMidRewriteHolds`, for any number of listeners and
  renewals. `TlsInv` says what each place of the lifespan and the watcher knows:
  `Reads` of the file read first, `Starts` of the listeners loaded before the baseline,
  `Polls` of the listeners passed by a reload and of the fingerprint kept, `Breaks` of the
  ones without a key.
- `DatesAnsweredHolds`, `RerankOnlyReordersHolds` (`SearchProofs`), for any number of
  points, any quotas and caps and any reply of the model. `RetrievalInv` says what the
  hits and their `worth` are (`Searched`). The work is in lemmas about `Ranking` and
  `Order`: `BestCounts` (the best `n` are `n`, or all), `InOrderLists` (the list has each
  point once, in the order of the keys), `BetterIsBest`, and `OrderIsOne` (whatever the
  reply, `_parse_order` yields each number below `n` once).
- `RangeMeansItsNameHolds`, for questions on any day of a leap year that follows a common
  one; the run asks on 36 of them. `DayHasMonth`: each day lies in one month, so that the
  month the code computes is the one its name means.
- `WeeksAgreeHolds`: two days whose midnight is not a Sunday's are in one week, and the
  weeks of both are the same (`SameWeek`), for any days.
- `MatchHasEvidenceHolds`, `RetryAgreesHolds`, for any passages, pools, courses and
  similarities. `CaptureInv` says that a run whose searches have all answered has found
  what `Judged` says of the index, and that the first one found what it says of the
  index without the capture (`FirstFound`). The step between the two is `HeritageKept`,
  `SessionsKept` and `RelatedKept`: unless the pool was full of the capture itself, the
  nearest of the others are the same with the capture among them.
- `ProcessImplementsParts`: every step of `LifespanSpec` is a step of the specification of
  each of its six parts (secrets, listeners, chunking, retrieval, dates, capture), or
  leaves it alone. So what is proved of each of them holds of the process
  (`ProcessKeepsPromises`: every safety property of the run; `PartsTypeCorrect`: the types).
- `LimiterTypeCorrect`, `StreamTypeCorrect`, `RotationTypeCorrect`, `ChunkTypeCorrect`, `RetrievalTypeCorrect`,
  `DateTypeCorrect`, `CaptureTypeCorrect`: types of the compositions and the parts.

The provers have no induction rule that takes a predicate. Where a list's first element
is needed, or that a rank is taken by someone, `PlaceTaken` and `FirstExists` give it: a
finite set ranked by a key with different numbers has, for each number below its size, a
member with that many others ahead. They follow from the library's facts about
bijections and cardinalities, since the ranks are as many as the members and all
different. That is why `Ranking` is written with sets and keys.

Every safety property a passing run checks is stated by a theorem. Only model-checked are
the liveness properties `ZombieEventuallyPurged`, `HealthyEventuallyIndexed`,
`IndexCatchesUp` and `EveryStreamEnds`: fairness and ENABLED are out of the prover's reach.
`SoleWriterNoDuplicates`, `IndexImplemented` and `SyncedAsReadHolds` promise something as
long as the loop has been the only writer, the theorems about rejected and repeated
writes assume one request at a time: without these the properties are false, and the
runs that show it are named above.

## 5. Not modelled, and the plan

Left, in this order:

1. The rollout of key ids in the other order: the docstring of `api/identity.py` and
   the comment in `config.py:72` let the two sides deploy "in either order"; read of
   the settings too, StudyLife may sign with key ids before this side lists any, and
   `resolve_identity` answers 401 to such a token. `TokenRotation` follows the order
   that works. Likewise a Fernet key dropped while a row is still under it: the
   migration takes the row for plaintext and wraps it, so that listing the key again
   does not help.
2. The creation of the collection by two syncs at once (`ensure_collection`). One of
   them fails, which `EntitySync` has as one of its faults.
3. An abstract account that `AccountLifecycle` implements. With other writers in flight
   the purge does not leave nothing (`account_revoke`), so there is no simple one; the
   promise that does hold is `NoUnexplainedOrphan`.
4. The cap of 1000 chunks on the scroll of the session window (`safety_cap` in
   `qdrant_store.py:201`): beyond it the chunks are cut in storage order, before
   `Retrieval!Search` sorts them by day. And the way the threads of a user are selected in
   a purge, by a prefix of the thread id (`LIKE`, `sync.py:267-270`), which
   `AccountLifecycle!OwnThreads` has as their owner.
5. The listener of the internal port, which unlike the HTTPS ones may fail to bind and
   leave the process running without it (`internal_server.py`).

Not planned: rendering, the rest of the configuration, logging and metrics, health, and the offline
evaluation, which keep no state the program reads back; LLM contents; the Fernet,
HMAC and TLS primitives themselves; LangGraph's internals beyond what is said above.
