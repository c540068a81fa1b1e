-------------------------------- MODULE EntitySync --------------------------------
(***************************************************************************)
(* One user's Qdrant partition at the level of entities: sync_user and     *)
(* sync_content_type (ingestion/sync.py) diff StudyLife's notes, courses,  *)
(* sessions and course goals against the fingerprints stored in Qdrant and *)
(* replace what changed; _ingest_note (rag/enrichment.py) replaces one     *)
(* note at once.  QdrantStore.replace_entity is two calls, a delete and an *)
(* upsert, so writers that overlap interleave between them.                *)
(*                                                                         *)
(* The chunks of one upsert share fingerprint and payload and are one      *)
(* batch here, labelled with the writer that put it there (point ids are   *)
(* random, so batches never overwrite each other).  A version of an entity *)
(* is <<text, course>>: what the fingerprint hashes, and the payload field *)
(* it leaves out.                                                          *)
(***************************************************************************)
EXTENDS Naturals

CONSTANTS
    Entities,    \* (content type, id) pairs of the user
    TypeOf,      \* content type of each entity, numbered in sync_user's order
    NTypes,      \* number of content types
    Texts,       \* what fingerprint_* hashes
    BlankTexts,  \* texts chunk_text makes no chunk of
    PoisonTexts, \* texts the embedding model never takes
    Courses,     \* note.course_id, which fingerprint_note does not hash
    Loop,        \* the periodic sync
    Background,  \* syncs started by /internal/register-key
    Enrichers,   \* /internal/enrich-capture requests
    Absent,      \* the entity does not exist in StudyLife
    NoText,      \* no fingerprint known
    MaxEdits,    \* bound: changes made in StudyLife
    MaxCaptures, \* bound: captures enriched
    MaxFaults    \* bound: failing calls and crashes of the service

Syncers == {Loop} \cup Background
Writers == Syncers \cup Enrichers
Versions == Texts \X Courses
Contents == [Entities -> Versions \cup {Absent}]
Batches == [by : Writers, ver : Versions]
Fingerprint(v) == v[1]
HasChunks(v) == Fingerprint(v) \notin BlankTexts
Embeddable(v) == Fingerprint(v) \notin PoisonTexts

ASSUME NonEmptyAssumption == Entities # {} /\ Versions # {}
ASSUME TypesAssumption == NTypes \in Nat \ {0} /\ TypeOf \in [Entities -> 1 .. NTypes]
ASSUME TextsAssumption == Absent \notin Versions /\ NoText \notin Texts
ASSUME EmbeddingAssumption == BlankTexts \cup PoisonTexts \subseteq Texts /\ BlankTexts \cap PoisonTexts = {}
ASSUME WritersAssumption == Syncers \cap Enrichers = {}
ASSUME BoundsAssumption == MaxEdits \in Nat /\ MaxCaptures \in Nat /\ MaxFaults \in Nat

VARIABLES
    content,                     \* StudyLife
    stored,                      \* Qdrant: the batches of each entity
    pc, known, fetched, stage,   \* the coroutines: fingerprints and entities read,
    current, version,            \* content type and entity being worked on
    edits, captures, faults,
    shared                       \* history: has anyone but the loop been at work?

locals == <<known, fetched, stage, current, version>>
aside == <<edits, captures, faults, shared>>
vars == <<content, stored, pc, locals, aside>>

Nothing == [e \in Entities |-> NoText]
NoContent == [e \in Entities |-> Absent]

TypeOK ==
    /\ content \in Contents
    /\ stored \in [Entities -> SUBSET Batches]
    /\ pc \in [Writers -> {"idle", "fetch", "diff", "replace", "upsert"}]
    /\ \A w \in Writers : pc[w] = "upsert" => HasChunks(version[w])
    /\ \A w \in Enrichers : pc[w] \in {"idle", "replace", "upsert"}
    /\ known \in [Syncers -> [Entities -> Texts \cup {NoText}]]
    /\ fetched \in [Syncers -> Contents]
    /\ stage \in [Syncers -> 1 .. NTypes]
    /\ current \in [Writers -> Entities]
    /\ version \in [Writers -> Versions]
    /\ edits \in 0 .. MaxEdits /\ captures \in 0 .. MaxCaptures /\ faults \in 0 .. MaxFaults
    /\ shared \in BOOLEAN

AnEntity == CHOOSE e \in Entities : TRUE
AVersion == CHOOSE v \in Versions : TRUE

Init ==
    /\ content = NoContent
    /\ stored = [e \in Entities |-> {}]
    /\ pc = [w \in Writers |-> "idle"]
    /\ known = [s \in Syncers |-> Nothing]
    /\ fetched = [s \in Syncers |-> NoContent]
    /\ stage = [s \in Syncers |-> 1]
    /\ current = [w \in Writers |-> AnEntity]
    /\ version = [w \in Writers |-> AVersion]
    /\ edits = 0 /\ captures = 0 /\ faults = 0 /\ shared = FALSE

--------------------------------------------------------------------------------
\* The two halves of a coroutine's life every writer shares.

Goto(w, label) == pc' = [pc EXCEPT ![w] = label]

\* A coroutine that is not running keeps no local state.
ForgetReplaced(w) ==
    /\ current' = [current EXCEPT ![w] = AnEntity]
    /\ version' = [version EXCEPT ![w] = AVersion]

EndSync(s) ==
    /\ Goto(s, "idle")
    /\ known' = [known EXCEPT ![s] = Nothing]
    /\ fetched' = [fetched EXCEPT ![s] = NoContent]
    /\ stage' = [stage EXCEPT ![s] = 1]
    /\ ForgetReplaced(s)

EndIngest(w) ==
    /\ Goto(w, "idle")
    /\ ForgetReplaced(w)
    /\ UNCHANGED <<known, fetched, stage>>

\* replace_entity is over: the sync goes on with its diff, from which the entity
\* is struck by taking it for known; an enrichment is done.
AfterReplace(w) ==
    IF w \in Syncers
    THEN /\ Goto(w, "diff")
         /\ known' = [known EXCEPT ![w][current[w]] = Fingerprint(version[w])]
         /\ ForgetReplaced(w)
         /\ UNCHANGED <<fetched, stage>>
    ELSE EndIngest(w)

--------------------------------------------------------------------------------
\* StudyLife: the user creates, changes or deletes an entity.
Edit(e, v) ==
    /\ edits < MaxEdits
    /\ v # content[e]
    /\ content' = [content EXCEPT ![e] = v]
    /\ edits' = edits + 1
    /\ UNCHANGED <<stored, pc, locals, captures, faults, shared>>

--------------------------------------------------------------------------------
\* sync_user.

\* get_known_fingerprints: of an entity with several batches the one scrolled
\* last is known, and their order is that of random point ids.
ReadKnown(s) ==
    /\ pc[s] = "idle"
    /\ \E k \in [Entities -> Texts \cup {NoText}] :
        /\ \A e \in Entities :
            IF stored[e] = {}
            THEN k[e] = NoText
            ELSE \E b \in stored[e] : k[e] = Fingerprint(b.ver)
        /\ known' = [known EXCEPT ![s] = k]
    /\ Goto(s, "fetch")
    /\ shared' = (shared \/ s # Loop)
    /\ UNCHANGED <<content, stored, fetched, stage, current, version, edits, captures, faults>>

\* The gather of the four endpoints; if one fails, none is used (SyncFails).
Fetch(s) ==
    /\ pc[s] = "fetch"
    /\ fetched' = [fetched EXCEPT ![s] = content]
    /\ stage' = [stage EXCEPT ![s] = 1]
    /\ Goto(s, "diff")
    /\ UNCHANGED <<content, stored, known, current, version, aside>>

\* sync_content_type's diff for the content type at hand, less what is done.
OfStage(s) == {e \in Entities : TypeOf[e] = stage[s]}
\* Mutant: whatever StudyLife has is replaced, known or not.
ChangedRegardless(s) == {e \in OfStage(s) : fetched[s][e] # Absent}

\* Mutant: only entities new to the index are taken for changed.
ChangedIfNew(s) == {e \in OfStage(s) :
    fetched[s][e] # Absent /\ known[s][e] = NoText}

Changed(s) == {e \in OfStage(s) :
    fetched[s][e] # Absent /\ known[s][e] # Fingerprint(fetched[s][e])}
Gone(s) == {e \in OfStage(s) : fetched[s][e] = Absent /\ known[s][e] # NoText}

\* The entity's chunks are embedded; what it is replaced by is fixed.
Embed(s, e) ==
    /\ pc[s] = "diff"
    /\ e \in Changed(s) /\ Embeddable(fetched[s][e])
    /\ current' = [current EXCEPT ![s] = e]
    /\ version' = [version EXCEPT ![s] = fetched[s][e]]
    /\ Goto(s, "replace")
    /\ UNCHANGED <<content, stored, known, fetched, stage, aside>>

\* The embedding call raises, today and on every later tick; the exception ends
\* the sync of this user, with what was still to do.
EmbedRaises(s, e) ==
    /\ pc[s] = "diff"
    /\ e \in Changed(s) /\ ~Embeddable(fetched[s][e])
    /\ EndSync(s)
    /\ UNCHANGED <<content, stored, aside>>

\* The deletions come after the last changed entity of the type.
DeleteGone(s, e) ==
    /\ pc[s] = "diff"
    /\ Changed(s) = {}
    /\ e \in Gone(s)
    /\ stored' = [stored EXCEPT ![e] = {}]
    /\ known' = [known EXCEPT ![s][e] = NoText]
    /\ UNCHANGED <<content, pc, fetched, stage, current, version, aside>>

NextType(s) ==
    /\ pc[s] = "diff"
    /\ Changed(s) = {} /\ Gone(s) = {}
    /\ IF stage[s] < NTypes
       THEN /\ stage' = [stage EXCEPT ![s] = @ + 1]
            /\ UNCHANGED <<pc, known, fetched, current, version>>
       ELSE EndSync(s)
    /\ UNCHANGED <<content, stored, aside>>

\* A failing call anywhere leaves the rest of the diff to the next sync.
SyncFails(s) ==
    /\ pc[s] # "idle"
    /\ faults < MaxFaults
    /\ faults' = faults + 1
    /\ EndSync(s)
    /\ UNCHANGED <<content, stored, edits, captures, shared>>

--------------------------------------------------------------------------------
\* QdrantStore.replace_entity.

\* Mutant: the old points stay where they are.
DeleteOldSkipped(w) ==
    /\ pc[w] = "replace"
    /\ IF HasChunks(version[w])
       THEN Goto(w, "upsert") /\ UNCHANGED locals
       ELSE AfterReplace(w)
    /\ UNCHANGED <<content, stored, aside>>

\* Mutant: a blank text ends the replacement before the delete.
DeleteOldUnlessBlank(w) ==
    /\ pc[w] = "replace"
    /\ IF HasChunks(version[w])
       THEN /\ stored' = [stored EXCEPT ![current[w]] = {}]
            /\ Goto(w, "upsert")
            /\ UNCHANGED locals
       ELSE AfterReplace(w) /\ UNCHANGED stored
    /\ UNCHANGED <<content, aside>>

\* Mutant: a blank text is upserted like any other.
DeleteOldAlways(w) ==
    /\ pc[w] = "replace"
    /\ stored' = [stored EXCEPT ![current[w]] = {}]
    /\ Goto(w, "upsert")
    /\ UNCHANGED <<content, locals, aside>>

\* delete_entity removes whatever is there, a blank text ends the replacement.
DeleteOld(w) ==
    /\ pc[w] = "replace"
    /\ stored' = [stored EXCEPT ![current[w]] = {}]
    /\ IF HasChunks(version[w])
       THEN Goto(w, "upsert") /\ UNCHANGED locals
       ELSE AfterReplace(w)
    /\ UNCHANGED <<content, aside>>

Upsert(w) ==
    /\ pc[w] = "upsert"
    /\ stored' = [stored EXCEPT ![current[w]] = @ \cup {[by |-> w, ver |-> version[w]]}]
    /\ AfterReplace(w)
    /\ UNCHANGED <<content, aside>>

--------------------------------------------------------------------------------
\* enrich_capture: a note (content type 1) as StudyLife sent it, under the course
\* _match_course found, whatever has become of the note meanwhile.
Capture(w, e, c) ==
    /\ captures < MaxCaptures
    /\ pc[w] = "idle"
    /\ TypeOf[e] = 1
    /\ content[e] # Absent /\ Embeddable(content[e])
    /\ captures' = captures + 1
    /\ current' = [current EXCEPT ![w] = e]
    /\ version' = [version EXCEPT ![w] = <<Fingerprint(content[e]), c>>]
    /\ Goto(w, "replace")
    /\ shared' = TRUE
    /\ UNCHANGED <<content, stored, known, fetched, stage, edits, faults>>

IngestFails(w) ==
    /\ pc[w] # "idle"
    /\ faults < MaxFaults
    /\ faults' = faults + 1
    /\ EndIngest(w)
    /\ UNCHANGED <<content, stored, edits, captures, shared>>

\* Every coroutine ends where it is; Qdrant keeps what it has.
Crash ==
    /\ faults < MaxFaults
    /\ faults' = faults + 1
    /\ pc' = [w \in Writers |-> "idle"]
    /\ known' = [s \in Syncers |-> Nothing]
    /\ fetched' = [s \in Syncers |-> NoContent]
    /\ stage' = [s \in Syncers |-> 1]
    /\ current' = [w \in Writers |-> AnEntity]
    /\ version' = [w \in Writers |-> AVersion]
    /\ UNCHANGED <<content, stored, edits, captures, shared>>

SyncStep(s) ==
    \/ ReadKnown(s)
    \/ Fetch(s)
    \/ \E e \in Entities : Embed(s, e) \/ EmbedRaises(s, e) \/ DeleteGone(s, e)
    \/ NextType(s)

Next ==
    \/ \E e \in Entities, v \in Versions \cup {Absent} : Edit(e, v)
    \/ \E s \in Syncers : SyncStep(s) \/ SyncFails(s)
    \/ \E w \in Writers : DeleteOld(w) \/ Upsert(w)
    \/ \E w \in Enrichers, e \in Entities, c \in Courses : Capture(w, e, c)
    \/ \E w \in Enrichers : IngestFails(w)
    \/ Crash

Spec == Init /\ [][Next]_vars

\* The periodic loop takes its next step, and the services fail finitely often.
\* Nothing is assumed of the other writers: they may hang for ever between calls.
FairSpec ==
    /\ Spec
    /\ WF_vars(SyncStep(Loop) \/ DeleteOld(Loop) \/ Upsert(Loop))

--------------------------------------------------------------------------------
\* Properties.

\* However many writers overlap, none of them leaves two batches of one entity
\* behind: replace_entity's own delete always covers the writer's last upsert.
\* So the copies of an entity never outnumber its concurrent writers.
OneBatchPerWriter ==
    \A e \in Entities : \A b1, b2 \in stored[e] : b1.by = b2.by => b1 = b2

\* "No duplicate points are ever possible" (_ingest_note's docstring): when no
\* writer is at work, an entity is stored once.
NoDuplicates ==
    (\A w \in Writers : pc[w] = "idle")
        => \A e \in Entities : \A b1, b2 \in stored[e] : b1 = b2

\* The copy the periodic sync works from, once it has fetched it.
Looking == pc[Loop] \in {"diff", "replace", "upsert"}

Index == INSTANCE SearchIndex WITH
    syncing <- Looking, copy <- fetched[Loop],
    found <- [e \in Entities |-> {b.ver : b \in stored[e]}]

\* Until anybody else is at work, what a search finds is the copy the sync has read:
\* one version of an entity at a time, and what is up to date is never taken away,
\* neither by a stale fingerprint nor by a crash between delete and upsert
\* (sync_content_type, replace_entity).
ImplementsSearchIndex == Index!IndexSpec

\* Whatever is searched for: an entity that is there (with something to index) is
\* found under its text, one that is not there is not found.
Shows(e, v) ==
    IF v # Absent /\ HasChunks(v)
    THEN \E b \in stored[e] : Fingerprint(b.ver) = Fingerprint(v)
    ELSE stored[e] = {}

InStep(e) == Shows(e, content[e])

\* A loop that has worked alone so far and gets through its last content type leaves
\* the index showing all that it has read and nothing else, whatever syncs that were
\* cut off left behind: what sync_content_type skips as known is there, what it
\* deleted of one type no later type brings back.
SyncedAsRead ==
    (/\ ~shared
     /\ pc[Loop] = "diff" /\ stage[Loop] = NTypes /\ Changed(Loop) = {} /\ Gone(Loop) = {})
        => \A e \in Entities : Shows(e, fetched[Loop][e])

\* An entity that ends every sync of its user before this one's turn has come.
Blocked(e) ==
    \E f \in Entities : TypeOf[f] <= TypeOf[e] /\ content[f] # Absent /\ ~Embeddable(content[f])

\* "Keeps Qdrant in step with StudyLife's own data" (ingestion/scheduler.py): the
\* index catches up with every edit, through crashes between delete and upsert,
\* failed calls, stale diffs and overlapping writers, and a text that cannot be
\* embedded holds up no content type before its own.
IndexCatchesUp == \A e \in Entities : []<>(InStep(e) \/ Blocked(e))

\* The same for the payload the index filters and cites by: the course of a note.
PayloadCatchesUp ==
    \A e \in Entities :
        []<>(content[e] = Absent \/ ~HasChunks(content[e])
                \/ \E b \in stored[e] : b.ver = content[e])
================================================================================
