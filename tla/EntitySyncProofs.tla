----------------------------- MODULE EntitySyncProofs -----------------------------
(***************************************************************************)
(* replace_entity's delete-then-upsert bounds the copies of an entity by   *)
(* the writers at work, for every number of entities, writers, edits and   *)
(* faults; until a second writer is at work there are no duplicates at     *)
(* all, and the index is what SearchIndex says.                            *)
(***************************************************************************)
EXTENDS EntitySync, TLAPS

\* A writer about to upsert has deleted what it had stored of the entity, and
\* nobody can have put back a batch in its name.
UpsertAddsFirst ==
    \A w \in Writers : pc[w] = "upsert" =>
        \A b \in stored[current[w]] : b.by # w

BatchInv == OneBatchPerWriter /\ UpsertAddsFirst

USE DEF Syncers, Writers, locals, aside, vars

--------------------------------------------------------------------------------
LEMMA AnEntityExists == AnEntity \in Entities /\ AVersion \in Versions
  BY NonEmptyAssumption DEF AnEntity, AVersion

\* The part of TypeOK about the coroutines.
LocalsTyped ==
    /\ pc \in [Writers -> {"idle", "fetch", "diff", "replace", "upsert"}]
    /\ \A w \in Writers : pc[w] = "upsert" => HasChunks(version[w])
    /\ \A w \in Enrichers : pc[w] \in {"idle", "replace", "upsert"}
    /\ known \in [Syncers -> [Entities -> Texts \cup {NoText}]]
    /\ fetched \in [Syncers -> Contents]
    /\ stage \in [Syncers -> 1 .. NTypes]
    /\ current \in [Writers -> Entities]
    /\ version \in [Writers -> Versions]

LEMMA EndSyncTyped ==
    ASSUME TypeOK, NEW s \in Syncers, EndSync(s)
    PROVE  LocalsTyped'
  BY AnEntityExists, TypesAssumption, WritersAssumption
     DEF TypeOK, LocalsTyped, Contents, EndSync, ForgetReplaced, NoContent, Nothing, Goto

LEMMA AfterReplaceTyped ==
    ASSUME TypeOK, NEW w \in Writers, AfterReplace(w)
    PROVE  LocalsTyped'
<1>1. CASE w \in Syncers
  <2>1. Fingerprint(version[w]) \in Texts /\ current[w] \in Entities
    BY DEF TypeOK, Fingerprint, Versions
  <2>2. known' \in [Syncers -> [Entities -> Texts \cup {NoText}]]
    BY <1>1, <2>1 DEF TypeOK, AfterReplace
  <2> QED
    BY <1>1, <2>2, AnEntityExists, WritersAssumption
       DEF TypeOK, LocalsTyped, AfterReplace, ForgetReplaced, Goto
<1>2. CASE w \notin Syncers
  BY <1>2, AnEntityExists, WritersAssumption
     DEF TypeOK, LocalsTyped, AfterReplace, EndIngest, ForgetReplaced, Goto
<1> QED BY <1>1, <1>2

\* Every coroutine's local state stays in its set: the entities and versions a
\* sync works on come from what it fetched (sync_user, _ingest_note).
THEOREM EntityTypeCorrect == Spec => []TypeOK
<1>1. Init => TypeOK
  <2>1. Init => shared \in BOOLEAN
    BY Zenon DEF Init
  <2> QED
    BY <2>1, AnEntityExists, TypesAssumption, BoundsAssumption
       DEF Init, TypeOK, Contents, NoContent, Nothing
<1>2. TypeOK /\ [Next]_vars => TypeOK'
  <2> SUFFICES ASSUME TypeOK, [Next]_vars PROVE TypeOK'
    OBVIOUS
  <2> USE AnEntityExists, TypesAssumption, BoundsAssumption, WritersAssumption
          DEF TypeOK, Contents
  <2>1. ASSUME NEW e \in Entities, NEW v \in Versions \cup {Absent}, Edit(e, v) PROVE TypeOK'
    BY <2>1 DEF Edit
  <2>2. ASSUME NEW s \in Syncers, SyncStep(s) \/ SyncFails(s) PROVE TypeOK'
    <3>1. CASE ReadKnown(s)
      BY <3>1 DEF ReadKnown, Goto
    <3>2. CASE Fetch(s)
      BY <3>2 DEF Fetch, Goto
    <3>3. ASSUME NEW e \in Entities, Embed(s, e) PROVE TypeOK'
      <4>1. fetched[s][e] \in Versions
        BY <3>3 DEF Embed, Changed, OfStage
      <4> QED BY <3>3, <4>1 DEF Embed, Goto
    <3>4. ASSUME NEW e \in Entities, DeleteGone(s, e) PROVE TypeOK'
      BY <3>4 DEF DeleteGone
    <3>5. CASE NextType(s)
      <4>1. CASE stage[s] < NTypes
        BY <3>5, <4>1 DEF NextType
      <4>2. CASE ~(stage[s] < NTypes)
        BY <3>5, <4>2, EndSyncTyped DEF NextType, LocalsTyped
      <4> QED BY <4>1, <4>2
    <3>6. CASE SyncFails(s)
      BY <3>6, EndSyncTyped DEF SyncFails, LocalsTyped
    <3>7. ASSUME NEW e \in Entities, EmbedRaises(s, e) PROVE TypeOK'
      BY <3>7, EndSyncTyped DEF EmbedRaises, LocalsTyped
    <3> QED BY <2>2, <3>1, <3>2, <3>3, <3>4, <3>5, <3>6, <3>7 DEF SyncStep
  <2>3. ASSUME NEW w \in Writers, DeleteOld(w) \/ Upsert(w) PROVE TypeOK'
    <3>1. CASE DeleteOld(w)
      <4>1. CASE HasChunks(version[w])
        BY <3>1, <4>1 DEF DeleteOld, Goto
      <4>2. CASE ~HasChunks(version[w])
        BY <3>1, <4>2, AfterReplaceTyped DEF DeleteOld, LocalsTyped
      <4> QED BY <4>1, <4>2
    <3>2. CASE Upsert(w)
      <4>1. [by |-> w, ver |-> version[w]] \in Batches
        BY DEF Batches
      <4>2. stored' \in [Entities -> SUBSET Batches]
        BY <3>2, <4>1 DEF Upsert
      <4> QED BY <3>2, <4>2, AfterReplaceTyped DEF Upsert, LocalsTyped
    <3> QED BY <2>3, <3>1, <3>2
  <2>4. ASSUME NEW w \in Enrichers, NEW e \in Entities, NEW c \in Courses, Capture(w, e, c)
        PROVE  TypeOK'
    BY <2>4 DEF Capture, Goto, Fingerprint, Versions
  <2>5. ASSUME NEW w \in Enrichers, IngestFails(w) PROVE TypeOK'
    BY <2>5 DEF IngestFails, EndIngest, ForgetReplaced, Goto
  <2>6. CASE Crash
    BY <2>6 DEF Crash, NoContent, Nothing
  <2>7. CASE UNCHANGED vars
    BY <2>7
  <2> QED BY <2>1, <2>2, <2>3, <2>4, <2>5, <2>6, <2>7 DEF Next
<1>3. QED
  BY <1>1, <1>2, PTL DEF Spec

--------------------------------------------------------------------------------
\* A step that adds no batch and starts no upsert keeps the invariant.
LEMMA NoUpsertStep ==
    ASSUME TypeOK, TypeOK', BatchInv,
           \A e \in Entities : stored'[e] \subseteq stored[e],
           \A w \in Writers : pc'[w] = "upsert" =>
               pc[w] = "upsert" /\ current'[w] = current[w]
    PROVE  BatchInv'
  BY DEF TypeOK, BatchInv, OneBatchPerWriter, UpsertAddsFirst

\* Overlapping writers may duplicate an entity's points, but no writer ever leaves
\* two batches of its own: qdrant_store.py, replace_entity.
THEOREM OneBatchPerWriterHolds == Spec => []OneBatchPerWriter
<1>1. Init => BatchInv
  BY DEF Init, BatchInv, OneBatchPerWriter, UpsertAddsFirst
<1>2. TypeOK /\ TypeOK' /\ BatchInv /\ [Next]_vars => BatchInv'
  <2> SUFFICES ASSUME TypeOK, TypeOK', BatchInv, [Next]_vars PROVE BatchInv'
    OBVIOUS
  <2> USE WritersAssumption
  <2>1. ASSUME NEW e \in Entities, NEW v \in Versions \cup {Absent}, Edit(e, v) PROVE BatchInv'
    BY <2>1, NoUpsertStep DEF Edit
  <2>2. ASSUME NEW s \in Syncers, SyncStep(s) \/ SyncFails(s) PROVE BatchInv'
    <3>1. CASE ReadKnown(s) \/ Fetch(s)
      BY <3>1, NoUpsertStep DEF ReadKnown, Fetch, Goto, TypeOK
    <3>2. ASSUME NEW e \in Entities, Embed(s, e) \/ DeleteGone(s, e) PROVE BatchInv'
      BY <3>2, NoUpsertStep DEF Embed, DeleteGone, Goto, TypeOK
    <3>3. CASE NextType(s) \/ SyncFails(s)
      BY <3>3, NoUpsertStep DEF NextType, SyncFails, EndSync, ForgetReplaced, Goto, TypeOK
    <3>4. ASSUME NEW e \in Entities, EmbedRaises(s, e) PROVE BatchInv'
      BY <3>4, NoUpsertStep DEF EmbedRaises, EndSync, ForgetReplaced, Goto, TypeOK
    <3> QED BY <2>2, <3>1, <3>2, <3>3, <3>4 DEF SyncStep
  <2>3. ASSUME NEW w \in Writers, DeleteOld(w) PROVE BatchInv'
    <3>1. OneBatchPerWriter'
      BY <2>3 DEF DeleteOld, BatchInv, OneBatchPerWriter, TypeOK
    <3>2. UpsertAddsFirst'
      <4> SUFFICES ASSUME NEW x \in Writers, pc'[x] = "upsert",
                          NEW b \in stored'[current'[x]]
                   PROVE  b.by # x
        BY DEF UpsertAddsFirst
      <4>1. x # w => pc[x] = "upsert" /\ current'[x] = current[x]
        BY <2>3 DEF DeleteOld, AfterReplace, EndIngest, ForgetReplaced, Goto, TypeOK
      <4>2. x = w => current'[x] = current[x]
        BY <2>3 DEF DeleteOld, AfterReplace, EndIngest, Goto, TypeOK
      <4>3. current[x] \in Entities /\ current[w] \in Entities
        BY DEF TypeOK
      <4>4. b \in stored[current[x]] /\ current[x] # current[w]
        BY <2>3, <4>1, <4>2, <4>3 DEF DeleteOld, TypeOK
      <4> QED BY <2>3, <4>1, <4>4 DEF BatchInv, UpsertAddsFirst, DeleteOld, TypeOK
    <3> QED BY <3>1, <3>2 DEF BatchInv
  <2>4. ASSUME NEW w \in Writers, Upsert(w) PROVE BatchInv'
    <3> DEFINE new == [by |-> w, ver |-> version[w]]
    <3>1. \A b \in stored[current[w]] : b.by # w
      BY <2>4 DEF Upsert, BatchInv, UpsertAddsFirst
    <3>2. OneBatchPerWriter'
      BY <2>4, <3>1 DEF Upsert, BatchInv, OneBatchPerWriter, TypeOK
    <3>3. UpsertAddsFirst'
      <4> SUFFICES ASSUME NEW x \in Writers, pc'[x] = "upsert",
                          NEW b \in stored'[current'[x]]
                   PROVE  b.by # x
        BY DEF UpsertAddsFirst
      <4>1. x # w /\ pc[x] = "upsert" /\ current'[x] = current[x]
        BY <2>4 DEF Upsert, AfterReplace, EndIngest, ForgetReplaced, Goto, TypeOK
      <4>2. b \in stored[current[x]] \/ b = new
        BY <2>4, <4>1 DEF Upsert, TypeOK
      <4> QED BY <4>1, <4>2 DEF BatchInv, UpsertAddsFirst
    <3> QED BY <3>2, <3>3 DEF BatchInv
  <2>5. ASSUME NEW w \in Enrichers, NEW e \in Entities, NEW c \in Courses, Capture(w, e, c)
        PROVE  BatchInv'
    BY <2>5, NoUpsertStep DEF Capture, Goto, TypeOK
  <2>6. ASSUME NEW w \in Enrichers, IngestFails(w) PROVE BatchInv'
    BY <2>6, NoUpsertStep DEF IngestFails, EndIngest, ForgetReplaced, Goto, TypeOK
  <2>7. CASE Crash
    BY <2>7, NoUpsertStep DEF Crash
  <2>8. CASE UNCHANGED vars
    BY <2>8, NoUpsertStep
  <2> QED BY <2>1, <2>2, <2>3, <2>4, <2>5, <2>6, <2>7, <2>8 DEF Next
<1>3. BatchInv => OneBatchPerWriter
  BY DEF BatchInv
<1>4. QED
  BY <1>1, <1>2, <1>3, EntityTypeCorrect, PTL DEF Spec

--------------------------------------------------------------------------------
(***************************************************************************)
(* As long as the periodic sync is the only writer at work.  What it knows *)
(* of an entity is what is stored, from the first scroll to the end; what  *)
(* it replaces is what it fetched, and not what is stored; and when it     *)
(* upserts, the old points are gone.                                       *)
(***************************************************************************)
Alone ==
    /\ \A w \in Writers \ {Loop} : pc[w] = "idle"
    /\ \A e \in Entities : \A b \in stored[e] : b.by = Loop

LoopStep ==
    \/ \E e \in Entities, v \in Versions \cup {Absent} : Edit(e, v)
    \/ SyncStep(Loop) \/ SyncFails(Loop) \/ DeleteOld(Loop) \/ Upsert(Loop)
    \/ Crash
    \/ UNCHANGED vars

AloneInv ==
    /\ ~Looking => fetched[Loop] = NoContent
    /\ pc[Loop] # "idle" =>
          \A e \in Entities : \A b \in stored[e] : known[Loop][e] = Fingerprint(b.ver)
    /\ pc[Loop] \in {"replace", "upsert"} => fetched[Loop][current[Loop]] = version[Loop]
    /\ pc[Loop] = "replace" => known[Loop][current[Loop]] # Fingerprint(version[Loop])
    /\ pc[Loop] = "upsert" => stored[current[Loop]] = {}

\* The versions of an entity that a search finds.
Found == [e \in Entities |-> {b.ver : b \in stored[e]}]

\* A step of the index, or none.
IndexStep == [Index!IndexNext]_<<content, Looking, fetched[Loop], Found, shared>>

\* A scroll of any other sync is noticed.
LEMMA ReadNoticed ==
    ASSUME NEW s \in Syncers, ReadKnown(s), ~shared'
    PROVE  s = Loop /\ ~shared
<1>1. shared' = (shared \/ s # Loop)
  BY DEF ReadKnown
<1> QED BY <1>1, Zenon

LEMMA SharedStays ==
    ASSUME [Next]_vars, ~shared'
    PROVE  ~shared
<1>1. CASE \E s \in Syncers : ReadKnown(s)
  BY <1>1, ReadNoticed
<1>2. CASE UNCHANGED shared
  BY <1>2
<1>3. CASE \E w \in Enrichers, e \in Entities, c \in Courses : Capture(w, e, c)
  BY <1>3 DEF Capture
<1> QED
  BY <1>1, <1>2, <1>3
     DEF Next, SyncStep, Edit, Fetch, Embed, EmbedRaises, DeleteGone, NextType, SyncFails,
         DeleteOld, Upsert, IngestFails, Crash

\* To begin its work another writer has to be noticed.
LEMMA OnlyTheLoop ==
    ASSUME Alone, [Next]_vars, ~shared'
    PROVE  LoopStep
<1> USE WritersAssumption
<1>1. ASSUME NEW e \in Entities, NEW v \in Versions \cup {Absent}, Edit(e, v) PROVE LoopStep
  BY <1>1 DEF LoopStep
<1>2. ASSUME NEW s \in Syncers, SyncStep(s) \/ SyncFails(s) PROVE LoopStep
  <2>1. CASE s = Loop
    BY <1>2, <2>1 DEF LoopStep
  <2>2. CASE s # Loop
    <3>1. ~ReadKnown(s)
      BY <2>2, ReadNoticed
    <3> QED
      BY <1>2, <2>2, <3>1
         DEF Alone, SyncStep, Fetch, Embed, EmbedRaises, DeleteGone, NextType, SyncFails
  <2> QED BY <2>1, <2>2
<1>3. ASSUME NEW w \in Writers, DeleteOld(w) \/ Upsert(w) PROVE LoopStep
  BY <1>3 DEF Alone, LoopStep, DeleteOld, Upsert
<1>4. ASSUME NEW w \in Enrichers, NEW e \in Entities, NEW c \in Courses PROVE ~Capture(w, e, c)
  BY DEF Capture
<1>5. ASSUME NEW w \in Enrichers PROVE ~IngestFails(w)
  BY DEF Alone, IngestFails
<1> QED BY <1>1, <1>2, <1>3, <1>4, <1>5 DEF Next, LoopStep

\* Nobody else begins in a step of the loop.
LEMMA StaysAlone ==
    ASSUME TypeOK, Alone, LoopStep
    PROVE  Alone'
<1>1. \A w \in Writers \ {Loop} : pc'[w] = "idle"
  BY DEF Alone, LoopStep, TypeOK, Goto, Edit, SyncStep, ReadKnown, Fetch, Embed, EmbedRaises,
         DeleteGone, NextType, SyncFails, DeleteOld, Upsert, AfterReplace, EndSync, Crash
<1>2. \A e \in Entities : \A b \in stored'[e] : b.by = Loop
  <2>1. CASE Upsert(Loop)
    BY <2>1 DEF Upsert, Alone, TypeOK
  <2>2. CASE ~Upsert(Loop)
    <3>1. \A e \in Entities : stored'[e] \subseteq stored[e]
      BY <2>2 DEF LoopStep, TypeOK, Edit, SyncStep, ReadKnown, Fetch, Embed, EmbedRaises,
                  DeleteGone, NextType, SyncFails, DeleteOld, Crash
    <3> QED BY <3>1 DEF Alone
  <2> QED BY <2>1, <2>2
<1> QED BY <1>1, <1>2 DEF Alone

\* One version of an entity at a time.
LEMMA AloneNoDuplicates ==
    ASSUME TypeOK, OneBatchPerWriter, Alone
    PROVE  \A e \in Entities : \A b1, b2 \in stored[e] : b1 = b2
  BY DEF OneBatchPerWriter, Alone

\* As long as no one but the periodic sync has been at work, "no duplicate points"
\* holds at every moment: duplicates need a registration's sync or an enrichment.
THEOREM SoleWriterNoDuplicates == Spec => [](~shared => NoDuplicates)
<1>1. Init => (~shared => Alone)
  BY DEF Init, Alone
<1>2. TypeOK /\ (~shared => Alone) /\ [Next]_vars => (~shared => Alone)'
  <2> SUFFICES ASSUME TypeOK, ~shared => Alone, [Next]_vars, ~shared' PROVE Alone'
    BY Zenon
  <2> QED BY SharedStays, OnlyTheLoop, StaysAlone
<1>3. TypeOK /\ OneBatchPerWriter /\ (~shared => Alone) => (~shared => NoDuplicates)
  BY AloneNoDuplicates DEF NoDuplicates
<1>4. QED
  BY <1>1, <1>2, <1>3, EntityTypeCorrect, OneBatchPerWriterHolds, PTL DEF Spec

LEMMA AloneStarts == Init => Alone /\ AloneInv
  BY DEF Init, Alone, AloneInv, Looking

\* The sync ends, wherever it is.
LEMMA AloneEnds ==
    ASSUME TypeOK, AloneInv, UNCHANGED <<content, stored, shared>>,
           pc'[Loop] = "idle", fetched'[Loop] = NoContent
    PROVE  AloneInv' /\ IndexStep
<1>1. AloneInv'
  BY DEF AloneInv, Looking
<1>2. Found' = Found
  BY DEF Found
<1>3. CASE Looking
  <2>1. Index!Finish
    BY <1>2, <1>3 DEF Index!Finish, Index!NoCopy, NoContent, Found, Looking
  <2> QED BY <1>1, <2>1 DEF IndexStep, Index!IndexNext
<1>4. CASE ~Looking
  BY <1>1, <1>2, <1>4 DEF IndexStep, Looking, AloneInv
<1> QED BY <1>3, <1>4

LEMMA AloneEndSync ==
    ASSUME TypeOK, EndSync(Loop)
    PROVE  pc'[Loop] = "idle" /\ fetched'[Loop] = NoContent
  BY DEF TypeOK, EndSync, Goto

\* The points of one entity are gone, that the sync knew to be out of date.
LEMMA Withdrawn ==
    ASSUME TypeOK, AloneInv, NEW e \in Entities, Looking, Looking',
           UNCHANGED <<content, fetched, shared>>, stored' = [stored EXCEPT ![e] = {}],
           fetched[Loop][e] = Absent \/ known[Loop][e] # Fingerprint(fetched[Loop][e])
    PROVE  IndexStep
<1>1. \A v \in Found[e] : fetched[Loop][e] = Absent \/ fetched[Loop][e][1] # v[1]
  BY DEF AloneInv, Looking, Found, Fingerprint
<1>2. Found' = [Found EXCEPT ![e] = {}]
  BY DEF Found, TypeOK
<1>3. Index!Withdraw(e)
  BY <1>1, <1>2 DEF Index!Withdraw, Found, Looking
<1> QED BY <1>3 DEF IndexStep, Index!IndexNext

\* An entity that was not found is found as the sync has read it.
LEMMA Shown ==
    ASSUME TypeOK, NEW e \in Entities, NEW v \in Versions, NEW w, Looking, Looking',
           UNCHANGED <<content, fetched, shared>>, fetched[Loop][e] = v, v # Absent, HasChunks(v),
           stored[e] = {}, stored'[e] = {[by |-> w, ver |-> v]},
           \A f \in Entities \ {e} : stored'[f] = stored[f]
    PROVE  IndexStep
<1>1. Found[e] = {} /\ Found' = [Found EXCEPT ![e] = {v}]
  <2>1. {b.ver : b \in stored'[e]} = {v}
    OBVIOUS
  <2> QED BY <2>1 DEF Found
<1>2. Index!Show(e)
  BY <1>1 DEF Index!Show, Found, Looking, HasChunks, Fingerprint
<1> QED BY <1>2 DEF IndexStep, Index!IndexNext

LEMMA AloneStep ==
    ASSUME TypeOK, TypeOK', OneBatchPerWriter, Alone, AloneInv, LoopStep, UNCHANGED shared
    PROVE  AloneInv' /\ IndexStep
<1>0. Loop \in Syncers /\ Loop \in Writers
  OBVIOUS
<1>1. ASSUME NEW e \in Entities, NEW v \in Versions \cup {Absent}, Edit(e, v)
      PROVE  AloneInv' /\ IndexStep
  <2>1. content' \in Index!Copies
    BY DEF TypeOK, Contents, Versions, Index!Copies
  <2>2. UNCHANGED <<Looking, fetched[Loop], Found>>
    BY <1>1 DEF Edit, Looking, Found
  <2>3. Index!Change
    BY <2>1, <2>2 DEF Index!Change, Found
  <2> QED BY <1>1, <2>3 DEF Edit, AloneInv, Looking, IndexStep, Index!IndexNext
<1>2. CASE ReadKnown(Loop)
  <2>1. pc[Loop] = "idle" /\ pc'[Loop] = "fetch" /\ UNCHANGED <<content, stored, fetched>>
    BY <1>0, <1>2 DEF ReadKnown, Goto, TypeOK
  <2>2. \A e \in Entities : \A b \in stored[e] : known'[Loop][e] = Fingerprint(b.ver)
    <3>1. \A e \in Entities : \A b1, b2 \in stored[e] : b1 = b2
      BY AloneNoDuplicates
    <3> QED BY <1>0, <1>2, <3>1 DEF ReadKnown, TypeOK
  <2>3. UNCHANGED <<Looking, Found>>
    BY <2>1 DEF Looking, Found
  <2> QED BY <2>1, <2>2, <2>3 DEF AloneInv, IndexStep, Looking
<1>3. CASE Fetch(Loop)
  <2>1. pc[Loop] = "fetch" /\ pc'[Loop] = "diff" /\ fetched'[Loop] = content
        /\ UNCHANGED <<content, stored, known>>
    BY <1>0, <1>3 DEF Fetch, Goto, TypeOK
  <2>2. Index!Look
    BY <2>1 DEF Index!Look, Looking
  <2> QED BY <2>1, <2>2 DEF AloneInv, IndexStep, Looking, Index!IndexNext
<1>4. ASSUME NEW e \in Entities, Embed(Loop, e) PROVE AloneInv' /\ IndexStep
  <2>1. pc[Loop] = "diff" /\ pc'[Loop] = "replace" /\ current'[Loop] = e
        /\ version'[Loop] = fetched[Loop][e] /\ UNCHANGED <<content, stored, known, fetched>>
    BY <1>0, <1>4 DEF Embed, Goto, TypeOK
  <2>2. known[Loop][e] # Fingerprint(fetched[Loop][e])
    BY <1>4 DEF Embed, Changed
  <2>3. UNCHANGED <<Looking, Found>>
    BY <2>1 DEF Looking, Found
  <2> QED BY <2>1, <2>2, <2>3 DEF AloneInv, IndexStep, Looking
<1>5. ASSUME NEW e \in Entities, EmbedRaises(Loop, e) PROVE AloneInv' /\ IndexStep
  BY <1>0, <1>5, AloneEndSync, AloneEnds DEF EmbedRaises
<1>6. ASSUME NEW e \in Entities, DeleteGone(Loop, e) PROVE AloneInv' /\ IndexStep
  <2>1. pc[Loop] = "diff" /\ stored' = [stored EXCEPT ![e] = {}]
        /\ UNCHANGED <<content, pc, fetched, current, version>>
    BY <1>6 DEF DeleteGone
  <2>2. known'[Loop] = [known[Loop] EXCEPT ![e] = NoText]
    BY <1>0, <1>6 DEF DeleteGone, TypeOK
  <2>3. fetched[Loop][e] = Absent
    BY <1>6 DEF DeleteGone, Gone
  <2>4. Looking /\ Looking'
    BY <2>1 DEF Looking
  <2>5. \A f \in Entities : \A b \in stored'[f] : known'[Loop][f] = Fingerprint(b.ver)
    BY <1>0, <2>1, <2>2 DEF AloneInv, TypeOK
  <2>6. AloneInv'
    BY <2>1, <2>4, <2>5 DEF AloneInv
  <2> QED BY <2>1, <2>3, <2>4, <2>6, Withdrawn
<1>7. CASE NextType(Loop)
  <2>1. CASE stage[Loop] < NTypes
    <3>1. UNCHANGED <<content, stored, pc, known, fetched, current, version>>
      BY <1>7, <2>1 DEF NextType
    <3>2. UNCHANGED <<Looking, Found>>
      BY <3>1 DEF Looking, Found
    <3> QED BY <3>1, <3>2 DEF AloneInv, IndexStep
  <2>2. CASE ~(stage[Loop] < NTypes)
    BY <1>0, <1>7, <2>2, AloneEndSync, AloneEnds DEF NextType
  <2> QED BY <2>1, <2>2
<1>8. CASE SyncFails(Loop)
  BY <1>0, <1>8, AloneEndSync, AloneEnds DEF SyncFails
<1>9. CASE DeleteOld(Loop)
  <2> DEFINE e == current[Loop]
  <2>1. pc[Loop] = "replace" /\ stored' = [stored EXCEPT ![e] = {}] /\ UNCHANGED <<content, fetched>>
    BY <1>0, <1>9 DEF DeleteOld, AfterReplace
  <2>2. e \in Entities /\ fetched[Loop][e] = version[Loop] /\ stored'[e] = {}
        /\ known[Loop][e] # Fingerprint(version[Loop])
    BY <1>0, <2>1 DEF AloneInv, TypeOK
  <2>3. \A f \in Entities \ {e} : stored'[f] = stored[f]
    BY <2>1 DEF TypeOK
  <2>4. pc'[Loop] \in {"upsert", "diff"}
        /\ (pc'[Loop] = "upsert" => UNCHANGED <<known, current, version>>)
        /\ \A f \in Entities \ {e} : known'[Loop][f] = known[Loop][f]
    <3>1. CASE HasChunks(version[Loop])
      BY <1>0, <1>9, <3>1 DEF DeleteOld, Goto, TypeOK
    <3>2. CASE ~HasChunks(version[Loop])
      BY <1>0, <1>9, <3>2 DEF DeleteOld, AfterReplace, Goto, TypeOK
    <3> QED BY <3>1, <3>2
  <2>5. Looking /\ Looking'
    BY <2>1, <2>4 DEF Looking
  <2>6. \A f \in Entities : \A b \in stored'[f] : known'[Loop][f] = Fingerprint(b.ver)
    BY <2>1, <2>2, <2>3, <2>4 DEF AloneInv
  <2>7. AloneInv'
    BY <2>2, <2>1, <2>4, <2>5, <2>6 DEF AloneInv
  <2> QED BY <2>1, <2>2, <2>5, <2>7, Withdrawn
<1>10. CASE Upsert(Loop)
  <2> DEFINE e == current[Loop]
             v == version[Loop]
  <2>1. pc[Loop] = "upsert" /\ UNCHANGED content
        /\ stored' = [stored EXCEPT ![e] = @ \cup {[by |-> Loop, ver |-> v]}]
    BY <1>10 DEF Upsert
  <2>2. pc'[Loop] = "diff" /\ UNCHANGED fetched
        /\ known' = [known EXCEPT ![Loop][e] = Fingerprint(v)]
    BY <1>0, <1>10 DEF Upsert, AfterReplace, Goto, TypeOK
  <2>3. e \in Entities /\ v \in Versions /\ v # Absent /\ HasChunks(v)
        /\ fetched[Loop][e] = v /\ stored[e] = {}
    BY <1>0, <2>1, TextsAssumption DEF AloneInv, TypeOK
  <2>4. stored'[e] = {[by |-> Loop, ver |-> v]}
        /\ \A f \in Entities \ {e} : stored'[f] = stored[f]
    BY <2>1, <2>3 DEF TypeOK
  <2>5. known'[Loop][e] = Fingerprint(v)
        /\ \A f \in Entities \ {e} : known'[Loop][f] = known[Loop][f]
    BY <1>0, <2>2, <2>3 DEF TypeOK
  <2>6. AloneInv'
    <3>1. \A f \in Entities : \A b \in stored'[f] : known'[Loop][f] = Fingerprint(b.ver)
      BY <2>1, <2>4, <2>5 DEF AloneInv
    <3> QED BY <2>2, <3>1 DEF AloneInv, Looking
  <2>7. Looking /\ Looking' /\ UNCHANGED <<content, fetched>>
    BY <2>1, <2>2 DEF Looking
  <2>8. IndexStep
    <3> HIDE DEF e, v
    <3> QED BY <2>3, <2>4, <2>7, Shown
  <2> QED BY <2>6, <2>8
<1>11. CASE Crash
  BY <1>0, <1>11, AloneEnds DEF Crash
<1>12. CASE UNCHANGED vars
  <2>1. UNCHANGED <<Looking, Found>>
    BY <1>12 DEF Looking, Found
  <2> QED BY <1>12, <2>1 DEF AloneInv, IndexStep
<1> QED
  BY <1>0, <1>1, <1>2, <1>3, <1>4, <1>5, <1>6, <1>7, <1>8, <1>9, <1>10, <1>11, <1>12
     DEF LoopStep, SyncStep

SoleWriterInv == ~shared => Alone /\ AloneInv

LEMMA SoleWriterStep ==
    ASSUME TypeOK, TypeOK', OneBatchPerWriter, SoleWriterInv, [Next]_vars
    PROVE  SoleWriterInv' /\ IndexStep
<1>1. CASE shared'
  <2>1. Index!Share
    BY <1>1 DEF Index!Share, TypeOK
  <2> QED BY <1>1, <2>1 DEF SoleWriterInv, IndexStep, Index!IndexNext
<1>2. CASE ~shared'
  <2>1. LoopStep /\ Alone /\ AloneInv /\ ~shared
    BY <1>2, SharedStays, OnlyTheLoop DEF SoleWriterInv
  <2>2. UNCHANGED shared
    BY <1>2, <2>1 DEF TypeOK
  <2> QED BY <2>1, <2>2, StaysAlone, AloneStep DEF SoleWriterInv
<1> QED BY <1>1, <1>2

\* Until another writer is at work, the index is what SearchIndex says: each entity
\* found once at most, as the sync has read it, and only what is out of date
\* withdrawn; the same after a crash between replace_entity's delete and its upsert.
THEOREM IndexImplemented == Spec => ImplementsSearchIndex
<1>1. Init => Index!IndexInit
  BY DEF Init, Index!IndexInit, Index!NoCopy, NoContent, Looking
<1>2. Init => SoleWriterInv
  BY AloneStarts DEF SoleWriterInv
<1>3. TypeOK /\ TypeOK' /\ OneBatchPerWriter /\ SoleWriterInv /\ [Next]_vars
         => SoleWriterInv' /\ [Index!IndexNext]_(Index!indexVars)
  BY SoleWriterStep DEF IndexStep, Index!indexVars, Found
<1>4. QED
  BY <1>1, <1>2, <1>3, EntityTypeCorrect, OneBatchPerWriterHolds, PTL
     DEF Spec, ImplementsSearchIndex, Index!IndexSpec

--------------------------------------------------------------------------------
(***************************************************************************)
(* What the periodic sync, alone, has done when it is through.  What it    *)
(* knows and finds nothing of is blank; the types before the one at hand   *)
(* are known as they were fetched.                                         *)
(***************************************************************************)

\* The fingerprint an entity has once the sync is done with it.
Wanted(e) == IF fetched[Loop][e] = Absent THEN NoText ELSE Fingerprint(fetched[Loop][e])

Replacing == pc[Loop] \in {"replace", "upsert"}

DoneInv ==
    /\ \A e \in Entities : \A b \in stored[e] : HasChunks(b.ver)
    /\ pc[Loop] # "idle" =>
          \A e \in Entities :
              stored[e] = {} => \/ known[Loop][e] \in BlankTexts \cup {NoText}
                                \/ pc[Loop] = "upsert" /\ e = current[Loop]
    /\ Looking => \A e \in Entities : TypeOf[e] < stage[Loop] => known[Loop][e] = Wanted(e)
    /\ Replacing => TypeOf[current[Loop]] = stage[Loop]

LEMMA DoneStarts == Init => DoneInv
  BY DEF Init, DoneInv, Looking, Replacing

\* Where the diff of the type at hand is empty, the type is done.
LEMMA TypeDone ==
    ASSUME TypeOK, DoneInv, pc[Loop] = "diff", Changed(Loop) = {}, Gone(Loop) = {},
           NEW e \in Entities, TypeOf[e] <= stage[Loop]
    PROVE  known[Loop][e] = Wanted(e)
<1>1. TypeOf[e] \in Nat /\ stage[Loop] \in Nat
  BY TypesAssumption DEF TypeOK
<1>2. CASE TypeOf[e] = stage[Loop]
  BY <1>2 DEF Changed, Gone, OfStage, Wanted
<1>3. CASE TypeOf[e] < stage[Loop]
  BY <1>3 DEF DoneInv, Looking
<1> QED BY <1>1, <1>2, <1>3

LEMMA DoneEnds ==
    ASSUME DoneInv, UNCHANGED stored, pc'[Loop] = "idle"
    PROVE  DoneInv'
  BY DEF DoneInv, Looking, Replacing

LEMMA DoneStep ==
    ASSUME TypeOK, TypeOK', DoneInv, LoopStep
    PROVE  DoneInv'
<1>0. Loop \in Syncers /\ Loop \in Writers
  OBVIOUS
<1>1. ASSUME NEW e \in Entities, NEW v \in Versions \cup {Absent}, Edit(e, v) PROVE DoneInv'
  BY <1>1 DEF Edit, DoneInv, Looking, Replacing, Wanted
<1>2. CASE ReadKnown(Loop)
  <2>1. pc'[Loop] = "fetch" /\ UNCHANGED stored
    BY <1>0, <1>2 DEF ReadKnown, Goto, TypeOK
  <2>2. \A e \in Entities : stored[e] = {} => known'[Loop][e] = NoText
    BY <1>0, <1>2 DEF ReadKnown, TypeOK
  <2> QED BY <2>1, <2>2 DEF DoneInv, Looking, Replacing
<1>3. CASE Fetch(Loop)
  <2>1. pc[Loop] = "fetch" /\ pc'[Loop] = "diff" /\ stage'[Loop] = 1 /\ UNCHANGED <<stored, known>>
    BY <1>0, <1>3 DEF Fetch, Goto, TypeOK
  <2>2. \A e \in Entities : ~(TypeOf[e] < 1)
    BY TypesAssumption
  <2> QED BY <2>1, <2>2 DEF DoneInv, Looking, Replacing
<1>4. ASSUME NEW e \in Entities, Embed(Loop, e) PROVE DoneInv'
  <2>1. pc[Loop] = "diff" /\ pc'[Loop] = "replace" /\ current'[Loop] = e
        /\ UNCHANGED <<stored, known, fetched, stage>>
    BY <1>0, <1>4 DEF Embed, Goto, TypeOK
  <2>2. TypeOf[e] = stage[Loop]
    BY <1>4 DEF Embed, Changed, OfStage
  <2> QED BY <2>1, <2>2 DEF DoneInv, Looking, Replacing, Wanted
<1>5. ASSUME NEW e \in Entities, EmbedRaises(Loop, e) PROVE DoneInv'
  BY <1>0, <1>5, AloneEndSync, DoneEnds DEF EmbedRaises
<1>6. ASSUME NEW e \in Entities, DeleteGone(Loop, e) PROVE DoneInv'
  <2>1. pc[Loop] = "diff" /\ stored' = [stored EXCEPT ![e] = {}] /\ UNCHANGED <<pc, fetched, stage>>
    BY <1>6 DEF DeleteGone
  <2>2. known'[Loop] = [known[Loop] EXCEPT ![e] = NoText]
    BY <1>0, <1>6 DEF DeleteGone, TypeOK
  <2>3. TypeOf[e] = stage[Loop] /\ stage[Loop] \in Nat
    BY <1>0, <1>6, TypesAssumption DEF DeleteGone, Gone, OfStage, TypeOK
  <2>4. \A f \in Entities : \A b \in stored'[f] : HasChunks(b.ver)
    BY <2>1 DEF DoneInv, TypeOK
  <2>5. \A f \in Entities : stored'[f] = {} => known'[Loop][f] \in BlankTexts \cup {NoText}
    BY <1>0, <2>1, <2>2 DEF DoneInv, TypeOK
  <2>6. \A f \in Entities : TypeOf[f] < stage'[Loop] => known'[Loop][f] = Wanted(f)'
    BY <1>0, <2>1, <2>2, <2>3 DEF DoneInv, Looking, Wanted, TypeOK
  <2> QED BY <2>1, <2>4, <2>5, <2>6 DEF DoneInv, Looking, Replacing
<1>7. CASE NextType(Loop)
  <2>1. CASE stage[Loop] < NTypes
    <3>1. /\ pc[Loop] = "diff" /\ stage'[Loop] = stage[Loop] + 1
          /\ UNCHANGED <<stored, pc, known, fetched>>
      BY <1>0, <1>7, <2>1 DEF NextType, TypeOK
    <3>2. \A e \in Entities : TypeOf[e] < stage'[Loop] => known[Loop][e] = Wanted(e)
      <4>1. \A e \in Entities : TypeOf[e] < stage'[Loop] => TypeOf[e] <= stage[Loop]
        BY <1>0, <3>1, TypesAssumption DEF TypeOK
      <4> QED BY <1>7, <3>1, <4>1, TypeDone DEF NextType
    <3> QED BY <3>1, <3>2 DEF DoneInv, Looking, Replacing, Wanted
  <2>2. CASE ~(stage[Loop] < NTypes)
    BY <1>0, <1>7, <2>2, AloneEndSync, DoneEnds DEF NextType
  <2> QED BY <2>1, <2>2
<1>8. CASE SyncFails(Loop)
  BY <1>0, <1>8, AloneEndSync, DoneEnds DEF SyncFails
<1>9. CASE DeleteOld(Loop)
  <2> DEFINE e == current[Loop]
  <2>1. pc[Loop] = "replace" /\ stored' = [stored EXCEPT ![e] = {}] /\ UNCHANGED <<fetched, stage>>
    BY <1>0, <1>9 DEF DeleteOld, AfterReplace
  <2>2. e \in Entities /\ TypeOf[e] = stage[Loop] /\ stage[Loop] \in Nat
    BY <1>0, <2>1, TypesAssumption DEF DoneInv, Replacing, TypeOK
  <2>3. \A f \in Entities : \A b \in stored'[f] : HasChunks(b.ver)
    BY <2>1, <2>2 DEF DoneInv, TypeOK
  <2>4. \A f \in Entities \ {e} : stored'[f] = stored[f]
    BY <2>1 DEF TypeOK
  <2>5. CASE HasChunks(version[Loop])
    <3>1. pc'[Loop] = "upsert" /\ UNCHANGED <<known, current>>
      BY <1>0, <1>9, <2>5 DEF DeleteOld, Goto, TypeOK
    <3> QED BY <2>1, <2>2, <2>3, <2>4, <3>1 DEF DoneInv, Looking, Replacing, Wanted
  <2>6. CASE ~HasChunks(version[Loop])
    <3>1. pc'[Loop] = "diff" /\ known' = [known EXCEPT ![Loop][e] = Fingerprint(version[Loop])]
      BY <1>0, <1>9, <2>6 DEF DeleteOld, AfterReplace, Goto, TypeOK
    <3>2. known'[Loop][e] \in BlankTexts /\ \A f \in Entities \ {e} : known'[Loop][f] = known[Loop][f]
      BY <1>0, <2>2, <2>6, <3>1 DEF HasChunks, TypeOK
    <3>3. \A f \in Entities : stored'[f] = {} => known'[Loop][f] \in BlankTexts \cup {NoText}
      BY <2>1, <2>4, <3>2 DEF DoneInv
    <3>4. \A f \in Entities : TypeOf[f] < stage'[Loop] => known'[Loop][f] = Wanted(f)'
      BY <2>1, <2>2, <3>2 DEF DoneInv, Looking, Wanted
    <3> QED BY <2>3, <3>1, <3>3, <3>4 DEF DoneInv, Replacing
  <2> QED BY <2>5, <2>6
<1>10. CASE Upsert(Loop)
  <2> DEFINE e == current[Loop]
             v == version[Loop]
  <2>1. pc[Loop] = "upsert"
        /\ stored' = [stored EXCEPT ![e] = @ \cup {[by |-> Loop, ver |-> v]}]
    BY <1>10 DEF Upsert
  <2>2. /\ pc'[Loop] = "diff" /\ UNCHANGED <<fetched, stage>>
        /\ known' = [known EXCEPT ![Loop][e] = Fingerprint(v)]
    BY <1>0, <1>10 DEF Upsert, AfterReplace, Goto, TypeOK
  <2>3. e \in Entities /\ HasChunks(v) /\ TypeOf[e] = stage[Loop] /\ stage[Loop] \in Nat
    BY <1>0, <2>1, TypesAssumption DEF DoneInv, Replacing, TypeOK
  <2>4. stored'[e] # {} /\ \A f \in Entities \ {e} : stored'[f] = stored[f]
    BY <2>1, <2>3 DEF TypeOK
  <2>5. \A f \in Entities \ {e} : known'[Loop][f] = known[Loop][f]
    BY <1>0, <2>2, <2>3 DEF TypeOK
  <2>6. \A f \in Entities : \A b \in stored'[f] : HasChunks(b.ver)
    BY <2>1, <2>3, <2>4 DEF DoneInv, TypeOK
  <2>7. \A f \in Entities : stored'[f] = {} => known'[Loop][f] \in BlankTexts \cup {NoText}
    BY <2>1, <2>4, <2>5 DEF DoneInv
  <2>8. \A f \in Entities : TypeOf[f] < stage'[Loop] => known'[Loop][f] = Wanted(f)'
    BY <2>1, <2>2, <2>3, <2>5 DEF DoneInv, Looking, Wanted
  <2> QED BY <2>2, <2>6, <2>7, <2>8 DEF DoneInv, Replacing
<1>11. CASE Crash
  BY <1>0, <1>11, DoneEnds DEF Crash
<1>12. CASE UNCHANGED vars
  BY <1>12 DEF DoneInv, Looking, Replacing, Wanted
<1> QED
  BY <1>0, <1>1, <1>2, <1>3, <1>4, <1>5, <1>6, <1>7, <1>8, <1>9, <1>10, <1>11, <1>12
     DEF LoopStep, SyncStep

\* A loop that has been the only writer so far, once through its last content type, has
\* made the index show what it read: the diff by fingerprints of sync_content_type
\* skips nothing that is missing and leaves nothing that is gone.
THEOREM SyncedAsReadHolds == Spec => []SyncedAsRead
<1>1. TypeOK /\ SoleWriterInv /\ (~shared => DoneInv) => SyncedAsRead
  <2> SUFFICES ASSUME TypeOK, AloneInv, DoneInv, pc[Loop] = "diff", stage[Loop] = NTypes,
                      Changed(Loop) = {}, Gone(Loop) = {}, NEW e \in Entities
               PROVE  Shows(e, fetched[Loop][e])
    BY DEF SyncedAsRead, SoleWriterInv
  <2>1. TypeOf[e] <= stage[Loop]
    BY TypesAssumption
  <2>2. known[Loop][e] = Wanted(e)
    BY <2>1, TypeDone
  <2>3. \A b \in stored[e] :
           known[Loop][e] = Fingerprint(b.ver) /\ HasChunks(b.ver) /\ Fingerprint(b.ver) \in Texts
    BY DEF AloneInv, DoneInv, TypeOK, Batches, Versions, Fingerprint
  <2>4. stored[e] = {} => known[Loop][e] \in BlankTexts \cup {NoText}
    BY DEF DoneInv
  <2>5. fetched[Loop][e] # Absent => Fingerprint(fetched[Loop][e]) \in Texts
    BY DEF TypeOK, Contents, Versions, Fingerprint
  <2> QED BY <2>2, <2>3, <2>4, <2>5, TextsAssumption DEF Wanted, Shows, HasChunks
<1>2. Spec => []SoleWriterInv
  <2>1. Init => SoleWriterInv
    BY AloneStarts DEF SoleWriterInv
  <2> QED
    BY <2>1, SoleWriterStep, EntityTypeCorrect, OneBatchPerWriterHolds, PTL DEF Spec
<1>3. Spec => [](~shared => DoneInv)
  <2>1. Init => (~shared => DoneInv)
    BY DoneStarts
  <2>2. TypeOK /\ TypeOK' /\ SoleWriterInv /\ (~shared => DoneInv) /\ [Next]_vars
           => (~shared => DoneInv)'
    <3> SUFFICES ASSUME TypeOK, TypeOK', SoleWriterInv, ~shared => DoneInv, [Next]_vars, ~shared'
                 PROVE  DoneInv'
      BY Zenon
    <3> QED BY SharedStays, OnlyTheLoop, DoneStep DEF SoleWriterInv
  <2> QED BY <1>2, <2>1, <2>2, EntityTypeCorrect, PTL DEF Spec
<1> QED
  BY <1>1, <1>2, <1>3, EntityTypeCorrect, PTL
================================================================================
