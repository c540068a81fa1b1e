----------------------------- MODULE CaptureMatch -----------------------------
(***************************************************************************)
(* What an enrichment finds for a capture (rag/enrichment.py): a course,   *)
(* directly or by way of notes and sessions that have one, and related     *)
(* notes, both from one vector and beside each other; then the capture is  *)
(* stored, under the course it was given.  StudyLife may ask once more,    *)
(* when the capture is in the index and among what is found.  How the      *)
(* storing races with the sync is EntitySync's.  Lists are sets here: the  *)
(* order of what a search finds is that of the similarities.               *)
(***************************************************************************)
EXTENDS Ranking

CONSTANTS
    Courses, NoCourse,
    NotePassages, SessionPassages,  \* the points, those of the capture among the notes'
    EntityOf,                       \* the note or session a passage is of
    Captured,                       \* the capture's note
    NotStored,                      \* its course while the index does not have it
    Filings,                        \* the others' courses
    Weights,                        \* similarities to the capture, all different
    Threshold,                      \* capture_course_match_threshold
    FallbackPool, RelatedPool, MaxRelated


Passages == NotePassages \union SessionPassages
Others == {EntityOf[p] : p \in NotePassages} \ {Captured}
Filed == {EntityOf[p] : p \in Passages} \ {Captured}

ASSUME PoolsAssumption ==
    /\ FallbackPool \in Nat /\ RelatedPool \in Nat /\ MaxRelated \in Nat /\ Threshold \in Int
    /\ IsFiniteSet(NotePassages) /\ IsFiniteSet(SessionPassages)
ASSUME CoursesAssumption ==
    NoCourse \notin Courses /\ NotStored \notin Courses \union {NoCourse}
\* A capture is a note.
ASSUME CaptureAssumption == \A p \in SessionPassages : EntityOf[p] # Captured
ASSUME FilingsAssumption == Filings \subseteq [Filed -> Courses \union {NoCourse}]
ASSUME WeightsAssumption ==
    /\ Weights # {} /\ Weights \subseteq [Courses \union Passages -> Int]
    /\ \A w \in Weights : \A x, y \in Courses \union Passages : w[x] = w[y] => x = y

VARIABLES
    matching,   \* idle, asked, direct, notes, sessions, matched, answered
    relating,   \* idle, searching, related
    active,     \* active_course_ids
    weight,
    courseOf,   \* of each note and session
    match, related,
    clean,      \* history: has every search of this run answered?
    crowded,    \* history: was the capture itself all that the notes' pool held?
    retried,    \* history: is this the second run?
    first       \* history: what the first one found

captureVars ==
    <<matching, relating, active, weight, courseOf, match, related, clean, crowded, retried, first>>

Finding == [active : SUBSET Courses, match : Courses \union {NoCourse},
            related : SUBSET Others, clean : BOOLEAN]
NothingFound == [active |-> {}, match |-> NoCourse, related |-> {}, clean |-> FALSE]

CaptureTypeOK ==
    /\ matching \in {"idle", "asked", "direct", "notes", "sessions", "matched", "answered"}
    /\ relating \in {"idle", "searching", "related"}
    /\ active \subseteq Courses /\ weight \in Weights
    /\ courseOf \in [Filed \union {Captured} -> Courses \union {NoCourse, NotStored}]
    /\ match \in Courses \union {NoCourse} /\ related \subseteq Others
    /\ clean \in BOOLEAN /\ crowded \in BOOLEAN /\ retried \in BOOLEAN
    /\ first \in Finding

AnyWeight == CHOOSE w \in Weights : TRUE
Unfiled == [e \in Filed \union {Captured} |-> IF e = Captured THEN NotStored ELSE NoCourse]

CaptureInit ==
    /\ matching = "idle" /\ relating = "idle"
    /\ active = {} /\ weight = AnyWeight /\ courseOf = Unfiled
    /\ match = NoCourse /\ related = {}
    /\ clean = TRUE /\ crowded = FALSE
    /\ retried = FALSE /\ first = NothingFound

--------------------------------------------------------------------------------
\* QdrantStore.search, and the first of what it found.
Nearest(points, n) == Best(points, weight, n)
Foremost(points) == {p \in points : Ahead(points, weight, p) = {}}

Own(p) == EntityOf[p] = Captured
\* What the index has; what it has under one of the active courses.
Stored(points) == {p \in points : courseOf[EntityOf[p]] # NotStored}
OfActive(points) == {p \in points : courseOf[EntityOf[p]] \in active}

\* Whatever there was of the call is gone with its end.
DropCapture ==
    /\ matching' = "idle" /\ relating' = "idle"
    /\ active' = {} /\ weight' = AnyWeight /\ courseOf' = Unfiled
    /\ match' = NoCourse /\ related' = {}
    /\ clean' = TRUE /\ crowded' = FALSE
    /\ retried' = FALSE /\ first' = NothingFound

AskCapture(a, w, c) ==
    /\ matching = "idle"
    /\ matching' = "asked"
    /\ active' = a /\ weight' = w
    /\ courseOf' = [e \in Filed \union {Captured} |-> IF e = Captured THEN NotStored ELSE c[e]]
    /\ UNCHANGED <<relating, match, related, clean, crowded, retried, first>>

\* _embed_content: one vector for both searches, or none for either.
EmbedCapture ==
    /\ matching = "asked" /\ relating = "idle"
    /\ \/ matching' = "direct" /\ relating' = "searching" /\ UNCHANGED clean
       \/ matching' = "matched" /\ relating' = "related" /\ clean' = FALSE
    /\ UNCHANGED <<active, weight, courseOf, match, related, crowded, retried, first>>

Matched(m) == matching' = "matched" /\ match' = m

\* _best_direct_course_match and the threshold it has to clear.
Direct == {c \in Foremost(active) : weight[c] >= Threshold}

MatchDirect ==
    /\ matching = "direct"
    /\ \/ \E c \in Direct : Matched(c)
       \/ Direct = {} /\ matching' = "notes" /\ UNCHANGED match
    /\ UNCHANGED <<relating, active, weight, courseOf, related, clean, crowded, retried, first>>

\* Mutant: the capture is a note like any other.
InheritableAll(points) ==
    {p \in Nearest(OfActive(points), FallbackPool) : weight[p] >= Threshold}

\* What the search for notes or for sessions found that a course can be taken from.
Inheritable(points) ==
    {p \in Nearest(OfActive(points), FallbackPool) : ~Own(p) /\ weight[p] >= Threshold}

\* The course of the first one.
Inherited(points) == {courseOf[EntityOf[p]] : p \in Foremost(Inheritable(points))}

OwnPool ==
    LET pool == Nearest(OfActive(NotePassages), FallbackPool)
    IN  pool # {} /\ \A p \in pool : Own(p)

MatchNotes ==
    /\ matching = "notes"
    /\ \/ \E c \in Inherited(NotePassages) : Matched(c)
       \/ Inherited(NotePassages) = {} /\ matching' = "sessions" /\ UNCHANGED match
    /\ crowded' = OwnPool
    /\ UNCHANGED <<relating, active, weight, courseOf, related, clean, retried, first>>

MatchSessions ==
    /\ matching = "sessions"
    /\ \/ \E c \in Inherited(SessionPassages) : Matched(c)
       \/ Inherited(SessionPassages) = {} /\ Matched(NoCourse)
    /\ UNCHANGED <<relating, active, weight, courseOf, related, clean, crowded, retried, first>>

\* One of the searches raises: the capture stays unassigned.
MatchFails ==
    /\ matching \in {"direct", "notes", "sessions"}
    /\ Matched(NoCourse) /\ clean' = FALSE
    /\ UNCHANGED <<relating, active, weight, courseOf, related, crowded, retried, first>>

RelatedCandidates == Nearest(Stored(NotePassages), RelatedPool)

\* Of a note that several passages were found of, the best one counts.
Before(points, m, n) ==
    \E p \in points : EntityOf[p] = m /\ \A q \in points : EntityOf[q] = n => weight[p] > weight[q]

\* The first distinct notes of a pool.
FirstNotes(points, but) ==
    LET found == {EntityOf[p] : p \in points} \ but
    IN  {n \in found : Cardinality({m \in found : Before(points, m, n)}) < MaxRelated}

\* Mutant: the capture is left out only once the list is cut.
FindRelatedUnseen ==
    /\ relating = "searching" /\ relating' = "related"
    /\ related' = FirstNotes(RelatedCandidates, {}) \ {Captured}
    /\ UNCHANGED <<matching, active, weight, courseOf, match, clean, crowded, retried, first>>

\* _find_related_notes.
FindRelated ==
    /\ relating = "searching" /\ relating' = "related"
    /\ related' = FirstNotes(RelatedCandidates, {Captured})
    /\ UNCHANGED <<matching, active, weight, courseOf, match, clean, crowded, retried, first>>

RelatedFails ==
    /\ relating = "searching" /\ relating' = "related"
    /\ clean' = FALSE
    /\ UNCHANGED <<matching, active, weight, courseOf, match, related, crowded, retried, first>>

\* _ingest_note: the capture is stored, or not, or between its delete and its upsert.
IngestCapture(c) ==
    /\ matching = "matched" /\ relating = "related"
    /\ c \in {match, NotStored, courseOf[Captured]}
    /\ matching' = "answered" /\ relating' = "idle"
    /\ courseOf' = [courseOf EXCEPT ![Captured] = c]
    /\ UNCHANGED <<active, weight, match, related, clean, crowded, retried, first>>

\* StudyLife asks again (bound: once).  By then the sync may have stored the capture
\* under the course its user chose, and other courses may be active.
RetryCapture(a, c) ==
    /\ matching = "answered" /\ ~retried
    /\ matching' = "asked" /\ retried' = TRUE
    /\ first' = [active |-> active, match |-> match, related |-> related, clean |-> clean]
    /\ active' = a /\ courseOf' = [courseOf EXCEPT ![Captured] = c]
    /\ match' = NoCourse /\ related' = {} /\ clean' = TRUE /\ crowded' = FALSE
    /\ UNCHANGED <<relating, weight>>

CaptureNext ==
    \/ \E a \in SUBSET Courses : \E w \in Weights, c \in Filings : AskCapture(a, w, c)
    \/ EmbedCapture \/ MatchDirect \/ MatchNotes \/ MatchSessions \/ MatchFails
    \/ FindRelated \/ RelatedFails
    \/ \E c \in Courses \union {NoCourse, NotStored} : IngestCapture(c)
    \/ \E a \in SUBSET Courses, c \in Courses \union {NoCourse, courseOf[Captured]} : RetryCapture(a, c)
    \/ DropCapture

CaptureSpec == CaptureInit /\ [][CaptureNext]_captureVars

--------------------------------------------------------------------------------
(***************************************************************************)
(* A capture is given a course on evidence other than itself: the course   *)
(* is active, and it or something the user has filed under it resembles    *)
(* the capture, whatever an earlier run or the sync stored the capture     *)
(* under (_match_course).                                                  *)
(***************************************************************************)
MatchHasEvidence ==
    match # NoCourse =>
        /\ match \in active
        /\ \/ weight[match] >= Threshold
           \/ \E p \in Passages : ~Own(p) /\ courseOf[EntityOf[p]] = match /\ weight[p] >= Threshold

(***************************************************************************)
(* Asked again with the same courses active, an enrichment comes to the    *)
(* same result although the capture is now in the index: the same course,  *)
(* unless the capture alone filled the pool, and the same related notes,   *)
(* less the ones whose places in the pool the capture took                 *)
(* (enrich_capture).                                                       *)
(***************************************************************************)
RetryAgrees ==
    /\ retried /\ matching = "matched" /\ relating = "related"
    /\ first.clean /\ clean /\ active = first.active
    =>
        /\ match = first.match \/ crowded
        /\ related \subseteq first.related
        /\ \A n \in first.related \ related : \A p \in RelatedCandidates : EntityOf[p] # n
================================================================================
