------------------------------ MODULE SearchIndex ------------------------------
(***************************************************************************)
(* What a search may find of each entity as long as the periodic sync is   *)
(* the only writer: a copy of StudyLife that is as old as the sync.  How   *)
(* the sync knows what is out of date, where it stops and how often it     *)
(* starts again is not to be seen.                                         *)
(***************************************************************************)
CONSTANTS Entities, Texts, BlankTexts, Courses, Absent

Copies == [Entities -> (Texts \X Courses) \union {Absent}]
NoCopy == [e \in Entities |-> Absent]

VARIABLES
    content,  \* StudyLife
    syncing,
    copy,     \* what the sync has read
    found,    \* the versions of each entity that a search finds
    shared    \* has another writer been at work?

indexVars == <<content, syncing, copy, found, shared>>

IndexInit ==
    /\ content = NoCopy /\ copy = NoCopy
    /\ syncing = FALSE
    /\ found = [e \in Entities |-> {}]
    /\ shared = FALSE

Change == content' \in Copies /\ UNCHANGED <<syncing, copy, found, shared>>

Look == ~syncing /\ syncing' = TRUE /\ copy' = content /\ UNCHANGED <<content, found, shared>>

\* At the end, or anywhere before it.
Finish == syncing /\ syncing' = FALSE /\ copy' = NoCopy /\ UNCHANGED <<content, found, shared>>

\* What has the text that was read is not touched.
Withdraw(e) ==
    /\ syncing
    /\ \A v \in found[e] : copy[e] = Absent \/ copy[e][1] # v[1]
    /\ found' = [found EXCEPT ![e] = {}]
    /\ UNCHANGED <<content, syncing, copy, shared>>

\* Nothing is found twice.
Show(e) ==
    /\ syncing
    /\ found[e] = {} /\ copy[e] # Absent /\ copy[e][1] \notin BlankTexts
    /\ found' = [found EXCEPT ![e] = {copy[e]}]
    /\ UNCHANGED <<content, syncing, copy, shared>>

\* Nothing is promised any more.
Share == shared' = TRUE

IndexNext == Change \/ Look \/ Finish \/ Share \/ \E e \in Entities : Withdraw(e) \/ Show(e)

IndexSpec == IndexInit /\ [][IndexNext]_indexVars
================================================================================
