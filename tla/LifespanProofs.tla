----------------------------- MODULE LifespanProofs -----------------------------
(***************************************************************************)
(* The process, for any number of listeners, renewals, users, keys, tokens *)
(* and texts: first its chunking and its listeners on their own, then that *)
(* each step of the process is a step of each of its parts, so that what   *)
(* is proved of a part holds in the process.                               *)
(***************************************************************************)
EXTENDS Lifespan, SecretRotationProofs, SearchProofs

--------------------------------------------------------------------------------
\* The chunks.  How far a sequence of chunks reaches.
ReachOf(s) == IF s = <<>> THEN 0 ELSE s[Len(s)].to

ReachBefore(s, i) == IF i = 1 THEN 0 ELSE s[i - 1].to

\* A finished chunk, beside the one before it.
Sound(s, i) ==
    /\ s[i].from <= ReachBefore(s, i) /\ ReachBefore(s, i) < s[i].to
    /\ s[i].to - s[i].from <= ChunkSize + ChunkOverlap
    /\ ReachBefore(s, i) - s[i].from <= ChunkOverlap

AllSound(s) == \A i \in 1 .. Len(s) : Sound(s, i)

Reach == ReachOf(chunks)

\* The chunk being filled would be sound as well, once it has a new piece.
Filling ==
    /\ start \in cuts /\ start <= end /\ \A c \in cuts : c <= end
    /\ start <= Reach /\ Reach <= end
    /\ end - start <= ChunkSize + ChunkOverlap
    /\ chunking => Reach - start <= ChunkOverlap /\ (Reach < end \/ end = 0)

Covered == ~chunking => \A e \in sentenceEnds : e <= Reach

Untouched == sentenceEnds = {} => chunks = <<>> /\ end = 0

ChunkInv ==
    /\ ChunkTypeOK
    /\ AllSound(chunks)
    /\ Filling /\ Covered /\ Untouched

USE ChunkingAssumption DEF ChunkingAssumption, Position

--------------------------------------------------------------------------------
LEMMA Added ==
    ASSUME NEW a \in Int, NEW b \in Int, NEW c \in Int, NEW m \in Int, NEW n \in Int,
           a - b <= m, b - c <= n
    PROVE  a - c <= m + n
  OBVIOUS

LEMMA StretchTyped ==
    ASSUME NEW c \in Stretch PROVE c.from \in Nat /\ c.to \in Nat
  BY DEF Stretch

LEMMA ReachTyped ==
    ASSUME NEW s \in Seq(Stretch) PROVE ReachOf(s) \in Nat
<1>1. CASE s = <<>>
  BY <1>1 DEF ReachOf
<1>2. CASE s # <<>>
  <2>1. Len(s) \in 1 .. Len(s)
    BY <1>2
  <2>2. s[Len(s)] \in Stretch
    BY <2>1
  <2>3. s[Len(s)].to \in Nat
    BY <2>2, StretchTyped
  <2> QED BY <1>2, <2>3 DEF ReachOf
<1> QED BY <1>1, <1>2

\* A chunk that is sound beside the last one may be added to sound chunks.
LEMMA OneMoreChunk ==
    ASSUME NEW s \in Seq(Stretch), AllSound(s), NEW c \in Stretch,
           c.from <= ReachOf(s), ReachOf(s) < c.to, ReachOf(s) - c.from <= ChunkOverlap,
           c.to - c.from <= ChunkSize + ChunkOverlap
    PROVE  /\ Append(s, c) \in Seq(Stretch) /\ Append(s, c) # <<>>
           /\ ReachOf(Append(s, c)) = c.to
           /\ AllSound(Append(s, c))
<1> DEFINE t == Append(s, c)
<1>1. /\ t \in Seq(Stretch) /\ Len(t) = Len(s) + 1 /\ Len(s) \in Nat
      /\ t[Len(s) + 1] = c /\ \A i \in 1 .. Len(s) : t[i] = s[i]
  OBVIOUS
<1> HIDE DEF t
<1>2. t # <<>> /\ ReachOf(t) = c.to
  BY <1>1 DEF ReachOf
<1>3. ASSUME NEW i \in 1 .. Len(s) PROVE Sound(t, i)
  <2>1. Sound(s, i) /\ t[i] = s[i]
    BY <1>1 DEF AllSound
  <2>2. i # 1 => i - 1 \in 1 .. Len(s)
    BY <1>1
  <2>3. ReachBefore(t, i) = ReachBefore(s, i)
    BY <1>1, <2>2 DEF ReachBefore
  <2> QED BY <2>1, <2>3 DEF Sound
<1>4. Sound(t, Len(s) + 1)
  <2>1. ReachBefore(t, Len(s) + 1) = ReachOf(s)
    <3>1. CASE s = <<>>
      BY <3>1 DEF ReachBefore, ReachOf
    <3>2. CASE s # <<>>
      <4>1. Len(s) \in 1 .. Len(s) /\ Len(s) + 1 # 1 /\ Len(s) + 1 - 1 = Len(s)
        BY <1>1, <3>2
      <4>2. t[Len(s)] = s[Len(s)]
        BY <1>1, <4>1
      <4> QED BY <3>2, <4>1, <4>2 DEF ReachBefore, ReachOf
    <3> QED BY <3>1, <3>2
  <2> QED BY <1>1, <2>1 DEF Sound
<1>5. AllSound(t)
  BY <1>1, <1>3, <1>4 DEF AllSound
<1> QED
  BY <1>1, <1>2, <1>5 DEF t

\* What a flush does to the chunks: one more, which reaches to the present end.
LEMMA FlushedSound ==
    ASSUME ChunkInv, chunking, start # end, chunks' = Flushed
    PROVE  /\ chunks' \in Seq(Stretch) /\ chunks' # <<>>
           /\ Reach' = end /\ AllSound(chunks')
<1> DEFINE c == [from |-> start, to |-> end]
<1>1. c \in Stretch /\ c.from = start /\ c.to = end /\ chunks \in Seq(Stretch) /\ AllSound(chunks)
  BY DEF ChunkInv, ChunkTypeOK, Stretch
<1>2. /\ c.from <= Reach /\ Reach < c.to /\ Reach - c.from <= ChunkOverlap
      /\ c.to - c.from <= ChunkSize + ChunkOverlap
  BY <1>1 DEF ChunkInv, ChunkTypeOK, Filling
<1>3. chunks' = Append(chunks, c)
  BY DEF Flushed
<1> HIDE DEF c
<1> QED
  BY <1>1, <1>2, <1>3, OneMoreChunk DEF Reach

\* The next piece lies behind the end and is no longer than a chunk.
LEMMA PieceFits ==
    ASSUME ChunkTypeOK, NEW p \in Position, PieceEnds(p)
    PROVE  end < p /\ p - end <= ChunkSize /\ sentenceEnds # {}
  BY DEF ChunkTypeOK, PieceEnds, Rest

LEMMA NothingYet == ReachOf(<<>>) = 0 /\ AllSound(<<>>) /\ <<>> \in Seq(Stretch)
  BY DEF ReachOf, AllSound

LEMMA SameReach ==
    ASSUME chunks' = chunks PROVE Reach' = Reach
  BY DEF Reach

LEMMA ChunkInductive == ChunkSpec => []ChunkInv
<1>1. ChunkInit => ChunkInv
  <2> SUFFICES ASSUME ChunkInit PROVE ChunkInv
    OBVIOUS
  <2>1. Reach = 0 /\ AllSound(chunks)
    BY NothingYet DEF ChunkInit, Reach
  <2>2. ChunkTypeOK /\ ~chunking
    <3>1. ~chunking /\ chunking \in BOOLEAN
      BY DEF ChunkInit
    <3> QED BY <3>1, NothingYet DEF ChunkInit, ChunkTypeOK
  <2>3. Filling
    BY <2>1, <2>2 DEF ChunkInit, Filling
  <2> QED BY <2>1, <2>2, <2>3 DEF ChunkInit, ChunkInv, Covered, Untouched
<1>2. ChunkInv /\ [ChunkNext]_chunkVars => ChunkInv'
  <2> SUFFICES ASSUME ChunkInv, [ChunkNext]_chunkVars PROVE ChunkInv'
    OBVIOUS
  <2>0. ChunkTypeOK /\ Reach \in Nat
    BY ReachTyped DEF ChunkInv, ChunkTypeOK, Reach
  <2>1. ASSUME NEW ends \in SUBSET (1 .. MaxLength), NEW within \in SUBSET (1 .. MaxLength),
               ~chunking, sentenceEnds = {}, StartText(ends, within)
        PROVE  ChunkInv'
    <3>1. chunks = <<>> /\ end = 0
      BY <2>1 DEF ChunkInv, Untouched
    <3> QED BY <2>0, <2>1, <3>1, SameReach
            DEF StartText, ChunkInv, ChunkTypeOK, Filling, Covered, Untouched
  <2>2. ASSUME NEW p \in Position, AddPiece(p) PROVE ChunkInv'
    <3>1. end < p /\ p - end <= ChunkSize /\ sentenceEnds # {}
      BY <2>0, <2>2, PieceFits DEF AddPiece
    <3>2. ChunkTypeOK'
      BY <2>0, <2>2 DEF AddPiece, ChunkTypeOK
    <3>3. Filling'
      BY <2>0, <2>2, <3>1, SameReach DEF AddPiece, ChunkInv, ChunkTypeOK, Filling
    <3> QED BY <2>2, <3>1, <3>2, <3>3, SameReach DEF AddPiece, ChunkInv, Covered, Untouched
  <2>3. ASSUME NEW p \in Position, FlushChunk(p) PROVE ChunkInv'
    <3>1. end < p /\ p - end <= ChunkSize /\ sentenceEnds # {}
      BY <2>0, <2>3, PieceFits DEF FlushChunk
    <3>2. /\ chunks' \in Seq(Stretch) /\ Reach' = end
          /\ AllSound(chunks')
      BY <2>3, FlushedSound DEF FlushChunk
    <3>3. start' \in cuts /\ end - start' <= ChunkOverlap
      BY <2>3 DEF FlushChunk, Carried
    <3>4. start' <= end
      <4>1. \A c \in cuts : c <= end
        BY DEF ChunkInv, Filling
      <4> QED BY <3>3, <4>1
    <3>5. ChunkTypeOK'
      BY <2>0, <2>3, <3>2, <3>3 DEF FlushChunk, ChunkTypeOK
    <3>6. end' = p /\ cuts' = cuts \union {p} /\ end \in Nat /\ start' \in Nat
      BY <2>0, <2>3, <3>3 DEF FlushChunk, ChunkTypeOK
    <3>7. \A c \in cuts' : c <= p
      BY <2>0, <3>1, <3>6 DEF ChunkInv, ChunkTypeOK, Filling
    <3>8. Filling'
      <4>1. start' \in cuts' /\ start' <= end' /\ start' <= Reach' /\ Reach' <= end'
        BY <3>1, <3>2, <3>3, <3>4, <3>6
      <4>2. end' - start' <= ChunkSize + ChunkOverlap
        <5>1. p \in Int /\ end \in Int /\ start' \in Int /\ ChunkSize \in Int /\ ChunkOverlap \in Int
          BY <3>6
        <5>2. p - start' <= ChunkSize + ChunkOverlap
          BY <3>1, <3>3, <5>1, Added
        <5> QED BY <3>6, <5>2
      <4>3. Reach' - start' <= ChunkOverlap /\ Reach' < end'
        BY <3>1, <3>2, <3>3, <3>6
      <4> QED BY <3>6, <3>7, <4>1, <4>2, <4>3 DEF Filling
    <3> QED BY <2>3, <3>1, <3>2, <3>5, <3>8 DEF FlushChunk, ChunkInv, Covered, Untouched
  <2>4. CASE EndText
    <3>1. \A e \in sentenceEnds : e <= end
      BY <2>0, <2>4 DEF EndText, Rest, ChunkTypeOK
    <3>2. CASE start # end
      <4>1. /\ chunks' \in Seq(Stretch) /\ chunks' # <<>>
            /\ Reach' = end /\ AllSound(chunks')
        BY <2>4, <3>2, FlushedSound DEF EndText
      <4>2. end # 0
        BY <2>0, <3>2 DEF ChunkTypeOK, ChunkInv, Filling
      <4>3. sentenceEnds # {}
        BY <4>2 DEF ChunkInv, Untouched
      <4>4. ChunkTypeOK' /\ ~chunking'
        BY <2>0, <2>4, <4>1 DEF EndText, ChunkTypeOK
      <4>5. Filling'
        BY <2>0, <2>4, <4>1, <4>4 DEF EndText, ChunkTypeOK, ChunkInv, Filling
      <4> QED BY <2>4, <3>1, <4>1, <4>3, <4>4, <4>5 DEF EndText, ChunkInv, Covered, Untouched
    <3>3. CASE start = end
      <4>1. end = 0
        BY <2>0, <2>4, <3>3 DEF EndText, ChunkTypeOK, ChunkInv, Filling
      <4>2. sentenceEnds = {}
        BY <2>0, <3>1, <4>1 DEF ChunkTypeOK
      <4>3. chunks' = chunks /\ Reach' = Reach
        BY <2>4, <3>3, SameReach DEF EndText
      <4> QED BY <2>0, <2>4, <4>1, <4>2, <4>3
              DEF EndText, ChunkInv, ChunkTypeOK, Filling, Covered, Untouched
    <3> QED BY <3>2, <3>3
  <2>5. CASE DropText
    <3>1. Reach' = 0 /\ AllSound(chunks')
      BY <2>5, NothingYet DEF DropText, Reach
    <3>2. ChunkTypeOK' /\ ~chunking'
      <4>1. ~chunking' /\ chunking' \in BOOLEAN
        BY <2>5 DEF DropText
      <4> QED BY <2>5, <4>1, NothingYet DEF DropText, ChunkTypeOK
    <3>3. Filling'
      BY <2>5, <3>1, <3>2 DEF DropText, Filling
    <3> QED BY <2>5, <3>1, <3>2, <3>3 DEF DropText, ChunkInv, Covered, Untouched
  <2>6. CASE UNCHANGED chunkVars
    BY <2>0, <2>6, SameReach
       DEF chunkVars, ChunkInv, ChunkTypeOK, Filling, Covered, Untouched
  <2> QED BY <2>1, <2>2, <2>3, <2>4, <2>5, <2>6 DEF ChunkNext
<1> QED BY <1>1, <1>2, PTL DEF ChunkSpec

--------------------------------------------------------------------------------
(***************************************************************************)
(* Where pieces are cut: at the text's beginning, at the end of a sentence *)
(* or within one that is too long for a chunk, and nowhere else.           *)
(***************************************************************************)
InsideLong(c) == \E a, e \in sentenceEnds \union {0} : TooLong(a, e) /\ a < c /\ c < e

CutsLawful == end \in cuts /\ \A c \in cuts : c = 0 \/ c \in sentenceEnds \/ InsideLong(c)

\* The next piece ends with its sentence or within one that is too long.
LEMMA PieceLawful ==
    ASSUME ChunkTypeOK, CutsLawful, NEW p \in Position, PieceEnds(p)
    PROVE  p \in sentenceEnds \/ InsideLong(p)
<1>1. PICK e \in sentenceEnds : /\ e > end /\ \A f \in sentenceEnds : f > end => e <= f
                               /\ p = IF e - end > ChunkSize THEN end + ChunkSize ELSE e
  BY DEF PieceEnds, Rest
<1>2. /\ sentenceEnds \subseteq Nat \ {0} /\ end \in Nat /\ e \in Nat /\ ChunkSize \in Nat \ {0}
  BY DEF ChunkTypeOK
<1>3. CASE e - end > ChunkSize
  <2>1. p = end + ChunkSize /\ end < p /\ p < e
    BY <1>1, <1>2, <1>3
  <2>2. CASE end = 0 \/ end \in sentenceEnds
    <3>1. TooLong(end, e)
      BY <1>1, <1>2, <1>3, <2>2 DEF TooLong
    <3> QED BY <2>1, <2>2, <3>1 DEF InsideLong
  <2>3. CASE InsideLong(end)
    <3>1. PICK a \in sentenceEnds \union {0}, g \in sentenceEnds :
             TooLong(a, g) /\ a < end /\ end < g
      BY <2>3 DEF InsideLong, TooLong
    <3>2. g = e
      BY <1>1, <1>2, <3>1 DEF TooLong
    <3> QED BY <1>1, <1>2, <2>1, <3>1, <3>2 DEF InsideLong
  <2> QED BY <2>2, <2>3 DEF CutsLawful
<1>4. CASE ~(e - end > ChunkSize)
  BY <1>1, <1>4
<1> QED BY <1>3, <1>4

LEMMA CutsInductive == ChunkSpec => []CutsLawful
<1>1. ChunkInit => CutsLawful
  BY DEF ChunkInit, CutsLawful
<1>2. ChunkInv /\ CutsLawful /\ [ChunkNext]_chunkVars => CutsLawful'
  <2> SUFFICES ASSUME ChunkInv, CutsLawful, [ChunkNext]_chunkVars PROVE CutsLawful'
    OBVIOUS
  <2>1. ASSUME NEW ends \in SUBSET (1 .. MaxLength), NEW within \in SUBSET (1 .. MaxLength),
               sentenceEnds = {}, StartText(ends, within)
        PROVE  CutsLawful'
    <3>1. \A c \in cuts : c = 0
      BY <2>1 DEF CutsLawful, InsideLong, TooLong
    <3> QED BY <2>1, <3>1 DEF StartText, CutsLawful
  <2>2. ASSUME NEW p \in Position, AddPiece(p) \/ FlushChunk(p) PROVE CutsLawful'
    <3>1. p \in sentenceEnds \/ InsideLong(p)
      BY <2>2, PieceLawful DEF AddPiece, FlushChunk, ChunkInv
    <3>2. end' = p /\ cuts' = cuts \union {p} /\ sentenceEnds' = sentenceEnds
      BY <2>2 DEF AddPiece, FlushChunk
    <3>3. \A c : InsideLong(c)' <=> InsideLong(c)
      BY <3>2 DEF InsideLong, TooLong
    <3> QED BY <3>1, <3>2, <3>3 DEF CutsLawful
  <2>3. CASE EndText \/ UNCHANGED chunkVars
    BY <2>3 DEF EndText, chunkVars, CutsLawful, InsideLong, TooLong
  <2>4. CASE DropText
    BY <2>4 DEF DropText, CutsLawful
  <2> QED BY <2>1, <2>2, <2>3, <2>4 DEF ChunkNext
<1> QED BY <1>1, <1>2, ChunkInductive, PTL DEF ChunkSpec

\* What a cut garbles lies in the sentence it was made in.
LEMMA GarbledWithin ==
    ASSUME ChunkTypeOK, CutsLawful, NEW t \in 1 .. MaxLength, Garbled(t)
    PROVE  \E a, e \in sentenceEnds \union {0} : TooLong(a, e) /\ a < t /\ t <= e
<1>1. PICK c \in cuts : IF c < t THEN c .. t - 1 \subseteq inside ELSE t .. c \subseteq inside
  BY DEF Garbled
<1>2. /\ c \in Nat /\ t \in Nat /\ sentenceEnds \subseteq Nat /\ inside \subseteq Nat \ {0}
      /\ inside \cap sentenceEnds = {}
  BY DEF ChunkTypeOK
<1>3. c \in inside
  BY <1>1, <1>2
<1>4. PICK a \in sentenceEnds \union {0}, e \in sentenceEnds \union {0} :
         TooLong(a, e) /\ a < c /\ c < e
  BY <1>2, <1>3 DEF CutsLawful, InsideLong
<1>5. a \notin inside /\ e \notin inside /\ a \in Nat /\ e \in Nat
  BY <1>2, <1>4
<1>6. a < t /\ t <= e
  <2>1. CASE c < t
    <3>1. ~(e \in c .. t - 1)
      BY <1>1, <1>5, <2>1
    <3> QED BY <1>2, <1>4, <1>5, <2>1, <3>1
  <2>2. CASE ~(c < t)
    <3>1. ~(a \in t .. c)
      BY <1>1, <1>5, <2>2
    <3> QED BY <1>2, <1>4, <1>5, <2>2, <3>1
  <2> QED BY <2>1, <2>2
<1> QED BY <1>4, <1>6

--------------------------------------------------------------------------------
\* Every variable of the loop stays in its set, whatever the text (chunk_text).
THEOREM ChunkTypeCorrect == ChunkSpec => []ChunkTypeOK
<1>1. ChunkInv => ChunkTypeOK
  BY DEF ChunkInv
<1> QED BY <1>1, ChunkInductive, PTL

\* For any size, overlap and text, and wherever its characters lie, nothing is skipped
\* between two chunks or behind the last, and only a sentence that is too long for a
\* chunk has characters garbled (chunk_text, _hard_split_by_tokens).
THEOREM NothingLostHolds == ChunkSpec => []NothingLost
<1>1. ChunkInv /\ CutsLawful => NothingLost
  <2> SUFFICES ASSUME ChunkInv, CutsLawful PROVE NothingLost
    OBVIOUS
  <2>1. ASSUME NEW e \in sentenceEnds, ~chunking PROVE chunks # <<>> /\ e <= chunks[Len(chunks)].to
    <3>1. e \in Nat \ {0} /\ e <= Reach
      BY <2>1 DEF ChunkInv, ChunkTypeOK, Covered
    <3>2. chunks # <<>>
      BY <3>1 DEF Reach, ReachOf
    <3> QED BY <3>1, <3>2 DEF Reach, ReachOf
  <2>2. ASSUME NEW t \in 1 .. MaxLength, Garbled(t)
        PROVE  \E a, e \in sentenceEnds \union {0} : TooLong(a, e) /\ a < t /\ t <= e
    BY <2>2, GarbledWithin DEF ChunkInv
  <2>3. \A i \in 1 .. Len(chunks) :
          LET before == IF i = 1 THEN 0 ELSE chunks[i - 1].to
          IN  chunks[i].from <= before /\ before < chunks[i].to
    BY DEF ChunkInv, AllSound, Sound, ReachBefore
  <2> QED BY <2>1, <2>2, <2>3 DEF NothingLost
<1> QED BY <1>1, ChunkInductive, CutsInductive, PTL

\* For any size, overlap and text, a chunk exceeds its size by no more than the
\* overlap, and repeats no more than that of the one before (_carry_overlap).
THEOREM WithinBudgetHolds == ChunkSpec => []WithinBudget
<1>1. ChunkInv => WithinBudget
  BY DEF ChunkInv, WithinBudget, Tokens, AllSound, Sound, ReachBefore
<1> QED BY <1>1, ChunkInductive, PTL

HIDE ChunkingAssumption DEF ChunkingAssumption, Position

--------------------------------------------------------------------------------
\* The listeners.  Current(p): fingerprint p is the newest pair's.
Newest == <<issued, issued>>

\* Where the lifespan is decides what it holds.
Shape ==
    /\ at \in {"build", "reload"} => turn \in Listeners
    /\ at \in {"down", "bind", "dead"} => seen = Missing
    /\ at \in {"asleep", "reload"} => last \in Pair
    /\ IF at = "reload" THEN current \in Pair ELSE current = Missing

\* Nobody has read a version that has not been issued, and who has read the
\* newest one has read what still is there.
Reads ==
    /\ swapped \/ polled => Complete
    /\ \A f \in {certFile, keyFile, seen} : f # Missing => f <= issued
    /\ \A p \in {last, current} : p \in Pair => p[1] <= issued /\ p[2] <= issued
    /\ seen = issued => certFile = issued
    /\ last = Newest \/ current = Newest => Complete

\* A start that finds the newest pair, and does not miss a later one, loads it.
Starts ==
    Complete /\ ~missed =>
        /\ at = "build" =>
              /\ \A l \in Listeners : l < turn => loaded[l] = issued
              /\ seen # Missing => seen = issued
        /\ at \in {"bind", "baseline"} => \A l \in Listeners : loaded[l] = issued

\* A poll that has seen the newest pair loads it, unless it has been loaded.
Polls ==
    /\ at = "baseline" /\ seen # Missing /\ polled => seen = issued
    /\ at = "asleep" /\ polled => last = Newest
    /\ at = "asleep" /\ seen # Missing /\ last = Newest => seen = issued
    /\ at = "asleep" /\ last = Newest /\ ~missed => \A l \in Listeners : loaded[l] = issued
    /\ at = "reload" => ~polled /\ last # Newest
    /\ at = "reload" /\ (swapped \/ current = Newest) /\ seen # Missing => seen = issued
    /\ at = "reload" /\ current = Newest => \A l \in Listeners : l < turn => loaded[l] = issued

\* Only a reload breaks a listener, and only what was not swapped in or not read.
Whole == \A l \in Listeners : loaded[l] # Broken

Breaks ==
    /\ at \in {"down", "build", "bind", "baseline", "dead"} => Whole
    /\ at = "asleep" /\ last = Newest => Whole
    /\ at \in {"asleep", "reload"} /\ swapped /\ ~unread => Whole

TlsInv == TlsTypeOK /\ Shape /\ Reads /\ Starts /\ Polls /\ Breaks

USE ListenersAssumption, VersionsAssumption
    DEF ListenersAssumption, VersionsAssumption, Listeners, Versions, Pair

\* TlsTypeOK in two parts.
Flags == swapped \in BOOLEAN /\ polled \in BOOLEAN /\ unread \in BOOLEAN /\ missed \in BOOLEAN

Values ==
    /\ certFile \in Versions \union {Missing} /\ keyFile \in Versions \union {Missing}
    /\ issued \in Versions /\ seen \in Versions \union {Missing}
    /\ at \in {"down", "build", "bind", "baseline", "asleep", "reload", "dead"}
    /\ turn \in 0 .. NListeners
    /\ loaded \in [Listeners -> Versions \union {Missing, Broken}]
    /\ last \in Pair \union {Missing} /\ current \in Pair \union {Missing}

LEMMA TlsStarts == TlsInit => TlsInv
<1> SUFFICES ASSUME TlsInit PROVE TlsInv
  OBVIOUS
<1>1. TlsTypeOK
  <2>1. Flags
    BY DEF TlsInit, Flags
  <2>2. Values
    BY DEF TlsInit, Unloaded, Values
  <2> QED BY <2>1, <2>2 DEF Flags, Values, TlsTypeOK
<1>2. Shape /\ Reads /\ Starts /\ Polls
  BY DEF TlsInit, Shape, Reads, Starts, Polls, Newest, Complete
<1>3. Breaks
  BY DEF TlsInit, Unloaded, Breaks, Whole
<1> QED BY <1>1, <1>2, <1>3 DEF TlsInv

LEMMA TlsStep == TlsInv /\ [TlsNext]_tlsVars => TlsInv'
<1> SUFFICES ASSUME TlsInv, [TlsNext]_tlsVars PROVE TlsInv'
  OBVIOUS
<1> USE DEF TlsInv, TlsTypeOK, Shape, Reads, Starts, Polls, Breaks, Whole, Newest, Complete,
            ByOwner, files
<1>1. CASE Swap
  <2>1. TlsTypeOK'
    <3> HIDE DEF Shape, Reads, Starts, Polls, Breaks
    <3>1. Flags'
      BY <1>1 DEF Swap, Issue, Unwatched, Flags
    <3>2. Values'
      BY <1>1 DEF Swap, Issue, Unwatched, Values
    <3> QED BY <3>1, <3>2 DEF Flags, Values
  <2>2. Shape'
    BY <1>1 DEF Swap, Issue, Unwatched
  <2>3. Reads'
    BY <1>1 DEF Swap, Issue, Unwatched
  <2>4. Starts'
    BY <1>1 DEF Swap, Issue, Unwatched
  <2>5. Polls'
    BY <1>1 DEF Swap, Issue, Unwatched
  <2>6. Breaks'
    BY <1>1 DEF Swap, Issue, Unwatched
  <2> HIDE DEF TlsTypeOK, Shape, Reads, Starts, Polls, Breaks
  <2> QED BY <2>1, <2>2, <2>3, <2>4, <2>5, <2>6
<1>2. CASE Rewrite
  <2>1. TlsTypeOK'
    <3> HIDE DEF Shape, Reads, Starts, Polls, Breaks
    <3>1. Flags'
      BY <1>2 DEF Rewrite, Issue, Flags
    <3>2. Values'
      BY <1>2 DEF Rewrite, Issue, Values
    <3> QED BY <3>1, <3>2 DEF Flags, Values
  <2>2. Shape'
    BY <1>2 DEF Rewrite, Issue
  <2>3. Reads'
    BY <1>2 DEF Rewrite, Issue
  <2>4. Starts'
    BY <1>2 DEF Rewrite, Issue
  <2>5. Polls'
    BY <1>2 DEF Rewrite, Issue
  <2>6. Breaks'
    BY <1>2 DEF Rewrite, Issue
  <2> HIDE DEF TlsTypeOK, Shape, Reads, Starts, Polls, Breaks
  <2> QED BY <2>1, <2>2, <2>3, <2>4, <2>5, <2>6
<1>3. CASE WriteCert
  <2>1. TlsTypeOK'
    BY <1>3 DEF WriteCert, FileWritten, Unwatched
  <2>2. Shape'
    BY <1>3 DEF WriteCert, FileWritten, Unwatched
  <2>3. Reads'
    BY <1>3 DEF WriteCert, FileWritten, Unwatched
  <2>4. Starts'
    <3>1. Complete' /\ ~missed' => ~Unwatched
      BY <1>3 DEF WriteCert, FileWritten
    <3> QED BY <1>3, <3>1 DEF WriteCert, FileWritten, Unwatched
  <2>5. Polls'
    BY <1>3 DEF WriteCert, FileWritten, Unwatched
  <2>6. Breaks'
    BY <1>3 DEF WriteCert, FileWritten, Unwatched
  <2> HIDE DEF TlsTypeOK, Shape, Reads, Starts, Polls, Breaks
  <2> QED BY <2>1, <2>2, <2>3, <2>4, <2>5, <2>6
<1>4. CASE WriteKey
  <2>1. TlsTypeOK'
    BY <1>4 DEF WriteKey, FileWritten, Unwatched
  <2>2. Shape'
    BY <1>4 DEF WriteKey, FileWritten, Unwatched
  <2>3. Reads'
    BY <1>4 DEF WriteKey, FileWritten, Unwatched
  <2>4. Starts'
    <3>1. Complete' /\ ~missed' => ~Unwatched
      BY <1>4 DEF WriteKey, FileWritten
    <3> QED BY <1>4, <3>1 DEF WriteKey, FileWritten, Unwatched
  <2>5. Polls'
    BY <1>4 DEF WriteKey, FileWritten, Unwatched
  <2>6. Breaks'
    BY <1>4 DEF WriteKey, FileWritten, Unwatched
  <2> HIDE DEF TlsTypeOK, Shape, Reads, Starts, Polls, Breaks
  <2> QED BY <2>1, <2>2, <2>3, <2>4, <2>5, <2>6
<1>5. CASE StartListeners
  BY <1>5 DEF StartListeners
<1>6. CASE OpenCert
  <2>1. TlsTypeOK'
    BY <1>6 DEF OpenCert
  <2>2. Shape'
    BY <1>6 DEF OpenCert
  <2>3. Reads'
    BY <1>6 DEF OpenCert
  <2>4. Starts'
    BY <1>6 DEF OpenCert
  <2>5. Polls'
    BY <1>6 DEF OpenCert
  <2>6. Breaks'
    BY <1>6 DEF OpenCert
  <2> HIDE DEF TlsTypeOK, Shape, Reads, Starts, Polls, Breaks
  <2> QED BY <2>1, <2>2, <2>3, <2>4, <2>5, <2>6
<1>7. CASE LoadKey
  <2>1. TlsTypeOK'
    <3> HIDE DEF Shape, Reads, Starts, Polls, Breaks
    <3>1. Flags'
      BY <1>7 DEF LoadKey, KeyMatches, LoadFails, AfterLoad, Flags
    <3>2. Values'
      <4>1. AfterLoad(loaded[turn], seen, keyFile) \in Versions
        BY <1>7 DEF LoadKey, KeyMatches, LoadFails, AfterLoad
      <4>2. loaded' \in [Listeners -> Versions \union {Missing, Broken}]
        BY <1>7, <4>1 DEF LoadKey
      <4>3. turn' \in 0 .. NListeners
        BY <1>7 DEF LoadKey
      <4>4. last' \in Pair \union {Missing} /\ current' \in Pair \union {Missing}
        BY <1>7 DEF LoadKey
      <4>5. at' \in {"down", "build", "bind", "baseline", "asleep", "reload", "dead"}
        BY <1>7 DEF LoadKey
      <4> QED BY <1>7, <4>2, <4>3, <4>4, <4>5 DEF LoadKey, Values
    <3> QED BY <3>1, <3>2 DEF Flags, Values
  <2>2. Shape'
    BY <1>7 DEF LoadKey, KeyMatches, LoadFails, AfterLoad
  <2>3. Reads'
    BY <1>7 DEF LoadKey, KeyMatches, LoadFails, AfterLoad
  <2>4. Starts'
    BY <1>7 DEF LoadKey, KeyMatches, LoadFails, AfterLoad
  <2>5. Polls'
    BY <1>7 DEF LoadKey, KeyMatches, LoadFails, AfterLoad
  <2>6. Breaks'
    BY <1>7 DEF LoadKey, KeyMatches, LoadFails, AfterLoad
  <2> HIDE DEF TlsTypeOK, Shape, Reads, Starts, Polls, Breaks
  <2> QED BY <2>1, <2>2, <2>3, <2>4, <2>5, <2>6
<1>8. CASE ReloadFails
  <2>1. TlsTypeOK'
    <3> HIDE DEF Shape, Reads, Starts, Polls, Breaks
    <3>1. Flags'
      BY <1>8 DEF ReloadFails, BadKey, LoadFails, AfterLoad, Flags
    <3>2. Values'
      BY <1>8 DEF ReloadFails, BadKey, LoadFails, AfterLoad, Values
    <3> QED BY <3>1, <3>2 DEF Flags, Values
  <2>2. Shape'
    BY <1>8 DEF ReloadFails, BadKey, LoadFails, AfterLoad
  <2>3. Reads'
    BY <1>8 DEF ReloadFails, BadKey, LoadFails, AfterLoad
  <2>4. Starts'
    BY <1>8 DEF ReloadFails, BadKey, LoadFails, AfterLoad
  <2>5. Polls'
    BY <1>8 DEF ReloadFails, BadKey, LoadFails, AfterLoad
  <2>6. Breaks'
    BY <1>8 DEF ReloadFails, BadKey, LoadFails, AfterLoad
  <2> HIDE DEF TlsTypeOK, Shape, Reads, Starts, Polls, Breaks
  <2> QED BY <2>1, <2>2, <2>3, <2>4, <2>5, <2>6
<1>9. CASE Bind
  BY <1>9 DEF Bind
<1>10. CASE StatCert
  <2>1. TlsTypeOK'
    BY <1>10 DEF StatCert
  <2>2. Shape'
    BY <1>10 DEF StatCert
  <2>3. Reads'
    BY <1>10 DEF StatCert
  <2>4. Starts'
    BY <1>10 DEF StatCert
  <2>5. Polls'
    BY <1>10 DEF StatCert
  <2>6. Breaks'
    BY <1>10 DEF StatCert
  <2> HIDE DEF TlsTypeOK, Shape, Reads, Starts, Polls, Breaks
  <2> QED BY <2>1, <2>2, <2>3, <2>4, <2>5, <2>6
<1>11. CASE Baseline
  <2>1. TlsTypeOK'
    BY <1>11 DEF Baseline
  <2>2. Shape'
    BY <1>11 DEF Baseline
  <2>3. Reads'
    BY <1>11 DEF Baseline
  <2>4. Starts'
    BY <1>11 DEF Baseline
  <2>5. Polls'
    BY <1>11 DEF Baseline
  <2>6. Breaks'
    BY <1>11 DEF Baseline
  <2> HIDE DEF TlsTypeOK, Shape, Reads, Starts, Polls, Breaks
  <2> QED BY <2>1, <2>2, <2>3, <2>4, <2>5, <2>6
<1>12. CASE BaselineFails
  BY <1>12 DEF BaselineFails, StatFails
<1>13. CASE PollSeesNothingNew
  BY <1>13 DEF PollSeesNothingNew
<1>14. CASE PollSeesChange
  <2>1. TlsTypeOK'
    BY <1>14 DEF PollSeesChange
  <2>2. Shape'
    BY <1>14 DEF PollSeesChange
  <2>3. Reads'
    BY <1>14 DEF PollSeesChange
  <2>4. Starts'
    BY <1>14 DEF PollSeesChange
  <2>5. Polls'
    BY <1>14 DEF PollSeesChange
  <2>6. Breaks'
    BY <1>14 DEF PollSeesChange
  <2> HIDE DEF TlsTypeOK, Shape, Reads, Starts, Polls, Breaks
  <2> QED BY <2>1, <2>2, <2>3, <2>4, <2>5, <2>6
<1>15. CASE PollFails
  BY <1>15 DEF PollFails, StatFails
<1>16. CASE Ends
  <2>1. TlsTypeOK'
    <3> HIDE DEF Shape, Reads, Starts, Polls, Breaks
    <3>1. Flags'
      BY <1>16 DEF Ends, Unloaded, Flags
    <3>2. Values'
      BY <1>16 DEF Ends, Unloaded, Values
    <3> QED BY <3>1, <3>2 DEF Flags, Values
  <2>2. Shape'
    BY <1>16 DEF Ends, Unloaded
  <2>3. Reads'
    BY <1>16 DEF Ends, Unloaded
  <2>4. Starts'
    BY <1>16 DEF Ends, Unloaded
  <2>5. Polls'
    BY <1>16 DEF Ends, Unloaded
  <2>6. Breaks'
    BY <1>16 DEF Ends, Unloaded
  <2> HIDE DEF TlsTypeOK, Shape, Reads, Starts, Polls, Breaks
  <2> QED BY <2>1, <2>2, <2>3, <2>4, <2>5, <2>6
<1>17. CASE UNCHANGED tlsVars
  BY <1>17 DEF tlsVars
<1> QED
  BY <1>1, <1>2, <1>3, <1>4, <1>5, <1>6, <1>7, <1>8, <1>9, <1>10, <1>11, <1>12, <1>13, <1>14, <1>15, <1>16, <1>17
     DEF TlsNext, FilesNext, ListenersNext, StartNext, WatchNext, StartFails, BuildFails, BindFails,
         StopListeners

LEMMA TlsInductive == TlsSpec => []TlsInv
  BY TlsStarts, TlsStep, PTL DEF TlsSpec

\* For any number of listeners and renewals: however polls fall between the files
\* and wherever they stop, a pair that was polled with both files in place is served
\* by every listener (watch_certificates).
THEOREM RenewedIsServedHolds == TlsSpec => []RenewedIsServed
<1>1. TlsInv => RenewedIsServed
  BY DEF TlsInv, Polls, RenewedIsServed, Idle
<1> QED BY <1>1, TlsInductive, PTL

\* For any number of listeners and renewals: only a pair written file by file, or a
\* key that could not be read, costs a listener its certificate, and no longer than
\* to the next good poll (reload_certificates).
THEOREM OutageOnlyMidRewriteHolds == TlsSpec => []OutageOnlyMidRewrite
<1>1. TlsInv => OutageOnlyMidRewrite
  BY DEF TlsInv, TlsTypeOK, Polls, Breaks, Whole, OutageOnlyMidRewrite, Idle
<1> QED BY <1>1, TlsInductive, PTL

--------------------------------------------------------------------------------
\* Every step of the process is a step of each of its parts, or leaves that part alone
\* (_lifespan).
THEOREM ProcessImplementsParts ==
    LifespanSpec => /\ Spec /\ TlsSpec /\ ChunkSpec
                    /\ RetrievalSpec /\ DateSpec /\ CaptureSpec
<1>1. LifespanInit => Init /\ TlsInit /\ ChunkInit /\ RetrievalInit /\ DateInit /\ CaptureInit
  BY DEF LifespanInit
<1>2. [LifespanNext]_lifespanVars => [Next]_vars
  <2> SUFFICES ASSUME [LifespanNext]_lifespanVars PROVE [Next]_vars
    OBVIOUS
  <2>1. CASE OpenMain
    BY <2>1 DEF OpenMain, Next, Store, StoreNext, Setup, Connections
  <2>2. CASE EndServing
    BY <2>2 DEF EndServing, Next, Store, StoreNext
  <2> QED BY <2>1, <2>2
          DEF LifespanNext, Secrets, Certificates, Compute, lifespanVars
<1>3. [LifespanNext]_lifespanVars => [TlsNext]_tlsVars
  BY DEF LifespanNext, lifespanVars, Secrets, OpenMain, Certificates, Compute, EndServing,
         TlsNext
<1>4. [LifespanNext]_lifespanVars => [ChunkNext]_chunkVars
  BY DEF LifespanNext, lifespanVars, Secrets, OpenMain, Certificates, Compute, EndServing,
         ChunkNext
<1>5. [LifespanNext]_lifespanVars => [RetrievalNext]_retrievalVars
  BY DEF LifespanNext, lifespanVars, Secrets, OpenMain, Certificates, Compute, EndServing,
         Question, RetrievalNext
<1>6. [LifespanNext]_lifespanVars => [DateNext]_dateVars
  BY DEF LifespanNext, lifespanVars, Secrets, OpenMain, Certificates, Compute, EndServing,
         Question, DateNext
<1>7. [LifespanNext]_lifespanVars => [CaptureNext]_captureVars
  BY DEF LifespanNext, lifespanVars, Secrets, OpenMain, Certificates, Compute, EndServing,
         CaptureNext
<1> QED
  BY <1>1, <1>2, <1>3, <1>4, <1>5, <1>6, <1>7, PTL
     DEF LifespanSpec, Spec, TlsSpec, ChunkSpec, RetrievalSpec, DateSpec, CaptureSpec

\* Every variable of every part stays in its set while the process runs, ends and is
\* started again (_lifespan).
THEOREM PartsTypeCorrect == LifespanSpec => []PartsTypeOK
<1>1. TlsInv => TlsTypeOK
  BY DEF TlsInv
<1>2. TlsTypeOK /\ ChunkTypeOK /\ RetrievalTypeOK /\ DateTypeOK /\ CaptureTypeOK => PartsTypeOK
  BY DEF PartsTypeOK
<1> QED
  BY <1>1, <1>2, ProcessImplementsParts, TlsInductive, ChunkTypeCorrect, RetrievalTypeCorrect,
     DateTypeCorrect, CaptureTypeCorrect, PTL

\* What is proved of the parts holds in the process, beside whatever the others do
\* and wherever it ends (_lifespan): who is registered can be read, tokens are good
\* for their lifetime, the renewed certificate is served, no text is cut short, a
\* question about dates is answered from them and told the weeks that were searched,
\* and a capture is matched with a course for a reason, the same one when it is retried.
THEOREM ProcessKeepsPromises ==
    LifespanSpec => /\ []KeysReadable /\ []TicksMigrateNothing /\ []GoodForItsLifetime
                    /\ ImplementsKeyTable
                    /\ []RenewedIsServed /\ []OutageOnlyMidRewrite
                    /\ []NothingLost /\ []WithinBudget
                    /\ []DatesAnswered /\ []RerankOnlyReorders
                    /\ []RangeMeansItsName /\ []WeeksAgree
                    /\ []MatchHasEvidence /\ []RetryAgrees
  BY ProcessImplementsParts, KeysReadableHolds, TicksMigrateNothingHolds,
     GoodForItsLifetimeHolds, KeyTableImplemented, RenewedIsServedHolds,
     OutageOnlyMidRewriteHolds, NothingLostHolds, WithinBudgetHolds,
     DatesAnsweredHolds, RerankOnlyReordersHolds, RangeMeansItsNameHolds,
     WeeksAgreeHolds, MatchHasEvidenceHolds, RetryAgreesHolds, PTL
================================================================================
