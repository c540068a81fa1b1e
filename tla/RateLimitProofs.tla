--------------------------- MODULE RateLimitProofs ---------------------------
(***************************************************************************)
(* The limiter's promises, for any limit, window, clock, users and number  *)
(* of threads.                                                             *)
(***************************************************************************)
EXTENDS RateLimit, FiniteSetTheorems, TLAPS

\* A window has a positive length, whatever its two factors are.
LEMMA WindowType == Window \in Nat /\ Window >= 1 /\ TicksPerSecond \in Nat /\ TicksPerSecond >= 1
BY TimeAssumption DEF Window

\* A remaining time is less than one second more than its whole seconds.
LEMMA RoundUp ==
    ASSUME NEW left \in Nat, NEW ticks \in Nat \ {0}
    PROVE  /\ left \div ticks \in Nat
           /\ ticks * (left \div ticks + 1) \in Nat
           /\ ticks * (left \div ticks + 1) > left
<1> DEFINE q == left \div ticks
           m == left % ticks
<1>1. q \in Nat /\ m \in Nat /\ m < ticks /\ left = ticks * q + m
  OBVIOUS
<1>2. ticks * (q + 1) = ticks * q + ticks
  BY <1>1
<1>3. ticks * q \in Nat
  BY <1>1
<1> QED BY <1>1, <1>2, <1>3

\* What Append does, entry by entry.
LEMMA AppendFacts ==
    ASSUME NEW S, NEW s \in Seq(S), NEW e \in S
    PROVE  /\ Len(Append(s, e)) = Len(s) + 1
           /\ \A i \in 1 .. Len(s) : Append(s, e)[i] = s[i]
           /\ Append(s, e)[Len(s) + 1] = e
OBVIOUS

\* What is in a sequence.
LEMMA SeqElements ==
    ASSUME NEW S, NEW s \in Seq(S)
    PROVE  Len(s) \in Nat /\ \A i \in 1 .. Len(s) : s[i] \in S
OBVIOUS

Entry == [at : 0 .. MaxTime, start : 0 .. MaxTime]

\* A remaining time counts from a clock before the end of the window.
LEMMA RemainingTime ==
    ASSUME NEW t \in Nat, NEW s \in Nat, t < s + Window
    PROVE  Window - (t - s) \in Nat
BY WindowType

\* What a thread knows when it has read a window.
AnswerSound(k) ==
    checking[k] = "answer" =>
        /\ clock[k] < window[k].start + Window
        /\ window[k].count <= AdmittedIn(log[caller[k]], window[k].start)

\* The window a thread goes by is one.
LEMMA CurrentType ==
    ASSUME LimiterTypeOK, NEW k \in Checks, caller[k] \in Users
    PROVE  Current(k) \in Windows
BY LimitAssumption DEF LimiterTypeOK, Windows, Current

\* A step of the limiter keeps the types.
LEMMA LimiterTypeStep ==
    ASSUME LimiterTypeOK, \A k \in Checks : AnswerSound(k), [LimiterNext]_limiterVars
    PROVE  LimiterTypeOK'
<1> USE DEF LimiterTypeOK
<1>e. NoWindow \in Windows
  BY LimitAssumption, BoundAssumption DEF NoWindow, Windows
<1>i. \A k \in Checks : checking[k] # "idle" => caller[k] \in Users
  OBVIOUS
<1>z. ASSUME NEW k \in Checks, EndCheck(k)
      PROVE  /\ checking' \in [Checks -> {"idle", "read", "answer"}]
             /\ caller' \in [Checks -> Users \union {Nobody}]
             /\ \A j \in Checks : caller'[j] = Nobody <=> checking'[j] = "idle"
             /\ clock' \in [Checks -> 0 .. MaxTime]
             /\ window' \in [Checks -> Windows]
  BY <1>z, <1>e, BoundAssumption DEF EndCheck
<1>1. ASSUME NEW k \in Checks, NEW u \in Users, ReadClock(k, u) PROVE LimiterTypeOK'
  BY <1>1, NobodyAssumption DEF ReadClock
<1>2. ASSUME NEW k \in Checks, ReadWindow(k) PROVE LimiterTypeOK'
  <2>1. Current(k) \in Windows
    BY <1>2, <1>i, CurrentType DEF ReadWindow
  <2> QED BY <1>2, <2>1 DEF ReadWindow
<1>3. ASSUME NEW k \in Checks, Admit(k) PROVE LimiterTypeOK'
  <2>1. caller[k] \in Users /\ window[k] \in Windows /\ window[k].count < Limit
    BY <1>3, <1>i DEF Admit
  <2>2. windows' \in [Users -> Windows]
    <3> DEFINE c == window[k]
    <3>1. c.count + 1 \in 0 .. Limit
      BY <2>1, LimitAssumption DEF Windows
    <3> HIDE DEF c
    <3>2. [c EXCEPT !.count = c.count + 1] \in Windows
      BY <3>1, <2>1 DEF Windows, c
    <3>3. windows' = [windows EXCEPT ![caller[k]] = [c EXCEPT !.count = c.count + 1]]
      BY <1>3 DEF Admit, c
    <3> QED BY <2>1, <3>2, <3>3
  <2>3. log' \in [Users -> Seq(Entry)]
    <3> DEFINE entry == [at |-> clock[k], start |-> window[k].start]
    <3>1. log \in [Users -> Seq(Entry)] /\ entry \in Entry
      BY <2>1 DEF Entry, Windows
    <3>2. log' = [log EXCEPT ![caller[k]] = Append(log[caller[k]], entry)]
      BY <1>3 DEF Admit
    <3> HIDE DEF entry
    <3>3. Append(log[caller[k]], entry) \in Seq(Entry)
      BY <3>1, <2>1
    <3> QED BY <3>1, <3>2, <3>3
  <2>4. promises' \in [Users -> SUBSET Nat] /\ now' = now /\ overlapped' = overlapped /\ EndCheck(k)
    BY <1>3 DEF Admit
  <2> QED BY <1>z, <2>2, <2>3, <2>4 DEF Entry
<1>4. ASSUME NEW k \in Checks, Refuse(k) PROVE LimiterTypeOK'
  <2>1. caller[k] \in Users /\ window[k] \in Windows /\ checking[k] = "answer"
    BY <1>4, <1>i DEF Refuse, AboutToRefuse
  <2>2. Window - (clock[k] - window[k].start) \in Nat
    BY <2>1, RemainingTime DEF AnswerSound, Windows
  <2>3. TicksPerSecond * RetryAfter(k) \in Nat
    BY <2>2, RoundUp, TimeAssumption DEF RetryAfter
  <2>4. clock[k] + TicksPerSecond * RetryAfter(k) \in Nat
    <3> DEFINE wait == TicksPerSecond * RetryAfter(k)
    <3>1. wait \in Nat
      BY <2>3
    <3> HIDE DEF wait
    <3>2. clock[k] + wait \in Nat
      BY <3>1
    <3> QED BY <3>2 DEF wait
  <2>5. promises' \in [Users -> SUBSET Nat]
    <3>1. CASE UpToDate(k)
      BY <1>4, <2>1, <2>4, <3>1 DEF Refuse
    <3>2. CASE ~UpToDate(k)
      BY <1>4, <3>2 DEF Refuse
    <3> QED BY <3>1, <3>2
  <2>6. windows' = windows /\ log' = log /\ now' = now /\ overlapped' = overlapped /\ EndCheck(k)
    BY <1>4 DEF Refuse
  <2> QED BY <1>z, <2>5, <2>6
<1>5. CASE Tick
  <2>1. now' \in 0 .. MaxTime
    BY <1>5, BoundAssumption DEF Tick
  <2> QED BY <1>5, <2>1 DEF Tick, threadVars
<1>6. CASE LimiterRestart
  BY <1>6, <1>e, BoundAssumption DEF LimiterRestart
<1>7. CASE UNCHANGED limiterVars
  BY <1>7 DEF limiterVars, threadVars
<1> QED BY <1>1, <1>2, <1>3, <1>4, <1>5, <1>6, <1>7 DEF LimiterNext

--------------------------------------------------------------------------------
(***************************************************************************)
(* However the checks overlap, no window counts more requests than were    *)
(* admitted in it, neither in the dict nor in a thread's hands, and a      *)
(* promise never lies before the end of the window it was made in.         *)
(*                                                                         *)
(* Of a user whose checks never overlapped more is known: the one check    *)
(* under way goes by the window in the dict; the last count entries of the *)
(* log fell into that window, everything before them into windows that     *)
(* were over when it began; Limit entries are never within one window.     *)
(***************************************************************************)
CountsAdmitted(u) == windows[u].count <= AdmittedIn(log[u], windows[u].start)

PromisesLate(u) ==
    \A p \in promises[u] : windows[u].count = 0 \/ p >= windows[u].start + Window

OneAtATime(u) ==
    \A k \in Checks : caller[k] = u =>
        /\ \A j \in Checks : caller[j] = u => j = k
        /\ windows[u].start <= clock[k] /\ clock[k] <= now
        /\ checking[k] = "answer" => window[k] = Current(k)

EntriesInWindow(u) ==
    \A i \in 1 .. Len(log[u]) :
        log[u][i].start <= log[u][i].at /\ log[u][i].at < log[u][i].start + Window

CountIsRecent(u) ==
    /\ windows[u].start <= now
    /\ windows[u].count <= Len(log[u])
    /\ windows[u].count = 0 => Len(log[u]) = 0
    /\ \A i \in 1 .. Len(log[u]) :
          IF i > Len(log[u]) - windows[u].count
            THEN log[u][i].start = windows[u].start
            ELSE log[u][i].start + Window <= windows[u].start

LimitApart(u) ==
    \A i \in 1 .. Len(log[u]) - Limit : log[u][i].start + Window <= log[u][i + Limit].start

InTurn(u) == OneAtATime(u) /\ EntriesInWindow(u) /\ CountIsRecent(u) /\ LimitApart(u)

LimiterInv ==
    /\ \A k \in Checks : AnswerSound(k)
    /\ \A u \in Users : CountsAdmitted(u) /\ PromisesLate(u)
    /\ \A u \in Users \ overlapped : InTurn(u)

\* The types as the arithmetic below needs them.
LEMMA LimiterTypes ==
    ASSUME LimiterTypeOK, NEW u \in Users
    PROVE  /\ now \in Nat /\ windows[u].start \in Nat /\ windows[u].count \in Nat
           /\ Len(log[u]) \in Nat
           /\ \A i \in 1 .. Len(log[u]) : log[u][i].at \in Nat /\ log[u][i].start \in Nat
<1>1. log[u] \in Seq([at : 0 .. MaxTime, start : 0 .. MaxTime])
  BY DEF LimiterTypeOK
<1>2. /\ Len(log[u]) \in Nat
      /\ \A i \in 1 .. Len(log[u]) : log[u][i] \in [at : 0 .. MaxTime, start : 0 .. MaxTime]
  BY <1>1, SeqElements
<1> QED BY <1>1, <1>2 DEF LimiterTypeOK, Windows

\* One more entry is one more admission in its window, and none in another.
LEMMA AdmittedAppend ==
    ASSUME NEW s \in Seq(Entry), NEW e \in Entry, NEW t
    PROVE  /\ AdmittedIn(s, t) \in Nat
           /\ AdmittedIn(Append(s, e), t) = AdmittedIn(s, t) + IF e.start = t THEN 1 ELSE 0
<1> DEFINE n == Len(s)
           In == {i \in 1 .. n : s[i].start = t}
           New == {i \in 1 .. Len(Append(s, e)) : Append(s, e)[i].start = t}
<1>1. /\ n \in Nat /\ Len(Append(s, e)) = n + 1 /\ Append(s, e)[n + 1] = e
      /\ \A i \in 1 .. n : Append(s, e)[i] = s[i]
  BY AppendFacts, SeqElements
<1>2. IsFiniteSet(In) /\ Cardinality(In) \in Nat /\ n + 1 \notin In
  <2>1. 1 \in Int /\ n \in Int /\ In \subseteq 1 .. n /\ n + 1 \notin 1 .. n
    BY <1>1
  <2>2. IsFiniteSet(1 .. n)
    BY <2>1, FS_Interval
  <2> HIDE DEF In
  <2> QED BY <2>1, <2>2, FS_Subset, FS_CardinalityType
<1>3. \A i : i \in 1 .. n + 1 <=> i \in 1 .. n \/ i = n + 1
  BY <1>1
<1>4. New = IF e.start = t THEN In \union {n + 1} ELSE In
  <2>1. \A i : i \in New <=> i \in In \/ (i = n + 1 /\ e.start = t)
    BY <1>1, <1>3
  <2> HIDE DEF New, In
  <2> QED BY <2>1
<1>5. Cardinality(In \union {n + 1}) = Cardinality(In) + 1
  <2> HIDE DEF In
  <2> QED BY <1>2, FS_AddElement
<1>6. AdmittedIn(s, t) = Cardinality(In) /\ AdmittedIn(Append(s, e), t) = Cardinality(New)
  BY DEF AdmittedIn
<1> HIDE DEF In, New
<1> QED BY <1>2, <1>4, <1>5, <1>6

\* Admitting a request keeps the log and the window in step.
LEMMA AdmitKeepsLog ==
    ASSUME LimiterTypeOK, NEW u \in Users, NEW k \in Checks, Admit(k), caller[k] = u, InTurn(u)
    PROVE  EntriesInWindow(u)' /\ CountIsRecent(u)' /\ LimitApart(u)'
<1>n. PICK n : n = Len(log[u])
  OBVIOUS
<1> DEFINE t == clock[k]
           s == window[k].start
           c == window[k].count
           entry == [at |-> t, start |-> s]
<1>0. /\ window[k] = Current(k) /\ windows[u].start <= t /\ t <= now
      /\ EntriesInWindow(u) /\ CountIsRecent(u) /\ LimitApart(u)
  BY DEF InTurn, OneAtATime, Admit
<1>1. /\ now \in Nat /\ t \in Nat /\ n \in Nat /\ s \in Nat /\ c \in Nat
      /\ Limit \in Nat /\ Limit >= 1
      /\ \A i \in 1 .. n : log[u][i].at \in Nat /\ log[u][i].start \in Nat
      /\ Window \in Nat /\ Window >= 1 /\ c < Limit
  <2>1. window[k] \in Windows /\ t \in 0 .. MaxTime /\ c < Limit
    BY DEF Admit, LimiterTypeOK
  <2>2. s \in Nat /\ c \in Nat /\ t \in Nat
    BY <2>1 DEF Windows
  <2>3. /\ now \in Nat /\ n \in Nat
        /\ \A i \in 1 .. n : log[u][i].at \in Nat /\ log[u][i].start \in Nat
    BY <1>n, LimiterTypes
  <2> QED BY <2>1, <2>2, <2>3, WindowType, LimitAssumption
<1>u. windows[u].start \in Nat /\ windows[u].count \in Nat
  BY LimiterTypes
<1>2. /\ Len(log[u])' = n + 1
      /\ \A i \in 1 .. n : log[u]'[i] = log[u][i]
      /\ log[u]'[n + 1].at = t /\ log[u]'[n + 1].start = s
  <2>1. log[u]' = Append(log[u], entry)
    BY DEF Admit, LimiterTypeOK
  <2>2. log[u] \in Seq(Entry) /\ entry \in Entry
    BY DEF LimiterTypeOK, Entry, Windows
  <2> HIDE DEF entry
  <2>3. /\ Len(log[u])' = n + 1
        /\ \A i \in 1 .. n : log[u]'[i] = log[u][i]
        /\ log[u]'[n + 1] = entry
    BY <2>1, <2>2, <1>n, AppendFacts
  <2> QED BY <2>3 DEF entry
<1>3. now' = now /\ windows[u]'.start = s /\ windows[u]'.count = c + 1
  BY DEF Admit, LimiterTypeOK, Windows
<1>4. s <= t /\ t < s + Window /\ s <= now
  BY <1>0, <1>1, LimiterTypes DEF Current, Over
<1>5. c <= n /\ (\A i \in 1 .. n : IF i > n - c THEN log[u][i].start = s
                                               ELSE log[u][i].start + Window <= s)
  <2>1. CASE Over(k)
    <3>1. s = t /\ c = 0
      BY <2>1, <1>0 DEF Current
    <3>2. \A i \in 1 .. n : log[u][i].start + Window <= t
      <4>1. CASE windows[u].count = 0
        BY <4>1, <1>0, <1>1, <1>n DEF CountIsRecent
      <4>2. CASE t >= windows[u].start + Window
        <5> SUFFICES ASSUME NEW i \in 1 .. n
                     PROVE  log[u][i].start + Window <= t
          OBVIOUS
        <5>1. \/ log[u][i].start = windows[u].start
              \/ log[u][i].start + Window <= windows[u].start
          BY <1>0, <1>n DEF CountIsRecent
        <5>2. log[u][i].start \in Nat
          BY <1>1
        <5> HIDE DEF t
        <5> QED BY <5>1, <5>2, <4>2, <1>1, <1>u
      <4>3. t - windows[u].start >= Window => t >= windows[u].start + Window
        BY <1>1, <1>u
      <4> QED BY <2>1, <4>1, <4>2, <4>3 DEF Over
    <3> QED BY <3>1, <3>2, <1>1
  <2>2. CASE ~Over(k)
    BY <2>2, <1>0, <1>1, <1>n DEF Current, CountIsRecent
  <2> QED BY <2>1, <2>2
<1> HIDE DEF t, s, c, entry
<1>w. Window' = Window
  BY DEF Window
<1>6. EntriesInWindow(u)'
  <2>1. \A i \in 1 .. n : log[u][i].start <= log[u][i].at /\ log[u][i].at < log[u][i].start + Window
    BY <1>0, <1>n DEF EntriesInWindow
  <2>2. \A i \in 1 .. n + 1 :
          log[u]'[i].start <= log[u]'[i].at /\ log[u]'[i].at < log[u]'[i].start + Window
    BY <2>1, <1>1, <1>2, <1>4
  <2> QED BY <2>2, <1>2, <1>w DEF EntriesInWindow
<1>7. CountIsRecent(u)'
  <2>1. windows[u]'.start <= now' /\ windows[u]'.count <= n + 1 /\ windows[u]'.count # 0
    BY <1>1, <1>3, <1>4, <1>5
  <2>2. \A i \in 1 .. n + 1 :
          IF i > n + 1 - windows[u]'.count THEN log[u]'[i].start = windows[u]'.start
                                           ELSE log[u]'[i].start + Window <= windows[u]'.start
    <3>1. ASSUME NEW i \in 1 .. n
          PROVE  IF i > n + 1 - windows[u]'.count
                   THEN log[u]'[i].start = windows[u]'.start
                   ELSE log[u]'[i].start + Window <= windows[u]'.start
      <4>1. i > n + 1 - windows[u]'.count <=> i > n - c
        BY <1>1, <1>3
      <4>2. IF i > n - c THEN log[u][i].start = s ELSE log[u][i].start + Window <= s
        BY <1>5
      <4> QED BY <4>1, <4>2, <1>2, <1>3
    <3>2. n + 1 > n + 1 - windows[u]'.count /\ log[u]'[n + 1].start = windows[u]'.start
      BY <1>1, <1>2, <1>3
    <3>3. \A i \in 1 .. n + 1 : i \in 1 .. n \/ i = n + 1
      BY <1>1
    <3> QED BY <3>1, <3>2, <3>3
  <2>3. Len(log[u])' = n + 1
    BY <1>2
  <2>4. ASSUME NEW i \in 1 .. Len(log[u])'
        PROVE  IF i > Len(log[u])' - windows[u]'.count
                 THEN log[u]'[i].start = windows[u]'.start
                 ELSE log[u]'[i].start + Window' <= windows[u]'.start
    <3>1. i \in 1 .. n + 1
      BY <1>1, <2>3
    <3>2. i > Len(log[u])' - windows[u]'.count <=> i > n + 1 - windows[u]'.count
      BY <1>1, <1>3, <2>3
    <3>3. IF i > n + 1 - windows[u]'.count
            THEN log[u]'[i].start = windows[u]'.start
            ELSE log[u]'[i].start + Window <= windows[u]'.start
      BY <3>1, <2>2
    <3> QED BY <3>2, <3>3, <1>w
  <2>5. windows[u]'.count <= Len(log[u])'
    BY <2>1, <2>3
  <2> QED BY <2>1, <2>4, <2>5 DEF CountIsRecent
<1>8. LimitApart(u)'
  <2>1. \A i \in 1 .. n - Limit : log[u][i].start + Window <= log[u][i + Limit].start
    BY <1>0, <1>n DEF LimitApart
  <2>2. ASSUME NEW i \in 1 .. n + 1 - Limit
        PROVE  log[u]'[i].start + Window <= log[u]'[i + Limit].start
    <3>1. i \in 1 .. n /\ log[u]'[i] = log[u][i]
      BY <1>1, <1>2
    <3>2. CASE i + Limit = n + 1
      <4>1. ~(i > n - c)
        BY <3>2, <1>1
      <4> QED BY <4>1, <3>1, <3>2, <1>2, <1>5
    <3>3. CASE i + Limit # n + 1
      <4>1. i \in 1 .. n - Limit /\ i + Limit \in 1 .. n
        BY <3>3, <1>1
      <4> QED BY <4>1, <3>1, <2>1, <1>2
    <3> QED BY <3>2, <3>3
  <2>3. ASSUME NEW i \in 1 .. Len(log[u])' - Limit
        PROVE  log[u]'[i].start + Window' <= log[u]'[i + Limit].start
    <3>1. i \in 1 .. n + 1 - Limit
      BY <1>1, <1>2
    <3> QED BY <3>1, <2>2, <1>w
  <2> QED BY <2>3 DEF LimitApart
<1> QED BY <1>6, <1>7, <1>8

\* What Admit does to the admissions a window has.
LEMMA AdmitCounts ==
    ASSUME LimiterTypeOK, NEW k \in Checks, Admit(k), NEW v \in Users, NEW t
    PROVE  /\ AdmittedIn(log[v], t) \in Nat
           /\ AdmittedIn(log[v]', t) =
                AdmittedIn(log[v], t) + IF v = caller[k] /\ window[k].start = t THEN 1 ELSE 0
<1> DEFINE entry == [at |-> clock[k], start |-> window[k].start]
<1>1. log \in [Users -> Seq(Entry)] /\ entry \in Entry /\ entry.start = window[k].start
  BY DEF LimiterTypeOK, Entry, Windows
<1>2. log[v]' = IF v = caller[k] THEN Append(log[v], entry) ELSE log[v]
  BY <1>1 DEF Admit
<1> HIDE DEF entry
<1>3. log[v] \in Seq(Entry)
  BY <1>1
<1>4. /\ AdmittedIn(log[v], t) \in Nat
      /\ AdmittedIn(Append(log[v], entry), t) =
           AdmittedIn(log[v], t) + IF entry.start = t THEN 1 ELSE 0
  BY <1>1, <1>3, AdmittedAppend
<1>5. CASE v = caller[k]
  BY <1>1, <1>2, <1>4, <1>5
<1>6. CASE v # caller[k]
  BY <1>2, <1>4, <1>6
<1> QED BY <1>5, <1>6

\* A number of admissions is a number, and a new process has admitted nothing.
LEMMA AdmittedNat ==
    ASSUME LimiterTypeOK, NEW v \in Users, NEW t
    PROVE  AdmittedIn(log[v], t) \in Nat
<1> DEFINE entry == [at |-> 0, start |-> 0]
<1>1. log[v] \in Seq(Entry)
  BY DEF LimiterTypeOK, Entry
<1>2. entry \in Entry
  BY BoundAssumption DEF Entry
<1> HIDE DEF entry
<1> QED BY <1>1, <1>2, AdmittedAppend

LEMMA AdmittedNone == ASSUME NEW t PROVE AdmittedIn(<<>>, t) = 0
<1>1. {i \in 1 .. Len(<<>>) : <<>>[i].start = t} = {}
  BY SMT
<1> QED BY <1>1, FS_EmptySet DEF AdmittedIn

\* However checks overlap, the windows count no more than was admitted in them.
LEMMA CountsStep ==
    ASSUME LimiterTypeOK, LimiterInv, [LimiterNext]_limiterVars
    PROVE  (\A k \in Checks : AnswerSound(k))' /\ (\A u \in Users : CountsAdmitted(u))'
<1>w. Window' = Window
  BY DEF Window
<1>i. \A k \in Checks : checking[k] # "idle" => caller[k] \in Users
  BY DEF LimiterTypeOK
<1>t. /\ \A k \in Checks : clock[k] \in Nat /\ window[k].start \in Nat /\ window[k].count \in Nat
      /\ \A u \in Users : windows[u].start \in Nat /\ windows[u].count \in Nat
  BY DEF LimiterTypeOK, Windows
<1>1. ASSUME NEW k \in Checks, NEW u \in Users, ReadClock(k, u)
      PROVE  (\A j \in Checks : AnswerSound(j))' /\ (\A v \in Users : CountsAdmitted(v))'
  <2>1. \A j \in Checks : \/ checking'[j] = "read"
                         \/ /\ checking'[j] = checking[j] /\ caller'[j] = caller[j]
                            /\ clock'[j] = clock[j]
    BY <1>1 DEF ReadClock, LimiterTypeOK
  <2>2. window' = window /\ windows' = windows /\ log' = log
    BY <1>1 DEF ReadClock
  <2> QED BY <2>1, <2>2, <1>w DEF LimiterInv, AnswerSound, CountsAdmitted
<1>2. ASSUME NEW k \in Checks, ReadWindow(k)
      PROVE  (\A j \in Checks : AnswerSound(j))' /\ (\A v \in Users : CountsAdmitted(v))'
  <2>1. /\ windows' = windows /\ log' = log /\ caller' = caller /\ clock' = clock
        /\ window' = [window EXCEPT ![k] = Current(k)] /\ window[k]' = Current(k)
        /\ checking' = [checking EXCEPT ![k] = "answer"] /\ caller[k] \in Users
    BY <1>2, <1>i DEF ReadWindow, LimiterTypeOK
  <2>2. /\ clock[k] < Current(k).start + Window
        /\ Current(k).count <= AdmittedIn(log[caller[k]], Current(k).start)
    <3>1. CASE Over(k)
      BY <3>1, <2>1, <1>t, WindowType, AdmittedNat DEF Current
    <3>2. CASE ~Over(k)
      BY <3>2, <2>1, <1>t, WindowType DEF Current, Over, LimiterInv, CountsAdmitted
    <3> QED BY <3>1, <3>2
  <2>3. AnswerSound(k)'
    BY <2>1, <2>2, <1>w DEF AnswerSound
  <2>4. \A j \in Checks \ {k} : AnswerSound(j)'
    BY <2>1, <1>w DEF AnswerSound, LimiterInv, LimiterTypeOK
  <2> QED BY <2>1, <2>3, <2>4 DEF LimiterInv, CountsAdmitted
<1>3. ASSUME NEW k \in Checks, Admit(k)
      PROVE  (\A j \in Checks : AnswerSound(j))' /\ (\A v \in Users : CountsAdmitted(v))'
  <2>1. PICK u \in Users : u = caller[k]
    BY <1>3, <1>i DEF Admit
  <2>2. checking[k] = "answer" /\ window[k] \in Windows
    BY <1>3 DEF Admit, LimiterTypeOK
  <2>3. /\ windows[u]' = [window[k] EXCEPT !.count = window[k].count + 1]
        /\ \A v \in Users \ {u} : windows[v]' = windows[v]
    BY <1>3, <2>1 DEF Admit, LimiterTypeOK
  <2>4. checking[k]' = "idle"
        /\ \A j \in Checks \ {k} : /\ checking[j]' = checking[j] /\ caller[j]' = caller[j]
                                   /\ clock[j]' = clock[j] /\ window[j]' = window[j]
    BY <1>3 DEF Admit, EndCheck, LimiterTypeOK
  <2>5. \A v \in Users : \A t :
          /\ AdmittedIn(log[v], t) \in Nat
          /\ AdmittedIn(log[v]', t) =
               AdmittedIn(log[v], t) + IF v = u /\ window[k].start = t THEN 1 ELSE 0
    BY <1>3, <2>1, AdmitCounts
  <2>6. ASSUME NEW j \in Checks PROVE AnswerSound(j)'
    <3>1. CASE j = k
      BY <2>4, <3>1 DEF AnswerSound
    <3>2. CASE j # k
      <4>1. /\ checking[j]' = checking[j] /\ caller[j]' = caller[j]
            /\ clock[j]' = clock[j] /\ window[j]' = window[j]
        BY <2>4, <3>2
      <4>2. SUFFICES ASSUME checking[j] = "answer"
                     PROVE  /\ clock[j] < window[j].start + Window
                            /\ window[j].count <= AdmittedIn(log'[caller[j]], window[j].start)
        BY <4>1, <1>w DEF AnswerSound
      <4>3. PICK v \in Users : v = caller[j]
        BY <4>2, <1>i
      <4>4. PICK t : t = window[j].start
        OBVIOUS
      <4>5. clock[j] < window[j].start + Window /\ window[j].count <= AdmittedIn(log[v], t)
        BY <4>2, <4>3, <4>4 DEF LimiterInv, AnswerSound
      <4>6. /\ AdmittedIn(log[v], t) \in Nat /\ AdmittedIn(log'[v], t) \in Nat
            /\ AdmittedIn(log[v], t) <= AdmittedIn(log'[v], t)
        BY <2>5
      <4>7. window[j].count <= AdmittedIn(log'[v], t)
        BY <4>5, <4>6, <1>t
      <4> QED BY <4>3, <4>4, <4>5, <4>7
    <3> QED BY <3>1, <3>2
  <2>7. ASSUME NEW v \in Users PROVE CountsAdmitted(v)'
    <3>1. CASE v = u
      <4>1. PICK t : t = window[k].start
        OBVIOUS
      <4>2. window[k].count <= AdmittedIn(log[v], t)
        BY <2>1, <2>2, <3>1, <4>1 DEF LimiterInv, AnswerSound
      <4>3. AdmittedIn(log[v]', t) = AdmittedIn(log[v], t) + 1 /\ AdmittedIn(log[v], t) \in Nat
        BY <2>5, <3>1, <4>1
      <4>4. windows[v]'.start = t /\ windows[v]'.count = window[k].count + 1
        BY <2>2, <2>3, <3>1, <4>1 DEF Windows
      <4>5. windows[v]'.count <= AdmittedIn(log[v]', t)
        BY <4>2, <4>3, <4>4, <1>t
      <4> QED BY <4>4, <4>5 DEF CountsAdmitted
    <3>2. CASE v # u
      <4>1. windows[v]' = windows[v]
        BY <2>3, <3>2
      <4>2. AdmittedIn(log[v]', windows[v].start) = AdmittedIn(log[v], windows[v].start)
        BY <2>5, <3>2
      <4> QED BY <4>1, <4>2 DEF LimiterInv, CountsAdmitted
    <3> QED BY <3>1, <3>2
  <2> QED BY <2>6, <2>7
<1>4. ASSUME NEW k \in Checks, Refuse(k)
      PROVE  (\A j \in Checks : AnswerSound(j))' /\ (\A v \in Users : CountsAdmitted(v))'
  <2>1. windows' = windows /\ log' = log /\ checking[k]' = "idle"
    BY <1>4 DEF Refuse, EndCheck, LimiterTypeOK
  <2>2. \A j \in Checks \ {k} : /\ checking[j]' = checking[j] /\ caller[j]' = caller[j]
                                /\ clock[j]' = clock[j] /\ window[j]' = window[j]
    BY <1>4 DEF Refuse, EndCheck, LimiterTypeOK
  <2>3. ASSUME NEW j \in Checks PROVE AnswerSound(j)'
    BY <2>1, <2>2, <1>w DEF LimiterInv, AnswerSound
  <2> QED BY <2>1, <2>3 DEF LimiterInv, CountsAdmitted
<1>5. CASE Tick \/ UNCHANGED limiterVars
  BY <1>5, <1>w DEF Tick, limiterVars, threadVars, LimiterInv, AnswerSound, CountsAdmitted
<1>6. CASE LimiterRestart
  <2>1. /\ \A k \in Checks : checking[k]' = "idle"
        /\ \A v \in Users : windows[v]'.count = 0 /\ log[v]' = <<>>
    BY <1>6 DEF LimiterRestart, NoWindow
  <2> QED BY <2>1, AdmittedNone DEF AnswerSound, CountsAdmitted
<1> QED BY <1>1, <1>2, <1>3, <1>4, <1>5, <1>6 DEF LimiterNext

\* A promise is made from the window in the dict, and forgotten when one is counted.
LEMMA PromisesStep ==
    ASSUME LimiterTypeOK, LimiterInv, [LimiterNext]_limiterVars, NEW v \in Users
    PROVE  PromisesLate(v)'
<1>w. Window' = Window
  BY DEF Window
<1>1. ASSUME NEW k \in Checks, Admit(k) PROVE PromisesLate(v)'
  <2>1. CASE v = caller[k]
    BY <1>1, <2>1 DEF Admit, LimiterTypeOK, PromisesLate
  <2>2. CASE v # caller[k]
    BY <1>1, <2>2, <1>w DEF Admit, LimiterTypeOK, PromisesLate, LimiterInv
  <2> QED BY <2>1, <2>2
<1>2. ASSUME NEW k \in Checks, Refuse(k) PROVE PromisesLate(v)'
  <2>1. windows' = windows
    BY <1>2 DEF Refuse
  <2>2. CASE v = caller[k] /\ UpToDate(k)
    <3> DEFINE left == Window - (clock[k] - window[k].start)
               wait == TicksPerSecond * RetryAfter(k)
    <3>1. clock[k] \in Nat /\ window[k].start \in Nat /\ clock[k] < window[k].start + Window
      BY <1>2 DEF Refuse, AboutToRefuse, LimiterTypeOK, Windows, LimiterInv, AnswerSound
    <3>2. left \in Nat
      BY <3>1, RemainingTime
    <3>3. wait \in Nat /\ wait > left
      BY <3>2, RoundUp, TimeAssumption DEF RetryAfter
    <3>4. promises'[v] = promises[v] \union {clock[k] + wait}
      BY <1>2, <2>2 DEF Refuse, LimiterTypeOK
    <3> HIDE DEF wait
    <3>5. clock[k] + wait >= windows[v].start + Window
      BY <2>2, <3>1, <3>2, <3>3, WindowType DEF UpToDate
    <3>6. PromisesLate(v)
      BY DEF LimiterInv
    <3> QED BY <2>1, <3>4, <3>5, <3>6, <1>w DEF PromisesLate
  <2>3. CASE ~ (v = caller[k] /\ UpToDate(k))
    <3>1. promises'[v] = promises[v]
      BY <1>2, <2>3 DEF Refuse, LimiterTypeOK
    <3> QED BY <2>1, <3>1, <1>w DEF PromisesLate, LimiterInv
  <2> QED BY <2>2, <2>3
<1>3. CASE LimiterRestart
  BY <1>3 DEF LimiterRestart, NoWindow, PromisesLate
<1>4. CASE UNCHANGED <<windows, promises>>
  BY <1>4, <1>w DEF LimiterInv, PromisesLate
<1> QED BY <1>1, <1>2, <1>3, <1>4
        DEF LimiterNext, ReadClock, ReadWindow, Tick, limiterVars

\* What a user's turn depends on.
LEMMA InTurnFrame ==
    ASSUME LimiterTypeOK, NEW v \in Users, InTurn(v),
           windows'[v] = windows[v], log'[v] = log[v], now' \in Nat, now <= now',
           \A j \in Checks : caller'[j] = v =>
               /\ caller[j] = v /\ clock'[j] = clock[j]
               /\ checking'[j] = "answer" => window'[j] = Current(j)
    PROVE  InTurn(v)'
<1>w. Window' = Window
  BY DEF Window
<1>1. EntriesInWindow(v)' /\ LimitApart(v)'
  BY <1>w DEF InTurn, EntriesInWindow, LimitApart
<1>2. CountIsRecent(v)'
  BY <1>w, LimiterTypes DEF InTurn, CountIsRecent
<1>3. ASSUME NEW k \in Checks, caller'[k] = v
      PROVE  /\ \A j \in Checks : caller'[j] = v => j = k
             /\ windows'[v].start <= clock'[k] /\ clock'[k] <= now'
             /\ checking'[k] = "answer" => window'[k] = Current(k)'
  <2>1. clock[k] \in Nat /\ now \in Nat
    BY BoundAssumption DEF LimiterTypeOK
  <2>2. Current(k)' = Current(k)
    BY <1>3, <1>w DEF Current, Over
  <2> QED BY <1>3, <2>1, <2>2 DEF InTurn, OneAtATime
<1> QED BY <1>1, <1>2, <1>3 DEF InTurn, OneAtATime

\* While a user's checks come one after the other, each finds the dict as it left it.
LEMMA InTurnStep ==
    ASSUME LimiterTypeOK, LimiterInv, [LimiterNext]_limiterVars, NEW v \in Users \ overlapped'
    PROVE  InTurn(v)'
<1>t. now \in Nat
  BY BoundAssumption DEF LimiterTypeOK
<1>1. ASSUME NEW k \in Checks, NEW u \in Users, ReadClock(k, u) PROVE InTurn(v)'
  <2>1. InTurn(v)
    BY <1>1 DEF ReadClock, LimiterInv
  <2>2. CASE v # u
    <3>1. \A j \in Checks : caller'[j] = v =>
             /\ caller[j] = v /\ clock'[j] = clock[j]
             /\ checking'[j] = "answer" => window'[j] = Current(j)
      BY <1>1, <2>1, <2>2 DEF ReadClock, LimiterTypeOK, InTurn, OneAtATime
    <3>2. UNCHANGED <<windows, log, now>>
      BY <1>1 DEF ReadClock
    <3> QED BY <1>t, <2>1, <3>1, <3>2, InTurnFrame
  <2>3. CASE v = u
    <3>1. \A j \in Checks : caller[j] # u
      BY <1>1, <2>3 DEF ReadClock
    <3>2. \A j \in Checks : caller'[j] = u => j = k /\ clock'[j] = now /\ checking'[j] = "read"
      BY <1>1, <3>1 DEF ReadClock, LimiterTypeOK
    <3>3. UNCHANGED <<windows, log, now>>
      BY <1>1 DEF ReadClock
    <3>4. OneAtATime(v)'
      BY <2>1, <2>3, <3>2, <3>3, <1>t DEF OneAtATime, InTurn, CountIsRecent
    <3>5. Window' = Window
      BY DEF Window
    <3> QED BY <2>1, <3>3, <3>4, <3>5 DEF InTurn, EntriesInWindow, CountIsRecent, LimitApart
  <2> QED BY <2>2, <2>3
<1>2. ASSUME NEW k \in Checks, ReadWindow(k) PROVE InTurn(v)'
  <2>1. InTurn(v)
    BY <1>2 DEF ReadWindow, LimiterInv
  <2>2. \A j \in Checks : caller'[j] = v =>
           /\ caller[j] = v /\ clock'[j] = clock[j]
           /\ checking'[j] = "answer" => window'[j] = Current(j)
    BY <1>2, <2>1 DEF ReadWindow, LimiterTypeOK, InTurn, OneAtATime
  <2>3. UNCHANGED <<windows, log, now>>
    BY <1>2 DEF ReadWindow
  <2> QED BY <1>t, <2>1, <2>2, <2>3, InTurnFrame
<1>3. ASSUME NEW k \in Checks, Admit(k) PROVE InTurn(v)'
  <2>1. InTurn(v)
    BY <1>3 DEF Admit, LimiterInv
  <2>2. CASE v # caller[k]
    <3>1. \A j \in Checks : caller'[j] = v =>
             /\ caller[j] = v /\ clock'[j] = clock[j]
             /\ checking'[j] = "answer" => window'[j] = Current(j)
      BY <1>3, <2>1, <2>2, NobodyAssumption DEF Admit, EndCheck, LimiterTypeOK, InTurn, OneAtATime
    <3>2. windows'[v] = windows[v] /\ log'[v] = log[v] /\ now' = now
      BY <1>3, <2>2 DEF Admit, LimiterTypeOK
    <3> QED BY <1>t, <2>1, <3>1, <3>2, InTurnFrame
  <2>3. CASE v = caller[k]
    <3>1. \A j \in Checks : caller'[j] # v
      BY <1>3, <2>1, <2>3, NobodyAssumption DEF Admit, EndCheck, LimiterTypeOK, InTurn, OneAtATime
    <3> QED BY <1>3, <2>1, <2>3, <3>1, AdmitKeepsLog DEF InTurn, OneAtATime
  <2> QED BY <2>2, <2>3
<1>4. ASSUME NEW k \in Checks, Refuse(k) PROVE InTurn(v)'
  <2>1. InTurn(v)
    BY <1>4 DEF Refuse, LimiterInv
  <2>2. \A j \in Checks : caller'[j] = v =>
           /\ caller[j] = v /\ clock'[j] = clock[j]
           /\ checking'[j] = "answer" => window'[j] = Current(j)
    BY <1>4, <2>1, NobodyAssumption DEF Refuse, EndCheck, LimiterTypeOK, InTurn, OneAtATime
  <2>3. UNCHANGED <<windows, log, now>>
    BY <1>4 DEF Refuse
  <2> QED BY <1>t, <2>1, <2>2, <2>3, InTurnFrame
<1>5. CASE Tick \/ UNCHANGED limiterVars
  <2>1. InTurn(v)
    BY <1>5 DEF Tick, limiterVars, LimiterInv
  <2>2. UNCHANGED <<windows, threadVars, log>> /\ now' \in Nat /\ now <= now'
    BY <1>5, <1>t DEF Tick, limiterVars
  <2> QED BY <2>1, <2>2, InTurnFrame DEF threadVars, InTurn, OneAtATime
<1>6. CASE LimiterRestart
  <2>1. /\ windows'[v].start = 0 /\ windows'[v].count = 0 /\ log'[v] = <<>> /\ now' \in Nat
        /\ \A k \in Checks : caller'[k] # v
    BY <1>6, <1>t, NobodyAssumption DEF LimiterRestart, NoWindow
  <2>2. Len(log'[v]) = 0
    BY <2>1
  <2> QED BY <2>1, <2>2, LimitAssumption
          DEF InTurn, OneAtATime, EntriesInWindow, CountIsRecent, LimitApart
<1> QED BY <1>1, <1>2, <1>3, <1>4, <1>5, <1>6 DEF LimiterNext

LEMMA LimiterInvInit == LimiterInit => LimiterTypeOK /\ LimiterInv
<1> SUFFICES ASSUME LimiterInit PROVE LimiterTypeOK /\ LimiterInv
  OBVIOUS
<1>1. LimiterTypeOK
  BY LimitAssumption, BoundAssumption DEF LimiterInit, LimiterTypeOK, NoWindow, Windows
<1>2. /\ \A k \in Checks : checking[k] = "idle" /\ caller[k] = Nobody
      /\ \A u \in Users : /\ windows[u].start = 0 /\ windows[u].count = 0
                          /\ log[u] = <<>> /\ now = 0 /\ promises[u] = {}
  BY DEF LimiterInit, NoWindow
<1>3. \A k \in Checks : AnswerSound(k)
  BY <1>2 DEF AnswerSound
<1>4. \A u \in Users : CountsAdmitted(u) /\ PromisesLate(u)
  BY <1>2, AdmittedNone DEF CountsAdmitted, PromisesLate
<1>5. ASSUME NEW u \in Users PROVE InTurn(u)
  <2>1. Len(log[u]) = 0
    BY <1>2
  <2> QED BY <1>2, <2>1, LimitAssumption, NobodyAssumption
          DEF InTurn, OneAtATime, EntriesInWindow, CountIsRecent, LimitApart
<1> QED BY <1>1, <1>3, <1>4, <1>5 DEF LimiterInv

LEMMA LimiterInvHolds == LimiterSpec => [](LimiterTypeOK /\ LimiterInv)
<1>1. LimiterTypeOK /\ LimiterInv /\ [LimiterNext]_limiterVars => LimiterTypeOK' /\ LimiterInv'
  <2> SUFFICES ASSUME LimiterTypeOK, LimiterInv, [LimiterNext]_limiterVars
               PROVE  LimiterTypeOK' /\ LimiterInv'
    OBVIOUS
  <2>1. LimiterTypeOK'
    BY LimiterTypeStep DEF LimiterInv
  <2>2. \A u \in Users : PromisesLate(u)'
    BY PromisesStep
  <2>3. \A u \in Users \ overlapped' : InTurn(u)'
    BY InTurnStep
  <2> QED BY <2>1, <2>2, <2>3, CountsStep DEF LimiterInv
<1> QED BY LimiterInvInit, <1>1, PTL DEF LimiterSpec

\* Every variable of the limiter stays in its set.
THEOREM LimiterTypeCorrect == LimiterSpec => []LimiterTypeOK
BY LimiterInvHolds, PTL

--------------------------------------------------------------------------------
\* The arithmetic of three windows.
LEMMA WindowsApart ==
    ASSUME NEW a1 \in Nat, NEW s1 \in Nat, NEW s2 \in Nat, NEW s3 \in Nat, NEW a3 \in Nat,
           NEW w \in Nat, a1 < s1 + w, s1 + w <= s2, s2 + w <= s3, s3 <= a3
    PROVE  a3 - a1 > w
OBVIOUS

\* Two windows lie between the first and the last of 2 * Limit + 1 requests.
LEMMA BurstFromInv == LimiterTypeOK /\ LimiterInv => BurstBound
<1> SUFFICES ASSUME LimiterTypeOK, LimiterInv, NEW u \in Users \ overlapped,
                    NEW i \in 1 .. Len(log[u]) - 2 * Limit
             PROVE  log[u][i + 2 * Limit].at - log[u][i].at > Window
  BY DEF BurstBound
<1> DEFINE j == i + Limit
           k == i + 2 * Limit
<1>1. /\ Len(log[u]) \in Nat /\ Limit \in Nat /\ Limit >= 1 /\ Window \in Nat /\ i \in Nat
      /\ \A m \in 1 .. Len(log[u]) : log[u][m].at \in Nat /\ log[u][m].start \in Nat
  BY LimiterTypes, LimitAssumption, WindowType
<1>2. /\ i \in 1 .. Len(log[u]) - Limit /\ j \in 1 .. Len(log[u]) - Limit
      /\ j + Limit = k /\ k \in 1 .. Len(log[u]) /\ i \in 1 .. Len(log[u]) /\ j \in 1 .. Len(log[u])
  BY <1>1
<1> HIDE DEF j, k
<1>3. log[u][i].start + Window <= log[u][j].start /\ log[u][j].start + Window <= log[u][k].start
  BY <1>2 DEF LimiterInv, InTurn, LimitApart, j
<1>4. log[u][i].at < log[u][i].start + Window /\ log[u][k].start <= log[u][k].at
  BY <1>2 DEF LimiterInv, InTurn, EntriesInWindow
<1>5. log[u][k].at - log[u][i].at > Window
  <2>1. log[u][i].at \in Nat /\ log[u][i].start \in Nat /\ log[u][j].start \in Nat
        /\ log[u][k].at \in Nat /\ log[u][k].start \in Nat /\ Window \in Nat
    BY <1>1, <1>2
  <2> QED BY <2>1, <1>3, <1>4, WindowsApart
<1> QED BY <1>5 DEF k

\* A promise lies behind the end of the window, so its time finds the window over.
LEMMA RetryFromInv == LimiterTypeOK /\ LimiterInv => RetryAfterKept
<1> SUFFICES ASSUME LimiterTypeOK, LimiterInv, NEW k \in Checks, AboutToRefuse(k), UpToDate(k),
                    NEW p \in promises[caller[k]]
             PROVE  clock[k] < p
  BY DEF RetryAfterKept
<1>1. caller[k] \in Users /\ checking[k] = "answer"
  BY DEF AboutToRefuse, LimiterTypeOK
<1>2. /\ clock[k] \in Nat /\ window[k].start \in Nat /\ p \in Nat
      /\ windows[caller[k]] = window[k] /\ window[k].count # 0
  BY <1>1, LimitAssumption DEF LimiterTypeOK, Windows, UpToDate, AboutToRefuse
<1>3. p >= window[k].start + Window
  BY <1>1, <1>2 DEF LimiterInv, PromisesLate
<1>4. clock[k] < window[k].start + Window
  BY <1>1 DEF LimiterInv, AnswerSound
<1> QED BY <1>2, <1>3, <1>4, WindowType

\* _check_and_increment: at most 2 * Limit requests within a window's length of a user whose
\* requests come one after the other, by any clock and whatever the other users send.
THEOREM BurstBoundHolds == LimiterSpec => []BurstBound
BY LimiterInvHolds, BurstFromInv, PTL

\* enforce_rate_limit: whoever waits as told is not refused again, however checks overlap.
THEOREM RetryAfterKeptHolds == LimiterSpec => []RetryAfterKept
BY LimiterInvHolds, RetryFromInv, PTL

\* _check_and_increment: nobody is refused before the limit is reached, however checks overlap.
THEOREM RefusedOnlyAtLimitHolds == LimiterSpec => []RefusedOnlyAtLimit
<1>1. LimiterTypeOK /\ LimiterInv => RefusedOnlyAtLimit
  <2> SUFFICES ASSUME LimiterTypeOK, LimiterInv, NEW k \in Checks, AboutToRefuse(k)
               PROVE  AdmittedIn(log[caller[k]], window[k].start) >= Limit
    BY DEF RefusedOnlyAtLimit
  <2>1. PICK u \in Users : u = caller[k]
    BY DEF AboutToRefuse, LimiterTypeOK
  <2>2. PICK t : t = window[k].start
    OBVIOUS
  <2>3. window[k].count \in Nat /\ window[k].count >= Limit /\ window[k].count <= AdmittedIn(log[u], t)
    BY <2>1, <2>2 DEF AboutToRefuse, LimiterTypeOK, Windows, LimiterInv, AnswerSound
  <2>4. AdmittedIn(log[u], t) \in Nat
    BY AdmittedNat
  <2>5. AdmittedIn(log[u], t) >= Limit
    BY <2>3, <2>4, LimitAssumption
  <2> QED BY <2>1, <2>2, <2>5
<1> QED BY LimiterInvHolds, <1>1, PTL
================================================================================
