------------------------------ MODULE SearchProofs ------------------------------
(***************************************************************************)
(* What is searched, for any points, scores, days and limits.  First the   *)
(* ranking the searches share; then retrieval, the ranges of its dates,    *)
(* and the courses that captures are matched with.  A set of points ranked *)
(* by a key is finite, so that the best of them exists: what the code      *)
(* computes item by item is reasoned about as what is ahead of what.       *)
(***************************************************************************)
EXTENDS Retrieval, DateRanges, CaptureMatch, FiniteSetTheorems, TLAPS

--------------------------------------------------------------------------------
\* The ranking.  A key that tells all of a finite set apart.
Ranks(points, key) ==
    /\ IsFiniteSet(points)
    /\ \A p \in points : key[p] \in Int
    /\ \A p, q \in points : key[p] = key[q] => p = q

LEMMA RanksPart ==
    ASSUME NEW U, NEW key, Ranks(U, key), NEW S, S \subseteq U
    PROVE  Ranks(S, key)
  BY FS_Subset DEF Ranks

LEMMA AheadCounts ==
    ASSUME NEW U, IsFiniteSet(U), NEW key, NEW p
    PROVE  IsFiniteSet(Ahead(U, key, p)) /\ Cardinality(Ahead(U, key, p)) \in Nat
<1>1. Ahead(U, key, p) \subseteq U
  BY DEF Ahead
<1> QED BY <1>1, FS_Subset, FS_CardinalityType

\* Of two, the better one has fewer ahead of it.
LEMMA AheadOfBetter ==
    ASSUME NEW U, NEW key, Ranks(U, key), NEW p \in U, NEW q \in U, key[p] > key[q]
    PROVE  Cardinality(Ahead(U, key, p)) < Cardinality(Ahead(U, key, q))
<1>1. Ahead(U, key, p) \subseteq Ahead(U, key, q) /\ p \in Ahead(U, key, q) /\ p \notin Ahead(U, key, p)
  BY DEF Ranks, Ahead
<1>2. /\ IsFiniteSet(Ahead(U, key, q))
      /\ Cardinality(Ahead(U, key, p)) \in Nat /\ Cardinality(Ahead(U, key, q)) \in Nat
  BY AheadCounts DEF Ranks
<1>3. /\ Cardinality(Ahead(U, key, p)) <= Cardinality(Ahead(U, key, q))
      /\ Cardinality(Ahead(U, key, p)) # Cardinality(Ahead(U, key, q))
  BY <1>1, <1>2, FS_Subset
<1> QED BY <1>2, <1>3

\* Who is among the best of a pool is so in a part of it.
LEMMA BestInPart ==
    ASSUME NEW U, IsFiniteSet(U), NEW key, NEW S, S \subseteq U, NEW n \in Nat,
           NEW p \in S, p \in Best(U, key, n)
    PROVE  p \in Best(S, key, n)
<1>1. Ahead(S, key, p) \subseteq Ahead(U, key, p)
  BY DEF Ahead
<1>2. IsFiniteSet(S)
  BY FS_Subset
<1>3. /\ IsFiniteSet(Ahead(U, key, p))
      /\ Cardinality(Ahead(S, key, p)) \in Nat /\ Cardinality(Ahead(U, key, p)) \in Nat
  BY <1>2, AheadCounts
<1>4. Cardinality(Ahead(S, key, p)) <= Cardinality(Ahead(U, key, p))
  BY <1>1, <1>3, FS_Subset
<1> QED BY <1>3, <1>4 DEF Best

\* Who is better than one of the best is one of them.
LEMMA BetterIsBest ==
    ASSUME NEW U, NEW key, Ranks(U, key), NEW n \in Nat,
           NEW p \in Best(U, key, n), NEW q \in U, key[q] > key[p]
    PROVE  q \in Best(U, key, n)
<1>1. p \in U /\ Cardinality(Ahead(U, key, p)) < n
  BY DEF Best
<1>2. Cardinality(Ahead(U, key, q)) < Cardinality(Ahead(U, key, p))
  BY <1>1, AheadOfBetter
<1>3. Cardinality(Ahead(U, key, q)) \in Nat /\ Cardinality(Ahead(U, key, p)) \in Nat
  BY AheadCounts DEF Ranks
<1> QED BY <1>1, <1>2, <1>3 DEF Best

\* Every place is taken, by one alone.
LEMMA PlaceTaken ==
    ASSUME NEW U, NEW key, Ranks(U, key)
    PROVE  /\ \A p \in U : Cardinality(Ahead(U, key, p)) \in 0 .. Cardinality(U) - 1
           /\ \A p, q \in U : Cardinality(Ahead(U, key, p)) = Cardinality(Ahead(U, key, q)) => p = q
           /\ \A k \in 0 .. Cardinality(U) - 1 : \E p \in U : Cardinality(Ahead(U, key, p)) = k
<1> DEFINE place == [p \in U |-> Cardinality(Ahead(U, key, p))]
           taken == {place[p] : p \in U}
           n == Cardinality(U)
<1>1. IsFiniteSet(U) /\ n \in Nat
  BY FS_CardinalityType DEF Ranks
<1>2. ASSUME NEW p \in U PROVE place[p] \in 0 .. n - 1
  <2>1. Ahead(U, key, p) \subseteq U /\ Ahead(U, key, p) # U
    BY DEF Ahead, Ranks
  <2>2. Cardinality(Ahead(U, key, p)) \in Nat /\ Cardinality(Ahead(U, key, p)) <= n
        /\ Cardinality(Ahead(U, key, p)) # n
    BY <1>1, <2>1, FS_Subset, AheadCounts
  <2> QED BY <1>1, <2>2
<1>3. ASSUME NEW p \in U, NEW q \in U, place[p] = place[q] PROVE p = q
  <2>1. ~(key[p] > key[q]) /\ ~(key[q] > key[p])
    <3>1. Cardinality(Ahead(U, key, p)) \in Nat
      BY <1>1, AheadCounts
    <3> QED BY <1>3, <3>1, AheadOfBetter
  <2> QED BY <2>1 DEF Ranks
<1> HIDE DEF place, n
<1>4. place \in Bijection(U, taken)
  <2>1. place \in [U -> taken]
    BY DEF place
  <2> HIDE DEF taken
  <2>2. \A t \in taken : \E p \in U : place[p] = t
    BY DEF taken
  <2> QED BY <1>3, <2>1, <2>2 DEF Bijection, Injection, Surjection, IsInjective
<1>5. IsFiniteSet(taken) /\ Cardinality(taken) = n
  BY <1>1, <1>4, FS_Bijection DEF ExistsBijection, n
<1>6. taken \subseteq 0 .. n - 1
  BY <1>2
<1>7. IsFiniteSet(0 .. n - 1) /\ Cardinality(0 .. n - 1) = n
  BY <1>1, FS_Interval
<1>8. taken = 0 .. n - 1
  BY <1>5, <1>6, <1>7, FS_Subset
<1> QED BY <1>2, <1>3, <1>8 DEF place, n

\* One of any comes first: how an induction over the items is done here.
LEMMA FirstExists ==
    ASSUME NEW U, NEW key, Ranks(U, key), U # {}
    PROVE  \E p \in U : Ahead(U, key, p) = {}
<1>1. Cardinality(U) \in Nat /\ Cardinality(U) # 0
  BY FS_CardinalityType, FS_EmptySet DEF Ranks
<1>2. PICK p \in U : Cardinality(Ahead(U, key, p)) = 0
  BY <1>1, PlaceTaken
<1> QED BY <1>2, AheadCounts, FS_EmptySet DEF Ranks

\* The best are as many as asked for, or all.
LEMMA BestCounts ==
    ASSUME NEW U, NEW key, Ranks(U, key), NEW n \in Nat
    PROVE  /\ IsFiniteSet(Best(U, key, n)) /\ Best(U, key, n) \subseteq U
           /\ IF n <= Cardinality(U) THEN Cardinality(Best(U, key, n)) = n ELSE Best(U, key, n) = U
<1> DEFINE B == Best(U, key, n)
           place == [p \in B |-> Cardinality(Ahead(U, key, p))]
<1>1. IsFiniteSet(U) /\ Cardinality(U) \in Nat
  BY FS_CardinalityType DEF Ranks
<1>2. B \subseteq U /\ IsFiniteSet(B)
  BY <1>1, FS_Subset DEF Best
<1>3. ASSUME n <= Cardinality(U) PROVE Cardinality(B) = n
  <2>1. \A p \in B : Cardinality(Ahead(U, key, p)) \in 0 .. n - 1
    BY <1>1, PlaceTaken DEF Best
  <2>2. \A p, q \in B : Cardinality(Ahead(U, key, p)) = Cardinality(Ahead(U, key, q)) => p = q
    BY <1>2, PlaceTaken
  <2>3. ASSUME NEW k \in 0 .. n - 1 PROVE \E p \in B : Cardinality(Ahead(U, key, p)) = k
    <3>1. k \in 0 .. Cardinality(U) - 1
      BY <1>1, <1>3
    <3>2. PICK p \in U : Cardinality(Ahead(U, key, p)) = k
      BY <3>1, PlaceTaken
    <3> QED BY <3>2 DEF Best
  <2> HIDE DEF B
  <2>4. place \in Bijection(B, 0 .. n - 1)
    BY <2>1, <2>2, <2>3 DEF Bijection, Injection, Surjection, IsInjective
  <2>5. Cardinality(0 .. n - 1) = n
    BY FS_Interval
  <2> HIDE DEF place
  <2> QED BY <1>2, <2>4, <2>5, FS_Bijection DEF ExistsBijection
<1>4. ASSUME ~(n <= Cardinality(U)) PROVE B = U
  BY <1>1, <1>4, PlaceTaken DEF Best
<1> QED BY <1>2, <1>3, <1>4

\* The list has every point once, the better ones first.
LEMMA InOrderLists ==
    ASSUME NEW U, NEW key, Ranks(U, key), NEW L, L = InOrder(U, key)
    PROVE  /\ Cardinality(U) \in Nat /\ L \in Seq(U) /\ Len(L) = Cardinality(U)
           /\ \A i \in 1 .. Len(L) : L[i] \in U
           /\ \A i, j \in 1 .. Len(L) : i # j => L[i] # L[j]
           /\ \A p \in U : \E i \in 1 .. Len(L) : L[i] = p
           /\ \A i, j \in 1 .. Len(L) : i < j => key[L[i]] > key[L[j]]
<1> DEFINE n == Cardinality(U)
           place(p) == Cardinality(Ahead(U, key, p))
<1>1. n \in Nat
  BY FS_CardinalityType DEF Ranks
<1>2. /\ \A p \in U : place(p) \in 0 .. n - 1
      /\ \A p, q \in U : place(p) = place(q) => p = q
      /\ \A k \in 0 .. n - 1 : \E p \in U : place(p) = k
  BY PlaceTaken
<1>3. L = [k \in 1 .. n |-> CHOOSE p \in U : place(p) = k - 1]
  BY DEF InOrder
<1>4. \A p, q \in U : key[p] > key[q] => place(p) < place(q)
  BY AheadOfBetter
<1>5. \A p, q \in U : key[p] \in Int /\ key[q] \in Int /\ (key[p] = key[q] => p = q)
  BY DEF Ranks
<1> HIDE DEF n, place
<1>6. ASSUME NEW k \in 1 .. n PROVE L[k] \in U /\ place(L[k]) = k - 1
  <2>1. k - 1 \in 0 .. n - 1
    BY <1>1
  <2>2. \E p \in U : place(p) = k - 1
    BY <1>2, <2>1
  <2> QED BY <1>3, <2>2
<1>7. L \in Seq(U) /\ Len(L) = n
  <2>1. L \in [1 .. n -> U]
    BY <1>3, <1>6
  <2> QED BY <1>1, <2>1
<1>8. ASSUME NEW p \in U PROVE \E i \in 1 .. n : L[i] = p
  <2>1. place(p) + 1 \in 1 .. n
    BY <1>1, <1>2
  <2>2. L[place(p) + 1] \in U /\ place(L[place(p) + 1]) = place(p)
    BY <1>1, <1>2, <1>6, <2>1
  <2> QED BY <1>2, <2>1, <2>2
<1>9. ASSUME NEW i \in 1 .. n, NEW j \in 1 .. n, i < j PROVE key[L[i]] > key[L[j]]
  <2>1. L[i] \in U /\ L[j] \in U /\ place(L[i]) = i - 1 /\ place(L[j]) = j - 1
    BY <1>6
  <2>2. ~(place(L[j]) < place(L[i])) /\ place(L[i]) # place(L[j])
    BY <1>1, <1>9, <2>1
  <2>3. ~(key[L[j]] > key[L[i]]) /\ L[i] # L[j]
    BY <1>4, <2>1, <2>2
  <2> QED BY <1>5, <2>1, <2>3
<1>10. ASSUME NEW i \in 1 .. n, NEW j \in 1 .. n, i # j PROVE L[i] # L[j]
  BY <1>1, <1>6, <1>10
<1> QED BY <1>1, <1>6, <1>7, <1>8, <1>9, <1>10 DEF n

--------------------------------------------------------------------------------
\* Retrieval.  Lists first.
LEMMA FirstOfList ==
    ASSUME NEW S, NEW s \in Seq(S), NEW n \in Nat, NEW t, t = First(s, n)
    PROVE  /\ t \in Seq(S) /\ Len(t) = IF n < Len(s) THEN n ELSE Len(s)
           /\ \A i \in 1 .. Len(t) : i \in 1 .. Len(s) /\ t[i] = s[i]
  BY DEF First

\* All of one list differ.
Distinct(s) == \A i, j \in 1 .. Len(s) : i # j => s[i] # s[j]

LEMMA Joined ==
    ASSUME NEW S, NEW s \in Seq(S), NEW t \in Seq(S)
    PROVE  /\ s \o t \in Seq(S) /\ Len(s \o t) = Len(s) + Len(t)
           /\ \A i \in 1 .. Len(s) : (s \o t)[i] = s[i]
           /\ \A i \in 1 .. Len(t) : (s \o t)[Len(s) + i] = t[i]
  OBVIOUS

LEMMA JoinedDistinct ==
    ASSUME NEW S, NEW s \in Seq(S), NEW t \in Seq(S), Distinct(s), Distinct(t),
           \A i \in 1 .. Len(s), j \in 1 .. Len(t) : s[i] # t[j]
    PROVE  Distinct(s \o t)
<1> DEFINE u == s \o t
           n == Len(s)
           m == Len(t)
<1>1. /\ Len(u) = n + m /\ n \in Nat /\ m \in Nat
      /\ \A i \in 1 .. n : u[i] = s[i]
      /\ \A i \in 1 .. m : u[n + i] = t[i]
  BY Joined
<1> HIDE DEF u, n, m
<1>2. \A i \in n + 1 .. n + m : i - n \in 1 .. m /\ u[i] = t[i - n]
  <2> SUFFICES ASSUME NEW i \in n + 1 .. n + m PROVE i - n \in 1 .. m /\ u[i] = t[i - n]
    OBVIOUS
  <2>1. i - n \in 1 .. m /\ n + (i - n) = i
    BY <1>1
  <2> QED BY <1>1, <2>1
<1>3. ASSUME NEW i \in 1 .. n + m, NEW j \in 1 .. n + m, i < j PROVE u[i] # u[j]
  <2>1. CASE j <= n
    <3>1. i \in 1 .. n /\ j \in 1 .. n
      BY <1>1, <1>3, <2>1
    <3> QED BY <1>1, <1>3, <3>1 DEF Distinct, n
  <2>2. CASE i <= n /\ n < j
    <3>1. i \in 1 .. n /\ j \in n + 1 .. n + m
      BY <1>1, <1>3, <2>2
    <3>2. j - n \in 1 .. m /\ u[i] = s[i] /\ u[j] = t[j - n]
      BY <1>1, <1>2, <3>1
    <3> QED BY <3>1, <3>2 DEF n, m
  <2>3. CASE n < i
    <3>1. i \in n + 1 .. n + m /\ j \in n + 1 .. n + m
      BY <1>1, <1>3, <2>3
    <3>2. /\ i - n \in 1 .. m /\ j - n \in 1 .. m /\ i - n # j - n
          /\ u[i] = t[i - n] /\ u[j] = t[j - n]
      BY <1>1, <1>2, <1>3, <3>1
    <3> QED BY <3>2 DEF Distinct, m
  <2> QED BY <1>1, <1>3, <2>1, <2>2, <2>3
<1>4. ASSUME NEW i \in 1 .. n + m, NEW j \in 1 .. n + m, i # j PROVE u[i] # u[j]
  <2>1. i < j \/ j < i
    BY <1>1, <1>4
  <2> QED BY <1>3, <2>1
<1> QED BY <1>1, <1>4 DEF Distinct, u

LEMMA NumbersRank ==
    ASSUME NEW I, I \subseteq Int, IsFiniteSet(I)
    PROVE  Ranks(I, Upwards(I))
  BY DEF Ranks, Upwards

\* Where a number is said first.
LEMMA SaidFirst ==
    ASSUME NEW reply \in Seq(Int), NEW i \in 1 .. Len(reply)
    PROVE  \E j \in 1 .. Len(reply) : reply[j] = reply[i] /\ \A l \in 1 .. j - 1 : reply[l] # reply[i]
<1> DEFINE I == {j \in 1 .. Len(reply) : reply[j] = reply[i]}
<1>1. I \subseteq Int /\ I # {} /\ IsFiniteSet(I)
  <2>1. IsFiniteSet(1 .. Len(reply))
    BY FS_Interval
  <2> QED BY <2>1, FS_Subset
<1>2. Ranks(I, Upwards(I))
  <2> HIDE DEF I
  <2> QED BY <1>1, NumbersRank
<1>3. PICK j \in I : Ahead(I, Upwards(I), j) = {}
  <2> HIDE DEF I
  <2> QED BY <1>1, <1>2, FirstExists
<1>4. ASSUME NEW l \in 1 .. j - 1, reply[l] = reply[i] PROVE FALSE
  <2>1. l \in I /\ l < j
    BY <1>4
  <2>2. Upwards(I)[l] > Upwards(I)[j]
    BY <2>1, <1>1 DEF Upwards
  <2> QED BY <1>3, <2>1, <2>2 DEF Ahead
<1> QED BY <1>3, <1>4

\* A reply puts the numbers below n in an order, each once.
LEMMA OrderIsOne ==
    ASSUME NEW reply \in Seq(Int), NEW n \in Nat, NEW o, o = Order(reply, n)
    PROVE  /\ o \in Seq(0 .. n - 1) /\ Len(o) = n
           /\ Distinct(o)
<1> DEFINE I == Said(reply, n)
           U == Unsaid(reply, n)
           a == Ascending(I)
           b == Ascending(U)
           said == [k \in 1 .. Len(a) |-> reply[a[k]]]
           told == [i \in I |-> reply[i]]
           M == {told[i] : i \in I}
<1>1. IsFiniteSet(1 .. Len(reply)) /\ IsFiniteSet(0 .. n - 1) /\ Cardinality(0 .. n - 1) = n
  <2>1. Len(reply) \in Int /\ n - 1 \in Int /\ 0 \in Int /\ 1 \in Int
    OBVIOUS
  <2>2. IsFiniteSet(1 .. Len(reply))
    BY <2>1, FS_Interval
  <2>3. IsFiniteSet(0 .. n - 1) /\ Cardinality(0 .. n - 1) = IF 0 > n - 1 THEN 0 ELSE n - 1 - 0 + 1
    <3> DEFINE m == n - 1
    <3> HIDE DEF m
    <3>1. IsFiniteSet(0 .. m) /\ Cardinality(0 .. m) = IF 0 > m THEN 0 ELSE m - 0 + 1
      BY <2>1, FS_Interval DEF m
    <3> QED BY <3>1 DEF m
  <2> QED BY <2>2, <2>3
<1>2. I \subseteq 1 .. Len(reply) /\ U \subseteq 0 .. n - 1 /\ IsFiniteSet(I) /\ IsFiniteSet(U)
  <2>1. I \subseteq 1 .. Len(reply) /\ U \subseteq 0 .. n - 1
    BY DEF Said, Unsaid
  <2> HIDE DEF I, U
  <2> QED BY <1>1, <2>1, FS_Subset
<1>3. Ranks(I, Upwards(I)) /\ Ranks(U, Upwards(U))
  <2>1. I \subseteq Int /\ U \subseteq Int
    BY <1>2
  <2> QED BY <1>2, <2>1, NumbersRank
<1>4. /\ Cardinality(I) \in Nat /\ a \in Seq(I) /\ Len(a) = Cardinality(I)
      /\ \A k \in 1 .. Len(a) : a[k] \in I
      /\ \A k, l \in 1 .. Len(a) : k # l => a[k] # a[l]
  <2> HIDE DEF I
  <2> QED BY <1>3, InOrderLists DEF Ascending
<1>5. /\ Cardinality(U) \in Nat /\ b \in Seq(U) /\ Len(b) = Cardinality(U)
      /\ \A k \in 1 .. Len(b) : b[k] \in U
      /\ \A k, l \in 1 .. Len(b) : k # l => b[k] # b[l]
  <2> HIDE DEF U
  <2> QED BY <1>3, InOrderLists DEF Ascending
<1>6. ASSUME NEW i \in I, NEW j \in I, reply[i] = reply[j] PROVE i = j
  <2>1. i \in Nat /\ j \in Nat /\ i >= 1 /\ j >= 1
    BY <1>2
  <2>2. ~(i < j) /\ ~(j < i)
    BY <1>6, <2>1 DEF Said
  <2> QED BY <2>1, <2>2
<1>7. M \subseteq 0 .. n - 1 /\ U = (0 .. n - 1) \ M
  <2>1. M \subseteq 0 .. n - 1
    BY DEF Said
  <2>2. ASSUME NEW k \in U PROVE k \notin M
    BY <1>2 DEF Unsaid
  <2>3. ASSUME NEW k \in 0 .. n - 1, k \notin M PROVE k \in U
    <3> SUFFICES ASSUME NEW i \in 1 .. Len(reply), reply[i] = k PROVE FALSE
      BY DEF Unsaid
    <3>1. PICK j \in 1 .. Len(reply) : reply[j] = reply[i] /\ \A l \in 1 .. j - 1 : reply[l] # reply[i]
      BY SaidFirst
    <3>2. j \in I
      BY <3>1 DEF Said
    <3>3. told[j] = k
      BY <3>1, <3>2
    <3> QED BY <2>3, <3>2, <3>3
  <2> QED BY <1>2, <2>1, <2>2, <2>3
<1>8. IsFiniteSet(M) /\ Cardinality(M) = Cardinality(I)
  <2>1. told \in Bijection(I, M)
    <3>1. \A i, j \in I : told[i] = told[j] => i = j
      BY <1>6
    <3>2. told \in [I -> M]
      OBVIOUS
    <3>3. \A m \in M : \E i \in I : told[i] = m
      OBVIOUS
    <3> HIDE DEF told, M, I
    <3> QED BY <3>1, <3>2, <3>3 DEF Bijection, Injection, Surjection, IsInjective
  <2> HIDE DEF told, M, I
  <2> QED BY <1>2, <2>1, FS_Bijection DEF ExistsBijection
<1> HIDE DEF told, M
<1>9. Cardinality(I) + Cardinality(U) = n
  <2> HIDE DEF I, U
  <2>1. (0 .. n - 1) \intersect M = M
    BY <1>7
  <2> DEFINE N == 0 .. n - 1
  <2>2. IsFiniteSet(N) /\ Cardinality(N) = n /\ U = N \ M /\ N \intersect M = M
    BY <1>1, <1>7, <2>1
  <2> HIDE DEF N
  <2>3. Cardinality(U) = n - Cardinality(M)
    BY <2>2, FS_Difference
  <2> QED BY <1>4, <1>5, <1>8, <2>3
<1>10. o = said \o b
  BY DEF Order
<1> HIDE DEF a, b
<1>11. said \in Seq(0 .. n - 1) /\ Len(said) = Len(a) /\ \A k \in 1 .. Len(a) : said[k] = reply[a[k]]
  <2>1. \A k \in 1 .. Len(a) : reply[a[k]] \in 0 .. n - 1
    BY <1>4 DEF Said
  <2>2. Len(a) \in Nat
    BY <1>4
  <2> HIDE DEF I
  <2>3. said \in [1 .. Len(a) -> 0 .. n - 1]
    BY <2>1
  <2> QED BY <2>2, <2>3
<1> HIDE DEF said
<1>12. b \in Seq(0 .. n - 1) /\ Len(b) \in Nat
  <2> HIDE DEF U
  <2>1. \A k \in 1 .. Len(b) : b[k] \in 0 .. n - 1
    BY <1>2, <1>5
  <2> HIDE DEF b
  <2> QED BY <1>5, <2>1
<1>13. Distinct(said)
  <2> HIDE DEF I
  <2> QED BY <1>4, <1>6, <1>11 DEF Distinct
<1>14. ASSUME NEW i \in 1 .. Len(said), NEW j \in 1 .. Len(b) PROVE said[i] # b[j]
  <2>1. said[i] = reply[a[i]] /\ a[i] \in 1 .. Len(reply)
    BY <1>2, <1>4, <1>11
  <2>2. b[j] \in U
    BY <1>5
  <2> QED BY <2>1, <2>2 DEF Unsaid
<1> HIDE DEF I, U
<1>15. Distinct(b)
  BY <1>5 DEF Distinct
<1>16. o \in Seq(0 .. n - 1) /\ Len(o) = n
  <2>1. o \in Seq(0 .. n - 1) /\ Len(o) = Len(said) + Len(b)
    BY <1>10, <1>11, <1>12, Joined
  <2> QED BY <1>4, <1>5, <1>9, <1>11, <2>1
<1>17. Distinct(o)
  BY <1>10, <1>11, <1>12, <1>13, <1>14, <1>15, JoinedDistinct
<1> QED BY <1>16, <1>17

LEMMA RerankedIsOne ==
    ASSUME NEW S, NEW s \in Seq(S), Distinct(s), NEW reply \in Seq(Int), NEW t, t = Reranked(s, reply)
    PROVE  t \in Seq(S) /\ Len(t) = Len(s) /\ Distinct(t)
<1> DEFINE n == Len(s)
           o == Order(reply, n)
<1>1. n \in Nat /\ o \in Seq(0 .. n - 1) /\ Len(o) = n /\ Distinct(o)
  <2>1. n \in Nat
    OBVIOUS
  <2> HIDE DEF n
  <2> QED BY <2>1, OrderIsOne
<1>2. t = [k \in 1 .. n |-> s[o[k] + 1]]
  BY <1>1 DEF Reranked
<1> HIDE DEF o
<1>3. \A k \in 1 .. n : o[k] \in 0 .. n - 1 /\ o[k] + 1 \in 1 .. n
  BY <1>1
<1>4. t \in Seq(S) /\ Len(t) = n
  <2>1. \A k \in 1 .. n : s[o[k] + 1] \in S
    BY <1>3
  <2> HIDE DEF n
  <2>2. t \in [1 .. n -> S]
    BY <1>2, <2>1
  <2> QED BY <1>1, <1>2, <2>2
<1>5. ASSUME NEW i \in 1 .. n, NEW j \in 1 .. n, i # j PROVE t[i] # t[j]
  <2>1. o[i] # o[j] /\ o[i] \in Int /\ o[j] \in Int
    BY <1>1, <1>3, <1>5 DEF Distinct
  <2>2. o[i] + 1 # o[j] + 1
    BY <2>1
  <2> QED BY <1>2, <1>3, <2>2 DEF Distinct
<1> QED BY <1>4, <1>5 DEF Distinct

--------------------------------------------------------------------------------
\* What was found and told.
RetrievalFlags == exact \in BOOLEAN /\ windowed \in BOOLEAN

RetrievalValues ==
    /\ stage \in {"idle", "asked", "found", "answered"}
    /\ similarity \in Rankings /\ daysAway \in [Sessions -> 0 .. MaxDays] /\ near \subseteq Sessions
    /\ hits \subseteq Points /\ dated \subseteq SessionChunks /\ worth \in [Points -> Int]
    /\ answer \in Seq(Points)

\* What is found by date is told apart, and is what the range asked for.
Searched ==
    /\ \A p, q \in Points : worth[p] = worth[q] => p = q
    /\ stage \in {"found", "answered"} =>
          /\ dated \subseteq hits
          /\ windowed =>
                \E sooner \in Sooner :
                    dated = Best({c \in SessionChunks : SessionOf[c] \in near}, sooner,
                                 IF exact THEN RangeCap ELSE WindowTopK)
    /\ stage = "answered" => \E reply \in Replies : answer = Cut(reply)

RetrievalInv == RetrievalFlags /\ RetrievalValues /\ Searched

LEMMA HitsRank ==
    ASSUME RetrievalInv, NEW U, U \subseteq hits
    PROVE  Ranks(U, worth)
<1>1. IsFiniteSet(Points)
  BY PointsAssumption, FS_Union DEF Points
<1>2. U \subseteq Points
  BY DEF RetrievalInv, RetrievalValues
<1>3. IsFiniteSet(U)
  BY <1>1, <1>2, FS_Subset
<1> QED BY <1>2, <1>3 DEF Ranks, RetrievalInv, RetrievalValues, Searched

\* The answer's two parts.
LEMMA AnswerParts ==
    ASSUME RetrievalInv, stage = "answered"
    PROVE  \E a, b \in Seq(hits) :
              /\ answer = a \o b /\ Distinct(answer) /\ answer \in Seq(hits)
              /\ \A i \in 1 .. Len(a) : Exact(a[i]) /\ a[i] = InOrder(ExactHits, worth)[i]
              /\ \A i \in 1 .. Len(b) : ~Exact(b[i])
              /\ Len(a) = IF RangeCap < Cardinality(ExactHits) THEN RangeCap ELSE Cardinality(ExactHits)
              /\ Len(b) = IF TopK < Cardinality(PlainHits) THEN TopK ELSE Cardinality(PlainHits)
<1>1. PICK reply \in Replies : answer = Cut(reply)
  BY DEF RetrievalInv, Searched
<1> DEFINE e == InOrder(ExactHits, worth)
           l == InOrder(PlainHits, worth)
           r == Reranked(l, reply)
           a == First(e, RangeCap)
           b == First(r, TopK)
<1>2. /\ e \in Seq(ExactHits) /\ Len(e) = Cardinality(ExactHits) /\ Distinct(e)
      /\ l \in Seq(PlainHits) /\ Len(l) = Cardinality(PlainHits) /\ Distinct(l)
  <2>1. Ranks(ExactHits, worth) /\ Ranks(PlainHits, worth)
    BY HitsRank DEF ExactHits, PlainHits
  <2> QED BY <2>1, InOrderLists DEF Distinct
<1>3. r \in Seq(PlainHits) /\ Len(r) = Cardinality(PlainHits) /\ Distinct(r)
  <2> HIDE DEF l
  <2> QED BY <1>2, RepliesAssumption, RerankedIsOne
<1>4. /\ a \in Seq(ExactHits) /\ Len(a) = IF RangeCap < Len(e) THEN RangeCap ELSE Len(e)
      /\ \A i \in 1 .. Len(a) : i \in 1 .. Len(e) /\ a[i] = e[i]
  <2> HIDE DEF e
  <2> QED BY <1>2, QuotasAssumption, FirstOfList
<1>5. /\ b \in Seq(PlainHits) /\ Len(b) = IF TopK < Len(r) THEN TopK ELSE Len(r)
      /\ \A i \in 1 .. Len(b) : i \in 1 .. Len(r) /\ b[i] = r[i]
  <2> HIDE DEF r
  <2> QED BY <1>3, QuotasAssumption, FirstOfList
<1>6. answer = a \o b
  BY <1>1 DEF Cut
<1> HIDE DEF e, l, r, a, b
<1>7. Distinct(a) /\ Distinct(b)
  BY <1>2, <1>3, <1>4, <1>5 DEF Distinct
<1>8. /\ \A i \in 1 .. Len(a) : a[i] \in ExactHits
      /\ \A i \in 1 .. Len(b) : b[i] \in PlainHits
  BY <1>4, <1>5
<1>9. a \in Seq(hits) /\ b \in Seq(hits)
  BY <1>4, <1>5 DEF ExactHits, PlainHits
<1>10. \A i \in 1 .. Len(a), j \in 1 .. Len(b) : a[i] # b[j]
  BY <1>8 DEF ExactHits, PlainHits
<1>11. Distinct(answer) /\ answer \in Seq(hits)
  BY <1>6, <1>7, <1>9, <1>10, Joined, JoinedDistinct
<1> QED BY <1>2, <1>3, <1>4, <1>5, <1>6, <1>8, <1>9, <1>11 DEF e, ExactHits, PlainHits

LEMMA AnswerPlaces ==
    ASSUME RetrievalInv, stage = "answered"
    PROVE  /\ Distinct(answer) /\ \A i \in Places : answer[i] \in hits
           /\ Cardinality({i \in Places : Exact(answer[i])}) =
                 IF RangeCap < Cardinality(ExactHits) THEN RangeCap ELSE Cardinality(ExactHits)
           /\ Cardinality({i \in Places : ~Exact(answer[i])}) =
                 IF TopK < Cardinality(PlainHits) THEN TopK ELSE Cardinality(PlainHits)
<1>1. PICK a \in Seq(hits), b \in Seq(hits) :
              /\ answer = a \o b /\ Distinct(answer) /\ answer \in Seq(hits)
              /\ \A i \in 1 .. Len(a) : Exact(a[i]) /\ a[i] = InOrder(ExactHits, worth)[i]
              /\ \A i \in 1 .. Len(b) : ~Exact(b[i])
              /\ Len(a) = IF RangeCap < Cardinality(ExactHits) THEN RangeCap ELSE Cardinality(ExactHits)
              /\ Len(b) = IF TopK < Cardinality(PlainHits) THEN TopK ELSE Cardinality(PlainHits)
  BY AnswerParts
<1> DEFINE n == Len(a)
           m == Len(b)
<1>2. /\ n \in Nat /\ m \in Nat /\ Len(answer) = n + m
      /\ \A i \in 1 .. n : answer[i] = a[i]
      /\ \A i \in 1 .. m : answer[n + i] = b[i]
  <2>1. answer = a \o b
    BY <1>1
  <2>2. n \in Nat /\ m \in Nat
    OBVIOUS
  <2> QED BY <2>1, <2>2, Joined
<1>3. \A i \in 1 .. n : Exact(answer[i])
  BY <1>1, <1>2
<1>4. \A i \in 1 .. m : ~Exact(answer[n + i])
  BY <1>1, <1>2
<1> HIDE DEF n, m
<1>5. \A i \in n + 1 .. n + m : ~Exact(answer[i])
  <2> SUFFICES ASSUME NEW i \in n + 1 .. n + m PROVE ~Exact(answer[i])
    OBVIOUS
  <2>1. i - n \in 1 .. m /\ n + (i - n) = i
    BY <1>2
  <2> QED BY <1>4, <2>1
<1>6. {i \in Places : Exact(answer[i])} = 1 .. n
  BY <1>2, <1>3, <1>5 DEF Places
<1>7. {i \in Places : ~Exact(answer[i])} = n + 1 .. n + m
  BY <1>2, <1>3, <1>5 DEF Places
<1>8. Cardinality(1 .. n) = n /\ Cardinality(n + 1 .. n + m) = m
  <2> DEFINE leading == n + 1
             last == n + m
  <2>1. n \in Int /\ 1 \in Int /\ leading \in Int /\ last \in Int
    BY <1>2
  <2>2. Cardinality(1 .. n) = IF 1 > n THEN 0 ELSE n - 1 + 1
    BY <2>1, FS_Interval
  <2> HIDE DEF leading, last
  <2>3. Cardinality(leading .. last) = IF leading > last THEN 0 ELSE last - leading + 1
    BY <2>1, FS_Interval
  <2> QED BY <1>2, <2>2, <2>3 DEF leading, last
<1>9. \A i \in Places : answer[i] \in hits
  BY <1>1 DEF Places
<1> QED BY <1>1, <1>6, <1>7, <1>8, <1>9 DEF n, m

LEMMA OnlyReorders == RetrievalInv => RerankOnlyReorders
<1> SUFFICES ASSUME RetrievalInv, stage = "answered"
             PROVE  /\ \A i, j \in Places : i # j => answer[i] # answer[j]
                    /\ \A i \in Places : answer[i] \in hits
                    /\ Cardinality({i \in Places : ~Exact(answer[i])}) =
                          IF Cardinality(PlainHits) < TopK THEN Cardinality(PlainHits) ELSE TopK
  BY DEF RerankOnlyReorders
<1>1. Cardinality(PlainHits) \in Nat
  <2>1. Ranks(PlainHits, worth)
    BY HitsRank DEF PlainHits
  <2> QED BY <2>1, FS_CardinalityType DEF Ranks
<1> QED BY <1>1, AnswerPlaces, QuotasAssumption DEF Distinct, Places

LEMMA DatesKept == RetrievalInv => DatesAnswered
<1> SUFFICES ASSUME RetrievalInv, stage = "answered", exact, windowed,
                    NEW c \in SessionChunks, SessionOf[c] \in near
             PROVE  \/ \E i \in Places : answer[i] = c
                    \/ /\ Cardinality({i \in Places : Exact(answer[i])}) = RangeCap
                       /\ \A i \in Places : Exact(answer[i]) => Days(answer[i]) <= Days(c)
  BY DEF DatesAnswered
<1> DEFINE P == {d \in SessionChunks : SessionOf[d] \in near}
<1>1. PICK sooner \in Sooner : dated = Best(P, sooner, RangeCap)
  BY DEF RetrievalInv, Searched
<1>2. ExactHits = dated
  BY DEF ExactHits, Exact, RetrievalInv, Searched
<1>3. c \in P /\ \A d \in dated : d \in P /\ d \in SessionChunks
  BY <1>1 DEF Best
<1>4. Ranks(P, sooner)
  <2>1. IsFiniteSet(P)
    BY PointsAssumption, FS_Subset
  <2>2. \A d \in SessionChunks : sooner[d] \in Int
    <3>1. Cardinality(SessionChunks) \in Nat
      BY PointsAssumption, FS_CardinalityType
    <3> QED BY <3>1 DEF Sooner
  <2> QED BY <2>1, <2>2 DEF Ranks, Sooner
<1> HIDE DEF P
<1>5. Cardinality(P) \in Nat /\ Cardinality(dated) \in Nat /\ RangeCap \in Nat
      /\ IF RangeCap <= Cardinality(P) THEN Cardinality(dated) = RangeCap ELSE dated = P
  BY <1>1, <1>4, BestCounts, FS_CardinalityType, QuotasAssumption DEF Ranks
<1>6. CASE c \in dated
  <2>1. PICK a \in Seq(hits), b \in Seq(hits) :
              /\ answer = a \o b
              /\ \A i \in 1 .. Len(a) : a[i] = InOrder(ExactHits, worth)[i]
              /\ Len(a) = IF RangeCap < Cardinality(ExactHits) THEN RangeCap ELSE Cardinality(ExactHits)
    BY AnswerParts
  <2>2. Len(a) = Cardinality(dated)
    BY <1>2, <1>5, <2>1
  <2>3. Ranks(dated, worth)
    BY <1>2, HitsRank DEF ExactHits
  <2>4. PICK i \in 1 .. Cardinality(dated) : InOrder(dated, worth)[i] = c
    BY <1>6, <2>3, InOrderLists
  <2>5. answer[i] = c /\ i \in Places
    BY <1>2, <2>1, <2>2, <2>4, Joined DEF Places
  <2> QED BY <2>5
<1>7. CASE c \notin dated
  <2>1. Cardinality(dated) = RangeCap
    BY <1>3, <1>5, <1>7
  <2>2. Cardinality({i \in Places : Exact(answer[i])}) = RangeCap
    BY <1>2, <1>5, <2>1, AnswerPlaces
  <2>3. ASSUME NEW d \in dated PROVE Days(d) <= Days(c)
    <3>1. d \in P /\ sooner[d] \in Int /\ sooner[c] \in Int /\ d # c
      BY <1>3, <1>4, <1>7, <2>3 DEF Ranks
    <3>2. ~(sooner[c] > sooner[d])
      BY <1>1, <1>3, <1>4, <1>5, <1>7, <2>3, BetterIsBest
    <3>3. ~(Days(c) < Days(d))
      BY <1>3, <3>2 DEF Sooner
    <3>4. Days(c) \in Int /\ Days(d) \in Int
      BY <1>3, QuotasAssumption DEF Days, Sessions, RetrievalInv, RetrievalValues
    <3> QED BY <3>3, <3>4
  <2>4. \A i \in Places : Exact(answer[i]) => answer[i] \in dated
    BY DEF Exact
  <2> QED BY <2>2, <2>3, <2>4
<1> QED BY <1>6, <1>7

--------------------------------------------------------------------------------
LEMMA RankingFacts ==
    /\ AnyRanking \in Rankings
    /\ \A r \in Rankings : r \in [Points -> Int] /\ \A p, q \in Points : r[p] = r[q] => p = q
  BY RankingsAssumption DEF AnyRanking

\* No two of the merged pool have the same place in it.
LEMMA WorthRanks ==
    ASSUME NEW r \in Rankings, NEW sooner \in [SessionChunks -> {-i : i \in 1 .. Cardinality(SessionChunks)}],
           \A c, d \in SessionChunks : sooner[c] = sooner[d] => c = d,
           NEW byDate, byDate \subseteq SessionChunks, NEW w,
           w = [p \in Points |-> IF p \in byDate THEN sooner[p] ELSE r[p] * (Cardinality(SessionChunks) + 1)]
    PROVE  w \in [Points -> Int] /\ \A p, q \in Points : w[p] = w[q] => p = q
<1> DEFINE n == Cardinality(SessionChunks)
<1>1. n \in Nat
  BY PointsAssumption, FS_CardinalityType
<1> HIDE DEF n
<1>2. ASSUME NEW p \in byDate PROVE w[p] \in Int /\ -n <= w[p] /\ w[p] < 0 /\ w[p] = sooner[p]
  BY <1>1, <1>2 DEF Points, n
<1>3. ASSUME NEW x \in Int, x # 0
      PROVE  x * (n + 1) \in Int /\ (x * (n + 1) > 0 \/ x * (n + 1) < -n)
  <2>1. CASE x > 0
    BY <1>1, <2>1, SMTT(30)
  <2>2. CASE x < 0
    BY <1>1, <2>2, SMTT(30)
  <2> QED BY <1>3, <2>1, <2>2
<1>4. ASSUME NEW x \in Int, NEW y \in Int, x * (n + 1) = y * (n + 1) PROVE x = y
  <2>1. (x - y) * (n + 1) = 0
    BY <1>1, <1>4
  <2> QED BY <1>1, <2>1, SMTT(30)
<1>5. ASSUME NEW p \in Points, p \notin byDate
      PROVE  r[p] \in Int /\ r[p] # 0 /\ w[p] = r[p] * (n + 1)
  BY <1>5, RankingsAssumption DEF n
<1>6. /\ \A p \in Points : w[p] \in Int
      /\ \A p \in Points : p \notin byDate => w[p] > 0 \/ w[p] < -n
  <2>1. ASSUME NEW p \in Points, p \notin byDate PROVE w[p] \in Int /\ (w[p] > 0 \/ w[p] < -n)
    BY <1>3, <1>5, <2>1
  <2> QED BY <1>2, <2>1
<1>7. ASSUME NEW p \in Points, NEW q \in Points, w[p] = w[q] PROVE p = q
  <2>1. CASE p \in byDate /\ q \in byDate
    BY <1>2, <1>7, <2>1
  <2>2. CASE p \in byDate /\ q \notin byDate
    <3>1. -n <= w[p] /\ w[p] < 0 /\ w[p] \in Int
      BY <1>2, <2>2
    <3>2. w[q] > 0 \/ w[q] < -n
      BY <1>6, <2>2
    <3> QED BY <1>1, <1>7, <3>1, <3>2
  <2>3. CASE p \notin byDate /\ q \in byDate
    <3>1. -n <= w[q] /\ w[q] < 0 /\ w[q] \in Int
      BY <1>2, <2>3
    <3>2. w[p] > 0 \/ w[p] < -n
      BY <1>6, <2>3
    <3> QED BY <1>1, <1>7, <3>1, <3>2
  <2>4. CASE p \notin byDate /\ q \notin byDate
    <3>1. r[p] = r[q]
      BY <1>4, <1>5, <1>7, <2>4
    <3> QED BY <3>1, RankingFacts
  <2> QED BY <2>1, <2>2, <2>3, <2>4
<1> QED BY <1>6, <1>7

LEMMA RetrievalStarts == RetrievalInit => RetrievalInv
<1> SUFFICES ASSUME RetrievalInit PROVE RetrievalInv
  OBVIOUS
<1>1. RetrievalFlags
  BY DEF RetrievalInit, RetrievalFlags
<1>2. daysAway \in [Sessions -> 0 .. MaxDays]
  BY QuotasAssumption DEF RetrievalInit
<1>3. RetrievalValues /\ Searched
  BY <1>2, RankingFacts DEF RetrievalInit, RetrievalValues, Searched
<1> QED BY <1>1, <1>3 DEF RetrievalInv

LEMMA CutType ==
    ASSUME RetrievalInv, NEW reply \in Replies
    PROVE  Cut(reply) \in Seq(Points)
<1>1. Ranks(ExactHits, worth) /\ Ranks(PlainHits, worth)
  BY HitsRank DEF ExactHits, PlainHits
<1> DEFINE e == InOrder(ExactHits, worth)
           l == InOrder(PlainHits, worth)
           r == Reranked(l, reply)
<1>2. e \in Seq(ExactHits) /\ l \in Seq(PlainHits) /\ Distinct(l)
  BY <1>1, InOrderLists DEF Distinct
<1>3. r \in Seq(PlainHits)
  <2> HIDE DEF l
  <2> QED BY <1>2, RepliesAssumption, RerankedIsOne
<1>4. First(e, RangeCap) \in Seq(ExactHits) /\ First(r, TopK) \in Seq(PlainHits)
  <2> HIDE DEF e, r
  <2> QED BY <1>2, <1>3, QuotasAssumption, FirstOfList
<1>5. ExactHits \subseteq Points /\ PlainHits \subseteq Points
  BY DEF ExactHits, PlainHits, RetrievalInv, RetrievalValues
<1>6. Cut(reply) = First(e, RangeCap) \o First(r, TopK)
  BY DEF Cut
<1> HIDE DEF e, r
<1> DEFINE x == First(e, RangeCap)
           y == First(r, TopK)
<1> HIDE DEF x, y
<1>7. x \in Seq(Points) /\ y \in Seq(Points)
  BY <1>4, <1>5 DEF x, y
<1> QED BY <1>6, <1>7, Joined DEF x, y

LEMMA RetrievalStep == RetrievalInv /\ [RetrievalNext]_retrievalVars => RetrievalInv'
<1> SUFFICES ASSUME RetrievalFlags, RetrievalValues, Searched, [RetrievalNext]_retrievalVars
             PROVE  RetrievalFlags' /\ RetrievalValues' /\ Searched'
  BY DEF RetrievalInv
<1>1. ASSUME NEW r \in Rankings, NEW d \in [Sessions -> 0 .. MaxDays], NEW n \in SUBSET Sessions,
             NEW e \in BOOLEAN, Ask(r, d, n, e)
      PROVE  RetrievalFlags' /\ RetrievalValues' /\ Searched'
  <2>1. RetrievalFlags'
    BY <1>1 DEF Ask, RetrievalFlags
  <2>2. RetrievalValues' /\ Searched'
    BY <1>1 DEF Ask, RetrievalValues, Searched
  <2> QED BY <2>1, <2>2
<1>2. ASSUME NEW notesFail \in BOOLEAN, NEW topicFails \in BOOLEAN, NEW windowFails \in BOOLEAN,
             Search(notesFail, topicFails, windowFails)
      PROVE  RetrievalFlags' /\ RetrievalValues' /\ Searched'
  <2> DEFINE P == {c \in SessionChunks : SessionOf[c] \in near}
             n == IF exact THEN RangeCap ELSE WindowTopK
  <2>1. RetrievalFlags'
    BY <1>2 DEF Search, RetrievalFlags
  <2>2. PICK sooner \in Sooner : dated' = OrNothing(Best(P, sooner, n), windowFails)
                                 /\ worth' = Worth(dated', sooner)
    BY <1>2 DEF Search
  <2>3. dated' \subseteq SessionChunks
    BY <2>2 DEF OrNothing, Best
  <2>4. worth' \in [Points -> Int] /\ \A p, q \in Points : worth'[p] = worth'[q] => p = q
    <3>1. /\ sooner \in [SessionChunks -> {-i : i \in 1 .. Cardinality(SessionChunks)}]
          /\ \A c, d \in SessionChunks : sooner[c] = sooner[d] => c = d
      BY DEF Sooner
    <3>2. similarity \in Rankings
      BY DEF RetrievalValues
    <3> QED BY <2>2, <2>3, <3>1, <3>2, WorthRanks DEF Worth
  <2>5. hits' \subseteq Points /\ dated' \subseteq hits'
    <3>1. hits' = OrNothing(Closest(NoteChunks, Quota), notesFail)
                   \union Merged(dated', OrNothing(Closest(SessionChunks, Quota), topicFails))
      BY <1>2 DEF Search
    <3> QED BY <2>3, <3>1 DEF OrNothing, Closest, Best, Merged, Points
  <2>6. stage' = "found" /\ windowed' = ~windowFails /\ UNCHANGED <<similarity, daysAway, near, exact, answer>>
    BY <1>2 DEF Search
  <2>7. Sooner' = Sooner
    BY <2>6 DEF Sooner, Days
  <2>8. windowed' => dated' = Best(P, sooner, n)
    BY <2>2, <2>6 DEF OrNothing
  <2>9. RetrievalValues'
    BY <2>3, <2>4, <2>5, <2>6 DEF RetrievalValues
  <2>10. Searched'
    <3>1. windowed' => \E f \in Sooner' : dated' = Best({c \in SessionChunks : SessionOf[c] \in near'}, f,
                                                        IF exact' THEN RangeCap ELSE WindowTopK)
      BY <2>6, <2>7, <2>8
    <3> QED BY <2>4, <2>5, <2>6, <3>1 DEF Searched
  <2> QED BY <2>1, <2>9, <2>10
<1>3. ASSUME NEW fails \in BOOLEAN, SearchNotes(fails)
      PROVE  RetrievalFlags' /\ RetrievalValues' /\ Searched'
  <2>1. RetrievalFlags'
    BY <1>3 DEF SearchNotes, RetrievalFlags
  <2>2. RetrievalValues' /\ Searched'
    BY <1>3, RankingFacts DEF SearchNotes, RetrievalValues, Searched, OrNothing, Closest, Best, Points
  <2> QED BY <2>1, <2>2
<1>4. ASSUME NEW reply \in Replies, Tell(reply)
      PROVE  RetrievalFlags' /\ RetrievalValues' /\ Searched'
  <2>1. RetrievalFlags'
    BY <1>4 DEF Tell, RetrievalFlags
  <2>2. RetrievalValues'
    BY <1>4, CutType DEF Tell, RetrievalValues, RetrievalInv
  <2>3. Cut(reply)' = Cut(reply) /\ Sooner' = Sooner
    BY <1>4 DEF Tell, Cut, ExactHits, PlainHits, Exact, Sooner, Days
  <2>4. Searched'
    BY <1>4, <2>3 DEF Tell, Searched
  <2> QED BY <2>1, <2>2, <2>4
<1>5. CASE DropQuestion
  <2>1. RetrievalFlags'
    BY <1>5 DEF DropQuestion, RetrievalFlags
  <2>2. daysAway' \in [Sessions -> 0 .. MaxDays]
    BY <1>5, QuotasAssumption DEF DropQuestion
  <2>3. RetrievalValues' /\ Searched'
    BY <1>5, <2>2, RankingFacts DEF DropQuestion, RetrievalValues, Searched
  <2> QED BY <2>1, <2>3
<1>6. CASE UNCHANGED retrievalVars
  <2>1. RetrievalFlags'
    BY <1>6 DEF retrievalVars, RetrievalFlags
  <2>2. RetrievalValues'
    BY <1>6 DEF retrievalVars, RetrievalValues
  <2>3. \A reply : Cut(reply)' = Cut(reply)
    BY <1>6 DEF retrievalVars, Cut, ExactHits, PlainHits, Exact
  <2>4. Sooner' = Sooner
    BY <1>6 DEF retrievalVars, Sooner, Days
  <2>5. Searched'
    BY <1>6, <2>3, <2>4 DEF retrievalVars, Searched
  <2> QED BY <2>1, <2>2, <2>5
<1> QED BY <1>1, <1>2, <1>3, <1>4, <1>5, <1>6 DEF RetrievalNext

LEMMA RetrievalInductive == RetrievalSpec => []RetrievalInv
  BY RetrievalStarts, RetrievalStep, PTL DEF RetrievalSpec

\* Every variable of a question stays in its set, whatever is searched and however the
\* reranker replies (retrieve_with_rerank).
THEOREM RetrievalTypeCorrect == RetrievalSpec => []RetrievalTypeOK
<1>1. RetrievalInv => RetrievalTypeOK
  BY DEF RetrievalInv, RetrievalFlags, RetrievalValues, RetrievalTypeOK
<1> QED BY <1>1, RetrievalInductive, PTL

\* For any chunks, similarities, days and caps, and any order in which the reranker
\* puts them: a question that names dates is answered with the sessions of those dates,
\* and past the cap with the ones nearest to today (retrieve_with_rerank).
THEOREM DatesAnsweredHolds == RetrievalSpec => []DatesAnswered
  BY DatesKept, RetrievalInductive, PTL

\* For any chunks, similarities and caps, and any numbers the reranker says: nothing is
\* told twice, nothing that was not found, and no place stays empty (_parse_order).
THEOREM RerankOnlyReordersHolds == RetrievalSpec => []RerankOnlyReorders
  BY OnlyReorders, RetrievalInductive, PTL

--------------------------------------------------------------------------------
\* The dates.  The months follow each other, and each day lies in one of them.
LEMMA MonthStarts ==
    /\ FirstOf[1] = 1 /\ FirstOf[2] = 32 /\ FirstOf[3] = 60 /\ FirstOf[4] = 91 /\ FirstOf[5] = 121
    /\ FirstOf[6] = 152 /\ FirstOf[7] = 182 /\ FirstOf[8] = 213 /\ FirstOf[9] = 244 /\ FirstOf[10] = 274
    /\ FirstOf[11] = 305 /\ FirstOf[12] = 335 /\ FirstOf[13] = 366 /\ FirstOf[14] = 397 /\ FirstOf[15] = 426
    /\ FirstOf[16] = 457 /\ FirstOf[17] = 487 /\ FirstOf[18] = 518 /\ FirstOf[19] = 548 /\ FirstOf[20] = 579
    /\ FirstOf[21] = 610 /\ FirstOf[22] = 640 /\ FirstOf[23] = 671 /\ FirstOf[24] = 701 /\ FirstOf[25] = 732
  BY DEF FirstOf

LEMMA FirstOfType ==
    ASSUME NEW m \in 1 .. 25
    PROVE  FirstOf[m] \in Int /\ 1 <= FirstOf[m] /\ FirstOf[m] <= 732
  BY MonthStarts

LEMMA MonthsFollow ==
    ASSUME NEW m \in 1 .. 25, NEW n \in 1 .. 25, m <= n
    PROVE  FirstOf[m] <= FirstOf[n]
  BY MonthStarts

LEMMA MonthType ==
    ASSUME NEW m \in Months
    PROVE  /\ m \in Int
           /\ FirstOf[m] \in Int /\ 1 <= FirstOf[m]
           /\ FirstOf[m + 1] \in Int /\ FirstOf[m + 1] <= 732
<1>1. m \in 1 .. 25 /\ m + 1 \in 1 .. 25
  BY DEF Months
<1> QED BY <1>1, FirstOfType

\* A month that begins before another ends by its first day.
LEMMA MonthsApart ==
    ASSUME NEW m \in Months, NEW n \in Months, m < n
    PROVE  FirstOf[m + 1] <= FirstOf[n]
<1>1. m + 1 \in 1 .. 25 /\ n \in 1 .. 25 /\ m + 1 <= n
  BY DEF Months
<1> QED BY <1>1, MonthsFollow

LEMMA DayHasMonth ==
    ASSUME NEW d \in CalendarDays
    PROVE  \E m \in Months : FirstOf[m] <= d /\ d < FirstOf[m + 1]
<1> SUFFICES ASSUME \A m \in Months : ~(FirstOf[m] <= d /\ d < FirstOf[m + 1]) PROVE FALSE
  OBVIOUS
<1>1. d \in 1 .. 731
  BY MonthStarts DEF CalendarDays
<1>2. \A m \in 1 .. 24 : FirstOf[m] <= d => FirstOf[m + 1] <= d
  <2> SUFFICES ASSUME NEW m \in 1 .. 24, FirstOf[m] <= d PROVE FirstOf[m + 1] <= d
    OBVIOUS
  <2>1. FirstOf[m + 1] \in Int
    <3>1. m + 1 \in 1 .. 25
      OBVIOUS
    <3> QED BY <3>1, FirstOfType
  <2>2. ~(d < FirstOf[m + 1])
    BY DEF Months
  <2> QED BY <1>1, <2>1, <2>2
<1>3. 732 <= d
  BY <1>1, <1>2, MonthStarts
<1> QED BY <1>1, <1>3

LEMMA MonthIsOf ==
    ASSUME NEW d \in Int, NEW m \in Months
    PROVE  d \in CalendarDays /\ MonthOf(d) = m <=> FirstOf[m] <= d /\ d < FirstOf[m + 1]
<1>1. m \in Int /\ FirstOf[m] \in Int /\ 1 <= FirstOf[m] /\ FirstOf[m + 1] \in Int /\ FirstOf[m + 1] <= 732
  BY MonthType
<1>2. ASSUME d \in CalendarDays
      PROVE  MonthOf(d) \in Months /\ FirstOf[MonthOf(d)] <= d /\ d < FirstOf[MonthOf(d) + 1]
  BY <1>2, DayHasMonth DEF MonthOf
<1>3. ASSUME FirstOf[m] <= d, d < FirstOf[m + 1]
      PROVE  d \in CalendarDays /\ MonthOf(d) = m
  <2>1. d \in CalendarDays
    BY <1>1, <1>3, MonthStarts DEF CalendarDays
  <2> DEFINE n == MonthOf(d)
  <2>2. n \in Months /\ FirstOf[n] <= d /\ d < FirstOf[n + 1]
    BY <1>2, <2>1
  <2> HIDE DEF n
  <2>3. n \in Int /\ FirstOf[n] \in Int /\ FirstOf[n + 1] \in Int
    BY <2>2, MonthType
  <2>4. ~(n < m)
    <3>1. n < m => FirstOf[n + 1] <= FirstOf[m]
      BY <2>2, MonthsApart
    <3> QED BY <1>1, <1>3, <2>2, <2>3, <3>1
  <2>5. ~(m < n)
    <3>1. m < n => FirstOf[m + 1] <= FirstOf[n]
      BY <2>2, MonthsApart
    <3> QED BY <1>1, <1>3, <2>2, <2>3, <3>1
  <2>6. n = m
    BY <1>1, <2>3, <2>4, <2>5
  <2> QED BY <2>1, <2>6 DEF n
<1> QED BY <1>2, <1>3

LEMMA BoundsOfMonth ==
    ASSUME NEW m \in Months
    PROVE  MonthBounds(m)[1] = FirstOf[m] /\ MonthBounds(m)[2] = FirstOf[m + 1] - 1
  BY DEF MonthBounds

LEMMA BoundsOfWeek ==
    ASSUME NEW d \in Int, NEW n \in Int
    PROVE  /\ WeekBounds(d, n) \in Int \X Int
           /\ WeekBounds(d, n)[1] = d - Weekday(d) - 7 * n
           /\ WeekBounds(d, n)[2] = d - Weekday(d) - 7 * n + 6
<1>1. Weekday(d) \in Int
  BY DEF Weekday, FirstWeekday
<1> QED BY <1>1 DEF WeekBounds

LEMMA QuestionDayIs ==
    ASSUME NEW d \in QuestionDays
    PROVE  /\ d \in Int /\ d \in CalendarDays /\ MonthOf(d) \in 13 .. 24
           /\ FirstOf[MonthOf(d)] <= d /\ d < FirstOf[MonthOf(d) + 1]
<1>1. d \in 366 .. 731 /\ d \in CalendarDays
  BY QuestionDaysAssumption, MonthStarts DEF CalendarDays
<1>2. PICK m \in Months : FirstOf[m] <= d /\ d < FirstOf[m + 1]
  BY <1>1, DayHasMonth
<1>3. MonthOf(d) = m
  BY <1>1, <1>2, MonthIsOf
<1>4. ~(m < 13)
  <2>1. 13 \in Months
    BY DEF Months
  <2>2. m < 13 => FirstOf[m + 1] <= FirstOf[13]
    BY <2>1, MonthsApart
  <2> QED BY <1>1, <1>2, <2>2, MonthType, MonthStarts
<1> QED BY <1>1, <1>2, <1>3, <1>4 DEF Months

--------------------------------------------------------------------------------
\* What a request has resolved it resolved from the day it was asked on, and at most
\* one midnight lies between that and the day it is told.
DateInv ==
    /\ dateStage \in {"idle", "asked", "resolved", "prompted"}
    /\ kind \in Kinds /\ number \in Numbers(kind)
    /\ IF dateStage = "idle" THEN asked = 0 /\ clock = 0
       ELSE asked \in QuestionDays /\ clock \in {asked, asked + 1} /\ clock \in CalendarDays
    /\ range = IF dateStage \in {"resolved", "prompted"} THEN Resolved(kind, number, asked) ELSE NoRange
    /\ IF dateStage = "prompted" THEN thisWeek = WeekBounds(clock, 0) /\ lastWeek = WeekBounds(clock, 1)
       ELSE thisWeek = NoRange /\ lastWeek = NoRange

LEMMA DateStarts == DateInit => DateInv
  BY DEF DateInit, DateInv, Kinds, Numbers

LEMMA DateStep == DateInv /\ [DateNext]_dateVars => DateInv'
<1> SUFFICES ASSUME DateInv, [DateNext]_dateVars PROVE DateInv'
  OBVIOUS
<1> USE DEF DateInv
<1>1. ASSUME NEW d \in QuestionDays, AskDate(d) PROVE DateInv'
  BY <1>1, QuestionDayIs DEF AskDate
<1>2. ASSUME NEW k \in Kinds, NEW n \in Numbers(k), ResolveDate(k, n) PROVE DateInv'
  BY <1>2 DEF ResolveDate
<1>3. CASE Midnight
  BY <1>3 DEF Midnight
<1>4. CASE TellWeeks
  BY <1>4 DEF TellWeeks
<1>5. CASE DropDates
  BY <1>5 DEF DropDates, Kinds, Numbers
<1>6. CASE UNCHANGED dateVars
  BY <1>6 DEF dateVars
<1> QED
  BY <1>1, <1>2, <1>3, <1>4, <1>5, <1>6 DEF DateNext

LEMMA DateInductive == DateSpec => []DateInv
  BY DateStarts, DateStep, PTL DEF DateSpec

LEMMA ResolvedType ==
    ASSUME NEW k \in Kinds, NEW n \in Numbers(k), NEW d \in QuestionDays
    PROVE  Resolved(k, n, d) \in Ranges
<1>1. d \in Int /\ MonthOf(d) \in 13 .. 24 /\ \A day \in QuestionDays : day \in Int
  BY QuestionDayIs
<1>2. \A m \in Months : FirstOf[m] \in Int /\ MonthBounds(m) \in Int \X Int
  BY MonthType DEF MonthBounds
<1>3. WeekBounds(d, 0) \in Int \X Int /\ WeekBounds(d, 1) \in Int \X Int
  <2>1. d \in Int /\ 0 \in Int /\ 1 \in Int
    BY <1>1
  <2> QED BY <2>1, BoundsOfWeek
<1>4. MonthOf(d) \in Months
  BY <1>1 DEF Months
<1>5. k = "DATE" => n \in Int
  BY <1>1 DEF Numbers
<1>6. ASSUME k = "MONTH", n \in 1 .. 12 PROVE MostRecent(n, d) \in Months
  BY <1>1, <1>6 DEF MostRecent, MonthNumber, Months
<1> QED BY <1>1, <1>2, <1>3, <1>4, <1>5, <1>6 DEF Resolved, Ranges

\* For any days questions are asked on: every variable stays in its set
\* (parse_date_range).
THEOREM DateTypeCorrect == DateSpec => []DateTypeOK
<1>1. DateInv => DateTypeOK
  <2> SUFFICES ASSUME DateInv PROVE DateTypeOK
    OBVIOUS
  <2>1. asked \in CalendarDays \union {0} /\ clock \in CalendarDays \union {0}
    BY QuestionDayIs DEF DateInv
  <2>2. range \in Ranges
    BY ResolvedType DEF DateInv, Ranges
  <2>3. thisWeek \in Ranges /\ lastWeek \in Ranges
    <3>1. CASE dateStage = "prompted"
      <4>1. clock \in Int
        BY <3>1, QuestionDayIs DEF DateInv
      <4> QED BY <3>1, <4>1, BoundsOfWeek DEF DateInv, Ranges
    <3>2. CASE dateStage # "prompted"
      BY <3>2 DEF DateInv, Ranges
    <3> QED BY <3>1, <3>2
  <2> QED BY <2>1, <2>2, <2>3 DEF DateInv, DateTypeOK
<1> QED BY <1>1, DateInductive, PTL

LEMMA NamedMonth ==
    ASSUME NEW d \in QuestionDays, NEW n \in 1 .. 12, NEW r, r = MostRecent(n, d)
    PROVE  /\ r \in Months /\ MonthNumber(r) = n /\ FirstOf[r] <= d
           /\ MonthOf(FirstOf[r]) = r
           /\ \A e \in FirstOf[r + 1] .. d : MonthNumber(MonthOf(e)) # n
<1> DEFINE now == MonthOf(d)
<1>1. d \in Int /\ now \in 13 .. 24 /\ now \in Months /\ FirstOf[now] <= d /\ d < FirstOf[now + 1]
  BY QuestionDayIs DEF Months
<1>2. r = n + (IF n <= now - 12 THEN 12 ELSE 0)
  <2>1. MonthNumber(now) = now - 12
    BY <1>1 DEF MonthNumber
  <2> QED BY <1>1, <2>1 DEF MostRecent
<1> HIDE DEF now
<1>3. r \in 1 .. 24 /\ r <= now /\ now < r + 12
  BY <1>1, <1>2
<1>4. r \in Months /\ MonthNumber(r) = n
  BY <1>2, <1>3 DEF MonthNumber, Months
<1>5. FirstOf[r] \in Int /\ FirstOf[r + 1] \in Int /\ FirstOf[now] \in Int /\ FirstOf[r] < FirstOf[r + 1]
  BY <1>1, <1>4, MonthType, MonthStarts DEF Months
<1>6. FirstOf[r] <= d
  <2>1. r \in 1 .. 25 /\ now \in 1 .. 25
    BY <1>1, <1>3
  <2> QED BY <1>1, <1>3, <1>5, <2>1, MonthsFollow
<1>7. MonthOf(FirstOf[r]) = r
  BY <1>4, <1>5, MonthIsOf
<1>8. ASSUME NEW e \in FirstOf[r + 1] .. d PROVE MonthNumber(MonthOf(e)) # n
  <2>1. e \in CalendarDays /\ e \in Int
    <3>1. 1 <= FirstOf[r] /\ d <= 731
      BY <1>1, <1>4, MonthType
    <3> QED BY <1>1, <1>5, <3>1, MonthStarts DEF CalendarDays
  <2>2. PICK m \in Months : FirstOf[m] <= e /\ e < FirstOf[m + 1]
    BY <2>1, DayHasMonth
  <2>3. MonthOf(e) = m
    BY <2>1, <2>2, MonthIsOf
  <2>4. FirstOf[m] \in Int /\ FirstOf[m + 1] \in Int /\ m \in Int
    BY MonthType
  <2>5. ~(now < m)
    <3>1. now < m => FirstOf[now + 1] <= FirstOf[m]
      BY <1>1, MonthsApart
    <3>2. FirstOf[now + 1] \in Int
      BY <1>1, MonthType
    <3> QED BY <1>1, <2>1, <2>2, <2>4, <3>1, <3>2
  <2>6. ~(m <= r)
    <3>1. m \in 1 .. 24 /\ m + 1 \in 1 .. 25 /\ r + 1 \in 1 .. 25
      BY <1>3 DEF Months
    <3>2. m <= r => FirstOf[m + 1] <= FirstOf[r + 1]
      BY <1>3, <3>1, MonthsFollow
    <3> QED BY <1>5, <2>1, <2>2, <2>4, <3>2
  <2>7. m \in 1 .. 24 /\ r < m /\ m < r + 12
    BY <1>1, <1>3, <2>5, <2>6 DEF Months
  <2> QED BY <1>2, <1>3, <1>4, <2>3, <2>7 DEF MonthNumber
<1> QED BY <1>4, <1>6, <1>7, <1>8

\* For any days questions are asked on: a range is the one its name means, across the
\* turn of the year and in a leap year (_resolve_named_range).
THEOREM RangeMeansItsNameHolds == DateSpec => []RangeMeansItsName
<1>1. DateInv => RangeMeansItsName
  <2> SUFFICES ASSUME DateInv, range # NoRange PROVE RangeMeansItsName
    BY DEF RangeMeansItsName
  <2>1. asked \in QuestionDays /\ range = Resolved(kind, number, asked)
    BY DEF DateInv
  <2>2. /\ asked \in Int /\ asked \in CalendarDays /\ MonthOf(asked) \in 13 .. 24
        /\ FirstOf[MonthOf(asked)] <= asked /\ asked < FirstOf[MonthOf(asked) + 1]
    BY <2>1, QuestionDayIs
  <2>3. Weekday(asked) \in 0 .. 6
    BY <2>2 DEF Weekday, FirstWeekday
  <2>4. ASSUME kind = "THIS_WEEK"
        PROVE  Weekday(range[1]) = 0 /\ range[2] = range[1] + 6 /\ Within(asked)
    <3>1. range[1] = asked - Weekday(asked) /\ range[2] = asked - Weekday(asked) + 6
      BY <2>1, <2>2, <2>3, <2>4, BoundsOfWeek DEF Resolved
    <3>2. Weekday(range[1]) = 0
      BY <2>2, <3>1 DEF Weekday, FirstWeekday
    <3> QED BY <2>2, <2>3, <3>1, <3>2 DEF Within
  <2>5. ASSUME kind = "LAST_WEEK"
        PROVE  Weekday(range[1]) = 0 /\ range[2] = range[1] + 6 /\ asked - range[2] \in 1 .. 7
    <3>1. range[1] = asked - Weekday(asked) - 7 /\ range[2] = asked - Weekday(asked) - 1
      BY <2>1, <2>2, <2>3, <2>5, BoundsOfWeek DEF Resolved
    <3>2. Weekday(range[1]) = 0
      BY <2>2, <3>1 DEF Weekday, FirstWeekday
    <3> QED BY <2>2, <2>3, <3>1, <3>2
  <2>6. MonthOf(asked) \in Months /\ FirstOf[MonthOf(asked)] \in Int /\ FirstOf[MonthOf(asked) + 1] \in Int
    <3>1. MonthOf(asked) \in Months
      BY <2>2 DEF Months
    <3> QED BY <3>1, MonthType
  <2>7. ASSUME kind = "THIS_MONTH", NEW d \in asked - 32 .. asked + 32
        PROVE  SameMonth(d, asked) <=> Within(d)
    <3>1. range[1] = FirstOf[MonthOf(asked)] /\ range[2] = FirstOf[MonthOf(asked) + 1] - 1
      BY <2>1, <2>6, <2>7, BoundsOfMonth DEF Resolved
    <3>2. d \in Int
      BY <2>2
    <3> QED BY <2>6, <3>1, <3>2, MonthIsOf DEF SameMonth, Within
  <2>8. ASSUME kind = "SINCE_MONTH_START", NEW d \in asked - 32 .. asked + 32
        PROVE  SameMonth(d, asked) /\ d <= asked <=> Within(d)
    <3>1. range[1] = FirstOf[MonthOf(asked)] /\ range[2] = asked
      BY <2>1, <2>8 DEF Resolved
    <3>2. d \in Int
      BY <2>2
    <3> QED BY <2>2, <2>6, <3>1, <3>2, MonthIsOf DEF SameMonth, Within
  <2>9. ASSUME kind = "MONTH"
        PROVE  /\ range \in {MonthBounds(m) : m \in Months}
               /\ MonthNumber(MonthOf(range[1])) = number /\ range[1] <= asked
               /\ \A d \in range[2] + 1 .. asked : MonthNumber(MonthOf(d)) # number
    <3>1. number \in 1 .. 12 /\ range = MonthBounds(MostRecent(number, asked))
      BY <2>1, <2>9 DEF Resolved
    <3> DEFINE m == MostRecent(number, asked)
    <3>2. /\ m \in Months /\ MonthNumber(m) = number /\ FirstOf[m] <= asked
          /\ MonthOf(FirstOf[m]) = m
          /\ \A d \in FirstOf[m + 1] .. asked : MonthNumber(MonthOf(d)) # number
      BY <2>1, <3>1, NamedMonth
    <3> HIDE DEF m
    <3>3. range = MonthBounds(m) /\ range[1] = FirstOf[m] /\ range[2] + 1 = FirstOf[m + 1]
      <4>1. FirstOf[m + 1] \in Int
        BY <3>2, MonthType
      <4> QED BY <3>1, <3>2, <4>1, BoundsOfMonth DEF m
    <3> QED BY <3>2, <3>3
  <2> QED BY <2>4, <2>5, <2>7, <2>8, <2>9 DEF RangeMeansItsName
<1> QED BY <1>1, DateInductive, PTL

\* Within a week, the next day is of the same week.
LEMMA SameWeek ==
    ASSUME NEW d \in Int, Weekday(d + 1) # 0, NEW n \in Int
    PROVE  WeekBounds(d + 1, n) = WeekBounds(d, n)
<1>1. Weekday(d + 1) = Weekday(d) + 1
  BY DEF Weekday, FirstWeekday
<1>2. Weekday(d) \in Int
  BY DEF Weekday, FirstWeekday
<1> QED
  BY <1>1, <1>2 DEF WeekBounds

\* For any days questions are asked on: the weeks the answering model is told are
\* the weeks that were searched, unless Sunday's midnight lies between
\* (_sse_event_stream).
THEOREM WeeksAgreeHolds == DateSpec => []WeeksAgree
<1>1. DateInv => WeeksAgree
  <2> SUFFICES ASSUME DateInv, dateStage = "prompted", clock = asked \/ Weekday(clock) # 0
               PROVE  /\ kind = "THIS_WEEK" => range = thisWeek
                      /\ kind = "LAST_WEEK" => range = lastWeek
    BY DEF WeeksAgree
  <2>1. asked \in Int
    BY QuestionDayIs DEF DateInv
  <2>2. WeekBounds(clock, 0) = WeekBounds(asked, 0) /\ WeekBounds(clock, 1) = WeekBounds(asked, 1)
    BY <2>1, SameWeek DEF DateInv
  <2> QED BY <2>2 DEF DateInv, Resolved
<1> QED
  BY <1>1, DateInductive, PTL

--------------------------------------------------------------------------------
\* Captures.  Types, in two parts: the provers know Booleans best apart from the rest.
CaptureFlags == clean \in BOOLEAN /\ crowded \in BOOLEAN /\ retried \in BOOLEAN

CaptureValues ==
    /\ matching \in {"idle", "asked", "direct", "notes", "sessions", "matched", "answered"}
    /\ relating \in {"idle", "searching", "related"}
    /\ active \subseteq Courses /\ weight \in Weights
    /\ courseOf \in [Filed \union {Captured} -> Courses \union {NoCourse, NotStored}]
    /\ match \in Courses \union {NoCourse} /\ related \subseteq Others
    /\ first \in Finding

LEMMA AnyWeightType == AnyWeight \in Weights
  BY WeightsAssumption DEF AnyWeight

LEMMA UnfiledType == Unfiled \in [Filed \union {Captured} -> Courses \union {NoCourse, NotStored}]
  BY DEF Unfiled

LEMMA NothingFoundType == NothingFound \in Finding
  BY DEF NothingFound, Finding

LEMMA InheritedType ==
    ASSUME CaptureValues, NEW points
    PROVE  Inherited(points) \subseteq active
  BY DEF Inherited, Foremost, Inheritable, Nearest, Best, OfActive

LEMMA FirstNotesType ==
    FirstNotes(RelatedCandidates, {Captured}) \subseteq Others
  BY DEF FirstNotes, RelatedCandidates, Nearest, Best, Stored, Others

\* Every variable of a capture stays in its set, however its runs, its retries and the
\* sync fall (enrich_capture).
THEOREM CaptureTypeCorrect == CaptureSpec => []CaptureTypeOK
<1>1. CaptureInit => CaptureTypeOK
  BY AnyWeightType, UnfiledType, NothingFoundType DEF CaptureInit, CaptureTypeOK
<1>2. CaptureTypeOK /\ [CaptureNext]_captureVars => CaptureTypeOK'
  <2> SUFFICES ASSUME CaptureFlags, CaptureValues, [CaptureNext]_captureVars
               PROVE  CaptureFlags' /\ CaptureValues'
    BY DEF CaptureTypeOK, CaptureFlags, CaptureValues
  <2>1. ASSUME NEW a \in SUBSET Courses, NEW w \in Weights, NEW c \in Filings, AskCapture(a, w, c)
        PROVE  CaptureFlags' /\ CaptureValues'
    <3>1. courseOf' \in [Filed \union {Captured} -> Courses \union {NoCourse, NotStored}]
      BY <2>1, FilingsAssumption DEF AskCapture
    <3> QED BY <2>1, <3>1 DEF AskCapture, CaptureFlags, CaptureValues
  <2>2. CASE EmbedCapture
    BY <2>2 DEF EmbedCapture, CaptureFlags, CaptureValues
  <2>3. CASE MatchDirect
    BY <2>3 DEF MatchDirect, Matched, Direct, Foremost, CaptureFlags, CaptureValues
  <2>4. CASE MatchNotes
    <3>1. OwnPool \in BOOLEAN
      BY DEF OwnPool
    <3>2. CaptureFlags'
      BY <2>4, <3>1 DEF MatchNotes, CaptureFlags
    <3>3. CaptureValues'
      BY <2>4, InheritedType DEF MatchNotes, Matched, CaptureValues
    <3> QED BY <3>2, <3>3
  <2>5. CASE MatchSessions
    BY <2>5, InheritedType DEF MatchSessions, Matched, CaptureFlags, CaptureValues
  <2>6. CASE MatchFails
    BY <2>6 DEF MatchFails, Matched, CaptureFlags, CaptureValues
  <2>7. CASE FindRelated
    BY <2>7, FirstNotesType DEF FindRelated, CaptureFlags, CaptureValues
  <2>8. CASE RelatedFails
    BY <2>8 DEF RelatedFails, CaptureFlags, CaptureValues
  <2>9. ASSUME NEW c \in Courses \union {NoCourse, NotStored}, IngestCapture(c)
        PROVE  CaptureFlags' /\ CaptureValues'
    BY <2>9 DEF IngestCapture, CaptureFlags, CaptureValues
  <2>10. ASSUME NEW a \in SUBSET Courses, NEW c \in Courses \union {NoCourse, courseOf[Captured]},
                RetryCapture(a, c)
         PROVE  CaptureFlags' /\ CaptureValues'
    <3>1. first' \in Finding
      BY <2>10 DEF RetryCapture, Finding, CaptureFlags, CaptureValues
    <3> QED BY <2>10, <3>1 DEF RetryCapture, CaptureFlags, CaptureValues
  <2>11. CASE DropCapture
    BY <2>11, AnyWeightType, UnfiledType, NothingFoundType
       DEF DropCapture, CaptureFlags, CaptureValues
  <2>12. CASE UNCHANGED captureVars
    BY <2>12 DEF captureVars, CaptureFlags, CaptureValues
  <2> QED
    BY <2>1, <2>2, <2>3, <2>4, <2>5, <2>6, <2>7, <2>8, <2>9, <2>10, <2>11, <2>12 DEF CaptureNext
<1> QED BY <1>1, <1>2, PTL DEF CaptureSpec

--------------------------------------------------------------------------------
\* Pools.
Weighed == weight \in Weights

LEMMA WeightRanks ==
    ASSUME Weighed, NEW U, U \subseteq Courses \union Passages, IsFiniteSet(U)
    PROVE  Ranks(U, weight)
  BY WeightsAssumption DEF Weighed, Ranks

LEMMA WeightIsInt ==
    ASSUME Weighed, NEW x \in Courses \union Passages PROVE weight[x] \in Int
  BY WeightsAssumption DEF Weighed

LEMMA WeightTellsApart ==
    ASSUME Weighed, NEW x \in Courses \union Passages, NEW y \in Courses \union Passages, weight[x] = weight[y]
    PROVE  x = y
  BY WeightsAssumption DEF Weighed

LEMMA NearestInPart ==
    ASSUME NEW U, IsFiniteSet(U), NEW S, S \subseteq U, NEW n \in Nat, NEW p \in S, p \in Nearest(U, n)
    PROVE  p \in Nearest(S, n)
  BY BestInPart DEF Nearest

LEMMA NearerIsNearest ==
    ASSUME Weighed, NEW U, U \subseteq Passages, IsFiniteSet(U), NEW n \in Nat,
           NEW p \in Nearest(U, n), NEW q \in U, weight[q] > weight[p]
    PROVE  q \in Nearest(U, n)
<1>1. Ranks(U, weight)
  BY WeightRanks
<1> QED BY <1>1, BetterIsBest DEF Nearest

LEMMA ForemostExists ==
    ASSUME Weighed, NEW U, U \subseteq Passages, IsFiniteSet(U), U # {}
    PROVE  Foremost(U) # {}
<1>1. Ranks(U, weight)
  BY WeightRanks
<1> QED BY <1>1, FirstExists DEF Foremost

LEMMA ForemostIsOne ==
    ASSUME Weighed, NEW U, U \subseteq Courses \union Passages, NEW p \in Foremost(U), NEW q \in Foremost(U)
    PROVE  p = q
<1>1. p \in U /\ q \in U /\ ~(weight[p] > weight[q]) /\ ~(weight[q] > weight[p])
  BY DEF Foremost, Ahead
<1> QED BY <1>1, WeightIsInt, WeightTellsApart

--------------------------------------------------------------------------------
\* What is found if the capture is not there.
Foreign(points) == {p \in points : ~Own(p)}
ForeignOf(points, a) == {p \in Foreign(points) : courseOf[EntityOf[p]] \in a}
Heritage(points, a) == {p \in Nearest(ForeignOf(points, a), FallbackPool) : weight[p] >= Threshold}
Bequeathed(points, a) == {courseOf[EntityOf[p]] : p \in Foremost(Heritage(points, a))}
DirectOf(a) == {c \in Foremost(a) : weight[c] >= Threshold}
RelatedAlone == FirstNotes(Nearest(Foreign(NotePassages), RelatedPool), {Captured})

JudgedAlone(a, m) ==
    \/ m \in DirectOf(a)
    \/ /\ DirectOf(a) = {}
       /\ \/ m \in Bequeathed(NotePassages, a)
          \/ /\ Bequeathed(NotePassages, a) = {}
             /\ \/ m \in Bequeathed(SessionPassages, a)
                \/ Bequeathed(SessionPassages, a) = {} /\ m = NoCourse

\* What a run whose searches have answered came to.
Judged ==
    \/ match \in Direct
    \/ /\ Direct = {} /\ crowded = OwnPool
       /\ \/ match \in Inherited(NotePassages)
          \/ /\ Inherited(NotePassages) = {}
             /\ \/ match \in Inherited(SessionPassages)
                \/ Inherited(SessionPassages) = {} /\ match = NoCourse

USE DEF Weighed

\* The capture's own passages leave the first of the others as it is, unless there
\* are no others left.
LEMMA HeritageKept ==
    ASSUME Weighed, ~OwnPool
    PROVE  Foremost(Inheritable(NotePassages)) = Foremost(Heritage(NotePassages, active))
<1> DEFINE U == OfActive(NotePassages)
           S == ForeignOf(NotePassages, active)
           n == FallbackPool
<1>1. S \subseteq U /\ U \subseteq Passages /\ IsFiniteSet(U) /\ n \in Nat
  <2>1. U \subseteq NotePassages
    BY DEF OfActive
  <2> QED BY <2>1, PoolsAssumption, FS_Subset DEF OfActive, ForeignOf, Foreign, Passages
<1>2. \A p \in U : ~Own(p) => p \in S
  BY DEF OfActive, ForeignOf, Foreign
<1>3. Inheritable(NotePassages) = {p \in Nearest(U, n) : ~Own(p) /\ weight[p] >= Threshold}
  BY DEF Inheritable
<1>4. Heritage(NotePassages, active) = {p \in Nearest(S, n) : weight[p] >= Threshold}
  BY DEF Heritage
<1>5. \A p \in S : ~Own(p)
  BY DEF ForeignOf, Foreign
<1>6. OwnPool = (Nearest(U, n) # {} /\ \A p \in Nearest(U, n) : Own(p))
  BY DEF OwnPool
<1>7. Inheritable(NotePassages) \subseteq Heritage(NotePassages, active)
  <2> HIDE DEF U, S, n
  <2> QED BY <1>1, <1>2, <1>3, <1>4, NearestInPart DEF Nearest, Best
<1> HIDE DEF U, S, n
<1>8. \A p \in U : weight[p] \in Int
  BY <1>1, WeightIsInt
<1>9. Threshold \in Int
  BY PoolsAssumption
<1>10. CASE Nearest(U, n) = {}
  <2>1. Nearest(S, n) = {}
    <3> SUFFICES ASSUME NEW p \in Nearest(S, n) PROVE FALSE
      OBVIOUS
    <3>1. p \in S /\ IsFiniteSet(S)
      BY <1>1, FS_Subset DEF Nearest, Best
    <3>2. Cardinality(Ahead(S, weight, p)) \in Nat /\ Cardinality(Ahead(S, weight, p)) < n
      BY <3>1, FS_Subset, FS_CardinalityType DEF Nearest, Best, Ahead
    <3>3. PICK q \in Foremost(U) : TRUE
      BY <1>1, <3>1, ForemostExists
    <3>4. q \in U /\ Cardinality(Ahead(U, weight, q)) = 0
      BY <3>3, FS_EmptySet DEF Foremost
    <3>5. 0 < n
      BY <1>1, <3>2
    <3> QED BY <1>10, <3>4, <3>5 DEF Nearest, Best
  <2> QED BY <1>3, <1>4, <1>10, <2>1
<1>11. ASSUME NEW o \in Nearest(U, n), ~Own(o)
       PROVE  Foremost(Inheritable(NotePassages)) = Foremost(Heritage(NotePassages, active))
  <2>1. o \in U /\ o \in S /\ o \in Nearest(S, n)
    BY <1>1, <1>2, <1>11, NearestInPart DEF Nearest, Best
  <2>2. ASSUME NEW q \in Heritage(NotePassages, active), weight[q] >= weight[o]
        PROVE  q \in Inheritable(NotePassages)
    <3>1. q \in S /\ q \in U /\ ~Own(q) /\ weight[q] >= Threshold
      BY <1>1, <1>4, <1>5 DEF Nearest, Best
    <3>2. q \in Nearest(U, n)
      <4>1. CASE weight[q] > weight[o]
        BY <4>1, <3>1, <1>1, <1>11, NearerIsNearest
      <4>2. CASE weight[q] = weight[o]
        BY <4>2, <3>1, <2>1, <1>1, <1>11, WeightTellsApart
      <4> QED BY <4>1, <4>2, <2>2, <3>1, <2>1, <1>8
    <3> QED BY <3>1, <3>2, <1>3
  <2>3. ASSUME NEW q \in Foremost(Heritage(NotePassages, active))
        PROVE  q \in Foremost(Inheritable(NotePassages))
    <3>1. q \in Heritage(NotePassages, active) /\ q \in U /\ weight[q] >= Threshold
      BY <1>1, <1>4 DEF Foremost, Nearest, Best
    <3>2. weight[q] >= weight[o]
      <4>1. SUFFICES ASSUME weight[o] > weight[q] PROVE FALSE
        BY <1>8, <2>1, <3>1
      <4>2. o \in Heritage(NotePassages, active)
        BY <4>1, <1>4, <1>8, <1>9, <2>1, <3>1
      <4> QED BY <4>1, <4>2, <2>3 DEF Foremost, Ahead
    <3>3. q \in Inheritable(NotePassages)
      BY <2>2, <3>1, <3>2
    <3> QED BY <3>3, <2>3, <1>7 DEF Foremost, Ahead
  <2>4. ASSUME NEW q \in Foremost(Inheritable(NotePassages))
        PROVE  q \in Foremost(Heritage(NotePassages, active))
    <3>1. q \in Inheritable(NotePassages) /\ q \in Nearest(U, n) /\ q \in U
      BY <1>3 DEF Foremost, Nearest, Best
    <3>2. ASSUME NEW r \in Heritage(NotePassages, active), weight[r] > weight[q] PROVE FALSE
      <4>1. r \in S /\ r \in U /\ ~Own(r) /\ weight[r] >= Threshold
        BY <1>1, <1>4, <1>5 DEF Nearest, Best
      <4>2. r \in Nearest(U, n)
        BY <4>1, <3>1, <3>2, <1>1, NearerIsNearest
      <4>3. r \in Inheritable(NotePassages)
        BY <4>1, <4>2, <1>3
      <4> QED BY <4>3, <3>2, <2>4 DEF Foremost, Ahead
    <3> QED BY <3>1, <3>2, <1>7 DEF Foremost, Ahead
  <2> QED BY <2>3, <2>4
<1> QED BY <1>6, <1>10, <1>11

LEMMA SessionsKept ==
    Inherited(SessionPassages) = Bequeathed(SessionPassages, active)
<1>1. \A p \in SessionPassages : ~Own(p)
  BY CaptureAssumption DEF Own
<1>2. OfActive(SessionPassages) = ForeignOf(SessionPassages, active)
  BY <1>1 DEF OfActive, ForeignOf, Foreign
<1>3. Inheritable(SessionPassages) = Heritage(SessionPassages, active)
  BY <1>1, <1>2 DEF Inheritable, Heritage, Nearest, Best, ForeignOf, Foreign
<1> QED BY <1>3 DEF Inherited, Bequeathed

LEMMA BequeathedIsOne ==
    ASSUME Weighed, NEW points, points \subseteq Passages, NEW a,
           NEW c \in Bequeathed(points, a), NEW d \in Bequeathed(points, a)
    PROVE  c = d
<1>1. Heritage(points, a) \subseteq Passages
  BY DEF Heritage, Nearest, Best, ForeignOf, Foreign
<1> QED BY <1>1, ForemostIsOne DEF Bequeathed

LEMMA DirectIsOne ==
    ASSUME Weighed, NEW a, a \subseteq Courses, NEW c \in DirectOf(a), NEW d \in DirectOf(a)
    PROVE  c = d
  BY ForemostIsOne DEF DirectOf

LEMMA SameJudgement ==
    ASSUME Weighed, active \subseteq Courses, Judged, NEW m, JudgedAlone(active, m), ~crowded
    PROVE  match = m
<1>1. Direct = DirectOf(active)
  BY DEF Direct, DirectOf
<1>2. CASE match \in Direct
  BY <1>1, <1>2, DirectIsOne DEF JudgedAlone
<1>3. CASE match \notin Direct
  <2>1. Direct = {} /\ ~OwnPool
    BY <1>3 DEF Judged
  <2>2. Inherited(NotePassages) = Bequeathed(NotePassages, active)
    BY <2>1, HeritageKept DEF Inherited, Bequeathed
  <2>3. /\ NotePassages \subseteq Passages /\ SessionPassages \subseteq Passages
    BY DEF Passages
  <2> QED BY <1>1, <1>3, <2>1, <2>2, <2>3, SessionsKept, BequeathedIsOne DEF Judged, JudgedAlone
<1> QED BY <1>2, <1>3

\* While the index does not have the capture, it has only the others.
LEMMA NotStoredIsAlone ==
    ASSUME active \subseteq Courses, courseOf[Captured] = NotStored, NEW points
    PROVE  /\ OfActive(points) = ForeignOf(points, active)
           /\ Inherited(points) = Bequeathed(points, active)
<1>1. NotStored \notin active
  BY CoursesAssumption
<1>2. OfActive(points) = ForeignOf(points, active)
  BY <1>1 DEF OfActive, ForeignOf, Foreign, Own
<1>3. Inheritable(points) = Heritage(points, active)
  BY <1>2 DEF Inheritable, Heritage, Nearest, Best, ForeignOf, Foreign
<1> QED BY <1>2, <1>3 DEF Inherited, Bequeathed

LEMMA FirstJudgement ==
    ASSUME active \subseteq Courses, courseOf[Captured] = NotStored, Judged
    PROVE  JudgedAlone(active, match)
  BY NotStoredIsAlone DEF Judged, JudgedAlone, Direct, DirectOf

\* Of the related notes, those stay whose passages are still found.
LEMMA RelatedKept ==
    ASSUME Weighed, NEW U, U \subseteq NotePassages, Foreign(NotePassages) \subseteq U,
           NEW C, C = Nearest(U, RelatedPool)
    PROVE  /\ FirstNotes(C, {Captured}) \subseteq RelatedAlone
           /\ \A n \in RelatedAlone \ FirstNotes(C, {Captured}) : \A p \in C : EntityOf[p] # n
<1> DEFINE S == Foreign(NotePassages)
           A == Nearest(S, RelatedPool)
           foundC == {EntityOf[p] : p \in C} \ {Captured}
           foundA == {EntityOf[p] : p \in A} \ {Captured}
<1>1. S \subseteq U /\ U \subseteq Passages /\ IsFiniteSet(U) /\ RelatedPool \in Nat
  BY PoolsAssumption, FS_Subset DEF Passages
<1>2. \A p \in U : EntityOf[p] # Captured => p \in S
  BY DEF Foreign, Own
<1>3. \A p \in U : weight[p] \in Int
  BY <1>1, WeightIsInt
<1>4. C \subseteq U /\ A \subseteq S /\ \A p \in A : EntityOf[p] # Captured
  BY DEF Nearest, Best, Foreign, Own
<1>5. RelatedAlone = {n \in foundA : Cardinality({m \in foundA : Before(A, m, n)}) < MaxRelated}
  BY DEF RelatedAlone, FirstNotes
<1>6. FirstNotes(C, {Captured}) = {n \in foundC : Cardinality({m \in foundC : Before(C, m, n)}) < MaxRelated}
  BY DEF FirstNotes
<1> HIDE DEF S
<1>7. \A p \in C : EntityOf[p] # Captured => p \in A
  BY <1>1, <1>2, <1>4, NearestInPart
<1>8. \A p \in U, q \in C : weight[p] > weight[q] => p \in C
  BY <1>1, NearerIsNearest
<1> HIDE DEF A
<1>9. foundC \subseteq foundA
  BY <1>7
<1>10. ASSUME NEW n \in foundC
       PROVE  {m \in foundA : Before(A, m, n)} = {m \in foundC : Before(C, m, n)}
  <2>1. PICK k \in C : EntityOf[k] = n /\ n # Captured
    OBVIOUS
  <2>2. k \in A
    BY <2>1, <1>7
  <2>3. ASSUME NEW m \in foundA, Before(A, m, n) PROVE m \in foundC /\ Before(C, m, n)
    <3>1. PICK p \in A : EntityOf[p] = m /\ \A q \in A : EntityOf[q] = n => weight[p] > weight[q]
      BY <2>3 DEF Before
    <3>2. p \in C
      BY <1>1, <1>4, <1>8, <2>1, <2>2, <3>1
    <3>3. \A q \in C : EntityOf[q] = n => weight[p] > weight[q]
      BY <1>7, <2>1, <3>1
    <3> QED BY <3>1, <3>2, <3>3 DEF Before
  <2>4. ASSUME NEW m \in foundC, Before(C, m, n) PROVE m \in foundA /\ Before(A, m, n)
    <3>1. PICK p \in C : EntityOf[p] = m /\ \A q \in C : EntityOf[q] = n => weight[p] > weight[q]
      BY <2>4 DEF Before
    <3>2. p \in A
      BY <1>7, <3>1
    <3>3. ASSUME NEW q \in A, EntityOf[q] = n PROVE weight[p] > weight[q]
      <4>1. q \in U /\ p \in U
        BY <1>1, <1>4
      <4>2. CASE weight[q] > weight[p]
        BY <4>1, <4>2, <1>8, <1>3, <3>1, <3>3
      <4>3. CASE weight[q] = weight[p]
        <5>1. q = p
          BY <4>1, <4>3, <1>1, WeightTellsApart
        <5> QED BY <5>1, <3>1, <3>3, <4>1, <1>3
      <4> QED BY <4>1, <4>2, <4>3, <1>3
    <3> QED BY <1>9, <3>1, <3>2, <3>3 DEF Before
  <2> QED BY <2>3, <2>4
<1>11. \A n \in foundC : n \in RelatedAlone <=> n \in FirstNotes(C, {Captured})
  BY <1>5, <1>6, <1>9, <1>10
<1>12. FirstNotes(C, {Captured}) \subseteq RelatedAlone
  BY <1>6, <1>11
<1>13. ASSUME NEW n \in RelatedAlone \ FirstNotes(C, {Captured}), NEW p \in C, EntityOf[p] = n PROVE FALSE
  <2>1. n \in foundC
    BY <1>13, <1>5
  <2> QED BY <2>1, <1>11, <1>13
<1> HIDE DEF foundC, foundA
<1> QED BY <1>12, <1>13

--------------------------------------------------------------------------------
\* What the capture is stored under changes nothing of what is found without it.
AsStored == weight' = weight /\ \A e \in Filed : courseOf'[e] = courseOf[e]

LEMMA BequeathedStays ==
    ASSUME AsStored, NEW points, points \subseteq Passages, NEW a
    PROVE  Bequeathed(points, a)' = Bequeathed(points, a)
<1>1. \A p \in points : ~Own(p) => courseOf'[EntityOf[p]] = courseOf[EntityOf[p]]
  BY DEF AsStored, Own, Filed
<1>2. ForeignOf(points, a)' = ForeignOf(points, a)
  BY <1>1 DEF ForeignOf, Foreign, Own
<1>3. Heritage(points, a)' = Heritage(points, a)
  BY <1>2 DEF Heritage, Nearest, Best, Ahead, AsStored
<1>4. Foremost(Heritage(points, a))' = Foremost(Heritage(points, a))
  BY <1>3 DEF Foremost, Ahead, AsStored
<1>5. \A p \in Foremost(Heritage(points, a)) : p \in points /\ ~Own(p)
  BY DEF Foremost, Heritage, Nearest, Best, ForeignOf, Foreign
<1> QED BY <1>1, <1>4, <1>5 DEF Bequeathed

LEMMA JudgedAloneStays ==
    ASSUME AsStored, NEW a, NEW m, JudgedAlone(a, m)
    PROVE  JudgedAlone(a, m)'
<1>1. DirectOf(a)' = DirectOf(a)
  BY DEF DirectOf, Foremost, Ahead, AsStored
<1> QED BY <1>1, BequeathedStays DEF JudgedAlone, Passages

LEMMA RelatedAloneStays == AsStored => RelatedAlone' = RelatedAlone
<1>1. AsStored => Nearest(Foreign(NotePassages), RelatedPool)' = Nearest(Foreign(NotePassages), RelatedPool)
  BY DEF AsStored, Foreign, Own, Nearest, Best, Ahead
<1> QED BY <1>1 DEF RelatedAlone, FirstNotes, Before, AsStored

--------------------------------------------------------------------------------
\* A run has found nothing before its searches, and then what Judged says.
Unfound ==
    /\ matching \in {"idle", "asked", "direct", "notes", "sessions"} => match = NoCourse
    /\ relating = "idle" <=> matching \in {"idle", "asked", "answered"}

Unstored ==
    /\ matching = "idle" => ~retried
    /\ ~retried /\ matching # "answered" => courseOf[Captured] = NotStored
    /\ \A e \in Filed : courseOf[e] # NotStored

Found ==
    /\ matching \in {"notes", "sessions"} => Direct = {}
    /\ matching = "sessions" => Inherited(NotePassages) = {} /\ crowded = OwnPool
    /\ matching = "matched" /\ clean => Judged
    /\ relating = "related" /\ clean => related = FirstNotes(RelatedCandidates, {Captured})

\* The first run had the index without the capture.
FirstFound ==
    /\ ~retried /\ matching = "answered" /\ clean => JudgedAlone(active, match) /\ related = RelatedAlone
    /\ retried /\ first.clean => JudgedAlone(first.active, first.match) /\ first.related = RelatedAlone

CaptureInv == CaptureTypeOK /\ Unfound /\ Unstored /\ Found /\ FirstFound

LEMMA CaptureStarts == CaptureInit => CaptureInv
<1> SUFFICES ASSUME CaptureInit PROVE CaptureInv
  OBVIOUS
<1>1. CaptureTypeOK
  BY AnyWeightType, UnfiledType, NothingFoundType DEF CaptureInit, CaptureTypeOK
<1>2. Unfound /\ Found /\ FirstFound
  BY DEF CaptureInit, Unfound, Found, FirstFound
<1>3. Unstored
  BY CoursesAssumption DEF CaptureInit, Unstored, Unfiled, Filed
<1> QED BY <1>1, <1>2, <1>3 DEF CaptureInv

\* What is read of the index and of the pools while a run searches stays.
Still == UNCHANGED <<active, weight, courseOf>>

LEMMA StillReads ==
    ASSUME Still
    PROVE  /\ Direct' = Direct /\ OwnPool' = OwnPool
           /\ Inherited(NotePassages)' = Inherited(NotePassages)
           /\ Inherited(SessionPassages)' = Inherited(SessionPassages)
           /\ RelatedCandidates' = RelatedCandidates
           /\ FirstNotes(RelatedCandidates, {Captured})' = FirstNotes(RelatedCandidates, {Captured})
<1>1. Direct' = Direct
  BY DEF Still, Direct, Foremost, Ahead
<1>2. OwnPool' = OwnPool
  BY DEF Still, OwnPool, Nearest, Best, Ahead, OfActive, Own
<1>3. ASSUME NEW points PROVE Inherited(points)' = Inherited(points)
  BY DEF Still, Inherited, Foremost, Inheritable, Nearest, Best, Ahead, OfActive, Own
<1>4. RelatedCandidates' = RelatedCandidates
  BY DEF Still, RelatedCandidates, Nearest, Best, Ahead, Stored
<1>5. FirstNotes(RelatedCandidates, {Captured})' = FirstNotes(RelatedCandidates, {Captured})
  BY <1>4 DEF Still, FirstNotes, Before
<1> QED BY <1>1, <1>2, <1>3, <1>4, <1>5

LEMMA StillAsStored == Still => AsStored
  BY DEF Still, AsStored

LEMMA StillJudged ==
    ASSUME Still, UNCHANGED <<match, crowded>>, Judged PROVE Judged'
  BY StillReads DEF Judged

LEMMA StillFound ==
    ASSUME FirstFound, Still, UNCHANGED <<retried, first>>, matching' # "answered"
    PROVE  FirstFound'
<1>1. RelatedAlone' = RelatedAlone
  BY StillAsStored, RelatedAloneStays
<1>2. retried' /\ first'.clean =>
          JudgedAlone(first.active, first.match)' /\ first'.related = RelatedAlone'
  BY <1>1, StillAsStored, JudgedAloneStays DEF FirstFound
<1> QED BY <1>2 DEF FirstFound

LEMMA CaptureStep == CaptureInv /\ CaptureTypeOK' /\ [CaptureNext]_captureVars => CaptureInv'
<1> SUFFICES ASSUME CaptureTypeOK, Unfound, Unstored, Found, FirstFound, CaptureTypeOK',
                    [CaptureNext]_captureVars
             PROVE  Unfound' /\ Unstored' /\ Found' /\ FirstFound'
  BY DEF CaptureInv
<1>0. Weighed /\ active \subseteq Courses
  BY DEF CaptureTypeOK
<1> HIDE DEF Weighed
<1>1. ASSUME NEW a \in SUBSET Courses, NEW w \in Weights, NEW c \in Filings, AskCapture(a, w, c)
      PROVE  Unfound' /\ Unstored' /\ Found' /\ FirstFound'
  <2>1. ~retried
    BY <1>1 DEF AskCapture, Unstored
  <2>2. Unfound' /\ Found' /\ FirstFound'
    BY <1>1, <2>1 DEF AskCapture, Unfound, Found, FirstFound
  <2>3. Unstored'
    BY <1>1, FilingsAssumption, CoursesAssumption DEF AskCapture, Unstored, Filed
  <2> QED BY <2>2, <2>3
<1>2. CASE EmbedCapture
  <2>1. Still /\ UNCHANGED <<retried, first>> /\ matching' # "answered"
    BY <1>2 DEF EmbedCapture, Still
  <2>2. Unfound' /\ Unstored' /\ Found'
    BY <1>2 DEF EmbedCapture, Unfound, Unstored, Found
  <2> QED BY <2>1, <2>2, StillFound
<1>3. CASE MatchDirect
  <2>1. Still /\ UNCHANGED <<retried, first>> /\ matching' # "answered"
    BY <1>3 DEF MatchDirect, Matched, Still
  <2>2. Unfound' /\ Unstored'
    BY <1>3 DEF MatchDirect, Matched, Unfound, Unstored
  <2>3. Found'
    <3>1. matching' = "matched" => Judged'
      BY <1>3, <2>1, StillReads DEF MatchDirect, Matched, Judged
    <3> QED BY <1>3, <2>1, <3>1, StillReads DEF MatchDirect, Matched, Found
  <2> QED BY <2>1, <2>2, <2>3, StillFound
<1>4. CASE MatchNotes
  <2>1. Still /\ UNCHANGED <<retried, first>> /\ matching' # "answered"
    BY <1>4 DEF MatchNotes, Matched, Still
  <2>2. Unfound' /\ Unstored'
    BY <1>4 DEF MatchNotes, Matched, Unfound, Unstored
  <2>3. Found'
    <3>1. Direct' = {} /\ crowded' = OwnPool'
      BY <1>4, <2>1, StillReads DEF MatchNotes, Found
    <3>2. matching' = "matched" => Judged'
      BY <1>4, <2>1, <3>1, StillReads DEF MatchNotes, Matched, Judged
    <3> QED BY <1>4, <2>1, <3>1, <3>2, StillReads DEF MatchNotes, Matched, Found
  <2> QED BY <2>1, <2>2, <2>3, StillFound
<1>5. CASE MatchSessions
  <2>1. Still /\ UNCHANGED <<retried, first>> /\ matching' # "answered"
    BY <1>5 DEF MatchSessions, Matched, Still
  <2>2. Unfound' /\ Unstored'
    BY <1>5 DEF MatchSessions, Matched, Unfound, Unstored
  <2>3. Found'
    <3>1. Judged'
      BY <1>5, <2>1, StillReads DEF MatchSessions, Matched, Judged, Found
    <3> QED BY <1>5, <2>1, <3>1, StillReads DEF MatchSessions, Matched, Found
  <2> QED BY <2>1, <2>2, <2>3, StillFound
<1>6. CASE MatchFails
  <2>1. Still /\ UNCHANGED <<retried, first>> /\ matching' # "answered"
    BY <1>6 DEF MatchFails, Matched, Still
  <2>2. Unfound' /\ Unstored' /\ Found'
    BY <1>6 DEF MatchFails, Matched, Unfound, Unstored, Found
  <2> QED BY <2>1, <2>2, StillFound
<1>7. CASE FindRelated
  <2>1. Still /\ UNCHANGED <<retried, first>> /\ matching' # "answered"
    BY <1>7 DEF FindRelated, Unfound, Still
  <2>2. Unfound' /\ Unstored'
    BY <1>7 DEF FindRelated, Unfound, Unstored
  <2>3. Found'
    <3>1. matching = "matched" /\ clean => Judged'
      BY <1>7, <2>1, StillJudged DEF FindRelated, Found
    <3> QED BY <1>7, <2>1, <3>1, StillReads DEF FindRelated, Found
  <2> QED BY <2>1, <2>2, <2>3, StillFound
<1>8. CASE RelatedFails
  <2>1. Still /\ UNCHANGED <<retried, first>> /\ matching' # "answered"
    BY <1>8 DEF RelatedFails, Unfound, Still
  <2>2. Unfound' /\ Unstored'
    BY <1>8 DEF RelatedFails, Unfound, Unstored
  <2>3. Found'
    BY <1>8, <2>1, StillReads DEF RelatedFails, Found
  <2> QED BY <2>1, <2>2, <2>3, StillFound
<1>9. ASSUME NEW c \in Courses \union {NoCourse, NotStored}, IngestCapture(c)
      PROVE  Unfound' /\ Unstored' /\ Found' /\ FirstFound'
  <2>1. \A e \in Filed : courseOf'[e] = courseOf[e]
    BY <1>9 DEF IngestCapture, CaptureTypeOK, Filed
  <2>2. AsStored
    BY <1>9, <2>1 DEF IngestCapture, AsStored
  <2>3. Unfound' /\ Unstored' /\ Found'
    BY <1>9, <2>1 DEF IngestCapture, Unfound, Unstored, Found
  <2>4. ASSUME ~retried, clean PROVE JudgedAlone(active, match)' /\ related' = RelatedAlone'
    <3>1. courseOf[Captured] = NotStored /\ Judged
      BY <1>9, <2>4 DEF IngestCapture, Unstored, Found
    <3>2. JudgedAlone(active, match)
      BY <1>0, <3>1, FirstJudgement
    <3>3. Stored(NotePassages) = Foreign(NotePassages)
      BY <3>1 DEF Stored, Foreign, Own, Unstored, Filed, Passages
    <3>4. related = RelatedAlone
      BY <1>9, <2>4, <3>3 DEF IngestCapture, Found, RelatedAlone, RelatedCandidates
    <3>5. active' = active /\ match' = match /\ related' = related
      BY <1>9 DEF IngestCapture
    <3> QED BY <2>2, <3>2, <3>4, <3>5, JudgedAloneStays, RelatedAloneStays
  <2>5. ASSUME retried, first.clean
        PROVE  JudgedAlone(first.active, first.match)' /\ first'.related = RelatedAlone'
    BY <1>9, <2>2, <2>5, JudgedAloneStays, RelatedAloneStays DEF IngestCapture, FirstFound
  <2> QED BY <1>9, <2>3, <2>4, <2>5 DEF IngestCapture, FirstFound
<1>10. ASSUME NEW a \in SUBSET Courses, NEW c \in Courses \union {NoCourse, courseOf[Captured]},
              RetryCapture(a, c)
       PROVE  Unfound' /\ Unstored' /\ Found' /\ FirstFound'
  <2>1. \A e \in Filed : courseOf'[e] = courseOf[e]
    BY <1>10 DEF RetryCapture, CaptureTypeOK, Filed
  <2>2. AsStored
    BY <1>10, <2>1 DEF RetryCapture, AsStored
  <2>3. Unfound' /\ Unstored' /\ Found'
    BY <1>10, <2>1 DEF RetryCapture, Unfound, Unstored, Found
  <2>4. ASSUME clean PROVE JudgedAlone(active, match) /\ related = RelatedAlone
    BY <1>10, <2>4 DEF RetryCapture, FirstFound
  <2>5. first'.active = active /\ first'.match = match /\ first'.related = related /\ first'.clean = clean
    BY <1>10 DEF RetryCapture
  <2>6. clean => JudgedAlone(first.active, first.match)' /\ first'.related = RelatedAlone'
    BY <2>2, <2>4, <2>5, JudgedAloneStays, RelatedAloneStays
  <2> QED BY <1>10, <2>3, <2>5, <2>6 DEF RetryCapture, FirstFound
<1>11. CASE DropCapture
  <2>1. Unfound' /\ Found' /\ FirstFound'
    BY <1>11 DEF DropCapture, Unfound, Found, FirstFound
  <2>2. Unstored'
    BY <1>11, CoursesAssumption DEF DropCapture, Unstored, Unfiled, Filed
  <2> QED BY <2>1, <2>2
<1>12. CASE UNCHANGED captureVars
  <2>1. Still /\ UNCHANGED <<matching, relating, match, related, clean, crowded, retried, first>>
    BY <1>12 DEF captureVars, Still
  <2>2. Unfound' /\ Unstored'
    BY <2>1 DEF Still, Unfound, Unstored
  <2>3. Found'
    BY <2>1, StillReads, StillJudged DEF Found
  <2>4. FirstFound'
    BY <2>1, StillAsStored, JudgedAloneStays, RelatedAloneStays DEF Still, FirstFound
  <2> QED BY <2>2, <2>3, <2>4
<1> QED
  BY <1>1, <1>2, <1>3, <1>4, <1>5, <1>6, <1>7, <1>8, <1>9, <1>10, <1>11, <1>12 DEF CaptureNext

LEMMA CaptureInductive == CaptureSpec => []CaptureInv
  BY CaptureTypeCorrect, CaptureStarts, CaptureStep, PTL DEF CaptureSpec

LEMMA EvidenceOf ==
    ASSUME NEW points, points \subseteq Passages, NEW c \in Inherited(points)
    PROVE  c \in active /\ \E p \in Passages : ~Own(p) /\ courseOf[EntityOf[p]] = c /\ weight[p] >= Threshold
<1>1. PICK p \in Foremost(Inheritable(points)) : c = courseOf[EntityOf[p]]
  BY DEF Inherited
<1>2. p \in Nearest(OfActive(points), FallbackPool) /\ ~Own(p) /\ weight[p] >= Threshold
  BY <1>1 DEF Foremost, Inheritable
<1>3. p \in points /\ courseOf[EntityOf[p]] \in active
  BY <1>2 DEF Nearest, Best, OfActive
<1> QED BY <1>1, <1>2, <1>3

\* For any courses, notes, sessions and similarities: whatever an earlier run or the
\* sync stored the capture under, its course is active, and it or something else
\* filed under it resembles the capture (_match_course).
THEOREM MatchHasEvidenceHolds == CaptureSpec => []MatchHasEvidence
<1>1. CaptureInit => MatchHasEvidence
  BY DEF CaptureInit, MatchHasEvidence
<1>2. CaptureInv /\ MatchHasEvidence /\ [CaptureNext]_captureVars => MatchHasEvidence'
  <2> SUFFICES ASSUME CaptureTypeOK, Unfound, MatchHasEvidence, [CaptureNext]_captureVars
               PROVE  MatchHasEvidence'
    BY DEF CaptureInv
  <2>1. ASSUME match' = NoCourse PROVE MatchHasEvidence'
    BY <2>1 DEF MatchHasEvidence
  <2>2. ASSUME UNCHANGED <<match, active, weight>>, \A p \in Passages : ~Own(p) => courseOf'[EntityOf[p]] = courseOf[EntityOf[p]]
        PROVE  MatchHasEvidence'
    BY <2>2 DEF MatchHasEvidence, Own
  <2>3. ASSUME NEW a \in SUBSET Courses, NEW w \in Weights, NEW c \in Filings, AskCapture(a, w, c)
        PROVE  match' = NoCourse
    BY <2>3 DEF AskCapture, Unfound
  <2>4. CASE MatchDirect
    <3>1. ASSUME NEW c \in Direct, Matched(c) PROVE MatchHasEvidence'
      BY <2>4, <3>1 DEF MatchDirect, Matched, Direct, Foremost, MatchHasEvidence
    <3> QED BY <2>2, <2>4, <3>1 DEF MatchDirect
  <2>5. CASE MatchNotes
    <3>1. ASSUME NEW c \in Inherited(NotePassages), Matched(c) PROVE MatchHasEvidence'
      BY <2>5, <3>1, EvidenceOf DEF MatchNotes, Matched, MatchHasEvidence, Own, Passages
    <3> QED BY <2>2, <2>5, <3>1 DEF MatchNotes
  <2>6. CASE MatchSessions
    <3>1. ASSUME NEW c \in Inherited(SessionPassages), Matched(c) PROVE MatchHasEvidence'
      BY <2>6, <3>1, EvidenceOf DEF MatchSessions, Matched, MatchHasEvidence, Own, Passages
    <3> QED BY <2>1, <2>6, <3>1 DEF MatchSessions, Matched
  <2>7. CASE MatchFails
    BY <2>1, <2>7 DEF MatchFails, Matched
  <2>8. ASSUME NEW c \in Courses \union {NoCourse, NotStored}, IngestCapture(c)
        PROVE  MatchHasEvidence'
    BY <2>2, <2>8 DEF IngestCapture, CaptureTypeOK, Own, Filed
  <2>9. CASE EmbedCapture \/ FindRelated \/ RelatedFails \/ UNCHANGED captureVars
    BY <2>2, <2>9 DEF EmbedCapture, FindRelated, RelatedFails, captureVars
  <2>10. CASE DropCapture \/ \E a \in SUBSET Courses, c \in Courses \union {NoCourse, courseOf[Captured]} : RetryCapture(a, c)
    BY <2>1, <2>10 DEF DropCapture, RetryCapture
  <2> QED BY <2>1, <2>3, <2>4, <2>5, <2>6, <2>7, <2>8, <2>9, <2>10 DEF CaptureNext
<1> QED BY <1>1, <1>2, CaptureInductive, PTL DEF CaptureSpec

\* For any courses, notes, sessions and similarities: asked again, an enrichment finds
\* the course it found before, unless the capture alone filled the pool, and the
\* related notes it found before, less those whose places the capture took
\* (enrich_capture).
THEOREM RetryAgreesHolds == CaptureSpec => []RetryAgrees
<1>1. CaptureInv => RetryAgrees
  <2> SUFFICES ASSUME CaptureInv, retried, matching = "matched", relating = "related",
                      first.clean, clean, active = first.active
               PROVE  /\ match = first.match \/ crowded
                      /\ related \subseteq first.related
                      /\ \A n \in first.related \ related : \A p \in RelatedCandidates : EntityOf[p] # n
    BY DEF RetryAgrees
  <2>1. Weighed /\ active \subseteq Courses
    BY DEF CaptureInv, CaptureTypeOK
  <2>2. JudgedAlone(active, first.match) /\ first.related = RelatedAlone
    BY DEF CaptureInv, FirstFound
  <2>3. Judged /\ related = FirstNotes(RelatedCandidates, {Captured})
    BY DEF CaptureInv, Found
  <2>4. match = first.match \/ crowded
    BY <2>1, <2>2, <2>3, SameJudgement
  <2>5. Stored(NotePassages) \subseteq NotePassages /\ Foreign(NotePassages) \subseteq Stored(NotePassages)
    BY DEF Stored, Foreign, Own, CaptureInv, Unstored, Filed, Passages
  <2>6. /\ related \subseteq RelatedAlone
        /\ \A n \in RelatedAlone \ related : \A p \in RelatedCandidates : EntityOf[p] # n
    BY <2>1, <2>3, <2>5, RelatedKept DEF RelatedCandidates
  <2> QED BY <2>2, <2>4, <2>6
<1> QED BY <1>1, CaptureInductive, PTL
================================================================================
