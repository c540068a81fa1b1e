-------------------------------- MODULE Ranking --------------------------------
(***************************************************************************)
(* What is found, by how good it is: a key gives each point a number, all  *)
(* different, and the greatest comes first.                                *)
(***************************************************************************)
EXTENDS Integers, FiniteSets

Ahead(points, key, p) == {q \in points : key[q] > key[p]}

\* The first n.
Best(points, key, n) == {p \in points : Cardinality(Ahead(points, key, p)) < n}

\* All of them, as a list.
InOrder(points, key) ==
    [k \in 1 .. Cardinality(points) |-> CHOOSE p \in points : Cardinality(Ahead(points, key, p)) = k - 1]

\* The key by which the smallest number comes first.
Upwards(numbers) == [i \in numbers |-> -i]
================================================================================
