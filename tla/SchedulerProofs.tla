-------------------------- MODULE SchedulerProofs --------------------------
(***************************************************************************)
(* The scheduler for any list of nodes and any workloads.  First the two   *)
(* loops of its algorithm: FilterNodes keeps the nodes with room, in their *)
(* order, and SelectBestNode returns the first with the highest score.     *)
(* Then what a sequence of placements adds up to.                          *)
(***************************************************************************)
EXTENDS SchedulerService, FoldProofs

-----------------------------------------------------------------------------
(* FilterNodes.                                                            *)

\* acc[i] is what FilterNodes has kept after the first i nodes of the list.
FilterTrace(acc, req, list) ==
    /\ acc \in [0..Len(list) -> Seq(Node)]
    /\ acc[0] = <<>>
    /\ \A i \in 1..Len(list) :
          acc[i] = IF Schedulable(req, nodes[list[i]])
                   THEN Append(acc[i - 1], list[i]) ELSE acc[i - 1]

\* FilterNodes goes over the list once, appending.
LEMMA FilterWalk ==
  ASSUME NEW req, NEW list \in Seq(Node)
  PROVE  \E acc : FilterTrace(acc, req, list) /\ FilterNodes(req, list) = acc[Len(list)]
  <1> DEFINE n == Len(list)
             ok(i) == Schedulable(req, nodes[list[i]])
             step == [p \in (1..n) \X Seq(Node) |->
                         IF ok(p[1]) THEN Append(p[2], list[p[1]]) ELSE p[2]]
             Body(g) == [T \in SUBSET DOMAIN list |->
                            IF T = {} THEN <<>>
                            ELSE IF ok(Max(T))
                                 THEN Append(g[T \ {Max(T)}], list[Max(T)])
                                 ELSE g[T \ {Max(T)}]]
             it == CHOOSE g : g = Body(g)
  <1>1. FilterNodes(req, list) = it[DOMAIN list]
    BY Zenon DEF FilterNodes, FoldLeft, MapThenFoldSet
  <1>2. n \in Nat /\ DOMAIN list = 1..n /\ \A i \in 1..n : list[i] \in Node
    OBVIOUS
  <1>3. step \in [(1..n) \X Seq(Node) -> Seq(Node)]
    <2>1. ASSUME NEW i \in 1..n, NEW q \in Seq(Node)
          PROVE  (IF ok(i) THEN Append(q, list[i]) ELSE q) \in Seq(Node)
      <3>1. Append(q, list[i]) \in Seq(Node)
        BY <1>2
      <3> HIDE DEF ok
      <3>2. QED BY <3>1
    <2> HIDE DEF n, ok
    <2>2. QED BY <2>1
  <1>4. <<>> \in Seq(Node)
    OBVIOUS
  <1>5. PICK g \in [SUBSET (1..n) -> Seq(Node)] : IsWalk(g, n, <<>>, step)
    <2> HIDE DEF n, step
    <2>1. QED BY <1>2, <1>3, <1>4, WalkExists
  <1>6. \A T \in SUBSET (1..n) : T # {} => Max(T) \in T
    BY <1>2, LastPosition
  <1>7. ASSUME NEW T \in SUBSET (1..n), T # {}
        PROVE  g[T] = IF ok(Max(T)) THEN Append(g[T \ {Max(T)}], list[Max(T)])
                      ELSE g[T \ {Max(T)}]
    <2>1. g[T] = step[<<Max(T), g[T \ {Max(T)}]>>]
      <3> HIDE DEF n, step
      <3>1. QED BY <1>5, <1>7 DEF IsWalk, IsFold, LastOf
    <2>2. Max(T) \in 1..n /\ g[T \ {Max(T)}] \in Seq(Node)
      BY <1>6, <1>7
    <2> HIDE DEF n, ok
    <2>3. QED BY <2>1, <2>2
  <1>8. g[{}] = <<>>
    BY <1>5 DEF IsWalk, IsFold
  <1>9. g = Body(g)
    <2> HIDE DEF n, ok
    <2>1. QED BY <1>2, <1>7, <1>8
  <1>10. it = Body(it)
    <2> HIDE DEF Body
    <2>1. QED BY <1>9
  <1>11. it[1..n] = g[1..n]
    <2> HIDE DEF it
    <2>1. \A T \in SUBSET (1..n) :
             it[T] = IF T = {} THEN <<>>
                     ELSE IF ok(Max(T)) THEN Append(it[T \ {Max(T)}], list[Max(T)])
                     ELSE it[T \ {Max(T)}]
      <3> HIDE DEF n, ok
      <3>1. QED BY <1>2, <1>10
    <2>2. SameSteps(it, g, n)
      <3> HIDE DEF n, ok
      <3>1. QED BY <1>7, <1>8, <2>1 DEF SameSteps
    <2>3. QED BY <1>2, <2>2, WalkUnique
  <1> DEFINE acc == [i \in 0..n |-> g[1..i]]
  <1>12. FilterTrace(acc, req, list)
    <2>1. \A i \in 0..n : 1..i \in SUBSET (1..n) /\ acc[i] = g[1..i]
      BY <1>2
    <2>2. acc[0] = <<>>
      BY <1>2, <1>5, <2>1 DEF IsWalk
    <2>3. ASSUME NEW i \in 1..n
          PROVE  acc[i] = IF ok(i) THEN Append(acc[i - 1], list[i]) ELSE acc[i - 1]
      <3>1. i \in 0..n /\ i - 1 \in 0..n /\ 1..i # {}
        BY <1>2
      <3>2. Max(1..i) = i /\ (1..i) \ {i} = 1..(i - 1)
        BY <1>2, LastPosition
      <3>3. g[1..i] = IF ok(i) THEN Append(g[1..(i - 1)], list[i]) ELSE g[1..(i - 1)]
        <4> HIDE DEF n, ok
        <4>1. QED BY <1>7, <2>1, <3>1, <3>2
      <3>4. acc[i] = g[1..i] /\ acc[i - 1] = g[1..(i - 1)]
        BY <2>1, <3>1
      <3> HIDE DEF n, ok, acc
      <3>5. QED BY <3>3, <3>4
    <2>4. acc \in [0..n -> Seq(Node)]
      <3> HIDE DEF n
      <3>1. QED BY <2>1
    <2> HIDE DEF acc
    <2>5. QED BY <2>2, <2>3, <2>4 DEF FilterTrace
  <1>13. FilterNodes(req, list) = acc[n]
    <2> HIDE DEF it, ok
    <2>1. QED BY <1>1, <1>2, <1>11
  <1>14. QED BY <1>12, <1>13

-----------------------------------------------------------------------------
(* SelectBestNode.                                                         *)

\* best[i] is the best of the first i nodes of the list, as the loop finds it.
SelectTrace(best, req, list) ==
    /\ best \in [0..Len(list) -> Node]
    /\ best[0] = Head(list)
    /\ \A i \in 1..Len(list) :
          best[i] = IF Better(scoreNode(req, nodes[list[i]]), scoreNode(req, nodes[best[i - 1]]))
                    THEN list[i] ELSE best[i - 1]

\* SelectBestNode goes over the list once, comparing each node with the best one.
LEMMA SelectWalk ==
  ASSUME NEW req, NEW list \in Seq(Node), list # <<>>
  PROVE  \E best : SelectTrace(best, req, list) /\ SelectBestNode(req, list) = best[Len(list)]
  <1> DEFINE n == Len(list)
             wins(m, k) == Better(scoreNode(req, nodes[m]), scoreNode(req, nodes[k]))
             step == [p \in (1..n) \X Node |->
                         IF wins(list[p[1]], p[2]) THEN list[p[1]] ELSE p[2]]
             Body(g) == [T \in SUBSET DOMAIN list |->
                            IF T = {} THEN Head(list)
                            ELSE IF wins(list[Max(T)], g[T \ {Max(T)}])
                                 THEN list[Max(T)] ELSE g[T \ {Max(T)}]]
             it == CHOOSE g : g = Body(g)
  <1>1. SelectBestNode(req, list) = it[DOMAIN list]
    BY Zenon DEF SelectBestNode, FoldLeft, MapThenFoldSet
  <1>2. n \in Nat /\ DOMAIN list = 1..n /\ \A i \in 1..n : list[i] \in Node
    OBVIOUS
  <1>3. step \in [(1..n) \X Node -> Node]
    <2> HIDE DEF n, wins
    <2>1. QED BY <1>2
  <1>4. Head(list) \in Node
    OBVIOUS
  <1>5. PICK g \in [SUBSET (1..n) -> Node] : IsWalk(g, n, Head(list), step)
    <2> HIDE DEF n, step
    <2>1. QED BY <1>2, <1>3, <1>4, WalkExists
  <1>6. \A T \in SUBSET (1..n) : T # {} => Max(T) \in T
    BY <1>2, LastPosition
  <1>7. ASSUME NEW T \in SUBSET (1..n), T # {}
        PROVE  g[T] = IF wins(list[Max(T)], g[T \ {Max(T)}]) THEN list[Max(T)]
                      ELSE g[T \ {Max(T)}]
    <2>1. g[T] = step[<<Max(T), g[T \ {Max(T)}]>>]
      <3> HIDE DEF n, step
      <3>1. QED BY <1>5, <1>7 DEF IsWalk, IsFold, LastOf
    <2>2. Max(T) \in 1..n /\ g[T \ {Max(T)}] \in Node
      BY <1>6, <1>7
    <2> HIDE DEF n, wins
    <2>3. QED BY <2>1, <2>2
  <1>8. g[{}] = Head(list)
    BY <1>5 DEF IsWalk, IsFold
  <1>9. g = Body(g)
    <2> HIDE DEF n, wins
    <2>1. QED BY <1>2, <1>7, <1>8
  <1>10. it = Body(it)
    <2> HIDE DEF Body
    <2>1. QED BY <1>9
  <1>11. it[1..n] = g[1..n]
    <2> HIDE DEF it
    <2>1. \A T \in SUBSET (1..n) :
             it[T] = IF T = {} THEN Head(list)
                     ELSE IF wins(list[Max(T)], it[T \ {Max(T)}]) THEN list[Max(T)]
                     ELSE it[T \ {Max(T)}]
      <3> HIDE DEF n, wins
      <3>1. QED BY <1>2, <1>10
    <2>2. SameSteps(it, g, n)
      <3> HIDE DEF n, wins
      <3>1. QED BY <1>7, <1>8, <2>1 DEF SameSteps
    <2>3. QED BY <1>2, <2>2, WalkUnique
  <1> DEFINE best == [i \in 0..n |-> g[1..i]]
  <1>12. SelectTrace(best, req, list)
    <2>1. \A i \in 0..n : 1..i \in SUBSET (1..n) /\ best[i] = g[1..i]
      BY <1>2
    <2>2. best[0] = Head(list)
      BY <1>2, <1>5, <2>1 DEF IsWalk
    <2>3. ASSUME NEW i \in 1..n
          PROVE  best[i] = IF wins(list[i], best[i - 1]) THEN list[i] ELSE best[i - 1]
      <3>1. i \in 0..n /\ i - 1 \in 0..n /\ 1..i # {}
        <4>1. n \in Nat
          BY <1>2
        <4> HIDE DEF n, wins
        <4>2. i \in 0..n /\ i - 1 \in 0..n /\ i \in 1..i
          BY <4>1
        <4>3. QED BY <4>2
      <3>2. Max(1..i) = i /\ (1..i) \ {i} = 1..(i - 1)
        BY <1>2, LastPosition
      <3>3. g[1..i] = IF wins(list[i], g[1..(i - 1)]) THEN list[i]
                      ELSE g[1..(i - 1)]
        <4> HIDE DEF n, wins
        <4>1. QED BY <1>7, <2>1, <3>1, <3>2
      <3>4. best[i] = g[1..i] /\ best[i - 1] = g[1..(i - 1)]
        BY <2>1, <3>1
      <3> HIDE DEF n, wins, best
      <3>5. QED BY <3>3, <3>4
    <2>4. best \in [0..n -> Node]
      <3> HIDE DEF n
      <3>1. QED BY <2>1
    <2> HIDE DEF best
    <2>5. QED BY <2>2, <2>3, <2>4 DEF SelectTrace
  <1>13. SelectBestNode(req, list) = best[n]
    <2> HIDE DEF it, wins
    <2>1. QED BY <1>1, <1>2, <1>11
  <1>14. QED BY <1>12, <1>13

-----------------------------------------------------------------------------
(* What the two loops compute.                                             *)

\* kept holds the nodes with room among the first i of the list, in its order.
FilterOK(kept, req, list, i) ==
    /\ kept \in Seq(Node)
    /\ \A p \in 1..Len(kept) : \E j \in 1..i :
          kept[p] = list[j] /\ Schedulable(req, nodes[list[j]])
    /\ \A j \in 1..i : Schedulable(req, nodes[list[j]]) =>
          \E p \in 1..Len(kept) : kept[p] = list[j]
    /\ \A p, q \in 1..Len(kept) : \A j, k \in 1..Len(list) :
          p < q /\ kept[p] = list[j] /\ kept[q] = list[k] => j < k

\* One turn of the loop of FilterNodes, when the node has room.
LEMMA FilterKeeps ==
  ASSUME NEW req, NEW list \in Seq(Node), IsInjective(list),
         NEW i \in Nat, i + 1 \in 1..Len(list), NEW kept, FilterOK(kept, req, list, i),
         Schedulable(req, nodes[list[i + 1]])
  PROVE  FilterOK(Append(kept, list[i + 1]), req, list, i + 1)
  <1> DEFINE x == list[i + 1]
             new == Append(kept, x)
             m == Len(kept)
             n == Len(list)
             ok(j) == Schedulable(req, nodes[list[j]])
  <1>1. /\ n \in Nat /\ m \in Nat /\ i + 1 \in 1..n /\ x \in Node /\ kept \in Seq(Node)
        /\ \A j \in 1..i : j \in 1..(i + 1) /\ j \in 1..n
    BY DEF FilterOK
  <1>2. \A j, k \in 1..n : list[j] = list[k] => j = k
    BY DEF IsInjective
  <1>3. /\ new \in Seq(Node) /\ Len(new) = m + 1 /\ new[m + 1] = x
        /\ \A p \in 1..m : new[p] = kept[p]
    BY <1>1
  <1>4. /\ \A p \in 1..m : \E j \in 1..i : kept[p] = list[j] /\ ok(j)
        /\ \A j \in 1..i : ok(j) => \E p \in 1..m : kept[p] = list[j]
        /\ \A p, q \in 1..m : \A j, k \in 1..n :
              p < q /\ kept[p] = list[j] /\ kept[q] = list[k] => j < k
        /\ ok(i + 1)
    BY DEF FilterOK
  <1>5. \A p \in 1..(m + 1) : p \in 1..m \/ p = m + 1
    BY <1>1
  <1>6. \A j \in 1..(i + 1) : j \in 1..i \/ j = i + 1
    OBVIOUS
  <1>7. 1..m \subseteq 1..(m + 1) /\ m + 1 \in 1..(m + 1)
    BY <1>1
  <1> HIDE DEF new, ok, m, n, x
  <1>8. ASSUME NEW p \in 1..(m + 1) PROVE \E j \in 1..(i + 1) : new[p] = list[j] /\ ok(j)
    <2>1. CASE p \in 1..m
      BY <1>1, <1>3, <1>4, <2>1
    <2>2. CASE p = m + 1
      BY <1>3, <1>4, <2>2 DEF x
    <2>3. QED BY <1>5, <2>1, <2>2
  <1>9. ASSUME NEW j \in 1..(i + 1), ok(j) PROVE \E p \in 1..(m + 1) : new[p] = list[j]
    <2>1. CASE j \in 1..i
      BY <1>3, <1>4, <1>7, <1>9, <2>1
    <2>2. CASE j = i + 1
      BY <1>3, <1>7, <2>2 DEF x
    <2>3. QED BY <1>6, <2>1, <2>2
  <1>10. ASSUME NEW p \in 1..(m + 1), NEW q \in 1..(m + 1), NEW j \in 1..n, NEW k \in 1..n,
                p < q, new[p] = list[j], new[q] = list[k]
         PROVE  j < k
    <2>1. p \in 1..m
      BY <1>1, <1>10
    <2>2. CASE q \in 1..m
      BY <1>3, <1>4, <1>10, <2>1, <2>2
    <2>3. CASE q = m + 1
      <3>1. k = i + 1
        BY <1>1, <1>2, <1>3, <1>10, <2>3 DEF x
      <3>2. PICK l \in 1..i : kept[p] = list[l]
        BY <1>4, <2>1
      <3>3. j = l
        BY <1>1, <1>2, <1>3, <1>10, <2>1, <3>2
      <3>4. QED BY <3>1, <3>2, <3>3
    <2>4. QED BY <1>5, <2>2, <2>3
  <1>11. QED BY <1>3, <1>8, <1>9, <1>10 DEF FilterOK, new, x, m, n, ok

\* One turn of the loop of FilterNodes, when the node has no room.
LEMMA FilterDrops ==
  ASSUME NEW req, NEW list \in Seq(Node),
         NEW i \in Nat, i + 1 \in 1..Len(list), NEW kept, FilterOK(kept, req, list, i),
         ~Schedulable(req, nodes[list[i + 1]])
  PROVE  FilterOK(kept, req, list, i + 1)
  <1>1. \A j \in 1..(i + 1) : j \in 1..i \/ j = i + 1
    OBVIOUS
  <1>2. \A j \in 1..i : j \in 1..(i + 1)
    OBVIOUS
  <1>3. QED BY <1>1, <1>2 DEF FilterOK

\* FilterNodes keeps the nodes with room and no other, in the order of the list.
LEMMA FilterKeepsOrder ==
  ASSUME NEW req, NEW list \in Seq(Node), IsInjective(list)
  PROVE  FilterOK(FilterNodes(req, list), req, list, Len(list))
  <1>1. PICK acc : FilterTrace(acc, req, list) /\ FilterNodes(req, list) = acc[Len(list)]
    BY FilterWalk
  <1> DEFINE n == Len(list)
             G == {i \in Nat : i <= n => FilterOK(acc[i], req, list, i)}
  <1>2. n \in Nat
    OBVIOUS
  <1>3. 0 \in G
    <2>1. acc[0] = <<>>
      BY <1>1 DEF FilterTrace
    <2>2. FilterOK(<<>>, req, list, 0)
      BY DEF FilterOK
    <2> HIDE DEF n
    <2>3. QED BY <2>1, <2>2
  <1>4. ASSUME NEW i \in Nat, i \in G PROVE i + 1 \in G
    <2>1. SUFFICES ASSUME i + 1 <= n PROVE FilterOK(acc[i + 1], req, list, i + 1)
      OBVIOUS
    <2>2. i + 1 \in 1..n /\ i <= n /\ (i + 1) - 1 = i
      BY <1>2, <2>1
    <2>3. FilterOK(acc[i], req, list, i)
      BY <1>4, <2>2
    <2>4. acc[i + 1] = IF Schedulable(req, nodes[list[i + 1]])
                       THEN Append(acc[i], list[i + 1]) ELSE acc[i]
      BY <1>1, <2>2 DEF FilterTrace
    <2>5. CASE Schedulable(req, nodes[list[i + 1]])
      BY <2>2, <2>3, <2>4, <2>5, FilterKeeps
    <2>6. CASE ~Schedulable(req, nodes[list[i + 1]])
      BY <2>2, <2>3, <2>4, <2>6, FilterDrops
    <2>7. QED BY <2>5, <2>6
  <1>5. \A i \in Nat : i \in G
    <2> HIDE DEF G
    <2>1. QED BY <1>3, <1>4, NumberInduction
  <1>6. QED BY <1>1, <1>2, <1>5

\* Multiplying by a positive number keeps the order.
LEMMA TimesGrows ==
  ASSUME NEW x \in Int, NEW y \in Int, NEW k \in Nat \ {0}, x > y
  PROVE  x * k > y * k
  <1>1. x - y >= 1
    OBVIOUS
  <1>2. (x - y) * k >= k
    BY <1>1
  <1>3. (x - y) * k = x * k - y * k
    OBVIOUS
  <1>4. x * k \in Int /\ y * k \in Int
    OBVIOUS
  <1>5. QED BY <1>2, <1>3, <1>4

\* Rows of nodes that have registered.
Sized == \A n \in Node : nodes[n].cap \in Capacities /\ nodes[n].alloc \in Resources

\* The nodes whose score for the request is a number.
Scored(req) == {n \in Node : scoreNode(req, nodes[n]) \in Int}

\* A node with room has a score.
LEMMA ScoreType ==
  ASSUME Sized, NEW req \in Resources, NEW n \in Node, Fits(req, nodes[n])
  PROVE  /\ nodes[n].cap \in Capacities
         /\ FreeAfter(req, nodes[n]) \in Within(nodes[n].cap)
         /\ n \in Scored(req)
  <1> DEFINE cap == nodes[n].cap
             free == FreeAfter(req, nodes[n])
  <1>1. /\ cap \in Capacities /\ cap.cpu \in Nat /\ cap.mem \in Nat
        /\ nodes[n].alloc.cpu \in Nat /\ nodes[n].alloc.mem \in Nat
        /\ req.cpu \in Nat /\ req.mem \in Nat
    BY CapacitiesAssumption DEF Sized, Resources
  <1>2. free \in Within(cap)
    BY <1>1 DEF FreeAfter, Within, Fits
  <1>3. FloatShares(free, cap) \in Int
    BY <1>1, <1>2, RoundingAssumption
  <1>4. QED BY <1>1, <1>2, <1>3 DEF Scored, scoreNode

\* Node m beats node n for the request.
Wins(req, m, n) == Better(scoreNode(req, nodes[m]), scoreNode(req, nodes[n]))

\* b stands in the list, none of the first i nodes beats it, and it beats every
\* node before it.
SelectOK(b, req, list, i) ==
    /\ \A q \in 1..i : ~Wins(req, list[q], b)
    /\ \E p \in 1..Len(list) : /\ b = list[p]
                               /\ \A q \in 1..(p - 1) : Wins(req, b, list[q])

\* SelectBestNode returns the first node of the list that no other one beats.
LEMMA SelectsFirstBest ==
  ASSUME NEW req, NEW list \in Seq(Node), list # <<>>,
         \A i \in 1..Len(list) : list[i] \in Scored(req)
  PROVE  SelectOK(SelectBestNode(req, list), req, list, Len(list))
  <1>1. PICK best : SelectTrace(best, req, list) /\ SelectBestNode(req, list) = best[Len(list)]
    BY SelectWalk
  <1> DEFINE n == Len(list)
             G == {i \in Nat : i <= n => SelectOK(best[i], req, list, i)}
  <1>2. n \in Nat /\ 1 \in 1..n /\ Head(list) = list[1]
        /\ \A i \in 1..n : list[i] \in Scored(req)
    OBVIOUS
  <1>3. \A x, y, z \in Scored(req) :
           /\ ~Wins(req, x, x)
           /\ Wins(req, x, y) => ~Wins(req, y, x)
           /\ Wins(req, x, y) /\ ~Wins(req, z, y) => Wins(req, x, z)
    BY DEF Scored, Wins, Better
  <1>4. 0 \in G
    <2>1. best[0] = list[1]
      BY <1>1, <1>2 DEF SelectTrace
    <2>2. SelectOK(list[1], req, list, 0)
      BY <1>2 DEF SelectOK
    <2> HIDE DEF n
    <2>3. QED BY <2>1, <2>2
  <1>5. ASSUME NEW i \in Nat, i \in G PROVE i + 1 \in G
    <2>1. SUFFICES ASSUME i + 1 <= n PROVE SelectOK(best[i + 1], req, list, i + 1)
      OBVIOUS
    <2>2. i + 1 \in 1..n /\ i \in 0..n /\ i <= n /\ (i + 1) - 1 = i
      BY <1>2, <2>1
    <2> DEFINE x == list[i + 1]
               y == best[i]
    <2>3. SelectOK(y, req, list, i)
      BY <1>5, <2>2
    <2>4. best[i + 1] = IF Wins(req, x, y) THEN x ELSE y
      BY <1>1, <2>2 DEF SelectTrace, Wins
    <2>5. x \in Scored(req) /\ y \in Scored(req)
      BY <1>2, <2>2, <2>3 DEF SelectOK
    <2>6. /\ \A q \in 1..(i + 1) : q \in 1..i \/ q = i + 1
          /\ \A q \in 1..i : q \in 1..n
      BY <1>2, <2>1
    <2>7. /\ \A q \in 1..i : ~Wins(req, list[q], y)
          /\ \E p \in 1..n : y = list[p] /\ \A q \in 1..(p - 1) : Wins(req, y, list[q])
      BY <2>3 DEF SelectOK
    <2> HIDE DEF n
    <2>8. CASE Wins(req, x, y)
      <3>1. \A q \in 1..i : Wins(req, x, list[q])
        BY <1>2, <1>3, <2>5, <2>6, <2>7, <2>8
      <3>2. \A q \in 1..(i + 1) : ~Wins(req, list[q], x)
        BY <1>2, <1>3, <2>5, <2>6, <3>1
      <3>3. SelectOK(x, req, list, i + 1)
        BY <2>2, <3>1, <3>2 DEF SelectOK, n
      <3>4. QED BY <2>4, <2>8, <3>3
    <2>9. CASE ~Wins(req, x, y)
      <3>1. \A q \in 1..(i + 1) : ~Wins(req, list[q], y)
        BY <2>6, <2>7, <2>9
      <3>2. SelectOK(y, req, list, i + 1)
        BY <2>7, <3>1 DEF SelectOK, n
      <3>3. QED BY <2>4, <2>9, <3>2
    <2>10. QED BY <2>8, <2>9
  <1>6. \A i \in Nat : i \in G
    <2> HIDE DEF G
    <2>1. QED BY <1>4, <1>5, NumberInduction
  <1>7. QED BY <1>1, <1>2, <1>6

-----------------------------------------------------------------------------
(* Schedule.                                                               *)

\* n is the first of the best nodes in the list of ids.
FirstBest(req, n) ==
    LET best == BestNodes(req)
    IN  \E i \in DOMAIN Ids : /\ n = Ids[i]
                              /\ Ids[i] \in best
                              /\ \A j \in 1..i - 1 : Ids[j] \notin best

\* Every node stands once in the list of ids.
LEMMA IdsList ==
  /\ Ids \in Seq(Node) /\ IsInjective(Ids) /\ DOMAIN Ids = 1..Len(Ids) /\ Len(Ids) \in Nat
  /\ \A j, k \in 1..Len(Ids) : Ids[j] = Ids[k] => j = k
  /\ \A n \in Node : \E j \in 1..Len(Ids) : n = Ids[j]
  /\ \A j \in 1..Len(Ids) : Ids[j] \in Node
  <1>1. Ids \in Seq(Node) /\ IsInjective(Ids) /\ Range(Ids) = Node
    BY IdsAssumption
  <1>2. DOMAIN Ids = 1..Len(Ids) /\ Len(Ids) \in Nat /\ \A j \in 1..Len(Ids) : Ids[j] \in Node
    BY <1>1
  <1>3. \A j, k \in 1..Len(Ids) : Ids[j] = Ids[k] => j = k
    BY <1>1, <1>2 DEF IsInjective
  <1>4. \A n \in Node : \E j \in 1..Len(Ids) : n = Ids[j]
    BY <1>1, <1>2 DEF Range
  <1>5. QED BY <1>1, <1>2, <1>3, <1>4

\* The two loops in sequence meet what the composed model takes from the
\* scheduler: no node when none has room, otherwise the first of the best ones.
LEMMA ScheduleFirstBest ==
  ASSUME Sized, NEW req \in Resources
  PROVE  IF \A n \in Node : ~Schedulable(req, nodes[n])
         THEN Schedule(req, Ids) = Null
         ELSE FirstBest(req, Schedule(req, Ids))
  <1> DEFINE cand == FilterNodes(req, Ids)
             L == Len(Ids)
             m == Len(cand)
             ok(n) == Schedulable(req, nodes[n])
             b == SelectBestNode(req, cand)
  <1>1. FilterOK(cand, req, Ids, L)
    BY IdsList, FilterKeepsOrder
  <1>2. /\ cand \in Seq(Node)
        /\ \A p \in 1..m : \E j \in 1..L : cand[p] = Ids[j] /\ ok(Ids[j])
        /\ \A j \in 1..L : ok(Ids[j]) => \E p \in 1..m : cand[p] = Ids[j]
        /\ \A p, q \in 1..m : \A j, k \in 1..L :
              p < q /\ cand[p] = Ids[j] /\ cand[q] = Ids[k] => j < k
    BY <1>1 DEF FilterOK
  <1>3. /\ m \in Nat
        /\ cand = <<>> <=> m = 0
    BY <1>2
  <1>4. Schedule(req, Ids) = IF cand = <<>> THEN Null ELSE b
    BY DEF Schedule
  <1> HIDE DEF cand, L, m, ok, b
  <1>5. CASE cand = <<>>
    <2>1. \A n \in Node : ~ok(n)
      BY <1>2, <1>3, <1>5, IdsList DEF L
    <2>2. QED BY <1>4, <1>5, <2>1 DEF ok
  <1>6. CASE cand # <<>>
    <2>0. \A p \in 1..m : cand[p] \in Scored(req)
      BY <1>2, IdsList, ScoreType DEF ok, Schedulable, L
    <2>1. SelectOK(b, req, cand, m)
      BY <1>2, <1>6, <2>0, SelectsFirstBest DEF b, m
    <2>2. PICK p \in 1..m : b = cand[p] /\ \A q \in 1..(p - 1) : Wins(req, b, cand[q])
      BY <2>1 DEF SelectOK, m
    <2>3. \A q \in 1..m : ~Wins(req, cand[q], b)
      BY <2>1 DEF SelectOK
    <2>4. PICK i \in 1..L : b = Ids[i] /\ ok(Ids[i])
      BY <1>2, <2>2
    <2>5. \A n \in Node : ok(n) => \E q \in 1..m : n = cand[q]
      BY <1>2, IdsList DEF L
    <2>6. Ids[i] \in BestNodes(req)
      BY <2>3, <2>4, <2>5, IdsList DEF BestNodes, Wins, ok, L
    <2>7. ASSUME NEW j \in 1..(i - 1) PROVE Ids[j] \notin BestNodes(req)
      <3>1. SUFFICES ASSUME Ids[j] \in BestNodes(req) PROVE FALSE
        OBVIOUS
      <3>2. j \in 1..L /\ j < i /\ i \in Nat
        BY <2>4, IdsList DEF L
      <3>3. Ids[j] \in Node /\ ok(Ids[j]) /\ ~Wins(req, b, Ids[j])
        BY <2>4, <3>1, <3>2, IdsList DEF BestNodes, Wins, ok, L
      <3>4. PICK q \in 1..m : cand[q] = Ids[j]
        BY <1>2, <3>2, <3>3
      <3>5. ~(q < p)
        <4>1. q < p => q \in 1..(p - 1)
          BY <1>3
        <4>2. QED BY <2>2, <3>3, <3>4, <4>1
      <3>6. q # p
        <4>1. q = p => Ids[i] = Ids[j]
          BY <2>2, <2>4, <3>4
        <4>2. Ids[i] = Ids[j] => i = j
          BY <3>2, IdsList DEF L
        <4>3. i # j
          BY <3>2
        <4>4. QED BY <4>1, <4>2, <4>3
      <3>7. p < q
        BY <1>3, <3>5, <3>6
      <3>8. i < j
        BY <1>2, <2>2, <2>4, <3>2, <3>4, <3>7
      <3>9. QED BY <3>2, <3>8
    <2>8. FirstBest(req, b)
      BY <2>4, <2>6, <2>7, IdsList DEF FirstBest, L
    <2>9. ~ \A n \in Node : ~ok(n)
      BY <2>4, IdsList DEF L
    <2>10. QED BY <1>4, <1>6, <2>8, <2>9 DEF ok
  <1>7. QED BY <1>5, <1>6

-----------------------------------------------------------------------------
(* A sequence of placements.                                               *)

Positive == [cpu : Nat \ {0}, mem : Nat \ {0}]

\* What holds of the rows throughout: every node is ready, a request is
\* positive, and a workload has a node once it is no longer pending.
Rows ==
    /\ \A n \in Node : nodes[n].status = "READY" /\ nodes[n].cap \in Capacities
    /\ \A w \in Workload : /\ workloads[w].req \in Positive
                           /\ workloads[w].desired = "PENDING" => workloads[w].node = Null

\* The inductive invariant.
SInv == TypeOK /\ Rows /\ NeverOvercommitted /\ RefusedFitsNowhere /\ SpreadsEvenly

\* What one placement does to the two tables.
Placed(w, m) ==
    /\ \A n \in Node : /\ nodes'[n].status = nodes[n].status
                       /\ nodes'[n].cap = nodes[n].cap
                       /\ nodes'[n].alloc = IF n = m THEN Plus(nodes[n].alloc, workloads[w].req)
                                            ELSE nodes[n].alloc
    /\ \A v \in Workload : /\ workloads'[v].req = workloads[v].req
                           /\ workloads'[v].node = IF v = w THEN m ELSE workloads[v].node
                           /\ workloads'[v].desired = IF v = w THEN "SCHEDULED"
                                                      ELSE workloads[v].desired

\* A pending workload is given the first of the best nodes and, when there is
\* none, refused.
LEMMA ScheduleStep ==
  ASSUME TypeOK, Rows, NEW w \in Workload, ScheduleWorkload(w)
  PROVE  \/ \E m \in Node : /\ workloads[w].desired = "PENDING" /\ workloads[w].node = Null
                            /\ FirstBest(workloads[w].req, m) /\ Fits(workloads[w].req, nodes[m])
                            /\ ReserveNodeForWorkload(w, m) /\ UNCHANGED refused
         \/ /\ \A n \in Node : ~Fits(workloads[w].req, nodes[n])
            /\ refused' = refused \cup {w} /\ UNCHANGED tables
  <1> DEFINE req == workloads[w].req
             n == Schedule(req, Ids)
  <1>1. Sized /\ req \in Resources
    BY DEF Rows, Sized, TypeOK, StoreTypeOK, NodeRow, WorkloadRow
  <1>2. workloads[w].desired = "PENDING" /\ workloads[w].node = Null
    BY DEF ScheduleWorkload, Rows
  <1>3. IF \A m \in Node : ~Schedulable(req, nodes[m]) THEN n = Null ELSE FirstBest(req, n)
    <2> HIDE DEF req
    <2>1. QED BY <1>1, ScheduleFirstBest
  <1>4. FirstBest(req, n) => n \in Node /\ Fits(req, nodes[n])
    BY DEF FirstBest, BestNodes, Schedulable
  <1>5. Null \notin Node
    BY NullAssumption
  <1>6. CASE n # Null
    BY <1>2, <1>3, <1>4, <1>6 DEF ScheduleWorkload
  <1>7. CASE n = Null
    <2>1. \A m \in Node : ~Fits(req, nodes[m])
      BY <1>3, <1>4, <1>5, <1>7 DEF Schedulable, Rows
    <2>2. QED BY <1>7, <2>1 DEF ScheduleWorkload
  <1>8. QED BY <1>6, <1>7

\* The rows after a placement.
LEMMA PlacedRows ==
  ASSUME TypeOK, Rows, NEW w \in Workload, NEW m \in Node,
         ReserveNodeForWorkload(w, m), UNCHANGED refused
  PROVE  Placed(w, m) /\ TypeOK' /\ Rows'
  <1> DEFINE node == [nodes[m] EXCEPT !.alloc = Plus(nodes[m].alloc, workloads[w].req)]
             row == [workloads[w] EXCEPT !.node = m, !.desired = "SCHEDULED"]
  <1>0. /\ nodes \in [Node -> NodeRow] /\ workloads \in [Workload -> WorkloadRow]
        /\ nodes[m] \in NodeRow /\ workloads[w] \in WorkloadRow
    BY DEF TypeOK, StoreTypeOK
  <1>1. nodes' = [nodes EXCEPT ![m] = node] /\ workloads' = [workloads EXCEPT ![w] = row]
    BY <1>0 DEF ReserveNodeForWorkload
  <1>2. /\ node.status = nodes[m].status /\ node.cap = nodes[m].cap
        /\ node.alloc = Plus(nodes[m].alloc, workloads[w].req)
        /\ row.req = workloads[w].req /\ row.node = m /\ row.desired = "SCHEDULED"
    BY <1>0 DEF NodeRow, WorkloadRow
  <1>3. node.alloc \in Resources
    BY <1>0, <1>2 DEF Plus, Resources, NodeRow, WorkloadRow
  <1>4. node \in NodeRow /\ row \in WorkloadRow
    BY <1>0, <1>3 DEF NodeRow, WorkloadRow
  <1> HIDE DEF node, row
  <1>5. Placed(w, m)
    BY <1>0, <1>1, <1>2 DEF Placed
  <1>6. TypeOK'
    BY <1>0, <1>1, <1>4 DEF TypeOK, StoreTypeOK, ReserveNodeForWorkload
  <1>7. Rows'
    BY <1>5 DEF Rows, Placed
  <1>8. QED BY <1>5, <1>6, <1>7

\* The requests do not change, and the workload joins the ones on its node.
LEMMA PlacedSets ==
  ASSUME TypeOK, NEW w \in Workload, NEW m \in Node, Placed(w, m), workloads[w].node = Null
  PROVE  /\ \A n \in Node : PlacedOn(n)' = IF n = m THEN PlacedOn(n) \cup {w} ELSE PlacedOn(n)
         /\ w \notin PlacedOn(m)
         /\ \A v \in Workload : workloads'[v].req = workloads[v].req
  <1>1. m # Null /\ Null \notin Node
    BY NullAssumption
  <1>2. \A v \in Workload : /\ workloads'[v].req = workloads[v].req
                            /\ workloads'[v].node = IF v = w THEN m ELSE workloads[v].node
    BY DEF Placed, TypeOK, StoreTypeOK, WorkloadRow
  <1>3. QED BY <1>1, <1>2 DEF PlacedOn

\* The requests of the workloads, in one dimension.
Asked(dim) == [w \in Workload |-> workloads[w].req[dim]]

\* The workloads on a node are finitely many and their requests are numbers.
LEMMA PlacedFinite ==
  ASSUME TypeOK, NEW n \in Node
  PROVE  /\ IsFiniteSet(PlacedOn(n)) /\ Cardinality(PlacedOn(n)) \in Nat
         /\ \A dim \in {"cpu", "mem"} : \A w \in Workload : Asked(dim)[w] \in Nat
  <1>1. PlacedOn(n) \in SUBSET Workload
    BY DEF PlacedOn
  <1>2. IsFiniteSet(PlacedOn(n)) /\ Cardinality(PlacedOn(n)) \in Nat
    BY <1>1, WorkloadAssumption, FS_Subset, FS_CardinalityType
  <1>3. \A dim \in {"cpu", "mem"} : \A w \in Workload : Asked(dim)[w] \in Nat
    BY DEF Asked, TypeOK, StoreTypeOK, WorkloadRow, Resources
  <1>4. QED BY <1>2, <1>3

\* A placement that fits keeps the books of its node.
LEMMA PlacedWithin ==
  ASSUME TypeOK, Rows, NeverOvercommitted, NEW w \in Workload, NEW m \in Node, Placed(w, m),
         workloads[w].node = Null, Fits(workloads[w].req, nodes[m])
  PROVE  NeverOvercommitted'
  <1> SUFFICES ASSUME NEW n \in Node, NEW dim \in {"cpu", "mem"}
               PROVE  /\ nodes'[n].alloc[dim] = SumFunctionOnSet(Asked(dim)', PlacedOn(n)')
                      /\ nodes'[n].alloc[dim] <= nodes'[n].cap[dim]
    BY DEF NeverOvercommitted, Asked
  <1>1. Asked(dim)' = Asked(dim)
    BY PlacedSets DEF Asked
  <1>2. /\ nodes[n].alloc[dim] = SumFunctionOnSet(Asked(dim), PlacedOn(n))
        /\ nodes[n].alloc[dim] <= nodes[n].cap[dim]
    BY DEF NeverOvercommitted, Asked
  <1>3. /\ IsFiniteSet(PlacedOn(n)) /\ PlacedOn(n) \subseteq Workload
        /\ \A v \in Workload : Asked(dim)[v] \in Nat
    BY PlacedFinite DEF PlacedOn
  <1>4. CASE n = m
    <2>1. PlacedOn(n)' = PlacedOn(n) \cup {w} /\ w \notin PlacedOn(n)
      BY <1>4, PlacedSets
    <2>2. SumFunctionOnSet(Asked(dim), PlacedOn(n) \cup {w})
              = Asked(dim)[w] + SumFunctionOnSet(Asked(dim), PlacedOn(n))
      BY <1>3, <2>1, SumAdd
    <2>3. /\ nodes'[n].alloc[dim] = nodes[n].alloc[dim] + Asked(dim)[w]
          /\ nodes'[n].cap = nodes[n].cap
          /\ nodes[n].cap[dim] - nodes[n].alloc[dim] >= Asked(dim)[w]
      <3>1. nodes'[n].alloc = Plus(nodes[n].alloc, workloads[w].req) /\ nodes'[n].cap = nodes[n].cap
        BY <1>4 DEF Placed
      <3>2. Asked(dim)[w] = workloads[w].req[dim]
        BY DEF Asked
      <3>3. CASE dim = "cpu"
        BY <1>4, <3>1, <3>2, <3>3 DEF Fits, Plus
      <3>4. CASE dim = "mem"
        BY <1>4, <3>1, <3>2, <3>4 DEF Fits, Plus
      <3>5. QED BY <3>3, <3>4
    <2>4. nodes[n].alloc[dim] \in Nat /\ nodes[n].cap[dim] \in Nat /\ Asked(dim)[w] \in Nat
      BY <1>3 DEF TypeOK, StoreTypeOK, NodeRow, Resources
    <2>5. QED BY <1>1, <1>2, <2>1, <2>2, <2>3, <2>4
  <1>5. CASE n # m
    <2>1. nodes'[n].alloc = nodes[n].alloc /\ nodes'[n].cap = nodes[n].cap
      BY <1>5 DEF Placed
    <2>2. PlacedOn(n)' = PlacedOn(n)
      BY <1>5, PlacedSets
    <2>3. QED BY <1>1, <1>2, <2>1, <2>2
  <1>6. QED BY <1>4, <1>5

\* What has been refused still fits nowhere after a placement.
LEMMA PlacedRefused ==
  ASSUME TypeOK, RefusedFitsNowhere, NEW w \in Workload, NEW m \in Node, Placed(w, m),
         UNCHANGED refused
  PROVE  RefusedFitsNowhere'
  <1> SUFFICES ASSUME NEW v \in refused, NEW n \in Node PROVE ~Fits(workloads'[v].req, nodes'[n])
    BY DEF RefusedFitsNowhere
  <1> DEFINE old == nodes[n].alloc
             new == nodes'[n].alloc
  <1>1. v \in Workload
    BY DEF TypeOK
  <1>2. ~Fits(workloads[v].req, nodes[n])
    BY DEF RefusedFitsNowhere
  <1>3. workloads'[v].req = workloads[v].req /\ nodes'[n].cap = nodes[n].cap
    BY <1>1 DEF Placed
  <1>4. old \in Resources /\ workloads[w].req \in Resources /\ workloads[v].req \in Resources
        /\ nodes[n].cap \in Resources
    BY <1>1 DEF TypeOK, StoreTypeOK, NodeRow, WorkloadRow
  <1>5. new \in Resources /\ old.cpu <= new.cpu /\ old.mem <= new.mem
    <2>1. new = old \/ new = Plus(old, workloads[w].req)
      BY DEF Placed
    <2> HIDE DEF old, new
    <2>2. QED BY <1>4, <2>1 DEF Plus, Resources
  <1>6. QED BY <1>2, <1>3, <1>4, <1>5 DEF Fits, Resources

\* Of two nodes with room and of the same size the one that is left with more
\* wins: rounding does not hide it.
LEMMA RoomierWins ==
  ASSUME Sized, NEW req \in Resources, NEW a \in Node, NEW b \in Node,
         nodes[a].cap = nodes[b].cap, Fits(req, nodes[a]), Fits(req, nodes[b]),
         Roomier(FreeAfter(req, nodes[b]), FreeAfter(req, nodes[a]))
  PROVE  Wins(req, b, a)
  <1> DEFINE cap == nodes[a].cap
             fa == FreeAfter(req, nodes[a])
             fb == FreeAfter(req, nodes[b])
  <1>1. cap \in Capacities /\ fa \in Within(cap) /\ fb \in Within(cap)
    BY ScoreType
  <1>2. FloatShares(fb, cap) > FloatShares(fa, cap)
    <2> HIDE DEF cap, fa, fb
    <2>1. Roomier(fb, fa)
      BY DEF fa, fb
    <2>2. QED BY <1>1, <2>1, RoundingAssumption
  <1>3. QED BY <1>2 DEF Wins, Better, scoreNode

\* So does the one with less of both allocated, and what fits on the other
\* fits on it.
LEMMA EmptierWins ==
  ASSUME Sized, NEW req \in Resources, NEW a \in Node, NEW b \in Node,
         nodes[a].cap = nodes[b].cap, Fits(req, nodes[a]),
         nodes[b].alloc.cpu < nodes[a].alloc.cpu, nodes[b].alloc.mem < nodes[a].alloc.mem
  PROVE  Fits(req, nodes[b]) /\ Wins(req, b, a)
  <1>1. /\ nodes[a].cap.cpu \in Nat /\ nodes[a].cap.mem \in Nat
        /\ \A n \in {a, b} : nodes[n].alloc.cpu \in Nat /\ nodes[n].alloc.mem \in Nat
        /\ req.cpu \in Nat /\ req.mem \in Nat
    BY CapacitiesAssumption DEF Sized, Resources
  <1>2. Fits(req, nodes[b])
    BY <1>1 DEF Fits
  <1>3. Roomier(FreeAfter(req, nodes[b]), FreeAfter(req, nodes[a]))
    BY <1>1 DEF Roomier, FreeAfter
  <1>4. QED BY <1>2, <1>3, RoomierWins

\* When all ask for the same, the allocation counts the workloads.
LEMMA AllocationCounts ==
  ASSUME TypeOK, NeverOvercommitted, NEW w \in Workload, NEW n \in Node,
         \A v \in Workload : workloads[v].req = workloads[w].req
  PROVE  \A dim \in {"cpu", "mem"} :
            nodes[n].alloc[dim] = Cardinality(PlacedOn(n)) * workloads[w].req[dim]
  <1> TAKE dim \in {"cpu", "mem"}
  <1> DEFINE k == workloads[w].req[dim]
  <1>1. k \in Nat
    BY DEF TypeOK, StoreTypeOK, WorkloadRow, Resources
  <1>2. PlacedOn(n) \subseteq Workload /\ IsFiniteSet(PlacedOn(n))
    BY PlacedFinite DEF PlacedOn
  <1>3. \A v \in PlacedOn(n) : Asked(dim)[v] = k
    BY <1>2 DEF Asked
  <1>4. nodes[n].alloc[dim] = SumFunctionOnSet(Asked(dim), PlacedOn(n))
    BY DEF NeverOvercommitted, Asked
  <1> HIDE DEF k
  <1>5. SumFunctionOnSet(Asked(dim), PlacedOn(n)) = Cardinality(PlacedOn(n)) * k
    BY <1>1, <1>2, <1>3, SumConstant
  <1>6. QED BY <1>4, <1>5 DEF k

\* A best node has no more workloads than another one of its size.
LEMMA BestIsLeastLoaded ==
  ASSUME TypeOK, Rows, NeverOvercommitted, NEW w \in Workload, NEW m \in Node, NEW n \in Node,
         \A v \in Workload : workloads[v].req = workloads[w].req,
         FirstBest(workloads[w].req, m), nodes[m].cap = nodes[n].cap
  PROVE  Cardinality(PlacedOn(m)) <= Cardinality(PlacedOn(n))
  <1> DEFINE r == workloads[w].req
             km == Cardinality(PlacedOn(m))
             kn == Cardinality(PlacedOn(n))
  <1>1. km \in Nat /\ kn \in Nat
    BY PlacedFinite
  <1>2. /\ nodes[m].alloc.cpu = km * r.cpu /\ nodes[m].alloc.mem = km * r.mem
        /\ nodes[n].alloc.cpu = kn * r.cpu /\ nodes[n].alloc.mem = kn * r.mem
    BY AllocationCounts
  <1>3. r \in Resources /\ r.cpu \in Nat \ {0} /\ r.mem \in Nat \ {0} /\ Sized
    BY DEF Rows, Sized, Positive, Resources, TypeOK, StoreTypeOK, NodeRow, WorkloadRow
  <1>4. m \in BestNodes(r)
    BY DEF FirstBest
  <1> HIDE DEF r, km, kn
  <1>5. SUFFICES ASSUME kn < km PROVE FALSE
    BY <1>1 DEF km, kn
  <1>6. kn * r.cpu < km * r.cpu /\ kn * r.mem < km * r.mem
    BY <1>1, <1>3, <1>5, TimesGrows
  <1>7. Wins(r, n, m) /\ Fits(r, nodes[n])
    <2>1. Fits(r, nodes[m])
      BY <1>4 DEF BestNodes, Schedulable
    <2>2. QED BY <1>2, <1>3, <1>6, <2>1, EmptierWins
  <1>8. QED BY <1>4, <1>7 DEF BestNodes, Schedulable, Wins, Rows

\* A placement on the first of the best nodes keeps the load even.
LEMMA PlacedEvenly ==
  ASSUME TypeOK, Rows, NeverOvercommitted, SpreadsEvenly, NEW w \in Workload, NEW m \in Node,
         Placed(w, m), workloads[w].node = Null, FirstBest(workloads[w].req, m)
  PROVE  SpreadsEvenly'
  <1>1. SUFFICES ASSUME \A u, v \in Workload : workloads'[u].req = workloads'[v].req,
                        NEW a \in Node, NEW b \in Node, nodes'[a].cap = nodes'[b].cap
                 PROVE  Cardinality(PlacedOn(a)') <= Cardinality(PlacedOn(b)') + 1
    BY DEF SpreadsEvenly
  <1> DEFINE k(n) == Cardinality(PlacedOn(n))
  <1>2. /\ \A u, v \in Workload : workloads[u].req = workloads[v].req
        /\ nodes[a].cap = nodes[b].cap
    BY <1>1 DEF Placed
  <1>3. \A n \in Node : /\ k(n) \in Nat
                        /\ Cardinality(PlacedOn(n)') = IF n = m THEN k(n) + 1 ELSE k(n)
    <2> TAKE n \in Node
    <2>1. IsFiniteSet(PlacedOn(n)) /\ k(n) \in Nat
      BY PlacedFinite
    <2>2. CASE n = m
      <3>1. PlacedOn(n)' = PlacedOn(n) \cup {w} /\ w \notin PlacedOn(n)
        BY <2>2, PlacedSets
      <3>2. QED BY <2>1, <2>2, <3>1, FS_AddElement
    <2>3. CASE n # m
      <3>1. PlacedOn(n)' = PlacedOn(n)
        BY <2>3, PlacedSets
      <3>2. QED BY <2>1, <2>3, <3>1
    <2>4. QED BY <2>2, <2>3
  <1>4. k(a) <= k(b) + 1
    BY <1>2 DEF SpreadsEvenly
  <1>5. a = m => k(a) <= k(b)
    BY <1>2, BestIsLeastLoaded
  <1> HIDE DEF k
  <1>6. QED BY <1>3, <1>4, <1>5

\* A pending workload placed or refused keeps the inductive invariant.
LEMMA SInvStep == ASSUME SInv, [Next]_vars PROVE SInv'
  <1> USE DEF SInv
  <1>1. CASE UNCHANGED vars
    BY <1>1
    DEF vars, tables, TypeOK, StoreTypeOK, Rows, NeverOvercommitted, RefusedFitsNowhere,
        SpreadsEvenly, PlacedOn
  <1>2. ASSUME NEW w \in Workload, ScheduleWorkload(w) PROVE SInv'
    <2>1. ASSUME NEW m \in Node, workloads[w].node = Null, FirstBest(workloads[w].req, m),
                 Fits(workloads[w].req, nodes[m]), ReserveNodeForWorkload(w, m),
                 UNCHANGED refused
          PROVE  SInv'
      <3>1. Placed(w, m) /\ TypeOK' /\ Rows'
        BY <2>1, PlacedRows
      <3>2. NeverOvercommitted'
        BY <2>1, <3>1, PlacedWithin
      <3>3. RefusedFitsNowhere'
        BY <2>1, <3>1, PlacedRefused
      <3>4. SpreadsEvenly'
        BY <2>1, <3>1, PlacedEvenly
      <3>5. QED BY <3>1, <3>2, <3>3, <3>4
    <2>2. ASSUME \A n \in Node : ~Fits(workloads[w].req, nodes[n]),
                 refused' = refused \cup {w}, UNCHANGED tables
          PROVE  SInv'
      BY <2>2
      DEF tables, TypeOK, StoreTypeOK, Rows, NeverOvercommitted, RefusedFitsNowhere,
          SpreadsEvenly, PlacedOn
    <2>3. QED BY <1>2, <2>1, <2>2, ScheduleStep
  <1>3. QED BY <1>1, <1>2 DEF Next

\* The inductive invariant holds when nothing is placed.
LEMMA SInvInit == ASSUME Init PROVE SInv
  <1>1. PICK cap \in [Node -> Capacities] :
           nodes = [n \in Node |-> [AbsentNode EXCEPT !.status = "READY", !.cap = cap[n]]]
    BY DEF Init
  <1> DEFINE s == CHOOSE s \in Service : TRUE
  <1>2. PICK req \in [Workload -> Requests] :
           workloads = [w \in Workload |->
               [AbsentWorkload EXCEPT !.service = s, !.version = 1, !.req = req[w],
                                      !.desired = "PENDING", !.actual = "PENDING"]]
    BY DEF Init
  <1>3. s \in Service
    BY ServiceAssumption
  <1> HIDE DEF s
  <1>4. \A n \in Node : cap[n] \in Capacities /\ cap[n] \in Resources
    BY CapacitiesAssumption DEF Resources
  <1>5. \A w \in Workload : req[w] \in Positive /\ req[w] \in Resources
    BY RequestsAssumption DEF Positive, Resources
  <1>6. nodes = [n \in Node |-> [status |-> "READY", cap |-> cap[n], alloc |-> NoResources]]
    <2>1. \A n \in Node :
             nodes[n] = [status |-> "READY", cap |-> cap[n], alloc |-> NoResources]
      BY <1>1 DEF AbsentNode
    <2>2. nodes = [n \in Node |-> nodes[n]]
      BY <1>1, Zenon
    <2>3. QED BY <2>1, <2>2, Zenon
  <1>7. workloads = [w \in Workload |->
           [service |-> s, version |-> 1, req |-> req[w], node |-> Null,
            container |-> Null, desired |-> "PENDING", actual |-> "PENDING"]]
    <2>1. \A w \in Workload :
             workloads[w] = [service |-> s, version |-> 1, req |-> req[w], node |-> Null,
                             container |-> Null, desired |-> "PENDING", actual |-> "PENDING"]
      BY <1>2 DEF AbsentWorkload
    <2>2. workloads = [w \in Workload |-> workloads[w]]
      BY <1>2, Zenon
    <2>3. QED BY <2>1, <2>2, Zenon
  <1>8. StoreTypeOK
    <2>1. NoResources \in Resources
      BY DEF NoResources, Resources
    <2>2. nodes \in [Node -> NodeRow]
      BY ONLY <1>4, <1>6, <2>1 DEF NodeRow
    <2>3. services \in [Service -> ServiceRow]
      BY <2>1 DEF Init, AbsentService, ServiceRow
    <2>4. workloads \in [Workload -> WorkloadRow]
      BY ONLY <1>3, <1>5, <1>7 DEF WorkloadRow, Unfinished
    <2>5. QED BY <2>2, <2>3, <2>4 DEF StoreTypeOK
  <1>9. TypeOK
    BY <1>8 DEF Init, TypeOK
  <1>10. Rows
    BY ONLY <1>4, <1>5, <1>6, <1>7 DEF Rows
  <1>11. \A n \in Node : PlacedOn(n) = {}
    BY ONLY <1>7, NullAssumption DEF PlacedOn
  <1>12. NeverOvercommitted
    <2> SUFFICES ASSUME NEW n \in Node, NEW dim \in {"cpu", "mem"}
                 PROVE  /\ nodes[n].alloc[dim] = SumFunctionOnSet(Asked(dim), PlacedOn(n))
                        /\ nodes[n].alloc[dim] <= nodes[n].cap[dim]
      BY DEF NeverOvercommitted, Asked
    <2>1. nodes[n].alloc[dim] = 0 /\ nodes[n].cap[dim] \in Nat
      <3>1. nodes[n].alloc = NoResources /\ nodes[n].cap \in Resources
        BY ONLY n \in Node, <1>4, <1>6
      <3>2. QED BY <3>1 DEF NoResources, Resources
    <2>2. SumFunctionOnSet(Asked(dim), PlacedOn(n)) = 0
      BY <1>11, SumEmpty
    <2>3. QED BY <2>1, <2>2
  <1>13. RefusedFitsNowhere
    BY DEF Init, RefusedFitsNowhere
  <1>14. SpreadsEvenly
    BY <1>11, FS_EmptySet DEF SpreadsEvenly
  <1>15. QED BY <1>9, <1>10, <1>12, <1>13, <1>14 DEF SInv

\* The inductive invariant holds throughout.
LEMMA SInvAlways == Spec => []SInv
  BY SInvInit, SInvStep, PTL DEF Spec

\* The tables keep their types under ScheduleWorkload.
THEOREM SchedulerTypes == Spec => []TypeOK
  BY SInvAlways, PTL DEF SInv

\* For any cluster, workloads and order of placements: a node is never given
\* more than it has, and its allocation is the sum of what was placed on it.
THEOREM PlacementsWithinCapacity == Spec => []NeverOvercommitted
  BY SInvAlways, PTL DEF SInv

\* A workload for which the scheduler returned no node fits on none, then and
\* later.
THEOREM RefusalsJustified == Spec => []RefusedFitsNowhere
  BY SInvAlways, PTL DEF SInv

\* Placing equal workloads, the score never lets one of two equal nodes get
\* ahead of the other by more than one workload.
THEOREM LoadSpreads == Spec => []SpreadsEvenly
  BY SInvAlways, PTL DEF SInv

\* What ChoosesNearBest says of the node m for the request.
NearBest(req, m) ==
    /\ m \in BestNodes(req)
    /\ \A n \in Node : Schedulable(req, nodes[n]) =>
          /\ ~FarBetter(FreeAfter(req, nodes[n]), nodes[n].cap,
                        FreeAfter(req, nodes[m]), nodes[m].cap)
          /\ nodes[n].cap = nodes[m].cap =>
                ~Roomier(FreeAfter(req, nodes[n]), FreeAfter(req, nodes[m]))
          /\ nodes[n] = nodes[m] =>
                \E i, j \in DOMAIN Ids : Ids[i] = m /\ Ids[j] = n /\ i <= j

\* The first with the highest rounded score is such a node.
LEMMA FirstIsNearBest ==
  ASSUME Sized, NEW req \in Resources, NEW m, FirstBest(req, m)
  PROVE  NearBest(req, m)
  <1>1. PICK i \in DOMAIN Ids : /\ m = Ids[i] /\ m \in BestNodes(req)
                                /\ \A j \in 1..i - 1 : Ids[j] \notin BestNodes(req)
    BY DEF FirstBest
  <1>2. /\ m \in Node /\ Schedulable(req, nodes[m]) /\ Fits(req, nodes[m])
        /\ \A n \in Node : Schedulable(req, nodes[n]) => ~Wins(req, n, m)
    BY <1>1 DEF BestNodes, Schedulable, Wins
  <1>3. ASSUME NEW n \in Node, Schedulable(req, nodes[n])
        PROVE  ~FarBetter(FreeAfter(req, nodes[n]), nodes[n].cap,
                          FreeAfter(req, nodes[m]), nodes[m].cap)
    <2> DEFINE fn == FreeAfter(req, nodes[n])
               fm == FreeAfter(req, nodes[m])
    <2>1. /\ nodes[n].cap \in Capacities /\ fn \in Within(nodes[n].cap)
          /\ nodes[m].cap \in Capacities /\ fm \in Within(nodes[m].cap)
      BY <1>2, <1>3, ScoreType DEF Schedulable
    <2>2. ~(FloatShares(fn, nodes[n].cap) > FloatShares(fm, nodes[m].cap))
      BY <1>2, <1>3 DEF Wins, Better, scoreNode
    <2> HIDE DEF fn, fm
    <2>3. ~FarBetter(fn, nodes[n].cap, fm, nodes[m].cap)
      BY <2>1, <2>2, RoundingAssumption
    <2>4. QED BY <2>3 DEF fn, fm
  <1>4. ASSUME NEW n \in Node, Schedulable(req, nodes[n]), nodes[n].cap = nodes[m].cap
        PROVE  ~Roomier(FreeAfter(req, nodes[n]), FreeAfter(req, nodes[m]))
    BY <1>2, <1>4, RoomierWins DEF Schedulable
  <1>5. ASSUME NEW n \in Node, Schedulable(req, nodes[n]), nodes[n] = nodes[m]
        PROVE  \E k, j \in DOMAIN Ids : Ids[k] = m /\ Ids[j] = n /\ k <= j
    <2>1. n \in BestNodes(req)
      BY <1>1, <1>5 DEF BestNodes
    <2>2. PICK j \in 1..Len(Ids) : n = Ids[j]
      BY IdsList
    <2>3. ~(j \in 1..i - 1)
      BY <1>1, <2>1, <2>2
    <2>4. i <= j
      BY <2>3, IdsList
    <2>5. QED BY <1>1, <2>2, <2>4, IdsList
  <1>6. QED BY <1>1, <1>3, <1>4, <1>5 DEF NearBest

\* For any rounding that keeps to float64's precision, one walk over the list
\* ends at a node with room that none beats by more than that, and at the
\* first of its kind.
THEOREM PlacementsNearBest == Spec => ChoosesNearBest
  <1> DEFINE Chosen == \A w \in Workload :
                          workloads[w].node = Null /\ workloads'[w].node # Null =>
                              NearBest(workloads[w].req, workloads'[w].node)
  <1>1. ASSUME SInv, [Next]_vars PROVE Chosen
    <2>1. CASE UNCHANGED vars
      BY <2>1 DEF vars, tables
    <2>2. ASSUME NEW w \in Workload, ScheduleWorkload(w) PROVE Chosen
      <3>1. ASSUME NEW m \in Node, FirstBest(workloads[w].req, m),
                   ReserveNodeForWorkload(w, m), UNCHANGED refused
            PROVE  Chosen
        <4>1. Placed(w, m)
          BY <1>1, <3>1, PlacedRows DEF SInv
        <4>2. \A v \in Workload : workloads'[v].node = IF v = w THEN m ELSE workloads[v].node
          BY <4>1 DEF Placed
        <4>3. Sized /\ workloads[w].req \in Resources
          BY <1>1 DEF SInv, Rows, Sized, TypeOK, StoreTypeOK, NodeRow, WorkloadRow
        <4>4. NearBest(workloads[w].req, m)
          BY <3>1, <4>3, FirstIsNearBest
        <4>5. QED BY <4>2, <4>4
      <3>2. ASSUME UNCHANGED tables PROVE Chosen
        BY <3>2 DEF tables
      <3>3. QED BY <1>1, <2>2, <3>1, <3>2, ScheduleStep DEF SInv
    <2>3. QED BY <1>1, <2>1, <2>2 DEF Next
  <1>2. SInv /\ [Next]_vars => [Chosen]_vars
    BY <1>1
  <1>3. QED BY <1>2, SInvAlways, PTL DEF Spec, ChoosesNearBest, NearBest
=============================================================================
