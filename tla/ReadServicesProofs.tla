------------------------- MODULE ReadServicesProofs -------------------------
(***************************************************************************)
(* Proofs about the pages that only read.  The path of a graph view is a   *)
(* shortest one because the queue of the search is in the order of depth,  *)
(* which is the distance from the start, and because the search ends only  *)
(* with the target found or with every node expanded.                      *)
(* Reports and graph views are explained by what was frozen because each   *)
(* snapshot is a function of the commits it could see, because a view on   *)
(* display lists what its query finds now, the log standing still while it *)
(* is displayed, and because the loop that draws the rows keeps the limits *)
(* and draws a relationship only with its ends.                            *)
(* An entity page is honest because its SELECTs see ever more of the log,  *)
(* its rows are a prefix of a strict order, and the payments of its rows   *)
(* of one type are disjoint, so that their counts add up to those of a     *)
(* union.                                                                  *)
(***************************************************************************)
EXTENDS ReadServices, FiniteSetTheorems, SequenceTheorems, NaturalsInduction, TLAPS

-----------------------------------------------------------------------------
(* Naturals and recursive functions.                                       *)

(* Induction, over a set of naturals.                                      *)
LEMMA AllNaturals ==
  ASSUME NEW G \in SUBSET Nat, 0 \in G, \A n \in G : n + 1 \in G
  PROVE  G = Nat
<1> DEFINE Bad == Nat \ G
<1>1. CASE Bad # {}
  <2>1. PICK m \in Bad : \A y \in Bad : ~(<<y, m>> \in OpToRel(<, Nat))
    BY <1>1, NatLessThanWellFounded, WFMin
  <2>2. m \in Nat /\ m # 0 /\ m - 1 \in Nat /\ m - 1 < m
    OBVIOUS
  <2>3. m - 1 \in G
    BY <2>1, <2>2 DEF OpToRel
  <2>4. (m - 1) + 1 = m
    BY <2>2
  <2> QED
    BY <2>3, <2>4
<1> QED
  BY <1>1

(* A function that is defined from its value before: next[i, x] follows x. *)
IsStep(next, N, X) == next \in [(1 .. N) \X X -> X]

Iterates(f, N, X, base, next) ==
  /\ f \in [0 .. N -> X]
  /\ f[0] = base /\ \A i \in 1 .. N : f[i] = next[<<i, f[i - 1]>>]

LEMMA Iterated ==
  ASSUME NEW N \in Nat, NEW X, NEW base \in X, NEW next, IsStep(next, N, X)
  PROVE  \E f : Iterates(f, N, X, base, next)
<1> DEFINE Follows(f, n) ==
             f[0] = base /\ \A i \in 1 .. N : i =< n => f[i] = next[<<i, f[i - 1]>>]
           Good(n) == \E f \in [0 .. N -> X] : Follows(f, n)
           G == {n \in Nat : Good(n)}
<1>0. next \in [(1 .. N) \X X -> X]
  BY DEF IsStep
<1>1. Good(0)
  <2> DEFINE f == [i \in 0 .. N |-> base]
  <2>1. f \in [0 .. N -> X] /\ f[0] = base
    OBVIOUS
  <2>2. \A i \in 1 .. N : ~(i =< 0)
    OBVIOUS
  <2>3. Follows(f, 0)
    BY <2>1, <2>2
  <2> QED
    BY <2>1, <2>3
<1>2. ASSUME NEW n \in Nat, Good(n) PROVE Good(n + 1)
  <2>0. PICK f \in [0 .. N -> X] : Follows(f, n)
    BY <1>2
  <2> DEFINE g == [i \in 0 .. N |-> IF i = n + 1 THEN next[<<i, f[i - 1]>>] ELSE f[i]]
  <2>1. g \in [0 .. N -> X]
    <3>1. ASSUME n + 1 \in 0 .. N PROVE next[<<n + 1, f[n]>>] \in X
      <4>1. n \in 0 .. N /\ n + 1 \in 1 .. N
        BY <3>1
      <4> QED
        BY <1>0, <4>1
    <3>2. (n + 1) - 1 = n
      OBVIOUS
    <3> QED
      BY <3>1, <3>2
  <2>2. g[0] = base
    BY <2>0
  <2>3. ASSUME NEW i \in 1 .. N, i =< n + 1 PROVE g[i] = next[<<i, g[i - 1]>>]
    <3>1. i - 1 \in 0 .. N /\ i - 1 # n + 1 /\ i \in 0 .. N
      BY <2>3
    <3>2. g[i - 1] = f[i - 1]
      BY <3>1
    <3>3. CASE i = n + 1
      BY <3>1, <3>2, <3>3
    <3>4. CASE i # n + 1
      <4>1. i =< n
        BY <2>3, <3>4
      <4> QED
        BY <2>0, <3>1, <3>2, <3>4, <4>1
    <3> QED
      BY <3>3, <3>4
  <2> HIDE DEF g
  <2>4. Follows(g, n + 1)
    BY <2>2, <2>3
  <2> QED
    BY <2>1, <2>4
<1> HIDE DEF Good
<1>3. G = Nat
  <2>1. G \in SUBSET Nat /\ 0 \in G /\ \A n \in G : n + 1 \in G
    BY <1>1, <1>2
  <2> HIDE DEF G
  <2> QED
    BY <2>1, AllNaturals
<1>4. Good(N)
  BY <1>3
<1>5. PICK f \in [0 .. N -> X] : Follows(f, N)
  BY <1>4 DEF Good
<1>6. \A i \in 1 .. N : f[i] = next[<<i, f[i - 1]>>]
  BY <1>5
<1> QED
  BY <1>5, <1>6 DEF Iterates

-----------------------------------------------------------------------------
(* Sorting.                                                                *)

(* How many of S come before x in the strict total order R.                *)
Position(S, R, x) == Cardinality({y \in S : <<y, x>> \in R})

StrictOrder(S, R) ==
  /\ \A x \in S : <<x, x>> \notin R
  /\ \A x, y, z \in S : <<x, y>> \in R /\ <<y, z>> \in R => <<x, z>> \in R
  /\ \A x, y \in S : x # y => <<x, y>> \in R \/ <<y, x>> \in R

LEMMA Positions ==
  ASSUME NEW S, IsFiniteSet(S), NEW R, StrictOrder(S, R)
  PROVE  /\ \A x \in S : Position(S, R, x) \in Nat /\ Position(S, R, x) < Cardinality(S)
         /\ \A x, y \in S : <<x, y>> \in R => Position(S, R, x) < Position(S, R, y)
<1> DEFINE Under(x) == {y \in S : <<y, x>> \in R}
<1>1. \A x \in S : Under(x) \in SUBSET S /\ Under(x) # S /\ x \notin Under(x)
  BY DEF StrictOrder
<1>2. \A x, y \in S : <<x, y>> \in R => /\ Under(x) \in SUBSET Under(y)
                                        /\ Under(x) # Under(y)
  BY DEF StrictOrder
<1>3. \A x \in S : Position(S, R, x) = Cardinality(Under(x))
  BY DEF Position
<1> HIDE DEF Under
<1>4. \A x \in S : IsFiniteSet(Under(x)) /\ Cardinality(Under(x)) \in Nat
  BY <1>1, FS_Subset, FS_CardinalityType
<1>5. Cardinality(S) \in Nat
  BY FS_CardinalityType
<1>6. \A x \in S : Cardinality(Under(x)) =< Cardinality(S) /\ Cardinality(Under(x)) # Cardinality(S)
  BY <1>1, FS_Subset
<1>7. \A x, y \in S : <<x, y>> \in R => /\ Cardinality(Under(x)) =< Cardinality(Under(y))
                                        /\ Cardinality(Under(x)) # Cardinality(Under(y))
  BY <1>2, <1>4, FS_Subset
<1> QED
  BY <1>3, <1>4, <1>5, <1>6, <1>7

(* Sorted, for an order that is given as a relation.                       *)
Ordered(S, R) ==
  [i \in 1 .. Cardinality(S) |->
     (CHOOSE p \in {<<Position(S, R, x), x>> : x \in S} : p[1] = i - 1)[2]]

LEMMA OrderedEnumerates ==
  ASSUME NEW S, IsFiniteSet(S), NEW R, StrictOrder(S, R)
  PROVE  /\ Cardinality(S) \in Nat
         /\ Ordered(S, R) \in [1 .. Cardinality(S) -> S]
         /\ \A i, j \in 1 .. Cardinality(S) :
              i < j => <<Ordered(S, R)[i], Ordered(S, R)[j]>> \in R
         /\ \A x \in S : \E i \in 1 .. Cardinality(S) : Ordered(S, R)[i] = x
<1> DEFINE N == Cardinality(S)
           pos == [x \in S |-> Position(S, R, x) + 1]
           T == 1 .. N
<1>1. N \in Nat
  BY FS_CardinalityType
<1>2. /\ pos \in [S -> T]
      /\ \A x, y \in S : <<x, y>> \in R => pos[x] < pos[y]
  BY <1>1, Positions
<1>0. \A x \in S : pos[x] = Position(S, R, x) + 1 /\ Position(S, R, x) \in Nat
  BY Positions
<1> HIDE DEF pos
<1>3. pos \in Injection(S, T)
  <2>1. ASSUME NEW x \in S, NEW y \in S, x # y PROVE pos[x] # pos[y]
    <3>1. pos[x] \in Int /\ pos[y] \in Int
      BY <1>2
    <3>2. <<x, y>> \in R \/ <<y, x>> \in R
      BY <2>1 DEF StrictOrder
    <3>3. pos[x] < pos[y] \/ pos[y] < pos[x]
      BY <1>2, <3>2
    <3> QED
      BY <3>1, <3>3
  <2> QED
    BY <1>2, <2>1 DEF Injection, IsInjective
<1>4. IsFiniteSet(T) /\ Cardinality(T) = N
  BY <1>1, FS_Interval
<1>5. pos \in Surjection(S, T)
  <2> DEFINE image == {pos[x] : x \in S}
  <2>1. pos \in Surjection(S, image) /\ pos \in Injection(S, image)
    BY <1>2, <1>3 DEF Surjection, Injection, IsInjective
  <2>2. IsFiniteSet(image) /\ Cardinality(image) = N
    BY <2>1, FS_Surjection
  <2>3. image \in SUBSET T
    BY <1>2
  <2>4. image = T
    BY <1>4, <2>2, <2>3, FS_Subset
  <2> QED
    BY <2>1, <2>4
<1>6. \A i \in T : Ordered(S, R)[i] \in S /\ pos[Ordered(S, R)[i]] = i
  <2> SUFFICES ASSUME NEW i \in T
               PROVE  Ordered(S, R)[i] \in S /\ pos[Ordered(S, R)[i]] = i
    OBVIOUS
  <2> DEFINE places == {<<Position(S, R, x), x>> : x \in S}
  <2>1. PICK x \in S : pos[x] = i
    BY <1>5 DEF Surjection
  <2>2. <<Position(S, R, x), x>> \in places /\ Position(S, R, x) = i - 1
    BY <1>0, <1>1, <2>1
  <2>3. PICK p : p = CHOOSE q \in places : q[1] = i - 1
    OBVIOUS
  <2>4. p \in places /\ p[1] = i - 1
    <3>1. \E q \in places : q[1] = i - 1
      BY <2>2
    <3> HIDE DEF places
    <3> QED
      BY <2>3, <3>1
  <2>5. PICK y \in S : p = <<Position(S, R, y), y>>
    BY <2>4
  <2>6. Ordered(S, R)[i] = y /\ Position(S, R, y) = i - 1
    <3>1. Ordered(S, R)[i] = (CHOOSE q \in places : q[1] = i - 1)[2]
      BY DEF Ordered
    <3>2. p[1] = Position(S, R, y) /\ p[2] = y
      BY <2>5
    <3> HIDE DEF places
    <3> QED
      BY <2>3, <2>4, <3>1, <3>2
  <2> QED
    BY <1>0, <1>1, <2>6
<1>7. \A x \in S : pos[x] \in T /\ Ordered(S, R)[pos[x]] = x
  <2> SUFFICES ASSUME NEW x \in S PROVE pos[x] \in T /\ Ordered(S, R)[pos[x]] = x
    OBVIOUS
  <2>1. pos[x] \in T /\ Ordered(S, R)[pos[x]] \in S /\ pos[Ordered(S, R)[pos[x]]] = pos[x]
    BY <1>2, <1>6
  <2> QED
    BY <1>3, <2>1 DEF Injection, IsInjective
<1>8. ASSUME NEW i \in T, NEW j \in T, i < j
      PROVE  <<Ordered(S, R)[i], Ordered(S, R)[j]>> \in R
  <2> DEFINE a == Ordered(S, R)[i]
             b == Ordered(S, R)[j]
  <2>1. a \in S /\ b \in S /\ pos[a] = i /\ pos[b] = j
    BY <1>6
  <2> HIDE DEF a, b
  <2>2. a # b /\ ~(pos[b] < pos[a])
    BY <1>8, <2>1
  <2> QED
    BY <1>2, <2>1, <2>2 DEF StrictOrder, a, b
<1>9. Ordered(S, R) = [i \in T |-> Ordered(S, R)[i]]
  BY DEF Ordered
<1> QED
  BY <1>1, <1>6, <1>7, <1>8, <1>9

-----------------------------------------------------------------------------
(* Breadth-first search.                                                   *)

Distinguished(S) ==
  /\ \A x \in S : Rank[x] \in Nat
  /\ \A x, y \in S : Rank[x] = Rank[y] => x = y

(* s lists F, each member once.                                            *)
Lists(s, F) ==
  /\ s \in Seq(F)
  /\ \A i, j \in 1 .. Len(s) : s[i] = s[j] => i = j
  /\ \A y \in F : \E i \in 1 .. Len(s) : s[i] = y

LEMMA OrderedLists ==
  ASSUME NEW S, IsFiniteSet(S), NEW R, StrictOrder(S, R)
  PROVE  /\ Lists(Ordered(S, R), S)
         /\ Len(Ordered(S, R)) = Cardinality(S)
         /\ \A i, j \in 1 .. Cardinality(S) :
              i < j => <<Ordered(S, R)[i], Ordered(S, R)[j]>> \in R
<1> DEFINE s == Ordered(S, R)
           N == Cardinality(S)
<1>1. /\ N \in Nat /\ s \in [1 .. N -> S]
      /\ \A i, j \in 1 .. N : i < j => <<s[i], s[j]>> \in R
      /\ \A x \in S : \E i \in 1 .. N : s[i] = x
  BY OrderedEnumerates
<1> HIDE DEF s
<1>2. s \in Seq(S) /\ Len(s) = N
  <2> HIDE DEF N
  <2> QED
    BY <1>1
<1>3. ASSUME NEW i \in 1 .. N, NEW j \in 1 .. N, s[i] = s[j] PROVE i = j
  <2>1. s[i] \in S /\ <<s[i], s[i]>> \notin R
    BY <1>1 DEF StrictOrder
  <2>2. ~(i < j) /\ ~(j < i)
    BY <1>1, <1>3, <2>1
  <2> QED
    BY <1>1, <2>2
<1> QED
  BY <1>1, <1>2, <1>3 DEF Lists, s

LEMMA NeighborsListed ==
  ASSUME NEW nodes, IsFiniteSet(nodes), Distinguished(nodes), NEW edges, NEW x, NEW visited
  PROVE  Lists(Neighbors(x, nodes, edges, visited), {y \in nodes \ visited : {x, y} \in edges})
<1> DEFINE F == {y \in nodes \ visited : {x, y} \in edges}
           R == {p \in F \X F : Rank[p[1]] < Rank[p[2]]}
<1>0. IsFiniteSet(F) /\ F \subseteq nodes
  BY FS_Subset
<1> DEFINE s == Neighbors(x, nodes, edges, visited)
<1>1. s = [i \in 1 .. Cardinality(F) |->
             (CHOOSE p \in {<<Cardinality({y \in F : Rank[y] < Rank[z]}), z>> : z \in F} :
                p[1] = i - 1)[2]]
  BY DEF Neighbors, Sorted
<1> HIDE DEF F, s
<1>2. \A y, z \in F : <<y, z>> \in R <=> Rank[y] < Rank[z]
  OBVIOUS
<1> HIDE DEF R
<1>3. \A z \in F : Cardinality({y \in F : Rank[y] < Rank[z]}) = Position(F, R, z)
  <2>1. \A z \in F : {y \in F : Rank[y] < Rank[z]} = {y \in F : <<y, z>> \in R}
    BY <1>2
  <2> QED
    BY <2>1 DEF Position
<1>4. {<<Cardinality({y \in F : Rank[y] < Rank[z]}), z>> : z \in F}
        = {<<Position(F, R, z), z>> : z \in F}
  BY <1>3
<1>5. s = Ordered(F, R)
  <2> DEFINE counted == {<<Cardinality({y \in F : Rank[y] < Rank[z]}), z>> : z \in F}
             places == {<<Position(F, R, z), z>> : z \in F}
  <2>1. /\ s = [i \in 1 .. Cardinality(F) |-> (CHOOSE p \in counted : p[1] = i - 1)[2]]
        /\ counted = places
    BY <1>1, <1>4
  <2>2. Ordered(F, R) = [i \in 1 .. Cardinality(F) |-> (CHOOSE p \in places : p[1] = i - 1)[2]]
    BY DEF Ordered
  <2> HIDE DEF places, counted
  <2> QED
    BY <2>1, <2>2
<1>6. StrictOrder(F, R)
  <2>1. \A y \in F : Rank[y] \in Nat
    BY <1>0 DEF Distinguished
  <2>2. \A y, z \in F : y # z => Rank[y] # Rank[z]
    BY <1>0 DEF Distinguished
  <2>3. \A y \in F : <<y, y>> \notin R
    BY <1>2, <2>1
  <2>4. \A y, z, w \in F : <<y, z>> \in R /\ <<z, w>> \in R => <<y, w>> \in R
    BY <1>2, <2>1
  <2>5. \A y, z \in F : y # z => <<y, z>> \in R \/ <<z, y>> \in R
    BY <1>2, <2>1, <2>2
  <2> QED
    BY <2>3, <2>4, <2>5 DEF StrictOrder
<1>7. Lists(s, F)
  BY <1>0, <1>5, <1>6, OrderedLists
<1> QED
  BY <1>7 DEF F, s

(* The search, when the first k nodes of the queue have been expanded: the *)
(* queue is in the order of depth, all of it within a level of the next to *)
(* be expanded; what was expanded has its neighbors in the queue, a level  *)
(* deeper at most; and whatever is not the start has a parent there.       *)
QueueOk(s, nodes, start) ==
  /\ s.queue \in Seq(nodes) /\ Len(s.queue) >= 1 /\ s.queue[1] = start
  /\ \A i, j \in 1 .. Len(s.queue) : s.queue[i] = s.queue[j] => i = j
  /\ DOMAIN s.depth = {s.queue[i] : i \in 1 .. Len(s.queue)}
  /\ DOMAIN s.previous = DOMAIN s.depth

LevelsOk(s, D) ==
  /\ \A i \in 1 .. Len(s.queue) :
       /\ s.depth[s.queue[i]] \in Nat
       /\ s.depth[s.queue[i]] < i /\ s.depth[s.queue[i]] =< D
  /\ \A i, j \in 1 .. Len(s.queue) :
       i =< j => s.depth[s.queue[i]] =< s.depth[s.queue[j]]

FrontOk(s, k) ==
  k < Len(s.queue) =>
    \A i \in 1 .. Len(s.queue) : s.depth[s.queue[i]] =< s.depth[s.queue[k + 1]] + 1

ExpandedOk(s, k, nodes, edges, D) ==
  \A i \in 1 .. k : s.depth[s.queue[i]] < D =>
    \A y \in nodes : {s.queue[i], y} \in edges =>
      y \in DOMAIN s.depth /\ s.depth[y] =< s.depth[s.queue[i]] + 1

ParentsOk(s, k, edges, start) ==
  \A y \in DOMAIN s.depth : y # start =>
    \E i \in 1 .. k : /\ s.previous[y] = s.queue[i] /\ {s.queue[i], y} \in edges
                      /\ s.depth[y] = s.depth[s.queue[i]] + 1

Bfs(s, k, nodes, edges, start, D) ==
  /\ k \in 0 .. Len(s.queue)
  /\ QueueOk(s, nodes, start) /\ LevelsOk(s, D) /\ FrontOk(s, k)
  /\ ExpandedOk(s, k, nodes, edges, D) /\ ParentsOk(s, k, edges, start)

(* F is what the search finds from the i-th node: new, and all there is.    *)
IsFound(F, s, i, nodes, edges, D) ==
  /\ F \subseteq nodes \ DOMAIN s.depth
  /\ Lists(Found(s, i, nodes, edges, D), F)
  /\ \A y \in F : {s.queue[i], y} \in edges /\ s.depth[s.queue[i]] < D
  /\ s.depth[s.queue[i]] < D =>
       \A y \in nodes : {s.queue[i], y} \in edges => y \in DOMAIN s.depth \cup F

LEMMA FoundListed ==
  ASSUME NEW nodes, IsFiniteSet(nodes), Distinguished(nodes), NEW edges, NEW D \in Nat,
         NEW s, NEW i, s.depth[s.queue[i]] \in Nat
  PROVE  \E F : IsFound(F, s, i, nodes, edges, D)
<1> DEFINE x == s.queue[i]
           N == {y \in nodes \ DOMAIN s.depth : {x, y} \in edges}
<1>1. CASE s.depth[x] >= D
  <2>1. Found(s, i, nodes, edges, D) = <<>>
    BY <1>1 DEF Found
  <2>2. Lists(<<>>, {})
    BY DEF Lists
  <2> QED
    BY <1>1, <2>1, <2>2 DEF IsFound
<1>2. CASE ~(s.depth[x] >= D)
  <2>1. Found(s, i, nodes, edges, D) = Neighbors(x, nodes, edges, DOMAIN s.depth)
    BY <1>2 DEF Found
  <2>2. Lists(Found(s, i, nodes, edges, D), N)
    BY <2>1, NeighborsListed
  <2>3. s.depth[x] < D
    BY <1>2
  <2>4. /\ N \subseteq nodes \ DOMAIN s.depth
        /\ \A y \in N : {x, y} \in edges
        /\ \A y \in nodes : {x, y} \in edges => y \in DOMAIN s.depth \cup N
    OBVIOUS
  <2> HIDE DEF N
  <2> QED
    BY <2>2, <2>3, <2>4 DEF IsFound
<1> QED
  BY <1>1, <1>2

LEMMA ExpandKeeps ==
  ASSUME NEW nodes, IsFiniteSet(nodes), Distinguished(nodes), NEW edges, NEW start,
         NEW D \in Nat, NEW s, NEW k, Bfs(s, k, nodes, edges, start, D), k < Len(s.queue)
  PROVE  Bfs(Expand(s, k + 1, nodes, edges, D), k + 1, nodes, edges, start, D)
<1> DEFINE q == s.queue
           n == Len(q)
           x == q[k + 1]
           found == Found(s, k + 1, nodes, edges, D)
           m == Len(found)
           dom == DOMAIN s.depth
           t == Expand(s, k + 1, nodes, edges, D)
           dq(j) == s.depth[q[j]]
<1>1. /\ q \in Seq(nodes) /\ n \in Nat /\ n >= 1 /\ q[1] = start
      /\ \A i, j \in 1 .. n : q[i] = q[j] => i = j
      /\ dom = {q[i] : i \in 1 .. n} /\ DOMAIN s.previous = dom
      /\ k \in 0 .. n /\ k + 1 \in 1 .. n /\ k \in Nat
  BY DEF Bfs, QueueOk
<1>2. /\ \A i \in 1 .. n : dq(i) \in Nat /\ dq(i) < i /\ dq(i) =< D
      /\ \A i, j \in 1 .. n : i =< j => dq(i) =< dq(j)
      /\ \A i \in 1 .. n : dq(i) =< dq(k + 1) + 1
  BY DEF Bfs, LevelsOk, FrontOk
<1>3. PICK F : /\ F \subseteq nodes \ dom
               /\ Lists(found, F)
               /\ \A y \in F : {x, y} \in edges /\ dq(k + 1) < D
               /\ dq(k + 1) < D => \A y \in nodes : {x, y} \in edges => y \in dom \cup F
  <2>1. s.depth[s.queue[k + 1]] \in Nat
    BY <1>1, <1>2
  <2>2. PICK F : IsFound(F, s, k + 1, nodes, edges, D)
    BY <2>1, FoundListed
  <2> QED
    BY <2>2 DEF IsFound
<1>4. /\ found \in Seq(F) /\ m \in Nat
      /\ \A i, j \in 1 .. m : found[i] = found[j] => i = j
      /\ F = {found[i] : i \in 1 .. m} /\ F = ToSet(found)
      /\ \A i \in 1 .. m : found[i] \in F
  <2>1. found \in Seq(F) /\ m \in Nat /\ DOMAIN found = 1 .. m
    BY <1>3 DEF Lists
  <2> HIDE DEF found
  <2> QED
    BY <1>3, <2>1 DEF Lists, ToSet
<1>5. /\ t.queue = q \o found
      /\ t.depth = Marked(s.depth, found, dq(k + 1) + 1)
      /\ t.previous = Marked(s.previous, found, x)
  BY DEF Expand
<1> HIDE DEF found, t, q
<1>6. /\ t.queue \in Seq(nodes) /\ Len(t.queue) = n + m
      /\ \A i \in 1 .. n : t.queue[i] = q[i]
      /\ \A i \in 1 .. m : t.queue[n + i] = found[i]
  <2>1. found \in Seq(nodes)
    <3>1. F \subseteq nodes
      BY <1>3
    <3> QED
      BY <1>4, <3>1
  <2> QED
    BY <1>1, <1>4, <1>5, <2>1
<1>7. /\ DOMAIN t.depth = dom \cup F /\ DOMAIN t.previous = dom \cup F
      /\ \A y \in dom : t.depth[y] = s.depth[y] /\ t.previous[y] = s.previous[y]
      /\ \A y \in F : t.depth[y] = dq(k + 1) + 1 /\ t.previous[y] = x
  BY <1>1, <1>3, <1>4, <1>5 DEF Marked
<1> DEFINE l == n + m
           dt(j) == t.depth[t.queue[j]]
<1>8. \A j \in 1 .. l : \/ j \in 1 .. n
                        \/ j - n \in 1 .. m /\ j = n + (j - n) /\ j > n
  BY <1>1, <1>4
<1>9. \A j \in 1 .. n : dt(j) = dq(j) /\ t.queue[j] \in dom
  BY <1>1, <1>6, <1>7
<1>10. \A j \in 1 .. m : dt(n + j) = dq(k + 1) + 1 /\ t.queue[n + j] \in F
  BY <1>4, <1>6, <1>7
<1>11. QueueOk(t, nodes, start)
  <2>1. \A i, j \in 1 .. l : t.queue[i] = t.queue[j] => i = j
    <3> SUFFICES ASSUME NEW i \in 1 .. l, NEW j \in 1 .. l, t.queue[i] = t.queue[j]
                 PROVE  i = j
      OBVIOUS
    <3>1. CASE i \in 1 .. n /\ j \in 1 .. n
      BY <1>1, <1>6, <3>1
    <3>2. CASE i \notin 1 .. n /\ j \notin 1 .. n
      <4>1. i - n \in 1 .. m /\ j - n \in 1 .. m /\ i = n + (i - n) /\ j = n + (j - n)
        BY <1>8, <3>2
      <4>2. found[i - n] = found[j - n]
        BY <1>6, <4>1
      <4>3. i - n = j - n
        BY <1>4, <4>1, <4>2
      <4> QED
        BY <1>1, <4>3
    <3>3. CASE ~(i \in 1 .. n <=> j \in 1 .. n)
      <4>1. ~(t.queue[i] \in dom <=> t.queue[j] \in dom)
        BY <1>3, <1>8, <1>9, <1>10, <3>3
      <4> QED
        BY <4>1
    <3> QED
      BY <3>1, <3>2, <3>3
  <2>2. dom \cup F = {t.queue[i] : i \in 1 .. l}
    <3>1. \A i \in 1 .. n : i \in 1 .. l
      BY <1>1, <1>4
    <3>2. \A i \in 1 .. m : n + i \in 1 .. l
      BY <1>1, <1>4
    <3>3. ASSUME NEW y \in dom \cup F PROVE \E i \in 1 .. l : y = t.queue[i]
      <4>1. CASE y \in dom
        BY <1>1, <1>6, <3>1, <4>1
      <4>2. CASE y \in F
        <5>1. PICK i \in 1 .. m : y = found[i]
          BY <1>4, <4>2
        <5> QED
          BY <1>6, <3>2, <5>1
      <4> QED
        BY <4>1, <4>2
    <3>4. ASSUME NEW i \in 1 .. l PROVE t.queue[i] \in dom \cup F
      BY <1>8, <1>9, <1>10
    <3> QED
      BY <3>3, <3>4
  <2>3. Len(t.queue) >= 1 /\ t.queue[1] = start
    BY <1>1, <1>4, <1>6
  <2> QED
    BY <1>6, <1>7, <2>1, <2>2, <2>3 DEF QueueOk
<1>12. \A j \in 1 .. l : /\ dt(j) \in Nat /\ dt(j) < j /\ dt(j) =< D
                         /\ dt(j) =< dq(k + 1) + 1
  <2> SUFFICES ASSUME NEW j \in 1 .. l
               PROVE  dt(j) \in Nat /\ dt(j) < j /\ dt(j) =< D /\ dt(j) =< dq(k + 1) + 1
    OBVIOUS
  <2>1. CASE j \in 1 .. n
    BY <1>2, <1>9, <2>1
  <2>2. CASE j \notin 1 .. n
    <3>1. j - n \in 1 .. m /\ j = n + (j - n) /\ j > n
      BY <1>8, <2>2
    <3>2. dt(j) = dq(k + 1) + 1 /\ t.queue[j] \in F
      BY <1>10, <3>1
    <3>3. dq(k + 1) < D /\ dq(k + 1) \in Nat /\ dq(k + 1) < k + 1
      BY <1>1, <1>2, <1>3, <3>2
    <3> HIDE DEF dt, dq
    <3> QED
      BY <1>1, <3>1, <3>2, <3>3
  <2> QED
    BY <2>1, <2>2
<1>13. \A i, j \in 1 .. l : i =< j => dt(i) =< dt(j)
  <2> SUFFICES ASSUME NEW i \in 1 .. l, NEW j \in 1 .. l, i =< j PROVE dt(i) =< dt(j)
    OBVIOUS
  <2>1. CASE j \in 1 .. n
    <3>1. i \in 1 .. n
      BY <1>1, <1>4, <2>1
    <3>2. dq(i) =< dq(j)
      BY <1>2, <2>1, <3>1
    <3> QED
      BY <1>9, <2>1, <3>1, <3>2
  <2>2. CASE j \notin 1 .. n
    <3>1. j - n \in 1 .. m /\ j = n + (j - n)
      BY <1>8, <2>2
    <3>2. dt(j) = dq(k + 1) + 1
      BY <1>10, <3>1
    <3> QED
      BY <1>12, <3>2
  <2> QED
    BY <2>1, <2>2
<1>14. LevelsOk(t, D)
  BY <1>6, <1>12, <1>13 DEF LevelsOk
<1>15. FrontOk(t, k + 1)
  <2> SUFFICES ASSUME k + 1 < l, NEW i \in 1 .. l
               PROVE  dt(i) =< dt((k + 1) + 1) + 1
    BY <1>6 DEF FrontOk
  <2>1. k + 1 \in 1 .. l /\ (k + 1) + 1 \in 1 .. l
    BY <1>1, <1>4
  <2>2. dt(k + 1) =< dt((k + 1) + 1) /\ dt(k + 1) = dq(k + 1)
    BY <1>1, <1>9, <1>13, <2>1
  <2>3. dt(i) \in Nat /\ dt(k + 1) \in Nat /\ dt((k + 1) + 1) \in Nat /\ dt(i) =< dq(k + 1) + 1
    BY <1>12, <2>1
  <2> HIDE DEF dt, dq
  <2> QED
    BY <2>2, <2>3
<1>16. ExpandedOk(t, k + 1, nodes, edges, D)
  <2> SUFFICES ASSUME NEW i \in 1 .. k + 1, dt(i) < D, NEW y \in nodes,
                      {t.queue[i], y} \in edges
               PROVE  y \in dom \cup F /\ t.depth[y] =< dt(i) + 1
    BY <1>7 DEF ExpandedOk
  <2>0. i \in 1 .. n /\ t.queue[i] = q[i] /\ dt(i) = dq(i)
    BY <1>1, <1>6, <1>9
  <2>1. CASE i = k + 1
    <3>1. y \in dom \cup F
      BY <1>3, <2>0, <2>1
    <3>2. PICK j \in 1 .. l : y = t.queue[j]
      BY <1>6, <1>7, <1>11, <3>1 DEF QueueOk
    <3> QED
      BY <1>12, <2>0, <2>1, <3>1, <3>2
  <2>2. CASE i # k + 1
    <3>1. i \in 1 .. k
      BY <1>1, <2>2
    <3>2. y \in dom /\ s.depth[y] =< dq(i) + 1
      BY <2>0, <3>1 DEF Bfs, ExpandedOk, q
    <3> QED
      BY <1>7, <2>0, <3>2
  <2> QED
    BY <2>1, <2>2
<1>17. ParentsOk(t, k + 1, edges, start)
  <2> SUFFICES ASSUME NEW y \in dom \cup F, y # start
               PROVE  \E i \in 1 .. k + 1 :
                        /\ t.previous[y] = t.queue[i] /\ {t.queue[i], y} \in edges
                        /\ t.depth[y] = dt(i) + 1
    BY <1>7 DEF ParentsOk
  <2>1. CASE y \in dom
    <3>1. PICK i \in 1 .. k : /\ s.previous[y] = q[i] /\ {q[i], y} \in edges
                              /\ s.depth[y] = dq(i) + 1
      BY <2>1 DEF Bfs, ParentsOk, q
    <3>2. i \in 1 .. k + 1 /\ i \in 1 .. n
      BY <1>1
    <3>3. t.queue[i] = q[i] /\ dt(i) = dq(i)
      BY <1>6, <1>9, <3>2
    <3> QED
      BY <1>7, <2>1, <3>1, <3>2, <3>3
  <2>2. CASE y \in F
    <3>1. k + 1 \in 1 .. k + 1 /\ t.queue[k + 1] = x /\ dt(k + 1) = dq(k + 1)
      BY <1>1, <1>6, <1>9
    <3> QED
      BY <1>3, <1>7, <2>2, <3>1
  <2> QED
    BY <2>1, <2>2
<1>18. k + 1 \in 0 .. Len(t.queue)
  BY <1>1, <1>4, <1>6
<1> QED
  BY <1>11, <1>14, <1>15, <1>16, <1>17, <1>18 DEF Bfs, t

(* The loop of the search.                                                 *)
Started(start) ==
  [queue |-> <<start>>, depth |-> [y \in {start} |-> 0],
   previous |-> [y \in {start} |-> start]]

Round(search, n, nodes, edges, target, D) ==
  IF target \in DOMAIN search.depth \/ n > Len(search.queue) THEN search
  ELSE Expand(search, n, nodes, edges, D)

AreRounds(rounds, N, nodes, edges, start, target, D) ==
  rounds = [n \in 0 .. N |->
              IF n = 0 THEN Started(start)
              ELSE Round(rounds[n - 1], n, nodes, edges, target, D)]

LEMMA RoundsExist ==
  ASSUME NEW nodes, NEW edges, NEW start, NEW target, NEW D
  PROVE  \A N \in Nat : \E f : AreRounds(f, N, nodes, edges, start, target, D)
<1> DEFINE Rounds(f, N) == AreRounds(f, N, nodes, edges, start, target, D)
           G == {N \in Nat : \E f : Rounds(f, N)}
<1>1. 0 \in G
  <2> DEFINE f == [n \in 0 .. 0 |-> Started(start)]
  <2>1. f = [n \in 0 .. 0 |-> IF n = 0 THEN Started(start)
                              ELSE Round(f[n - 1], n, nodes, edges, target, D)]
    <3>1. \A n \in 0 .. 0 : n = 0
      OBVIOUS
    <3> QED
      BY <3>1
  <2> HIDE DEF f
  <2>2. Rounds(f, 0)
    BY <2>1 DEF AreRounds
  <2> QED
    BY <2>2
<1>2. ASSUME NEW N \in G PROVE N + 1 \in G
  <2>1. PICK f : Rounds(f, N)
    OBVIOUS
  <2>2. /\ f[0] = Started(start)
        /\ \A n \in 1 .. N : f[n] = Round(f[n - 1], n, nodes, edges, target, D)
    BY <2>1 DEF AreRounds
  <2> DEFINE g == [n \in 0 .. N + 1 |->
                     IF n = N + 1 THEN Round(f[N], N + 1, nodes, edges, target, D)
                     ELSE f[n]]
             h == [n \in 0 .. N + 1 |->
                     IF n = 0 THEN Started(start)
                     ELSE Round(g[n - 1], n, nodes, edges, target, D)]
  <2>3. \A n \in 0 .. N : g[n] = f[n]
    OBVIOUS
  <2>4. ASSUME NEW n \in 0 .. N + 1 PROVE g[n] = h[n]
    <3>1. CASE n = 0
      BY <2>2, <3>1
    <3>2. CASE n = N + 1
      <4>1. n # 0 /\ n - 1 = N /\ N \in 0 .. N
        BY <3>2
      <4> QED
        BY <2>3, <3>2, <4>1
    <3>3. CASE n # 0 /\ n # N + 1
      <4>1. n \in 1 .. N /\ n \in 0 .. N /\ n - 1 \in 0 .. N
        BY <3>3
      <4>2. g[n] = f[n] /\ g[n - 1] = f[n - 1]
        BY <2>3, <4>1
      <4> QED
        BY <2>2, <3>3, <4>1, <4>2
    <3> QED
      BY <3>1, <3>2, <3>3
  <2>5. g = h
    BY <2>4
  <2>6. Rounds(g, N + 1)
    BY <2>5 DEF AreRounds
  <2> HIDE DEF g
  <2> QED
    BY <2>6
<1>3. G = Nat
  <2> HIDE DEF G
  <2> QED
    BY <1>1, <1>2, AllNaturals DEF G
<1> QED
  BY <1>3

LEMMA SearchIsRounds ==
  ASSUME NEW nodes, IsFiniteSet(nodes), NEW edges, NEW start, NEW target, NEW D
  PROVE  \E f : /\ Search(nodes, edges, start, target, D) = f[Cardinality(nodes)]
                /\ f[0] = Started(start)
                /\ \A n \in 1 .. Cardinality(nodes) :
                     f[n] = Round(f[n - 1], n, nodes, edges, target, D)
<1> DEFINE N == Cardinality(nodes)
<1>0. N \in Nat
  BY FS_CardinalityType
<1>1. Search(nodes, edges, start, target, D)
        = (CHOOSE rounds : AreRounds(rounds, N, nodes, edges, start, target, D))[N]
  BY DEF Search, AreRounds, Round, Started
<1>2. PICK f : f = CHOOSE rounds : AreRounds(rounds, N, nodes, edges, start, target, D)
  OBVIOUS
<1>3. AreRounds(f, N, nodes, edges, start, target, D)
  BY <1>0, <1>2, RoundsExist
<1> HIDE DEF N
<1>4. /\ f[0] = Started(start)
      /\ \A n \in 1 .. N : f[n] = Round(f[n - 1], n, nodes, edges, target, D)
  BY <1>0, <1>3 DEF AreRounds
<1> QED
  BY <1>1, <1>2, <1>4 DEF N

LEMMA StartedOk ==
  ASSUME NEW nodes, NEW edges, NEW start \in nodes, NEW D \in Nat
  PROVE  Bfs(Started(start), 0, nodes, edges, start, D)
<1> DEFINE s == Started(start)
<1>1. /\ s.queue = <<start>> /\ Len(s.queue) = 1 /\ s.queue[1] = start
      /\ DOMAIN s.depth = {start} /\ DOMAIN s.previous = {start}
      /\ s.depth[start] = 0 /\ s.queue \in Seq(nodes)
  BY DEF Started
<1> HIDE DEF s
<1>2. \A i \in 1 .. Len(s.queue) : i = 1
  BY <1>1
<1>3. {start} = {s.queue[i] : i \in 1 .. Len(s.queue)}
  BY <1>1, <1>2
<1>4. QueueOk(s, nodes, start)
  BY <1>1, <1>2, <1>3 DEF QueueOk
<1>5. LevelsOk(s, D) /\ FrontOk(s, 0)
  BY <1>1, <1>2 DEF LevelsOk, FrontOk
<1>6. ExpandedOk(s, 0, nodes, edges, D) /\ ParentsOk(s, 0, edges, start)
  BY <1>1 DEF ExpandedOk, ParentsOk
<1>7. 0 \in 0 .. Len(s.queue)
  BY <1>1
<1> QED
  BY <1>4, <1>5, <1>6, <1>7 DEF Bfs, s

LEMMA QueueBounded ==
  ASSUME NEW nodes, IsFiniteSet(nodes), NEW start, NEW s, QueueOk(s, nodes, start)
  PROVE  Len(s.queue) =< Cardinality(nodes)
<1> DEFINE n == Len(s.queue)
           f == [i \in 1 .. n |-> s.queue[i]]
<1>1. n \in Nat /\ \A i \in 1 .. n : s.queue[i] \in nodes
  BY DEF QueueOk
<1>2. f \in Injection(1 .. n, nodes)
  BY <1>1 DEF QueueOk, Injection, IsInjective
<1> HIDE DEF f, n
<1>3. IsFiniteSet(1 .. n) /\ Cardinality(1 .. n) = n
  BY <1>1, FS_Interval
<1>4. Cardinality(1 .. n) =< Cardinality(nodes)
  BY <1>2, <1>3, FS_Injection
<1> QED
  BY <1>3, <1>4 DEF n

(* When the search ends, the target is found or everything is expanded.    *)
LEMMA Searched ==
  ASSUME NEW nodes, IsFiniteSet(nodes), Distinguished(nodes), NEW edges,
         NEW start \in nodes, NEW target, NEW D \in Nat
  PROVE  LET s == Search(nodes, edges, start, target, D) IN
         \E k : /\ Bfs(s, k, nodes, edges, start, D)
                /\ target \in DOMAIN s.depth \/ k = Len(s.queue)
<1> DEFINE N == Cardinality(nodes)
<1>0. N \in Nat
  BY FS_CardinalityType
<1>1. PICK f : /\ Search(nodes, edges, start, target, D) = f[N]
               /\ f[0] = Started(start)
               /\ \A n \in 1 .. N : f[n] = Round(f[n - 1], n, nodes, edges, target, D)
  BY SearchIsRounds
<1> HIDE DEF N
<1> DEFINE Ends(s, k) == target \in DOMAIN s.depth \/ k = Len(s.queue)
           Ok(n, k) == /\ k \in Nat /\ k =< n
                       /\ Bfs(f[n], k, nodes, edges, start, D)
                       /\ k = n \/ Ends(f[n], k)
           G == {n \in Nat : n =< N => \E k : Ok(n, k)}
<1>2. 0 \in G
  <2>1. Ok(0, 0)
    BY <1>1, StartedOk
  <2> HIDE DEF Ok
  <2> QED
    BY <2>1
<1>3. ASSUME NEW n \in G PROVE n + 1 \in G
  <2> SUFFICES ASSUME n + 1 =< N PROVE \E k : Ok(n + 1, k)
    OBVIOUS
  <2>1. n \in Nat /\ n + 1 \in 1 .. N /\ n =< N /\ (n + 1) - 1 = n
    BY <1>0
  <2>2. PICK k : Ok(n, k)
    BY <2>1
  <2>3. f[n + 1] = Round(f[n], n + 1, nodes, edges, target, D)
    BY <1>1, <2>1
  <2>4. k \in Nat /\ k =< n /\ k =< Len(f[n].queue) /\ Len(f[n].queue) \in Nat
    BY <2>2 DEF Bfs, QueueOk
  <2>5. CASE target \in DOMAIN f[n].depth \/ n + 1 > Len(f[n].queue)
    <3>1. f[n + 1] = f[n]
      BY <2>3, <2>5 DEF Round
    <3>2. Ends(f[n], k)
      BY <2>1, <2>2, <2>4, <2>5
    <3>3. k =< n + 1
      BY <2>1, <2>4
    <3>4. Ok(n + 1, k)
      BY <2>2, <3>1, <3>2, <3>3
    <3> HIDE DEF Ok
    <3> QED
      BY <3>4
  <2>6. CASE ~(target \in DOMAIN f[n].depth \/ n + 1 > Len(f[n].queue))
    <3>1. f[n + 1] = Expand(f[n], n + 1, nodes, edges, D)
      BY <2>3, <2>6 DEF Round
    <3>2. k = n /\ n < Len(f[n].queue)
      BY <2>1, <2>2, <2>4, <2>6
    <3>3. Bfs(f[n], n, nodes, edges, start, D)
      BY <2>2, <3>2
    <3>4. Bfs(f[n + 1], n + 1, nodes, edges, start, D)
      BY <3>1, <3>2, <3>3, ExpandKeeps
    <3>5. Ok(n + 1, n + 1)
      BY <2>1, <3>4
    <3> HIDE DEF Ok
    <3> QED
      BY <3>5
  <2> QED
    BY <2>5, <2>6
<1>4. G = Nat
  <2> HIDE DEF G
  <2> QED
    BY <1>2, <1>3, AllNaturals DEF G
<1>5. PICK k : Ok(N, k)
  BY <1>0, <1>4
<1>6. k = N => k = Len(f[N].queue)
  <2>1. Len(f[N].queue) =< N /\ k =< Len(f[N].queue) /\ Len(f[N].queue) \in Nat
    <3>1. QueueOk(f[N], nodes, start) /\ k \in 0 .. Len(f[N].queue)
      BY <1>5 DEF Bfs
    <3>2. Len(f[N].queue) \in Nat
      BY <3>1 DEF QueueOk
    <3>3. Len(f[N].queue) =< N
      BY <3>1, QueueBounded DEF N
    <3> QED
      BY <3>1, <3>2, <3>3
  <2> QED
    BY <1>0, <2>1
<1> QED
  BY <1>1, <1>5, <1>6

(* The distances of the definition.                                        *)
Grown(S, nodes, edges) ==
  S \cup {y \in nodes : \E z \in S : {z, y} \in edges}

AreBalls(ball, N, x, nodes, edges) ==
  ball = [k \in 0 .. N |-> IF k = 0 THEN {x} ELSE Grown(ball[k - 1], nodes, edges)]

LEMMA BallsExist ==
  ASSUME NEW x, NEW nodes, NEW edges
  PROVE  \A N \in Nat : \E ball : AreBalls(ball, N, x, nodes, edges)
<1> SUFFICES ASSUME NEW N \in Nat PROVE \E ball : AreBalls(ball, N, x, nodes, edges)
  OBVIOUS
<1> DEFINE X == SUBSET (nodes \cup {x})
           next == [p \in (1 .. N) \X X |-> Grown(p[2], nodes, edges)]
<1>0. {x} \in X
  OBVIOUS
<1>1. IsStep(next, N, X)
  BY DEF Grown, IsStep
<1>2. \A i \in 1 .. N, S \in X : next[<<i, S>>] = Grown(S, nodes, edges)
  OBVIOUS
<1> HIDE DEF next, X
<1>3. PICK f : Iterates(f, N, X, {x}, next)
  BY <1>0, <1>1, Iterated
<1>4. \A i \in 1 .. N : f[i] = Grown(f[i - 1], nodes, edges)
  <2> SUFFICES ASSUME NEW i \in 1 .. N PROVE f[i] = Grown(f[i - 1], nodes, edges)
    OBVIOUS
  <2>1. i - 1 \in 0 .. N
    OBVIOUS
  <2>2. f[i - 1] \in X /\ f[i] = next[<<i, f[i - 1]>>]
    BY <1>3, <2>1 DEF Iterates
  <2> QED
    BY <1>2, <2>2
<1> DEFINE g == [k \in 0 .. N |-> IF k = 0 THEN {x} ELSE Grown(f[k - 1], nodes, edges)]
<1>5. \A k \in 0 .. N : f[k] = g[k]
  <2> SUFFICES ASSUME NEW k \in 0 .. N PROVE f[k] = g[k]
    OBVIOUS
  <2>1. k = 0 \/ k \in 1 .. N
    OBVIOUS
  <2> QED
    BY <1>3, <1>4, <2>1 DEF Iterates
<1>6. f = g
  BY <1>3, <1>5 DEF Iterates
<1>7. AreBalls(f, N, x, nodes, edges)
  BY <1>6 DEF AreBalls
<1> QED
  BY <1>7

LEMMA BallIsBall ==
  ASSUME NEW x, NEW nodes, NEW edges, NEW N \in Nat
  PROVE  \E ball : /\ AreBalls(ball, N, x, nodes, edges)
                   /\ Ball(N, x, nodes, edges) = ball[N]
<1>1. Ball(N, x, nodes, edges) = (CHOOSE ball : AreBalls(ball, N, x, nodes, edges))[N]
  BY DEF Ball, AreBalls, Grown
<1>2. PICK f : f = CHOOSE ball : AreBalls(ball, N, x, nodes, edges)
  OBVIOUS
<1>3. AreBalls(f, N, x, nodes, edges)
  BY <1>2, BallsExist
<1> QED
  BY <1>1, <1>2, <1>3

LEMMA BallsUnfold ==
  ASSUME NEW x, NEW nodes, NEW edges, NEW N \in Nat,
         NEW f, AreBalls(f, N, x, nodes, edges)
  PROVE  /\ f[0] = {x}
         /\ \A k \in 1 .. N : f[k] = Grown(f[k - 1], nodes, edges)
<1> DEFINE g == [k \in 0 .. N |-> IF k = 0 THEN {x} ELSE Grown(f[k - 1], nodes, edges)]
<1>1. f = g
  BY DEF AreBalls
<1>2. g[0] = {x}
  OBVIOUS
<1>3. \A k \in 1 .. N : g[k] = Grown(f[k - 1], nodes, edges)
  OBVIOUS
<1> HIDE DEF g
<1> QED
  BY <1>1, <1>2, <1>3

LEMMA BallsAgree ==
  ASSUME NEW x, NEW nodes, NEW edges, NEW N \in Nat, NEW M \in Nat,
         NEW f, AreBalls(f, N, x, nodes, edges), NEW g, AreBalls(g, M, x, nodes, edges)
  PROVE  \A k \in Nat : k =< N /\ k =< M => f[k] = g[k]
<1> DEFINE G == {k \in Nat : k =< N /\ k =< M => f[k] = g[k]}
<1>1. /\ f[0] = {x} /\ g[0] = {x}
      /\ \A k \in 1 .. N : f[k] = Grown(f[k - 1], nodes, edges)
      /\ \A k \in 1 .. M : g[k] = Grown(g[k - 1], nodes, edges)
  BY BallsUnfold
<1>2. 0 \in G
  BY <1>1
<1>3. ASSUME NEW k \in G PROVE k + 1 \in G
  <2> SUFFICES ASSUME k + 1 =< N, k + 1 =< M PROVE f[k + 1] = g[k + 1]
    OBVIOUS
  <2>1. k + 1 \in 1 .. N /\ k + 1 \in 1 .. M /\ (k + 1) - 1 = k /\ k =< N /\ k =< M
    OBVIOUS
  <2>2. f[k] = g[k]
    BY <2>1
  <2> QED
    BY <1>1, <2>1, <2>2
<1> HIDE DEF G
<1>4. G = Nat
  BY <1>2, <1>3, AllNaturals DEF G
<1> QED
  BY <1>4 DEF G

LEMMA BallGrows ==
  ASSUME NEW x, NEW nodes, NEW edges
  PROVE  /\ Ball(0, x, nodes, edges) = {x}
         /\ \A n \in Nat : Ball(n + 1, x, nodes, edges)
                             = Grown(Ball(n, x, nodes, edges), nodes, edges)
<1>1. Ball(0, x, nodes, edges) = {x}
  BY BallIsBall, BallsUnfold
<1>2. ASSUME NEW n \in Nat
      PROVE  Ball(n + 1, x, nodes, edges) = Grown(Ball(n, x, nodes, edges), nodes, edges)
  <2>1. PICK f : /\ AreBalls(f, n, x, nodes, edges)
                 /\ Ball(n, x, nodes, edges) = f[n]
    BY BallIsBall
  <2>2. PICK g : /\ AreBalls(g, n + 1, x, nodes, edges)
                 /\ Ball(n + 1, x, nodes, edges) = g[n + 1]
    <3>1. n + 1 \in Nat
      OBVIOUS
    <3> QED
      BY <3>1, BallIsBall
  <2>3. f[n] = g[n]
    <3>1. n + 1 \in Nat /\ n =< n /\ n =< n + 1
      OBVIOUS
    <3> QED
      BY <2>1, <2>2, <3>1, BallsAgree
  <2>4. g[n + 1] = Grown(g[n], nodes, edges)
    <3>1. n + 1 \in Nat /\ n + 1 \in 1 .. n + 1 /\ (n + 1) - 1 = n
      OBVIOUS
    <3> DEFINE h == [k \in 0 .. n + 1 |->
                       IF k = 0 THEN {x} ELSE Grown(g[k - 1], nodes, edges)]
    <3>2. g = h
      BY <2>2 DEF AreBalls
    <3>3. h[n + 1] = Grown(g[n], nodes, edges)
      BY <3>1
    <3> HIDE DEF h
    <3> QED
      BY <3>2, <3>3
  <2> QED
    BY <2>1, <2>2, <2>3, <2>4
<1> QED
  BY <1>1, <1>2

(* What the search has found is as far away as its depth says.             *)
LEMMA DepthIsDistance ==
  ASSUME NEW nodes, NEW edges, NEW start, NEW D \in Nat, NEW s, NEW k,
         Bfs(s, k, nodes, edges, start, D)
  PROVE  /\ \A y \in DOMAIN s.depth : s.depth[y] \in Nat /\ s.depth[y] =< D
         /\ \A y \in DOMAIN s.depth : y \in Ball(s.depth[y], start, nodes, edges)
         /\ \A y \in DOMAIN s.depth, m \in Nat :
              m < s.depth[y] => y \notin Ball(m, start, nodes, edges)
<1> DEFINE B(m) == Ball(m, start, nodes, edges)
           q == s.queue
           n == Len(q)
           dom == DOMAIN s.depth
<1>0. /\ n \in Nat /\ n >= 1 /\ q[1] = start /\ start \in dom /\ 1 \in 1 .. n
      /\ dom = {q[i] : i \in 1 .. n} /\ dom \subseteq nodes
      /\ \A i \in 1 .. n : q[i] \in dom
  BY DEF Bfs, QueueOk
<1>1. /\ \A i \in 1 .. n : s.depth[q[i]] \in Nat /\ s.depth[q[i]] < i /\ s.depth[q[i]] =< D
      /\ \A i, j \in 1 .. n : i =< j => s.depth[q[i]] =< s.depth[q[j]]
  BY DEF Bfs, LevelsOk
<1>2. \A y \in dom : s.depth[y] \in Nat /\ s.depth[y] =< D
  BY <1>0, <1>1
<1>3. s.depth[start] = 0
  BY <1>0, <1>1
<1>4. k \in 0 .. n /\ \A i \in 1 .. k : i \in 1 .. n
  BY <1>0 DEF Bfs
<1>5. \A y \in dom : y # start =>
        \E i \in 1 .. k : {q[i], y} \in edges /\ s.depth[y] = s.depth[q[i]] + 1
  BY DEF Bfs, ParentsOk
<1>6. \A i \in 1 .. k : s.depth[q[i]] < D =>
        \A y \in nodes : {q[i], y} \in edges => y \in dom /\ s.depth[y] =< s.depth[q[i]] + 1
  BY DEF Bfs, ExpandedOk
<1>7. B(0) = {start} /\ \A m \in Nat : B(m + 1) = Grown(B(m), nodes, edges)
  BY BallGrows
<1> HIDE DEF B, q, n, dom
<1>8. \A m \in Nat : \A y \in dom : s.depth[y] = m => y \in B(m)
  <2> DEFINE G == {m \in Nat : \A y \in dom : s.depth[y] = m => y \in B(m)}
  <2>1. 0 \in G
    <3>1. ASSUME NEW y \in dom, s.depth[y] = 0 PROVE y = start
      <4>1. ASSUME y # start PROVE FALSE
        <5>1. PICK i \in 1 .. k : s.depth[y] = s.depth[q[i]] + 1
          BY <1>5, <4>1
        <5>2. s.depth[q[i]] \in Nat
          BY <1>1, <1>4
        <5> QED
          BY <3>1, <5>1, <5>2
      <4> QED
        BY <4>1
    <3> QED
      BY <1>7, <3>1
  <2>2. ASSUME NEW m \in G PROVE m + 1 \in G
    <3> SUFFICES ASSUME NEW y \in dom, s.depth[y] = m + 1 PROVE y \in B(m + 1)
      OBVIOUS
    <3>1. y # start
      BY <1>3
    <3>2. PICK i \in 1 .. k : {q[i], y} \in edges /\ s.depth[y] = s.depth[q[i]] + 1
      BY <1>5, <3>1
    <3>3. q[i] \in dom /\ s.depth[q[i]] \in Nat
      BY <1>0, <1>1, <1>4
    <3>4. s.depth[q[i]] = m
      BY <3>2, <3>3
    <3>5. q[i] \in B(m)
      BY <3>3, <3>4
    <3> QED
      BY <1>0, <1>7, <3>2, <3>5 DEF Grown
  <2> HIDE DEF G
  <2>3. G = Nat
    BY <2>1, <2>2, AllNaturals DEF G
  <2> QED
    BY <2>3 DEF G
<1>9. \A m \in Nat : \A y \in dom :
        s.depth[y] > m => \A z \in B(m) : z \in dom /\ s.depth[z] =< m
  <2> DEFINE G == {m \in Nat : \A y \in dom :
                     s.depth[y] > m => \A z \in B(m) : z \in dom /\ s.depth[z] =< m}
  <2>1. 0 \in G
    BY <1>0, <1>3, <1>7
  <2>2. ASSUME NEW m \in G PROVE m + 1 \in G
    <3> SUFFICES ASSUME NEW y \in dom, s.depth[y] > m + 1, NEW w \in B(m + 1)
                 PROVE  w \in dom /\ s.depth[w] =< m + 1
      OBVIOUS
    <3>1. m \in Nat /\ s.depth[y] > m
      BY <1>2
    <3>2. \A z \in B(m) : z \in dom /\ s.depth[z] =< m
      BY <3>1
    <3>3. CASE w \in B(m)
      BY <1>2, <3>1, <3>2, <3>3
    <3>4. CASE w \notin B(m)
      <4>1. PICK z \in B(m) : w \in nodes /\ {z, w} \in edges
        BY <1>7, <3>1, <3>4 DEF Grown
      <4>2. z \in dom /\ s.depth[z] =< m /\ s.depth[z] \in Nat
        BY <1>2, <3>2
      <4>3. PICK j \in 1 .. n : z = q[j]
        BY <1>0, <4>2
      <4>4. y # start
        BY <1>3, <3>1
      <4>5. PICK i \in 1 .. k : s.depth[y] = s.depth[q[i]] + 1
        BY <1>5, <4>4
      <4>6. i \in 1 .. n /\ s.depth[q[i]] \in Nat /\ s.depth[q[i]] > m
        BY <1>1, <1>4, <3>1, <4>5
      <4>7. ~(i =< j)
        BY <1>1, <4>2, <4>3, <4>6
      <4>8. j \in 1 .. k
        BY <1>4, <4>7
      <4>9. s.depth[q[j]] < D
        BY <1>2, <3>1, <4>2, <4>3
      <4>10. w \in dom /\ s.depth[w] =< s.depth[q[j]] + 1
        BY <1>6, <4>1, <4>3, <4>8, <4>9
      <4> QED
        BY <1>2, <4>2, <4>3, <4>10
    <3> QED
      BY <3>3, <3>4
  <2> HIDE DEF G
  <2>3. G = Nat
    BY <2>1, <2>2, AllNaturals DEF G
  <2> QED
    BY <2>3 DEF G
<1>10. \A y \in dom, m \in Nat : m < s.depth[y] => y \notin B(m)
  <2> SUFFICES ASSUME NEW y \in dom, NEW m \in Nat, m < s.depth[y], y \in B(m) PROVE FALSE
    OBVIOUS
  <2>1. s.depth[y] \in Nat /\ s.depth[y] > m
    BY <1>2
  <2>2. s.depth[y] =< m
    BY <1>9, <2>1
  <2> QED
    BY <2>1, <2>2
<1>11. \A y \in dom : y \in B(s.depth[y])
  BY <1>2, <1>8
<1> QED
  BY <1>2, <1>10, <1>11 DEF B, dom

(* Once everything is expanded there is nothing else within D hops.        *)
LEMMA ExhaustedIsComplete ==
  ASSUME NEW nodes, NEW edges, NEW start, NEW D \in Nat, NEW s,
         Bfs(s, Len(s.queue), nodes, edges, start, D), NEW M \in Nat,
         M =< D \/ \A y \in DOMAIN s.depth : s.depth[y] < D
  PROVE  Ball(M, start, nodes, edges) \subseteq DOMAIN s.depth
<1> DEFINE B(m) == Ball(m, start, nodes, edges)
           q == s.queue
           n == Len(q)
           dom == DOMAIN s.depth
           G == {m \in Nat : m =< M => \A z \in B(m) : z \in dom /\ s.depth[z] =< m}
<1>1. /\ n \in Nat /\ n >= 1 /\ q[1] = start /\ start \in dom /\ 1 \in 1 .. n
      /\ dom = {q[i] : i \in 1 .. n} /\ s.depth[q[1]] < 1
  BY DEF Bfs, QueueOk, LevelsOk
<1>2. \A y \in dom : s.depth[y] \in Nat
  BY DepthIsDistance
<1>3. \A i \in 1 .. n : s.depth[q[i]] < D =>
        \A y \in nodes : {q[i], y} \in edges => y \in dom /\ s.depth[y] =< s.depth[q[i]] + 1
  BY DEF Bfs, ExpandedOk
<1>4. B(0) = {start} /\ \A m \in Nat : B(m + 1) = Grown(B(m), nodes, edges)
  BY BallGrows
<1>0. \A y \in dom : s.depth[y] < M => s.depth[y] < D
  BY <1>2
<1> HIDE DEF B, q, n, dom
<1>5. 0 \in G
  <2>1. start \in dom /\ s.depth[start] = 0
    BY <1>1, <1>2
  <2>3. \A z \in B(0) : z = start
    BY <1>4
  <2>2. \A z \in B(0) : z \in dom /\ s.depth[z] =< 0
    BY <2>1, <2>3
  <2> QED
    BY <2>2
<1>6. ASSUME NEW m \in G PROVE m + 1 \in G
  <2> SUFFICES ASSUME m + 1 =< M, NEW w \in B(m + 1) PROVE w \in dom /\ s.depth[w] =< m + 1
    OBVIOUS
  <2>1. m \in Nat /\ m =< M
    OBVIOUS
  <2>2. \A z \in B(m) : z \in dom /\ s.depth[z] =< m
    BY <2>1
  <2>3. CASE w \in B(m)
    BY <1>2, <2>1, <2>2, <2>3
  <2>4. CASE w \notin B(m)
    <3>1. PICK z \in B(m) : w \in nodes /\ {z, w} \in edges
      BY <1>4, <2>1, <2>4 DEF Grown
    <3>2. z \in dom /\ s.depth[z] =< m /\ s.depth[z] \in Nat
      BY <1>2, <2>2
    <3>3. PICK j \in 1 .. n : z = q[j]
      BY <1>1, <3>2
    <3>4. s.depth[z] < M
      BY <2>1, <3>2
    <3>5. s.depth[q[j]] < D
      BY <1>0, <3>2, <3>3, <3>4
    <3>6. w \in dom /\ s.depth[w] =< s.depth[q[j]] + 1
      BY <1>3, <3>1, <3>3, <3>5
    <3> QED
      BY <1>2, <2>1, <3>2, <3>3, <3>6
  <2> QED
    BY <2>3, <2>4
<1> HIDE DEF G
<1>7. G = Nat
  BY <1>5, <1>6, AllNaturals DEF G
<1> QED
  BY <1>7 DEF G, B, dom

(* The way back.                                                           *)
AreWays(back, s, start) ==
  back = [y \in DOMAIN s.depth |->
            IF y = start THEN <<start>> ELSE Append(back[s.previous[y]], y)]

(* Every node but the start has a parent, one step nearer.                 *)
ParentsNearer(s, edges, start, D) ==
  /\ start \in DOMAIN s.depth /\ s.depth[start] = 0
  /\ \A y \in DOMAIN s.depth : s.depth[y] \in Nat /\ s.depth[y] =< D
  /\ \A y \in DOMAIN s.depth : y # start =>
       /\ s.previous[y] \in DOMAIN s.depth /\ {s.previous[y], y} \in edges
       /\ s.depth[y] = s.depth[s.previous[y]] + 1

LEMMA SearchParents ==
  ASSUME NEW nodes, NEW edges, NEW start, NEW D \in Nat, NEW s, NEW k,
         Bfs(s, k, nodes, edges, start, D)
  PROVE  ParentsNearer(s, edges, start, D) /\ DOMAIN s.depth \subseteq nodes
<1> DEFINE q == s.queue
           n == Len(q)
           dom == DOMAIN s.depth
<1>1. /\ n \in Nat /\ n >= 1 /\ q[1] = start /\ 1 \in 1 .. n
      /\ dom = {q[i] : i \in 1 .. n} /\ dom \subseteq nodes /\ start \in dom
      /\ \A i \in 1 .. n : q[i] \in dom
  BY DEF Bfs, QueueOk
<1>2. k \in 0 .. n /\ \A i \in 1 .. k : i \in 1 .. n
  BY <1>1 DEF Bfs
<1>3. \A y \in dom : s.depth[y] \in Nat /\ s.depth[y] =< D
  BY DepthIsDistance
<1>4. \A y \in dom : y # start =>
        \E i \in 1 .. k : /\ s.previous[y] = q[i] /\ {q[i], y} \in edges
                          /\ s.depth[y] = s.depth[q[i]] + 1
  BY DEF Bfs, ParentsOk
<1>6. s.depth[start] = 0
  <2>1. s.depth[q[1]] < 1
    BY <1>1 DEF Bfs, LevelsOk
  <2> QED
    BY <1>1, <1>3, <2>1
<1> HIDE DEF q, n
<1>5. ASSUME NEW y \in dom, y # start
      PROVE  /\ s.previous[y] \in dom /\ {s.previous[y], y} \in edges
             /\ s.depth[y] = s.depth[s.previous[y]] + 1
  BY <1>1, <1>2, <1>4, <1>5
<1> QED
  BY <1>1, <1>3, <1>5, <1>6 DEF ParentsNearer

LEMMA WaysExist ==
  ASSUME NEW s, NEW edges, NEW start, NEW D \in Nat, ParentsNearer(s, edges, start, D)
  PROVE  \E back : AreWays(back, s, start)
<1> DEFINE dom == DOMAIN s.depth
           N == D + 2
           X == [dom -> Seq(dom)]
           again(f) == [y \in dom |->
                          IF y = start THEN <<start>> ELSE Append(f[s.previous[y]], y)]
           next == [p \in (1 .. N) \X X |-> again(p[2])]
           base == [y \in dom |-> <<>>]
<1>1. /\ start \in dom
      /\ \A y \in dom : s.depth[y] \in Nat /\ s.depth[y] =< D
      /\ \A y \in dom : y # start =>
           s.previous[y] \in dom /\ s.depth[y] = s.depth[s.previous[y]] + 1
  BY DEF ParentsNearer
<1> HIDE DEF dom
<1>2. base \in X
  OBVIOUS
<1>3. \A f \in X : again(f) \in X
  <2> SUFFICES ASSUME NEW f \in X PROVE again(f) \in X
    OBVIOUS
  <2>1. ASSUME NEW y \in dom
        PROVE  (IF y = start THEN <<start>> ELSE Append(f[s.previous[y]], y)) \in Seq(dom)
    <3>1. CASE y = start
      BY <1>1, <3>1
    <3>2. CASE y # start
      <4>1. f[s.previous[y]] \in Seq(dom)
        BY <1>1, <3>2
      <4> QED
        BY <3>2, <4>1
    <3> QED
      BY <3>1, <3>2
  <2> QED
    BY <2>1
<1>4. \A f : \A y \in dom :
        again(f)[y] = IF y = start THEN <<start>> ELSE Append(f[s.previous[y]], y)
  OBVIOUS
<1>5. \A f : again(f) = [y \in dom |-> again(f)[y]]
  OBVIOUS
<1> HIDE DEF again, base, X
<1>6. IsStep(next, N, X)
  BY <1>3 DEF IsStep
<1>7. \A i \in 1 .. N, f \in X : next[<<i, f>>] = again(f)
  OBVIOUS
<1>8. N \in Nat
  OBVIOUS
<1> HIDE DEF next, N
<1>9. PICK f : Iterates(f, N, X, base, next)
  BY <1>2, <1>6, <1>8, Iterated
<1>10. \A i \in 1 .. N : i - 1 \in 0 .. N /\ f[i - 1] \in X /\ f[i] = again(f[i - 1])
  <2> SUFFICES ASSUME NEW i \in 1 .. N
               PROVE  i - 1 \in 0 .. N /\ f[i - 1] \in X /\ f[i] = again(f[i - 1])
    OBVIOUS
  <2>1. i - 1 \in 0 .. N
    BY <1>8
  <2>2. f[i - 1] \in X /\ f[i] = next[<<i, f[i - 1]>>]
    BY <1>9, <2>1 DEF Iterates
  <2> QED
    BY <1>7, <2>1, <2>2
<1> DEFINE G == {i \in Nat : i < N => \A y \in dom : s.depth[y] < i => f[i + 1][y] = f[i][y]}
<1>11. 0 \in G
  BY <1>1
<1>12. ASSUME NEW i \in G PROVE i + 1 \in G
  <2> SUFFICES ASSUME i + 1 < N, NEW y \in dom, s.depth[y] < i + 1
               PROVE  f[(i + 1) + 1][y] = f[i + 1][y]
    OBVIOUS
  <2>1. /\ i \in Nat /\ i < N /\ i + 1 \in 1 .. N /\ (i + 1) + 1 \in 1 .. N
        /\ (i + 1) - 1 = i /\ ((i + 1) + 1) - 1 = i + 1
    BY <1>8
  <2>2. f[(i + 1) + 1] = again(f[i + 1]) /\ f[i + 1] = again(f[i])
    BY <1>10, <2>1
  <2>3. CASE y = start
    BY <1>4, <2>2, <2>3
  <2>4. CASE y # start
    <3>1. s.previous[y] \in dom /\ s.depth[s.previous[y]] < i
      BY <1>1, <2>1, <2>4
    <3>2. f[i + 1][s.previous[y]] = f[i][s.previous[y]]
      BY <2>1, <3>1
    <3> QED
      BY <1>4, <2>2, <2>4, <3>2
  <2> QED
    BY <2>3, <2>4
<1>13. G = Nat
  <2> HIDE DEF G
  <2> QED
    BY <1>11, <1>12, AllNaturals DEF G
<1> DEFINE M == D + 1
<1>14. M \in Nat /\ M < N /\ M + 1 \in 1 .. N /\ M \in 1 .. N /\ (M + 1) - 1 = M
  BY DEF N
<1>15. \A y \in dom : s.depth[y] < M
  BY <1>1
<1> HIDE DEF M
<1>16. \A y \in dom : again(f[M])[y] = f[M][y]
  <2>1. M \in G /\ f[M + 1] = again(f[M])
    BY <1>10, <1>13, <1>14
  <2> QED
    BY <1>14, <1>15, <2>1
<1>17. f[M] = again(f[M - 1])
  BY <1>10, <1>14
<1>18. f[M] = [y \in dom |-> f[M][y]]
  BY <1>5, <1>17
<1>19. f[M] = again(f[M])
  BY <1>5, <1>16, <1>18
<1> QED
  BY <1>19 DEF AreWays, again, dom

(* A way of the search: from the start, over edges, as long as the depth.  *)
LeadsTo(y, p, s, edges, start) ==
  /\ p \in Seq(DOMAIN s.depth) /\ Len(p) = s.depth[y] + 1
  /\ p[1] = start /\ p[Len(p)] = y
  /\ \A i \in 1 .. Len(p) - 1 : {p[i], p[i + 1]} \in edges

LEMMA WaysLead ==
  ASSUME NEW s, NEW edges, NEW start, NEW D \in Nat, ParentsNearer(s, edges, start, D),
         NEW back, AreWays(back, s, start)
  PROVE  \A y \in DOMAIN s.depth : LeadsTo(y, back[y], s, edges, start)
<1> DEFINE dom == DOMAIN s.depth
           Leads(y, p) == LeadsTo(y, p, s, edges, start)
           rhs == [y \in dom |-> IF y = start THEN <<start>>
                                 ELSE Append(back[s.previous[y]], y)]
           G == {m \in Nat : \A y \in dom : s.depth[y] =< m => Leads(y, back[y])}
<1>1. /\ start \in dom /\ s.depth[start] = 0
      /\ \A y \in dom : s.depth[y] \in Nat /\ s.depth[y] =< D
      /\ \A y \in dom : y # start =>
           /\ s.previous[y] \in dom /\ {s.previous[y], y} \in edges
           /\ s.depth[y] = s.depth[s.previous[y]] + 1
  BY DEF ParentsNearer
<1>2. back = rhs
  BY DEF AreWays
<1> HIDE DEF dom
<1>3. \A y \in dom : rhs[y] = IF y = start THEN <<start>> ELSE Append(back[s.previous[y]], y)
  OBVIOUS
<1> HIDE DEF rhs
<1>4. back[start] = <<start>>
  BY <1>1, <1>2, <1>3
<1>5. \A y \in dom : y # start => back[y] = Append(back[s.previous[y]], y)
  BY <1>2, <1>3
<1>6. ASSUME NEW y \in dom, y # start, Leads(s.previous[y], back[s.previous[y]])
      PROVE  Leads(y, back[y])
  <2> DEFINE z == s.previous[y]
             p == back[z]
             n == Len(p)
  <2>1. /\ z \in dom /\ {z, y} \in edges /\ s.depth[y] = s.depth[z] + 1
        /\ s.depth[z] \in Nat
    BY <1>1, <1>6
  <2>2. /\ p \in Seq(dom) /\ n \in Nat /\ n = s.depth[z] + 1 /\ p[1] = start /\ p[n] = z
        /\ \A i \in 1 .. n - 1 : {p[i], p[i + 1]} \in edges
    BY <1>6 DEF LeadsTo, dom
  <2>3. back[y] = Append(p, y)
    BY <1>5, <1>6
  <2> HIDE DEF z, p, n, Leads
  <2> DEFINE b == Append(p, y)
  <2>4. /\ b \in Seq(dom) /\ Len(b) = n + 1 /\ b[n + 1] = y
        /\ \A i \in 1 .. n : b[i] = p[i]
    BY <2>2 DEF n
  <2> HIDE DEF b
  <2>5. n >= 1 /\ 1 \in 1 .. n /\ n \in 1 .. n
    BY <2>1, <2>2
  <2>6. \A i \in 1 .. (n + 1) - 1 : {b[i], b[i + 1]} \in edges
    <3> SUFFICES ASSUME NEW i \in 1 .. n PROVE {b[i], b[i + 1]} \in edges
      BY <2>2
    <3>1. CASE i = n
      BY <2>1, <2>2, <2>4, <2>5, <3>1
    <3>2. CASE i # n
      <4>1. i \in 1 .. n - 1 /\ i + 1 \in 1 .. n
        BY <2>2, <3>2
      <4> QED
        BY <2>2, <2>4, <4>1
    <3> QED
      BY <3>1, <3>2
  <2>7. Len(b) = s.depth[y] + 1 /\ b[1] = start /\ b[Len(b)] = y
    BY <2>1, <2>2, <2>4, <2>5
  <2>8. Leads(y, b)
    BY <2>4, <2>6, <2>7 DEF Leads, LeadsTo, dom
  <2> QED
    BY <2>3, <2>8 DEF b
<1>7. ASSUME NEW y \in dom, s.depth[y] = 0 PROVE y = start
  <2>1. ASSUME y # start PROVE FALSE
    <3>1. s.depth[y] = s.depth[s.previous[y]] + 1 /\ s.depth[s.previous[y]] \in Nat
      BY <1>1, <2>1
    <3> QED
      BY <1>7, <3>1
  <2> QED
    BY <2>1
<1>8. Leads(start, back[start])
  <2>1. <<start>> \in Seq(dom) /\ Len(<<start>>) = 1 /\ <<start>>[1] = start
    BY <1>1
  <2>2. \A i \in 1 .. 1 - 1 : FALSE
    OBVIOUS
  <2> QED
    BY <1>1, <1>4, <2>1, <2>2 DEF LeadsTo, dom
<1> HIDE DEF Leads
<1>9. 0 \in G
  <2> SUFFICES ASSUME NEW y \in dom, s.depth[y] =< 0 PROVE Leads(y, back[y])
    OBVIOUS
  <2>1. y = start
    BY <1>1, <1>7
  <2> QED
    BY <1>8, <2>1
<1>10. ASSUME NEW m \in G PROVE m + 1 \in G
  <2> SUFFICES ASSUME NEW y \in dom, s.depth[y] =< m + 1 PROVE Leads(y, back[y])
    OBVIOUS
  <2>1. CASE y = start
    BY <1>8, <2>1
  <2>2. CASE y # start
    <3>0. s.previous[y] \in dom /\ s.depth[y] = s.depth[s.previous[y]] + 1
      BY <1>1, <2>2
    <3>3. m \in Nat /\ s.depth[y] \in Nat /\ s.depth[s.previous[y]] \in Nat
      BY <1>1, <3>0
    <3>1. s.depth[s.previous[y]] =< m
      BY <3>0, <3>3
    <3>2. Leads(s.previous[y], back[s.previous[y]])
      BY <3>0, <3>1
    <3> QED
      BY <1>6, <2>2, <3>2
  <2> QED
    BY <2>1, <2>2
<1>11. G = Nat
  <2> HIDE DEF G
  <2> QED
    BY <1>9, <1>10, AllNaturals DEF G
<1>12. \A y \in dom : Leads(y, back[y])
  BY <1>1, <1>11
<1> QED
  BY <1>12 DEF Leads, dom

LEMMA BallMonotone ==
  ASSUME NEW x, NEW nodes, NEW edges, NEW m \in Nat, NEW n \in Nat, m =< n
  PROVE  Ball(m, x, nodes, edges) \subseteq Ball(n, x, nodes, edges)
<1> DEFINE B(i) == Ball(i, x, nodes, edges)
           G == {i \in Nat : m =< i => B(m) \subseteq B(i)}
<1>1. \A i \in Nat : B(i) \subseteq B(i + 1)
  <2>1. B(0) = {x} /\ \A i \in Nat : B(i + 1) = Grown(B(i), nodes, edges)
    BY BallGrows
  <2> HIDE DEF B
  <2> QED
    BY <2>1 DEF Grown
<1> HIDE DEF B
<1>2. 0 \in G
  OBVIOUS
<1>3. ASSUME NEW i \in G PROVE i + 1 \in G
  <2> SUFFICES ASSUME m =< i + 1 PROVE B(m) \subseteq B(i + 1)
    OBVIOUS
  <2>1. CASE m = i + 1
    BY <2>1
  <2>2. CASE m =< i
    <3>1. B(m) \subseteq B(i) /\ B(i) \subseteq B(i + 1)
      BY <1>1, <2>2
    <3> QED
      BY <3>1
  <2> QED
    BY <2>1, <2>2
<1>4. G = Nat
  <2> HIDE DEF G
  <2> QED
    BY <1>2, <1>3, AllNaturals DEF G
<1> QED
  BY <1>4 DEF B

(* The nodes of a search that has not found the target are fewer.          *)
LEMMA QueueMisses ==
  ASSUME NEW nodes, IsFiniteSet(nodes), NEW start, NEW target \in nodes, NEW s,
         QueueOk(s, nodes, start), target \notin DOMAIN s.depth
  PROVE  Len(s.queue) < Cardinality(nodes)
<1> DEFINE n == Len(s.queue)
           f == [i \in 1 .. n |-> s.queue[i]]
           rest == nodes \ {target}
<1>1. n \in Nat /\ \A i \in 1 .. n : s.queue[i] \in rest
  BY DEF QueueOk
<1>2. IsFiniteSet(rest) /\ Cardinality(rest) = Cardinality(nodes) - 1
  BY FS_RemoveElement
<1> HIDE DEF rest
<1>3. f \in Injection(1 .. n, rest)
  BY <1>1 DEF QueueOk, Injection, IsInjective
<1> HIDE DEF f, n
<1>4. IsFiniteSet(1 .. n) /\ Cardinality(1 .. n) = n
  BY <1>1, FS_Interval
<1>5. Cardinality(1 .. n) =< Cardinality(rest)
  BY <1>2, <1>3, <1>4, FS_Injection
<1>6. Cardinality(nodes) \in Nat
  BY FS_CardinalityType
<1> QED
  BY <1>1, <1>2, <1>4, <1>5, <1>6 DEF n

(* The path that is found is a shortest one, and there is none if none is  *)
(* found: within the bound that was given, or at all.                      *)
LEMMA PathIsShortest ==
  ASSUME NEW nodes, IsFiniteSet(nodes), Distinguished(nodes), NEW edges,
         NEW start \in nodes, NEW target \in nodes, NEW D \in Nat, NEW M \in Nat,
         \/ M = D
         \/ D = Cardinality(nodes) - 1 /\ M = Cardinality(nodes)
  PROVE  IsShortestPath(findRelationshipPath(nodes, edges, start, target, D),
                        nodes, edges, start, target, M)
<1> DEFINE s == Search(nodes, edges, start, target, D)
           path == findRelationshipPath(nodes, edges, start, target, D)
           B(m) == Ball(m, start, nodes, edges)
<1>0. D =< M
  OBVIOUS
<1>1. PICK k : /\ Bfs(s, k, nodes, edges, start, D)
               /\ target \in DOMAIN s.depth \/ k = Len(s.queue)
  BY Searched
<1>2. path = IF target \in DOMAIN s.depth
             THEN (CHOOSE back : AreWays(back, s, start))[target]
             ELSE NoPath
  BY DEF findRelationshipPath, AreWays
<1> HIDE DEF path, s
<1>3. ParentsNearer(s, edges, start, D) /\ DOMAIN s.depth \subseteq nodes
  BY <1>1, SearchParents
<1>4. CASE target \in DOMAIN s.depth
  <2>1. PICK back : back = CHOOSE b : AreWays(b, s, start)
    OBVIOUS
  <2>2. AreWays(back, s, start)
    BY <1>3, <2>1, WaysExist
  <2>3. path = back[target]
    BY <1>2, <1>4, <2>1
  <2> DEFINE d == s.depth[target]
  <2>4. /\ path \in Seq(DOMAIN s.depth) /\ Len(path) = d + 1
        /\ path[1] = start /\ path[Len(path)] = target
        /\ \A i \in 1 .. Len(path) - 1 : {path[i], path[i + 1]} \in edges
    <3>1. LeadsTo(target, back[target], s, edges, start)
      BY <1>3, <1>4, <2>2, WaysLead
    <3> QED
      BY <2>3, <3>1 DEF LeadsTo
  <2>5. /\ d \in Nat /\ d =< D /\ target \in B(d)
        /\ \A m \in Nat : m < d => target \notin B(m)
    BY <1>1, <1>4, DepthIsDistance
  <2>6. target \in B(M)
    <3>1. d =< M
      BY <1>0, <2>5
    <3>2. B(d) \subseteq B(M)
      BY <2>5, <3>1, BallMonotone
    <3> QED
      BY <2>5, <3>2
  <2> HIDE DEF d, B
  <2>7. path # NoPath /\ Head(path) = start /\ Last(path) = target
    <3>1. Len(path) >= 1 /\ Len(NoPath) = 0
      BY <2>4, <2>5 DEF NoPath
    <3> QED
      BY <2>4, <3>1 DEF Last
  <2>8. \A m \in 0 .. Len(path) - 2 : target \notin B(m)
    BY <2>4, <2>5
  <2> QED
    BY <2>4, <2>6, <2>7, <2>8 DEF IsShortestPath, path, B
<1>5. CASE target \notin DOMAIN s.depth
  <2>1. k = Len(s.queue) /\ path = NoPath
    BY <1>1, <1>2, <1>5
  <2>2. M =< D \/ \A y \in DOMAIN s.depth : s.depth[y] < D
    <3>1. CASE M = D
      BY <3>1
    <3>2. CASE D = Cardinality(nodes) - 1
      <4>1. QueueOk(s, nodes, start) /\ LevelsOk(s, D)
        BY <1>1 DEF Bfs
      <4>2. Len(s.queue) < Cardinality(nodes)
        BY <1>5, <4>1, QueueMisses
      <4>3. ASSUME NEW y \in DOMAIN s.depth PROVE s.depth[y] < D
        <5>1. PICK i \in 1 .. Len(s.queue) : y = s.queue[i]
          BY <4>1 DEF QueueOk
        <5>2. s.depth[y] \in Nat /\ s.depth[y] < i
          BY <4>1, <5>1 DEF LevelsOk
        <5>3. Len(s.queue) \in Nat /\ Cardinality(nodes) \in Nat
          BY <4>1, FS_CardinalityType DEF QueueOk
        <5> QED
          BY <3>2, <4>2, <5>1, <5>2, <5>3
      <4> QED
        BY <4>3
    <3> QED
      BY <3>1, <3>2
  <2>3. B(M) \subseteq DOMAIN s.depth
    BY <1>1, <2>1, <2>2, ExhaustedIsComplete
  <2> QED
    BY <1>5, <2>1, <2>3 DEF IsShortestPath, path
<1> QED
  BY <1>4, <1>5

(* The list of a query: payments of R, the newest first, all of them       *)
(* unless the limit is reached, none that is older than one left out.      *)
ListsNewest(s, n, R) ==
  /\ s \in Seq(R) /\ Len(s) =< n
  /\ \A i, j \in 1 .. Len(s) : s[i] = s[j] => i = j
  /\ \A i, j \in 1 .. Len(s) : i < j => Time[s[j]] =< Time[s[i]]
  /\ Len(s) < n => \A u \in R : \E i \in 1 .. Len(s) : s[i] = u
  /\ \A u \in R : \/ \E i \in 1 .. Len(s) : s[i] = u
                  \/ \A i \in 1 .. Len(s) : Time[u] =< Time[s[i]]

LEMMA FirstOfSequence ==
  ASSUME NEW S, NEW s \in Seq(S), NEW n \in Nat
  PROVE  /\ FirstOf(n, s) \in Seq(S)
         /\ Len(FirstOf(n, s)) = IF n < Len(s) THEN n ELSE Len(s)
         /\ \A i \in 1 .. Len(FirstOf(n, s)) : i \in 1 .. Len(s) /\ FirstOf(n, s)[i] = s[i]
<1> DEFINE m == IF n < Len(s) THEN n ELSE Len(s)
<1>1. Len(s) \in Nat /\ m \in 0 .. Len(s) /\ \A i \in 1 .. Len(s) : s[i] \in S
  OBVIOUS
<1>2. FirstOf(n, s) = SubSeq(s, 1, m)
  BY DEF FirstOf
<1> HIDE DEF m
<1>3. SubSeq(s, 1, m) = [i \in 1 .. m |-> s[i]]
  BY <1>1
<1>4. SubSeq(s, 1, m) \in Seq(S) /\ Len(SubSeq(s, 1, m)) = m
  BY <1>1
<1> QED
  BY <1>1, <1>2, <1>3, <1>4 DEF m

LEMMA NewestListed ==
  ASSUME NEW R, IsFiniteSet(R), R \subseteq Txns, NEW n \in Nat
  PROVE  ListsNewest(Newest(n, R), n, R)
<1> DEFINE O == {p \in R \X R : \/ Time[p[1]] > Time[p[2]]
                                \/ Time[p[1]] = Time[p[2]] /\ Rank[p[1]] > Rank[p[2]]}
           N == Cardinality(R)
<1>1. \A u, v \in R : <<u, v>> \in O <=> \/ Time[u] > Time[v]
                                         \/ Time[u] = Time[v] /\ Rank[u] > Rank[v]
  OBVIOUS
<1> HIDE DEF O
<1>2. /\ \A u \in R : Time[u] \in Nat /\ Rank[u] \in Nat
      /\ \A u, v \in R : Rank[u] = Rank[v] => u = v
  BY TimeAssumption, IdAssumption DEF Displayable
<1>3. StrictOrder(R, O)
  <2>1. \A u \in R : <<u, u>> \notin O
    BY <1>1, <1>2
  <2>2. \A u, v, w \in R : <<u, v>> \in O /\ <<v, w>> \in O => <<u, w>> \in O
    BY <1>1, <1>2
  <2>3. \A u, v \in R : u # v => <<u, v>> \in O \/ <<v, u>> \in O
    BY <1>1, <1>2
  <2> QED
    BY <2>1, <2>2, <2>3 DEF StrictOrder
<1> DEFINE all == Ordered(R, O)
<1>4. Newest(n, R) = FirstOf(n, all)
  <2> DEFINE counted == {<<Cardinality({y \in R : \/ Time[y] > Time[z]
                                                  \/ Time[y] = Time[z] /\ Rank[y] > Rank[z]}), z>> :
                           z \in R}
             places == {<<Position(R, O, z), z>> : z \in R}
  <2>1. Newest(n, R) = FirstOf(n, [i \in 1 .. N |-> (CHOOSE p \in counted : p[1] = i - 1)[2]])
    BY DEF Newest, Sorted
  <2>2. all = [i \in 1 .. N |-> (CHOOSE p \in places : p[1] = i - 1)[2]]
    BY DEF Ordered
  <2>3. counted = places
    <3>1. \A z \in R : {y \in R : \/ Time[y] > Time[z]
                                  \/ Time[y] = Time[z] /\ Rank[y] > Rank[z]}
                         = {y \in R : <<y, z>> \in O}
      BY <1>1
    <3> QED
      BY <3>1 DEF Position
  <2> HIDE DEF counted, places, all
  <2> QED
    BY <2>1, <2>2, <2>3
<1>5. /\ Lists(all, R) /\ Len(all) = N
      /\ \A i, j \in 1 .. N : i < j => <<all[i], all[j]>> \in O
  BY <1>3, OrderedLists
<1> HIDE DEF all, N
<1>6. /\ all \in Seq(R) /\ N \in Nat
      /\ \A i \in 1 .. N : all[i] \in R
      /\ \A i, j \in 1 .. N : all[i] = all[j] => i = j
      /\ \A u \in R : \E i \in 1 .. N : all[i] = u
  BY <1>5 DEF Lists
<1> DEFINE s == Newest(n, R)
           m == Len(s)
<1>7. /\ s \in Seq(R) /\ m = (IF n < N THEN n ELSE N)
      /\ \A i \in 1 .. m : i \in 1 .. N /\ s[i] = all[i]
  BY <1>4, <1>5, <1>6, FirstOfSequence
<1> HIDE DEF s
<1>8. m \in Nat /\ m =< n /\ m =< N
  BY <1>6, <1>7
<1>9. \A i, j \in 1 .. N : i < j => Time[all[j]] =< Time[all[i]]
  <2> SUFFICES ASSUME NEW i \in 1 .. N, NEW j \in 1 .. N, i < j
               PROVE  Time[all[j]] =< Time[all[i]]
    OBVIOUS
  <2>1. all[i] \in R /\ all[j] \in R /\ <<all[i], all[j]>> \in O
    BY <1>5, <1>6
  <2> QED
    BY <1>1, <1>2, <2>1
<1>10. \A i, j \in 1 .. m : i < j => Time[s[j]] =< Time[s[i]]
  BY <1>7, <1>9
<1>11. m < n => \A u \in R : \E i \in 1 .. m : s[i] = u
  <2> SUFFICES ASSUME m < n, NEW u \in R PROVE \E i \in 1 .. m : s[i] = u
    OBVIOUS
  <2>1. m = N
    BY <1>6, <1>7
  <2> QED
    BY <1>6, <1>7, <2>1
<1>12. \A u \in R : \/ \E i \in 1 .. m : s[i] = u
                    \/ \A i \in 1 .. m : Time[u] =< Time[s[i]]
  <2> SUFFICES ASSUME NEW u \in R PROVE \/ \E i \in 1 .. m : s[i] = u
                                        \/ \A i \in 1 .. m : Time[u] =< Time[s[i]]
    OBVIOUS
  <2>1. PICK j \in 1 .. N : all[j] = u
    BY <1>6
  <2>2. CASE j =< m
    BY <1>7, <1>8, <2>1, <2>2
  <2>3. CASE ~(j =< m)
    <3>1. \A i \in 1 .. m : i < j
      BY <1>6, <1>8, <2>3
    <3> QED
      BY <1>7, <1>9, <2>1, <3>1
  <2> QED
    BY <2>2, <2>3
<1>13. \A i, j \in 1 .. m : s[i] = s[j] => i = j
  BY <1>6, <1>7
<1> QED
  BY <1>7, <1>8, <1>10, <1>11, <1>12, <1>13 DEF ListsNewest, s

(* The drawing of the rows.                                                *)
FirstDrawing(t) == [nodes |-> Entities(t) \cup {t}, edges |-> OwnRelations(t)]

Drawable == [nodes : {S \in SUBSET Displayable : IsFiniteSet(S)},
             edges : Seq(SUBSET Displayable)]

AreDrawings(d, t, rows) ==
  d = [i \in 0 .. Len(rows) |->
         IF i = 0 THEN FirstDrawing(t) ELSE AddRow(d[i - 1], rows[i])]

LEMMA EntitiesDisplayable ==
  ASSUME NEW t \in Txns
  PROVE  /\ t \in Displayable /\ Entities(t) \subseteq Displayable
         /\ \A k \in EntityTypes : Entity(t, k) \in Entities(t)
         /\ IsFiniteSet(Entities(t))
         /\ Cardinality(Entities(t)) = 5
<1>1. \A k \in EntityTypes : Entity(t, k) \in Entities(t)
  BY DEF Entities
<1>2. t \in Displayable /\ Entities(t) \subseteq Displayable
  BY DEF Displayable
<1>3. IsFiniteSet(EntityTypes) /\ Cardinality(EntityTypes) = 5
  <2> DEFINE S1 == {"customer"}
             S2 == S1 \cup {"instrument"}
             S3 == S2 \cup {"device"}
             S4 == S3 \cup {"ip"}
             S5 == S4 \cup {"address"}
  <2>0. IsFiniteSet({}) /\ Cardinality({}) = 0
    BY FS_EmptySet
  <2>1. IsFiniteSet(S1) /\ Cardinality(S1) = 1
    BY FS_Singleton
  <2>2. IsFiniteSet(S2) /\ Cardinality(S2) = 2
    <3>1. "instrument" \notin S1
      OBVIOUS
    <3> HIDE DEF S1
    <3> QED
      BY <2>1, <3>1, FS_AddElement
  <2>3. IsFiniteSet(S3) /\ Cardinality(S3) = 3
    <3>1. "device" \notin S2
      OBVIOUS
    <3> HIDE DEF S2
    <3> QED
      BY <2>2, <3>1, FS_AddElement
  <2>4. IsFiniteSet(S4) /\ Cardinality(S4) = 4
    <3>1. "ip" \notin S3
      OBVIOUS
    <3> HIDE DEF S3
    <3> QED
      BY <2>3, <3>1, FS_AddElement
  <2>5. IsFiniteSet(S5) /\ Cardinality(S5) = 5
    <3>1. "address" \notin S4
      OBVIOUS
    <3> HIDE DEF S4
    <3> QED
      BY <2>4, <3>1, FS_AddElement
  <2>6. EntityTypes = S5
    BY DEF EntityTypes
  <2> HIDE DEF S5
  <2> QED
    BY <2>5, <2>6
<1> DEFINE f == [k \in EntityTypes |-> Entity(t, k)]
<1>4. f \in Surjection(EntityTypes, Entities(t)) /\ f \in Injection(EntityTypes, Entities(t))
  BY DEF Surjection, Injection, IsInjective, Entities, Entity
<1> HIDE DEF f
<1>5. IsFiniteSet(Entities(t)) /\ Cardinality(Entities(t)) = 5
  BY <1>3, <1>4, FS_Surjection
<1> QED
  BY <1>1, <1>2, <1>5

LEMMA FiveOf ==
  ASSUME NEW S, NEW a \in S, NEW b \in S, NEW c \in S, NEW d \in S, NEW e \in S
  PROVE  /\ <<a, b, c, d, e>> \in Seq(S) /\ Len(<<a, b, c, d, e>>) = 5
         /\ {<<a, b, c, d, e>>[i] : i \in 1 .. 5} = {a, b, c, d, e}
<1> DEFINE s == <<a, b, c, d, e>>
<1>1. s \in Seq(S) /\ Len(s) = 5
  OBVIOUS
<1>2. s[1] = a /\ s[2] = b /\ s[3] = c /\ s[4] = d /\ s[5] = e
  OBVIOUS
<1> HIDE DEF s
<1>3. \A i \in 1 .. 5 : i = 1 \/ i = 2 \/ i = 3 \/ i = 4 \/ i = 5
  OBVIOUS
<1>4. 1 \in 1 .. 5 /\ 2 \in 1 .. 5 /\ 3 \in 1 .. 5 /\ 4 \in 1 .. 5 /\ 5 \in 1 .. 5
  OBVIOUS
<1>5. {s[i] : i \in 1 .. 5} = {a, b, c, d, e}
  BY <1>2, <1>3, <1>4
<1> QED
  BY <1>1, <1>5 DEF s

LEMMA RelationsDisplayable ==
  ASSUME NEW t \in Txns
  PROVE  OwnRelations(t) \in Seq(SUBSET Displayable) /\ Relations(t) \in Seq(SUBSET Displayable)
<1> DEFINE P == SUBSET Displayable
<1>1. \A k, l \in EntityTypes : {t, Entity(t, k)} \in P /\ {Entity(t, k), Entity(t, l)} \in P
  BY EntitiesDisplayable
<1>2. {"customer", "instrument", "device", "ip", "address"} \subseteq EntityTypes
  BY DEF EntityTypes
<1> HIDE DEF P
<1>3. OwnRelations(t) \in Seq(P)
  <2>1. /\ {t, Entity(t, "customer")} \in P /\ {t, Entity(t, "device")} \in P
        /\ {t, Entity(t, "instrument")} \in P /\ {t, Entity(t, "ip")} \in P
        /\ {t, Entity(t, "address")} \in P
    BY <1>1, <1>2
  <2> QED
    BY <2>1, FiveOf DEF OwnRelations
<1>4. Relations(t) \in Seq(P)
  <2>1. /\ {Entity(t, "customer"), Entity(t, "device")} \in P
        /\ {Entity(t, "customer"), Entity(t, "instrument")} \in P
        /\ {Entity(t, "customer"), Entity(t, "ip")} \in P
        /\ {Entity(t, "customer"), Entity(t, "address")} \in P
        /\ {Entity(t, "instrument"), Entity(t, "device")} \in P
    BY <1>1, <1>2
  <2> QED
    BY <2>1, FiveOf DEF Relations
<1> QED
  BY <1>3, <1>4 DEF P

LEMMA AddRowDrawable ==
  ASSUME NEW d \in Drawable, NEW u \in Txns
  PROVE  AddRow(d, u) \in Drawable /\ d.nodes \subseteq AddRow(d, u).nodes
<1>1. d.nodes \in SUBSET Displayable /\ IsFiniteSet(d.nodes) /\ d.edges \in Seq(SUBSET Displayable)
  BY DEF Drawable
<1>2. /\ IsFiniteSet(d.nodes \cup Entities(u)) /\ d.nodes \cup Entities(u) \in SUBSET Displayable
  BY <1>1, EntitiesDisplayable, FS_Union
<1>3. d.edges \o Relations(u) \in Seq(SUBSET Displayable)
  BY <1>1, RelationsDisplayable
<1> QED
  BY <1>2, <1>3 DEF AddRow, Drawable

LEMMA DrawingsExist ==
  ASSUME NEW t \in Txns, NEW rows \in Seq(Txns)
  PROVE  \E d : AreDrawings(d, t, rows) /\ d \in [0 .. Len(rows) -> Drawable]
<1> DEFINE N == Len(rows)
           next == [p \in (1 .. N) \X Drawable |-> AddRow(p[2], rows[p[1]])]
<1>0. N \in Nat /\ \A i \in 1 .. N : rows[i] \in Txns
  OBVIOUS
<1> HIDE DEF N
<1>1. FirstDrawing(t) \in Drawable
  <2>1. IsFiniteSet(Entities(t) \cup {t}) /\ Entities(t) \cup {t} \in SUBSET Displayable
    BY EntitiesDisplayable, FS_AddElement
  <2> QED
    BY <2>1, RelationsDisplayable DEF FirstDrawing, Drawable
<1>2. IsStep(next, N, Drawable)
  BY <1>0, AddRowDrawable DEF IsStep
<1>3. \A i \in 1 .. N, d \in Drawable : next[<<i, d>>] = AddRow(d, rows[i])
  OBVIOUS
<1> HIDE DEF next
<1>4. PICK f : Iterates(f, N, Drawable, FirstDrawing(t), next)
  BY <1>0, <1>1, <1>2, Iterated
<1>5. /\ f \in [0 .. N -> Drawable] /\ f[0] = FirstDrawing(t)
      /\ \A i \in 1 .. N : f[i] = next[<<i, f[i - 1]>>]
  BY <1>4 DEF Iterates
<1> DEFINE g == [i \in 0 .. N |-> IF i = 0 THEN FirstDrawing(t) ELSE AddRow(f[i - 1], rows[i])]
<1>6. \A i \in 0 .. N : f[i] = g[i]
  <2> SUFFICES ASSUME NEW i \in 0 .. N PROVE f[i] = g[i]
    OBVIOUS
  <2>1. CASE i = 0
    BY <1>5, <2>1
  <2>2. CASE i # 0
    <3>1. i \in 1 .. N /\ i - 1 \in 0 .. N
      BY <1>0, <2>2
    <3>2. f[i - 1] \in Drawable
      BY <1>5, <3>1
    <3> QED
      BY <1>3, <1>5, <2>2, <3>1, <3>2
  <2> QED
    BY <2>1, <2>2
<1>7. f = g
  BY <1>5, <1>6
<1>8. AreDrawings(f, t, rows)
  BY <1>7 DEF AreDrawings, N
<1> QED
  BY <1>5, <1>8 DEF N

(* The drawing is the last of those of the loop.                           *)
IsDrawing(d, t, rows) ==
  /\ d \in [0 .. Len(rows) -> Drawable]
  /\ d[0] = FirstDrawing(t)
  /\ \A i \in 1 .. Len(rows) : d[i] = AddRow(d[i - 1], rows[i])
  /\ Drawing(t, rows) = [nodes |-> d[Len(rows)].nodes,
                         edges |-> Distinct(MaxGraphEdges, d[Len(rows)].edges)]

LEMMA DrawingIsDrawing ==
  ASSUME NEW t \in Txns, NEW rows \in Seq(Txns)
  PROVE  \E d : IsDrawing(d, t, rows)
<1> DEFINE c == CHOOSE drawings : AreDrawings(drawings, t, rows)
           N == Len(rows)
<1>1. Drawing(t, rows) = [nodes |-> c[N].nodes, edges |-> Distinct(MaxGraphEdges, c[N].edges)]
  BY DEF Drawing, AreDrawings, FirstDrawing
<1>2. PICK d : d = c
  OBVIOUS
<1>3. AreDrawings(d, t, rows)
  BY <1>2, DrawingsExist
<1> HIDE DEF c
<1>4. N \in Nat
  OBVIOUS
<1> HIDE DEF N
<1> DEFINE g == [i \in 0 .. N |-> IF i = 0 THEN FirstDrawing(t) ELSE AddRow(d[i - 1], rows[i])]
<1>5. d = g
  BY <1>3 DEF AreDrawings, N
<1>6. g[0] = FirstDrawing(t) /\ \A i \in 1 .. N : g[i] = AddRow(d[i - 1], rows[i])
  BY <1>4
<1>7. DOMAIN g = 0 .. N /\ g = [i \in 0 .. N |-> g[i]]
  OBVIOUS
<1> HIDE DEF g
<1>8. d[0] = FirstDrawing(t) /\ \A i \in 1 .. N : d[i] = AddRow(d[i - 1], rows[i])
  BY <1>5, <1>6
<1> DEFINE G == {i \in Nat : i =< N => d[i] \in Drawable}
<1>9. FirstDrawing(t) \in Drawable
  <2>1. IsFiniteSet(Entities(t) \cup {t}) /\ Entities(t) \cup {t} \in SUBSET Displayable
    BY EntitiesDisplayable, FS_AddElement
  <2> QED
    BY <2>1, RelationsDisplayable DEF FirstDrawing, Drawable
<1>10. 0 \in G
  BY <1>8, <1>9
<1>11. ASSUME NEW i \in G PROVE i + 1 \in G
  <2> SUFFICES ASSUME i + 1 =< N PROVE d[i + 1] \in Drawable
    OBVIOUS
  <2>1. i \in Nat /\ i + 1 \in 1 .. N /\ (i + 1) - 1 = i /\ i =< N
    BY <1>4
  <2>2. d[i] \in Drawable /\ rows[i + 1] \in Txns /\ d[i + 1] = AddRow(d[i], rows[i + 1])
    BY <1>8, <2>1 DEF N
  <2> QED
    BY <2>2, AddRowDrawable
<1>12. G = Nat
  <2> HIDE DEF G
  <2> QED
    BY <1>10, <1>11, AllNaturals DEF G
<1>13. \A i \in 0 .. N : d[i] \in Drawable
  BY <1>4, <1>12
<1>14. d \in [0 .. N -> Drawable]
  BY <1>5, <1>7, <1>13
<1> QED
  BY <1>1, <1>2, <1>8, <1>14 DEF IsDrawing, N

LEMMA DrawingNodes ==
  ASSUME NEW t \in Txns, NEW rows \in Seq(Txns)
  PROVE  LET nodes == Drawing(t, rows).nodes IN
         /\ IsFiniteSet(nodes) /\ nodes \subseteq Displayable
         /\ Entities(t) \cup {t} \subseteq nodes
<1> DEFINE N == Len(rows)
<1>0. N \in Nat
  OBVIOUS
<1>1. PICK d : IsDrawing(d, t, rows)
  BY DrawingIsDrawing
<1>2. /\ d \in [0 .. N -> Drawable] /\ d[0] = FirstDrawing(t)
      /\ \A i \in 1 .. N : d[i] = AddRow(d[i - 1], rows[i])
      /\ Drawing(t, rows).nodes = d[N].nodes
  BY <1>1 DEF IsDrawing
<1> DEFINE G == {i \in Nat : i =< N => Entities(t) \cup {t} \subseteq d[i].nodes}
<1>3. 0 \in G
  BY <1>2 DEF FirstDrawing
<1>4. ASSUME NEW i \in G PROVE i + 1 \in G
  <2> SUFFICES ASSUME i + 1 =< N PROVE Entities(t) \cup {t} \subseteq d[i + 1].nodes
    OBVIOUS
  <2>1. i \in Nat /\ i + 1 \in 1 .. N /\ (i + 1) - 1 = i /\ i =< N /\ i \in 0 .. N
    BY <1>0
  <2>2. d[i] \in Drawable /\ rows[i + 1] \in Txns /\ d[i + 1] = AddRow(d[i], rows[i + 1])
    BY <1>2, <2>1
  <2>3. d[i].nodes \subseteq d[i + 1].nodes
    BY <2>2, AddRowDrawable
  <2> QED
    BY <2>1, <2>3
<1>5. G = Nat
  <2> HIDE DEF G
  <2> QED
    BY <1>3, <1>4, AllNaturals DEF G
<1>6. Entities(t) \cup {t} \subseteq d[N].nodes
  BY <1>0, <1>5
<1>7. d[N] \in Drawable
  BY <1>0, <1>2
<1> QED
  BY <1>2, <1>6, <1>7 DEF Drawable

-----------------------------------------------------------------------------
(* The pages.                                                              *)

(* A report or graph view that is not finished is about a subject; a graph *)
(* view that is finished shows the drawing of its rows, and the path found *)
(* in it.                                                                  *)
PageOf(view, t, pc) == [view |-> view, of |-> t, pc |-> pc]

GraphPage(t, rows, path) ==
  [view |-> "graph", pc |-> "done", of |-> t, rows |-> rows,
   drawing |-> Drawing(t, rows), path |-> path]

IsFoundIn(t, rows, path) ==
  LET nodes == Drawing(t, rows).nodes IN
  path = <<>> \/ \E x \in nodes :
    path = <<x, findRelationshipPath(nodes, Drawing(t, rows).edges, x,
                                     Entity(t, "customer"), Cardinality(nodes) - 1)>>

PageOk ==
  /\ page.pc \in {"snapshots", "history"} =>
       \E view \in {"report", "graph"}, t \in Subjects : page = PageOf(view, t, page.pc)
  /\ page.pc = "done" /\ page.view = "graph" =>
       \E t \in Subjects, rows \in Seq(Txns) : \E path :
         page = GraphPage(t, rows, path) /\ IsFoundIn(t, rows, path)

PInv == log \in Seq(Txns) /\ PageOk

LEMMA InitPInv == Init => PInv
<1> SUFFICES ASSUME Init PROVE PInv
  OBVIOUS
<1>1. log = <<>> /\ page.pc = "done" /\ page.view = "none"
  BY DEF Init, Closed
<1> QED
  BY <1>1 DEF PInv, PageOk

LEMMA CommittedFinite ==
  ASSUME log \in Seq(Txns)
  PROVE  IsFiniteSet(Committed) /\ Committed \subseteq Txns
<1> DEFINE f == [i \in 1 .. Len(log) |-> log[i]]
<1>1. Committed = {log[i] : i \in 1 .. Len(log)} /\ Len(log) \in Nat
  BY DEF Committed, ToSet
<1>2. f \in Surjection(1 .. Len(log), Committed)
  BY <1>1 DEF Surjection
<1>3. IsFiniteSet(1 .. Len(log))
  BY <1>1, FS_Interval
<1> QED
  BY <1>1, <1>2, <1>3, FS_Surjection

(* A step that leaves a page or the log alone, or puts up another page.    *)
LEMMA KeepPInv ==
  ASSUME PInv, log' \in Seq(Txns), page' = page
  PROVE  PInv'
<1>1. PageOk'
  BY DEF PInv, PageOk
<1> QED
  BY <1>1 DEF PInv

LEMMA OtherPagePInv ==
  ASSUME PInv, log' = log, page'.pc \notin {"snapshots", "history"},
         ~(page'.pc = "done" /\ page'.view = "graph")
  PROVE  PInv'
<1>1. PageOk'
  BY DEF PageOk
<1> QED
  BY <1>1 DEF PInv

LEMMA OpenPaymentPInv ==
  ASSUME PInv, NEW t \in Subjects, NEW view \in {"report", "graph"}, OpenPayment(view, t)
  PROVE  PInv'
<1>0. log' = log
  BY DEF OpenPayment, Open, database
<1>1. CASE page' = PageOf(view, t, "snapshots")
  <2>1. page'.pc = "snapshots"
    BY <1>1 DEF PageOf
  <2> QED
    BY <1>0, <1>1, <2>1 DEF PInv, PageOk
<1>2. CASE page' = [view |-> "404", pc |-> "done"]
  <2>1. page'.pc = "done" /\ page'.view = "404"
    BY <1>2
  <2> QED
    BY <1>0, <2>1, OtherPagePInv
<1> QED
  BY <1>1, <1>2 DEF OpenPayment, Open, Fail, PageOf

LEMMA ReadSnapshotsPInv ==
  ASSUME PInv, ReadSnapshots
  PROVE  PInv'
<1>0. log' = log /\ page.pc = "snapshots"
  BY DEF ReadSnapshots, database
<1>1. CASE page' = [page EXCEPT !.pc = "history"]
  <2>1. PICK view \in {"report", "graph"}, t \in Subjects : page = PageOf(view, t, "snapshots")
    BY <1>0 DEF PInv, PageOk
  <2>2. page' = PageOf(view, t, "history") /\ page'.pc = "history"
    BY <1>1, <2>1 DEF PageOf
  <2> QED
    BY <1>0, <2>2 DEF PInv, PageOk
<1>2. CASE page' = [view |-> "409", pc |-> "done"]
  <2>1. page'.pc = "done" /\ page'.view = "409"
    BY <1>2
  <2> QED
    BY <1>0, <2>1, OtherPagePInv
<1> QED
  BY <1>1, <1>2 DEF ReadSnapshots, Fail

LEMMA PriorRows ==
  ASSUME PInv, NEW t, NEW n \in Nat
  PROVE  /\ ListsNewest(Newest(n, Prior(t, Committed)), n, Prior(t, Committed))
         /\ Newest(n, Prior(t, Committed)) \in Seq(Txns)
<1> DEFINE R == Prior(t, Committed)
<1>1. IsFiniteSet(R) /\ R \subseteq Txns
  BY CommittedFinite, FS_Subset DEF PInv, Prior
<1> HIDE DEF R
<1>2. ListsNewest(Newest(n, R), n, R)
  BY <1>1, NewestListed
<1>3. Newest(n, R) \in Seq(R)
  BY <1>2 DEF ListsNewest
<1> QED
  BY <1>1, <1>2, <1>3 DEF R

LEMMA ReadPriorRowsPInv ==
  ASSUME PInv, ReadPriorRows
  PROVE  PInv'
<1> DEFINE rows == Newest(MaxPriorRows, Prior(page.of, Committed))
<1>0. log' = log /\ page.pc = "history" /\ page.view = "graph"
  BY DEF ReadPriorRows, database
<1>1. page.of \in Subjects
  BY <1>0 DEF PInv, PageOk, PageOf
<1>2. rows \in Seq(Txns)
  <2>1. MaxPriorRows \in Nat
    BY ReadAssumption
  <2> QED
    BY <2>1, PriorRows
<1>3. page' = GraphPage(page.of, rows, <<>>)
  BY DEF ReadPriorRows, GraphPage
<1> HIDE DEF rows
<1>4. page'.pc = "done" /\ IsFoundIn(page.of, rows, <<>>)
  BY <1>3 DEF GraphPage, IsFoundIn
<1> QED
  BY <1>0, <1>1, <1>2, <1>3, <1>4 DEF PInv, PageOk

LEMMA FindPathPInv ==
  ASSUME PInv, NEW x \in PathStarts, FindPath(x)
  PROVE  PInv'
<1>0. log' = log /\ page.pc = "done" /\ page.view = "graph" /\ x \in page.drawing.nodes
  BY DEF FindPath, database
<1>1. PICK t \in Subjects, rows \in Seq(Txns) : \E path : page = GraphPage(t, rows, path)
  BY <1>0 DEF PInv, PageOk
<1> DEFINE nodes == Drawing(t, rows).nodes
           edges == Drawing(t, rows).edges
           found == <<x, findRelationshipPath(nodes, edges, x, Entity(t, "customer"),
                                              Cardinality(nodes) - 1)>>
<1>6. PICK path : page = GraphPage(t, rows, path)
  BY <1>1
<1>2. page.of = t /\ page.drawing = Drawing(t, rows)
  BY <1>6 DEF GraphPage
<1>3. page' = [page EXCEPT !.path = found]
  BY <1>2 DEF FindPath
<1> HIDE DEF found
<1>4. page' = GraphPage(t, rows, found) /\ page'.pc = "done"
  BY <1>3, <1>6 DEF GraphPage
<1>5. IsFoundIn(t, rows, found)
  BY <1>0, <1>2 DEF IsFoundIn, found
<1> QED
  BY <1>0, <1>4, <1>5 DEF PInv, PageOk

LEMMA OtherPages ==
  ASSUME PInv,
         \/ ReadTimeline \/ \E x \in Visited : OpenEntity(x)
         \/ ReadEdges \/ ReadStatistics \/ ReadRecent \/ OpenSummary \/ ReadDecisions
         \/ Close
  PROVE  PInv'
<1>1. CASE ReadTimeline
  <2>1. log' = log /\ page'.pc = "done" /\ page'.view = "report"
    BY <1>1 DEF ReadTimeline, database
  <2> QED
    BY <2>1, OtherPagePInv
<1>2. CASE \E x \in Visited : OpenEntity(x)
  <2>1. PICK x \in Visited : OpenEntity(x)
    BY <1>2
  <2>2. log' = log /\ (page'.pc = "edges" \/ (page'.pc = "done" /\ page'.view = "404"))
    BY <2>1 DEF OpenEntity, Open, Fail, database
  <2> QED
    BY <2>2, OtherPagePInv
<1>3. CASE ReadEdges
  <2>1. log' = log /\ page'.pc = "statistics"
    BY <1>3 DEF ReadEdges, database
  <2> QED
    BY <2>1, OtherPagePInv
<1>4. CASE ReadStatistics
  <2>1. log' = log /\ page'.pc = "recent"
    BY <1>4 DEF ReadStatistics, database
  <2> QED
    BY <2>1, OtherPagePInv
<1>5. CASE ReadRecent
  <2>1. log' = log /\ page'.pc = "done" /\ page'.view = "entity"
    BY <1>5 DEF ReadRecent, database
  <2> QED
    BY <2>1, OtherPagePInv
<1>6. CASE OpenSummary
  <2>1. log' = log /\ page'.pc = "decisions"
    BY <1>6 DEF OpenSummary, database
  <2> QED
    BY <2>1, OtherPagePInv
<1>7. CASE ReadDecisions
  <2>1. log' = log /\ page'.pc = "done" /\ page'.view = "summary"
    BY <1>7 DEF ReadDecisions, database
  <2> QED
    BY <2>1, OtherPagePInv
<1>8. CASE Close
  <2>1. log' = log /\ page'.pc = "done" /\ page'.view = "none"
    BY <1>8 DEF Close, database, Closed
  <2> QED
    BY <2>1, OtherPagePInv
<1> QED
  BY <1>1, <1>2, <1>3, <1>4, <1>5, <1>6, <1>7, <1>8

LEMMA NextPInv ==
  ASSUME PInv, [Next]_vars
  PROVE  PInv'
<1>0. log \in Seq(Txns)
  BY DEF PInv
<1>1. ASSUME NEW t \in Txns, Ingest(t) PROVE PInv'
  <2>1. log' \in Seq(Txns) /\ page' = page
    BY <1>0, <1>1 DEF Ingest
  <2> QED
    BY <2>1, KeepPInv
<1>2. ASSUME NEW t \in Subjects, SnapshotFeatures(t) \/ SnapshotGraph(t) \/ Decide(t)
      PROVE  PInv'
  <2>1. log' = log /\ page' = page
    BY <1>2 DEF SnapshotFeatures, SnapshotGraph, Decide
  <2> QED
    BY <1>0, <2>1, KeepPInv
<1>3. CASE UNCHANGED vars
  <2>1. log' = log /\ page' = page
    BY <1>3 DEF vars
  <2> QED
    BY <1>0, <2>1, KeepPInv
<1> QED
  BY <1>1, <1>2, <1>3, OpenPaymentPInv, ReadSnapshotsPInv, ReadPriorRowsPInv, FindPathPInv,
     OtherPages DEF Next

LEMMA PInvImpliesPaths == PInv => PathsAreShortest
<1> SUFFICES ASSUME PInv, page.pc = "done", page.view = "graph", page.path # <<>>
             PROVE  LET nodes  == page.drawing.nodes
                        edges  == page.drawing.edges
                        target == Entity(page.of, "customer")
                    IN /\ IsShortestPath(page.path[2], nodes, edges, page.path[1], target,
                                         Cardinality(nodes))
                       /\ \A n \in Depths :
                            IsShortestPath(
                              findRelationshipPath(nodes, edges, page.path[1], target, n),
                              nodes, edges, page.path[1], target, n)
  BY DEF PathsAreShortest
<1>0. PICK t \in Subjects, rows \in Seq(Txns) : \E path :
        page = GraphPage(t, rows, path) /\ IsFoundIn(t, rows, path)
  BY DEF PInv, PageOk
<1>1. PICK path : page = GraphPage(t, rows, path) /\ IsFoundIn(t, rows, path)
  BY <1>0
<1> DEFINE nodes == Drawing(t, rows).nodes
           edges == Drawing(t, rows).edges
           target == Entity(t, "customer")
           N == Cardinality(nodes)
<1>2. page.of = t /\ page.drawing = Drawing(t, rows) /\ page.path = path
  BY <1>1 DEF GraphPage
<1>3. PICK x \in nodes :
        path = <<x, findRelationshipPath(nodes, edges, x, target, N - 1)>>
  BY <1>1, <1>2 DEF IsFoundIn
<1>4. t \in Txns
  BY ReadAssumption
<1>5. IsFiniteSet(nodes) /\ nodes \subseteq Displayable /\ Entities(t) \subseteq nodes
  BY <1>4, DrawingNodes
<1>6. target \in nodes
  BY <1>4, <1>5, EntitiesDisplayable DEF EntityTypes
<1>7. Distinguished(nodes)
  BY <1>5, IdAssumption DEF Distinguished
<1> HIDE DEF nodes, edges, target
<1>8. N \in Nat /\ N - 1 \in Nat
  <2>1. N \in Nat /\ N # 0
    BY <1>5, <1>6, FS_CardinalityType, FS_EmptySet
  <2> QED
    BY <2>1
<1> HIDE DEF N
<1>9. IsShortestPath(findRelationshipPath(nodes, edges, x, target, N - 1),
                     nodes, edges, x, target, N)
  BY <1>5, <1>6, <1>7, <1>8, PathIsShortest DEF N
<1>10. \A n \in Depths : IsShortestPath(findRelationshipPath(nodes, edges, x, target, n),
                                        nodes, edges, x, target, n)
  <2> SUFFICES ASSUME NEW n \in Depths
               PROVE  IsShortestPath(findRelationshipPath(nodes, edges, x, target, n),
                                     nodes, edges, x, target, n)
    OBVIOUS
  <2>1. n \in Nat
    BY ReadAssumption
  <2> QED
    BY <1>5, <1>6, <1>7, <2>1, PathIsShortest
<1>11. page.path[1] = x /\ page.path[2] = findRelationshipPath(nodes, edges, x, target, N - 1)
  BY <1>2, <1>3
<1>12. /\ IsShortestPath(page.path[2], nodes, edges, page.path[1], target, N)
       /\ \A n \in Depths :
            IsShortestPath(findRelationshipPath(nodes, edges, page.path[1], target, n),
                           nodes, edges, page.path[1], target, n)
  BY <1>9, <1>10, <1>11
<1> QED
  BY <1>2, <1>12 DEF nodes, edges, target, N

(* The path that a graph view shows is a shortest one in what is drawn.    *)
THEOREM ShownPathsAreShortest == Spec => []PathsAreShortest
<1>1. PInv /\ [Next]_vars => PInv'
  BY NextPInv
<1> QED
  BY <1>1, InitPInv, PInvImpliesPaths, PTL DEF Spec

-----------------------------------------------------------------------------
(* What a drawing keeps.                                                   *)

(* The first m members of s, as a set.                                     *)
Leading(s, m) == {s[i] : i \in 1 .. m}

LEMMA LeadingBounded ==
  ASSUME NEW s
  PROVE  \A m \in Nat : /\ IsFiniteSet(Leading(s, m)) /\ Cardinality(Leading(s, m)) \in Nat
                        /\ Cardinality(Leading(s, m)) =< m
                        /\ Cardinality(Leading(s, m + 1)) =< Cardinality(Leading(s, m)) + 1
<1> DEFINE G == {m \in Nat : /\ IsFiniteSet(Leading(s, m)) /\ Cardinality(Leading(s, m)) \in Nat
                             /\ Cardinality(Leading(s, m)) =< m}
<1>1. 0 \in G
  <2>1. Leading(s, 0) = {}
    BY DEF Leading
  <2>2. IsFiniteSet(Leading(s, 0)) /\ Cardinality(Leading(s, 0)) = 0
    BY <2>1, FS_EmptySet
  <2> QED
    BY <2>2
<1>2. ASSUME NEW m \in Nat PROVE Leading(s, m + 1) = Leading(s, m) \cup {s[m + 1]}
  <2>1. \A i : i \in 1 .. m + 1 <=> i \in 1 .. m \/ i = m + 1
    OBVIOUS
  <2> QED
    BY <2>1 DEF Leading
<1>3. ASSUME NEW m \in G
      PROVE  /\ IsFiniteSet(Leading(s, m + 1)) /\ Cardinality(Leading(s, m + 1)) \in Nat
             /\ Cardinality(Leading(s, m + 1)) =< Cardinality(Leading(s, m)) + 1
  <2>1. Leading(s, m + 1) = Leading(s, m) \cup {s[m + 1]}
    BY <1>2
  <2>2. /\ IsFiniteSet(Leading(s, m) \cup {s[m + 1]})
        /\ \/ Cardinality(Leading(s, m) \cup {s[m + 1]}) = Cardinality(Leading(s, m))
           \/ Cardinality(Leading(s, m) \cup {s[m + 1]}) = Cardinality(Leading(s, m)) + 1
    BY FS_AddElement
  <2>3. Cardinality(Leading(s, m)) \in Nat
    OBVIOUS
  <2> HIDE DEF G
  <2>4. PICK c \in Nat : c = Cardinality(Leading(s, m))
    BY <2>3
  <2>5. PICK d : d = Cardinality(Leading(s, m + 1))
    OBVIOUS
  <2>6. d = c \/ d = c + 1
    BY <2>1, <2>2, <2>4, <2>5
  <2>7. d \in Nat /\ d =< c + 1
    BY <2>4, <2>6
  <2> QED
    BY <2>1, <2>2, <2>4, <2>5, <2>7
<1>4. ASSUME NEW m \in G PROVE m + 1 \in G
  <2>1. m \in Nat /\ Cardinality(Leading(s, m)) \in Nat /\ Cardinality(Leading(s, m)) =< m
    OBVIOUS
  <2> QED
    BY <1>3, <2>1
<1>5. G = Nat
  <2> HIDE DEF G
  <2> QED
    BY <1>1, <1>4, AllNaturals DEF G
<1> QED
  BY <1>3, <1>5

(* unique_edges is what a prefix of the edges holds, the longest one that  *)
(* keeps the limit.                                                        *)
LEMMA DistinctIsLeading ==
  ASSUME NEW S, NEW s \in Seq(S), NEW n \in Nat
  PROVE  \E m \in 0 .. Len(s) :
           /\ Distinct(n, s) = Leading(s, m)
           /\ Cardinality(Leading(s, m)) =< n
           /\ m = Len(s) \/ Cardinality(Leading(s, m + 1)) > n
<1> DEFINE N == Len(s)
           c(j) == Cardinality(Leading(s, j))
<1>1. N \in Nat /\ DOMAIN s = 1 .. N /\ \A i \in 1 .. N : s[i] \in S
  OBVIOUS
<1>2. \A j \in 1 .. N : ToSet(SubSeq(s, 1, j)) = Leading(s, j)
  <2> SUFFICES ASSUME NEW j \in 1 .. N PROVE ToSet(SubSeq(s, 1, j)) = Leading(s, j)
    OBVIOUS
  <2>1. SubSeq(s, 1, j) = [i \in 1 .. j |-> s[i]]
    BY <1>1
  <2> DEFINE f == [i \in 1 .. j |-> s[i]]
  <2>2. DOMAIN f = 1 .. j /\ \A i \in 1 .. j : f[i] = s[i]
    OBVIOUS
  <2> HIDE DEF f
  <2>3. ToSet(f) = Leading(s, j)
    BY <2>2 DEF ToSet, Leading
  <2> QED
    BY <2>1, <2>3 DEF f
<1>3. Distinct(n, s) = {s[i] : i \in {j \in 1 .. N : c(j) =< n}}
  BY <1>1, <1>2 DEF Distinct
<1>4. \A j \in Nat : c(j) \in Nat /\ IsFiniteSet(Leading(s, j))
  BY LeadingBounded
<1>5. \A i, j \in Nat : i =< j => c(i) =< c(j)
  <2> SUFFICES ASSUME NEW i \in Nat, NEW j \in Nat, i =< j PROVE c(i) =< c(j)
    OBVIOUS
  <2>1. Leading(s, i) \subseteq Leading(s, j)
    <3>1. \A k \in 1 .. i : k \in 1 .. j
      OBVIOUS
    <3> QED
      BY <3>1 DEF Leading
  <2>2. IsFiniteSet(Leading(s, j))
    BY <1>4
  <2> QED
    BY <2>1, <2>2, FS_Subset
<1>6. c(0) = 0
  <2>1. Leading(s, 0) = {}
    BY DEF Leading
  <2> QED
    BY <2>1, FS_EmptySet
<1> HIDE DEF N, c
<1> DEFINE G == {j \in Nat : j =< N => c(j) =< n}
<1>7. CASE G = Nat
  <2>1. \A j \in 1 .. N : c(j) =< n
    BY <1>1, <1>7
  <2>2. Distinct(n, s) = Leading(s, N)
    BY <1>3, <2>1 DEF Leading
  <2>3. c(N) =< n /\ N \in 0 .. N
    BY <1>1, <1>7
  <2> QED
    BY <2>2, <2>3 DEF N, c
<1>8. CASE G # Nat
  <2>1. 0 \in G
    BY <1>6
  <2>2. PICK m \in G : m + 1 \notin G
    <3> HIDE DEF G
    <3>1. G \in SUBSET Nat
      BY DEF G
    <3> QED
      BY <1>8, <2>1, <3>1, AllNaturals
  <2>3. m \in Nat /\ m + 1 =< N /\ ~(c(m + 1) =< n) /\ m \in 0 .. N
    BY <1>1, <2>2
  <2>4. c(m) =< n /\ c(m + 1) > n
    <3>1. m + 1 \in Nat
      BY <2>3
    <3> QED
      BY <1>1, <1>4, <2>2, <2>3, <3>1
  <2>5. \A j \in 1 .. N : c(j) =< n <=> j \in 1 .. m
    <3> SUFFICES ASSUME NEW j \in 1 .. N PROVE c(j) =< n <=> j \in 1 .. m
      OBVIOUS
    <3>0. j \in Nat /\ m + 1 \in Nat
      BY <2>3
    <3>1. CASE j =< m
      <4>1. c(j) =< c(m) /\ c(j) \in Nat /\ c(m) \in Nat
        BY <1>4, <1>5, <2>3, <3>0, <3>1
      <4> QED
        BY <2>3, <2>4, <3>1, <4>1
    <3>2. CASE ~(j =< m)
      <4>1. m + 1 =< j
        BY <2>3, <3>0, <3>2
      <4>2. c(m + 1) =< c(j) /\ c(j) \in Nat /\ c(m + 1) \in Nat
        BY <1>4, <1>5, <3>0, <4>1
      <4> QED
        BY <2>3, <2>4, <3>0, <3>2, <4>2
    <3> QED
      BY <3>1, <3>2
  <2>6. {j \in 1 .. N : c(j) =< n} = 1 .. m
    <3>1. \A j \in 1 .. m : j \in 1 .. N
      BY <1>1, <2>3
    <3> QED
      BY <2>5, <3>1
  <2>7. Distinct(n, s) = Leading(s, m)
    BY <1>3, <2>6 DEF Leading
  <2> QED
    BY <2>3, <2>4, <2>7 DEF N, c
<1> QED
  BY <1>7, <1>8

LEMMA FiveLeading ==
  ASSUME NEW a, NEW b, NEW c, NEW d, NEW e
  PROVE  /\ Len(<<a, b, c, d, e>>) = 5
         /\ Leading(<<a, b, c, d, e>>, 5) = {a, b, c, d, e}
<1> DEFINE S == {a, b, c, d, e}
<1>1. a \in S /\ b \in S /\ c \in S /\ d \in S /\ e \in S
  OBVIOUS
<1> HIDE DEF S
<1>2. /\ Len(<<a, b, c, d, e>>) = 5
      /\ {<<a, b, c, d, e>>[i] : i \in 1 .. 5} = {a, b, c, d, e}
  BY <1>1, FiveOf
<1> QED
  BY <1>2 DEF Leading

LEMMA Joined ==
  ASSUME NEW S, NEW p \in Seq(S), NEW q \in Seq(S)
  PROVE  /\ Len(p) \in Nat /\ Len(p \o q) = Len(p) + Len(q)
         /\ \A j \in 1 .. Len(p) : (p \o q)[j] = p[j]
         /\ \A j \in 1 .. Len(q) : (p \o q)[Len(p) + j] = q[j]
  OBVIOUS

Own(t) == {{t, x} : x \in Entities(t)}

LEMMA RelationsOf ==
  ASSUME NEW t \in Txns
  PROVE  /\ Len(OwnRelations(t)) = 5 /\ Leading(OwnRelations(t), 5) = Own(t)
         /\ Len(Relations(t)) = 5 /\ Leading(Relations(t), 5) = Relationships(t)
<1> DEFINE c == Entity(t, "customer")
           i == Entity(t, "instrument")
           d == Entity(t, "device")
           p == Entity(t, "ip")
           a == Entity(t, "address")
<1>1. Entities(t) = {c, i, d, p, a}
  BY DEF Entities, EntityTypes
<1>3. Relationships(t) = {{c, d}, {c, i}, {c, p}, {c, a}, {i, d}}
  <2>1. EntityTypes \ {"customer"} = {"device", "instrument", "ip", "address"}
    BY DEF EntityTypes
  <2>2. {{c, Entity(t, k)} : k \in EntityTypes \ {"customer"}} = {{c, d}, {c, i}, {c, p}, {c, a}}
    BY <2>1
  <2> QED
    BY <2>2 DEF Relationships
<1>4. OwnRelations(t) = <<{t, c}, {t, d}, {t, i}, {t, p}, {t, a}>>
  BY DEF OwnRelations
<1>5. Relations(t) = <<{c, d}, {c, i}, {c, p}, {c, a}, {i, d}>>
  BY DEF Relations
<1> HIDE DEF c, i, d, p, a
<1>7. /\ Len(OwnRelations(t)) = 5
      /\ Leading(OwnRelations(t), 5) = {{t, c}, {t, d}, {t, i}, {t, p}, {t, a}}
  BY <1>4, FiveLeading
<1>8. /\ Len(Relations(t)) = 5
      /\ Leading(Relations(t), 5) = {{c, d}, {c, i}, {c, p}, {c, a}, {i, d}}
  BY <1>5, FiveLeading
<1>9. Own(t) = {{t, c}, {t, d}, {t, i}, {t, p}, {t, a}}
  BY <1>1 DEF Own
<1> QED
  BY <1>3, <1>7, <1>8, <1>9

(* The drawing after the first i rows.                                     *)
Drawn(d) == Leading(d.edges, Len(d.edges))

DrawingOk(d, i, t, rows) ==
  /\ Cardinality(d.nodes) =< MaxGraphNodes
  /\ Entities(t) \cup {t} \subseteq d.nodes
  /\ UNION Drawn(d) = d.nodes
  /\ Len(d.edges) >= 5 /\ Leading(d.edges, 5) = Own(t)
  /\ Drawn(d) \ Own(t) \subseteq UNION {Relationships(rows[r]) : r \in 1 .. i}
  /\ \A r \in 1 .. i : \/ Cardinality(d.nodes \cup Entities(rows[r])) > MaxGraphNodes
                       \/ Relationships(rows[r]) \subseteq Drawn(d)

LEMMA OwnCovers ==
  ASSUME NEW t \in Txns
  PROVE  UNION Own(t) = Entities(t) \cup {t} /\ UNION Relationships(t) = Entities(t)
<1>1. UNION Own(t) = Entities(t) \cup {t}
  <2>1. Entity(t, "customer") \in Entities(t)
    BY DEF Entities, EntityTypes
  <2> QED
    BY <2>1 DEF Own
<1>2. UNION Relationships(t) = Entities(t)
  <2> DEFINE c == Entity(t, "customer")
  <2>1. /\ \A k \in EntityTypes \ {"customer"} : {c, Entity(t, k)} \in Relationships(t)
        /\ \A e \in Relationships(t) : \E k, l \in EntityTypes : e = {Entity(t, k), Entity(t, l)}
    BY DEF Relationships, EntityTypes
  <2>2. "ip" \in EntityTypes \ {"customer"}
    BY DEF EntityTypes
  <2>3. \A x \in Entities(t) : \E k \in EntityTypes \ {"customer"} : x \in {c, Entity(t, k)}
    BY <2>2 DEF Entities
  <2>4. \A k \in EntityTypes : Entity(t, k) \in Entities(t)
    BY DEF Entities
  <2> HIDE DEF c
  <2>5. Entities(t) \subseteq UNION Relationships(t)
    BY <2>1, <2>3
  <2>6. UNION Relationships(t) \subseteq Entities(t)
    BY <2>1, <2>4
  <2> QED
    BY <2>5, <2>6
<1> QED
  BY <1>1, <1>2

LEMMA FirstDrawingOk ==
  ASSUME NEW t \in Txns, NEW rows
  PROVE  DrawingOk(FirstDrawing(t), 0, t, rows)
<1> DEFINE d == FirstDrawing(t)
<1>1. d.nodes = Entities(t) \cup {t} /\ d.edges = OwnRelations(t)
  BY DEF FirstDrawing
<1> HIDE DEF d
<1>2. Len(d.edges) = 5 /\ Leading(d.edges, 5) = Own(t) /\ Drawn(d) = Own(t)
  BY <1>1, RelationsOf DEF Drawn
<1>3. Cardinality(d.nodes) =< MaxGraphNodes
  <2>1. /\ Cardinality(Entities(t) \cup {t}) \in {5, 6}
    <3>1. IsFiniteSet(Entities(t)) /\ Cardinality(Entities(t)) = 5
      BY EntitiesDisplayable
    <3> QED
      BY <3>1, FS_AddElement
  <2>2. MaxGraphNodes \in Nat /\ MaxGraphNodes >= 6
    BY ReadAssumption
  <2> QED
    BY <1>1, <2>1, <2>2
<1>4. UNION Drawn(d) = d.nodes
  BY <1>1, <1>2, OwnCovers
<1>5. \A r \in 1 .. 0 : FALSE
  OBVIOUS
<1> QED
  BY <1>1, <1>2, <1>3, <1>4, <1>5 DEF DrawingOk, d

LEMMA AddRowOk ==
  ASSUME NEW t \in Txns, NEW rows \in Seq(Txns), NEW i \in Nat, i + 1 \in 1 .. Len(rows),
         NEW d \in Drawable, DrawingOk(d, i, t, rows)
  PROVE  DrawingOk(AddRow(d, rows[i + 1]), i + 1, t, rows)
<1> DEFINE u == rows[i + 1]
           e == AddRow(d, u)
<1>0. u \in Txns /\ d.edges \in Seq(SUBSET Displayable) /\ IsFiniteSet(d.nodes)
  BY DEF Drawable
<1>1. /\ Cardinality(d.nodes) =< MaxGraphNodes /\ Entities(t) \cup {t} \subseteq d.nodes
      /\ UNION Drawn(d) = d.nodes
      /\ Len(d.edges) >= 5 /\ Leading(d.edges, 5) = Own(t)
      /\ Drawn(d) \ Own(t) \subseteq UNION {Relationships(rows[r]) : r \in 1 .. i}
      /\ \A r \in 1 .. i : \/ Cardinality(d.nodes \cup Entities(rows[r])) > MaxGraphNodes
                           \/ Relationships(rows[r]) \subseteq Drawn(d)
  BY DEF DrawingOk
<1>2. \A r : r \in 1 .. i + 1 <=> r \in 1 .. i \/ r = i + 1
  OBVIOUS
<1>3. CASE Cardinality(d.nodes \cup Entities(u)) > MaxGraphNodes
  <2>1. e = d
    BY <1>3 DEF AddRow
  <2>2. Drawn(d) \ Own(t) \subseteq UNION {Relationships(rows[r]) : r \in 1 .. i + 1}
    BY <1>1, <1>2
  <2>3. \A r \in 1 .. i + 1 : \/ Cardinality(d.nodes \cup Entities(rows[r])) > MaxGraphNodes
                              \/ Relationships(rows[r]) \subseteq Drawn(d)
    BY <1>1, <1>2, <1>3
  <2> QED
    BY <1>1, <2>1, <2>2, <2>3 DEF DrawingOk
<1>4. CASE ~(Cardinality(d.nodes \cup Entities(u)) > MaxGraphNodes)
  <2>1. e.nodes = d.nodes \cup Entities(u) /\ e.edges = d.edges \o Relations(u)
    BY <1>4 DEF AddRow
  <2> DEFINE n == Len(d.edges)
  <2>2. /\ Relations(u) \in Seq(SUBSET Displayable) /\ Len(Relations(u)) = 5
        /\ Leading(Relations(u), 5) = Relationships(u) /\ UNION Relationships(u) = Entities(u)
    BY <1>0, RelationsDisplayable, RelationsOf, OwnCovers
  <2>3. /\ n \in Nat /\ Len(e.edges) = n + 5
        /\ \A j \in 1 .. n : e.edges[j] = d.edges[j]
        /\ \A j \in 1 .. 5 : e.edges[n + j] = Relations(u)[j]
    <3> DEFINE p == d.edges
               q == Relations(u)
    <3>1. p \in Seq(SUBSET Displayable) /\ q \in Seq(SUBSET Displayable)
      BY <1>0, <2>2
    <3>2. e.edges = p \o q /\ Len(q) = 5
      BY <2>1, <2>2
    <3> HIDE DEF p, q, e
    <3>3. /\ Len(p) \in Nat /\ Len(p \o q) = Len(p) + Len(q)
          /\ \A j \in 1 .. Len(p) : (p \o q)[j] = p[j]
          /\ \A j \in 1 .. Len(q) : (p \o q)[Len(p) + j] = q[j]
      BY <3>1, Joined
    <3> QED
      BY <3>2, <3>3 DEF p, q
  <2> HIDE DEF e, u, n
  <2>4. Drawn(e) = Drawn(d) \cup Relationships(u)
    <3>1. \A j \in 1 .. n + 5 : j \in 1 .. n \/ (j - n \in 1 .. 5 /\ j = n + (j - n))
      BY <2>3
    <3>2. \A j \in 1 .. n : j \in 1 .. n + 5
      BY <2>3
    <3>3. \A j \in 1 .. 5 : n + j \in 1 .. n + 5
      BY <2>3
    <3>4. Drawn(e) = {e.edges[j] : j \in 1 .. n + 5} /\ Drawn(d) = {d.edges[j] : j \in 1 .. n}
      BY <2>3 DEF Drawn, Leading, n
    <3>5. Relationships(u) = {Relations(u)[j] : j \in 1 .. 5}
      BY <2>2 DEF Leading
    <3>6. ASSUME NEW x \in Drawn(e) PROVE x \in Drawn(d) \cup Relationships(u)
      <4>1. PICK j \in 1 .. n + 5 : x = e.edges[j]
        BY <3>4
      <4>2. CASE j \in 1 .. n
        BY <2>3, <3>4, <4>1, <4>2
      <4>3. CASE j - n \in 1 .. 5 /\ j = n + (j - n)
        BY <2>3, <3>5, <4>1, <4>3
      <4> QED
        BY <3>1, <4>2, <4>3
    <3>7. ASSUME NEW x \in Drawn(d) PROVE x \in Drawn(e)
      BY <2>3, <3>2, <3>4
    <3>8. ASSUME NEW x \in Relationships(u) PROVE x \in Drawn(e)
      BY <2>3, <3>3, <3>4, <3>5
    <3> QED
      BY <3>6, <3>7, <3>8
  <2>5. UNION Drawn(e) = e.nodes
    BY <1>1, <2>1, <2>2, <2>4
  <2>6. Len(e.edges) >= 5 /\ Leading(e.edges, 5) = Own(t)
    <3>1. n >= 5
      BY <1>1 DEF n
    <3>2. \A j \in 1 .. 5 : j \in 1 .. n
      BY <2>3, <3>1
    <3>3. Leading(e.edges, 5) = Leading(d.edges, 5)
      BY <2>3, <3>2 DEF Leading
    <3> QED
      BY <1>1, <2>3, <3>1, <3>3
  <2>7. Drawn(e) \ Own(t) \subseteq UNION {Relationships(rows[r]) : r \in 1 .. i + 1}
    <3>1. i + 1 \in 1 .. i + 1
      OBVIOUS
    <3>2. Relationships(u) \subseteq UNION {Relationships(rows[r]) : r \in 1 .. i + 1}
      BY <3>1 DEF u
    <3>3. UNION {Relationships(rows[r]) : r \in 1 .. i}
            \subseteq UNION {Relationships(rows[r]) : r \in 1 .. i + 1}
      BY <1>2
    <3> QED
      BY <1>1, <2>4, <3>2, <3>3
  <2>8. \A r \in 1 .. i + 1 : \/ Cardinality(e.nodes \cup Entities(rows[r])) > MaxGraphNodes
                              \/ Relationships(rows[r]) \subseteq Drawn(e)
    <3> SUFFICES ASSUME NEW r \in 1 .. i + 1
                 PROVE  \/ Cardinality(e.nodes \cup Entities(rows[r])) > MaxGraphNodes
                        \/ Relationships(rows[r]) \subseteq Drawn(e)
      OBVIOUS
    <3>1. CASE r = i + 1
      BY <2>4, <3>1 DEF u
    <3>2. CASE r \in 1 .. i /\ Relationships(rows[r]) \subseteq Drawn(d)
      BY <2>4, <3>2
    <3>3. CASE r \in 1 .. i /\ Cardinality(d.nodes \cup Entities(rows[r])) > MaxGraphNodes
      <4> DEFINE A == d.nodes \cup Entities(rows[r])
                 B == e.nodes \cup Entities(rows[r])
      <4>1. rows[r] \in Txns
        <5>1. r \in 1 .. Len(rows)
          BY <3>3
        <5> QED
          BY <5>1
      <4>2. IsFiniteSet(Entities(rows[r])) /\ IsFiniteSet(Entities(u))
        BY <1>0, <4>1, EntitiesDisplayable
      <4>3. IsFiniteSet(e.nodes)
        BY <1>0, <2>1, <4>2, FS_Union
      <4>4. IsFiniteSet(B)
        BY <4>2, <4>3, FS_Union
      <4>5. A \subseteq B
        BY <2>1
      <4>6. Cardinality(A) > MaxGraphNodes
        BY <3>3
      <4> HIDE DEF A, B
      <4>7. IsFiniteSet(A) /\ Cardinality(A) =< Cardinality(B)
        BY <4>4, <4>5, FS_Subset
      <4>8. Cardinality(A) \in Nat /\ Cardinality(B) \in Nat /\ MaxGraphNodes \in Nat
        BY <4>4, <4>7, FS_CardinalityType, ReadAssumption
      <4>9. Cardinality(B) > MaxGraphNodes
        BY <4>6, <4>7, <4>8
      <4> QED
        BY <4>9 DEF B
    <3> QED
      BY <1>1, <1>2, <3>1, <3>2, <3>3
  <2>9. Cardinality(e.nodes) =< MaxGraphNodes /\ Entities(t) \cup {t} \subseteq e.nodes
    <3>1. IsFiniteSet(e.nodes)
      BY <1>0, <2>1, EntitiesDisplayable, FS_Union
    <3>2. Cardinality(e.nodes) \in Nat /\ MaxGraphNodes \in Nat
      BY <3>1, FS_CardinalityType, ReadAssumption
    <3> QED
      BY <1>1, <1>4, <2>1, <3>2
  <2> QED
    BY <2>5, <2>6, <2>7, <2>8, <2>9 DEF DrawingOk, e, u
<1> QED
  BY <1>3, <1>4

LEMMA DrawingExplained ==
  ASSUME NEW t \in Txns, NEW rows \in Seq(Txns)
  PROVE  LET nodes == Drawing(t, rows).nodes
             edges == Drawing(t, rows).edges
         IN /\ Cardinality(nodes) =< MaxGraphNodes /\ Cardinality(edges) =< MaxGraphEdges
            /\ UNION edges \subseteq nodes /\ Own(t) \subseteq edges
            /\ edges \ Own(t) \subseteq UNION {Relationships(rows[r]) : r \in 1 .. Len(rows)}
            /\ Cardinality(edges) < MaxGraphEdges =>
                 /\ nodes = UNION edges
                 /\ \A r \in 1 .. Len(rows) :
                      Entities(rows[r]) \subseteq nodes => Relationships(rows[r]) \subseteq edges
<1> DEFINE N == Len(rows)
<1>0. N \in Nat /\ MaxGraphEdges \in Nat /\ MaxGraphEdges >= 5 /\ MaxGraphNodes \in Nat
  BY ReadAssumption
<1>1. PICK f : IsDrawing(f, t, rows)
  BY DrawingIsDrawing
<1>2. /\ f \in [0 .. N -> Drawable] /\ f[0] = FirstDrawing(t)
      /\ \A i \in 1 .. N : f[i] = AddRow(f[i - 1], rows[i])
  BY <1>1 DEF IsDrawing
<1> DEFINE G == {i \in Nat : i =< N => DrawingOk(f[i], i, t, rows)}
<1>3. 0 \in G
  BY <1>2, FirstDrawingOk
<1>4. ASSUME NEW i \in G PROVE i + 1 \in G
  <2> SUFFICES ASSUME i + 1 =< N PROVE DrawingOk(f[i + 1], i + 1, t, rows)
    OBVIOUS
  <2>1. i \in Nat /\ i + 1 \in 1 .. N /\ (i + 1) - 1 = i /\ i =< N /\ i \in 0 .. N
    BY <1>0
  <2>2. f[i] \in Drawable /\ DrawingOk(f[i], i, t, rows) /\ f[i + 1] = AddRow(f[i], rows[i + 1])
    BY <1>2, <2>1
  <2> QED
    BY <2>1, <2>2, AddRowOk
<1>5. G = Nat
  <2> HIDE DEF G
  <2> QED
    BY <1>3, <1>4, AllNaturals DEF G
<1> DEFINE d == f[N]
           s == d.edges
           nodes == Drawing(t, rows).nodes
           edges == Drawing(t, rows).edges
<1>6. DrawingOk(d, N, t, rows) /\ d \in Drawable
  BY <1>0, <1>2, <1>5
<1>7. nodes = d.nodes /\ edges = Distinct(MaxGraphEdges, s)
  BY <1>1 DEF IsDrawing
<1> HIDE DEF nodes, edges, d, N
<1>8. s \in Seq(SUBSET Displayable) /\ IsFiniteSet(nodes)
  BY <1>6, <1>7 DEF Drawable
<1>9. PICK m \in 0 .. Len(s) :
        /\ Distinct(MaxGraphEdges, s) = Leading(s, m)
        /\ Cardinality(Leading(s, m)) =< MaxGraphEdges
        /\ m = Len(s) \/ Cardinality(Leading(s, m + 1)) > MaxGraphEdges
  BY <1>0, <1>8, DistinctIsLeading
<1>10. /\ Cardinality(nodes) =< MaxGraphNodes
       /\ UNION Drawn(d) = nodes
       /\ Len(s) >= 5 /\ Leading(s, 5) = Own(t)
       /\ Drawn(d) \ Own(t) \subseteq UNION {Relationships(rows[r]) : r \in 1 .. N}
       /\ \A r \in 1 .. N : \/ Cardinality(nodes \cup Entities(rows[r])) > MaxGraphNodes
                            \/ Relationships(rows[r]) \subseteq Drawn(d)
  BY <1>6, <1>7 DEF DrawingOk
<1>11. edges = Leading(s, m) /\ Drawn(d) = Leading(s, Len(s)) /\ m \in Nat /\ Len(s) \in Nat
       /\ m =< Len(s)
  BY <1>7, <1>8, <1>9 DEF Drawn
<1> HIDE DEF s
<1>12. edges \subseteq Drawn(d)
  <2>1. \A i \in 1 .. m : i \in 1 .. Len(s)
    BY <1>11
  <2> QED
    BY <1>11, <2>1 DEF Leading
<1>13. Own(t) \subseteq edges
  <2>1. m >= 5
    <3>1. ASSUME m < 5 PROVE FALSE
      <4>1. m + 1 \in Nat /\ m + 1 =< 5 /\ m # Len(s)
        BY <1>10, <1>11, <3>1
      <4>2. Cardinality(Leading(s, m + 1)) =< m + 1 /\ Cardinality(Leading(s, m + 1)) \in Nat
        BY <4>1, LeadingBounded
      <4> QED
        BY <1>0, <1>9, <4>1, <4>2
    <3> QED
      BY <1>11, <3>1
  <2>2. \A i \in 1 .. 5 : i \in 1 .. m
    BY <1>11, <2>1
  <2> QED
    BY <1>10, <1>11, <2>2 DEF Leading
<1>14. ASSUME Cardinality(edges) < MaxGraphEdges PROVE edges = Drawn(d)
  <2>1. ASSUME m # Len(s) PROVE FALSE
    <3>1. /\ Cardinality(Leading(s, m + 1)) =< Cardinality(Leading(s, m)) + 1
          /\ Cardinality(Leading(s, m)) \in Nat
      BY <1>11, LeadingBounded
    <3>2. Cardinality(Leading(s, m + 1)) \in Nat
      <4>1. m + 1 \in Nat
        BY <1>11
      <4> QED
        BY <4>1, LeadingBounded
    <3>3. Cardinality(Leading(s, m + 1)) > MaxGraphEdges
      BY <1>9, <2>1
    <3>4. Cardinality(Leading(s, m)) < MaxGraphEdges
      BY <1>11, <1>14
    <3> QED
      BY <1>0, <3>1, <3>2, <3>3, <3>4
  <2> QED
    BY <1>11, <2>1
<1>15. ASSUME Cardinality(edges) < MaxGraphEdges, NEW r \in 1 .. N,
              Entities(rows[r]) \subseteq nodes
       PROVE  Relationships(rows[r]) \subseteq edges
  <2>1. nodes \cup Entities(rows[r]) = nodes
    BY <1>15
  <2>2. Cardinality(nodes) \in Nat
    BY <1>8, FS_CardinalityType
  <2>3. ~(Cardinality(nodes) > MaxGraphNodes)
    BY <1>0, <1>10, <2>2
  <2> QED
    BY <1>10, <1>14, <1>15, <2>1, <2>3
<1>16. Cardinality(edges) =< MaxGraphEdges
  BY <1>9, <1>11
<1>17. UNION edges \subseteq nodes
  BY <1>10, <1>12
<1>18. edges \ Own(t) \subseteq UNION {Relationships(rows[r]) : r \in 1 .. N}
  BY <1>10, <1>12
<1>19. Cardinality(edges) < MaxGraphEdges => nodes = UNION edges
  BY <1>10, <1>14
<1> QED
  BY <1>10, <1>13, <1>15, <1>16, <1>17, <1>18, <1>19 DEF nodes, edges, N

-----------------------------------------------------------------------------
(* The snapshots next to the rows.                                         *)

(* The snapshots are of what was committed when they were frozen, and a    *)
(* decision has both.                                                      *)
TablesOk ==
  /\ decided \subseteq DOMAIN graphs /\ DOMAIN graphs \subseteq DOMAIN features
  /\ DOMAIN features \subseteq Subjects
  /\ \A t \in DOMAIN features :
       /\ features[t].at \in 0 .. Len(log)
       /\ features[t].vector = FeatureVector(t, FeatureHistory(t, Known(features[t].at)))
  /\ \A t \in DOMAIN graphs :
       /\ graphs[t].at \in 0 .. Len(log)
       /\ graphs[t].assessment = GraphAssessment(t, GraphHistory(t, Known(graphs[t].at)))

(* A view on display lists what its query finds in the database as it is.  *)
ViewsOk ==
  /\ page.pc = "history" => page.of \in decided
  /\ page.pc = "done" /\ page.view = "report" =>
       page.of \in decided /\ page.rows = Timeline(page.of, Committed)
  /\ page.pc = "done" /\ page.view = "graph" =>
       page.of \in decided /\ page.rows = Newest(MaxPriorRows, Prior(page.of, Committed))

VInv == PInv /\ TablesOk /\ ViewsOk

LEMMA InitVInv == Init => VInv
<1> SUFFICES ASSUME Init PROVE VInv
  OBVIOUS
<1>1. TablesOk
  <2>1. DOMAIN features = {} /\ DOMAIN graphs = {} /\ decided = {}
    BY DEF Init
  <2> QED
    BY <2>1 DEF TablesOk
<1>2. page.pc = "done" /\ page.view = "none"
  BY DEF Init, Closed
<1>3. ViewsOk
  BY <1>2 DEF ViewsOk
<1> QED
  BY <1>1, <1>3, InitPInv DEF VInv

(* While something may happen, no view is on display.                      *)
LEMMA MeanwhileNoView ==
  ASSUME Meanwhile, page.pc = "done"
  PROVE  page.view = "none"
  BY DEF Meanwhile, Closed

LEMMA KnownStays ==
  ASSUME log \in Seq(Txns), NEW t \in Txns, log' = Append(log, t)
  PROVE  /\ \A n \in 0 .. Len(log) : Known(n)' = Known(n) /\ n \in 0 .. Len(log')
         /\ Committed' = Committed \cup {t} /\ Len(log') = Len(log) + 1
<1>1. /\ Len(log) \in Nat /\ Len(log') = Len(log) + 1 /\ log'[Len(log) + 1] = t
      /\ \A i \in 1 .. Len(log) : log'[i] = log[i]
  OBVIOUS
<1>2. ASSUME NEW n \in 0 .. Len(log) PROVE Known(n)' = Known(n) /\ n \in 0 .. Len(log')
  <2>1. SubSeq(log, 1, n) = [i \in 1 .. n |-> log[i]]
    OBVIOUS
  <2>2. log' \in Seq(Txns) /\ n =< Len(log') /\ n \in Nat
    BY <1>1
  <2>3. SubSeq(log', 1, n) = [i \in 1 .. n |-> log'[i]]
    BY <2>2
  <2>4. \A i \in 1 .. n : log'[i] = log[i]
    BY <1>1
  <2>5. SubSeq(log', 1, n) = SubSeq(log, 1, n)
    BY <2>1, <2>3, <2>4
  <2>6. Known(n)' = ToSet(SubSeq(log', 1, n)) /\ Known(n) = ToSet(SubSeq(log, 1, n))
    BY DEF Known
  <2>7. n \in 0 .. Len(log')
    BY <1>1
  <2> QED
    BY <2>5, <2>6, <2>7
<1>3. Committed' = Committed \cup {t}
  <2>1. DOMAIN log = 1 .. Len(log) /\ DOMAIN log' = 1 .. Len(log) + 1
    BY <1>1
  <2>2. \A i : i \in 1 .. Len(log) + 1 <=> i \in 1 .. Len(log) \/ i = Len(log) + 1
    BY <1>1
  <2> QED
    BY <1>1, <2>1, <2>2 DEF Committed, ToSet
<1> QED
  BY <1>1, <1>2, <1>3

LEMMA KnownAll ==
  ASSUME log \in Seq(Txns)
  PROVE  Known(Len(log)) = Committed /\ Len(log) \in 0 .. Len(log)
         /\ \A n \in 0 .. Len(log) : Known(n) \subseteq Committed
<1>1. SubSeq(log, 1, Len(log)) = log /\ Len(log) \in 0 .. Len(log)
  OBVIOUS
<1>2. ASSUME NEW n \in 0 .. Len(log) PROVE Known(n) \subseteq Committed
  <2>1. SubSeq(log, 1, n) = [i \in 1 .. n |-> log[i]]
    OBVIOUS
  <2>2. \A i \in 1 .. n : i \in 1 .. Len(log)
    OBVIOUS
  <2>3. DOMAIN log = 1 .. Len(log)
    OBVIOUS
  <2> QED
    BY <2>1, <2>2, <2>3 DEF Known, Committed, ToSet
<1> QED
  BY <1>1, <1>2 DEF Known, Committed

LEMMA IngestVInv ==
  ASSUME VInv, NEW t \in Txns, Ingest(t)
  PROVE  VInv'
<1>1. PInv' /\ log \in Seq(Txns)
  <2>1. [Next]_vars /\ PInv
    BY DEF Next, VInv
  <2> QED
    BY <2>1, NextPInv DEF PInv
<1>2. /\ log' = Append(log, t) /\ Meanwhile
      /\ features' = features /\ graphs' = graphs /\ decided' = decided /\ page' = page
  BY DEF Ingest
<1>3. \A n \in 0 .. Len(log) : Known(n)' = Known(n) /\ n \in 0 .. Len(log')
  BY <1>1, <1>2, KnownStays
<1>4. TablesOk'
  <2>1. \A n \in 0 .. Len(log) : Known(n)' = ToSet(SubSeq(log', 1, n))
    BY DEF Known
  <2> QED
    BY <1>2, <1>3, <2>1 DEF VInv, TablesOk, Known
<1>5. ViewsOk'
  BY <1>2, MeanwhileNoView DEF VInv, ViewsOk
<1> QED
  BY <1>1, <1>4, <1>5 DEF VInv

LEMMA SnapshotVInv ==
  ASSUME VInv, NEW t \in Subjects, SnapshotFeatures(t) \/ SnapshotGraph(t) \/ Decide(t)
  PROVE  VInv'
<1>1. PInv' /\ log \in Seq(Txns)
  <2>1. [Next]_vars /\ PInv
    BY DEF Next, VInv
  <2> QED
    BY <2>1, NextPInv DEF PInv
<1>2. log' = log /\ page' = page /\ Meanwhile
  BY DEF SnapshotFeatures, SnapshotGraph, Decide
<1>3. ViewsOk'
  <2>1. page.pc = "history" => page.of \in decided'
    BY DEF VInv, ViewsOk, SnapshotFeatures, SnapshotGraph, Decide
  <2> QED
    BY <1>2, <2>1, MeanwhileNoView DEF ViewsOk
<1>4. \A n : Known(n)' = Known(n)
  BY <1>2 DEF Known
<1>5. Known(Len(log)) = Committed /\ Len(log) \in 0 .. Len(log)
  BY <1>1, KnownAll
<1>6. CASE SnapshotFeatures(t)
  <2> DEFINE row == [vector |-> FeatureVector(t, FeatureHistory(t, Committed)), at |-> Len(log)]
  <2>1. features' = Insert(features, t, row) /\ graphs' = graphs /\ decided' = decided
    BY <1>6 DEF SnapshotFeatures
  <2>2. row.at = Len(log) /\ row.vector = FeatureVector(t, FeatureHistory(t, Committed))
    OBVIOUS
  <2> HIDE DEF row
  <2>3. DOMAIN features' = DOMAIN features \cup {t}
    BY <2>1 DEF Insert
  <2>4. \A u \in DOMAIN features' : IF u = t THEN features'[u] = row
                                    ELSE u \in DOMAIN features /\ features'[u] = features[u]
    BY <2>1, <2>3 DEF Insert
  <2>5. \A u \in DOMAIN features' :
          /\ features'[u].at \in 0 .. Len(log)
          /\ features'[u].vector = FeatureVector(u, FeatureHistory(u, Known(features'[u].at)))
    BY <1>5, <2>2, <2>4 DEF VInv, TablesOk
  <2>6. TablesOk'
    BY <1>2, <1>4, <2>1, <2>3, <2>5 DEF VInv, TablesOk
  <2> QED
    BY <1>1, <1>3, <2>6 DEF VInv
<1>7. CASE SnapshotGraph(t)
  <2> DEFINE row == [assessment |-> GraphAssessment(t, GraphHistory(t, Committed)),
                     at |-> Len(log)]
  <2>1. /\ graphs' = Insert(graphs, t, row) /\ features' = features /\ decided' = decided
        /\ t \in DOMAIN features
    BY <1>7 DEF SnapshotGraph
  <2>2. row.at = Len(log) /\ row.assessment = GraphAssessment(t, GraphHistory(t, Committed))
    OBVIOUS
  <2> HIDE DEF row
  <2>3. DOMAIN graphs' = DOMAIN graphs \cup {t}
    BY <2>1 DEF Insert
  <2>4. \A u \in DOMAIN graphs' : IF u = t THEN graphs'[u] = row
                                  ELSE u \in DOMAIN graphs /\ graphs'[u] = graphs[u]
    BY <2>1, <2>3 DEF Insert
  <2>5. \A u \in DOMAIN graphs' :
          /\ graphs'[u].at \in 0 .. Len(log)
          /\ graphs'[u].assessment = GraphAssessment(u, GraphHistory(u, Known(graphs'[u].at)))
    BY <1>5, <2>2, <2>4 DEF VInv, TablesOk
  <2>6. TablesOk'
    BY <1>2, <1>4, <2>1, <2>3, <2>5 DEF VInv, TablesOk
  <2> QED
    BY <1>1, <1>3, <2>6 DEF VInv
<1>8. CASE Decide(t)
  <2>1. /\ decided' = decided \cup {t} /\ t \in DOMAIN graphs
        /\ features' = features /\ graphs' = graphs
    BY <1>8 DEF Decide
  <2>2. TablesOk'
    BY <1>2, <1>4, <2>1 DEF VInv, TablesOk
  <2> QED
    BY <1>1, <1>3, <2>2 DEF VInv
<1> QED
  BY <1>6, <1>7, <1>8

(* A step of the pages leaves the database as it is.                       *)
LEMMA ReadVInv ==
  ASSUME VInv, [Next]_vars, UNCHANGED database, ViewsOk'
  PROVE  VInv'
<1>1. PInv'
  BY NextPInv DEF VInv
<1>2. log' = log /\ features' = features /\ graphs' = graphs /\ decided' = decided
  BY DEF database
<1>3. \A n : Known(n)' = Known(n)
  BY <1>2 DEF Known
<1>4. TablesOk'
  BY <1>2, <1>3 DEF VInv, TablesOk
<1> QED
  BY <1>1, <1>4 DEF VInv

LEMMA OtherPageVInv ==
  ASSUME page'.pc # "history", ~(page'.pc = "done" /\ page'.view \in {"report", "graph"})
  PROVE  ViewsOk'
  BY DEF ViewsOk

LEMMA NextViews ==
  ASSUME VInv, UNCHANGED database,
         \/ \E t \in Subjects, view \in {"report", "graph"} : OpenPayment(view, t)
         \/ ReadSnapshots \/ ReadTimeline \/ ReadPriorRows
         \/ \E x \in PathStarts : FindPath(x)
         \/ \E x \in Visited : OpenEntity(x)
         \/ ReadEdges \/ ReadStatistics \/ ReadRecent \/ OpenSummary \/ ReadDecisions
         \/ Close
  PROVE  ViewsOk'
<1>0. log' = log /\ decided' = decided /\ Committed' = Committed
  BY DEF database, Committed
<1>1. ASSUME NEW t \in Subjects, NEW view \in {"report", "graph"}, OpenPayment(view, t)
      PROVE  ViewsOk'
  <2>1. page'.pc = "snapshots" \/ (page'.pc = "done" /\ page'.view = "404")
    BY <1>1 DEF OpenPayment, Open, Fail
  <2> QED
    BY <2>1, OtherPageVInv
<1>2. CASE ReadSnapshots
  <2>0. page.pc = "snapshots"
    BY <1>2 DEF ReadSnapshots
  <2>1. PICK view \in {"report", "graph"}, t \in Subjects : page = PageOf(view, t, "snapshots")
    BY <2>0 DEF VInv, PInv, PageOk
  <2>2. CASE t \in decided /\ page' = [page EXCEPT !.pc = "history"]
    <3>1. page'.of = t /\ page'.pc = "history"
      BY <2>1, <2>2 DEF PageOf
    <3> QED
      BY <1>0, <2>2, <3>1 DEF ViewsOk
  <2>3. CASE page' = [view |-> "409", pc |-> "done"]
    <3>1. page'.pc = "done" /\ page'.view = "409"
      BY <2>3
    <3> QED
      BY <3>1, OtherPageVInv
  <2>4. page.of = t
    BY <2>1 DEF PageOf
  <2> QED
    BY <1>2, <2>2, <2>3, <2>4 DEF ReadSnapshots, Fail
<1>3. CASE ReadTimeline
  <2>1. /\ page.pc = "history"
        /\ page' = [view |-> "report", pc |-> "done", of |-> page.of,
                    rows |-> Timeline(page.of, Committed)]
    BY <1>3 DEF ReadTimeline
  <2>2. page.of \in decided
    BY <2>1 DEF VInv, ViewsOk
  <2>3. page'.of = page.of /\ page'.rows = Timeline(page.of, Committed)
        /\ page'.pc = "done" /\ page'.view = "report"
    BY <2>1
  <2>4. Timeline(page.of, Committed)' = Timeline(page'.of, Committed')
    OBVIOUS
  <2> QED
    BY <1>0, <2>2, <2>3 DEF ViewsOk
<1>4. CASE ReadPriorRows
  <2>1. page.pc = "history" /\ page.of \in decided
    BY <1>4 DEF ReadPriorRows, VInv, ViewsOk
  <2>2. page'.of = page.of /\ page'.rows = Newest(MaxPriorRows, Prior(page.of, Committed))
        /\ page'.pc = "done" /\ page'.view = "graph"
    BY <1>4 DEF ReadPriorRows
  <2> QED
    BY <1>0, <2>1, <2>2 DEF ViewsOk
<1>5. ASSUME NEW x \in PathStarts, FindPath(x)
      PROVE  ViewsOk'
  <2>1. page.pc = "done" /\ page.view = "graph"
    BY <1>5 DEF FindPath
  <2>2. PICK t \in Subjects, rows \in Seq(Txns) : \E path : page = GraphPage(t, rows, path)
    BY <2>1 DEF VInv, PInv, PageOk
  <2>3. PICK path : page = GraphPage(t, rows, path)
    BY <2>2
  <2> DEFINE found == <<x, findRelationshipPath(page.drawing.nodes, page.drawing.edges, x,
                             Entity(page.of, "customer"), Cardinality(page.drawing.nodes) - 1)>>
  <2>4. page' = [page EXCEPT !.path = found]
    BY <1>5 DEF FindPath
  <2> HIDE DEF found
  <2>5. page'.of = page.of /\ page'.rows = page.rows /\ page'.pc = "done" /\ page'.view = "graph"
    BY <2>3, <2>4 DEF GraphPage
  <2>6. page.of \in decided /\ page.rows = Newest(MaxPriorRows, Prior(page.of, Committed))
    BY <2>1 DEF VInv, ViewsOk
  <2> QED
    BY <1>0, <2>5, <2>6 DEF ViewsOk
<1>6. ASSUME NEW x \in Visited, OpenEntity(x) PROVE ViewsOk'
  <2>1. page'.pc = "edges" \/ (page'.pc = "done" /\ page'.view = "404")
    BY <1>6 DEF OpenEntity, Open, Fail
  <2> QED
    BY <2>1, OtherPageVInv
<1>7. CASE ReadEdges \/ ReadStatistics \/ OpenSummary
  <2>1. page'.pc \in {"statistics", "recent", "decisions"}
    BY <1>7 DEF ReadEdges, ReadStatistics, OpenSummary
  <2> QED
    BY <2>1, OtherPageVInv
<1>8. CASE ReadRecent \/ ReadDecisions \/ Close
  <2>1. page'.pc = "done" /\ page'.view \in {"entity", "summary", "none"}
    BY <1>8 DEF ReadRecent, ReadDecisions, Close, Closed
  <2> QED
    BY <2>1, OtherPageVInv
<1> QED
  BY <1>1, <1>2, <1>3, <1>4, <1>5, <1>6, <1>7, <1>8

LEMMA NextVInv ==
  ASSUME VInv, [Next]_vars
  PROVE  VInv'
<1> DEFINE Read ==
      \/ \E t \in Subjects, view \in {"report", "graph"} : OpenPayment(view, t)
      \/ ReadSnapshots \/ ReadTimeline \/ ReadPriorRows
      \/ \E x \in PathStarts : FindPath(x)
      \/ \E x \in Visited : OpenEntity(x)
      \/ ReadEdges \/ ReadStatistics \/ ReadRecent \/ OpenSummary \/ ReadDecisions
      \/ Close
<1>1. CASE Read
  <2>1. UNCHANGED database
    BY <1>1 DEF OpenPayment, Open, ReadSnapshots, ReadTimeline, ReadPriorRows, FindPath,
                OpenEntity, ReadEdges, ReadStatistics, ReadRecent, OpenSummary, ReadDecisions,
                Close
  <2>2. ViewsOk'
    BY <1>1, <2>1, NextViews
  <2> QED
    BY <2>1, <2>2, ReadVInv
<1>2. CASE UNCHANGED vars
  <2>1. UNCHANGED database /\ page' = page /\ decided' = decided /\ Committed' = Committed
    BY <1>2 DEF vars, database, Committed
  <2>2. ViewsOk'
    BY <2>1 DEF VInv, ViewsOk
  <2> QED
    BY <2>1, <2>2, ReadVInv
<1>3. CASE \E t \in Txns : Ingest(t)
  BY <1>3, IngestVInv
<1>4. CASE \E t \in Subjects : SnapshotFeatures(t) \/ SnapshotGraph(t) \/ Decide(t)
  BY <1>4, SnapshotVInv
<1> QED
  BY <1>1, <1>2, <1>3, <1>4 DEF Next

LEMMA LastCommitExists ==
  ASSUME NEW H, IsFiniteSet(H), H # {}, H \subseteq Txns
  PROVE  \E u \in H : \A v \in H : Time[v] =< Time[u]
<1> DEFINE s == Newest(1, H)
<1>1. ListsNewest(s, 1, H)
  BY NewestListed
<1> HIDE DEF s
<1>2. /\ s \in Seq(H) /\ Len(s) =< 1 /\ Len(s) \in Nat
      /\ Len(s) < 1 => \A u \in H : \E i \in 1 .. Len(s) : s[i] = u
      /\ \A u \in H : \/ \E i \in 1 .. Len(s) : s[i] = u
                      \/ \A i \in 1 .. Len(s) : Time[u] =< Time[s[i]]
  BY <1>1 DEF ListsNewest
<1>3. Len(s) = 1
  <2>1. ASSUME Len(s) = 0 PROVE FALSE
    <3>1. \A i \in 1 .. Len(s) : FALSE
      BY <2>1
    <3> QED
      BY <1>2, <2>1, <3>1
  <2>2. Len(s) =< 1 /\ Len(s) \in Nat
    BY <1>2
  <2>3. Len(s) # 0
    BY <2>1
  <2>4. \A n \in Nat : n =< 1 /\ n # 0 => n = 1
    OBVIOUS
  <2> QED
    BY <2>2, <2>3, <2>4
<1>4. s[1] \in H /\ \A i \in 1 .. Len(s) : i = 1
  BY <1>2, <1>3
<1>5. \A v \in H : Time[v] \in Nat
  BY TimeAssumption
<1>6. ASSUME NEW v \in H PROVE Time[v] =< Time[s[1]]
  <2>1. CASE \E i \in 1 .. Len(s) : s[i] = v
    BY <1>4, <1>5, <2>1
  <2>2. CASE \A i \in 1 .. Len(s) : Time[v] =< Time[s[i]]
    BY <1>3, <2>2
  <2> QED
    BY <1>2, <2>1, <2>2
<1> QED
  BY <1>4, <1>6

LEMMA LatestIs ==
  ASSUME NEW H, H \subseteq Txns, NEW u \in H, \A v \in H : Time[v] =< Time[u]
  PROVE  Latest(H) = Time[u]
<1>1. \A v \in H : Time[v] \in Nat
  BY TimeAssumption
<1> DEFINE S == {Time[v] : v \in H}
<1>2. PICK n : n = CHOOSE m \in S : \A v \in H : Time[v] =< m
  OBVIOUS
<1>3. Time[u] \in S
  OBVIOUS
<1>4. n \in S /\ \A v \in H : Time[v] =< n
  BY <1>2, <1>3
<1>5. n =< Time[u] /\ Time[u] =< n /\ n \in Nat
  BY <1>1, <1>4
<1>6. n = Time[u]
  BY <1>1, <1>5
<1>7. Latest(H) = n
  <2>1. H # {}
    OBVIOUS
  <2> QED
    BY <1>2, <2>1 DEF Latest
<1> QED
  BY <1>6, <1>7

LEMMA ReversedSequence ==
  ASSUME NEW S, NEW s \in Seq(S)
  PROVE  /\ Len(Reverse(s)) = Len(s) /\ DOMAIN Reverse(s) = 1 .. Len(s)
         /\ \A i \in 1 .. Len(s) : /\ Reverse(s)[i] = s[Len(s) - i + 1]
                                   /\ Len(s) - i + 1 \in 1 .. Len(s)
                                   /\ Len(s) - (Len(s) - i + 1) + 1 = i
         /\ ToSet(Reverse(s)) = {s[i] : i \in 1 .. Len(s)}
<1> DEFINE n == Len(s)
           r == [i \in 1 .. n |-> s[(n - i) + 1]]
<1>1. n \in Nat /\ \A i \in 1 .. n : /\ (n - i) + 1 \in 1 .. n
                                     /\ (n - ((n - i) + 1)) + 1 = i
  OBVIOUS
<1>2. Reverse(s) = r
  BY DEF Reverse
<1>3. r \in Seq(S) /\ DOMAIN r = 1 .. n
  BY <1>1
<1>4. Len(r) = n
  BY <1>1, <1>3
<1>5. \A i \in 1 .. n : r[i] = s[(n - i) + 1]
  OBVIOUS
<1> HIDE DEF r, n
<1>6. ToSet(r) = {s[i] : i \in 1 .. n}
  <2>1. ToSet(r) = {r[i] : i \in 1 .. n}
    BY <1>3 DEF ToSet
  <2>2. \A i \in 1 .. n : \E j \in 1 .. n : r[i] = s[j]
    BY <1>1, <1>5
  <2>3. \A j \in 1 .. n : \E i \in 1 .. n : s[j] = r[i]
    <3> TAKE j \in 1 .. n
    <3>1. (n - j) + 1 \in 1 .. n /\ r[(n - j) + 1] = s[(n - ((n - j) + 1)) + 1]
      BY <1>1, <1>5
    <3> QED
      BY <1>1, <3>1
  <2>4. {r[i] : i \in 1 .. n} \subseteq {s[i] : i \in 1 .. n}
    BY <2>2
  <2>5. {s[i] : i \in 1 .. n} \subseteq {r[i] : i \in 1 .. n}
    BY <2>3
  <2> QED
    BY <2>1, <2>4, <2>5
<1> QED
  BY <1>1, <1>2, <1>3, <1>4, <1>5, <1>6 DEF n

LEMMA TimelinesExplained ==
  ASSUME VInv, page.pc = "done", page.view = "report"
  PROVE  TimelineExplained
<1> DEFINE t == page.of
           R == Prior(t, Committed)
           s == Newest(MaxTimelineItems, R)
           K == Known(features[t].at)
           H == FeatureHistory(t, K)
           rows == ToSet(page.rows)
           known == rows \cap K
           N == Len(s)
<1>1. /\ t \in decided /\ page.rows = Reverse(s)
      /\ t \in DOMAIN features /\ t \in Txns /\ log \in Seq(Txns)
      /\ features[t].at \in 0 .. Len(log)
      /\ features[t].vector = FeatureVector(t, H)
  BY ReadAssumption DEF VInv, ViewsOk, TablesOk, PInv, Timeline
<1>2. MaxTimelineItems \in Nat
  BY ReadAssumption
<1>3. ListsNewest(s, MaxTimelineItems, R)
  BY <1>2, PriorRows DEF VInv
<1>4. IsFiniteSet(Committed) /\ Committed \subseteq Txns /\ K \subseteq Committed
  BY <1>1, CommittedFinite, KnownAll
<1>5. /\ \A u \in R : u \in Committed /\ Time[u] < Time[t] /\ Linked(t, u)
      /\ H = R \cap K /\ R \subseteq Committed
  BY <1>4 DEF Prior, FeatureHistory
<1> HIDE DEF R, s, K, H
<1>6. /\ s \in Seq(R) /\ N =< MaxTimelineItems /\ N \in Nat
      /\ \A i, j \in 1 .. N : i < j => Time[s[j]] =< Time[s[i]]
      /\ N < MaxTimelineItems => \A u \in R : \E i \in 1 .. N : s[i] = u
      /\ \A u \in R : \/ \E i \in 1 .. N : s[i] = u
                      \/ \A i \in 1 .. N : Time[u] =< Time[s[i]]
      /\ \A i \in 1 .. N : s[i] \in R
  BY <1>3 DEF ListsNewest
<1>7. /\ Len(page.rows) = N /\ DOMAIN page.rows = 1 .. N
      /\ \A i \in 1 .. N : page.rows[i] = s[N - i + 1] /\ N - i + 1 \in 1 .. N
      /\ rows = {s[i] : i \in 1 .. N}
  BY <1>1, <1>6, ReversedSequence
<1> HIDE DEF N, rows
<1>8. rows \subseteq R
  BY <1>6, <1>7
<1>9. \A i, j \in DOMAIN page.rows : i < j => Time[page.rows[i]] =< Time[page.rows[j]]
  <2> SUFFICES ASSUME NEW i \in 1 .. N, NEW j \in 1 .. N, i < j
               PROVE  Time[page.rows[i]] =< Time[page.rows[j]]
    BY <1>7
  <2>1. N - j + 1 < N - i + 1
    BY <1>6
  <2>2. /\ page.rows[i] = s[N - i + 1] /\ N - i + 1 \in 1 .. N
        /\ page.rows[j] = s[N - j + 1] /\ N - j + 1 \in 1 .. N
    BY <1>7
  <2>3. \A a, b \in 1 .. N : a < b => Time[s[b]] =< Time[s[a]]
    BY <1>6
  <2>4. Time[s[N - i + 1]] =< Time[s[N - j + 1]]
    BY <2>1, <2>2, <2>3
  <2> QED
    BY <2>2, <2>4
<1>10. known \subseteq H /\ IsFiniteSet(H) /\ H \subseteq Txns
  <2>1. IsFiniteSet(H)
    BY <1>4, <1>5, FS_Subset
  <2> QED
    BY <1>4, <1>5, <1>8, <2>1
<1>11. N < MaxTimelineItems => known = H
  <2>1. N < MaxTimelineItems => R \subseteq rows
    BY <1>6, <1>7
  <2> QED
    BY <1>5, <1>8, <2>1
<1> HIDE DEF known
<1>12. features[t].vector.seen
         = [k \in EntityTypes |-> Cardinality({u \in H : Ref[u][k] = Ref[t][k]})]
  BY <1>1 DEF FeatureVector
<1>13. features[t].vector.source = Latest(H)
  BY <1>1 DEF FeatureVector
<1> HIDE DEF t
<1>14. ASSUME NEW k \in EntityTypes
       PROVE  Cardinality({u \in known : Ref[u][k] = Ref[t][k]}) =< features[t].vector.seen[k]
  <2>1. {u \in known : Ref[u][k] = Ref[t][k]} \subseteq {u \in H : Ref[u][k] = Ref[t][k]}
    BY <1>10
  <2>2. IsFiniteSet({u \in H : Ref[u][k] = Ref[t][k]})
    BY <1>10, FS_Subset
  <2> QED
    BY <1>12, <2>1, <2>2, FS_Subset
<1>15. ASSUME N < MaxTimelineItems, NEW k \in EntityTypes
       PROVE  Cardinality({u \in known : Ref[u][k] = Ref[t][k]}) = features[t].vector.seen[k]
  BY <1>11, <1>12, <1>15
<1>16. ASSUME known # {} PROVE Latest(known) = Latest(H)
  <2>0. IsFiniteSet(known) /\ known \subseteq Txns /\ H # {}
    BY <1>10, <1>16, FS_Subset
  <2>1. PICK v \in known : \A w \in known : Time[w] =< Time[v]
    BY <1>16, <2>0, LastCommitExists
  <2>2. \A w \in H : Time[w] =< Time[v]
    <3> SUFFICES ASSUME NEW w \in H PROVE Time[w] =< Time[v]
      OBVIOUS
    <3>1. CASE w \in rows
      BY <1>5, <2>1, <3>1 DEF known
    <3>2. CASE w \notin rows
      <4>1. v \in rows
        BY DEF known
      <4>2. PICK i \in 1 .. N : s[i] = v
        BY <1>7, <4>1
      <4>3. w \in R /\ ~ \E l \in 1 .. N : s[l] = w
        BY <1>5, <1>7, <3>2
      <4>4. \A l \in 1 .. N : Time[w] =< Time[s[l]]
        BY <1>6, <4>3
      <4> QED
        BY <4>2, <4>4
    <3> QED
      BY <3>1, <3>2
  <2>3. Latest(known) = Time[v]
    BY <2>0, <2>1, LatestIs
  <2>4. Latest(H) = Time[v]
    BY <1>10, <2>2, LatestIs
  <2> QED
    BY <2>3, <2>4
<1>17. \A u \in rows : Time[u] < Time[t] /\ Linked(t, u)
  BY <1>5, <1>8
<1> QED
  BY <1>6, <1>7, <1>9, <1>13, <1>14, <1>15, <1>16, <1>17 DEF TimelineExplained, t, rows, known, K

LEMMA GraphViewsExplained ==
  ASSUME VInv, page.pc = "done", page.view = "graph"
  PROVE  GraphViewExplained
<1> DEFINE t == page.of
           s == page.rows
           R == Prior(t, Committed)
           K == Known(graphs[t].at)
           nodes == page.drawing.nodes
           edges == page.drawing.edges
           N == Len(s)
<1>1. PICK u \in Subjects, rows \in Seq(Txns) : \E path : page = GraphPage(u, rows, path)
  BY DEF VInv, PInv, PageOk
<1>2. u = t /\ rows = s /\ page.drawing = Drawing(t, s) /\ t \in Txns /\ s \in Seq(Txns)
  BY <1>1, ReadAssumption DEF GraphPage
<1>3. /\ t \in decided /\ s = Newest(MaxPriorRows, R)
      /\ t \in DOMAIN graphs /\ log \in Seq(Txns)
      /\ graphs[t].at \in 0 .. Len(log)
      /\ graphs[t].assessment = GraphAssessment(t, GraphHistory(t, K))
  BY DEF VInv, ViewsOk, TablesOk, PInv
<1>4. ListsNewest(s, MaxPriorRows, R)
  <2>1. MaxPriorRows \in Nat
    BY ReadAssumption
  <2> QED
    BY <1>3, <2>1, PriorRows DEF VInv
<1>5. K \subseteq Committed
  BY <1>3, KnownAll
<1>6. /\ Cardinality(nodes) =< MaxGraphNodes /\ Cardinality(edges) =< MaxGraphEdges
      /\ UNION edges \subseteq nodes /\ Own(t) \subseteq edges
      /\ edges \ Own(t) \subseteq UNION {Relationships(s[r]) : r \in 1 .. N}
      /\ Cardinality(edges) < MaxGraphEdges =>
           /\ nodes = UNION edges
           /\ \A r \in 1 .. N :
                Entities(s[r]) \subseteq nodes => Relationships(s[r]) \subseteq edges
  BY <1>2, DrawingExplained
<1>7. N \in Nat /\ ToSet(s) = {s[r] : r \in 1 .. N} /\ ToSet(s) \subseteq R
  BY <1>2, <1>4 DEF ListsNewest, ToSet
<1> HIDE DEF s, N, nodes, edges, K
<1>8. \A w \in ToSet(s) \cap K : w \in GraphHistory(t, K)
  <2> SUFFICES ASSUME NEW w \in ToSet(s) \cap K PROVE w \in GraphHistory(t, K)
    OBVIOUS
  <2>1. Time[w] < Time[t] /\ Linked(t, w)
    BY <1>7 DEF Prior
  <2>2. Linked(w, t)
    BY <2>1 DEF Linked
  <2>3. \A S \in SUBSET K : w \in Touching(t, S, K)
    BY <2>1, <2>2 DEF Touching
  <2> QED
    BY <2>3 DEF GraphHistory
<1>9. UNION {Relationships(w) : w \in ToSet(s) \cap K} \subseteq graphs[t].assessment.edges
  <2>1. graphs[t].assessment.edges = UNION {Relationships(w) : w \in GraphHistory(t, K)}
    BY <1>3 DEF GraphAssessment
  <2> QED
    BY <1>8, <2>1
<1>10. edges \ Own(t) \subseteq UNION {Relationships(w) : w \in ToSet(s)}
  BY <1>6, <1>7
<1>11. Cardinality(edges) < MaxGraphEdges =>
         \A w \in ToSet(s) : Entities(w) \subseteq nodes => Relationships(w) \subseteq edges
  BY <1>6, <1>7
<1> HIDE DEF t
<1> QED
  BY <1>6, <1>9, <1>10, <1>11 DEF GraphViewExplained, Own, nodes, edges, s, K, t

(* Reports and graph views show what was known when the payment was        *)
(* decided, and nothing later than it, but for payments that came in late. *)
THEOREM ViewsAreExplained == Spec => []HistoryViewsExplained
<1>1. VInv /\ [Next]_vars => VInv'
  BY NextVInv
<1>2. VInv => HistoryViewsExplained
  BY TimelinesExplained, GraphViewsExplained DEF HistoryViewsExplained
<1> QED
  BY <1>1, <1>2, InitVInv, PTL DEF Spec

-----------------------------------------------------------------------------
(* Sums of counts.                                                         *)

(* total in EntityPageHonest.                                              *)
Total(T) == FoldSet(LAMBDA row, n : n + row.count, 0, T)

IsTotals(h, S) ==
  \A T \in SUBSET S :
    h[T] = IF T = {} THEN 0
           ELSE h[T \ {CHOOSE r \in T : TRUE}] + (CHOOSE r \in T : TRUE).count

LEMMA TotalUnfolds ==
  ASSUME NEW S, NEW g, DOMAIN g = SUBSET S, g = [T \in SUBSET S |-> g[T]], IsTotals(g, S)
  PROVE  \E h : Total(S) = h[S] /\ IsTotals(h, S)
<1> DEFINE
      x(T) == CHOOSE r \in T : TRUE
      Step(h) == [T \in SUBSET S |-> IF T = {} THEN 0 ELSE h[T \ {x(T)}] + x(T).count]
      iter == CHOOSE h : h = Step(h)
<1>1. Total(S) = iter[S]
  BY DEF Total, FoldSet, MapThenFoldSet
<1>2. g = Step(g)
  <2>1. \A T \in SUBSET S : g[T] = Step(g)[T]
    BY DEF IsTotals
  <2>2. Step(g) = [T \in SUBSET S |-> Step(g)[T]]
    OBVIOUS
  <2> HIDE DEF Step
  <2> QED
    BY <2>1, <2>2
<1>3. iter = Step(iter)
  <2> HIDE DEF Step
  <2> QED
    BY <1>2
<1>4. IsTotals(iter, S)
  <2>1. \A T \in SUBSET S : iter[T] = Step(iter)[T]
    BY <1>3
  <2> HIDE DEF iter
  <2> QED
    BY <2>1 DEF IsTotals
<1> HIDE DEF iter
<1> QED
  BY <1>1, <1>4

(* The counts of rows that stand for disjoint sets add up to the size of   *)
(* their union.                                                            *)
Union(F, T) == UNION {F[r] : r \in T}

LEMMA TotalIsSize ==
  ASSUME NEW S, IsFiniteSet(S), NEW B, IsFiniteSet(B), NEW F \in [S -> SUBSET B],
         \A r \in S : r.count = Cardinality(F[r]),
         \A r, q \in S : r # q => F[r] \cap F[q] = {}
  PROVE  Total(S) = Cardinality(Union(F, S))
<1> DEFINE size == [T \in SUBSET S |-> Cardinality(Union(F, T))]
           x(T) == CHOOSE r \in T : TRUE
<1>1. \A T \in SUBSET S : T # {} => x(T) \in T
  OBVIOUS
<1>2. ASSUME NEW T \in SUBSET S, NEW r \in T
      PROVE  size[T] = size[T \ {r}] + r.count
  <2>1. Union(F, T) = Union(F, T \ {r}) \cup F[r]
    BY DEF Union
  <2>2. Union(F, T \ {r}) \cap F[r] = {}
    <3>1. \A q \in T \ {r} : F[q] \cap F[r] = {}
      OBVIOUS
    <3> QED
      BY <3>1 DEF Union
  <2>3. Union(F, T \ {r}) \subseteq B /\ F[r] \subseteq B
    BY DEF Union
  <2>4. IsFiniteSet(Union(F, T \ {r})) /\ IsFiniteSet(F[r])
    BY <2>3, FS_Subset
  <2>5. Cardinality(Union(F, T \ {r})) \in Nat /\ Cardinality(F[r]) \in Nat
    BY <2>4, FS_CardinalityType
  <2>6. Cardinality(Union(F, T \ {r}) \cup F[r])
          = Cardinality(Union(F, T \ {r})) + Cardinality(F[r])
              - Cardinality(Union(F, T \ {r}) \cap F[r])
    BY <2>4, FS_Union
  <2>7. Cardinality(Union(F, T \ {r}) \cap F[r]) = 0
    BY <2>2, FS_EmptySet
  <2>8. Cardinality(Union(F, T)) = Cardinality(Union(F, T \ {r})) + Cardinality(F[r])
    BY <2>1, <2>5, <2>6, <2>7
  <2>9. T \ {r} \in SUBSET S /\ r.count = Cardinality(F[r])
    OBVIOUS
  <2> QED
    BY <2>8, <2>9
<1>3. size[{}] = 0
  <2>1. Union(F, {}) = {}
    BY DEF Union
  <2> QED
    BY <2>1, FS_EmptySet
<1>4. DOMAIN size = SUBSET S /\ size = [T \in SUBSET S |-> size[T]]
  OBVIOUS
<1>5. size[S] = Cardinality(Union(F, S))
  OBVIOUS
<1> HIDE DEF size
<1>6. IsTotals(size, S)
  <2> SUFFICES ASSUME NEW T \in SUBSET S
               PROVE  size[T] = IF T = {} THEN 0 ELSE size[T \ {x(T)}] + x(T).count
    BY DEF IsTotals
  <2>1. CASE T = {}
    BY <1>3, <2>1
  <2>2. CASE T # {}
    <3>1. x(T) \in T
      BY <1>1, <2>2
    <3> HIDE DEF x
    <3> QED
      BY <1>2, <2>2, <3>1
  <2> QED
    BY <2>1, <2>2
<1>7. PICK h : Total(S) = h[S] /\ IsTotals(h, S)
  <2>1. \E h : Total(S) = h[S] /\ IsTotals(h, S)
    BY <1>4, <1>6, TotalUnfolds
  <2> QED
    BY <2>1
<1>8. ASSUME NEW T \in SUBSET S
      PROVE  h[T] = IF T = {} THEN 0 ELSE h[T \ {x(T)}] + x(T).count
  BY <1>7 DEF IsTotals
<1> HIDE DEF x
<1> DEFINE G == {n \in Nat : \A T \in SUBSET S : Cardinality(T) = n => h[T] = size[T]}
<1>9. \A T \in SUBSET S : IsFiniteSet(T) /\ Cardinality(T) \in Nat
  BY FS_Subset, FS_CardinalityType
<1>10. 0 \in G
  <2> SUFFICES ASSUME NEW T \in SUBSET S, Cardinality(T) = 0 PROVE h[T] = size[T]
    OBVIOUS
  <2>1. T = {}
    BY <1>9, FS_EmptySet
  <2> QED
    BY <1>3, <1>8, <2>1
<1>11. ASSUME NEW n \in G PROVE n + 1 \in G
  <2> SUFFICES ASSUME NEW T \in SUBSET S, Cardinality(T) = n + 1 PROVE h[T] = size[T]
    OBVIOUS
  <2>1. n \in Nat /\ n + 1 # 0
    OBVIOUS
  <2>2. T # {}
    BY <2>1, FS_EmptySet
  <2>3. x(T) \in T /\ T \ {x(T)} \in SUBSET S
    BY <1>1, <2>2
  <2>4. Cardinality(T \ {x(T)}) = n
    <3>1. Cardinality(T \ {x(T)}) = Cardinality(T) - 1
      BY <1>9, <2>3, FS_RemoveElement
    <3> QED
      BY <2>1, <3>1
  <2>5. h[T \ {x(T)}] = size[T \ {x(T)}]
    BY <2>3, <2>4
  <2>6. h[T] = h[T \ {x(T)}] + x(T).count
    BY <1>8, <2>2
  <2>7. size[T] = size[T \ {x(T)}] + x(T).count
    BY <1>2, <2>3
  <2> QED
    BY <2>5, <2>6, <2>7
<1>12. G = Nat
  <2>1. G \in SUBSET Nat
    OBVIOUS
  <2> HIDE DEF G
  <2> QED
    BY <1>10, <1>11, <2>1, AllNaturals
<1>13. h[S] = size[S]
  <2>1. Cardinality(S) \in G
    BY <1>9, <1>12
  <2> QED
    BY <2>1
<1> QED
  BY <1>5, <1>7, <1>13

-----------------------------------------------------------------------------
(* The rows of a network.                                                  *)

Users(edge, R) == {u \in R : edge \subseteq Entities(u)}

(* The other end, as EdgeRow has it.                                       *)
Target(edge) == CHOOSE y \in edge : y # Source(edge)

LEMMA EndsOf ==
  ASSUME NEW u \in Txns, NEW edge \in Relationships(u)
  PROVE  /\ edge = {Source(edge), Target(edge)}
         /\ Source(edge)[1] # Target(edge)[1]
         /\ edge \subseteq Entities(u)
<1> DEFINE C == Entity(u, "customer")
           I == Entity(u, "instrument")
           D == Entity(u, "device")
<1>1. edge = {I, D} \/ \E k \in EntityTypes \ {"customer"} : edge = {C, Entity(u, k)}
  BY DEF Relationships
<1>2. \A k : Entity(u, k)[1] = k
  BY DEF Entity
<1>3. C \in Entities(u) /\ I \in Entities(u) /\ D \in Entities(u)
      /\ \A k \in EntityTypes : Entity(u, k) \in Entities(u)
  BY DEF Entities, EntityTypes
<1>4. CASE edge = {I, D}
  <2>1. I[1] = "instrument" /\ D[1] = "device"
    BY <1>2
  <2> HIDE DEF C, I, D
  <2>2. Source(edge) = I
    BY <1>4, <2>1 DEF Source
  <2>3. Target(edge) = D
    <3>1. \A y \in edge : y # I <=> y = D
      BY <1>4, <2>1
    <3>2. D \in edge
      BY <1>4
    <3> QED
      BY <2>2, <3>1, <3>2 DEF Target
  <2> QED
    BY <1>3, <1>4, <2>1, <2>2, <2>3
<1>5. CASE \E k \in EntityTypes \ {"customer"} : edge = {C, Entity(u, k)}
  <2>1. PICK k \in EntityTypes \ {"customer"} : edge = {C, Entity(u, k)}
    BY <1>5
  <2> DEFINE E == Entity(u, k)
  <2>2. C[1] = "customer" /\ E[1] = k /\ k # "customer" /\ E \in Entities(u)
    BY <1>2, <1>3
  <2> HIDE DEF C, E
  <2>3. Source(edge) = C
    <3>1. edge = {C, E}
      BY <2>1 DEF E
    <3> QED
      BY <2>2, <3>1 DEF Source
  <2>4. edge = {C, E} /\ C # E
    BY <2>1, <2>2 DEF E
  <2>5. Target(edge) = E
    <3>1. \A y \in edge : y # C <=> y = E
      BY <2>4
    <3>2. E \in edge
      BY <2>4
    <3> QED
      BY <2>3, <3>1, <3>2 DEF Target
  <2> QED
    BY <1>3, <2>2, <2>3, <2>4, <2>5
<1> QED
  BY <1>1, <1>4, <1>5

(* Entities of one type are equal where two payments share them.           *)
LEMMA EntityOfType ==
  ASSUME NEW u, NEW x \in Entities(u)
  PROVE  x[1] \in EntityTypes /\ x = Entity(u, x[1])
  BY DEF Entities, Entity

(* Relationships are between types, so each payment has those of others.   *)
LEMMA SameRelationships ==
  ASSUME NEW u \in Txns, NEW v \in Txns, NEW k \in EntityTypes, NEW l \in EntityTypes,
         {Entity(u, k), Entity(u, l)} \in Relationships(u)
  PROVE  {Entity(v, k), Entity(v, l)} \in Relationships(v)
<1> DEFINE Pair(w, m, n) == {Entity(w, m), Entity(w, n)}
<1>1. \A w, m : Entity(w, m)[1] = m
  BY DEF Entity
<1>2. \A m, n : Pair(u, k, l) = Pair(u, m, n) => {k, l} = {m, n}
  BY <1>1
<1>3. \/ Pair(u, k, l) = Pair(u, "instrument", "device")
      \/ \E m \in EntityTypes \ {"customer"} : Pair(u, k, l) = Pair(u, "customer", m)
  BY DEF Relationships
<1>4. \/ {k, l} = {"instrument", "device"}
      \/ \E m \in EntityTypes \ {"customer"} : {k, l} = {"customer", m}
  BY <1>2, <1>3
<1>5. \A m, n : {k, l} = {m, n} => Pair(v, k, l) = Pair(v, m, n)
  OBVIOUS
<1>6. \/ Pair(v, k, l) = Pair(v, "instrument", "device")
      \/ \E m \in EntityTypes \ {"customer"} : Pair(v, k, l) = Pair(v, "customer", m)
  BY <1>4, <1>5
<1> QED
  BY <1>6 DEF Relationships

(* A row of x among the payments R.                                        *)
IsRow(row, x, R) ==
  LET edge == {row.source, row.target} IN
  /\ edge \in Incident(x, R) /\ row = EdgeRow(edge, Users(edge, R))
  /\ row.source[1] # row.target[1]
  /\ edge \subseteq Displayable
  /\ Users(edge, R) # {} /\ Users(edge, R) \subseteq Of(x, R)
  /\ row.count = Cardinality(Users(edge, R))
  /\ row.first = Earliest(Users(edge, R))
  /\ row.last = Latest(Users(edge, R))

LEMMA RowsAreRows ==
  ASSUME NEW R \in SUBSET Txns, NEW x
  PROVE  \A row \in EdgeRows(x, R) : IsRow(row, x, R)
<1> SUFFICES ASSUME NEW row \in EdgeRows(x, R) PROVE IsRow(row, x, R)
  OBVIOUS
<1>1. PICK edge \in Incident(x, R) : row = EdgeRow(edge, Users(edge, R))
  BY DEF EdgeRows, Users
<1>2. PICK u \in Of(x, R) : edge \in Relationships(u)
  BY <1>1 DEF Incident
<1>3. u \in R /\ u \in Txns /\ x \in edge
  BY <1>1, <1>2 DEF Of, Incident
<1>4. /\ edge = {Source(edge), Target(edge)}
      /\ Source(edge)[1] # Target(edge)[1]
      /\ edge \subseteq Entities(u)
  BY <1>2, <1>3, EndsOf
<1> DEFINE users == Users(edge, R)
<1>5. /\ row.source = Source(edge) /\ row.target = Target(edge)
      /\ row.count = Cardinality(users)
      /\ row.first = Earliest(users) /\ row.last = Latest(users)
  BY <1>1 DEF EdgeRow, Target
<1>6. {row.source, row.target} = edge
  BY <1>4, <1>5
<1>7. users # {} /\ users \subseteq Of(x, R)
  BY <1>3, <1>4 DEF Users, Of
<1>8. edge \subseteq Displayable
  BY <1>3, <1>4, EntitiesDisplayable
<1> QED
  BY <1>1, <1>4, <1>5, <1>6, <1>7, <1>8 DEF IsRow

(* Of finitely many payments there is a latest and an earliest.            *)
LEMMA LatestBounds ==
  ASSUME NEW H, IsFiniteSet(H), H # {}, H \subseteq Txns
  PROVE  /\ Latest(H) \in Nat
         /\ \A u \in H : Time[u] =< Latest(H)
         /\ \E u \in H : Latest(H) = Time[u]
<1>1. PICK u \in H : \A v \in H : Time[v] =< Time[u]
  BY LastCommitExists
<1>2. Latest(H) = Time[u]
  BY <1>1, LatestIs
<1> QED
  BY <1>1, <1>2, TimeAssumption

LEMMA EarliestBounds ==
  ASSUME NEW H, H # {}, H \subseteq Txns
  PROVE  /\ Earliest(H) \in Nat
         /\ \A u \in H : Earliest(H) =< Time[u]
         /\ \E u \in H : Earliest(H) = Time[u]
<1> DEFINE S == {Time[u] : u \in H}
<1>1. S \subseteq Nat /\ S # {}
  BY TimeAssumption
<1>2. PICK n \in S : \A m \in S : ~(<<m, n>> \in OpToRel(<, Nat))
  <2> HIDE DEF S
  <2> QED
    BY <1>1, NatLessThanWellFounded, WFMin
<1>3. n \in Nat /\ \A m \in S : m \in Nat /\ ~(m < n)
  BY <1>1, <1>2 DEF OpToRel
<1>4. \A u \in H : Time[u] \in S
  OBVIOUS
<1>5. \A u \in H : n =< Time[u]
  <2>1. \A u \in H : Time[u] \in Nat /\ ~(Time[u] < n)
    BY <1>3, <1>4
  <2>2. \A i \in Nat : ~(i < n) => n =< i
    BY <1>3
  <2> QED
    BY <2>1, <2>2
<1>6. PICK e : e = CHOOSE m \in S : \A u \in H : m =< Time[u]
  OBVIOUS
<1>7. e \in S /\ \A u \in H : e =< Time[u]
  <2>1. \E m \in S : \A u \in H : m =< Time[u]
    BY <1>2, <1>5
  <2> HIDE DEF S
  <2> QED
    BY <1>6, <2>1
<1>8. Earliest(H) = e
  BY <1>6 DEF Earliest
<1> QED
  BY <1>1, <1>7, <1>8

LEMMA RowsFinite ==
  ASSUME NEW R \in SUBSET Txns, IsFiniteSet(R), NEW x
  PROVE  IsFiniteSet(EdgeRows(x, R)) /\ IsFiniteSet(Of(x, R)) /\ Of(x, R) \subseteq R
<1> DEFINE sets == {Entities(u) : u \in R}
           f == [u \in R |-> Entities(u)]
           P == SUBSET (UNION sets)
           I == Incident(x, R)
           g == [edge \in I |-> EdgeRow(edge, Users(edge, R))]
<1>1. f \in Surjection(R, sets)
  BY DEF Surjection
<1>2. IsFiniteSet(sets)
  <2> HIDE DEF f, sets
  <2> QED
    BY <1>1, FS_Surjection
<1>3. \A S \in sets : IsFiniteSet(S)
  BY EntitiesDisplayable
<1>4. IsFiniteSet(P)
  <2> HIDE DEF sets
  <2> QED
    BY <1>2, <1>3, FS_UNION, FS_SUBSET
<1>5. I \subseteq P
  <2>1. \A u \in R : \A edge \in Relationships(u) : edge \subseteq Entities(u)
    BY EndsOf
  <2>2. \A u \in R : Entities(u) \subseteq UNION sets
    OBVIOUS
  <2> HIDE DEF sets
  <2> QED
    BY <2>1, <2>2 DEF Incident, Of
<1>6. IsFiniteSet(I)
  <2> HIDE DEF I, P
  <2> QED
    BY <1>4, <1>5, FS_Subset
<1>7. EdgeRows(x, R) = {EdgeRow(edge, Users(edge, R)) : edge \in I}
  BY DEF EdgeRows, Users
<1>8. g \in Surjection(I, EdgeRows(x, R))
  <2> HIDE DEF I
  <2> QED
    BY <1>7 DEF Surjection
<1>9. IsFiniteSet(EdgeRows(x, R))
  <2> HIDE DEF g, I
  <2> QED
    BY <1>6, <1>8, FS_Surjection
<1>10. Of(x, R) \subseteq R
  BY DEF Of
<1>11. IsFiniteSet(Of(x, R))
  BY <1>10, FS_Subset
<1> QED
  BY <1>9, <1>10, <1>11

(* The order of ByRecency.                                                 *)
MoreRecent(r, s) ==
  \/ r.last > s.last
  \/ /\ r.last = s.last
     /\ \/ Rank[r.source] < Rank[s.source]
        \/ r.source = s.source /\ Rank[r.target] < Rank[s.target]

LEMMA RecencyOrder ==
  ASSUME NEW R \in SUBSET Txns, IsFiniteSet(R), NEW x, NEW O,
         \A r, s \in EdgeRows(x, R) : <<r, s>> \in O <=> MoreRecent(r, s)
  PROVE  /\ StrictOrder(EdgeRows(x, R), O)
         /\ \A r \in EdgeRows(x, R) : r.last \in Nat
         /\ \A r, s \in EdgeRows(x, R) : <<r, s>> \in O => s.last =< r.last
<1> DEFINE all == EdgeRows(x, R)
<1>1. \A r \in all : IsRow(r, x, R)
  BY RowsAreRows
<1>2. ASSUME NEW r \in all
      PROVE  r.last \in Nat /\ r.source \in Displayable /\ r.target \in Displayable
  <2>1. IsRow(r, x, R)
    BY <1>1
  <2>2. r.source \in Displayable /\ r.target \in Displayable
    BY <2>1 DEF IsRow
  <2> DEFINE users == Users({r.source, r.target}, R)
  <2>3. users # {} /\ users \subseteq Of(x, R) /\ r.last = Latest(users)
    BY <2>1 DEF IsRow
  <2> HIDE DEF users
  <2>4. users \subseteq R /\ IsFiniteSet(users)
    BY <2>3, RowsFinite, FS_Subset
  <2>5. Latest(users) \in Nat
    BY <2>3, <2>4, LatestBounds
  <2> QED
    BY <2>2, <2>3, <2>5
<1>3. ASSUME NEW r \in all, NEW s \in all, r.source = s.source, r.target = s.target
      PROVE  r = s
  <2>1. r = EdgeRow({r.source, r.target}, Users({r.source, r.target}, R))
    BY <1>1 DEF IsRow
  <2>2. s = EdgeRow({s.source, s.target}, Users({s.source, s.target}, R))
    BY <1>1 DEF IsRow
  <2> QED
    BY <1>3, <2>1, <2>2
<1> HIDE DEF all
<1>4. ASSUME NEW r \in all, NEW s \in all
      PROVE  /\ Rank[r.source] \in Nat /\ Rank[r.target] \in Nat
             /\ Rank[r.source] = Rank[s.source] <=> r.source = s.source
             /\ Rank[r.target] = Rank[s.target] <=> r.target = s.target
  BY <1>2, IdAssumption
<1>5. \A r, s \in all : <<r, s>> \in O <=> MoreRecent(r, s)
  BY DEF all
<1>6. ASSUME NEW r \in all PROVE <<r, r>> \notin O
  BY <1>2, <1>4, <1>5 DEF MoreRecent
<1>7. ASSUME NEW q \in all, NEW r \in all, NEW s \in all, <<q, r>> \in O, <<r, s>> \in O
      PROVE  <<q, s>> \in O
  <2>1. MoreRecent(q, r) /\ MoreRecent(r, s)
    BY <1>5, <1>7
  <2>2. /\ q.last \in Nat /\ r.last \in Nat /\ s.last \in Nat
        /\ Rank[q.source] \in Nat /\ Rank[r.source] \in Nat /\ Rank[s.source] \in Nat
        /\ Rank[q.target] \in Nat /\ Rank[r.target] \in Nat /\ Rank[s.target] \in Nat
    BY <1>2, <1>4
  <2>3. MoreRecent(q, s)
    BY <2>1, <2>2 DEF MoreRecent
  <2> QED
    BY <1>5, <2>3
<1>8. ASSUME NEW r \in all, NEW s \in all, r # s
      PROVE  <<r, s>> \in O \/ <<s, r>> \in O
  <2>1. r.source # s.source \/ r.target # s.target
    BY <1>3, <1>8
  <2>2. /\ r.last \in Nat /\ s.last \in Nat
        /\ Rank[r.source] \in Nat /\ Rank[s.source] \in Nat
        /\ Rank[r.target] \in Nat /\ Rank[s.target] \in Nat
    BY <1>2, <1>4
  <2>3. r.source # s.source => Rank[r.source] # Rank[s.source]
    BY <1>4
  <2>4. r.target # s.target => Rank[r.target] # Rank[s.target]
    BY <1>4
  <2>5. MoreRecent(r, s) \/ MoreRecent(s, r)
    BY <2>1, <2>2, <2>3, <2>4 DEF MoreRecent
  <2> QED
    BY <1>5, <2>5
<1>9. StrictOrder(all, O)
  BY <1>6, <1>7, <1>8 DEF StrictOrder
<1>10. ASSUME NEW r \in all, NEW s \in all, <<r, s>> \in O PROVE s.last =< r.last
  BY <1>2, <1>5, <1>10 DEF MoreRecent
<1> QED
  BY <1>2, <1>9, <1>10 DEF all

(* What a network shows of the rows, and what it says of the others.       *)
NetworkOk(n, all) ==
  /\ n.edges \subseteq all
  /\ ~n.truncated => n.edges = all
  /\ \A hidden \in all \ n.edges, row \in n.edges : hidden.last =< row.last

LEMMA NetworkListsRows ==
  ASSUME NEW R \in SUBSET Txns, IsFiniteSet(R), NEW x
  PROVE  NetworkOk(Network(x, R), EdgeRows(x, R))
<1> DEFINE all == EdgeRows(x, R)
           O == {p \in all \X all : MoreRecent(p[1], p[2])}
           s == Ordered(all, O)
           N == Cardinality(all)
           e == FirstOf(MaxEntityEdges + 1, s)
           d == FirstOf(MaxEntityEdges, e)
           shown == FirstOf(MaxEntityNodes - 1, d)
<1>1. \A q, r \in all : <<q, r>> \in O <=> MoreRecent(q, r)
  OBVIOUS
<1>2. IsFiniteSet(all)
  BY RowsFinite
<1>3. ByRecency(all) = s
  <2> DEFINE counted == {<<Cardinality({y \in all :
                             \/ y.last > z.last
                             \/ /\ y.last = z.last
                                /\ \/ Rank[y.source] < Rank[z.source]
                                   \/ y.source = z.source /\ Rank[y.target] < Rank[z.target]}), z>> :
                           z \in all}
             places == {<<Position(all, O, z), z>> : z \in all}
  <2> HIDE DEF all
  <2>1. ByRecency(all) = [i \in 1 .. N |-> (CHOOSE p \in counted : p[1] = i - 1)[2]]
    BY DEF ByRecency, Sorted
  <2>2. s = [i \in 1 .. N |-> (CHOOSE p \in places : p[1] = i - 1)[2]]
    BY DEF Ordered
  <2>3. counted = places
    <3>1. \A z \in all : {y \in all :
                            \/ y.last > z.last
                            \/ /\ y.last = z.last
                               /\ \/ Rank[y.source] < Rank[z.source]
                                  \/ y.source = z.source /\ Rank[y.target] < Rank[z.target]}
                           = {y \in all : <<y, z>> \in O}
      BY <1>1 DEF MoreRecent
    <3> QED
      BY <3>1 DEF Position
  <2> HIDE DEF counted, places, s
  <2> QED
    BY <2>1, <2>2, <2>3
<1> HIDE DEF O
<1>4. /\ StrictOrder(all, O) /\ \A r \in all : r.last \in Nat
      /\ \A q, r \in all : <<q, r>> \in O => r.last =< q.last
  BY <1>1, RecencyOrder
<1> HIDE DEF all
<1>5. /\ Lists(s, all) /\ Len(s) = N
      /\ \A i, j \in 1 .. N : i < j => <<s[i], s[j]>> \in O
  BY <1>2, <1>4, OrderedLists
<1> HIDE DEF s, N
<1>6. /\ s \in Seq(all) /\ N \in Nat
      /\ \A i \in 1 .. N : s[i] \in all
      /\ \A r \in all : \E i \in 1 .. N : s[i] = r
  BY <1>5 DEF Lists
<1>7. MaxEntityEdges \in Nat /\ MaxEntityEdges + 1 \in Nat /\ MaxEntityNodes - 1 \in Nat
  BY ReadAssumption
<1>8. /\ e \in Seq(all) /\ Len(e) = (IF MaxEntityEdges + 1 < N THEN MaxEntityEdges + 1 ELSE N)
      /\ \A i \in 1 .. Len(e) : i \in 1 .. N /\ e[i] = s[i]
  BY <1>5, <1>6, <1>7, FirstOfSequence
<1> HIDE DEF e
<1>9. /\ d \in Seq(all) /\ Len(d) = (IF MaxEntityEdges < Len(e) THEN MaxEntityEdges ELSE Len(e))
      /\ \A i \in 1 .. Len(d) : i \in 1 .. Len(e) /\ d[i] = e[i]
  BY <1>7, <1>8, FirstOfSequence
<1> HIDE DEF d
<1>10. /\ shown \in Seq(all)
       /\ Len(shown) = (IF MaxEntityNodes - 1 < Len(d) THEN MaxEntityNodes - 1 ELSE Len(d))
       /\ \A i \in 1 .. Len(shown) : i \in 1 .. Len(d) /\ shown[i] = d[i]
  BY <1>7, <1>9, FirstOfSequence
<1>11. Network(x, R) = [edges |-> ToSet(shown), truncated |-> Len(e) > Len(shown)]
  BY <1>3 DEF Network, shown, d, e, all
<1> HIDE DEF shown
<1> DEFINE m == Len(shown)
<1>12. /\ m \in Nat /\ m =< N
       /\ \A i \in 1 .. m : i \in 1 .. N /\ shown[i] = s[i]
       /\ ToSet(shown) = {shown[i] : i \in 1 .. m}
  <2>1. m \in Nat /\ m =< N
    BY <1>6, <1>7, <1>8, <1>9, <1>10
  <2>2. \A i \in 1 .. m : i \in 1 .. N /\ shown[i] = s[i]
    BY <1>8, <1>9, <1>10
  <2>3. ToSet(shown) = {shown[i] : i \in 1 .. m}
    BY <1>10 DEF ToSet
  <2> QED
    BY <2>1, <2>2, <2>3
<1>13. ~(Len(e) > m) => m = N
  BY <1>6, <1>7, <1>8, <1>9, <1>10
<1> HIDE DEF m
<1>14. ToSet(shown) \subseteq all
  BY <1>6, <1>12
<1>15. m = N => ToSet(shown) = all
  <2> SUFFICES ASSUME m = N PROVE all \subseteq ToSet(shown)
    BY <1>14
  <2>1. \A i \in 1 .. N : shown[i] = s[i] /\ shown[i] \in ToSet(shown)
    BY <1>12
  <2> QED
    BY <1>6, <2>1
<1>16. ASSUME NEW hidden \in all \ ToSet(shown), NEW row \in ToSet(shown)
       PROVE  hidden.last =< row.last
  <2>1. PICK j \in 1 .. N : s[j] = hidden
    BY <1>6
  <2>2. PICK i \in 1 .. m : shown[i] = row /\ s[i] = row /\ i \in 1 .. N
    BY <1>12
  <2>3. i < j
    <3>1. j \notin 1 .. m
      BY <1>12, <2>1
    <3> QED
      BY <1>6, <1>12, <2>2, <3>1
  <2>4. <<row, hidden>> \in O
    BY <1>5, <2>1, <2>2, <2>3
  <2> QED
    BY <1>4, <1>14, <2>4
<1>17. /\ Network(x, R).edges = ToSet(shown)
       /\ Network(x, R).truncated = (Len(e) > m)
  BY <1>11 DEF m
<1>18. \A hidden \in all \ ToSet(shown), row \in ToSet(shown) : hidden.last =< row.last
  BY <1>16
<1> QED
  BY <1>13, <1>14, <1>15, <1>17, <1>18 DEF NetworkOk, all

(* The rows about entities of type k, and how often they were observed.    *)
OfType(k, rows) == {row \in rows : k \in {row.source[1], row.target[1]}}

LEMMA RowOfType ==
  ASSUME NEW R \in SUBSET Txns, NEW x, NEW k, k # x[1],
         NEW r \in OfType(k, EdgeRows(x, R))
  PROVE  /\ \A u \in Users({r.source, r.target}, R) : {r.source, r.target} = {x, Entity(u, k)}
         /\ \E w \in Of(x, R) : {x, Entity(w, k)} \in Relationships(w)
<1> DEFINE edge == {r.source, r.target}
<1>1. IsRow(r, x, R)
  BY RowsAreRows DEF OfType
<1>2. /\ edge \in Incident(x, R) /\ r.source[1] # r.target[1]
      /\ r.source[1] = k \/ r.target[1] = k
  BY <1>1 DEF IsRow, OfType
<1>3. x \in edge /\ \E w \in Of(x, R) : edge \in Relationships(w)
  BY <1>2 DEF Incident
<1>4. PICK y : edge = {x, y} /\ y[1] = k
  <2>1. CASE x = r.source
    BY <1>2, <2>1
  <2>2. CASE x = r.target
    BY <1>2, <2>2
  <2> QED
    BY <1>3, <2>1, <2>2
<1> HIDE DEF edge
<1>5. ASSUME NEW u, edge \subseteq Entities(u) PROVE edge = {x, Entity(u, k)}
  <2>1. y \in Entities(u)
    BY <1>4, <1>5
  <2>2. y = Entity(u, k)
    BY <1>4, <2>1, EntityOfType
  <2> QED
    BY <1>4, <2>2
<1>6. \A u \in Users(edge, R) : edge = {x, Entity(u, k)}
  BY <1>5 DEF Users
<1>7. PICK w \in Of(x, R) : edge \in Relationships(w)
  BY <1>3
<1>8. edge \subseteq Entities(w)
  <2>1. w \in Txns
    BY DEF Of
  <2> QED
    BY <1>7, <2>1, EndsOf
<1>9. {x, Entity(w, k)} \in Relationships(w)
  BY <1>5, <1>7, <1>8
<1> QED
  BY <1>6, <1>9 DEF edge

LEMMA RowFor ==
  ASSUME NEW R \in SUBSET Txns, NEW x, NEW k \in EntityTypes, k # x[1],
         NEW w \in Of(x, R), {x, Entity(w, k)} \in Relationships(w),
         NEW v \in Of(x, R)
  PROVE  \E r \in OfType(k, EdgeRows(x, R)) : v \in Users({r.source, r.target}, R)
<1> DEFINE edge == {x, Entity(v, k)}
<1>1. w \in Txns /\ v \in Txns /\ v \in R /\ x \in Entities(w) /\ x \in Entities(v)
  BY DEF Of
<1>2. x[1] \in EntityTypes /\ x = Entity(w, x[1]) /\ x = Entity(v, x[1])
  BY <1>1, EntityOfType
<1>3. edge \in Relationships(v)
  <2>1. {Entity(w, x[1]), Entity(w, k)} \in Relationships(w)
    BY <1>2
  <2>2. {Entity(v, x[1]), Entity(v, k)} \in Relationships(v)
    BY <1>1, <1>2, <2>1, SameRelationships
  <2> QED
    BY <1>2, <2>2
<1>4. edge \in Incident(x, R)
  BY <1>3 DEF Incident
<1>5. /\ edge = {Source(edge), Target(edge)}
      /\ edge \subseteq Entities(v)
  BY <1>1, <1>3, EndsOf
<1>6. Entity(v, k)[1] = k /\ Entity(v, k) \in edge
  BY DEF Entity
<1> HIDE DEF edge
<1> DEFINE r == EdgeRow(edge, Users(edge, R))
<1>7. r \in EdgeRows(x, R)
  BY <1>4 DEF EdgeRows, Users
<1>8. r.source = Source(edge) /\ r.target = Target(edge)
  BY DEF EdgeRow, Target
<1> HIDE DEF r
<1>9. {r.source, r.target} = edge
  BY <1>5, <1>8
<1>10. k \in {r.source[1], r.target[1]}
  BY <1>6, <1>9
<1>11. v \in Users(edge, R)
  BY <1>1, <1>5 DEF Users
<1> QED
  BY <1>7, <1>9, <1>10, <1>11 DEF OfType

LEMMA TotalsOk ==
  ASSUME NEW R \in SUBSET Txns, IsFiniteSet(R), NEW x, NEW k \in EntityTypes, k # x[1],
         NEW rows \in SUBSET EdgeRows(x, R)
  PROVE  /\ Total(OfType(k, rows)) \in Nat
         /\ Total(OfType(k, rows)) =< Cardinality(Of(x, R))
         /\ rows = EdgeRows(x, R) =>
              Total(OfType(k, rows)) \in {0, Cardinality(Of(x, R))}
<1> DEFINE S == OfType(k, rows)
           B == Of(x, R)
           F == [r \in S |-> Users({r.source, r.target}, R)]
<1>1. S \subseteq EdgeRows(x, R) /\ S \subseteq OfType(k, EdgeRows(x, R))
  BY DEF OfType
<1>2. IsFiniteSet(S) /\ IsFiniteSet(B)
  <2>1. IsFiniteSet(EdgeRows(x, R)) /\ IsFiniteSet(B)
    BY RowsFinite
  <2> HIDE DEF S, B
  <2> QED
    BY <1>1, <2>1, FS_Subset
<1>3. \A r \in S : IsRow(r, x, R)
  BY <1>1, RowsAreRows
<1>4. \A r \in S : \A u \in Users({r.source, r.target}, R) :
         {r.source, r.target} = {x, Entity(u, k)}
  <2>1. \A r \in OfType(k, EdgeRows(x, R)) : \A u \in Users({r.source, r.target}, R) :
          {r.source, r.target} = {x, Entity(u, k)}
    <3> TAKE r \in OfType(k, EdgeRows(x, R))
    <3>1. /\ \A u \in Users({r.source, r.target}, R) :
               {r.source, r.target} = {x, Entity(u, k)}
          /\ \E w \in Of(x, R) : {x, Entity(w, k)} \in Relationships(w)
      BY RowOfType
    <3> QED
      BY <3>1
  <2> QED
    BY <1>1, <2>1
<1>5. \A r \in S : F[r] = Users({r.source, r.target}, R)
  OBVIOUS
<1>6. F \in [S -> SUBSET B]
  BY <1>3 DEF IsRow
<1> HIDE DEF F, S, B
<1>7. \A r \in S : r.count = Cardinality(F[r])
  BY <1>3, <1>5 DEF IsRow
<1>8. ASSUME NEW r \in S, NEW q \in S, r # q PROVE F[r] \cap F[q] = {}
  <2> SUFFICES ASSUME NEW u \in F[r], u \in F[q] PROVE FALSE
    OBVIOUS
  <2>0. /\ u \in Users({r.source, r.target}, R)
        /\ u \in Users({q.source, q.target}, R)
    BY <1>5
  <2>1. {r.source, r.target} = {q.source, q.target}
    <3>1. {r.source, r.target} = {x, Entity(u, k)}
      BY <1>4, <2>0
    <3>2. {q.source, q.target} = {x, Entity(u, k)}
      BY <1>4, <2>0
    <3> QED
      BY <3>1, <3>2
  <2>2. r = EdgeRow({r.source, r.target}, Users({r.source, r.target}, R))
    BY <1>3 DEF IsRow
  <2>3. q = EdgeRow({q.source, q.target}, Users({q.source, q.target}, R))
    BY <1>3 DEF IsRow
  <2>4. r = q
    BY <2>1, <2>2, <2>3
  <2> QED
    BY <1>8, <2>4
<1>9. Total(S) = Cardinality(Union(F, S))
  BY <1>2, <1>6, <1>7, <1>8, TotalIsSize
<1>10. Union(F, S) \subseteq B
  BY <1>6 DEF Union
<1>11. /\ Cardinality(Union(F, S)) \in Nat
       /\ Cardinality(Union(F, S)) =< Cardinality(B)
  BY <1>2, <1>10, FS_Subset, FS_CardinalityType
<1>12. CASE S = {}
  <2>1. Union(F, S) = {}
    BY <1>12 DEF Union
  <2>2. Total(S) = 0
    BY <1>9, <2>1, FS_EmptySet
  <2> QED
    BY <1>9, <1>11, <2>2 DEF S, B
<1>13. CASE S # {}
  <2>1. ASSUME rows = EdgeRows(x, R) PROVE Total(S) = Cardinality(B)
    <3>1. PICK r \in S : TRUE
      BY <1>13
    <3>2. PICK w \in B : {x, Entity(w, k)} \in Relationships(w)
      BY <1>1, RowOfType DEF B
    <3>3. \A v \in B : \E q \in S : v \in Users({q.source, q.target}, R)
      BY <2>1, <3>2, RowFor DEF B, S
    <3>4. B \subseteq Union(F, S)
      BY <1>5, <3>3 DEF Union
    <3>5. B = Union(F, S)
      BY <1>10, <3>4
    <3> QED
      BY <1>9, <3>5
  <2> QED
    BY <1>9, <1>11, <2>1 DEF S, B
<1> QED
  BY <1>12, <1>13

-----------------------------------------------------------------------------
(* Entity page and summary.                                                *)

NetworkPart(x, at) ==
  /\ page.of = x /\ page.at = at /\ at \in 0 .. Len(log)
  /\ Of(x, Known(at)) # {}
  /\ page.network = Network(x, Known(at))

StatisticsPart(x, at) ==
  /\ page.countedAt \in at .. Len(log)
  /\ LET mine == Of(x, Known(page.countedAt)) IN
     /\ page.count = Cardinality(mine)
     /\ page.first = Earliest(mine) /\ page.last = Latest(mine)

(* What each SELECT of an entity page saw, and when.                       *)
EntityPageOk ==
  LET x == page.of IN
  /\ page.pc = "edges" => Of(x, Committed) # {}
  /\ page.pc = "statistics" => NetworkPart(x, page.at)
  /\ page.pc = "recent" => NetworkPart(x, page.at) /\ StatisticsPart(x, page.at)
  /\ page.pc = "done" /\ page.view = "entity" =>
       /\ NetworkPart(x, page.at) /\ StatisticsPart(x, page.at)
       /\ page.recent = Newest(MaxRecentTransactions, Of(x, Committed))

(* Decisions are about committed payments, which were counted before.      *)
SummaryOk ==
  /\ decided \subseteq Committed
  /\ page.pc = "decisions" => page.total = page.at /\ page.at \in 0 .. Len(log)
  /\ page.pc = "done" /\ page.view = "summary" =>
       /\ page.total = page.at /\ page.at \in 0 .. Len(log)
       /\ page.assessed = Cardinality(decided)

SInv ==
  /\ log \in Seq(Txns)
  /\ DOMAIN features \subseteq Committed /\ DOMAIN graphs \subseteq Committed
  /\ EntityPageOk /\ SummaryOk

LEMMA Committing ==
  ASSUME log \in Seq(Txns)
  PROVE  /\ IsFiniteSet(Committed) /\ Committed \subseteq Txns
         /\ Cardinality(Committed) \in Nat /\ Cardinality(Committed) =< Len(log)
         /\ \A a, b \in 0 .. Len(log) : a =< b => Known(a) \subseteq Known(b)
<1>1. IsFiniteSet(Committed) /\ Committed \subseteq Txns
  BY CommittedFinite
<1>2. Committed = Leading(log, Len(log)) /\ Len(log) \in Nat
  BY DEF Committed, ToSet, Leading
<1>3. Cardinality(Committed) \in Nat /\ Cardinality(Committed) =< Len(log)
  BY <1>2, LeadingBounded
<1>4. ASSUME NEW a \in 0 .. Len(log), NEW b \in 0 .. Len(log), a =< b
      PROVE  Known(a) \subseteq Known(b)
  <2>1. SubSeq(log, 1, a) = [i \in 1 .. a |-> log[i]] /\ a \in Nat
    OBVIOUS
  <2>2. SubSeq(log, 1, b) = [i \in 1 .. b |-> log[i]] /\ b \in Nat
    OBVIOUS
  <2>3. Known(a) = {log[i] : i \in 1 .. a}
    BY <2>1 DEF Known, ToSet
  <2>4. Known(b) = {log[i] : i \in 1 .. b}
    BY <2>2 DEF Known, ToSet
  <2>5. \A i \in 1 .. a : i \in 1 .. b
    BY <1>4, <2>1, <2>2
  <2> QED
    BY <2>3, <2>4, <2>5
<1> QED
  BY <1>1, <1>3, <1>4

(* The statistics are of the payments of the rows and of later ones.       *)
LEMMA EntityPagesHonest ==
  ASSUME SInv, page.pc = "done", page.view = "entity"
  PROVE  EntityPageHonest
<1> DEFINE x == page.of
           R == Known(page.at)
           C == Known(page.countedAt)
           rows == page.network.edges
           all == EdgeRows(x, R)
<1>1. /\ NetworkPart(x, page.at) /\ StatisticsPart(x, page.at)
      /\ page.recent = Newest(MaxRecentTransactions, Of(x, Committed))
      /\ log \in Seq(Txns)
  BY DEF SInv, EntityPageOk
<1>2. /\ page.at \in 0 .. Len(log) /\ page.countedAt \in 0 .. Len(log)
      /\ page.at =< page.countedAt
  <2>1. page.at \in 0 .. Len(log) /\ page.countedAt \in page.at .. Len(log)
    BY <1>1 DEF NetworkPart, StatisticsPart
  <2>2. Len(log) \in Nat
    BY <1>1
  <2> QED
    BY <2>1, <2>2
<1>3. /\ R \subseteq C /\ C \subseteq Committed /\ R \subseteq Txns /\ C \subseteq Txns
      /\ IsFiniteSet(R) /\ IsFiniteSet(C) /\ IsFiniteSet(Committed) /\ Committed \subseteq Txns
  <2>1. R \subseteq C
    BY <1>1, <1>2, Committing
  <2>2. IsFiniteSet(Committed) /\ Committed \subseteq Txns
    BY <1>1, Committing
  <2>3. C \subseteq Committed
    BY <1>1, <1>2, KnownAll
  <2> QED
    BY <2>1, <2>2, <2>3, FS_Subset
<1>4. /\ Of(x, R) # {} /\ page.network = Network(x, R)
      /\ page.count = Cardinality(Of(x, C))
      /\ page.first = Earliest(Of(x, C)) /\ page.last = Latest(Of(x, C))
  BY <1>1 DEF NetworkPart, StatisticsPart
<1>5. page.at = page.countedAt => R = C
  OBVIOUS
<1> HIDE DEF x, R, C
<1>6. /\ Of(x, R) \subseteq Of(x, C) /\ Of(x, C) \subseteq Of(x, Committed)
      /\ IsFiniteSet(Of(x, R)) /\ IsFiniteSet(Of(x, C)) /\ IsFiniteSet(Of(x, Committed))
      /\ Of(x, C) \subseteq Txns /\ Of(x, Committed) \subseteq Txns
  <2>1. Of(x, R) \subseteq Of(x, C) /\ Of(x, C) \subseteq Of(x, Committed)
    BY <1>3 DEF Of
  <2>2. Of(x, Committed) \subseteq Committed
    BY DEF Of
  <2> QED
    BY <1>3, <2>1, <2>2, FS_Subset
<1>7. NetworkOk(page.network, all)
  BY <1>3, <1>4, NetworkListsRows
<1>8. /\ Cardinality(Of(x, R)) \in Nat /\ Cardinality(Of(x, C)) \in Nat
      /\ Cardinality(Of(x, Committed)) \in Nat
      /\ Cardinality(Of(x, R)) =< Cardinality(Of(x, C))
      /\ Cardinality(Of(x, C)) =< Cardinality(Of(x, Committed))
  BY <1>6, FS_Subset, FS_CardinalityType
<1>9. /\ \A u \in Of(x, C) : /\ Earliest(Of(x, C)) =< Time[u] /\ Time[u] =< Latest(Of(x, C))
                             /\ Time[u] \in Nat
      /\ Earliest(Of(x, C)) \in Nat /\ Latest(Of(x, C)) \in Nat
  <2>1. Of(x, C) # {}
    BY <1>4, <1>6
  <2> QED
    BY <1>6, <2>1, LatestBounds, EarliestBounds, TimeAssumption
<1>10. rows \subseteq all
  BY <1>7 DEF NetworkOk
<1>11. ASSUME NEW row \in rows PROVE page.first =< row.first /\ row.last =< page.last
  <2> DEFINE users == Users({row.source, row.target}, R)
  <2>1. IsRow(row, x, R)
    BY <1>3, <1>10, RowsAreRows
  <2>2. /\ users # {} /\ users \subseteq Of(x, R)
        /\ row.first = Earliest(users) /\ row.last = Latest(users)
    BY <2>1 DEF IsRow
  <2> HIDE DEF users
  <2>3. users \subseteq Of(x, C) /\ users \subseteq Txns /\ IsFiniteSet(users)
    BY <1>6, <2>2, FS_Subset
  <2>4. PICK u \in users : Latest(users) = Time[u]
    BY <2>2, <2>3, LatestBounds
  <2>5. PICK v \in users : Earliest(users) = Time[v]
    BY <2>2, <2>3, EarliestBounds
  <2> QED
    BY <1>4, <1>9, <2>2, <2>3, <2>4, <2>5
<1>12. ASSUME NEW k \in EntityTypes \ {x[1]}
       PROVE  /\ Total(OfType(k, rows)) =< page.count
              /\ ~page.network.truncated /\ page.at = page.countedAt
                   => Total(OfType(k, rows)) \in {0, page.count}
  <2>1. /\ Total(OfType(k, rows)) \in Nat
        /\ Total(OfType(k, rows)) =< Cardinality(Of(x, R))
        /\ rows = all => Total(OfType(k, rows)) \in {0, Cardinality(Of(x, R))}
    <3>1. k # x[1] /\ rows \in SUBSET all
      BY <1>10
    <3> QED
      BY <1>3, <3>1, TotalsOk
  <2>2. ~page.network.truncated => rows = all
    BY <1>7 DEF NetworkOk
  <2>3. Total(OfType(k, rows)) =< page.count
    BY <1>4, <1>8, <2>1
  <2> QED
    BY <1>4, <1>5, <2>1, <2>2, <2>3
<1>13. Len(page.recent) < page.count => Len(page.recent) = MaxRecentTransactions
  <2> DEFINE s == page.recent
             H == Of(x, Committed)
  <2>1. MaxRecentTransactions \in Nat
    BY ReadAssumption
  <2>2. ListsNewest(s, MaxRecentTransactions, H)
    BY <1>1, <1>6, <2>1, NewestListed DEF x
  <2> HIDE DEF s, H
  <2>3. /\ Len(s) \in Nat /\ Len(s) =< MaxRecentTransactions
        /\ Len(s) < MaxRecentTransactions => \A u \in H : \E i \in 1 .. Len(s) : s[i] = u
    BY <2>2 DEF ListsNewest
  <2>4. ASSUME Len(s) < MaxRecentTransactions PROVE Cardinality(H) =< Len(s)
    <3>1. H \subseteq Leading(s, Len(s))
      BY <2>3, <2>4 DEF Leading
    <3>2. /\ IsFiniteSet(Leading(s, Len(s))) /\ Cardinality(Leading(s, Len(s))) \in Nat
          /\ Cardinality(Leading(s, Len(s))) =< Len(s)
      BY <2>3, LeadingBounded
    <3>3. Cardinality(H) =< Cardinality(Leading(s, Len(s)))
      BY <3>1, <3>2, FS_Subset
    <3>4. Cardinality(H) \in Nat
      BY <1>8 DEF H
    <3> QED
      BY <2>3, <3>2, <3>3, <3>4
  <2>5. page.count \in Nat /\ page.count =< Cardinality(H) /\ Cardinality(H) \in Nat
    BY <1>4, <1>8 DEF H
  <2> QED
    BY <2>1, <2>3, <2>4, <2>5 DEF s
<1>14. /\ ~page.network.truncated => rows = all
       /\ \A hidden \in all \ rows, row \in rows : hidden.last =< row.last
  BY <1>7 DEF NetworkOk
<1>15. \A k \in EntityTypes \ {x[1]} :
         /\ Total(OfType(k, rows)) =< page.count
         /\ ~page.network.truncated /\ page.at = page.countedAt
              => Total(OfType(k, rows)) \in {0, page.count}
  BY <1>12
<1>16. \A row \in rows : page.first =< row.first /\ row.last =< page.last
  BY <1>11
<1> QED
  BY <1>10, <1>13, <1>14, <1>15, <1>16 DEF EntityPageHonest, Total, OfType, x, R

LEMMA SummariesHonest ==
  ASSUME SInv, page.pc = "done", page.view = "summary"
  PROVE  SummaryHonest
<1>1. /\ decided \subseteq Committed /\ page.total = page.at /\ page.at \in 0 .. Len(log)
      /\ page.assessed = Cardinality(decided) /\ log \in Seq(Txns)
  BY DEF SInv, SummaryOk
<1>2. IsFiniteSet(Committed) /\ Cardinality(Committed) \in Nat /\ Cardinality(Committed) =< Len(log)
  BY <1>1, Committing
<1>3. Cardinality(decided) \in Nat /\ Cardinality(decided) =< Cardinality(Committed)
  BY <1>1, <1>2, FS_Subset, FS_CardinalityType
<1>4. Len(log) \in Nat /\ page.at \in Nat
  BY <1>1
<1> QED
  BY <1>1, <1>2, <1>3, <1>4 DEF SummaryHonest

LEMMA InitSInv == Init => SInv
<1> SUFFICES ASSUME Init PROVE SInv
  OBVIOUS
<1>1. /\ log = <<>> /\ page.pc = "done" /\ page.view = "none"
      /\ DOMAIN features = {} /\ DOMAIN graphs = {} /\ decided = {}
  BY DEF Init, Closed
<1>2. log \in Seq(Txns)
  BY <1>1
<1> QED
  BY <1>1, <1>2 DEF SInv, EntityPageOk, SummaryOk

(* A page that is being put together keeps what its SELECTs saw.           *)
LEMMA IngestSInv ==
  ASSUME SInv, NEW t \in Txns, Ingest(t)
  PROVE  SInv'
<1>1. /\ log \in Seq(Txns) /\ log' = Append(log, t) /\ Meanwhile
      /\ features' = features /\ graphs' = graphs /\ decided' = decided /\ page' = page
  BY DEF SInv, Ingest
<1>2. /\ \A n \in 0 .. Len(log) : Known(n)' = Known(n) /\ n \in 0 .. Len(log')
      /\ Committed' = Committed \cup {t} /\ Len(log') = Len(log) + 1
  BY <1>1, KnownStays
<1>3. log' \in Seq(Txns) /\ Len(log) \in Nat
  BY <1>1
<1>4. \A n \in 0 .. Len(log) : ToSet(SubSeq(log', 1, n)) = ToSet(SubSeq(log, 1, n))
  BY <1>2 DEF Known
<1>5. NetworkPart(page.of, page.at) => NetworkPart(page.of, page.at)'
  BY <1>1, <1>2, <1>4 DEF NetworkPart, Known
<1>6. NetworkPart(page.of, page.at) /\ StatisticsPart(page.of, page.at)
        => StatisticsPart(page.of, page.at)'
  <2> SUFFICES ASSUME NetworkPart(page.of, page.at), StatisticsPart(page.of, page.at)
               PROVE  StatisticsPart(page.of, page.at)'
    OBVIOUS
  <2>1. page.at \in 0 .. Len(log) /\ page.countedAt \in page.at .. Len(log)
    BY DEF NetworkPart, StatisticsPart
  <2>2. page.countedAt \in 0 .. Len(log) /\ page.countedAt \in page.at .. Len(log')
    BY <1>2, <1>3, <2>1
  <2>3. ToSet(SubSeq(log', 1, page.countedAt)) = ToSet(SubSeq(log, 1, page.countedAt))
    BY <1>4, <2>2
  <2> QED
    BY <1>1, <2>2, <2>3 DEF StatisticsPart, Known
<1>7. page.pc = "done" => page.view = "none"
  BY <1>1, MeanwhileNoView
<1>8. Of(page.of, Committed) # {} => Of(page'.of, Committed') # {}
  BY <1>1, <1>2 DEF Of
<1>9. EntityPageOk'
  BY <1>1, <1>5, <1>6, <1>7, <1>8 DEF SInv, EntityPageOk
<1>10. SummaryOk'
  BY <1>1, <1>2, <1>7 DEF SInv, SummaryOk
<1> QED
  BY <1>1, <1>2, <1>3, <1>9, <1>10 DEF SInv

LEMMA SnapshotSInv ==
  ASSUME SInv, NEW t, SnapshotFeatures(t) \/ SnapshotGraph(t) \/ Decide(t)
  PROVE  SInv'
<1>1. /\ log' = log /\ page' = page /\ Meanwhile
  BY DEF SnapshotFeatures, SnapshotGraph, Decide
<1>2. page.pc = "done" => page.view = "none"
  BY <1>1, MeanwhileNoView
<1>3. Committed' = Committed /\ \A n : Known(n)' = Known(n)
  BY <1>1 DEF Committed, Known
<1>4. EntityPageOk'
  <2>1. NetworkPart(page.of, page.at) => NetworkPart(page.of, page.at)'
    BY <1>1 DEF NetworkPart, Known
  <2>2. StatisticsPart(page.of, page.at) => StatisticsPart(page.of, page.at)'
    BY <1>1 DEF StatisticsPart, Known
  <2> QED
    BY <1>1, <1>2, <1>3, <2>1, <2>2 DEF SInv, EntityPageOk
<1>5. /\ DOMAIN features' \subseteq Committed /\ DOMAIN graphs' \subseteq Committed
      /\ decided' \subseteq Committed
  <2>1. /\ DOMAIN features \subseteq Committed /\ DOMAIN graphs \subseteq Committed
        /\ decided \subseteq Committed
    BY DEF SInv, SummaryOk
  <2>2. CASE SnapshotFeatures(t)
    <3>1. DOMAIN features' = DOMAIN features \cup {t} /\ t \in Committed
          /\ graphs' = graphs /\ decided' = decided
      BY <2>2 DEF SnapshotFeatures, Insert
    <3> QED
      BY <2>1, <3>1
  <2>3. CASE SnapshotGraph(t)
    <3>1. DOMAIN graphs' = DOMAIN graphs \cup {t} /\ t \in DOMAIN features
          /\ features' = features /\ decided' = decided
      BY <2>3 DEF SnapshotGraph, Insert
    <3> QED
      BY <2>1, <3>1
  <2>4. CASE Decide(t)
    BY <2>1, <2>4 DEF Decide
  <2> QED
    BY <2>2, <2>3, <2>4
<1>6. SummaryOk'
  BY <1>1, <1>2, <1>3, <1>5 DEF SInv, SummaryOk
<1> QED
  BY <1>1, <1>3, <1>4, <1>5, <1>6 DEF SInv

(* A step of the pages leaves the database as it is.                       *)
LEMMA ReadSInv ==
  ASSUME SInv, UNCHANGED database,
         EntityPageOk',
         page'.pc = "decisions" => page'.total = page'.at /\ page'.at \in 0 .. Len(log),
         page'.pc = "done" /\ page'.view = "summary" =>
           /\ page'.total = page'.at /\ page'.at \in 0 .. Len(log)
           /\ page'.assessed = Cardinality(decided)
  PROVE  SInv'
<1>1. log' = log /\ features' = features /\ graphs' = graphs /\ decided' = decided
  BY DEF database
<1>2. Committed' = Committed
  BY <1>1 DEF Committed
<1>3. SummaryOk'
  BY <1>1, <1>2 DEF SInv, SummaryOk
<1> QED
  BY <1>1, <1>2, <1>3 DEF SInv

LEMMA OtherPageSInv ==
  ASSUME SInv, UNCHANGED database,
         page'.pc \notin {"edges", "statistics", "recent", "decisions"},
         ~(page'.pc = "done" /\ page'.view \in {"entity", "summary"})
  PROVE  SInv'
<1>1. EntityPageOk'
  BY DEF EntityPageOk
<1> QED
  BY <1>1, ReadSInv

LEMMA OpenEntitySInv ==
  ASSUME SInv, NEW x, OpenEntity(x)
  PROVE  SInv'
<1>0. UNCHANGED database
  BY DEF OpenEntity, Open
<1>1. CASE x \in UNION {Entities(t) : t \in Committed} /\ Open("entity", x, "edges")
  <2>1. page'.pc = "edges" /\ page'.of = x
    BY <1>1 DEF Open
  <2>2. Of(x, Committed) # {}
    BY <1>1 DEF Of
  <2>3. Committed' = Committed
    BY <1>0 DEF database, Committed
  <2>4. EntityPageOk'
    BY <2>1, <2>2, <2>3 DEF EntityPageOk
  <2> QED
    BY <1>0, <2>1, <2>4, ReadSInv
<1>2. CASE Fail("404")
  <2>1. page'.pc = "done" /\ page'.view = "404"
    BY <1>2 DEF Fail
  <2> QED
    BY <1>0, <2>1, OtherPageSInv
<1> QED
  BY <1>1, <1>2 DEF OpenEntity

LEMMA ReadEdgesSInv ==
  ASSUME SInv, ReadEdges
  PROVE  SInv'
<1>0. UNCHANGED database /\ log' = log /\ log \in Seq(Txns) /\ page.pc = "edges"
  BY DEF ReadEdges, database, SInv
<1>1. /\ page'.pc = "statistics" /\ page'.of = page.of /\ page'.at = Len(log)
      /\ page'.network = Network(page.of, Committed)
  BY DEF ReadEdges
<1>2. Known(Len(log)) = Committed /\ Len(log) \in 0 .. Len(log)
  BY <1>0, KnownAll
<1>3. Known(Len(log))' = Committed
  BY <1>0, <1>2 DEF Known
<1>4. Of(page.of, Committed) # {}
  BY <1>0 DEF SInv, EntityPageOk
<1>5. ToSet(SubSeq(log', 1, page'.at)) = Committed
  BY <1>0, <1>1, <1>2 DEF Known
<1>6. NetworkPart(page.of, page.at)'
  BY <1>0, <1>1, <1>2, <1>4, <1>5 DEF NetworkPart, Known
<1>7. EntityPageOk'
  BY <1>1, <1>6 DEF EntityPageOk
<1> QED
  BY <1>0, <1>1, <1>7, ReadSInv

LEMMA ReadStatisticsSInv ==
  ASSUME SInv, ReadStatistics
  PROVE  SInv'
<1> DEFINE mine == Of(page.of, Committed)
<1>0. UNCHANGED database /\ log' = log /\ log \in Seq(Txns) /\ page.pc = "statistics"
  BY DEF ReadStatistics, database, SInv
<1>1. /\ page'.pc = "recent" /\ page'.of = page.of /\ page'.at = page.at
      /\ page'.network = page.network /\ page'.countedAt = Len(log)
      /\ page'.count = Cardinality(mine) /\ page'.first = Earliest(mine)
      /\ page'.last = Latest(mine)
  BY DEF ReadStatistics
<1>2. Known(Len(log)) = Committed
  BY <1>0, KnownAll
<1>3. NetworkPart(page.of, page.at)
  BY <1>0 DEF SInv, EntityPageOk
<1>4. NetworkPart(page.of, page.at)'
  BY <1>0, <1>1, <1>3 DEF NetworkPart, Known
<1>5. page'.countedAt \in page'.at .. Len(log')
  <2>1. page.at \in 0 .. Len(log) /\ Len(log) \in Nat
    BY <1>0, <1>3 DEF NetworkPart
  <2> QED
    BY <1>0, <1>1, <2>1
<1>6. ToSet(SubSeq(log', 1, page'.countedAt)) = Committed
  BY <1>0, <1>1, <1>2 DEF Known
<1>7. StatisticsPart(page.of, page.at)'
  BY <1>1, <1>5, <1>6 DEF StatisticsPart, Known
<1>8. EntityPageOk'
  BY <1>1, <1>4, <1>7 DEF EntityPageOk
<1> QED
  BY <1>0, <1>1, <1>8, ReadSInv

LEMMA ReadRecentSInv ==
  ASSUME SInv, ReadRecent
  PROVE  SInv'
<1>0. UNCHANGED database /\ log' = log /\ page.pc = "recent"
  BY DEF ReadRecent, database
<1>1. /\ page'.pc = "done" /\ page'.view = "entity" /\ page'.of = page.of
      /\ page'.at = page.at /\ page'.network = page.network
      /\ page'.countedAt = page.countedAt /\ page'.count = page.count
      /\ page'.first = page.first /\ page'.last = page.last
      /\ page'.recent = Newest(MaxRecentTransactions, Of(page.of, Committed))
  BY DEF ReadRecent
<1>2. NetworkPart(page.of, page.at) /\ StatisticsPart(page.of, page.at)
  BY <1>0 DEF SInv, EntityPageOk
<1>3. NetworkPart(page.of, page.at)'
  BY <1>0, <1>1, <1>2 DEF NetworkPart, Known
<1>4. StatisticsPart(page.of, page.at)'
  BY <1>0, <1>1, <1>2 DEF StatisticsPart, Known
<1>5. Committed' = Committed
  BY <1>0 DEF Committed
<1>6. EntityPageOk'
  BY <1>1, <1>3, <1>4, <1>5 DEF EntityPageOk
<1> QED
  BY <1>0, <1>1, <1>6, ReadSInv

LEMMA SummarySInv ==
  ASSUME SInv, OpenSummary \/ ReadDecisions
  PROVE  SInv'
<1>0. UNCHANGED database /\ log \in Seq(Txns)
  BY DEF OpenSummary, ReadDecisions, SInv
<1>1. CASE OpenSummary
  <2>1. page'.pc = "decisions" /\ page'.at = Len(log) /\ page'.total = Len(log)
    BY <1>1 DEF OpenSummary
  <2>2. Len(log) \in 0 .. Len(log)
    BY <1>0
  <2>3. EntityPageOk'
    BY <2>1 DEF EntityPageOk
  <2> QED
    BY <1>0, <2>1, <2>2, <2>3, ReadSInv
<1>2. CASE ReadDecisions
  <2>1. /\ page.pc = "decisions" /\ page'.pc = "done" /\ page'.view = "summary"
        /\ page'.at = page.at /\ page'.total = page.total
        /\ page'.assessed = Cardinality(decided)
    BY <1>2 DEF ReadDecisions
  <2>2. page.total = page.at /\ page.at \in 0 .. Len(log)
    BY <2>1 DEF SInv, SummaryOk
  <2>3. EntityPageOk'
    BY <2>1 DEF EntityPageOk
  <2> QED
    BY <1>0, <2>1, <2>2, <2>3, ReadSInv
<1> QED
  BY <1>1, <1>2

LEMMA ViewSInv ==
  ASSUME SInv, VInv,
         \/ \E t \in Subjects, view \in {"report", "graph"} : OpenPayment(view, t)
         \/ ReadSnapshots \/ ReadTimeline \/ ReadPriorRows
         \/ \E x \in PathStarts : FindPath(x)
         \/ Close
  PROVE  SInv'
<1>0. UNCHANGED database
  BY DEF OpenPayment, Open, ReadSnapshots, ReadTimeline, ReadPriorRows, FindPath, Close
<1>1. ASSUME NEW t \in Subjects, NEW view \in {"report", "graph"}, OpenPayment(view, t)
      PROVE  SInv'
  <2>1. page'.pc = "snapshots" \/ (page'.pc = "done" /\ page'.view = "404")
    BY <1>1 DEF OpenPayment, Open, Fail
  <2> QED
    BY <1>0, <2>1, OtherPageSInv
<1>2. CASE ReadSnapshots
  <2>1. page.pc = "snapshots"
    BY <1>2 DEF ReadSnapshots
  <2>2. PICK view, t : page = PageOf(view, t, "snapshots")
    BY <2>1 DEF VInv, PInv, PageOk
  <2>3. page'.pc = "history" \/ (page'.pc = "done" /\ page'.view = "409")
    BY <1>2, <2>2 DEF ReadSnapshots, Fail, PageOf
  <2> QED
    BY <1>0, <2>3, OtherPageSInv
<1>3. CASE ReadTimeline \/ ReadPriorRows
  <2>1. page'.pc = "done" /\ page'.view \in {"report", "graph"}
    BY <1>3 DEF ReadTimeline, ReadPriorRows
  <2> QED
    BY <1>0, <2>1, OtherPageSInv
<1>4. ASSUME NEW x \in PathStarts, FindPath(x) PROVE SInv'
  <2>1. page.pc = "done" /\ page.view = "graph"
    BY <1>4 DEF FindPath
  <2>2. PICK t \in Subjects, rows \in Seq(Txns) : \E path : page = GraphPage(t, rows, path)
    BY <2>1 DEF VInv, PInv, PageOk
  <2>3. PICK path : page = GraphPage(t, rows, path)
    BY <2>2
  <2>4. page'.pc = "done" /\ page'.view = "graph"
    BY <1>4, <2>3 DEF FindPath, GraphPage
  <2> QED
    BY <1>0, <2>4, OtherPageSInv
<1>5. CASE Close
  <2>1. page'.pc = "done" /\ page'.view = "none"
    BY <1>5 DEF Close, Closed
  <2> QED
    BY <1>0, <2>1, OtherPageSInv
<1> QED
  BY <1>1, <1>2, <1>3, <1>4, <1>5

LEMMA NextSInv ==
  ASSUME SInv, VInv, [Next]_vars
  PROVE  SInv'
<1>1. CASE UNCHANGED vars
  <2>1. log' = log /\ features' = features /\ graphs' = graphs /\ decided' = decided
        /\ page' = page
    BY <1>1 DEF vars
  <2>2. NetworkPart(page.of, page.at) => NetworkPart(page.of, page.at)'
    BY <2>1 DEF NetworkPart, Known
  <2>3. StatisticsPart(page.of, page.at) => StatisticsPart(page.of, page.at)'
    BY <2>1 DEF StatisticsPart, Known
  <2>4. Committed' = Committed
    BY <2>1 DEF Committed
  <2>5. EntityPageOk'
    BY <2>1, <2>2, <2>3, <2>4 DEF SInv, EntityPageOk
  <2> QED
    BY <2>1, <2>4, <2>5 DEF SInv, SummaryOk
<1>2. CASE Next
  BY <1>2, IngestSInv, SnapshotSInv, ViewSInv, OpenEntitySInv, ReadEdgesSInv,
     ReadStatisticsSInv, ReadRecentSInv, SummarySInv DEF Next
<1> QED
  BY <1>1, <1>2

(* The SELECTs of an entity page, and those of the summary, fit together,  *)
(* whatever commits between them.                                          *)
THEOREM PagesStayHonest == Spec => []PagesAreHonest
<1>1. VInv /\ [Next]_vars => VInv'
  BY NextVInv
<1>2. SInv /\ VInv /\ [Next]_vars => SInv'
  BY NextSInv
<1>3. SInv => PagesAreHonest
  BY EntityPagesHonest, SummariesHonest DEF PagesAreHonest
<1> QED
  BY <1>1, <1>2, <1>3, InitVInv, InitSInv, PTL DEF Spec

=============================================================================
