-------------------------- MODULE RelationshipPath --------------------------
(***************************************************************************)
(* findRelationshipPath (apps/web/src/lib/relationship-path.ts): the path  *)
(* between two identities of a displayed network, by breadth-first search. *)
(* Edges are undirected pairs: two nodes never share more than one edge,   *)
(* so the tie-breaks by edge type and id leave nothing to decide.          *)
(***************************************************************************)
EXTENDS Naturals, FiniteSets, SequencesExt

CONSTANT Rank  \* alphabetical position of each public id

NoPath == <<>>

(* S as a sequence, in a strict total order.                               *)
Sorted(S, before(_, _)) ==
  LET places == { <<Cardinality({ y \in S : before(y, x) }), x>> : x \in S } IN
  [i \in 1 .. Cardinality(S) |-> (CHOOSE p \in places : p[1] = i - 1)[2]]

(* adjacency: the displayed neighbors of x, those visited left out, in the *)
(* order of their ids.                                                     *)
Neighbors(x, nodes, edges, visited) ==
  Sorted({ y \in nodes \ visited : {x, y} \in edges },
         LAMBDA y, z : Rank[y] < Rank[z])

(* What the i-th node of the queue reaches, unless it is too deep: those   *)
(* of its neighbors that have not been visited.                            *)
Found(search, i, nodes, edges, maxDepth) ==
  IF search.depth[search.queue[i]] >= maxDepth THEN <<>>
  ELSE Neighbors(search.queue[i], nodes, edges, DOMAIN search.depth)

(* f with the value v for the new nodes ys.                                *)
Marked(f, ys, v) ==
  [y \in DOMAIN f \cup ToSet(ys) |-> IF y \in DOMAIN f THEN f[y] ELSE v]

(* Mutant: the nodes found last are expanded first.                        *)
Expand_DepthFirst(search, i, nodes, edges, maxDepth) ==
  LET x     == search.queue[i]
      found == Found(search, i, nodes, edges, maxDepth)
  IN [queue |-> SubSeq(search.queue, 1, i) \o found
                  \o SubSeq(search.queue, i + 1, Len(search.queue)),
      depth |-> Marked(search.depth, found, search.depth[x] + 1),
      previous |-> Marked(search.previous, found, x)]

(* One round of the loop.                                                  *)
Expand(search, i, nodes, edges, maxDepth) ==
  LET x     == search.queue[i]
      found == Found(search, i, nodes, edges, maxDepth)
  IN [queue |-> search.queue \o found,
      depth |-> Marked(search.depth, found, search.depth[x] + 1),
      previous |-> Marked(search.previous, found, x)]

(* The search after at most n rounds; it stops when the target is reached  *)
(* or the queue is exhausted.                                              *)
Search(nodes, edges, start, target, maxDepth) ==
  LET rounds[n \in 0 .. Cardinality(nodes)] ==
        IF n = 0
        THEN [queue |-> <<start>>, depth |-> [y \in {start} |-> 0],
              previous |-> [y \in {start} |-> start]]
        ELSE LET search == rounds[n - 1] IN
             IF target \in DOMAIN search.depth \/ n > Len(search.queue)
             THEN search
             ELSE Expand(search, n, nodes, edges, maxDepth)
  IN rounds[Cardinality(nodes)]

(* The nodes of the path, from start to target.                            *)
findRelationshipPath(nodes, edges, start, target, maxDepth) ==
  LET search  == Search(nodes, edges, start, target, maxDepth)
      back[y \in DOMAIN search.depth] ==
        IF y = start THEN <<start>> ELSE Append(back[search.previous[y]], y)
  IN IF /\ start \in nodes /\ target \in nodes
        /\ target \in DOMAIN search.depth
     THEN back[target]
     ELSE NoPath

-----------------------------------------------------------------------------

(* The nodes within n hops of x.                                           *)
Ball(n, x, nodes, edges) ==
  LET ball[k \in 0 .. n] ==
        IF k = 0 THEN {x}
        ELSE LET reached == ball[k - 1] IN
             reached \cup
               { y \in nodes : \E z \in reached : {z, y} \in edges }
  IN ball[n]

(* path leads from start to target over displayed edges and none within    *)
(* maxDepth hops is shorter; there is none if the target is further away.  *)
IsShortestPath(path, nodes, edges, start, target, maxDepth) ==
  IF target \notin Ball(maxDepth, start, nodes, edges) THEN path = NoPath
  ELSE /\ path # NoPath
       /\ Head(path) = start /\ Last(path) = target
       /\ \A i \in 1 .. Len(path) - 1 : {path[i], path[i + 1]} \in edges
       /\ \A n \in 0 .. Len(path) - 2 :
            target \notin Ball(n, start, nodes, edges)

=============================================================================
