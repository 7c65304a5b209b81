---------------------------- MODULE ReadServices ----------------------------
(***************************************************************************)
(* The pages that only read: investigation report (evidence.py), graph     *)
(* view and summary (services/dashboard.py), entity page (entities.py).    *)
(* Each is several SELECTs, and payments are ingested and assessed between *)
(* any two of them.  Reports and graph views put what is in the database   *)
(* now next to snapshots frozen earlier; relationships are aggregated from *)
(* the committed payments, which is what Ingestion guarantees.             *)
(***************************************************************************)
EXTENDS Payments, RelationshipPath

CONSTANTS
  Subjects,               \* payments that are assessed and looked at
  Visited,                \* entities looked at
  PathStarts,             \* identities whose path the user asks for
  Depths,                 \* values of maxDepth; the page gives none
  MaxTimelineItems,       \* MAX_TIMELINE_ITEMS (8)
  MaxPriorRows,           \* the limit in transaction_graph (50)
  MaxGraphNodes,          \* MAX_GRAPH_NODES (40)
  MaxGraphEdges,          \* MAX_GRAPH_EDGES (60)
  MaxEntityNodes,         \* MAX_ENTITY_NODES (40)
  MaxEntityEdges,         \* MAX_ENTITY_EDGES (60)
  MaxRecentTransactions   \* MAX_RECENT_TRANSACTIONS (12)

(* A payment with its five identities always fits a drawing.               *)
ASSUME ReadAssumption ==
  /\ Subjects \subseteq Txns
  /\ {MaxTimelineItems, MaxPriorRows, MaxGraphNodes, MaxGraphEdges,
      MaxEntityNodes, MaxEntityEdges, MaxRecentTransactions} \subseteq Nat \ {0}
  /\ MaxGraphNodes >= 6 /\ MaxGraphEdges >= 5
  /\ Depths \subseteq Nat

Displayable == Txns \cup UNION { Entities(t) : t \in Txns }

(* Public ids are unique: each carries the prefix of its type              *)
(* (core/ids.py), and the tables have unique constraints on them.          *)
ASSUME IdAssumption ==
  /\ \A x \in Displayable : Rank[x] \in Nat
  /\ \A x, y \in Displayable : Rank[x] = Rank[y] => x = y

VARIABLES
  log,       \* the payments, in the order of their commits
  features,  \* frozen feature vectors, with the commits they could see
  graphs,    \* frozen graph assessments, likewise
  decided,   \* payments with a prediction and a policy decision
  page       \* the page on display, or how far its SELECTs have come

vars == <<log, features, graphs, decided, page>>
database == <<log, features, graphs, decided>>

Committed == ToSet(log)
Known(n)  == ToSet(SubSeq(log, 1, n))

Closed == [view |-> "none", pc |-> "done"]

Insert(table, t, row) ==
  [u \in DOMAIN table \cup {t} |-> IF u = t THEN row ELSE table[u]]

Init ==
  /\ log = <<>>
  /\ features = <<>> /\ graphs = <<>>
  /\ decided = {}
  /\ page = Closed

-----------------------------------------------------------------------------
(* What happens meanwhile.  A finished page never changes again, so what   *)
(* commits while it is on display is left for after it is closed.          *)

Meanwhile == page.pc # "done" \/ page = Closed

Ingest(t) ==
  /\ Meanwhile
  /\ t \notin Committed
  /\ log' = Append(log, t)
  /\ UNCHANGED <<features, graphs, decided, page>>

(* The three commits of assess_transaction.  A call that is repeated, or   *)
(* that finds snapshots of a backfill, goes on only if they are what it    *)
(* computes now, so it adds no other contents.                             *)
SnapshotFeatures(t) ==
  /\ Meanwhile
  /\ t \in Committed \ DOMAIN features
  /\ features' = Insert(features, t,
       [vector |-> FeatureVector(t, FeatureHistory(t, Committed)), at |-> Len(log)])
  /\ UNCHANGED <<log, graphs, decided, page>>

SnapshotGraph(t) ==
  /\ Meanwhile
  /\ t \in DOMAIN features \ DOMAIN graphs
  /\ graphs' = Insert(graphs, t,
       [assessment |-> GraphAssessment(t, GraphHistory(t, Committed)), at |-> Len(log)])
  /\ UNCHANGED <<log, features, decided, page>>

Decide(t) ==
  /\ Meanwhile
  /\ t \in DOMAIN graphs \ decided
  /\ decided' = decided \cup {t}
  /\ UNCHANGED <<log, features, graphs, page>>

-----------------------------------------------------------------------------
(* The queries.                                                            *)

(* Mutant: payments of the same instant count as history.                  *)
Prior_SameInstant(t, R) == { u \in R \ {t} : Time[u] <= Time[t] /\ Linked(t, u) }

(* The rows that share an identity with t and came strictly before it.     *)
Prior(t, R) == { u \in R : Time[u] < Time[t] /\ Linked(t, u) }

FirstOf(n, s) == SubSeq(s, 1, IF n < Len(s) THEN n ELSE Len(s))

(* ORDER BY event_time DESC, public_id DESC LIMIT n.                       *)
Newest(n, R) ==
  FirstOf(n, Sorted(R, LAMBDA u, v :
                         \/ Time[u] > Time[v]
                         \/ Time[u] = Time[v] /\ Rank[u] > Rank[v]))

Timeline(t, R) == Reverse(Newest(MaxTimelineItems, Prior(t, R)))

(* What is drawn of the payment itself, and of a row (relation_specs), in  *)
(* this order.                                                             *)
OwnRelations(t) ==
  << {t, Entity(t, "customer")}, {t, Entity(t, "device")},
     {t, Entity(t, "instrument")}, {t, Entity(t, "ip")}, {t, Entity(t, "address")} >>

Relations(t) ==
  << {Entity(t, "customer"), Entity(t, "device")},
     {Entity(t, "customer"), Entity(t, "instrument")},
     {Entity(t, "customer"), Entity(t, "ip")},
     {Entity(t, "customer"), Entity(t, "address")},
     {Entity(t, "instrument"), Entity(t, "device")} >>

(* The payment and its own identities come first; a row that does not fit  *)
(* any more is left out, a later and smaller one may still fit.            *)
AddRow(drawing, u) ==
  IF Cardinality(drawing.nodes \cup Entities(u)) > MaxGraphNodes THEN drawing
  ELSE [nodes |-> drawing.nodes \cup Entities(u),
        edges |-> drawing.edges \o Relations(u)]

(* unique_edges: the first n different members of s.                       *)
Distinct(n, s) ==
  { s[i] : i \in { j \in DOMAIN s : Cardinality(ToSet(SubSeq(s, 1, j))) <= n } }

Drawing(t, rows) ==
  LET drawings[i \in 0 .. Len(rows)] ==
        IF i = 0
        THEN [nodes |-> Entities(t) \cup {t}, edges |-> OwnRelations(t)]
        ELSE LET drawing == drawings[i - 1] IN AddRow(drawing, rows[i])
      all == drawings[Len(rows)]
  IN [nodes |-> all.nodes, edges |-> Distinct(MaxGraphEdges, all.edges)]

Of(x, R) == { u \in R : x \in Entities(u) }

Incident(x, R) ==
  { edge \in UNION { Relationships(u) : u \in Of(x, R) } : x \in edge }

Source(edge) ==
  CHOOSE x \in edge :
    \/ x[1] = "customer"
    \/ x[1] = "instrument" /\ \A y \in edge : y[1] # "customer"

(* The rows of entity_edges about x: the ends, and how often and when the  *)
(* payments of R showed the relationship.                                  *)
EdgeRow(edge, users) ==
  [source |-> Source(edge), target |-> CHOOSE y \in edge : y # Source(edge),
   count |-> Cardinality(users),
   first |-> Earliest(users), last |-> Latest(users)]

EdgeRows(x, R) ==
  { EdgeRow(edge, { u \in R : edge \subseteq Entities(u) }) : edge \in Incident(x, R) }

(* ORDER BY last_seen_at DESC, source_public_id, target_public_id.         *)
ByRecency(rows) ==
  Sorted(rows, LAMBDA r, s :
    \/ r.last > s.last
    \/ /\ r.last = s.last
       /\ \/ Rank[r.source] < Rank[s.source]
          \/ r.source = s.source /\ Rank[r.target] < Rank[s.target])

(* Mutant: what the limit on nodes leaves out is not reported.             *)
Network_SilentLimit(x, R) ==
  LET edges == FirstOf(MaxEntityEdges + 1, ByRecency(EdgeRows(x, R)))
      shown == FirstOf(MaxEntityNodes - 1, FirstOf(MaxEntityEdges, edges))
  IN [edges |-> ToSet(shown), truncated |-> Len(edges) > MaxEntityEdges]

(* The one-hop network: every row brings one new node, so the limit on     *)
(* nodes cuts the list like the one on edges.                              *)
Network(x, R) ==
  LET edges == FirstOf(MaxEntityEdges + 1, ByRecency(EdgeRows(x, R)))
      shown == FirstOf(MaxEntityNodes - 1, FirstOf(MaxEntityEdges, edges))
  IN [edges |-> ToSet(shown), truncated |-> Len(edges) > Len(shown)]

-----------------------------------------------------------------------------
(* The pages.  The fields at and countedAt keep how many commits a SELECT  *)
(* saw; they are not part of a page.                                       *)

Open(view, of, pc) ==
  /\ page = Closed
  /\ page' = [view |-> view, of |-> of, pc |-> pc]
  /\ UNCHANGED database

Fail(answer) == page' = [view |-> answer, pc |-> "done"]

(* The first SELECT of a report or graph view, on the payment.             *)
OpenPayment(view, t) ==
  \/ t \in Committed /\ Open(view, t, "snapshots")
  \/ /\ page = Closed /\ t \notin Committed
     /\ Fail("404")
     /\ UNCHANGED database

(* The frozen parts.  A decision is the last to be written, so where it is *)
(* there are the others.                                                   *)
ReadSnapshots ==
  /\ page.pc = "snapshots"
  /\ IF page.of \in decided THEN page' = [page EXCEPT !.pc = "history"]
     ELSE Fail("409")
  /\ UNCHANGED database

ReadTimeline ==
  /\ page.pc = "history" /\ page.view = "report"
  /\ page' = [view |-> "report", pc |-> "done", of |-> page.of,
              rows |-> Timeline(page.of, Committed)]
  /\ UNCHANGED database

ReadPriorRows ==
  /\ page.pc = "history" /\ page.view = "graph"
  /\ LET rows == Newest(MaxPriorRows, Prior(page.of, Committed)) IN
     page' = [view |-> "graph", pc |-> "done", of |-> page.of,
              rows |-> rows, drawing |-> Drawing(page.of, rows),
              path |-> <<>>]
  /\ UNCHANGED database

(* activePath of graph-panel.tsx: how the identity x is connected to the   *)
(* customer of the payment.                                                *)
FindPath(x) ==
  /\ page.pc = "done" /\ page.view = "graph"
  /\ page.path = <<>>
  /\ x \in page.drawing.nodes
  /\ page' = [page EXCEPT !.path =
       <<x, findRelationshipPath(page.drawing.nodes, page.drawing.edges, x,
              Entity(page.of, "customer"), Cardinality(page.drawing.nodes) - 1)>>]
  /\ UNCHANGED database

OpenEntity(x) ==
  \/ /\ x \in UNION { Entities(t) : t \in Committed }
     /\ Open("entity", x, "edges")
  \/ /\ page = Closed
     /\ x \notin UNION { Entities(t) : t \in Committed }
     /\ Fail("404")
     /\ UNCHANGED database

ReadEdges ==
  /\ page.pc = "edges"
  /\ page' = [view |-> "entity", pc |-> "statistics", of |-> page.of,
              at |-> Len(log), network |-> Network(page.of, Committed)]
  /\ UNCHANGED database

(* count, min and max over the payments of the entity.                     *)
ReadStatistics ==
  /\ page.pc = "statistics"
  /\ LET mine == Of(page.of, Committed) IN
     page' = [view |-> "entity", pc |-> "recent", of |-> page.of,
              at |-> page.at, network |-> page.network,
              count |-> Cardinality(mine), first |-> Earliest(mine),
              last |-> Latest(mine), countedAt |-> Len(log)]
  /\ UNCHANGED database

ReadRecent ==
  /\ page.pc = "recent"
  /\ LET rows == Newest(MaxRecentTransactions, Of(page.of, Committed)) IN
     page' = [view |-> "entity", pc |-> "done", of |-> page.of,
              at |-> page.at, network |-> page.network, count |-> page.count,
              first |-> page.first, last |-> page.last,
              countedAt |-> page.countedAt,
              recent |-> rows, assessed |-> ToSet(rows) \cap decided]
  /\ UNCHANGED database

(* dashboard_summary: the payments are counted before the decisions.       *)
OpenSummary ==
  /\ page = Closed
  /\ page' = [view |-> "summary", pc |-> "decisions", at |-> Len(log),
              total |-> Len(log)]
  /\ UNCHANGED database

ReadDecisions ==
  /\ page.pc = "decisions"
  /\ page' = [view |-> "summary", pc |-> "done", at |-> page.at,
              total |-> page.total, assessed |-> Cardinality(decided)]
  /\ UNCHANGED database

Close ==
  /\ page # Closed /\ page.pc = "done"
  /\ page' = Closed
  /\ UNCHANGED database

Next ==
  \/ \E t \in Txns : Ingest(t)
  \/ \E t \in Subjects : SnapshotFeatures(t) \/ SnapshotGraph(t) \/ Decide(t)
  \/ \E t \in Subjects, view \in {"report", "graph"} : OpenPayment(view, t)
  \/ ReadSnapshots \/ ReadTimeline \/ ReadPriorRows
  \/ \E x \in PathStarts : FindPath(x)
  \/ \E x \in Visited : OpenEntity(x)
  \/ ReadEdges \/ ReadStatistics \/ ReadRecent
  \/ OpenSummary \/ ReadDecisions
  \/ Close

Spec == Init /\ [][Next]_vars

-----------------------------------------------------------------------------

(* A report lists, in order, payments strictly before the one it is about. *)
(* Those among them that were committed when its features were frozen      *)
(* (known) are what the features count, the newest first to be listed, all *)
(* of them if the list is not full; the others came in late.               *)
TimelineExplained ==
  LET t     == page.of
      rows  == ToSet(page.rows)
      known == rows \cap Known(features[t].at)
      same(k) == Cardinality({ u \in known : Ref[u][k] = Ref[t][k] })
      seen  == features[t].vector.seen
  IN /\ Len(page.rows) <= MaxTimelineItems
     /\ \A u \in rows : Time[u] < Time[t] /\ Linked(t, u)
     /\ \A i, j \in DOMAIN page.rows :
          i < j => Time[page.rows[i]] <= Time[page.rows[j]]
     /\ \A k \in EntityTypes : same(k) <= seen[k]
     /\ Len(page.rows) < MaxTimelineItems =>
          \A k \in EntityTypes : same(k) = seen[k]
     /\ known # {} => Latest(known) = features[t].vector.source

(* A graph view keeps its limits, draws no relationship without its ends   *)
(* and, until a limit is reached, no identity without a relationship and   *)
(* every relationship of its rows.  What it draws of the payments the      *)
(* frozen assessment could see is part of that assessment's graph.         *)
GraphViewExplained ==
  LET t       == page.of
      nodes   == page.drawing.nodes
      edges   == page.drawing.edges
      rows    == ToSet(page.rows)
      own     == { {t, x} : x \in Entities(t) }
      of(R)   == UNION { Relationships(u) : u \in R }
      known   == rows \cap Known(graphs[t].at)
  IN /\ Cardinality(nodes) <= MaxGraphNodes
     /\ Cardinality(edges) <= MaxGraphEdges
     /\ UNION edges \subseteq nodes
     /\ own \subseteq edges /\ edges \ own \subseteq of(rows)
     /\ edges \cap of(known) \subseteq graphs[t].assessment.edges
     /\ Cardinality(edges) < MaxGraphEdges =>
          /\ nodes = UNION edges
          /\ \A u \in rows : Entities(u) \subseteq nodes => Relationships(u) \subseteq edges

(* README.md, line 187, as far as the code goes: reports and graph views   *)
(* show what was known at decision time and nothing later than the         *)
(* payment, but for earlier payments that were ingested late.              *)
HistoryViewsExplained ==
  /\ page.pc = "done" /\ page.view = "report" => TimelineExplained
  /\ page.pc = "done" /\ page.view = "graph" => GraphViewExplained

(* The SELECTs of an entity page fit together: a network that is not       *)
(* called truncated is complete, a truncated one hides nothing more recent *)
(* than what it shows, no relationship was observed outside the period, or *)
(* more often, than the payments say, and the payments listed are all or   *)
(* the limit.                                                              *)
EntityPageHonest ==
  LET rows     == page.network.edges
      all      == EdgeRows(page.of, Known(page.at))
      total(k) == FoldSet(LAMBDA row, n : n + row.count, 0,
                          { row \in rows : k \in {row.source[1], row.target[1]} })
  IN /\ rows \subseteq all
     /\ ~page.network.truncated => rows = all
     /\ \A hidden \in all \ rows, row \in rows : hidden.last <= row.last
     /\ \A row \in rows : page.first <= row.first /\ row.last <= page.last
     /\ \A k \in EntityTypes \ {page.of[1]} :
          /\ total(k) <= page.count
          /\ ~page.network.truncated /\ page.at = page.countedAt
               => total(k) \in {0, page.count}
     /\ Len(page.recent) < page.count => Len(page.recent) = MaxRecentTransactions

(* More payments are reported as assessed than there are only as far as    *)
(* payments were ingested since the summary counted them.                  *)
SummaryHonest == page.assessed <= page.total + (Len(log) - page.at)

(* A page of several SELECTs is consistent in spite of what commits        *)
(* between them.                                                           *)
PagesAreHonest ==
  /\ page.pc = "done" /\ page.view = "entity" => EntityPageHonest
  /\ page.pc = "done" /\ page.view = "summary" => SummaryHonest

(* The path shown from an identity of a graph view to the customer is a    *)
(* shortest one over the relationships on display, and "no connection" is  *)
(* said only where there is none; with a bound on the depth (the function  *)
(* takes one), only where there is none that short.                        *)
PathsAreShortest ==
  page.pc = "done" /\ page.view = "graph" =>
    LET nodes  == page.drawing.nodes
        edges  == page.drawing.edges
        target == Entity(page.of, "customer")
    IN (page.path # <<>> =>
          /\ IsShortestPath(page.path[2], nodes, edges, page.path[1], target,
                            Cardinality(nodes))
          /\ \A n \in Depths :
               IsShortestPath(
                 findRelationshipPath(nodes, edges, page.path[1], target, n),
                 nodes, edges, page.path[1], target, n))

=============================================================================
