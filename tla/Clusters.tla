------------------------------ MODULE Clusters ------------------------------
(***************************************************************************)
(* The abuse_clusters and cluster_members tables and the two operations on *)
(* them: persist_clusters (graph_engine/service.py) and _active_cluster_id *)
(* (policy_engine/service.py).  Only status OPEN is ever written.  A table *)
(* is a set of cluster records, keyed by their fingerprints.               *)
(***************************************************************************)
EXTENDS Payments, FiniteSetsExt

OfType(members, k) == { m \in members : m[1] = k }

Shared(x, y) == Cardinality(x.members \cap y.members)

Smaller(x, y) ==
  LET a == Cardinality(x.members)
      b == Cardinality(y.members)
  IN  IF a <= b THEN a ELSE b

(* Stored cluster c can stand for detection d: a common device and at      *)
(* least 70% of the smaller of the two in common.                          *)
Matches(c, d) ==
  /\ OfType(c.members, "device") \cap OfType(d.members, "device") # {}
  /\ 10 * Shared(c, d) >= 7 * Smaller(c, d)

Closer(c, x, d) == Shared(c, d) * Smaller(x, d) >= Shared(x, d) * Smaller(c, d)

(* The stored cluster that a detection updates, or none: the one with its  *)
(* fingerprint, else the best match.                                       *)
Target(clusters, d) ==
  LET same == { c \in clusters : c.fingerprint = d.fingerprint }
      near == { c \in clusters : Matches(c, d) }
  IN  IF same # {} THEN same
      ELSE IF near = {} THEN {}
      ELSE { CHOOSE c \in near : \A x \in near : Closer(c, x, d) }

(* An update overwrites score and counts, widens the interval and only     *)
(* ever adds members.                                                      *)
Merged(c, d) ==
  [fingerprint  |-> c.fingerprint,
   members      |-> c.members \cup d.members,
   score        |-> d.score,
   transactions |-> d.transactions,
   first        |-> IF c.first <= d.first THEN c.first ELSE d.first,
   last         |-> IF c.last >= d.last THEN c.last ELSE d.last]

Persisted(clusters, d) ==
  LET target == Target(clusters, d) IN
  IF target = {} THEN clusters \cup {d}
  ELSE (clusters \ target) \cup { Merged(c, d) : c \in target }

(* persist_clusters: the detections one after another.                     *)
PersistClusters(clusters, detections) ==
  FoldSet(LAMBDA d, table : Persisted(table, d), clusters, detections)

(* _active_cluster_id: the best cluster of which t has two entities.       *)
Active(clusters, t) ==
  { c \in clusters : Cardinality(c.members \cap Entities(t)) >= 2 }

Best(found) == CHOOSE c \in found : \A x \in found : x.score <= c.score

=============================================================================
