------------------------------ MODULE Payments ------------------------------
(***************************************************************************)
(* Payments, the entities that link them, and the pure computations on     *)
(* them: feature vector, graph assessment and cluster detection.  Amounts  *)
(* and time windows are left out; what is kept is which earlier payments a *)
(* result depends on, which is what point-in-time safety is about.         *)
(***************************************************************************)
EXTENDS Naturals, FiniteSets

CONSTANTS
  Txns,              \* payments that may be ingested
  Time,              \* Time[t]: event_time of t, from 1 on
  Ref,               \* Ref[t][k]: public id of the entity of type k of t
  MinConcentration   \* customers, and instruments, of a qualifying device (3)

ASSUME TimeAssumption == Time \in [Txns -> Nat \ {0}]

EntityTypes == {"customer", "instrument", "device", "ip", "address"}

Entity(t, k) == <<k, Ref[t][k]>>
Entities(t)  == { Entity(t, k) : k \in EntityTypes }
Devices      == { Entity(t, "device") : t \in Txns }

Linked(t, u) == Entities(t) \cap Entities(u) # {}

(* The latest source of a result: max_source_event_time, 0 for none.       *)
Latest(H) ==
  IF H = {} THEN 0
  ELSE CHOOSE n \in { Time[u] : u \in H } : \A u \in H : Time[u] <= n

Earliest(H) ==
  CHOOSE n \in { Time[u] : u \in H } : \A u \in H : n <= Time[u]

-----------------------------------------------------------------------------
(* Features.                                                               *)

(* What history_for selects from the committed payments R.                 *)
FeatureHistory(t, R) == { u \in R : Time[u] < Time[t] /\ Linked(t, u) }

(* FeatureEngine.compute: counts over the history, one per entity type in  *)
(* place of the sixty windows and ratios, and the watermark.               *)
FeatureVector(t, H) ==
  [seen |-> [k \in EntityTypes |->
               Cardinality({ u \in H : Ref[u][k] = Ref[t][k] })],
   source |-> Latest(H)]

-----------------------------------------------------------------------------
(* Graph.                                                                  *)

(* One SELECT of the provider's loop: earlier payments that touch an       *)
(* entity of t or of a payment already found.                              *)
Touching(t, found, R) ==
  { u \in R : Time[u] < Time[t] /\ \E v \in found \cup {t} : Linked(u, v) }

(* All payments of R that t's component may hold: the least set of them    *)
(* that a further SELECT adds nothing to.                                  *)
GraphHistory(t, R) ==
  { u \in R : \A S \in SUBSET R : Touching(t, S, R) \subseteq S => u \in S }

(* GraphTransaction.relationships: the undirected edges of a payment.      *)
Relationships(t) ==
  { {Entity(t, "customer"), Entity(t, k)} : k \in EntityTypes \ {"customer"} }
  \cup { {Entity(t, "instrument"), Entity(t, "device")} }

(* GraphEngine.assess: metrics, signals and fingerprints are functions of  *)
(* the edges of the touched components (their ages are left out).          *)
GraphAssessment(t, H) ==
  [edges |-> UNION { Relationships(u) : u \in H }, source |-> Latest(H)]

-----------------------------------------------------------------------------
(* Clusters.                                                               *)

(* The payments of the connected component of t in the graph of R: the     *)
(* least set of them that holds t and all that is linked to it.            *)
Component(t, R) ==
  { u \in R : \A S \in SUBSET R :
      t \in S /\ (\A v \in S, w \in R : Linked(v, w) => w \in S) => u \in S }

(* The devices of component C that enough customers and instruments share. *)
Qualifying(C) ==
  { d \in Devices :
      LET users == { u \in C : Entity(u, "device") = d } IN
      \A k \in {"customer", "instrument"} :
        Cardinality({ Ref[u][k] : u \in users }) >= MinConcentration }

(* A cluster, detected or stored.  The structural score is a weighted sum  *)
(* of degrees; the number of members stands for it.                        *)
Cluster(d, C) ==
  LET members == UNION { Entities(u) : u \in C } IN
  [fingerprint |-> d, members |-> members, score |-> Cardinality(members),
   transactions |-> Cardinality(C),
   first |-> Earliest(C), last |-> Latest(C)]

(* StructuralClusterDetector.discover: one detection per component with a  *)
(* qualifying device; the primary device (the least one) fingerprints it.  *)
Detected(R) ==
  { Cluster(CHOOSE d \in Qualifying(C) : TRUE, C) :
      C \in { X \in { Component(t, R) : t \in R } : Qualifying(X) # {} } }

=============================================================================
