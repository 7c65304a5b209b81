------------------------- MODULE AssessmentRecords -------------------------
(***************************************************************************)
(* What assessment promises about its rows, whatever order events arrive   *)
(* in and whoever else assesses or backfills: they are written once, a     *)
(* prediction rests on the two snapshots of its payment, a decision on the *)
(* prediction, and prediction and decision are audited as they are made.   *)
(***************************************************************************)

CONSTANTS Txns, Policies

VARIABLES
  features, graphs,   \* tables: snapshot of each payment that has one
  predictions,        \* table: [features, graph] of each predicted payment
  decided,            \* pairs of a payment and a policy that decided on it
  audited             \* audit events: [kind, txn, policy]

records == <<features, graphs, predictions, decided, audited>>

Init ==
  /\ features    = <<>>
  /\ graphs      = <<>>
  /\ predictions = <<>>
  /\ decided     = {}
  /\ audited     = {}

(* Rows are added, for payments, and none is changed or removed.           *)
Extends(new, old) ==
  /\ new = [t \in DOMAIN new |-> new[t]]
  /\ DOMAIN old \subseteq DOMAIN new
  /\ DOMAIN new \subseteq Txns
  /\ \A t \in DOMAIN old : new[t] = old[t]

(* A call or a backfill adds snapshots; several may appear at once.        *)
SnapshotFeatures ==
  /\ Extends(features', features)
  /\ UNCHANGED <<graphs, predictions, decided, audited>>

SnapshotGraphs ==
  /\ Extends(graphs', graphs)
  /\ UNCHANGED <<features, predictions, decided, audited>>

(* The first assessment of t also predicts; later policies reuse it.       *)
Decide(t, p) ==
  LET first == t \notin DOMAIN predictions IN
  /\ t \in DOMAIN features \cap DOMAIN graphs
  /\ <<t, p>> \notin decided
  /\ predictions' =
       [u \in DOMAIN predictions \cup {t} |->
          IF u = t /\ first THEN [features |-> features[t], graph |-> graphs[t]]
          ELSE predictions[u]]
  /\ decided' = decided \cup {<<t, p>>}
  /\ audited' = audited \cup
       { [kind |-> k, txn |-> t, policy |-> p] :
           k \in {"decision"} \cup (IF first THEN {"prediction"} ELSE {}) }
  /\ UNCHANGED <<features, graphs>>

Next ==
  \/ SnapshotFeatures
  \/ SnapshotGraphs
  \/ \E t \in Txns, p \in Policies : Decide(t, p)

Spec == Init /\ [][Next]_records

=============================================================================
