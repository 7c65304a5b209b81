----------------------------- MODULE Assessment -----------------------------
(***************************************************************************)
(* assess_transaction (packages/policy_engine/service.py) under concurrent *)
(* calls, ingestion in any order and the two backfill scripts.             *)
(*                                                                         *)
(* A call runs three database transactions: it commits the feature         *)
(* snapshot, then the graph snapshot, then prediction, decision and audit  *)
(* events together.  Each computes a result, looks for a stored one, and   *)
(* either reuses it if equal, refuses if different, or inserts.            *)
(*                                                                         *)
(* External: PostgreSQL at READ COMMITTED: every SELECT sees what is       *)
(* committed when it runs; of two open transactions that insert the same   *)
(* key the second to commit fails with IntegrityError.                     *)
(***************************************************************************)
EXTENDS Clusters, Sequences

CONSTANTS
  Calls,      \* calls of assess_transaction, each with its own session
  Policies,   \* policy versions
  Assessed,   \* payments that are assessed; a bound for TLC
  Backfills,  \* backfill scripts that are run; a bound for TLC
  None        \* no payment, no policy, no cluster, no batch

ASSUME AssessedAssumption == Assessed \subseteq Txns

VARIABLES
  log,          \* committed payments in the order of their commits
  registry,     \* registered versions: "feature_version", "model_version"
  features,     \* features[t]: committed feature snapshot of payment t
  graphs,       \* graphs[t]: committed graph snapshot
  predictions,  \* predictions[t]: committed risk prediction
  decisions,    \* decisions[<<t, p>>]: committed decision of policy p
  audits,       \* committed audit events, each with the call that wrote it
  clusters,     \* committed clusters
  call,         \* call[r]: local state of a call
  batch         \* batch[j]: payments backfill j has read, None if not running

vars == <<log, registry, features, graphs, predictions, decisions, audits,
          clusters, call, batch>>

Jobs == {"features", "graphs"} \cap Backfills

Committed == { log[i] : i \in DOMAIN log }

-----------------------------------------------------------------------------
(* A table is a function on the keys that have a row.  The rows a call may *)
(* insert are named by their tables.                                       *)

Insert(table, key, row) ==
  [k \in DOMAIN table \cup {key} |-> IF k = key THEN row ELSE table[k]]

Exists(x, t, p) ==
  \/ x \in registry
  \/ x = "features" /\ t \in DOMAIN features
  \/ x = "graphs" /\ t \in DOMAIN graphs
  \/ x = "prediction" /\ t \in DOMAIN predictions
  \/ x = "decision" /\ <<t, p>> \in DOMAIN decisions

Missing(rows, t, p) == { x \in rows : ~Exists(x, t, p) }

(* Mutant: an insert overwrites what another call committed meanwhile.     *)
Taken_Upsert(r) == FALSE

(* A row that r found missing and is about to insert was committed by      *)
(* another session since: the unique constraint rejects the insert.        *)
Taken(r) ==
  \E x \in call[r].inserts : Exists(x, call[r].txn, call[r].policy)

Idle ==
  [pc |-> "idle", txn |-> None, policy |-> None, vector |-> None,
   found |-> {}, graph |-> None, cluster |-> None, inserts |-> {},
   reply |-> "none"]

Init ==
  /\ log         = <<>>
  /\ registry    = {}
  /\ features    = <<>>
  /\ graphs      = <<>>
  /\ predictions = <<>>
  /\ decisions   = <<>>
  /\ audits      = {}
  /\ clusters    = {}
  /\ call        = [r \in Calls |-> Idle]
  /\ batch       = [j \in Jobs |-> None]

database == <<log, registry, features, graphs, predictions, decisions,
              audits, clusters>>

(* The call moves on without writing: a SELECT, or a commit of nothing.    *)
Moves(r, local) ==
  /\ call' = [call EXCEPT ![r] = local]
  /\ UNCHANGED <<database, batch>>

(* The answer 200 carries the results of the call; any other drops them.   *)
Ends(r, reply) ==
  Moves(r, IF reply = "ok"
           THEN [call[r] EXCEPT !.pc = "done", !.reply = reply]
           ELSE [Idle EXCEPT !.pc = "done", !.reply = reply,
                             !.txn = call[r].txn, !.policy = call[r].policy])

-----------------------------------------------------------------------------
(* Feature snapshot: compute_for_transaction.                              *)

(* Mutant: the payment is not looked up.                                   *)
Begin_NoLookup(r, t, p) ==
  /\ call[r].pc = "idle"
  /\ Moves(r, [call[r] EXCEPT !.txn = t, !.policy = p, !.pc = "features"])

(* The route looks the payment up: 404 if it is not there.                 *)
Begin(r, t, p) ==
  /\ call[r].pc = "idle"
  /\ Moves(r, [call[r] EXCEPT
                 !.txn = t, !.policy = p,
                 !.pc = IF t \in Committed THEN "features" ELSE "done",
                 !.reply = IF t \in Committed THEN "none" ELSE "not_found"])

ComputeFeatures(r) ==
  /\ call[r].pc = "features"
  /\ LET t == call[r].txn IN
     Moves(r, [call[r] EXCEPT
                 !.pc = "check_features",
                 !.vector = FeatureVector(t, FeatureHistory(t, Committed))])

(* Mutant: a stored snapshot is trusted without comparing it.              *)
CheckFeatures_NoCompare(r) ==
  /\ call[r].pc = "check_features"
  /\ IF call[r].txn \in DOMAIN features
     THEN Moves(r, [call[r] EXCEPT !.pc = "graph"])
     ELSE Moves(r, [call[r] EXCEPT
                      !.pc = "insert_features",
                      !.inserts = Missing({"feature_version", "features"},
                                          call[r].txn, call[r].policy)])

(* ensure_feature_version and the first half of _persist_snapshot.         *)
CheckFeatures(r) ==
  LET t == call[r].txn IN
  /\ call[r].pc = "check_features"
  /\ CASE t \notin DOMAIN features ->
            Moves(r, [call[r] EXCEPT
                        !.pc = "insert_features",
                        !.inserts = Missing({"feature_version", "features"},
                                            t, call[r].policy)])
       [] t \in DOMAIN features /\ features[t] = call[r].vector ->
            Moves(r, [call[r] EXCEPT !.pc = "graph"])
       [] OTHER -> Ends(r, "FeatureSnapshotConflictError")

InsertFeatures(r) ==
  /\ call[r].pc = "insert_features"
  /\ ~Taken(r)
  /\ registry' = registry \cup {"feature_version"}
  /\ features' = Insert(features, call[r].txn, call[r].vector)
  /\ call' = [call EXCEPT ![r].pc = "graph", ![r].inserts = {}]
  /\ UNCHANGED <<log, graphs, predictions, decisions, audits, clusters, batch>>

-----------------------------------------------------------------------------
(* Graph snapshot: compute_graph_for_transaction.                          *)

(* Mutant: the loop stops after its first SELECT.                          *)
SweepGraph_Once(r) ==
  LET t    == call[r].txn
      rows == Touching(t, {}, Committed)
  IN  /\ call[r].pc = "graph"
      /\ Moves(r, [call[r] EXCEPT !.pc = "check_graph",
                                  !.graph = GraphAssessment(t, rows)])

(* Mutant: the loop tests whether the SELECT returned rows, not new rows.  *)
SweepGraph_AnyRows(r) ==
  LET t    == call[r].txn
      rows == Touching(t, call[r].found, Committed)
  IN  /\ call[r].pc = "graph"
      /\ IF rows = {}
         THEN Moves(r, [call[r] EXCEPT
                          !.pc = "check_graph", !.found = {},
                          !.graph = GraphAssessment(t, call[r].found)])
         ELSE Moves(r, [call[r] EXCEPT !.found = @ \cup rows])

(* One round of the provider's loop, a SELECT of its own; when it finds    *)
(* nothing new the assessment is computed.                                 *)
SweepGraph(r) ==
  LET t    == call[r].txn
      rows == Touching(t, call[r].found, Committed)
  IN  /\ call[r].pc = "graph"
      /\ IF rows \subseteq call[r].found
         THEN Moves(r, [call[r] EXCEPT
                          !.pc = "check_graph", !.found = {},
                          !.graph = GraphAssessment(t, call[r].found)])
         ELSE Moves(r, [call[r] EXCEPT !.found = @ \cup rows])

(* Mutant: a stored snapshot replaces the one just computed.               *)
CheckGraph_UseStored(r) ==
  LET t == call[r].txn IN
  /\ call[r].pc = "check_graph"
  /\ IF t \in DOMAIN graphs
     THEN Moves(r, [call[r] EXCEPT !.pc = "score", !.graph = graphs[t]])
     ELSE Moves(r, [call[r] EXCEPT !.pc = "insert_graph",
                                   !.inserts = {"graphs"}])

(* The first half of _persist_assessment.                                  *)
CheckGraph(r) ==
  LET t == call[r].txn IN
  /\ call[r].pc = "check_graph"
  /\ CASE t \notin DOMAIN graphs ->
            Moves(r, [call[r] EXCEPT !.pc = "insert_graph",
                                     !.inserts = {"graphs"}])
       [] t \in DOMAIN graphs /\ graphs[t] = call[r].graph ->
            Moves(r, [call[r] EXCEPT !.pc = "score"])
       [] OTHER -> Ends(r, "GraphSnapshotConflictError")

InsertGraph(r) ==
  /\ call[r].pc = "insert_graph"
  /\ ~Taken(r)
  /\ graphs' = Insert(graphs, call[r].txn, call[r].graph)
  /\ call' = [call EXCEPT ![r].pc = "score", ![r].inserts = {}]
  /\ UNCHANGED <<log, registry, features, predictions, decisions, audits,
                 clusters, batch>>

-----------------------------------------------------------------------------
(* Prediction and decision.                                                *)

(* _ensure_model_registry, the prediction and _active_cluster_id: the      *)
(* cluster is the one active now, whatever the time of the payment.        *)
Score(r) ==
  LET t     == call[r].txn
      found == Active(clusters, t)
  IN  /\ call[r].pc = "score"
      /\ Moves(r, [call[r] EXCEPT
                     !.pc = "record",
                     !.inserts = Missing({"model_version"}, t, None),
                     !.cluster = IF found = {} THEN None ELSE Best(found)])

Prediction(r) ==
  [by |-> r, features |-> call[r].vector, graph |-> call[r].graph]

ClusterId(r) ==
  IF call[r].cluster = None THEN None ELSE call[r].cluster.fingerprint

(* The decision compares equal if action, reason and review flag do: they  *)
(* are functions of the prediction and of the cluster that was cited.      *)
(* Its signal rows, keyed like it, are written with it.                    *)
Decision(r) ==
  [by |-> r, cluster |-> ClusterId(r),
   prediction |-> IF call[r].txn \in DOMAIN predictions
                  THEN predictions[call[r].txn].by ELSE r]

SamePrediction(r) ==
  LET stored == predictions[call[r].txn] IN
  stored.features = call[r].vector /\ stored.graph = call[r].graph

SameDecision(r) ==
  decisions[<<call[r].txn, call[r].policy>>].cluster = ClusterId(r)

(* Mutant: a stored decision is not compared with the new one.             *)
FindStored_AnyDecision(r) ==
  LET t == call[r].txn
      p == call[r].policy
      new == Missing({"prediction", "decision"}, t, p)
      conflict == t \in DOMAIN predictions /\ ~SamePrediction(r)
  IN  /\ call[r].pc = "record"
      /\ CASE conflict -> Ends(r, "AssessmentConflictError")
           [] ~conflict /\ new \cup call[r].inserts = {} -> Ends(r, "ok")
           [] OTHER -> Moves(r, [call[r] EXCEPT !.pc = "commit",
                                                !.inserts = @ \cup new])

(* The SELECTs of _persist_prediction, _persist_signals, _persist_decision.*)
FindStored(r) ==
  LET t == call[r].txn
      p == call[r].policy
      new == Missing({"prediction", "decision"}, t, p)
      conflict == \/ t \in DOMAIN predictions /\ ~SamePrediction(r)
                  \/ <<t, p>> \in DOMAIN decisions /\ ~SameDecision(r)
  IN  /\ call[r].pc = "record"
      /\ CASE conflict -> Ends(r, "AssessmentConflictError")
           [] ~conflict /\ new \cup call[r].inserts = {} -> Ends(r, "ok")
           [] OTHER -> Moves(r, [call[r] EXCEPT !.pc = "commit",
                                                !.inserts = @ \cup new])

AuditEvents(kinds, r) ==
  { [kind |-> x, txn |-> call[r].txn, policy |-> call[r].policy, by |-> r] :
      x \in kinds }

(* Mutant: the audit events are written on every call.                     *)
CommitAssessment_AuditAlways(r) ==
  LET t == call[r].txn
      p == call[r].policy
      new == call[r].inserts
  IN  /\ call[r].pc = "commit"
      /\ ~Taken(r)
      /\ registry' = registry \cup (new \cap {"model_version"})
      /\ predictions' = IF "prediction" \in new
                        THEN Insert(predictions, t, Prediction(r))
                        ELSE predictions
      /\ decisions' = IF "decision" \in new
                      THEN Insert(decisions, <<t, p>>, Decision(r))
                      ELSE decisions
      /\ audits' = audits \cup AuditEvents({"prediction", "decision"}, r)
      /\ call' = [call EXCEPT ![r].pc = "done", ![r].reply = "ok",
                              ![r].inserts = {}]
      /\ UNCHANGED <<log, features, graphs, clusters, batch>>

(* The last commit: what was missing is inserted with its audit events.    *)
CommitAssessment(r) ==
  LET t == call[r].txn
      p == call[r].policy
      new == call[r].inserts
  IN  /\ call[r].pc = "commit"
      /\ ~Taken(r)
      /\ registry' = registry \cup (new \cap {"model_version"})
      /\ predictions' = IF "prediction" \in new
                        THEN Insert(predictions, t, Prediction(r))
                        ELSE predictions
      /\ decisions' = IF "decision" \in new
                      THEN Insert(decisions, <<t, p>>, Decision(r))
                      ELSE decisions
      /\ audits' = audits \cup AuditEvents(new \cap {"prediction", "decision"}, r)
      /\ call' = [call EXCEPT ![r].pc = "done", ![r].reply = "ok",
                              ![r].inserts = {}]
      /\ UNCHANGED <<log, features, graphs, clusters, batch>>

(* An insert of any of the three transactions meets a committed row.       *)
LoseRace(r) ==
  /\ call[r].pc \in {"insert_features", "insert_graph", "commit"}
  /\ Taken(r)
  /\ Ends(r, "IntegrityError")

(* Cancelled task, dead process or any other exception: the open database  *)
(* transaction is rolled back and nobody continues the call.               *)
Abandon(r) ==
  /\ call[r].pc \notin {"idle", "done", "gone"}
  /\ Moves(r, [Idle EXCEPT !.pc = "gone"])

-----------------------------------------------------------------------------
(* The rest of the system.                                                 *)

(* ingest_transaction commits a payment; events may arrive late.           *)
Ingest(t) ==
  /\ t \notin Committed
  /\ log' = Append(log, t)
  /\ UNCHANGED <<registry, features, graphs, predictions, decisions, audits,
                 clusters, call, batch>>

(* A backfill reads the first payments in the order of event time, all of  *)
(* them without --limit.                                                   *)
StartBackfill(j, R) ==
  /\ batch[j] = None
  /\ R # {}
  /\ \A u \in R, v \in Committed \ R : Time[u] <= Time[v]
  /\ batch' = [batch EXCEPT ![j] = R]
  /\ UNCHANGED <<database, call>>

(* Snapshots computed offline, merged with the stored ones.                *)
Filled(stored, offline) ==
  [t \in DOMAIN stored \cup DOMAIN offline |->
     IF t \in DOMAIN stored THEN stored[t] ELSE offline[t]]

Compatible(stored, offline) ==
  \A t \in DOMAIN stored \cap DOMAIN offline : stored[t] = offline[t]

OfflineFeatures(R) == [t \in R |-> FeatureVector(t, FeatureHistory(t, R))]
OfflineGraphs(R)   == [t \in R |-> GraphAssessment(t, GraphHistory(t, R))]

(* backfill_features: all snapshots in one commit.                         *)
FinishFeatureBackfill ==
  LET R == batch["features"] IN
  /\ "features" \in Jobs
  /\ R # None
  /\ Compatible(features, OfflineFeatures(R))
  /\ features' = Filled(features, OfflineFeatures(R))
  /\ registry' = registry \cup {"feature_version"}
  /\ batch' = [batch EXCEPT !["features"] = None]
  /\ UNCHANGED <<log, graphs, predictions, decisions, audits, clusters, call>>

(* backfill_graph: all snapshots and the clusters in one commit.           *)
FinishGraphBackfill ==
  LET R == batch["graphs"] IN
  /\ "graphs" \in Jobs
  /\ R # None
  /\ Compatible(graphs, OfflineGraphs(R))
  /\ graphs' = Filled(graphs, OfflineGraphs(R))
  /\ clusters' = PersistClusters(clusters, Detected(R))
  /\ batch' = [batch EXCEPT !["graphs"] = None]
  /\ UNCHANGED <<log, registry, features, predictions, decisions, audits, call>>

(* A conflict, a lost race, a crash: the script ends with a rollback.      *)
AbortBackfill(j) ==
  /\ batch[j] # None
  /\ batch' = [batch EXCEPT ![j] = None]
  /\ UNCHANGED <<database, call>>

CallStep(r) ==
  \/ ComputeFeatures(r) \/ CheckFeatures(r) \/ InsertFeatures(r)
  \/ SweepGraph(r) \/ CheckGraph(r) \/ InsertGraph(r)
  \/ Score(r) \/ FindStored(r) \/ CommitAssessment(r)
  \/ LoseRace(r)

Next ==
  \/ \E r \in Calls :
        \/ \E t \in Assessed, p \in Policies : Begin(r, t, p)
        \/ CallStep(r)
        \/ Abandon(r)
  \/ \E t \in Txns : Ingest(t)
  \/ \E j \in Jobs, R \in SUBSET Committed : StartBackfill(j, R)
  \/ FinishFeatureBackfill
  \/ FinishGraphBackfill
  \/ \E j \in Jobs : AbortBackfill(j)

Spec == Init /\ [][Next]_vars

(* A call that has begun is driven on; nothing else is owed.               *)
FairSpec == Spec /\ \A r \in Calls : WF_vars(CallStep(r))

-----------------------------------------------------------------------------

Vectors(t)   == { FeatureVector(t, H) : H \in SUBSET Txns }
GraphRows(t) == { GraphAssessment(t, H) : H \in SUBSET Txns }

Pcs == {"idle", "features", "check_features", "insert_features", "graph",
        "check_graph", "insert_graph", "score", "record", "commit", "done",
        "gone"}

(* Rows have their shape and refer to rows that are committed.             *)
TypeOK ==
  /\ log \in Seq(Txns)
  /\ registry \subseteq {"feature_version", "model_version"}
  /\ DOMAIN features \cup DOMAIN graphs \subseteq Committed
  /\ DOMAIN predictions \subseteq DOMAIN features \cap DOMAIN graphs
  /\ DOMAIN decisions \subseteq (DOMAIN predictions) \X Policies
  /\ DOMAIN features # {} => "feature_version" \in registry
  /\ DOMAIN predictions # {} => "model_version" \in registry
  /\ \A t \in DOMAIN features : features[t] \in Vectors(t)
  /\ \A t \in DOMAIN graphs : graphs[t] \in GraphRows(t)
  /\ \A t \in DOMAIN predictions : predictions[t].by \in Calls
  /\ \A r \in Calls : call[r].pc \in Pcs

(* An event that was committed after t although it happened before.        *)
Late(t, H) ==
  \E i, j \in DOMAIN log : i < j /\ log[i] = t /\ log[j] \in H

(* Online and offline agree: a snapshot written by a call, with one SELECT *)
(* per round of the graph loop, is what a backfill over all payments would *)
(* compute, unless an earlier event that it depends on came in late.       *)
SnapshotsMatchOffline ==
  \A t \in Txns :
    LET F == FeatureHistory(t, Committed)
        G == GraphHistory(t, Committed)
    IN  /\ t \in DOMAIN features =>
             features[t] = FeatureVector(t, F) \/ Late(t, F)
        /\ t \in DOMAIN graphs =>
             graphs[t] = GraphAssessment(t, G) \/ Late(t, G)

(* An assessment is refused over a snapshot only if late events made the   *)
(* stored one obsolete, and over a decision only once clusters exist.      *)
RefusalsExplained ==
  \A r \in Calls :
    LET t == call[r].txn IN
    CASE call[r].reply = "FeatureSnapshotConflictError" ->
           Late(t, FeatureHistory(t, Committed))
      [] call[r].reply = "GraphSnapshotConflictError" ->
           Late(t, GraphHistory(t, Committed))
      [] call[r].reply = "AssessmentConflictError" -> clusters # {}
      [] OTHER -> TRUE

(* A prediction never joins newer features to an older graph: what the     *)
(* features have counted is in the graph, also if the two snapshots were   *)
(* written by different sessions around a late event.                      *)
EvidenceConsistent ==
  \A t \in DOMAIN predictions :
    LET f == predictions[t].features
        g == predictions[t].graph
    IN  /\ f.source <= g.source /\ g.source < Time[t]
        /\ \A k \in EntityTypes :
             f.seen[k] > 0 => Entity(t, k) \in UNION g.edges

(* The "immutable risk prediction mismatch" of _persist_prediction cannot  *)
(* arise: the snapshots checked before already pin the stored prediction.  *)
PredictionNeverConflicts ==
  \A r \in Calls :
    call[r].pc = "record" /\ call[r].txn \in DOMAIN predictions
      => SamePrediction(r)

(* Every prediction and every decision has exactly one audit event, of the *)
(* call that wrote it, and no audit event is without its row.              *)
AuditTrailComplete ==
  /\ \A a \in audits :
       \/ /\ a.kind = "prediction" /\ a.txn \in DOMAIN predictions
          /\ predictions[a.txn].by = a.by
       \/ /\ a.kind = "decision" /\ <<a.txn, a.policy>> \in DOMAIN decisions
          /\ decisions[<<a.txn, a.policy>>].by = a.by
  /\ \A t \in DOMAIN predictions :
       \E a \in audits : a.kind = "prediction" /\ a.txn = t
  /\ \A d \in DOMAIN decisions :
       \E a \in audits : a.kind = "decision" /\ <<a.txn, a.policy>> = d
  /\ \A a, b \in audits :
       /\ a.kind = b.kind /\ a.txn = b.txn
       /\ a.kind = "decision" => a.policy = b.policy
     => a = b

(* Whoever is answered 200 for the same payment and policy, and whenever,  *)
(* was told the same, and it is what the database holds.                   *)
AnswersAgree ==
  \A r \in Calls :
    LET t == call[r].txn
        p == call[r].policy
    IN  call[r].reply = "ok" =>
          /\ t \in DOMAIN predictions /\ SamePrediction(r)
          /\ <<t, p>> \in DOMAIN decisions /\ SameDecision(r)
          /\ decisions[<<t, p>>].prediction = predictions[t].by

(* README.md, line 124: a decision uses nothing that happened at or after  *)
(* the time of its payment -- here of the cluster it cites.                *)
ClusterIsPast ==
  \A r \in Calls :
    call[r].cluster # None => call[r].cluster.last < Time[call[r].txn]

(* Every call that has begun ends: the graph loop runs out of new payments *)
(* and losing a race ends a call, it does not block it.                    *)
CallsEnd ==
  \A r \in Calls :
    call[r].pc = "features" ~> call[r].pc \in {"done", "gone"}

(* Assessment implements the records' promise.                             *)
Records == INSTANCE AssessmentRecords WITH
  predictions <- [t \in DOMAIN predictions |->
                    [features |-> predictions[t].features,
                     graph |-> predictions[t].graph]],
  decided     <- DOMAIN decisions,
  audited     <- { [kind |-> a.kind, txn |-> a.txn, policy |-> a.policy] :
                     a \in audits }

ImplementsRecords == Records!Spec

=============================================================================
