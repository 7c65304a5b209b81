-------------------------- MODULE AssessmentProofs --------------------------
(***************************************************************************)
(* What assessment keeps true for every set of payments, calls and         *)
(* policies, in every order of events.  The argument: no action changes or *)
(* removes a committed row (Grows), and what a call remembers of the rows  *)
(* it has seen, Local, survives every step that only adds rows.            *)
(***************************************************************************)
EXTENDS Assessment, TLAPS

Tables == {"feature_version", "features", "graphs", "model_version",
           "prediction", "decision"}

(* The local state of a call is a record of this shape.                    *)
Shape(c) ==
  c \in [pc : Pcs, txn : Txns \cup {None}, policy : Policies \cup {None},
         vector : {c.vector}, found : SUBSET Txns, graph : {c.graph},
         cluster : {c.cluster}, inserts : SUBSET Tables, reply : {c.reply}]

(* What a call knows at each point: that its payment exists, what it has   *)
(* computed, which of its rows are committed and which it found missing.   *)
Fits(c) ==
  /\ c.pc \notin {"idle", "done", "gone"} =>
       c.txn \in Committed /\ c.policy \in Policies
  /\ c.pc \in {"check_features", "insert_features"} => c.vector \in Vectors(c.txn)
  /\ c.pc = "insert_features" => "features" \in c.inserts
  /\ c.pc \in {"graph", "check_graph", "insert_graph", "score", "record", "commit"} =>
       c.txn \in DOMAIN features /\ features[c.txn] = c.vector
  /\ c.pc = "graph" => c.found \subseteq Txns
  /\ c.pc \in {"check_graph", "insert_graph"} => c.graph \in GraphRows(c.txn)
  /\ c.pc = "insert_graph" => "graphs" \in c.inserts
  /\ c.pc \in {"score", "record", "commit"} =>
       c.txn \in DOMAIN graphs /\ graphs[c.txn] = c.graph
  /\ c.pc \in {"record", "commit"} =>
       ("model_version" \notin c.inserts => "model_version" \in registry)
  /\ c.pc = "record" => c.inserts \subseteq {"model_version"}
  /\ c.pc = "commit" =>
       /\ c.inserts # {}
       /\ c.inserts \subseteq {"model_version", "prediction", "decision"}
       /\ "prediction" \notin c.inserts => c.txn \in DOMAIN predictions
       /\ "decision" \notin c.inserts => <<c.txn, c.policy>> \in DOMAIN decisions

(* Only a finished call has an answer, and the answer 200 is what the      *)
(* database holds.                                                         *)
Told(c) ==
  /\ c.pc # "done" => c.reply = "none"
  /\ c.reply = "ok" =>
       /\ c.txn \in DOMAIN predictions
       /\ predictions[c.txn].features = c.vector
       /\ predictions[c.txn].graph = c.graph
       /\ <<c.txn, c.policy>> \in DOMAIN decisions
       /\ decisions[<<c.txn, c.policy>>].cluster =
            (IF c.cluster = None THEN None ELSE c.cluster.fingerprint)
       /\ decisions[<<c.txn, c.policy>>].prediction = predictions[c.txn].by

Local(c) == Shape(c) /\ Fits(c) /\ Told(c)

(* The rows refer to one another.                                          *)
TablesOK ==
  /\ log \in Seq(Txns)
  /\ registry \subseteq {"feature_version", "model_version"}
  /\ DOMAIN features \cup DOMAIN graphs \subseteq Committed
  /\ DOMAIN predictions \subseteq DOMAIN features \cap DOMAIN graphs
  /\ DOMAIN decisions \subseteq (DOMAIN predictions) \X Policies
  /\ DOMAIN features # {} => "feature_version" \in registry
  /\ DOMAIN predictions # {} => "model_version" \in registry
  /\ \A t \in DOMAIN features : features[t] \in Vectors(t)
  /\ \A t \in DOMAIN graphs : graphs[t] \in GraphRows(t)
  /\ \A t \in DOMAIN predictions :
       /\ predictions[t].by \in Calls
       /\ predictions[t].features = features[t]
       /\ predictions[t].graph = graphs[t]
  /\ \A d \in DOMAIN decisions : decisions[d].prediction = predictions[d[1]].by

AuditsTyped ==
  audits \subseteq [kind : {"prediction", "decision"}, txn : Txns,
                    policy : Policies, by : Calls]

(* A backfill works on payments that are committed.                        *)
BatchOK ==
  /\ batch = [j \in Jobs |-> batch[j]]
  /\ \A j \in Jobs : batch[j] \in {None} \cup SUBSET Committed

IInv ==
  /\ TablesOK
  /\ AuditsTyped
  /\ AuditTrailComplete
  /\ BatchOK
  /\ call = [r \in Calls |-> call[r]]
  /\ \A r \in Calls : Local(call[r])

(* Committed rows stay as they are.                                        *)
Keeps(old, new) ==
  DOMAIN old \subseteq DOMAIN new /\ \A k \in DOMAIN old : new[k] = old[k]

Grows ==
  /\ Committed \subseteq Committed'
  /\ registry \subseteq registry'
  /\ Keeps(features, features')
  /\ Keeps(graphs, graphs')
  /\ Keeps(predictions, predictions')
  /\ Keeps(decisions, decisions')

-----------------------------------------------------------------------------

LEMMA KeepsRefl == \A table : Keeps(table, table)
BY DEF Keeps

(* The memory of a call stays true while rows are only added.              *)
LEMMA LocalPersists ==
  ASSUME NEW c, Local(c), Grows
  PROVE  Local(c)'
<1>1. Shape(c)'
  BY DEF Local, Shape
<1>2. Fits(c)'
  BY DEF Local, Fits, Grows, Keeps
<1>3. Told(c)'
  BY DEF Local, Told, Grows, Keeps
<1> QED
  BY <1>1, <1>2, <1>3 DEF Local

(* An action that changes one call and only adds rows keeps what all calls *)
(* remember, if it keeps what that one remembers.                          *)
LEMMA OneCallMoves ==
  ASSUME IInv, Grows, NEW r \in Calls, NEW c, Local(c)',
         call' = [call EXCEPT ![r] = c]
  PROVE  call' = [q \in Calls |-> call'[q]] /\ \A q \in Calls : Local(call[q])'
<1>1. call' = [q \in Calls |-> call'[q]] /\ call'[r] = c
  BY DEF IInv
<1>2. ASSUME NEW q \in Calls, q # r
      PROVE  Local(call[q])'
  <2>1. PICK d : d = call[q]
    OBVIOUS
  <2>2. Local(d)'
    BY <2>1, LocalPersists DEF IInv
  <2>3. call'[q] = d
    BY <1>2, <2>1 DEF IInv
  <2> QED
    BY <2>2, <2>3 DEF Local, Shape, Fits, Told
<1>3. Local(call[r])'
  BY <1>1 DEF Local, Shape, Fits, Told
<1> QED
  BY <1>1, <1>2, <1>3

-----------------------------------------------------------------------------
(* Steps that only change a call.                                          *)

LEMMA MovePreserves ==
  ASSUME IInv, NEW r \in Calls, NEW c, Local(c), Moves(r, c)
  PROVE  IInv' /\ Grows
<1>1. /\ UNCHANGED <<log, registry, features, graphs, predictions, decisions,
                     audits, clusters, batch>>
      /\ call' = [call EXCEPT ![r] = c]
  BY DEF Moves, database
<1>2. Grows
  BY <1>1, KeepsRefl DEF Grows, Committed
<1>3. Local(c)'
  BY <1>2, LocalPersists
<1>4. call' = [q \in Calls |-> call'[q]] /\ \A q \in Calls : Local(call[q])'
  BY <1>1, <1>2, <1>3, OneCallMoves
<1>5. TablesOK'
  BY <1>1 DEF IInv, TablesOK, Committed
<1>6. AuditsTyped' /\ AuditTrailComplete'
  BY <1>1 DEF IInv, AuditsTyped, AuditTrailComplete
<1>7. BatchOK'
  BY <1>1 DEF IInv, BatchOK, Committed
<1> QED
  BY <1>2, <1>4, <1>5, <1>6, <1>7 DEF IInv

LEMMA EndPreserves ==
  ASSUME IInv, NEW r \in Calls, NEW reply, reply # "ok", Ends(r, reply)
  PROVE  IInv' /\ Grows
<1>1. PICK c : c = [Idle EXCEPT !.pc = "done", !.reply = reply,
                                !.txn = call[r].txn, !.policy = call[r].policy]
  OBVIOUS
<1>2. Moves(r, c)
  BY <1>1 DEF Ends
<1>3. Shape(call[r])
  BY DEF IInv, Local
<1>4. Shape(c) /\ c.pc = "done" /\ c.reply = reply
  BY <1>1, <1>3 DEF Shape, Idle, Pcs
<1>5. Local(c)
  BY <1>4 DEF Local, Fits, Told
<1> QED
  BY <1>2, <1>5, MovePreserves

LEMMA BeginPreserves ==
  ASSUME IInv, NEW r \in Calls, NEW t \in Txns, NEW p \in Policies, Begin(r, t, p)
  PROVE  IInv' /\ Grows
<1>1. PICK c : c = [call[r] EXCEPT
                      !.txn = t, !.policy = p,
                      !.pc = IF t \in Committed THEN "features" ELSE "done",
                      !.reply = IF t \in Committed THEN "none" ELSE "not_found"]
  OBVIOUS
<1>2. Moves(r, c)
  BY <1>1 DEF Begin
<1>3. Local(call[r])
  BY DEF IInv
<1>4. /\ Shape(c) /\ c.txn = t /\ c.policy = p
      /\ c.pc = IF t \in Committed THEN "features" ELSE "done"
      /\ c.reply = IF t \in Committed THEN "none" ELSE "not_found"
  BY <1>1, <1>3 DEF Local, Shape, Pcs
<1>5. Local(c)
  BY <1>4 DEF Local, Fits, Told
<1> QED
  BY <1>2, <1>5, MovePreserves

LEMMA HistoryTyped ==
  ASSUME TablesOK, NEW t \in Txns, NEW R \in SUBSET Committed
  PROVE  /\ Committed \subseteq Txns
         /\ FeatureVector(t, FeatureHistory(t, R)) \in Vectors(t)
         /\ GraphAssessment(t, GraphHistory(t, R)) \in GraphRows(t)
<1>1. Committed \subseteq Txns
  BY DEF TablesOK, Committed
<1>2. FeatureHistory(t, R) \in SUBSET Txns
  BY <1>1 DEF FeatureHistory
<1>3. GraphHistory(t, R) \in SUBSET Txns
  BY <1>1 DEF GraphHistory
<1> QED
  BY <1>1, <1>2, <1>3 DEF Vectors, GraphRows

LEMMA ComputeFeaturesPreserves ==
  ASSUME IInv, NEW r \in Calls, ComputeFeatures(r)
  PROVE  IInv' /\ Grows
<1> DEFINE v == FeatureVector(call[r].txn, FeatureHistory(call[r].txn, Committed))
<1>1. PICK c : c = [call[r] EXCEPT !.pc = "check_features", !.vector = v]
  OBVIOUS
<1>2. Moves(r, c)
  BY <1>1 DEF ComputeFeatures
<1>3. Local(call[r]) /\ call[r].pc = "features"
  BY DEF IInv, ComputeFeatures
<1>4. call[r].txn \in Committed /\ call[r].policy \in Policies
  BY <1>3 DEF Local, Fits
<1>5. v \in Vectors(call[r].txn)
  BY <1>4, HistoryTyped DEF IInv, TablesOK, Committed
<1> HIDE DEF v
<1>6. /\ Shape(c) /\ c.txn = call[r].txn /\ c.policy = call[r].policy
      /\ c.pc = "check_features" /\ c.vector = v /\ c.reply = "none"
  BY <1>1, <1>3 DEF Local, Shape, Pcs, Told
<1>7. Local(c)
  BY <1>4, <1>5, <1>6 DEF Local, Fits, Told
<1> QED
  BY <1>2, <1>7, MovePreserves

LEMMA CheckFeaturesPreserves ==
  ASSUME IInv, NEW r \in Calls, CheckFeatures(r)
  PROVE  IInv' /\ Grows
<1> DEFINE t == call[r].txn
           rows == Missing({"feature_version", "features"}, t, call[r].policy)
<1>1. Local(call[r]) /\ call[r].pc = "check_features"
  BY DEF IInv, CheckFeatures
<1>2. CASE t \notin DOMAIN features
  <2>1. PICK c : c = [call[r] EXCEPT !.pc = "insert_features", !.inserts = rows]
    OBVIOUS
  <2>2. Moves(r, c)
    BY <1>2, <2>1 DEF CheckFeatures
  <2>3. "features" \in rows /\ rows \subseteq Tables
    <3>1. ~Exists("features", t, call[r].policy)
      BY <1>2 DEF Exists, IInv, TablesOK
    <3> QED
      BY <3>1 DEF Missing, Tables
  <2> HIDE DEF rows
  <2>4. /\ Shape(c) /\ c.txn = t /\ c.policy = call[r].policy
        /\ c.pc = "insert_features" /\ c.vector = call[r].vector
        /\ c.inserts = rows /\ c.reply = "none"
    BY <1>1, <2>1, <2>3 DEF Local, Shape, Pcs, Told
  <2>5. Local(c)
    BY <1>1, <2>3, <2>4 DEF Local, Fits, Told
  <2> QED
    BY <2>2, <2>5, MovePreserves
<1>3. CASE t \in DOMAIN features /\ features[t] = call[r].vector
  <2>1. PICK c : c = [call[r] EXCEPT !.pc = "graph"]
    OBVIOUS
  <2>2. Moves(r, c)
    BY <1>3, <2>1 DEF CheckFeatures
  <2>3. /\ Shape(c) /\ c.txn = t /\ c.policy = call[r].policy
        /\ c.pc = "graph" /\ c.vector = call[r].vector /\ c.reply = "none"
    BY <1>1, <2>1 DEF Local, Shape, Pcs, Told
  <2>4. Local(c)
    BY <1>1, <1>3, <2>3 DEF Local, Fits, Told, Shape
  <2> QED
    BY <2>2, <2>4, MovePreserves
<1>4. CASE t \in DOMAIN features /\ features[t] # call[r].vector
  <2>1. Ends(r, "FeatureSnapshotConflictError")
    BY <1>4 DEF CheckFeatures
  <2> QED
    BY <2>1, EndPreserves
<1> QED
  BY <1>2, <1>3, <1>4

LEMMA SweepGraphPreserves ==
  ASSUME IInv, NEW r \in Calls, SweepGraph(r)
  PROVE  IInv' /\ Grows
<1> DEFINE t    == call[r].txn
           rows == Touching(t, call[r].found, Committed)
           g    == GraphAssessment(t, call[r].found)
<1>1. Local(call[r]) /\ call[r].pc = "graph" /\ rows \subseteq Txns
  <2>1. Local(call[r]) /\ call[r].pc = "graph"
    BY DEF IInv, SweepGraph
  <2>2. rows \subseteq Committed
    BY DEF Touching
  <2>3. t \in Txns
    BY <2>1 DEF Local, Fits, IInv, TablesOK, Committed
  <2> QED
    BY <2>1, <2>2, <2>3 DEF IInv, TablesOK, Committed
<1>2. g \in GraphRows(t)
  BY <1>1 DEF Local, Fits, GraphRows
<1>3. CASE rows \subseteq call[r].found
  <2>1. PICK c : c = [call[r] EXCEPT !.pc = "check_graph", !.found = {}, !.graph = g]
    OBVIOUS
  <2>2. Moves(r, c)
    BY <1>3, <2>1 DEF SweepGraph
  <2> HIDE DEF rows, g
  <2>3. /\ Shape(c) /\ c.txn = t /\ c.policy = call[r].policy
        /\ c.pc = "check_graph" /\ c.vector = call[r].vector
        /\ c.graph = g /\ c.reply = "none"
    BY <1>1, <2>1 DEF Local, Shape, Pcs, Told
  <2>4. Local(c)
    BY <1>1, <1>2, <2>3 DEF Local, Fits, Told
  <2> QED
    BY <2>2, <2>4, MovePreserves
<1>4. CASE ~(rows \subseteq call[r].found)
  <2>1. PICK c : c = [call[r] EXCEPT !.found = @ \cup rows]
    OBVIOUS
  <2>2. Moves(r, c)
    BY <1>4, <2>1 DEF SweepGraph
  <2> HIDE DEF rows, g
  <2>3. /\ Shape(c) /\ c.txn = t /\ c.policy = call[r].policy
        /\ c.pc = "graph" /\ c.vector = call[r].vector
        /\ c.found = call[r].found \cup rows /\ c.reply = "none"
    BY <1>1, <2>1 DEF Local, Shape, Pcs, Told
  <2>4. Local(c)
    BY <1>1, <2>3 DEF Local, Fits, Told
  <2> QED
    BY <2>2, <2>4, MovePreserves
<1> QED
  BY <1>3, <1>4

LEMMA CheckGraphPreserves ==
  ASSUME IInv, NEW r \in Calls, CheckGraph(r)
  PROVE  IInv' /\ Grows
<1> DEFINE t == call[r].txn
<1>1. Local(call[r]) /\ call[r].pc = "check_graph"
  BY DEF IInv, CheckGraph
<1>2. CASE t \notin DOMAIN graphs
  <2>1. PICK c : c = [call[r] EXCEPT !.pc = "insert_graph", !.inserts = {"graphs"}]
    OBVIOUS
  <2>2. Moves(r, c)
    BY <1>2, <2>1 DEF CheckGraph
  <2>3. /\ Shape(c) /\ c.txn = t /\ c.policy = call[r].policy
        /\ c.pc = "insert_graph" /\ c.vector = call[r].vector
        /\ c.graph = call[r].graph /\ c.inserts = {"graphs"} /\ c.reply = "none"
    BY <1>1, <2>1 DEF Local, Shape, Pcs, Told, Tables
  <2>4. Local(c)
    BY <1>1, <2>3 DEF Local, Fits, Told
  <2> QED
    BY <2>2, <2>4, MovePreserves
<1>3. CASE t \in DOMAIN graphs /\ graphs[t] = call[r].graph
  <2>1. PICK c : c = [call[r] EXCEPT !.pc = "score"]
    OBVIOUS
  <2>2. Moves(r, c)
    BY <1>3, <2>1 DEF CheckGraph
  <2>3. /\ Shape(c) /\ c.txn = t /\ c.policy = call[r].policy
        /\ c.pc = "score" /\ c.vector = call[r].vector
        /\ c.graph = call[r].graph /\ c.reply = "none"
    BY <1>1, <2>1 DEF Local, Shape, Pcs, Told
  <2>4. Local(c)
    BY <1>1, <1>3, <2>3 DEF Local, Fits, Told
  <2> QED
    BY <2>2, <2>4, MovePreserves
<1>4. CASE t \in DOMAIN graphs /\ graphs[t] # call[r].graph
  <2>1. Ends(r, "GraphSnapshotConflictError")
    BY <1>4 DEF CheckGraph
  <2> QED
    BY <2>1, EndPreserves
<1> QED
  BY <1>2, <1>3, <1>4

LEMMA ScorePreserves ==
  ASSUME IInv, NEW r \in Calls, Score(r)
  PROVE  IInv' /\ Grows
<1> DEFINE t    == call[r].txn
           rows == Missing({"model_version"}, t, None)
           best == IF Active(clusters, t) = {} THEN None ELSE Best(Active(clusters, t))
<1>1. Local(call[r]) /\ call[r].pc = "score"
  BY DEF IInv, Score
<1>2. PICK c : c = [call[r] EXCEPT !.pc = "record", !.inserts = rows, !.cluster = best]
  OBVIOUS
<1>3. Moves(r, c)
  BY <1>2 DEF Score
<1>4. /\ rows \subseteq {"model_version"}
      /\ "model_version" \notin rows => "model_version" \in registry
  BY DEF Missing, Exists
<1> HIDE DEF rows, best
<1>5. /\ Shape(c) /\ c.txn = t /\ c.policy = call[r].policy
      /\ c.pc = "record" /\ c.vector = call[r].vector
      /\ c.graph = call[r].graph /\ c.inserts = rows /\ c.reply = "none"
  BY <1>1, <1>2, <1>4 DEF Local, Shape, Pcs, Told, Tables
<1>6. Local(c)
  BY <1>1, <1>4, <1>5 DEF Local, Fits, Told
<1> QED
  BY <1>3, <1>6, MovePreserves

LEMMA FindStoredPreserves ==
  ASSUME IInv, NEW r \in Calls, FindStored(r)
  PROVE  IInv' /\ Grows
<1> DEFINE t   == call[r].txn
           p   == call[r].policy
           new == Missing({"prediction", "decision"}, t, p)
           conflict == \/ t \in DOMAIN predictions /\ ~SamePrediction(r)
                       \/ <<t, p>> \in DOMAIN decisions /\ ~SameDecision(r)
<1>1. Local(call[r]) /\ call[r].pc = "record"
  BY DEF IInv, FindStored
<1>2. /\ new \subseteq {"prediction", "decision"}
      /\ "prediction" \notin new => t \in DOMAIN predictions
      /\ "decision" \notin new => <<t, p>> \in DOMAIN decisions
  BY DEF Missing, Exists, IInv, TablesOK
<1>3. CASE conflict
  <2>1. Ends(r, "AssessmentConflictError")
    BY <1>3 DEF FindStored
  <2> QED
    BY <2>1, EndPreserves
<1>4. CASE ~conflict /\ new \cup call[r].inserts = {}
  <2>1. PICK c : c = [call[r] EXCEPT !.pc = "done", !.reply = "ok"]
    OBVIOUS
  <2>2. Moves(r, c)
    BY <1>4, <2>1 DEF FindStored, Ends
  <2>3. /\ Shape(c) /\ c.txn = t /\ c.policy = p
        /\ c.pc = "done" /\ c.vector = call[r].vector
        /\ c.graph = call[r].graph /\ c.cluster = call[r].cluster /\ c.reply = "ok"
    BY <1>1, <2>1 DEF Local, Shape, Pcs
  <2>4. t \in DOMAIN predictions /\ <<t, p>> \in DOMAIN decisions
    BY <1>2, <1>4
  <2>5. decisions[<<t, p>>].prediction = predictions[t].by
    BY <2>4 DEF IInv, TablesOK
  <2>6. Told(c)
    BY <1>4, <2>3, <2>4, <2>5 DEF Told, SamePrediction, SameDecision, ClusterId
  <2>7. Local(c)
    BY <2>3, <2>6 DEF Local, Fits
  <2> QED
    BY <2>2, <2>7, MovePreserves
<1>5. CASE ~conflict /\ new \cup call[r].inserts # {}
  <2>1. PICK c : c = [call[r] EXCEPT !.pc = "commit", !.inserts = @ \cup new]
    OBVIOUS
  <2>2. Moves(r, c)
    <3>1. Moves(r, [call[r] EXCEPT !.pc = "commit", !.inserts = @ \cup new])
      BY <1>5 DEF FindStored
    <3> QED
      BY <2>1, <3>1
  <2> HIDE DEF new, conflict
  <2>3. /\ Shape(c) /\ c.txn = t /\ c.policy = p
        /\ c.pc = "commit" /\ c.vector = call[r].vector
        /\ c.graph = call[r].graph /\ c.inserts = call[r].inserts \cup new
        /\ c.reply = "none"
    BY <1>1, <1>2, <2>1 DEF Local, Shape, Pcs, Told, Tables
  <2>4. Local(c)
    BY <1>1, <1>2, <1>5, <2>3 DEF Local, Fits, Told
  <2> QED
    BY <2>2, <2>4, MovePreserves
<1> QED
  BY <1>3, <1>4, <1>5

LEMMA LoseRacePreserves ==
  ASSUME IInv, NEW r \in Calls, LoseRace(r)
  PROVE  IInv' /\ Grows
BY EndPreserves DEF LoseRace

LEMMA AbandonPreserves ==
  ASSUME IInv, NEW r \in Calls, Abandon(r)
  PROVE  IInv' /\ Grows
<1>1. PICK c : c = [Idle EXCEPT !.pc = "gone"]
  OBVIOUS
<1>2. Moves(r, c)
  BY <1>1 DEF Abandon
<1>3. Shape(c) /\ c.pc = "gone" /\ c.reply = "none"
  BY <1>1 DEF Shape, Idle, Pcs
<1>4. Local(c)
  BY <1>3 DEF Local, Fits, Told
<1> QED
  BY <1>2, <1>4, MovePreserves

-----------------------------------------------------------------------------
(* Steps that write rows.                                                  *)

LEMMA InsertFeaturesPreserves ==
  ASSUME IInv, NEW r \in Calls, InsertFeatures(r)
  PROVE  IInv' /\ Grows
<1> DEFINE t == call[r].txn
<1>1. Local(call[r]) /\ call[r].pc = "insert_features"
  BY DEF IInv, InsertFeatures
<1>2. /\ t \in Committed /\ t \notin DOMAIN features
      /\ call[r].vector \in Vectors(t)
  BY <1>1 DEF Local, Fits, InsertFeatures, Taken, Exists
<1>3. PICK c : c = [call[r] EXCEPT !.pc = "graph", !.inserts = {}]
  OBVIOUS
<1>4. /\ call' = [call EXCEPT ![r] = c]
      /\ features' = Insert(features, t, call[r].vector)
      /\ registry' = registry \cup {"feature_version"}
      /\ UNCHANGED <<log, graphs, predictions, decisions, audits, batch>>
  BY <1>1, <1>3 DEF InsertFeatures, IInv
<1>5. /\ DOMAIN features' = DOMAIN features \cup {t}
      /\ features'[t] = call[r].vector
      /\ \A u \in DOMAIN features : features'[u] = features[u]
  BY <1>2, <1>4 DEF Insert
<1>6. Grows
  BY <1>4, <1>5, KeepsRefl DEF Grows, Keeps, Committed
<1>7. /\ Shape(c) /\ c.txn = t /\ c.policy = call[r].policy
      /\ c.pc = "graph" /\ c.vector = call[r].vector /\ c.reply = "none"
  BY <1>1, <1>3 DEF Local, Shape, Pcs, Told
<1>8. Local(c)'
  <2>1. Shape(c)'
    BY <1>7 DEF Shape
  <2>2. Fits(c)'
    BY <1>1, <1>2, <1>4, <1>5, <1>7 DEF Local, Shape, Fits, Committed
  <2> QED
    BY <1>7, <2>1, <2>2 DEF Local, Told
<1>9. call' = [q \in Calls |-> call'[q]] /\ \A q \in Calls : Local(call[q])'
  BY <1>4, <1>6, <1>8, OneCallMoves
<1>10. TablesOK'
  BY <1>2, <1>4, <1>5 DEF IInv, TablesOK, Committed, Vectors, GraphRows
<1>11. AuditsTyped' /\ AuditTrailComplete' /\ BatchOK'
  BY <1>4 DEF IInv, AuditsTyped, AuditTrailComplete, BatchOK, Committed
<1> QED
  BY <1>6, <1>9, <1>10, <1>11 DEF IInv

LEMMA InsertGraphPreserves ==
  ASSUME IInv, NEW r \in Calls, InsertGraph(r)
  PROVE  IInv' /\ Grows
<1> DEFINE t == call[r].txn
<1>1. Local(call[r]) /\ call[r].pc = "insert_graph"
  BY DEF IInv, InsertGraph
<1>2. /\ t \in Committed /\ t \notin DOMAIN graphs
      /\ call[r].graph \in GraphRows(t)
      /\ t \in DOMAIN features /\ features[t] = call[r].vector
  BY <1>1 DEF Local, Fits, InsertGraph, Taken, Exists
<1>3. PICK c : c = [call[r] EXCEPT !.pc = "score", !.inserts = {}]
  OBVIOUS
<1>4. /\ call' = [call EXCEPT ![r] = c]
      /\ graphs' = Insert(graphs, t, call[r].graph)
      /\ UNCHANGED <<log, registry, features, predictions, decisions, audits, batch>>
  BY <1>1, <1>3 DEF InsertGraph, IInv
<1>5. /\ DOMAIN graphs' = DOMAIN graphs \cup {t}
      /\ graphs'[t] = call[r].graph
      /\ \A u \in DOMAIN graphs : graphs'[u] = graphs[u]
  BY <1>2, <1>4 DEF Insert
<1>6. Grows
  BY <1>4, <1>5, KeepsRefl DEF Grows, Keeps, Committed
<1>7. /\ Shape(c) /\ c.txn = t /\ c.policy = call[r].policy
      /\ c.pc = "score" /\ c.vector = call[r].vector
      /\ c.graph = call[r].graph /\ c.reply = "none"
  BY <1>1, <1>3 DEF Local, Shape, Pcs, Told
<1>8. Local(c)'
  <2>1. Shape(c)'
    BY <1>7 DEF Shape
  <2>2. Fits(c)'
    BY <1>1, <1>2, <1>4, <1>5, <1>7 DEF Local, Fits, Committed
  <2> QED
    BY <1>7, <2>1, <2>2 DEF Local, Told
<1>9. call' = [q \in Calls |-> call'[q]] /\ \A q \in Calls : Local(call[q])'
  BY <1>4, <1>6, <1>8, OneCallMoves
<1>10. TablesOK'
  BY <1>2, <1>4, <1>5 DEF IInv, TablesOK, Committed, Vectors, GraphRows
<1>11. AuditsTyped' /\ AuditTrailComplete' /\ BatchOK'
  BY <1>4 DEF IInv, AuditsTyped, AuditTrailComplete, BatchOK, Committed
<1> QED
  BY <1>6, <1>9, <1>10, <1>11 DEF IInv

(* The unique keys leave the last commit nothing to overwrite: the         *)
(* decision is new, and the prediction is new or is the one r has checked. *)
LEMMA CommitFacts ==
  ASSUME IInv, NEW r \in Calls, CommitAssessment(r),
         NEW t, t = call[r].txn, NEW p, p = call[r].policy
  PROVE  /\ t \in Committed /\ p \in Policies
         /\ t \in DOMAIN features \cap DOMAIN graphs
         /\ features[t] = call[r].vector /\ graphs[t] = call[r].graph
         /\ "decision" \in call[r].inserts
         /\ <<t, p>> \notin DOMAIN decisions
         /\ "prediction" \in call[r].inserts <=> t \notin DOMAIN predictions
         /\ "model_version" \in registry'
<1>1. Local(call[r]) /\ call[r].pc = "commit"
  BY DEF IInv, CommitAssessment
<1>2. \A x \in call[r].inserts : ~Exists(x, t, p)
  BY DEF CommitAssessment, Taken
<1>3. /\ t \in Committed /\ p \in Policies
      /\ t \in DOMAIN features \cap DOMAIN graphs
      /\ features[t] = call[r].vector /\ graphs[t] = call[r].graph
      /\ "model_version" \notin call[r].inserts => "model_version" \in registry
      /\ call[r].inserts # {}
      /\ call[r].inserts \subseteq {"model_version", "prediction", "decision"}
      /\ "prediction" \notin call[r].inserts => t \in DOMAIN predictions
      /\ "decision" \notin call[r].inserts => <<t, p>> \in DOMAIN decisions
  BY <1>1 DEF Local, Fits
<1>4. "prediction" \in call[r].inserts <=> t \notin DOMAIN predictions
  BY <1>2, <1>3 DEF Exists
<1>5. <<t, p>> \in DOMAIN decisions => t \in DOMAIN predictions
  BY DEF IInv, TablesOK
<1>6. t \in DOMAIN predictions => "model_version" \in registry
  BY DEF IInv, TablesOK
<1>7. "decision" \in call[r].inserts
  BY <1>2, <1>3, <1>4, <1>5, <1>6 DEF Exists
<1>8. <<t, p>> \notin DOMAIN decisions
  BY <1>2, <1>7 DEF Exists
<1>9. "model_version" \in registry'
  BY <1>3 DEF CommitAssessment
<1> QED
  BY <1>3, <1>4, <1>7, <1>8, <1>9

(* What the last commit does to the tables.                                *)
LEMMA CommitEffect ==
  ASSUME IInv, NEW r \in Calls, CommitAssessment(r),
         NEW t, t = call[r].txn, NEW p, p = call[r].policy
  PROVE  /\ DOMAIN predictions' = DOMAIN predictions \cup {t}
         /\ \A u \in DOMAIN predictions : predictions'[u] = predictions[u]
         /\ predictions'[t].features = features[t]
         /\ predictions'[t].graph = graphs[t]
         /\ predictions'[t].by \in Calls
         /\ t \notin DOMAIN predictions => predictions'[t].by = r
         /\ DOMAIN decisions' = DOMAIN decisions \cup {<<t, p>>}
         /\ \A d \in DOMAIN decisions : decisions'[d] = decisions[d]
         /\ decisions'[<<t, p>>] = Decision(r)
         /\ Decision(r).by = r
         /\ Decision(r).cluster = ClusterId(r)
         /\ Decision(r).prediction = predictions'[t].by
<1>1. /\ t \in DOMAIN features \cap DOMAIN graphs
      /\ features[t] = call[r].vector /\ graphs[t] = call[r].graph
      /\ "decision" \in call[r].inserts
      /\ <<t, p>> \notin DOMAIN decisions
      /\ "prediction" \in call[r].inserts <=> t \notin DOMAIN predictions
  BY CommitFacts
<1>2. /\ DOMAIN predictions' = DOMAIN predictions \cup {t}
      /\ \A u \in DOMAIN predictions : predictions'[u] = predictions[u]
      /\ t \notin DOMAIN predictions => predictions'[t] = Prediction(r)
  <2>1. CASE t \in DOMAIN predictions
    <3>1. predictions' = predictions
      BY <1>1, <2>1 DEF CommitAssessment
    <3> QED
      BY <2>1, <3>1
  <2>2. CASE t \notin DOMAIN predictions
    <3>1. predictions' = Insert(predictions, t, Prediction(r))
      BY <1>1, <2>2 DEF CommitAssessment
    <3> QED
      BY <2>2, <3>1 DEF Insert
  <2> QED
    BY <2>1, <2>2
<1>3. /\ Prediction(r).features = call[r].vector
      /\ Prediction(r).graph = call[r].graph
      /\ Prediction(r).by = r
  BY DEF Prediction
<1>4. /\ predictions'[t].features = features[t]
      /\ predictions'[t].graph = graphs[t]
      /\ predictions'[t].by \in Calls
      /\ t \notin DOMAIN predictions => predictions'[t].by = r
  BY <1>1, <1>2, <1>3 DEF IInv, TablesOK
<1>5. decisions' = Insert(decisions, <<t, p>>, Decision(r))
  BY <1>1 DEF CommitAssessment
<1>6. /\ DOMAIN decisions' = DOMAIN decisions \cup {<<t, p>>}
      /\ \A d \in DOMAIN decisions : decisions'[d] = decisions[d]
      /\ decisions'[<<t, p>>] = Decision(r)
  BY <1>1, <1>5 DEF Insert
<1>7. /\ Decision(r).by = r
      /\ Decision(r).cluster = ClusterId(r)
      /\ Decision(r).prediction = predictions'[t].by
  BY <1>2, <1>4 DEF Decision
<1> QED
  BY <1>2, <1>4, <1>6, <1>7

LEMMA CommitAssessmentPreserves ==
  ASSUME IInv, NEW r \in Calls, CommitAssessment(r)
  PROVE  IInv' /\ Grows
<1>1. PICK t, p : t = call[r].txn /\ p = call[r].policy
  OBVIOUS
<1>2. /\ t \in Committed /\ p \in Policies
      /\ t \in DOMAIN features \cap DOMAIN graphs
      /\ features[t] = call[r].vector /\ graphs[t] = call[r].graph
      /\ "decision" \in call[r].inserts
      /\ <<t, p>> \notin DOMAIN decisions
      /\ "prediction" \in call[r].inserts <=> t \notin DOMAIN predictions
      /\ "model_version" \in registry'
  BY <1>1, CommitFacts
<1>3. /\ DOMAIN predictions' = DOMAIN predictions \cup {t}
      /\ \A u \in DOMAIN predictions : predictions'[u] = predictions[u]
      /\ predictions'[t].features = features[t]
      /\ predictions'[t].graph = graphs[t]
      /\ predictions'[t].by \in Calls
      /\ t \notin DOMAIN predictions => predictions'[t].by = r
      /\ DOMAIN decisions' = DOMAIN decisions \cup {<<t, p>>}
      /\ \A d \in DOMAIN decisions : decisions'[d] = decisions[d]
      /\ decisions'[<<t, p>>] = Decision(r)
      /\ Decision(r).by = r
      /\ Decision(r).cluster = ClusterId(r)
      /\ Decision(r).prediction = predictions'[t].by
  BY <1>1, CommitEffect
<1>4. Local(call[r]) /\ call[r].pc = "commit"
  BY DEF IInv, CommitAssessment
<1>5. PICK c : c = [call[r] EXCEPT !.pc = "done", !.reply = "ok", !.inserts = {}]
  OBVIOUS
<1>6. /\ call' = [call EXCEPT ![r] = c]
      /\ registry \subseteq registry'
      /\ registry' \subseteq registry \cup {"model_version"}
      /\ audits' = audits \cup
           AuditEvents(call[r].inserts \cap {"prediction", "decision"}, r)
      /\ UNCHANGED <<log, features, graphs, batch>>
  BY <1>4, <1>5 DEF CommitAssessment, IInv
<1>7. Grows
  BY <1>3, <1>6, KeepsRefl DEF Grows, Keeps, Committed
<1>8. /\ Shape(c) /\ c.txn = t /\ c.policy = p /\ c.pc = "done"
      /\ c.vector = call[r].vector /\ c.graph = call[r].graph
      /\ c.cluster = call[r].cluster /\ c.reply = "ok"
  BY <1>1, <1>4, <1>5 DEF Local, Shape, Pcs
<1>9. Local(c)'
  <2>1. Told(c)'
    BY <1>2, <1>3, <1>8 DEF Told, ClusterId
  <2>2. Shape(c)' /\ Fits(c)'
    BY <1>8 DEF Shape, Fits
  <2> QED
    BY <2>1, <2>2 DEF Local
<1>10. call' = [q \in Calls |-> call'[q]] /\ \A q \in Calls : Local(call[q])'
  BY <1>6, <1>7, <1>9, OneCallMoves
<1>11. TablesOK'
  <2>1. /\ log' \in Seq(Txns)
        /\ registry' \subseteq {"feature_version", "model_version"}
        /\ DOMAIN features' \cup DOMAIN graphs' \subseteq Committed'
        /\ DOMAIN predictions' \subseteq DOMAIN features' \cap DOMAIN graphs'
        /\ DOMAIN decisions' \subseteq (DOMAIN predictions') \X Policies
        /\ DOMAIN features' # {} => "feature_version" \in registry'
        /\ DOMAIN predictions' # {} => "model_version" \in registry'
    BY <1>2, <1>3, <1>6 DEF IInv, TablesOK, Committed
  <2>2. /\ \A u \in DOMAIN features' : features'[u] \in Vectors(u)
        /\ \A u \in DOMAIN graphs' : graphs'[u] \in GraphRows(u)
    BY <1>6 DEF IInv, TablesOK
  <2>3. ASSUME NEW u \in DOMAIN predictions'
        PROVE  /\ predictions'[u].by \in Calls
               /\ predictions'[u].features = features'[u]
               /\ predictions'[u].graph = graphs'[u]
    BY <1>3, <1>6 DEF IInv, TablesOK
  <2>4. ASSUME NEW d \in DOMAIN decisions'
        PROVE  decisions'[d].prediction = predictions'[d[1]].by
    <3>1. CASE d = <<t, p>>
      BY <1>3, <3>1
    <3>2. CASE d \in DOMAIN decisions
      <4>1. d[1] \in DOMAIN predictions /\ decisions[d].prediction = predictions[d[1]].by
        BY <3>2 DEF IInv, TablesOK
      <4> QED
        BY <1>3, <3>2, <4>1
    <3> QED
      BY <1>3, <3>1, <3>2
  <2> QED
    BY <2>1, <2>2, <2>3, <2>4 DEF TablesOK, Vectors, GraphRows
<1> DEFINE d == [kind |-> "decision", txn |-> t, policy |-> p, by |-> r]
           e == [kind |-> "prediction", txn |-> t, policy |-> p, by |-> r]
<1>12. audits' = audits \cup {d} \cup (IF t \in DOMAIN predictions THEN {} ELSE {e})
  BY <1>1, <1>2, <1>6 DEF AuditEvents
<1>13. AuditsTyped'
  BY <1>2, <1>12 DEF IInv, AuditsTyped, TablesOK, Committed
<1>14. AuditTrailComplete'
  <2> USE <1>3
  <2>1. ASSUME NEW a \in audits'
        PROVE  \/ /\ a.kind = "prediction" /\ a.txn \in DOMAIN predictions'
                  /\ predictions'[a.txn].by = a.by
               \/ /\ a.kind = "decision" /\ <<a.txn, a.policy>> \in DOMAIN decisions'
                  /\ decisions'[<<a.txn, a.policy>>].by = a.by
    <3>1. CASE a \in audits
      BY <3>1 DEF IInv, AuditTrailComplete
    <3>2. CASE a = d
      BY <3>2
    <3>3. CASE t \notin DOMAIN predictions /\ a = e
      BY <3>3
    <3> QED
      BY <1>12, <3>1, <3>2, <3>3
  <2>2. ASSUME NEW u \in DOMAIN predictions'
        PROVE  \E a \in audits' : a.kind = "prediction" /\ a.txn = u
    <3>1. CASE u \in DOMAIN predictions
      BY <1>12, <3>1 DEF IInv, AuditTrailComplete
    <3>2. CASE u = t /\ t \notin DOMAIN predictions
      <4>1. e \in audits' /\ e.kind = "prediction" /\ e.txn = u
        BY <1>12, <3>2
      <4> QED
        BY <4>1
    <3> QED
      BY <3>1, <3>2
  <2>3. ASSUME NEW x \in DOMAIN decisions'
        PROVE  \E a \in audits' : a.kind = "decision" /\ <<a.txn, a.policy>> = x
    <3>1. CASE x \in DOMAIN decisions
      BY <1>12, <3>1 DEF IInv, AuditTrailComplete
    <3>2. CASE x = <<t, p>>
      <4>1. d \in audits' /\ d.kind = "decision" /\ <<d.txn, d.policy>> = x
        BY <1>12, <3>2
      <4> QED
        BY <4>1
    <3> QED
      BY <3>1, <3>2
  <2>4. ASSUME NEW a \in audits', NEW b \in audits',
               a.kind = b.kind, a.txn = b.txn,
               a.kind = "decision" => a.policy = b.policy
        PROVE  a = b
    <3>1. \A x \in audits :
            /\ x.kind = "prediction" => x.txn \in DOMAIN predictions
            /\ x.kind = "decision" => <<x.txn, x.policy>> \in DOMAIN decisions
      BY DEF IInv, AuditTrailComplete
    <3>2. /\ d.kind = "decision" /\ d.txn = t /\ d.policy = p
          /\ e.kind = "prediction" /\ e.txn = t
      OBVIOUS
    <3> HIDE DEF d, e
    <3>3. CASE a \in audits /\ b \in audits
      BY <2>4, <3>3 DEF IInv, AuditTrailComplete
    <3>4. ASSUME NEW x \in audits, NEW y \in audits', y \notin audits,
                 x.kind = y.kind, x.txn = y.txn,
                 x.kind = "decision" => x.policy = y.policy
          PROVE  FALSE
      <4>1. CASE y = d
        BY <1>2, <3>1, <3>2, <3>4, <4>1
      <4>2. CASE y = e /\ t \notin DOMAIN predictions
        BY <3>1, <3>2, <3>4, <4>2
      <4> QED
        BY <1>12, <3>4, <4>1, <4>2
    <3>5. (a \in audits) <=> (b \in audits)
      BY <2>4, <3>4
    <3>6. CASE a \notin audits /\ b \notin audits
      BY <1>12, <2>4, <3>2, <3>6
    <3> QED
      BY <3>3, <3>5, <3>6
  <2> HIDE DEF d, e
  <2> QED
    BY <2>1, <2>2, <2>3, <2>4 DEF AuditTrailComplete
<1>15. BatchOK'
  BY <1>6 DEF IInv, BatchOK, Committed
<1> QED
  BY <1>7, <1>10, <1>11, <1>13, <1>14, <1>15 DEF IInv

-----------------------------------------------------------------------------
(* The rest of the system.                                                 *)

LEMMA NoCallMoves ==
  ASSUME IInv, Grows, UNCHANGED call
  PROVE  call' = [q \in Calls |-> call'[q]] /\ \A q \in Calls : Local(call[q])'
<1>1. ASSUME NEW q \in Calls
      PROVE  Local(call[q])'
  <2>1. PICK d : d = call[q]
    OBVIOUS
  <2>2. Local(d)'
    BY <2>1, LocalPersists DEF IInv
  <2> QED
    BY <2>1, <2>2 DEF Local, Shape, Fits, Told
<1> QED
  BY <1>1 DEF IInv

LEMMA IngestPreserves ==
  ASSUME IInv, NEW t \in Txns, Ingest(t)
  PROVE  IInv' /\ Grows
<1>1. log' \in Seq(Txns) /\ Committed' = Committed \cup {t}
  <2>1. log \in Seq(Txns) /\ log' = Append(log, t)
    BY DEF IInv, TablesOK, Ingest
  <2>2. /\ log' \in Seq(Txns) /\ DOMAIN log' = DOMAIN log \cup {Len(log) + 1}
        /\ log'[Len(log) + 1] = t /\ \A i \in DOMAIN log : log'[i] = log[i]
    BY <2>1
  <2> QED
    BY <2>2 DEF Committed
<1>2. UNCHANGED <<registry, features, graphs, predictions, decisions, audits,
                  clusters, call, batch>>
  BY DEF Ingest
<1>3. Grows
  BY <1>1, <1>2, KeepsRefl DEF Grows
<1>4. call' = [q \in Calls |-> call'[q]] /\ \A q \in Calls : Local(call[q])'
  BY <1>2, <1>3, NoCallMoves
<1>5. TablesOK' /\ AuditsTyped' /\ AuditTrailComplete' /\ BatchOK'
  BY <1>1, <1>2 DEF IInv, TablesOK, AuditsTyped, AuditTrailComplete, BatchOK
<1> QED
  BY <1>3, <1>4, <1>5 DEF IInv

LEMMA StartBackfillPreserves ==
  ASSUME IInv, NEW j \in Jobs, NEW R \in SUBSET Committed, StartBackfill(j, R)
  PROVE  IInv' /\ Grows
<1>1. /\ UNCHANGED <<log, registry, features, graphs, predictions, decisions,
                     audits, clusters, call>>
      /\ batch' = [batch EXCEPT ![j] = R]
  BY DEF StartBackfill, database
<1>2. Grows
  BY <1>1, KeepsRefl DEF Grows, Committed
<1>3. call' = [q \in Calls |-> call'[q]] /\ \A q \in Calls : Local(call[q])'
  BY <1>1, <1>2, NoCallMoves
<1>4. TablesOK' /\ AuditsTyped' /\ AuditTrailComplete'
  BY <1>1 DEF IInv, TablesOK, AuditsTyped, AuditTrailComplete, Committed
<1>5. BatchOK'
  BY <1>1 DEF IInv, BatchOK, Committed
<1> QED
  BY <1>2, <1>3, <1>4, <1>5 DEF IInv

LEMMA AbortBackfillPreserves ==
  ASSUME IInv, NEW j \in Jobs, AbortBackfill(j)
  PROVE  IInv' /\ Grows
<1>1. /\ UNCHANGED <<log, registry, features, graphs, predictions, decisions,
                     audits, clusters, call>>
      /\ batch' = [batch EXCEPT ![j] = None]
  BY DEF AbortBackfill, database
<1>2. Grows
  BY <1>1, KeepsRefl DEF Grows, Committed
<1>3. call' = [q \in Calls |-> call'[q]] /\ \A q \in Calls : Local(call[q])'
  BY <1>1, <1>2, NoCallMoves
<1>4. TablesOK' /\ AuditsTyped' /\ AuditTrailComplete'
  BY <1>1 DEF IInv, TablesOK, AuditsTyped, AuditTrailComplete, Committed
<1>5. BatchOK'
  BY <1>1 DEF IInv, BatchOK, Committed
<1> QED
  BY <1>2, <1>3, <1>4, <1>5 DEF IInv

LEMMA FinishFeatureBackfillPreserves ==
  ASSUME IInv, FinishFeatureBackfill
  PROVE  IInv' /\ Grows
<1>1. PICK R : R = batch["features"]
  OBVIOUS
<1>2. PICK offline : offline = OfflineFeatures(R)
  OBVIOUS
<1>3. /\ R \in SUBSET Committed
      /\ features' = Filled(features, offline)
      /\ registry' = registry \cup {"feature_version"}
      /\ batch' = [batch EXCEPT !["features"] = None]
      /\ "features" \in Jobs
      /\ UNCHANGED <<log, graphs, predictions, decisions, audits, clusters, call>>
  BY <1>1, <1>2 DEF FinishFeatureBackfill, IInv, BatchOK
<1>4. DOMAIN offline = R /\ \A t \in R : offline[t] \in Vectors(t)
  <2>1. DOMAIN offline = R
    BY <1>2 DEF OfflineFeatures
  <2>2. ASSUME NEW t \in R
        PROVE  offline[t] \in Vectors(t)
    <3>1. t \in Txns
      BY <1>3 DEF IInv, TablesOK, Committed
    <3>2. FeatureVector(t, FeatureHistory(t, R)) \in Vectors(t)
      BY <1>3, <3>1, HistoryTyped DEF IInv
    <3> QED
      BY <1>2, <3>2 DEF OfflineFeatures
  <2> QED
    BY <2>1, <2>2
<1>5. /\ DOMAIN features' = DOMAIN features \cup R
      /\ \A t \in DOMAIN features : features'[t] = features[t]
      /\ \A t \in R \ DOMAIN features : features'[t] = offline[t]
  BY <1>3, <1>4 DEF Filled
<1>6. Grows
  BY <1>3, <1>5, KeepsRefl DEF Grows, Keeps, Committed
<1>7. call' = [q \in Calls |-> call'[q]] /\ \A q \in Calls : Local(call[q])'
  BY <1>3, <1>6, NoCallMoves
<1>8. TablesOK'
  BY <1>3, <1>4, <1>5 DEF IInv, TablesOK, Committed, Vectors, GraphRows
<1>9. AuditsTyped' /\ AuditTrailComplete' /\ BatchOK'
  BY <1>3 DEF IInv, AuditsTyped, AuditTrailComplete, BatchOK, Committed
<1> QED
  BY <1>6, <1>7, <1>8, <1>9 DEF IInv

LEMMA FinishGraphBackfillPreserves ==
  ASSUME IInv, FinishGraphBackfill
  PROVE  IInv' /\ Grows
<1>1. PICK R : R = batch["graphs"]
  OBVIOUS
<1>2. PICK offline : offline = OfflineGraphs(R)
  OBVIOUS
<1>3. /\ R \in SUBSET Committed
      /\ graphs' = Filled(graphs, offline)
      /\ batch' = [batch EXCEPT !["graphs"] = None]
      /\ "graphs" \in Jobs
      /\ UNCHANGED <<log, registry, features, predictions, decisions, audits, call>>
  BY <1>1, <1>2 DEF FinishGraphBackfill, IInv, BatchOK
<1>4. DOMAIN offline = R /\ \A t \in R : offline[t] \in GraphRows(t)
  <2>1. DOMAIN offline = R
    BY <1>2 DEF OfflineGraphs
  <2>2. ASSUME NEW t \in R
        PROVE  offline[t] \in GraphRows(t)
    <3>1. t \in Txns
      BY <1>3 DEF IInv, TablesOK, Committed
    <3>2. GraphAssessment(t, GraphHistory(t, R)) \in GraphRows(t)
      BY <1>3, <3>1, HistoryTyped DEF IInv
    <3> QED
      BY <1>2, <3>2 DEF OfflineGraphs
  <2> QED
    BY <2>1, <2>2
<1>5. /\ DOMAIN graphs' = DOMAIN graphs \cup R
      /\ \A t \in DOMAIN graphs : graphs'[t] = graphs[t]
      /\ \A t \in R \ DOMAIN graphs : graphs'[t] = offline[t]
  BY <1>3, <1>4 DEF Filled
<1>6. Grows
  BY <1>3, <1>5, KeepsRefl DEF Grows, Keeps, Committed
<1>7. call' = [q \in Calls |-> call'[q]] /\ \A q \in Calls : Local(call[q])'
  BY <1>3, <1>6, NoCallMoves
<1>8. TablesOK'
  BY <1>3, <1>4, <1>5 DEF IInv, TablesOK, Committed, Vectors, GraphRows
<1>9. AuditsTyped' /\ AuditTrailComplete' /\ BatchOK'
  BY <1>3 DEF IInv, AuditsTyped, AuditTrailComplete, BatchOK, Committed
<1> QED
  BY <1>6, <1>7, <1>8, <1>9 DEF IInv

-----------------------------------------------------------------------------
(* The inductive invariant.                                                *)

LEMMA InitIInv == Init => IInv
<1> SUFFICES ASSUME Init PROVE IInv
  OBVIOUS
<1>1. /\ log = <<>> /\ registry = {} /\ features = <<>> /\ graphs = <<>>
      /\ predictions = <<>> /\ decisions = <<>> /\ audits = {}
      /\ call = [r \in Calls |-> Idle] /\ batch = [j \in Jobs |-> None]
  BY DEF Init
<1>2. TablesOK
  BY <1>1 DEF TablesOK
<1>3. AuditsTyped /\ AuditTrailComplete /\ BatchOK
  BY <1>1 DEF AuditsTyped, AuditTrailComplete, BatchOK
<1>4. ASSUME NEW r \in Calls
      PROVE  Local(call[r])
  <2>1. call[r] = Idle
    BY <1>1
  <2>2. Shape(Idle) /\ Idle.pc = "idle" /\ Idle.reply = "none"
    BY DEF Shape, Idle, Pcs
  <2> QED
    BY <2>1, <2>2 DEF Local, Fits, Told
<1> QED
  BY <1>1, <1>2, <1>3, <1>4 DEF IInv

LEMMA CallStepPreserves ==
  ASSUME IInv, NEW r \in Calls, CallStep(r)
  PROVE  IInv' /\ Grows
BY ComputeFeaturesPreserves, CheckFeaturesPreserves, InsertFeaturesPreserves,
   SweepGraphPreserves, CheckGraphPreserves, InsertGraphPreserves,
   ScorePreserves, FindStoredPreserves, CommitAssessmentPreserves,
   LoseRacePreserves DEF CallStep

LEMMA StutterPreserves ==
  ASSUME IInv, UNCHANGED vars
  PROVE  IInv' /\ Grows
<1>1. UNCHANGED <<log, registry, features, graphs, predictions, decisions,
                  audits, clusters, call, batch>>
  BY DEF vars
<1>2. Grows
  BY <1>1, KeepsRefl DEF Grows, Committed
<1>3. call' = [q \in Calls |-> call'[q]] /\ \A q \in Calls : Local(call[q])'
  BY <1>1, <1>2, NoCallMoves
<1>4. TablesOK' /\ AuditsTyped' /\ AuditTrailComplete' /\ BatchOK'
  BY <1>1 DEF IInv, TablesOK, AuditsTyped, AuditTrailComplete, BatchOK, Committed
<1> QED
  BY <1>2, <1>3, <1>4 DEF IInv

LEMMA NextPreserves ==
  ASSUME IInv, Assessed \subseteq Txns, [Next]_vars
  PROVE  IInv' /\ Grows
<1>1. ASSUME NEW r \in Calls, NEW t \in Assessed, NEW p \in Policies, Begin(r, t, p)
      PROVE  IInv' /\ Grows
  BY <1>1, BeginPreserves
<1>2. ASSUME NEW r \in Calls, CallStep(r) \/ Abandon(r)
      PROVE  IInv' /\ Grows
  BY <1>2, CallStepPreserves, AbandonPreserves
<1>3. ASSUME NEW t \in Txns, Ingest(t)
      PROVE  IInv' /\ Grows
  BY <1>3, IngestPreserves
<1>4. ASSUME NEW j \in Jobs, NEW R \in SUBSET Committed, StartBackfill(j, R)
      PROVE  IInv' /\ Grows
  BY <1>4, StartBackfillPreserves
<1>5. ASSUME FinishFeatureBackfill \/ FinishGraphBackfill
      PROVE  IInv' /\ Grows
  BY <1>5, FinishFeatureBackfillPreserves, FinishGraphBackfillPreserves
<1>6. ASSUME NEW j \in Jobs, AbortBackfill(j)
      PROVE  IInv' /\ Grows
  BY <1>6, AbortBackfillPreserves
<1>7. CASE UNCHANGED vars
  BY <1>7, StutterPreserves
<1>8. CASE Next
  BY <1>1, <1>2, <1>3, <1>4, <1>5, <1>6, <1>8 DEF Next
<1> QED
  BY <1>7, <1>8

LEMMA NextIInv == IInv /\ [Next]_vars => IInv'
BY NextPreserves, AssessedAssumption

THEOREM Invariance == Spec => []IInv
BY InitIInv, NextIInv, PTL DEF Spec

(* Rows keep their shape and never refer to rows that are not committed,   *)
(* wherever calls, scripts and failures meet.                              *)
THEOREM AssessmentTypeCorrect == Spec => []TypeOK
<1>1. IInv => TypeOK
  BY DEF IInv, TablesOK, TypeOK, Local, Shape
<1> QED
  BY <1>1, Invariance, PTL

(* No committed row is ever changed or removed, by any step.               *)
THEOREM RowsAreImmutable == Spec => [][Grows]_vars
<1>1. IInv /\ [Next]_vars => [Grows]_vars
  BY NextPreserves, AssessedAssumption
<1> QED
  BY <1>1, Invariance, PTL DEF Spec

(* Predictions and decisions are audited exactly once, by their authors.   *)
THEOREM AuditExactlyOnce == Spec => []AuditTrailComplete
<1>1. IInv => AuditTrailComplete
  BY DEF IInv
<1> QED
  BY <1>1, Invariance, PTL

(* A stored prediction always equals the one just computed: the mismatch   *)
(* branch of _persist_prediction is unreachable.                           *)
THEOREM NoPredictionConflict == Spec => []PredictionNeverConflicts
<1>1. IInv => PredictionNeverConflicts
  BY DEF IInv, TablesOK, Local, Fits, PredictionNeverConflicts, SamePrediction
<1> QED
  BY <1>1, Invariance, PTL

(* All answers 200 for one payment and policy tell the same, and it is     *)
(* what the database holds.                                                *)
THEOREM AnswersNeverDiffer == Spec => []AnswersAgree
<1>1. IInv => AnswersAgree
  BY DEF IInv, Local, Told, AnswersAgree, SamePrediction, SameDecision, ClusterId
<1> QED
  BY <1>1, Invariance, PTL

-----------------------------------------------------------------------------
(***************************************************************************)
(* Assessment implements AssessmentRecords, for every set of payments,     *)
(* calls, policies and backfills: each step adds feature snapshots, adds   *)
(* graph snapshots, decides on one payment, or leaves the records alone.   *)
(***************************************************************************)

(* The refinement mapping: a prediction is its two snapshots, a decision   *)
(* its key, an audit event what it is about.                               *)
Predicted ==
  [t \in DOMAIN predictions |->
     [features |-> predictions[t].features, graph |-> predictions[t].graph]]

Audited ==
  { [kind |-> a.kind, txn |-> a.txn, policy |-> a.policy] : a \in audits }

StepOrStutter == Records!Next \/ UNCHANGED Records!records

LEMMA InitRefines == Init => Records!Init
<1> SUFFICES ASSUME Init PROVE Records!Init
  OBVIOUS
<1>1. /\ features = <<>> /\ graphs = <<>> /\ predictions = <<>>
      /\ decisions = <<>> /\ audits = {}
  BY DEF Init
<1>2. Predicted = <<>>
  BY <1>1 DEF Predicted
<1>3. DOMAIN decisions = {} /\ Audited = {}
  BY <1>1 DEF Audited
<1> QED
  BY <1>1, <1>2, <1>3 DEF Records!Init, Predicted, Audited

(* Steps that write none of the rows.                                      *)
LEMMA NoRowsWritten ==
  ASSUME UNCHANGED <<features, graphs, predictions, decisions, audits>>
  PROVE  UNCHANGED Records!records
BY DEF Records!records

LEMMA FeaturesAdded ==
  ASSUME IInv, IInv', Grows,
         NEW f, features' = [t \in DOMAIN features' |-> f[t]],
         UNCHANGED <<graphs, predictions, decisions, audits>>
  PROVE  Records!SnapshotFeatures
<1>1. DOMAIN features \subseteq DOMAIN features'
      /\ \A t \in DOMAIN features : features'[t] = features[t]
  BY DEF Grows, Keeps
<1>2. DOMAIN features' \subseteq Txns
  BY DEF IInv, TablesOK, Committed
<1>3. features' = [t \in DOMAIN features' |-> features'[t]]
  OBVIOUS
<1>4. Records!Extends(features', features)
  BY <1>1, <1>2, <1>3 DEF Records!Extends
<1> QED
  BY <1>4 DEF Records!SnapshotFeatures

LEMMA GraphsAdded ==
  ASSUME IInv, IInv', Grows,
         NEW f, graphs' = [t \in DOMAIN graphs' |-> f[t]],
         UNCHANGED <<features, predictions, decisions, audits>>
  PROVE  Records!SnapshotGraphs
<1>1. DOMAIN graphs \subseteq DOMAIN graphs'
      /\ \A t \in DOMAIN graphs : graphs'[t] = graphs[t]
  BY DEF Grows, Keeps
<1>2. DOMAIN graphs' \subseteq Txns
  BY DEF IInv, TablesOK, Committed
<1>3. graphs' = [t \in DOMAIN graphs' |-> graphs'[t]]
  OBVIOUS
<1>4. Records!Extends(graphs', graphs)
  BY <1>1, <1>2, <1>3 DEF Records!Extends
<1> QED
  BY <1>4 DEF Records!SnapshotGraphs

(* The last commit decides, and predicts if nobody has predicted yet.      *)
LEMMA CommitDecides ==
  ASSUME IInv, NEW r \in Calls, CommitAssessment(r)
  PROVE  \E t \in Txns, p \in Policies : Records!Decide(t, p)
<1>1. PICK t, p : t = call[r].txn /\ p = call[r].policy
  OBVIOUS
<1>2. /\ t \in Committed /\ p \in Policies
      /\ t \in DOMAIN features \cap DOMAIN graphs
      /\ "decision" \in call[r].inserts
      /\ <<t, p>> \notin DOMAIN decisions
      /\ "prediction" \in call[r].inserts <=> t \notin DOMAIN predictions
  BY <1>1, CommitFacts
<1>3. /\ DOMAIN predictions' = DOMAIN predictions \cup {t}
      /\ \A u \in DOMAIN predictions : predictions'[u] = predictions[u]
      /\ predictions'[t].features = features[t]
      /\ predictions'[t].graph = graphs[t]
      /\ DOMAIN decisions' = DOMAIN decisions \cup {<<t, p>>}
  BY <1>1, CommitEffect
<1>4. t \in Txns
  BY <1>2 DEF IInv, TablesOK, Committed
<1>5. UNCHANGED <<features, graphs>>
  BY DEF CommitAssessment
<1> DEFINE first == t \notin DOMAIN Predicted
<1>6. DOMAIN Predicted = DOMAIN predictions
  BY DEF Predicted
<1>7. Predicted' =
        [u \in DOMAIN Predicted \cup {t} |->
           IF u = t /\ first THEN [features |-> features[t], graph |-> graphs[t]]
           ELSE Predicted[u]]
  BY <1>3, <1>6 DEF Predicted
<1>8. Audited' = Audited \cup
        { [kind |-> k, txn |-> t, policy |-> p] :
            k \in {"decision"} \cup (IF first THEN {"prediction"} ELSE {}) }
  <2>1. audits' = audits \cup
          { [kind |-> k, txn |-> t, policy |-> p, by |-> r] :
              k \in call[r].inserts \cap {"prediction", "decision"} }
    BY <1>1 DEF CommitAssessment, AuditEvents
  <2>2. call[r].inserts \cap {"prediction", "decision"}
          = {"decision"} \cup (IF first THEN {"prediction"} ELSE {})
    BY <1>2, <1>6
  <2>3. PICK K : K = {"decision"} \cup (IF first THEN {"prediction"} ELSE {})
    OBVIOUS
  <2> HIDE DEF first
  <2>4. PICK N : N = { [kind |-> k, txn |-> t, policy |-> p, by |-> r] : k \in K }
    OBVIOUS
  <2>5. audits' = audits \cup N
    BY <2>1, <2>2, <2>3, <2>4
  <2>6. Audited' = Audited \cup
          { [kind |-> a.kind, txn |-> a.txn, policy |-> a.policy] : a \in N }
    BY <2>5 DEF Audited
  <2>7. { [kind |-> a.kind, txn |-> a.txn, policy |-> a.policy] : a \in N }
          = { [kind |-> k, txn |-> t, policy |-> p] : k \in K }
    <3>1. \A a \in N : a.kind \in K /\ a.txn = t /\ a.policy = p
      BY <2>4
    <3>2. ASSUME NEW k \in K
          PROVE  \E a \in N : a.kind = k /\ a.txn = t /\ a.policy = p
      <4>1. PICK a : a = [kind |-> k, txn |-> t, policy |-> p, by |-> r]
        OBVIOUS
      <4>2. a \in N /\ a.kind = k /\ a.txn = t /\ a.policy = p
        BY <2>4, <4>1
      <4> QED
        BY <4>2
    <3> QED
      BY <3>1, <3>2
  <2> QED
    BY <2>3, <2>6, <2>7
<1>9. Records!Decide(t, p)
  BY <1>2, <1>3, <1>5, <1>7, <1>8 DEF Records!Decide, Predicted, Audited
<1> QED
  BY <1>2, <1>4, <1>9

-----------------------------------------------------------------------------

LEMMA CallStepRefines ==
  ASSUME IInv, IInv', Grows, NEW r \in Calls, CallStep(r) \/ Abandon(r)
  PROVE  StepOrStutter
<1>1. CASE InsertFeatures(r)
  <2>1. PICK f : f = features'
    OBVIOUS
  <2>2. features' = [t \in DOMAIN features' |-> f[t]]
    BY <1>1, <2>1 DEF InsertFeatures, Insert
  <2>3. UNCHANGED <<graphs, predictions, decisions, audits>>
    BY <1>1 DEF InsertFeatures
  <2> QED
    BY <2>2, <2>3, FeaturesAdded DEF StepOrStutter, Records!Next
<1>2. CASE InsertGraph(r)
  <2>1. PICK f : f = graphs'
    OBVIOUS
  <2>2. graphs' = [t \in DOMAIN graphs' |-> f[t]]
    BY <1>2, <2>1 DEF InsertGraph, Insert
  <2>3. UNCHANGED <<features, predictions, decisions, audits>>
    BY <1>2 DEF InsertGraph
  <2> QED
    BY <2>2, <2>3, GraphsAdded DEF StepOrStutter, Records!Next
<1>3. CASE CommitAssessment(r)
  BY <1>3, CommitDecides DEF StepOrStutter, Records!Next
<1>4. CASE \/ ComputeFeatures(r) \/ CheckFeatures(r) \/ SweepGraph(r)
           \/ CheckGraph(r) \/ Score(r) \/ FindStored(r) \/ LoseRace(r)
           \/ Abandon(r)
  <2>1. UNCHANGED <<features, graphs, predictions, decisions, audits>>
    BY <1>4 DEF ComputeFeatures, CheckFeatures, SweepGraph, CheckGraph, Score,
                FindStored, LoseRace, Abandon, Ends, Moves, database
  <2> QED
    BY <2>1, NoRowsWritten DEF StepOrStutter
<1> QED
  BY <1>1, <1>2, <1>3, <1>4 DEF CallStep

LEMMA BackfillRefines ==
  ASSUME IInv, IInv', Grows, FinishFeatureBackfill \/ FinishGraphBackfill
  PROVE  StepOrStutter
<1>1. CASE FinishFeatureBackfill
  <2>1. PICK f : f = features'
    OBVIOUS
  <2>2. features' = [t \in DOMAIN features' |-> f[t]]
    BY <1>1, <2>1 DEF FinishFeatureBackfill, Filled
  <2>3. UNCHANGED <<graphs, predictions, decisions, audits>>
    BY <1>1 DEF FinishFeatureBackfill
  <2> QED
    BY <2>2, <2>3, FeaturesAdded DEF StepOrStutter, Records!Next
<1>2. CASE FinishGraphBackfill
  <2>1. PICK f : f = graphs'
    OBVIOUS
  <2>2. graphs' = [t \in DOMAIN graphs' |-> f[t]]
    BY <1>2, <2>1 DEF FinishGraphBackfill, Filled
  <2>3. UNCHANGED <<features, predictions, decisions, audits>>
    BY <1>2 DEF FinishGraphBackfill
  <2> QED
    BY <2>2, <2>3, GraphsAdded DEF StepOrStutter, Records!Next
<1> QED
  BY <1>1, <1>2

LEMMA NextRefines ==
  ASSUME IInv, IInv', Grows, [Next]_vars
  PROVE  StepOrStutter
<1>1. ASSUME NEW r \in Calls, CallStep(r) \/ Abandon(r)
      PROVE  StepOrStutter
  BY <1>1, CallStepRefines
<1>2. ASSUME FinishFeatureBackfill \/ FinishGraphBackfill
      PROVE  StepOrStutter
  BY <1>2, BackfillRefines
<1>3. CASE \/ \E r \in Calls, t \in Assessed, p \in Policies : Begin(r, t, p)
           \/ \E t \in Txns : Ingest(t)
           \/ \E j \in Jobs, R \in SUBSET Committed : StartBackfill(j, R)
           \/ \E j \in Jobs : AbortBackfill(j)
           \/ UNCHANGED vars
  <2>1. UNCHANGED <<features, graphs, predictions, decisions, audits>>
    BY <1>3 DEF Begin, Moves, Ingest, StartBackfill, AbortBackfill, database, vars
  <2> QED
    BY <2>1, NoRowsWritten DEF StepOrStutter
<1> QED
  BY <1>1, <1>2, <1>3 DEF Next

(* Whatever fails, races or arrives late, assessment behaves as records    *)
(* that are written once, predicted from their own snapshots and audited   *)
(* as they are made.                                                       *)
THEOREM AssessmentRefinement == Spec => ImplementsRecords
<1>1. IInv /\ IInv' /\ [Next]_vars => [Records!Next]_(Records!records)
  BY NextPreserves, AssessedAssumption, NextRefines DEF StepOrStutter
<1> QED
  BY <1>1, InitRefines, Invariance, PTL DEF Spec, ImplementsRecords, Records!Spec

=============================================================================
