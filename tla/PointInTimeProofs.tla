------------------------- MODULE PointInTimeProofs -------------------------
(***************************************************************************)
(* Online and offline computation agree, for every set of payments, every  *)
(* overlap of their entities and every order of events: a snapshot is what *)
(* a computation over all committed payments gives, or an earlier event    *)
(* that it depends on came in late.  Every refused call has such a cause,  *)
(* or one in the clusters that a backfill has stored.                      *)
(*                                                                         *)
(* The argument rests on GraphHistory being a least fixpoint: a payment    *)
(* that is committed later either is in it, then it came in late, or does  *)
(* not change it; and the rounds of the provider's loop approach it from   *)
(* below and stop only at a set that a SELECT adds nothing to.             *)
(***************************************************************************)
EXTENDS AssessmentProofs, FiniteSetTheorems, WellFoundedInduction

-----------------------------------------------------------------------------
(* The graph history.                                                      *)

LEMMA HistoryIsLeast ==
  ASSUME NEW t, NEW R, NEW S \in SUBSET R, Touching(t, S, R) \subseteq S
  PROVE  GraphHistory(t, R) \subseteq S
BY DEF GraphHistory

LEMMA HistoryIsClosed ==
  ASSUME NEW t, NEW R
  PROVE  Touching(t, GraphHistory(t, R), R) \subseteq GraphHistory(t, R)
<1>1. PICK H : H = GraphHistory(t, R)
  OBVIOUS
<1>2. ASSUME NEW u \in Touching(t, H, R),
             NEW S \in SUBSET R, Touching(t, S, R) \subseteq S
      PROVE  u \in S
  <2>1. H \subseteq S
    BY <1>1, <1>2, HistoryIsLeast
  <2>2. u \in Touching(t, S, R)
    BY <2>1 DEF Touching
  <2> QED
    BY <1>2, <2>2
<1>3. Touching(t, H, R) \subseteq R
  BY DEF Touching
<1>4. Touching(t, H, R) \subseteq H
  BY <1>1, <1>2, <1>3 DEF GraphHistory
<1> QED
  BY <1>1, <1>4

LEMMA HistoryIsEarlier ==
  ASSUME NEW t, NEW R, NEW u \in GraphHistory(t, R)
  PROVE  u \in R /\ Time[u] < Time[t]
<1>1. PICK S \in SUBSET R : S = { v \in R : Time[v] < Time[t] }
  OBVIOUS
<1>2. Touching(t, S, R) \subseteq S
  BY <1>1 DEF Touching
<1>3. GraphHistory(t, R) \subseteq S
  BY <1>2, HistoryIsLeast
<1> QED
  BY <1>1, <1>3

LEMMA HistoryGrows ==
  ASSUME NEW t, NEW C, NEW R \in SUBSET C
  PROVE  GraphHistory(t, R) \subseteq GraphHistory(t, C)
<1> SUFFICES ASSUME NEW u \in GraphHistory(t, R), NEW S \in SUBSET C,
                    Touching(t, S, C) \subseteq S
             PROVE  u \in C /\ u \in S
  BY DEF GraphHistory
<1>1. Touching(t, S \cap R, R) \subseteq S \cap R
  BY DEF Touching
<1>2. GraphHistory(t, R) \subseteq S \cap R
  BY <1>1, HistoryIsLeast
<1> QED
  BY <1>2

(* Payments outside the history have no influence on it.                   *)
LEMMA HistoryIsLocal ==
  ASSUME NEW t, NEW C, NEW R \in SUBSET C, GraphHistory(t, C) \subseteq R
  PROVE  GraphHistory(t, R) = GraphHistory(t, C)
<1>1. GraphHistory(t, R) \subseteq GraphHistory(t, C)
  BY HistoryGrows
<1>2. Touching(t, GraphHistory(t, R), C) \subseteq GraphHistory(t, R)
  <2> SUFFICES ASSUME NEW u \in Touching(t, GraphHistory(t, R), C)
               PROVE  u \in GraphHistory(t, R)
    OBVIOUS
  <2>1. u \in Touching(t, GraphHistory(t, C), C)
    BY <1>1 DEF Touching
  <2>2. u \in R
    BY <2>1, HistoryIsClosed
  <2>3. u \in Touching(t, GraphHistory(t, R), R)
    BY <2>2 DEF Touching
  <2> QED
    BY <2>3, HistoryIsClosed
<1>3. GraphHistory(t, R) \in SUBSET C
  BY DEF GraphHistory
<1>4. GraphHistory(t, C) \subseteq GraphHistory(t, R)
  BY <1>2, <1>3, HistoryIsLeast
<1> QED
  BY <1>1, <1>4

-----------------------------------------------------------------------------
(* The invariant.                                                          *)

FeaturesLate(t) == Late(t, FeatureHistory(t, Committed))
GraphLate(t)    == Late(t, GraphHistory(t, Committed))

FeaturesCurrent(t, v) ==
  v = FeatureVector(t, FeatureHistory(t, Committed)) \/ FeaturesLate(t)

GraphCurrent(t, g) ==
  g = GraphAssessment(t, GraphHistory(t, Committed)) \/ GraphLate(t)

(* What a call holds of the payments it has read.                          *)
Knows(c) ==
  /\ c.pc # "graph" => c.found = {}
  /\ c.pc = "graph" => c.found \subseteq GraphHistory(c.txn, Committed)
  /\ c.pc \in {"check_features", "insert_features"} =>
       FeaturesCurrent(c.txn, c.vector)
  /\ c.pc \in {"check_graph", "insert_graph"} => GraphCurrent(c.txn, c.graph)
  /\ c.reply = "FeatureSnapshotConflictError" => FeaturesLate(c.txn)
  /\ c.reply = "GraphSnapshotConflictError" => GraphLate(c.txn)

(* What a backfill has read is enough for the payments it has read.        *)
Suffices(t, R) ==
  /\ FeatureHistory(t, R) = FeatureHistory(t, Committed) \/ FeaturesLate(t)
  /\ GraphHistory(t, R) = GraphHistory(t, Committed) \/ GraphLate(t)

TablesCurrent ==
  /\ \A t \in DOMAIN features : FeaturesCurrent(t, features[t])
  /\ \A t \in DOMAIN graphs : GraphCurrent(t, graphs[t])

BatchesSuffice ==
  \A j \in Jobs : batch[j] # None => \A t \in batch[j] : Suffices(t, batch[j])

HInv ==
  /\ TablesCurrent
  /\ \A r \in Calls : Knows(call[r])
  /\ BatchesSuffice

(* The part of RefusalsExplained that is about snapshots.                  *)
SnapshotRefusalsExplained ==
  \A r \in Calls :
    /\ call[r].reply = "FeatureSnapshotConflictError" => FeaturesLate(call[r].txn)
    /\ call[r].reply = "GraphSnapshotConflictError" => GraphLate(call[r].txn)

-----------------------------------------------------------------------------
(* Ingestion.                                                              *)

LEMMA LatenessStays ==
  ASSUME TablesOK, NEW u \in Txns, Ingest(u), NEW t, NEW H, NEW K, H \subseteq K,
         Late(t, H)
  PROVE  Late(t, K)'
<1>1. log \in Seq(Txns) /\ log' = Append(log, u)
  BY DEF TablesOK, Ingest
<1>2. /\ DOMAIN log \subseteq DOMAIN log'
      /\ \A i \in DOMAIN log : log'[i] = log[i]
  BY <1>1
<1> QED
  BY <1>2 DEF Late

(* An event that is ingested after t and is in a history of t is late.     *)
LEMMA NewcomersAreLate ==
  ASSUME TablesOK, NEW u \in Txns, Ingest(u), NEW t \in Committed, NEW H, u \in H
  PROVE  Late(t, H)'
<1>1. log \in Seq(Txns) /\ log' = Append(log, u)
  BY DEF TablesOK, Ingest
<1>2. PICK i \in DOMAIN log : log[i] = t
  BY DEF Committed
<1>3. /\ DOMAIN log = 1 .. Len(log) /\ DOMAIN log' = 1 .. Len(log) + 1
      /\ Len(log) \in Nat
      /\ log'[Len(log) + 1] = u /\ log'[i] = t
  BY <1>1, <1>2
<1>4. i < Len(log) + 1 /\ i \in DOMAIN log' /\ Len(log) + 1 \in DOMAIN log'
  BY <1>2, <1>3
<1> QED
  BY <1>3, <1>4 DEF Late

LEMMA CommittedGrows ==
  ASSUME TablesOK, NEW u \in Txns, Ingest(u)
  PROVE  Committed' = Committed \cup {u}
<1>1. log \in Seq(Txns) /\ log' = Append(log, u)
  BY DEF TablesOK, Ingest
<1>2. /\ DOMAIN log' = DOMAIN log \cup {Len(log) + 1}
      /\ log'[Len(log) + 1] = u /\ \A i \in DOMAIN log : log'[i] = log[i]
  BY <1>1
<1> QED
  BY <1>2 DEF Committed

LEMMA FeaturesOnIngest ==
  ASSUME TablesOK, NEW u \in Txns, Ingest(u), NEW t
  PROVE  /\ FeaturesLate(t) => FeaturesLate(t)'
         /\ t \in Committed =>
              \/ FeatureHistory(t, Committed') = FeatureHistory(t, Committed)
              \/ FeaturesLate(t)'
<1>1. PICK H, K : H = FeatureHistory(t, Committed) /\ K = FeatureHistory(t, Committed')
  OBVIOUS
<1>2. H \subseteq K /\ (u \notin K => H = K)
  BY <1>1, CommittedGrows DEF FeatureHistory
<1>3. (FeaturesLate(t) <=> Late(t, H)) /\ (FeaturesLate(t)' <=> Late(t, K)')
  BY <1>1 DEF FeaturesLate, Late
<1>4. Late(t, H) => Late(t, K)'
  BY <1>2, LatenessStays
<1>5. t \in Committed /\ u \in K => Late(t, K)'
  BY NewcomersAreLate
<1> QED
  BY <1>1, <1>2, <1>3, <1>4, <1>5

LEMMA GraphOnIngest ==
  ASSUME TablesOK, NEW u \in Txns, Ingest(u), NEW t
  PROVE  /\ GraphHistory(t, Committed) \subseteq GraphHistory(t, Committed')
         /\ GraphLate(t) => GraphLate(t)'
         /\ t \in Committed =>
              \/ GraphHistory(t, Committed') = GraphHistory(t, Committed)
              \/ GraphLate(t)'
<1>1. PICK H, K : H = GraphHistory(t, Committed) /\ K = GraphHistory(t, Committed')
  OBVIOUS
<1>2. PICK C, D : C = Committed /\ D = Committed' /\ D = C \cup {u}
  BY CommittedGrows
<1>3. H \subseteq K
  BY <1>1, <1>2, HistoryGrows
<1>4. u \notin K => H = K
  <2>1. K \subseteq D
    BY <1>1, <1>2 DEF GraphHistory
  <2>2. u \notin K => K \subseteq C
    BY <1>2, <2>1
  <2> QED
    BY <1>1, <1>2, <2>2, HistoryIsLocal
<1>5. (GraphLate(t) <=> Late(t, H)) /\ (GraphLate(t)' <=> Late(t, K)')
  BY <1>1 DEF GraphLate, Late
<1>6. Late(t, H) => Late(t, K)'
  BY <1>3, LatenessStays
<1>7. t \in Committed /\ u \in K => Late(t, K)'
  BY NewcomersAreLate
<1> QED
  BY <1>1, <1>3, <1>4, <1>5, <1>6, <1>7

LEMMA CurrentOnIngest ==
  ASSUME TablesOK, NEW u \in Txns, Ingest(u), NEW t \in Committed, NEW v
  PROVE  /\ FeaturesCurrent(t, v) => FeaturesCurrent(t, v)'
         /\ GraphCurrent(t, v) => GraphCurrent(t, v)'
BY FeaturesOnIngest, GraphOnIngest DEF FeaturesCurrent, GraphCurrent

LEMMA KnowsOnIngest ==
  ASSUME TablesOK, NEW u \in Txns, Ingest(u), NEW c, Fits(c), Knows(c)
  PROVE  Knows(c)'
<1>1. c.pc \in {"check_features", "insert_features", "check_graph", "insert_graph"}
        => c.txn \in Committed
  BY DEF Fits
<1>2. PICK t, v, g : t = c.txn /\ v = c.vector /\ g = c.graph
  OBVIOUS
<1>3. GraphHistory(t, Committed) \subseteq GraphHistory(t, Committed')
  BY GraphOnIngest
<1>4. /\ FeaturesLate(t) => FeaturesLate(t)'
      /\ GraphLate(t) => GraphLate(t)'
  BY FeaturesOnIngest, GraphOnIngest
<1>5. t \in Committed =>
        /\ FeaturesCurrent(t, v) => FeaturesCurrent(t, v)'
        /\ GraphCurrent(t, g) => GraphCurrent(t, g)'
  BY CurrentOnIngest
<1> QED
  BY <1>1, <1>2, <1>3, <1>4, <1>5 DEF Knows, FeaturesLate, GraphLate,
     FeaturesCurrent, GraphCurrent

LEMMA SufficesOnIngest ==
  ASSUME TablesOK, NEW u \in Txns, Ingest(u), NEW t \in Committed, NEW R,
         Suffices(t, R)
  PROVE  Suffices(t, R)'
BY FeaturesOnIngest, GraphOnIngest DEF Suffices

LEMMA IngestHInv ==
  ASSUME IInv, HInv, NEW u \in Txns, Ingest(u)
  PROVE  HInv'
<1>1. TablesOK /\ UNCHANGED <<features, graphs, call, batch>>
  BY DEF IInv, Ingest
<1>2. TablesCurrent'
  <2>1. ASSUME NEW t \in DOMAIN features
        PROVE  FeaturesCurrent(t, features[t])'
    <3>1. PICK v : v = features[t]
      OBVIOUS
    <3>2. t \in Committed /\ FeaturesCurrent(t, v)
      BY <1>1, <3>1 DEF TablesOK, HInv, TablesCurrent
    <3>3. FeaturesCurrent(t, v)'
      BY <1>1, <3>2, CurrentOnIngest
    <3> QED
      BY <1>1, <3>1, <3>3 DEF FeaturesCurrent
  <2>2. ASSUME NEW t \in DOMAIN graphs
        PROVE  GraphCurrent(t, graphs[t])'
    <3>1. PICK v : v = graphs[t]
      OBVIOUS
    <3>2. t \in Committed /\ GraphCurrent(t, v)
      BY <1>1, <3>1 DEF TablesOK, HInv, TablesCurrent
    <3>3. GraphCurrent(t, v)'
      BY <1>1, <3>2, CurrentOnIngest
    <3> QED
      BY <1>1, <3>1, <3>3 DEF GraphCurrent
  <2> QED
    BY <1>1, <2>1, <2>2 DEF TablesCurrent
<1>3. ASSUME NEW r \in Calls
      PROVE  Knows(call[r])'
  <2>1. PICK c : c = call[r]
    OBVIOUS
  <2>2. Fits(c) /\ Knows(c)
    BY <2>1 DEF IInv, Local, HInv
  <2>3. Knows(c)'
    BY <1>1, <2>2, KnowsOnIngest
  <2> QED
    BY <1>1, <2>1, <2>3 DEF Knows, FeaturesCurrent, GraphCurrent, FeaturesLate, GraphLate
<1>4. BatchesSuffice'
  <2> SUFFICES ASSUME NEW j \in Jobs, batch[j] # None, NEW t \in batch[j]
               PROVE  Suffices(t, batch[j])'
    BY <1>1 DEF BatchesSuffice
  <2>1. PICK R : R = batch[j]
    OBVIOUS
  <2>2. t \in Committed /\ Suffices(t, R)
    BY <2>1 DEF IInv, BatchOK, HInv, BatchesSuffice
  <2>3. Suffices(t, R)'
    BY <1>1, <2>2, SufficesOnIngest
  <2> QED
    BY <1>1, <2>1, <2>3 DEF Suffices, FeaturesLate, GraphLate
<1> QED
  BY <1>2, <1>3, <1>4 DEF HInv

-----------------------------------------------------------------------------
(* Steps that do not ingest.                                               *)

LEMMA SameLog ==
  ASSUME UNCHANGED log, NEW t, NEW v
  PROVE  /\ Committed' = Committed
         /\ FeaturesCurrent(t, v)' <=> FeaturesCurrent(t, v)
         /\ GraphCurrent(t, v)' <=> GraphCurrent(t, v)
         /\ Suffices(t, v)' <=> Suffices(t, v)
         /\ Knows(v)' <=> Knows(v)
BY DEF Committed, FeaturesCurrent, GraphCurrent, FeaturesLate, GraphLate,
       Suffices, Knows, Late

LEMMA TablesStayCurrent ==
  ASSUME UNCHANGED log,
         \A t \in DOMAIN features' : FeaturesCurrent(t, features'[t]),
         \A t \in DOMAIN graphs' : GraphCurrent(t, graphs'[t])
  PROVE  TablesCurrent'
<1>1. ASSUME NEW t \in DOMAIN features'
      PROVE  FeaturesCurrent(t, features[t])'
  <2>1. PICK v : v = features'[t]
    OBVIOUS
  <2>2. FeaturesCurrent(t, v)'
    BY <2>1, SameLog
  <2> QED
    BY <2>1, <2>2 DEF FeaturesCurrent
<1>2. ASSUME NEW t \in DOMAIN graphs'
      PROVE  GraphCurrent(t, graphs[t])'
  <2>1. PICK v : v = graphs'[t]
    OBVIOUS
  <2>2. GraphCurrent(t, v)'
    BY <2>1, SameLog
  <2> QED
    BY <2>1, <2>2 DEF GraphCurrent
<1> QED
  BY <1>1, <1>2 DEF TablesCurrent

LEMMA BatchesStaySufficient ==
  ASSUME UNCHANGED log,
         \A j \in Jobs :
           batch'[j] # None => \A t \in batch'[j] : Suffices(t, batch'[j])
  PROVE  BatchesSuffice'
<1> SUFFICES ASSUME NEW j \in Jobs, batch'[j] # None, NEW t \in batch'[j]
             PROVE  Suffices(t, batch[j])'
  BY DEF BatchesSuffice
<1>1. PICK R : R = batch'[j]
  OBVIOUS
<1>2. Suffices(t, R)'
  BY <1>1, SameLog
<1> QED
  BY <1>1, <1>2 DEF Suffices, FeaturesLate, GraphLate

LEMMA SameBatches ==
  ASSUME HInv, UNCHANGED <<log, batch>>
  PROVE  BatchesSuffice'
BY BatchesStaySufficient DEF HInv, BatchesSuffice

LEMMA SameTables ==
  ASSUME HInv, UNCHANGED <<log, features, graphs>>
  PROVE  TablesCurrent'
BY TablesStayCurrent DEF HInv, TablesCurrent

LEMMA SameCalls ==
  ASSUME HInv, UNCHANGED <<log, call>>
  PROVE  \A q \in Calls : Knows(call[q])'
BY DEF HInv, Knows, FeaturesCurrent, GraphCurrent, FeaturesLate, GraphLate,
       Late, Committed

LEMMA OneCallKnows ==
  ASSUME IInv, HInv, UNCHANGED <<log, batch>>, TablesCurrent',
         NEW r \in Calls, NEW c, Knows(c), call' = [call EXCEPT ![r] = c]
  PROVE  HInv'
<1>1. ASSUME NEW q \in Calls
      PROVE  Knows(call[q])'
  <2>1. PICK d : d = call'[q]
    OBVIOUS
  <2>2. Knows(d)
    BY <2>1 DEF IInv, HInv
  <2>3. Knows(d)'
    BY <2>2, SameLog
  <2> QED
    BY <2>1, <2>3 DEF Knows, FeaturesCurrent, GraphCurrent, FeaturesLate, GraphLate
<1> QED
  BY <1>1, SameBatches DEF HInv

LEMMA MoveHInv ==
  ASSUME IInv, HInv, NEW r \in Calls, NEW c, Knows(c), Moves(r, c)
  PROVE  HInv'
<1>1. /\ UNCHANGED <<log, features, graphs, batch>>
      /\ call' = [call EXCEPT ![r] = c]
  BY DEF Moves, database
<1> QED
  BY <1>1, SameTables, OneCallKnows

LEMMA EndHInv ==
  ASSUME IInv, HInv, NEW r \in Calls, NEW reply, reply # "ok", Ends(r, reply),
         reply = "FeatureSnapshotConflictError" => FeaturesLate(call[r].txn),
         reply = "GraphSnapshotConflictError" => GraphLate(call[r].txn)
  PROVE  HInv'
<1>1. PICK c : c = [Idle EXCEPT !.pc = "done", !.reply = reply,
                                !.txn = call[r].txn, !.policy = call[r].policy]
  OBVIOUS
<1>2. Moves(r, c)
  BY <1>1 DEF Ends
<1>3. c.pc = "done" /\ c.reply = reply /\ c.txn = call[r].txn /\ c.found = {}
  BY <1>1 DEF Idle
<1>4. Knows(c)
  BY <1>3 DEF Knows
<1> QED
  BY <1>2, <1>4, MoveHInv

LEMMA BeginHInv ==
  ASSUME IInv, HInv, NEW r \in Calls, NEW t \in Txns, NEW p \in Policies, Begin(r, t, p)
  PROVE  HInv'
<1>1. PICK c : c = [call[r] EXCEPT
                      !.txn = t, !.policy = p,
                      !.pc = IF t \in Committed THEN "features" ELSE "done",
                      !.reply = IF t \in Committed THEN "none" ELSE "not_found"]
  OBVIOUS
<1>2. Moves(r, c)
  BY <1>1 DEF Begin
<1>3. Local(call[r]) /\ Knows(call[r]) /\ call[r].pc = "idle"
  BY DEF IInv, HInv, Begin
<1>4. /\ c.pc \in {"features", "done"} /\ c.reply \in {"none", "not_found"}
      /\ c.found = {}
  BY <1>1, <1>3 DEF Local, Shape, Knows
<1>5. Knows(c)
  BY <1>4 DEF Knows
<1> QED
  BY <1>2, <1>5, MoveHInv

LEMMA ComputeFeaturesHInv ==
  ASSUME IInv, HInv, NEW r \in Calls, ComputeFeatures(r)
  PROVE  HInv'
<1>1. PICK v : v = FeatureVector(call[r].txn, FeatureHistory(call[r].txn, Committed))
  OBVIOUS
<1>2. PICK c : c = [call[r] EXCEPT !.pc = "check_features", !.vector = v]
  OBVIOUS
<1>3. Moves(r, c)
  BY <1>1, <1>2 DEF ComputeFeatures
<1>4. Local(call[r]) /\ Knows(call[r]) /\ call[r].pc = "features"
  BY DEF IInv, HInv, ComputeFeatures
<1>5. /\ c.pc = "check_features" /\ c.vector = v /\ c.txn = call[r].txn
      /\ c.reply = "none" /\ c.found = {}
  BY <1>2, <1>4 DEF Local, Shape, Told, Knows
<1>6. Knows(c)
  BY <1>1, <1>5 DEF Knows, FeaturesCurrent
<1> QED
  BY <1>3, <1>6, MoveHInv

(* Two current results differ only if the history changed between them.    *)
LEMMA CheckFeaturesHInv ==
  ASSUME IInv, HInv, NEW r \in Calls, CheckFeatures(r)
  PROVE  HInv'
<1>1. PICK t, rows : /\ t = call[r].txn
                     /\ rows = Missing({"feature_version", "features"}, t, call[r].policy)
  OBVIOUS
<1>2. Local(call[r]) /\ Knows(call[r]) /\ call[r].pc = "check_features"
  BY DEF IInv, HInv, CheckFeatures
<1>3. CASE t \notin DOMAIN features
  <2>1. PICK c : c = [call[r] EXCEPT !.pc = "insert_features", !.inserts = rows]
    OBVIOUS
  <2>2. Moves(r, c)
    BY <1>1, <1>3, <2>1 DEF CheckFeatures
  <2>3. /\ c.pc = "insert_features" /\ c.vector = call[r].vector /\ c.txn = t
        /\ c.reply = "none" /\ c.found = {}
    BY <1>1, <1>2, <2>1 DEF Local, Shape, Told, Knows
  <2>4. Knows(c)
    BY <1>1, <1>2, <2>3 DEF Knows
  <2> QED
    BY <2>2, <2>4, MoveHInv
<1>4. CASE t \in DOMAIN features /\ features[t] = call[r].vector
  <2>1. PICK c : c = [call[r] EXCEPT !.pc = "graph"]
    OBVIOUS
  <2>2. Moves(r, c)
    BY <1>1, <1>4, <2>1 DEF CheckFeatures
  <2>3. c.pc = "graph" /\ c.reply = "none" /\ c.found = {}
    BY <1>2, <2>1 DEF Local, Shape, Told, Knows
  <2>4. Knows(c)
    BY <2>3 DEF Knows
  <2> QED
    BY <2>2, <2>4, MoveHInv
<1>5. CASE t \in DOMAIN features /\ features[t] # call[r].vector
  <2>1. Ends(r, "FeatureSnapshotConflictError")
    BY <1>1, <1>5 DEF CheckFeatures
  <2>2. FeaturesCurrent(t, features[t]) /\ FeaturesCurrent(t, call[r].vector)
    BY <1>1, <1>2, <1>5 DEF HInv, TablesCurrent, Knows
  <2>3. FeaturesLate(t)
    BY <1>5, <2>2 DEF FeaturesCurrent
  <2> QED
    BY <1>1, <2>1, <2>3, EndHInv
<1> QED
  BY <1>3, <1>4, <1>5

(* The loop stays inside the history and stops only when it has all of it. *)
LEMMA SweepGraphHInv ==
  ASSUME IInv, HInv, NEW r \in Calls, SweepGraph(r)
  PROVE  HInv'
<1>1. PICK t, found, rows, H :
        /\ t = call[r].txn /\ found = call[r].found
        /\ rows = Touching(t, found, Committed)
        /\ H = GraphHistory(t, Committed)
  OBVIOUS
<1>2. Local(call[r]) /\ Knows(call[r]) /\ call[r].pc = "graph"
  BY DEF IInv, HInv, SweepGraph
<1>3. found \subseteq H
  BY <1>1, <1>2 DEF Knows
<1>4. H \subseteq Committed /\ Touching(t, H, Committed) \subseteq H
  BY <1>1, HistoryIsClosed DEF GraphHistory
<1>5. rows \subseteq H
  BY <1>1, <1>3, <1>4 DEF Touching
<1>6. CASE rows \subseteq found
  <2>1. PICK g : g = GraphAssessment(t, found)
    OBVIOUS
  <2>2. PICK c : c = [call[r] EXCEPT !.pc = "check_graph", !.found = {}, !.graph = g]
    OBVIOUS
  <2>3. Moves(r, c)
    BY <1>1, <1>6, <2>1, <2>2 DEF SweepGraph
  <2>4. found = H
    <3>1. found \in SUBSET Committed
      BY <1>3, <1>4
    <3>2. H \subseteq found
      BY <1>1, <1>6, <3>1, HistoryIsLeast
    <3> QED
      BY <1>3, <3>2
  <2>5. /\ c.pc = "check_graph" /\ c.found = {} /\ c.graph = g /\ c.txn = t
        /\ c.reply = "none"
    BY <1>1, <1>2, <2>2 DEF Local, Shape, Told
  <2>6. Knows(c)
    BY <1>1, <2>1, <2>4, <2>5 DEF Knows, GraphCurrent
  <2> QED
    BY <2>3, <2>6, MoveHInv
<1>7. CASE ~(rows \subseteq found)
  <2>1. PICK c : c = [call[r] EXCEPT !.found = @ \cup rows]
    OBVIOUS
  <2>2. Moves(r, c)
    BY <1>1, <1>7, <2>1 DEF SweepGraph
  <2>3. c.pc = "graph" /\ c.found = found \cup rows /\ c.txn = t /\ c.reply = "none"
    BY <1>1, <1>2, <2>1 DEF Local, Shape, Told
  <2>4. Knows(c)
    BY <1>1, <1>3, <1>5, <2>3 DEF Knows
  <2> QED
    BY <2>2, <2>4, MoveHInv
<1> QED
  BY <1>6, <1>7

LEMMA CheckGraphHInv ==
  ASSUME IInv, HInv, NEW r \in Calls, CheckGraph(r)
  PROVE  HInv'
<1>1. PICK t : t = call[r].txn
  OBVIOUS
<1>2. Local(call[r]) /\ Knows(call[r]) /\ call[r].pc = "check_graph"
  BY DEF IInv, HInv, CheckGraph
<1>3. CASE t \notin DOMAIN graphs
  <2>1. PICK c : c = [call[r] EXCEPT !.pc = "insert_graph", !.inserts = {"graphs"}]
    OBVIOUS
  <2>2. Moves(r, c)
    BY <1>1, <1>3, <2>1 DEF CheckGraph
  <2>3. /\ c.pc = "insert_graph" /\ c.graph = call[r].graph /\ c.txn = t
        /\ c.reply = "none" /\ c.found = {}
    BY <1>1, <1>2, <2>1 DEF Local, Shape, Told, Knows
  <2>4. Knows(c)
    BY <1>1, <1>2, <2>3 DEF Knows
  <2> QED
    BY <2>2, <2>4, MoveHInv
<1>4. CASE t \in DOMAIN graphs /\ graphs[t] = call[r].graph
  <2>1. PICK c : c = [call[r] EXCEPT !.pc = "score"]
    OBVIOUS
  <2>2. Moves(r, c)
    BY <1>1, <1>4, <2>1 DEF CheckGraph
  <2>3. c.pc = "score" /\ c.reply = "none" /\ c.found = {}
    BY <1>2, <2>1 DEF Local, Shape, Told, Knows
  <2>4. Knows(c)
    BY <2>3 DEF Knows
  <2> QED
    BY <2>2, <2>4, MoveHInv
<1>5. CASE t \in DOMAIN graphs /\ graphs[t] # call[r].graph
  <2>1. Ends(r, "GraphSnapshotConflictError")
    BY <1>1, <1>5 DEF CheckGraph
  <2>2. GraphCurrent(t, graphs[t]) /\ GraphCurrent(t, call[r].graph)
    BY <1>1, <1>2, <1>5 DEF HInv, TablesCurrent, Knows
  <2>3. GraphLate(t)
    BY <1>5, <2>2 DEF GraphCurrent
  <2> QED
    BY <1>1, <2>1, <2>3, EndHInv
<1> QED
  BY <1>3, <1>4, <1>5

(* The last stage of a call does not look at payments.                     *)
LEMMA LastStageHInv ==
  ASSUME IInv, HInv, NEW r \in Calls, Score(r) \/ FindStored(r) \/ LoseRace(r) \/ Abandon(r)
  PROVE  HInv'
<1>1. Local(call[r]) /\ Knows(call[r])
  BY DEF IInv, HInv
<1>2. CASE Score(r)
  <2>1. PICK rows, best : Moves(r, [call[r] EXCEPT !.pc = "record", !.inserts = rows,
                                                   !.cluster = best])
    BY <1>2 DEF Score
  <2>2. PICK c : c = [call[r] EXCEPT !.pc = "record", !.inserts = rows, !.cluster = best]
    OBVIOUS
  <2>3. call[r].pc = "score"
    BY <1>2 DEF Score
  <2>4. c.pc = "record" /\ c.reply = "none" /\ c.found = {}
    BY <1>1, <2>2, <2>3 DEF Local, Shape, Told, Knows
  <2>5. Knows(c)
    BY <2>4 DEF Knows
  <2> QED
    BY <2>1, <2>2, <2>5, MoveHInv
<1>3. CASE FindStored(r)
  <2>1. call[r].pc = "record"
    BY <1>3 DEF FindStored
  <2>2. CASE Ends(r, "AssessmentConflictError")
    BY <2>2, EndHInv
  <2>3. CASE Ends(r, "ok")
    <3>1. PICK c : c = [call[r] EXCEPT !.pc = "done", !.reply = "ok"]
      OBVIOUS
    <3>2. Moves(r, c)
      BY <2>3, <3>1 DEF Ends
    <3>3. c.pc = "done" /\ c.reply = "ok" /\ c.found = {}
      BY <1>1, <2>1, <3>1 DEF Local, Shape, Knows
    <3>4. Knows(c)
      BY <3>3 DEF Knows
    <3> QED
      BY <3>2, <3>4, MoveHInv
  <2>4. ASSUME NEW new, Moves(r, [call[r] EXCEPT !.pc = "commit", !.inserts = @ \cup new])
        PROVE  HInv'
    <3>1. PICK c : c = [call[r] EXCEPT !.pc = "commit", !.inserts = @ \cup new]
      OBVIOUS
    <3>2. c.pc = "commit" /\ c.reply = "none" /\ c.found = {}
      BY <1>1, <2>1, <3>1 DEF Local, Shape, Told, Knows
    <3>3. Knows(c)
      BY <3>2 DEF Knows
    <3> QED
      BY <2>4, <3>1, <3>3, MoveHInv
  <2> DEFINE new == Missing({"prediction", "decision"}, call[r].txn, call[r].policy)
             conflict == \/ call[r].txn \in DOMAIN predictions /\ ~SamePrediction(r)
                         \/ /\ <<call[r].txn, call[r].policy>> \in DOMAIN decisions
                            /\ ~SameDecision(r)
  <2>5. \/ Ends(r, "AssessmentConflictError")
        \/ Ends(r, "ok")
        \/ Moves(r, [call[r] EXCEPT !.pc = "commit", !.inserts = @ \cup new])
    <3>1. CASE conflict
      BY <1>3, <3>1 DEF FindStored
    <3>2. CASE ~conflict /\ new \cup call[r].inserts = {}
      BY <1>3, <3>2 DEF FindStored
    <3>3. CASE ~conflict /\ new \cup call[r].inserts # {}
      BY <1>3, <3>3 DEF FindStored
    <3> QED
      BY <3>1, <3>2, <3>3
  <2> HIDE DEF new, conflict
  <2> QED
    BY <2>2, <2>3, <2>4, <2>5
<1>4. CASE LoseRace(r)
  BY <1>4, EndHInv DEF LoseRace
<1>5. CASE Abandon(r)
  <2>1. PICK c : c = [Idle EXCEPT !.pc = "gone"]
    OBVIOUS
  <2>2. Moves(r, c)
    BY <1>5, <2>1 DEF Abandon
  <2>3. c.pc = "gone" /\ c.reply = "none" /\ c.found = {}
    BY <2>1 DEF Idle
  <2>4. Knows(c)
    BY <2>3 DEF Knows
  <2> QED
    BY <2>2, <2>4, MoveHInv
<1> QED
  BY <1>2, <1>3, <1>4, <1>5

-----------------------------------------------------------------------------
(* Steps that write rows.                                                  *)

LEMMA InsertFeaturesHInv ==
  ASSUME IInv, HInv, NEW r \in Calls, InsertFeatures(r)
  PROVE  HInv'
<1>1. PICK t, v : t = call[r].txn /\ v = call[r].vector
  OBVIOUS
<1>2. Local(call[r]) /\ Knows(call[r]) /\ call[r].pc = "insert_features"
  BY DEF IInv, HInv, InsertFeatures
<1>3. PICK c : c = [call[r] EXCEPT !.pc = "graph", !.inserts = {}]
  OBVIOUS
<1>4. /\ call' = [call EXCEPT ![r] = c]
      /\ features' = Insert(features, t, v)
      /\ UNCHANGED <<log, graphs, batch>>
  BY <1>1, <1>2, <1>3 DEF InsertFeatures, IInv
<1>5. c.pc = "graph" /\ c.found = {} /\ c.reply = "none"
  BY <1>2, <1>3 DEF Local, Shape, Told, Knows
<1>6. Knows(c)
  BY <1>5 DEF Knows
<1>7. FeaturesCurrent(t, v)
  BY <1>1, <1>2 DEF Knows
<1>8. TablesCurrent'
  BY <1>4, <1>7, TablesStayCurrent DEF HInv, TablesCurrent, Insert
<1> QED
  BY <1>4, <1>6, <1>8, OneCallKnows

LEMMA InsertGraphHInv ==
  ASSUME IInv, HInv, NEW r \in Calls, InsertGraph(r)
  PROVE  HInv'
<1>1. PICK t, g : t = call[r].txn /\ g = call[r].graph
  OBVIOUS
<1>2. Local(call[r]) /\ Knows(call[r]) /\ call[r].pc = "insert_graph"
  BY DEF IInv, HInv, InsertGraph
<1>3. PICK c : c = [call[r] EXCEPT !.pc = "score", !.inserts = {}]
  OBVIOUS
<1>4. /\ call' = [call EXCEPT ![r] = c]
      /\ graphs' = Insert(graphs, t, g)
      /\ UNCHANGED <<log, features, batch>>
  BY <1>1, <1>2, <1>3 DEF InsertGraph, IInv
<1>5. c.pc = "score" /\ c.found = {} /\ c.reply = "none"
  BY <1>2, <1>3 DEF Local, Shape, Told, Knows
<1>6. Knows(c)
  BY <1>5 DEF Knows
<1>7. GraphCurrent(t, g)
  BY <1>1, <1>2 DEF Knows
<1>8. TablesCurrent'
  BY <1>4, <1>7, TablesStayCurrent DEF HInv, TablesCurrent, Insert
<1> QED
  BY <1>4, <1>6, <1>8, OneCallKnows

LEMMA CommitAssessmentHInv ==
  ASSUME IInv, HInv, NEW r \in Calls, CommitAssessment(r)
  PROVE  HInv'
<1>1. Local(call[r]) /\ Knows(call[r]) /\ call[r].pc = "commit"
  BY DEF IInv, HInv, CommitAssessment
<1>2. PICK c : c = [call[r] EXCEPT !.pc = "done", !.reply = "ok", !.inserts = {}]
  OBVIOUS
<1>3. call' = [call EXCEPT ![r] = c] /\ UNCHANGED <<log, features, graphs, batch>>
  BY <1>1, <1>2 DEF CommitAssessment, IInv
<1>4. c.pc = "done" /\ c.found = {} /\ c.reply = "ok"
  BY <1>1, <1>2 DEF Local, Shape, Knows
<1>5. Knows(c)
  BY <1>4 DEF Knows
<1> QED
  BY <1>3, <1>5, SameTables, OneCallKnows

-----------------------------------------------------------------------------
(* Backfills.                                                              *)

(* A prefix in the order of event time holds the histories of its members. *)
LEMMA PrefixSuffices ==
  ASSUME TablesOK, NEW R \in SUBSET Committed, NEW t \in R,
         \A u \in R, v \in Committed \ R : Time[u] <= Time[v]
  PROVE  Suffices(t, R)
<1>1. Committed \subseteq Txns
  BY DEF TablesOK, Committed
<1>2. \A v \in Committed : Time[v] < Time[t] => v \in R
  BY <1>1, TimeAssumption
<1>3. FeatureHistory(t, R) = FeatureHistory(t, Committed)
  BY <1>2 DEF FeatureHistory
<1>4. GraphHistory(t, Committed) \subseteq R
  BY <1>2, HistoryIsEarlier
<1>5. GraphHistory(t, R) = GraphHistory(t, Committed)
  BY <1>4, HistoryIsLocal
<1> QED
  BY <1>3, <1>5 DEF Suffices

LEMMA StartBackfillHInv ==
  ASSUME IInv, HInv, NEW j \in Jobs, NEW R \in SUBSET Committed, StartBackfill(j, R)
  PROVE  HInv'
<1>1. /\ UNCHANGED <<log, features, graphs, call>>
      /\ batch' = [batch EXCEPT ![j] = R]
      /\ \A u \in R, v \in Committed \ R : Time[u] <= Time[v]
  BY DEF StartBackfill, database
<1>2. \A t \in R : Suffices(t, R)
  BY <1>1, PrefixSuffices DEF IInv
<1>3. BatchesSuffice'
  BY <1>1, <1>2, BatchesStaySufficient DEF IInv, BatchOK, HInv, BatchesSuffice
<1> QED
  BY <1>1, <1>3, SameTables, SameCalls DEF HInv

LEMMA BatchEnds ==
  ASSUME IInv, HInv, UNCHANGED log, NEW j \in Jobs, batch' = [batch EXCEPT ![j] = None]
  PROVE  BatchesSuffice'
BY BatchesStaySufficient DEF IInv, BatchOK, HInv, BatchesSuffice

LEMMA FinishFeatureBackfillHInv ==
  ASSUME IInv, HInv, FinishFeatureBackfill
  PROVE  HInv'
<1>1. PICK R : R = batch["features"]
  OBVIOUS
<1>2. PICK offline : offline = OfflineFeatures(R)
  OBVIOUS
<1>3. /\ "features" \in Jobs /\ R # None
      /\ features' = Filled(features, offline)
      /\ batch' = [batch EXCEPT !["features"] = None]
      /\ UNCHANGED <<log, graphs, call>>
  BY <1>1, <1>2 DEF FinishFeatureBackfill
<1>4. \A t \in R : FeaturesCurrent(t, FeatureVector(t, FeatureHistory(t, R)))
  BY <1>1, <1>3 DEF HInv, BatchesSuffice, Suffices, FeaturesCurrent
<1>5. DOMAIN offline = R /\ \A t \in R : FeaturesCurrent(t, offline[t])
  BY <1>2, <1>4 DEF OfflineFeatures
<1>6. \A t \in DOMAIN features' : FeaturesCurrent(t, features'[t])
  BY <1>3, <1>5 DEF Filled, HInv, TablesCurrent
<1>7. TablesCurrent'
  BY <1>3, <1>6, TablesStayCurrent DEF HInv, TablesCurrent
<1> QED
  BY <1>3, <1>7, SameCalls, BatchEnds DEF HInv

LEMMA FinishGraphBackfillHInv ==
  ASSUME IInv, HInv, FinishGraphBackfill
  PROVE  HInv'
<1>1. PICK R : R = batch["graphs"]
  OBVIOUS
<1>2. PICK offline : offline = OfflineGraphs(R)
  OBVIOUS
<1>3. /\ "graphs" \in Jobs /\ R # None
      /\ graphs' = Filled(graphs, offline)
      /\ batch' = [batch EXCEPT !["graphs"] = None]
      /\ UNCHANGED <<log, features, call>>
  BY <1>1, <1>2 DEF FinishGraphBackfill
<1>4. \A t \in R : GraphCurrent(t, GraphAssessment(t, GraphHistory(t, R)))
  BY <1>1, <1>3 DEF HInv, BatchesSuffice, Suffices, GraphCurrent
<1>5. DOMAIN offline = R /\ \A t \in R : GraphCurrent(t, offline[t])
  BY <1>2, <1>4 DEF OfflineGraphs
<1>6. \A t \in DOMAIN graphs' : GraphCurrent(t, graphs'[t])
  BY <1>3, <1>5 DEF Filled, HInv, TablesCurrent
<1>7. TablesCurrent'
  BY <1>3, <1>6, TablesStayCurrent DEF HInv, TablesCurrent
<1> QED
  BY <1>3, <1>7, SameCalls, BatchEnds DEF HInv

LEMMA AbortBackfillHInv ==
  ASSUME IInv, HInv, NEW j \in Jobs, AbortBackfill(j)
  PROVE  HInv'
<1>1. /\ UNCHANGED <<log, features, graphs, call>>
      /\ batch' = [batch EXCEPT ![j] = None]
  BY DEF AbortBackfill, database
<1> QED
  BY <1>1, SameTables, SameCalls, BatchEnds DEF HInv

-----------------------------------------------------------------------------

LEMMA InitHInv == Init => HInv
<1> SUFFICES ASSUME Init PROVE HInv
  OBVIOUS
<1>1. /\ features = <<>> /\ graphs = <<>>
      /\ call = [r \in Calls |-> Idle] /\ batch = [j \in Jobs |-> None]
  BY DEF Init
<1>2. TablesCurrent /\ BatchesSuffice
  BY <1>1 DEF TablesCurrent, BatchesSuffice
<1>3. Idle.pc = "idle" /\ Idle.reply = "none" /\ Idle.found = {}
  BY DEF Idle
<1>4. Knows(Idle)
  BY <1>3 DEF Knows
<1> QED
  BY <1>1, <1>2, <1>4 DEF HInv

LEMMA NextHInv ==
  ASSUME IInv, HInv, Assessed \subseteq Txns, [Next]_vars
  PROVE  HInv'
<1>1. ASSUME NEW r \in Calls, NEW t \in Assessed, NEW p \in Policies, Begin(r, t, p)
      PROVE  HInv'
  BY <1>1, BeginHInv
<1>2. ASSUME NEW r \in Calls, CallStep(r) \/ Abandon(r)
      PROVE  HInv'
  BY <1>2, ComputeFeaturesHInv, CheckFeaturesHInv, InsertFeaturesHInv,
     SweepGraphHInv, CheckGraphHInv, InsertGraphHInv, LastStageHInv,
     CommitAssessmentHInv DEF CallStep
<1>3. ASSUME NEW t \in Txns, Ingest(t)
      PROVE  HInv'
  BY <1>3, IngestHInv
<1>4. ASSUME NEW j \in Jobs, NEW R \in SUBSET Committed, StartBackfill(j, R)
      PROVE  HInv'
  BY <1>4, StartBackfillHInv
<1>5. ASSUME FinishFeatureBackfill \/ FinishGraphBackfill
      PROVE  HInv'
  BY <1>5, FinishFeatureBackfillHInv, FinishGraphBackfillHInv
<1>6. ASSUME NEW j \in Jobs, AbortBackfill(j)
      PROVE  HInv'
  BY <1>6, AbortBackfillHInv
<1>7. CASE UNCHANGED vars
  <2>1. UNCHANGED <<log, features, graphs, call, batch>>
    BY <1>7 DEF vars
  <2> QED
    BY <2>1, SameTables, SameCalls, SameBatches DEF HInv
<1>8. CASE Next
  BY <1>1, <1>2, <1>3, <1>4, <1>5, <1>6, <1>8 DEF Next
<1> QED
  BY <1>7, <1>8

THEOREM HistoryInvariance == Spec => []HInv
<1>1. IInv /\ HInv /\ [Next]_vars => HInv'
  BY NextHInv, AssessedAssumption
<1> QED
  BY <1>1, InitHInv, Invariance, PTL DEF Spec

(* A stored snapshot is what a computation over all committed payments     *)
(* gives, unless an earlier event it depends on came in after its payment. *)
THEOREM PointInTime == Spec => []SnapshotsMatchOffline
<1>1. IInv /\ HInv => SnapshotsMatchOffline
  BY DEF HInv, TablesCurrent, FeaturesCurrent, GraphCurrent, FeaturesLate,
         GraphLate, SnapshotsMatchOffline
<1> QED
  BY <1>1, Invariance, HistoryInvariance, PTL

(* Nobody is refused over a snapshot of _persist_snapshot or               *)
(* _persist_assessment unless a late event made it obsolete.               *)
THEOREM OnlyLateEventsRefuse == Spec => []SnapshotRefusalsExplained
<1>1. HInv => SnapshotRefusalsExplained
  BY DEF HInv, Knows, SnapshotRefusalsExplained
<1> QED
  BY <1>1, HistoryInvariance, PTL

-----------------------------------------------------------------------------
(* Features and graph of one prediction.                                   *)

(* The latest time of a set of payments before a given time is one of them *)
(* and at least as late as all of them.                                    *)
LEMMA LatestIsMaximal ==
  ASSUME NEW H \in SUBSET Txns, NEW n \in Nat \ {0}, \A u \in H : Time[u] < n
  PROVE  /\ Latest(H) \in Nat /\ Latest(H) < n
         /\ \A u \in H : Time[u] <= Latest(H)
         /\ H = {} => Latest(H) = 0
         /\ H # {} => \E u \in H : Latest(H) = Time[u]
<1>1. \A u \in H : Time[u] \in Nat /\ n - Time[u] \in Nat
  <2>2. \A u \in H : Time[u] \in Nat
    BY TimeAssumption
  <2> QED
    BY <2>2
<1>2. CASE H = {}
  BY <1>2 DEF Latest
<1>3. CASE H # {}
  <2>1. PICK D : D = { n - Time[u] : u \in H }
    OBVIOUS
  <2>2. D \in SUBSET Nat
    <3>1. \A x \in D : \E u \in H : x = n - Time[u]
      BY <2>1
    <3> QED
      BY <3>1, <1>1
  <2>3. \E x \in D : \A y \in D : ~(<<y, x>> \in OpToRel(<, Nat))
    <3>1. D # {}
      BY <1>3, <2>1
    <3> QED
      BY <2>2, <3>1, NatLessThanWellFounded, WFMin
  <2>4. PICK x \in D : \A y \in D : ~(y < x)
    BY <2>2, <2>3 DEF OpToRel
  <2>5. PICK v \in H : x = n - Time[v]
    BY <2>1, <2>4
  <2>6. \A u \in H : Time[u] <= Time[v]
    <3> SUFFICES ASSUME NEW u \in H PROVE Time[u] <= Time[v]
      OBVIOUS
    <3>1. ~(n - Time[u] < n - Time[v])
      BY <2>1, <2>4, <2>5
    <3> QED
      BY <3>1, <1>1
  <2>7. /\ Latest(H) \in { Time[u] : u \in H }
        /\ \A u \in H : Time[u] <= Latest(H)
    BY <1>3, <2>6 DEF Latest
  <2> QED
    BY <2>7, <1>1
<1> QED
  BY <1>2, <1>3

(* The body of EvidenceConsistent.                                         *)
Consistent(t, f, g) ==
  /\ f.source <= g.source /\ g.source < Time[t]
  /\ \A k \in EntityTypes : f.seen[k] > 0 => Entity(t, k) \in UNION g.edges

(* Features of payments that were there before the loop of the graph ended *)
(* are covered by what it found.                                           *)
LEMMA LoopCoversFeatures ==
  ASSUME NEW t \in Txns, NEW C \in SUBSET Txns, NEW R \in SUBSET C,
         NEW found \in SUBSET C, Touching(t, found, C) \subseteq found,
         \A u \in found : Time[u] < Time[t]
  PROVE  Consistent(t, FeatureVector(t, FeatureHistory(t, R)), GraphAssessment(t, found))
<1>1. PICK F : F = FeatureHistory(t, R)
  OBVIOUS
<1>2. F \subseteq found
  BY <1>1 DEF FeatureHistory, Touching, Linked
<1>3. Time[t] \in Nat \ {0}
  BY TimeAssumption
<1>4. /\ Latest(F) \in Nat /\ Latest(found) \in Nat /\ Latest(found) < Time[t]
      /\ \A u \in found : Time[u] <= Latest(found)
      /\ F = {} => Latest(F) = 0
      /\ F # {} => \E u \in F : Latest(F) = Time[u]
  <2>1. F \in SUBSET Txns /\ found \in SUBSET Txns /\ \A u \in F : Time[u] < Time[t]
    BY <1>2
  <2>2. /\ Latest(F) \in Nat /\ Latest(found) \in Nat /\ Latest(found) < Time[t]
        /\ \A u \in found : Time[u] <= Latest(found)
        /\ F = {} => Latest(F) = 0
        /\ F # {} => \E u \in F : Latest(F) = Time[u]
    BY <2>1, <1>3, LatestIsMaximal
  <2> QED
    BY <2>2
<1>5. Latest(F) <= Latest(found)
  BY <1>2, <1>4
<1>6. ASSUME NEW k \in EntityTypes,
             Cardinality({ u \in F : Ref[u][k] = Ref[t][k] }) > 0
      PROVE  \E u \in found : Entity(t, k) \in UNION Relationships(u)
  <2>1. PICK S : S = { u \in F : Ref[u][k] = Ref[t][k] }
    OBVIOUS
  <2>2. Cardinality({}) = 0
    BY FS_EmptySet
  <2>3. S # {}
    BY <1>6, <2>1, <2>2
  <2>4. PICK u \in F : Ref[u][k] = Ref[t][k]
    BY <2>1, <2>3
  <2>5. Entity(t, k) = Entity(u, k)
    BY <2>4 DEF Entity
  <2>6. \E j \in EntityTypes \ {"customer"} : k \in {"customer", j}
    BY DEF EntityTypes
  <2>7. PICK j \in EntityTypes \ {"customer"} : k \in {"customer", j}
    BY <2>6
  <2>8. /\ {Entity(u, "customer"), Entity(u, j)} \in Relationships(u)
        /\ Entity(u, k) \in {Entity(u, "customer"), Entity(u, j)}
    BY <2>7 DEF Relationships
  <2> QED
    BY <1>2, <2>5, <2>8
<1>7. \A k \in EntityTypes :
        Cardinality({ u \in F : Ref[u][k] = Ref[t][k] }) > 0 =>
          Entity(t, k) \in UNION UNION { Relationships(u) : u \in found }
  BY <1>6
<1> QED
  BY <1>1, <1>4, <1>5, <1>7 DEF Consistent, FeatureVector, GraphAssessment

(* Counted from payments that are committed.                               *)
Counted(t, v) ==
  \E R \in SUBSET Committed : v = FeatureVector(t, FeatureHistory(t, R))

Joins(c) ==
  /\ c.pc \in {"check_features", "insert_features"} => Counted(c.txn, c.vector)
  /\ c.pc \in {"check_graph", "insert_graph", "score", "record", "commit"} =>
       Consistent(c.txn, c.vector, c.graph)

EInv ==
  /\ \A t \in DOMAIN features : Counted(t, features[t])
  /\ \A r \in Calls : Joins(call[r])
  /\ EvidenceConsistent

LEMMA CountedStays ==
  ASSUME Grows, NEW t, NEW v, Counted(t, v)
  PROVE  Counted(t, v)'
BY DEF Grows, Counted

LEMMA EvidenceStays ==
  ASSUME EvidenceConsistent, predictions' = predictions
  PROVE  EvidenceConsistent'
BY DEF EvidenceConsistent

LEMMA FeaturesStayCounted ==
  ASSUME EInv, Grows, features' = features
  PROVE  (\A t \in DOMAIN features : Counted(t, features[t]))'
BY CountedStays DEF EInv

LEMMA OneCallJoins ==
  ASSUME IInv, EInv, Grows, NEW r \in Calls, NEW c, Joins(c),
         call' = [call EXCEPT ![r] = c]
  PROVE  \A q \in Calls : Joins(call[q])'
<1> SUFFICES ASSUME NEW q \in Calls PROVE Joins(call[q])'
  OBVIOUS
<1>1. PICK d : d = call'[q]
  OBVIOUS
<1>2. Joins(d)
  BY <1>1 DEF IInv, EInv
<1>3. Joins(d)'
  BY <1>2, CountedStays DEF Joins
<1> QED
  BY <1>1, <1>3 DEF Joins, Counted

LEMMA OtherCallsJoin ==
  ASSUME EInv, Grows, call' = call
  PROVE  \A q \in Calls : Joins(call[q])'
<1> SUFFICES ASSUME NEW q \in Calls PROVE Joins(call[q])'
  OBVIOUS
<1>1. PICK d : d = call[q]
  OBVIOUS
<1>2. Joins(d)'
  BY <1>1, CountedStays DEF EInv, Joins
<1> QED
  BY <1>1, <1>2 DEF Joins, Counted

LEMMA MoveEInv ==
  ASSUME IInv, EInv, Grows, NEW r \in Calls, NEW c, Joins(c), Moves(r, c)
  PROVE  EInv'
<1>1. features' = features /\ predictions' = predictions /\ call' = [call EXCEPT ![r] = c]
  BY DEF Moves, database
<1> QED
  BY <1>1, FeaturesStayCounted, OneCallJoins, EvidenceStays DEF EInv

(* A move after which the call holds nothing, or the same as before.       *)
LEMMA IdleMoveEInv ==
  ASSUME IInv, EInv, Grows, NEW r \in Calls, NEW c,
         \/ c.pc \in {"idle", "features", "graph", "done", "gone"}
         \/ /\ c.pc = "insert_features" /\ call[r].pc = "check_features"
            /\ c.txn = call[r].txn /\ c.vector = call[r].vector
         \/ /\ c.pc \in {"insert_graph", "score", "record", "commit"}
            /\ call[r].pc \in {"check_graph", "score", "record"}
            /\ c.txn = call[r].txn /\ c.vector = call[r].vector
            /\ c.graph = call[r].graph,
         Moves(r, c)
  PROVE  EInv'
<1>1. Joins(call[r])
  BY DEF EInv
<1>2. Joins(c)
  BY <1>1 DEF Joins
<1> QED
  BY <1>2, MoveEInv

LEMMA EndEInv ==
  ASSUME IInv, EInv, Grows, NEW r \in Calls, NEW reply, reply # "ok", Ends(r, reply)
  PROVE  EInv'
<1>1. PICK c : c = [Idle EXCEPT !.pc = "done", !.reply = reply,
                                !.txn = call[r].txn, !.policy = call[r].policy]
  OBVIOUS
<1>2. Moves(r, c)
  BY <1>1 DEF Ends
<1>3. c.pc = "done"
  BY <1>1 DEF Idle
<1> QED
  BY <1>2, <1>3, IdleMoveEInv

LEMMA BeginEInv ==
  ASSUME IInv, EInv, Grows, NEW r \in Calls, NEW t \in Txns, NEW p \in Policies,
         Begin(r, t, p)
  PROVE  EInv'
<1>1. PICK c : c = [call[r] EXCEPT
                      !.txn = t, !.policy = p,
                      !.pc = IF t \in Committed THEN "features" ELSE "done",
                      !.reply = IF t \in Committed THEN "none" ELSE "not_found"]
  OBVIOUS
<1>2. Moves(r, c)
  BY <1>1 DEF Begin
<1>3. c.pc \in {"features", "done"}
  BY <1>1 DEF IInv, Local, Shape
<1> QED
  BY <1>2, <1>3, IdleMoveEInv

LEMMA ComputeFeaturesEInv ==
  ASSUME IInv, EInv, Grows, NEW r \in Calls, ComputeFeatures(r)
  PROVE  EInv'
<1>1. PICK v : v = FeatureVector(call[r].txn, FeatureHistory(call[r].txn, Committed))
  OBVIOUS
<1>2. PICK c : c = [call[r] EXCEPT !.pc = "check_features", !.vector = v]
  OBVIOUS
<1>3. Moves(r, c)
  BY <1>1, <1>2 DEF ComputeFeatures
<1>4. c.pc = "check_features" /\ c.vector = v /\ c.txn = call[r].txn
  BY <1>2 DEF IInv, Local, Shape
<1>5. Joins(c)
  BY <1>1, <1>4 DEF Joins, Counted
<1> QED
  BY <1>3, <1>5, MoveEInv

LEMMA CheckFeaturesEInv ==
  ASSUME IInv, EInv, Grows, NEW r \in Calls, CheckFeatures(r)
  PROVE  EInv'
<1>1. PICK t, rows : /\ t = call[r].txn
                     /\ rows = Missing({"feature_version", "features"}, t, call[r].policy)
  OBVIOUS
<1>2. Shape(call[r]) /\ call[r].pc = "check_features"
  BY DEF IInv, Local, CheckFeatures
<1>3. CASE t \notin DOMAIN features
  <2>1. PICK c : c = [call[r] EXCEPT !.pc = "insert_features", !.inserts = rows]
    OBVIOUS
  <2>2. Moves(r, c)
    BY <1>1, <1>3, <2>1 DEF CheckFeatures
  <2>3. c.pc = "insert_features" /\ c.vector = call[r].vector /\ c.txn = call[r].txn
    BY <1>2, <2>1 DEF Shape
  <2> QED
    BY <1>2, <2>2, <2>3, IdleMoveEInv
<1>4. CASE t \in DOMAIN features /\ features[t] = call[r].vector
  <2>1. PICK c : c = [call[r] EXCEPT !.pc = "graph"]
    OBVIOUS
  <2>2. Moves(r, c)
    BY <1>1, <1>4, <2>1 DEF CheckFeatures
  <2>3. c.pc = "graph"
    BY <1>2, <2>1 DEF Shape
  <2> QED
    BY <2>2, <2>3, IdleMoveEInv
<1>5. CASE t \in DOMAIN features /\ features[t] # call[r].vector
  BY <1>1, <1>5, EndEInv DEF CheckFeatures
<1> QED
  BY <1>3, <1>4, <1>5

(* When the loop ends, whatever the stored features count is in it.        *)
LEMMA SweepGraphEInv ==
  ASSUME IInv, HInv, EInv, Grows, NEW r \in Calls, SweepGraph(r)
  PROVE  EInv'
<1>1. PICK t, found, rows :
        /\ t = call[r].txn /\ found = call[r].found
        /\ rows = Touching(t, found, Committed)
  OBVIOUS
<1>2. Local(call[r]) /\ Knows(call[r]) /\ call[r].pc = "graph"
  BY DEF IInv, HInv, SweepGraph
<1>3. CASE rows \subseteq found
  <2>1. PICK g : g = GraphAssessment(t, found)
    OBVIOUS
  <2>2. PICK c : c = [call[r] EXCEPT !.pc = "check_graph", !.found = {}, !.graph = g]
    OBVIOUS
  <2>3. Moves(r, c)
    BY <1>1, <1>3, <2>1, <2>2 DEF SweepGraph
  <2>4. /\ c.pc = "check_graph" /\ c.graph = g /\ c.txn = t
        /\ c.vector = call[r].vector
    BY <1>1, <1>2, <2>2 DEF Local, Shape
  <2>5. t \in Txns /\ Committed \in SUBSET Txns
    BY <1>1, <1>2 DEF IInv, TablesOK, Committed, Local, Fits
  <2>6. found \in SUBSET Committed /\ \A u \in found : Time[u] < Time[t]
    BY <1>1, <1>2, HistoryIsEarlier DEF Knows
  <2>7. t \in DOMAIN features /\ features[t] = call[r].vector
    BY <1>1, <1>2 DEF Local, Fits
  <2>8. PICK R \in SUBSET Committed : call[r].vector = FeatureVector(t, FeatureHistory(t, R))
    BY <2>7 DEF EInv, Counted
  <2>9. Consistent(t, call[r].vector, g)
    BY <1>1, <1>3, <2>1, <2>5, <2>6, <2>8, LoopCoversFeatures
  <2>10. Joins(c)
    BY <2>4, <2>9 DEF Joins
  <2> QED
    BY <2>3, <2>10, MoveEInv
<1>4. CASE ~(rows \subseteq found)
  <2>1. PICK c : c = [call[r] EXCEPT !.found = @ \cup rows]
    OBVIOUS
  <2>2. Moves(r, c)
    BY <1>1, <1>4, <2>1 DEF SweepGraph
  <2>3. c.pc = "graph"
    BY <1>2, <2>1 DEF Local, Shape
  <2> QED
    BY <2>2, <2>3, IdleMoveEInv
<1> QED
  BY <1>3, <1>4

LEMMA CheckGraphEInv ==
  ASSUME IInv, EInv, Grows, NEW r \in Calls, CheckGraph(r)
  PROVE  EInv'
<1>1. PICK t : t = call[r].txn
  OBVIOUS
<1>2. Shape(call[r]) /\ call[r].pc = "check_graph"
  BY DEF IInv, Local, CheckGraph
<1>3. ASSUME NEW c, Moves(r, c), c.pc \in {"insert_graph", "score"},
             c.txn = call[r].txn, c.vector = call[r].vector, c.graph = call[r].graph
      PROVE  EInv'
  BY <1>2, <1>3, IdleMoveEInv
<1>4. CASE t \notin DOMAIN graphs
  <2>1. PICK c : c = [call[r] EXCEPT !.pc = "insert_graph", !.inserts = {"graphs"}]
    OBVIOUS
  <2>2. Moves(r, c)
    BY <1>1, <1>4, <2>1 DEF CheckGraph
  <2>3. /\ c.pc = "insert_graph" /\ c.txn = call[r].txn
        /\ c.vector = call[r].vector /\ c.graph = call[r].graph
    BY <1>2, <2>1 DEF Shape
  <2> QED
    BY <1>3, <2>2, <2>3
<1>5. CASE t \in DOMAIN graphs /\ graphs[t] = call[r].graph
  <2>1. PICK c : c = [call[r] EXCEPT !.pc = "score"]
    OBVIOUS
  <2>2. Moves(r, c)
    BY <1>1, <1>5, <2>1 DEF CheckGraph
  <2>3. /\ c.pc = "score" /\ c.txn = call[r].txn
        /\ c.vector = call[r].vector /\ c.graph = call[r].graph
    BY <1>2, <2>1 DEF Shape
  <2> QED
    BY <1>3, <2>2, <2>3
<1>6. CASE t \in DOMAIN graphs /\ graphs[t] # call[r].graph
  BY <1>1, <1>6, EndEInv DEF CheckGraph
<1> QED
  BY <1>4, <1>5, <1>6

LEMMA LastStageEInv ==
  ASSUME IInv, EInv, Grows, NEW r \in Calls,
         Score(r) \/ FindStored(r) \/ LoseRace(r) \/ Abandon(r)
  PROVE  EInv'
<1>1. Shape(call[r])
  BY DEF IInv, Local
<1>2. CASE Score(r)
  <2>1. PICK rows, best : Moves(r, [call[r] EXCEPT !.pc = "record", !.inserts = rows,
                                                   !.cluster = best])
    BY <1>2 DEF Score
  <2>2. PICK c : c = [call[r] EXCEPT !.pc = "record", !.inserts = rows, !.cluster = best]
    OBVIOUS
  <2>3. call[r].pc = "score"
    BY <1>2 DEF Score
  <2>4. /\ c.pc = "record" /\ c.txn = call[r].txn
        /\ c.vector = call[r].vector /\ c.graph = call[r].graph
    BY <1>1, <2>2 DEF Shape
  <2> QED
    BY <2>1, <2>2, <2>3, <2>4, IdleMoveEInv
<1>3. CASE FindStored(r)
  <2>1. call[r].pc = "record"
    BY <1>3 DEF FindStored
  <2>2. CASE Ends(r, "AssessmentConflictError")
    BY <2>2, EndEInv
  <2>3. CASE Ends(r, "ok")
    <3>1. PICK c : c = [call[r] EXCEPT !.pc = "done", !.reply = "ok"]
      OBVIOUS
    <3>2. Moves(r, c)
      BY <2>3, <3>1 DEF Ends
    <3>3. c.pc = "done"
      BY <1>1, <3>1 DEF Shape
    <3> QED
      BY <3>2, <3>3, IdleMoveEInv
  <2>4. ASSUME NEW new, Moves(r, [call[r] EXCEPT !.pc = "commit", !.inserts = @ \cup new])
        PROVE  EInv'
    <3>1. PICK c : c = [call[r] EXCEPT !.pc = "commit", !.inserts = @ \cup new]
      OBVIOUS
    <3>2. /\ c.pc = "commit" /\ c.txn = call[r].txn
          /\ c.vector = call[r].vector /\ c.graph = call[r].graph
      BY <1>1, <3>1 DEF Shape
    <3> QED
      BY <2>1, <2>4, <3>1, <3>2, IdleMoveEInv
  <2> DEFINE new == Missing({"prediction", "decision"}, call[r].txn, call[r].policy)
             conflict == \/ call[r].txn \in DOMAIN predictions /\ ~SamePrediction(r)
                         \/ /\ <<call[r].txn, call[r].policy>> \in DOMAIN decisions
                            /\ ~SameDecision(r)
  <2>5. \/ Ends(r, "AssessmentConflictError")
        \/ Ends(r, "ok")
        \/ Moves(r, [call[r] EXCEPT !.pc = "commit", !.inserts = @ \cup new])
    <3>1. CASE conflict
      BY <1>3, <3>1 DEF FindStored
    <3>2. CASE ~conflict /\ new \cup call[r].inserts = {}
      BY <1>3, <3>2 DEF FindStored
    <3>3. CASE ~conflict /\ new \cup call[r].inserts # {}
      BY <1>3, <3>3 DEF FindStored
    <3> QED
      BY <3>1, <3>2, <3>3
  <2> HIDE DEF new, conflict
  <2> QED
    BY <2>2, <2>3, <2>4, <2>5
<1>4. CASE LoseRace(r)
  BY <1>4, EndEInv DEF LoseRace
<1>5. CASE Abandon(r)
  <2>1. PICK c : c = [Idle EXCEPT !.pc = "gone"]
    OBVIOUS
  <2>2. Moves(r, c)
    BY <1>5, <2>1 DEF Abandon
  <2>3. c.pc = "gone"
    BY <2>1 DEF Idle
  <2> QED
    BY <2>2, <2>3, IdleMoveEInv
<1> QED
  BY <1>2, <1>3, <1>4, <1>5

LEMMA InsertFeaturesEInv ==
  ASSUME IInv, EInv, Grows, NEW r \in Calls, InsertFeatures(r)
  PROVE  EInv'
<1>1. PICK t, v : t = call[r].txn /\ v = call[r].vector
  OBVIOUS
<1>2. Shape(call[r]) /\ Joins(call[r]) /\ call[r].pc = "insert_features"
  BY DEF IInv, Local, EInv, InsertFeatures
<1>3. PICK c : c = [call[r] EXCEPT !.pc = "graph", !.inserts = {}]
  OBVIOUS
<1>4. /\ call' = [call EXCEPT ![r] = c]
      /\ features' = Insert(features, t, v)
      /\ predictions' = predictions
  BY <1>1, <1>3 DEF InsertFeatures, IInv
<1>5. Joins(c)
  BY <1>2, <1>3 DEF Shape, Joins
<1>6. Counted(t, v)
  BY <1>1, <1>2 DEF Joins
<1>7. (\A u \in DOMAIN features : Counted(u, features[u]))'
  <2>1. \A u \in DOMAIN features' : Counted(u, features'[u])
    BY <1>4, <1>6 DEF EInv, Insert
  <2> QED
    BY <2>1, CountedStays
<1> QED
  BY <1>4, <1>5, <1>7, OneCallJoins, EvidenceStays DEF EInv

LEMMA InsertGraphEInv ==
  ASSUME IInv, EInv, Grows, NEW r \in Calls, InsertGraph(r)
  PROVE  EInv'
<1>1. Shape(call[r]) /\ Joins(call[r]) /\ call[r].pc = "insert_graph"
  BY DEF IInv, Local, EInv, InsertGraph
<1>2. PICK c : c = [call[r] EXCEPT !.pc = "score", !.inserts = {}]
  OBVIOUS
<1>3. /\ call' = [call EXCEPT ![r] = c]
      /\ features' = features /\ predictions' = predictions
  BY <1>2 DEF InsertGraph, IInv
<1>4. /\ c.pc = "score" /\ c.txn = call[r].txn
      /\ c.vector = call[r].vector /\ c.graph = call[r].graph
  BY <1>1, <1>2 DEF Shape
<1>5. Joins(c)
  BY <1>1, <1>4 DEF Joins
<1> QED
  BY <1>3, <1>5, FeaturesStayCounted, OneCallJoins, EvidenceStays DEF EInv

(* The prediction that is inserted joins what the call has computed.       *)
LEMMA CommitAssessmentEInv ==
  ASSUME IInv, EInv, Grows, NEW r \in Calls, CommitAssessment(r)
  PROVE  EInv'
<1>1. PICK t, p : t = call[r].txn /\ p = call[r].policy
  OBVIOUS
<1>2. Shape(call[r]) /\ Joins(call[r]) /\ call[r].pc = "commit"
  BY DEF IInv, Local, EInv, CommitAssessment
<1>3. PICK c : c = [call[r] EXCEPT !.pc = "done", !.reply = "ok", !.inserts = {}]
  OBVIOUS
<1>4. call' = [call EXCEPT ![r] = c] /\ features' = features
  BY <1>3 DEF CommitAssessment, IInv
<1>5. Joins(c)
  BY <1>2, <1>3 DEF Shape, Joins
<1>6. /\ DOMAIN predictions' = DOMAIN predictions \cup {t}
      /\ \A u \in DOMAIN predictions : predictions'[u] = predictions[u]
      /\ predictions'[t].features = call[r].vector
      /\ predictions'[t].graph = call[r].graph
  <2>1. features[t] = call[r].vector /\ graphs[t] = call[r].graph
    BY <1>1, CommitFacts
  <2>2. /\ DOMAIN predictions' = DOMAIN predictions \cup {t}
        /\ \A u \in DOMAIN predictions : predictions'[u] = predictions[u]
        /\ predictions'[t].features = features[t]
        /\ predictions'[t].graph = graphs[t]
    BY <1>1, CommitEffect
  <2> QED
    BY <2>1, <2>2
<1>7. Consistent(t, predictions'[t].features, predictions'[t].graph)
  BY <1>1, <1>2, <1>6 DEF Joins
<1>8. \A u \in DOMAIN predictions :
        Consistent(u, predictions'[u].features, predictions'[u].graph)
  BY <1>6 DEF EInv, EvidenceConsistent, Consistent
<1>9. EvidenceConsistent'
  BY <1>6, <1>7, <1>8 DEF EvidenceConsistent, Consistent
<1> QED
  BY <1>4, <1>5, <1>9, FeaturesStayCounted, OneCallJoins DEF EInv

LEMMA FinishFeatureBackfillEInv ==
  ASSUME IInv, EInv, Grows, FinishFeatureBackfill
  PROVE  EInv'
<1>1. PICK R : R = batch["features"]
  OBVIOUS
<1>2. PICK offline : offline = OfflineFeatures(R)
  OBVIOUS
<1>3. /\ R \in SUBSET Committed
      /\ features' = Filled(features, offline)
      /\ call' = call /\ predictions' = predictions
  BY <1>1, <1>2 DEF FinishFeatureBackfill, IInv, BatchOK
<1>4. DOMAIN offline = R /\ \A t \in R : Counted(t, offline[t])
  BY <1>2, <1>3 DEF OfflineFeatures, Counted
<1>5. (\A u \in DOMAIN features : Counted(u, features[u]))'
  <2>1. \A u \in DOMAIN features' : Counted(u, features'[u])
    BY <1>3, <1>4 DEF EInv, Filled
  <2> QED
    BY <2>1, CountedStays
<1> QED
  BY <1>3, <1>5, OtherCallsJoin, EvidenceStays DEF EInv

LEMMA OtherStepsEInv ==
  ASSUME EInv, Grows, UNCHANGED <<features, predictions, call>>
  PROVE  EInv'
BY FeaturesStayCounted, OtherCallsJoin, EvidenceStays DEF EInv

LEMMA InitEInv == Init => EInv
<1> SUFFICES ASSUME Init PROVE EInv
  OBVIOUS
<1>1. features = <<>> /\ predictions = <<>> /\ call = [r \in Calls |-> Idle]
  BY DEF Init
<1>2. Joins(Idle)
  BY DEF Joins, Idle
<1> QED
  BY <1>1, <1>2 DEF EInv, EvidenceConsistent

LEMMA NextEInv ==
  ASSUME IInv, HInv, EInv, Assessed \subseteq Txns, [Next]_vars
  PROVE  EInv'
<1>1. Grows
  BY NextPreserves
<1>2. ASSUME NEW r \in Calls, NEW t \in Assessed, NEW p \in Policies, Begin(r, t, p)
      PROVE  EInv'
  BY <1>1, <1>2, BeginEInv
<1>3. ASSUME NEW r \in Calls, CallStep(r) \/ Abandon(r)
      PROVE  EInv'
  BY <1>1, <1>3, ComputeFeaturesEInv, CheckFeaturesEInv, InsertFeaturesEInv,
     SweepGraphEInv, CheckGraphEInv, InsertGraphEInv, LastStageEInv,
     CommitAssessmentEInv DEF CallStep
<1>4. CASE FinishFeatureBackfill
  BY <1>1, <1>4, FinishFeatureBackfillEInv
<1>5. CASE \/ \E t \in Txns : Ingest(t)
           \/ \E j \in Jobs, R \in SUBSET Committed : StartBackfill(j, R)
           \/ FinishGraphBackfill
           \/ \E j \in Jobs : AbortBackfill(j)
           \/ UNCHANGED vars
  <2>1. ASSUME NEW t, Ingest(t)
        PROVE  UNCHANGED <<features, predictions, call>>
    BY <2>1 DEF Ingest
  <2>2. ASSUME NEW j, NEW R, StartBackfill(j, R) \/ AbortBackfill(j)
        PROVE  UNCHANGED <<features, predictions, call>>
    BY <2>2 DEF StartBackfill, AbortBackfill, database
  <2>3. FinishGraphBackfill => UNCHANGED <<features, predictions, call>>
    BY DEF FinishGraphBackfill
  <2>4. UNCHANGED vars => UNCHANGED <<features, predictions, call>>
    BY DEF vars
  <2> QED
    BY <1>1, <1>5, <2>1, <2>2, <2>3, <2>4, OtherStepsEInv
<1> QED
  BY <1>2, <1>3, <1>4, <1>5 DEF Next

(* A prediction never joins newer features to an older graph, whoever      *)
(* wrote the two snapshots and whatever came in late between them.         *)
THEOREM PredictionsJoinOneHistory == Spec => []EvidenceConsistent
<1>1. IInv /\ HInv /\ EInv /\ [Next]_vars => EInv'
  BY NextEInv, AssessedAssumption
<1>2. EInv => EvidenceConsistent
  BY DEF EInv
<1> QED
  BY <1>1, <1>2, InitEInv, Invariance, HistoryInvariance, PTL DEF Spec

-----------------------------------------------------------------------------
(* Refusals over a decision.                                               *)

(* Whoever has cited a cluster found one in the table, and persisting      *)
(* detections never empties the table.                                     *)
CitesNone ==
  /\ \A r \in Calls : call[r].cluster = None
  /\ \A d \in DOMAIN decisions : decisions[d].cluster = None

RefusedOverClusters ==
  \A r \in Calls : call[r].reply = "AssessmentConflictError" => clusters # {}

CInv == (clusters = {} => CitesNone) /\ RefusedOverClusters

LEMMA DetectedFinite ==
  ASSUME NEW R, IsFiniteSet(R)
  PROVE  IsFiniteSet(Detected(R))
<1> DEFINE f == [t \in R |-> Cluster(CHOOSE d \in Qualifying(Component(t, R)) : TRUE,
                                     Component(t, R))]
           all == {f[t] : t \in R}
<1>1. IsFiniteSet(all)
  <2>1. f \in Surjection(R, all)
    BY DEF Surjection
  <2> HIDE DEF f
  <2> QED
    BY <2>1, FS_Surjection
<1>2. Detected(R) \subseteq all
  BY Zenon DEF Detected
<1> QED
  BY <1>1, <1>2, FS_Subset

(* Each detection leaves a cluster, its own or the one it was merged into. *)
LEMMA PersistedNeverEmpty ==
  ASSUME NEW table, NEW d
  PROVE  Persisted(table, d) # {}
BY DEF Persisted

LEMMA PersistNeverEmpties ==
  ASSUME NEW table, table # {}, NEW D, IsFiniteSet(D)
  PROVE  PersistClusters(table, D) # {}
<1> DEFINE
      x(s) == CHOOSE y \in s : TRUE
      Step(f) == [s \in SUBSET D |-> IF s = {} THEN table ELSE Persisted(f[s \ {x(s)}], x(s))]
      iter == CHOOSE f : f = Step(f)
      Upto(n) == {s \in SUBSET D : Cardinality(s) =< n}
      Good(n) == \E f : f = [s \in SUBSET D |-> f[s]] /\ \A s \in Upto(n) : f[s] = Step(f)[s]
<1>1. PersistClusters(table, D) = iter[D]
  BY DEF PersistClusters, FoldSet, MapThenFoldSet
<1>2. \A s \in SUBSET D : IsFiniteSet(s) /\ Cardinality(s) \in Nat
  BY FS_Subset, FS_CardinalityType
<1>3. \A s \in SUBSET D :
        s # {} => s \ {x(s)} \in SUBSET D /\ Cardinality(s \ {x(s)}) = Cardinality(s) - 1
  <2> SUFFICES ASSUME NEW s \in SUBSET D, s # {}
               PROVE  /\ s \ {x(s)} \in SUBSET D
                      /\ Cardinality(s \ {x(s)}) = Cardinality(s) - 1
    OBVIOUS
  <2>1. x(s) \in s
    OBVIOUS
  <2> HIDE DEF x
  <2> QED
    BY <1>2, <2>1, FS_RemoveElement
<1> HIDE DEF x
<1>4. Good(0)
  <2> DEFINE f == [s \in SUBSET D |-> table]
  <2>1. ASSUME NEW s \in Upto(0) PROVE s = {}
    <3>1. s \in SUBSET D /\ Cardinality(s) =< 0
      OBVIOUS
    <3> QED
      BY <1>2, <3>1, FS_EmptySet
  <2>2. \A s \in Upto(0) : f[s] = Step(f)[s]
    BY <2>1
  <2> QED
    BY <2>2
<1>5. \A n \in Nat : Good(n) => Good(n + 1)
  <2> SUFFICES ASSUME NEW n \in Nat, Good(n)
               PROVE  Good(n + 1)
    OBVIOUS
  <2>0. PICK f : f = [s \in SUBSET D |-> f[s]] /\ \A s \in Upto(n) : f[s] = Step(f)[s]
    OBVIOUS
  <2> DEFINE h == Step(f)
  <2>1. h = [s \in SUBSET D |-> h[s]]
    OBVIOUS
  <2>2. ASSUME NEW s \in Upto(n + 1) PROVE h[s] = Step(h)[s]
    <3>1. CASE s = {}
      BY <2>2, <3>1
    <3>2. CASE s # {}
      <4>1. s \ {x(s)} \in Upto(n)
        BY <1>2, <1>3, <2>2, <3>2
      <4>2. h[s \ {x(s)}] = f[s \ {x(s)}]
        BY <2>0, <4>1
      <4> QED
        BY <2>2, <3>2, <4>2
    <3> QED
      BY <3>1, <3>2
  <2> HIDE DEF h
  <2> QED
    BY <2>1, <2>2
<1>6. Good(Cardinality(D))
  <2> DEFINE Bad == {n \in Nat : ~Good(n)}
  <2>1. CASE Bad = {}
    BY <1>2, <2>1
  <2>2. CASE Bad # {}
    <3> HIDE DEF Good
    <3>1. PICK m \in Bad : \A y \in Bad : ~(<<y, m>> \in OpToRel(<, Nat))
      BY <2>2, NatLessThanWellFounded, WFMin
    <3>2. m # 0 /\ m - 1 \in Nat /\ m - 1 < m
      BY <1>4
    <3>3. m - 1 \notin Bad
      BY <3>1, <3>2 DEF OpToRel
    <3> QED
      BY <1>5, <3>2, <3>3
  <2> QED
    BY <2>1, <2>2
<1>7. \E f : f = Step(f)
  <2>1. PICK f : f = [s \in SUBSET D |-> f[s]]
                 /\ \A s \in Upto(Cardinality(D)) : f[s] = Step(f)[s]
    BY <1>6
  <2>2. SUBSET D = Upto(Cardinality(D))
    BY <1>2, FS_Subset
  <2> QED
    BY <2>1, <2>2
<1>8. iter = Step(iter)
  BY <1>7
<1> HIDE DEF iter
<1>9. iter[D] = IF D = {} THEN table ELSE Persisted(iter[D \ {x(D)}], x(D))
  BY <1>8
<1> QED
  BY <1>1, <1>9, PersistedNeverEmpty

-----------------------------------------------------------------------------

LEMMA MoveCInv ==
  ASSUME IInv, CInv, NEW r \in Calls, NEW c, Moves(r, c),
         clusters = {} => c.cluster = None,
         c.reply = "AssessmentConflictError" => clusters # {}
  PROVE  CInv'
<1>1. /\ call' = [call EXCEPT ![r] = c]
      /\ clusters' = clusters /\ decisions' = decisions
  BY DEF Moves, database
<1>2. \A q \in Calls : call'[q] = IF q = r THEN c ELSE call[q]
  BY <1>1 DEF IInv
<1>3. clusters' = {} => CitesNone'
  BY <1>1, <1>2 DEF CInv, CitesNone
<1>4. RefusedOverClusters'
  BY <1>1, <1>2 DEF CInv, RefusedOverClusters
<1> QED
  BY <1>3, <1>4 DEF CInv

(* A move that cites what the call cited before, or nothing.               *)
LEMMA KeepCInv ==
  ASSUME IInv, CInv, NEW r \in Calls, NEW c, Moves(r, c),
         c.cluster \in {call[r].cluster, None}, c.reply # "AssessmentConflictError"
  PROVE  CInv'
<1>1. clusters = {} => c.cluster = None
  BY DEF CInv, CitesNone
<1> QED
  BY <1>1, MoveCInv

LEMMA EndCInv ==
  ASSUME IInv, CInv, NEW r \in Calls, NEW reply, Ends(r, reply),
         reply = "AssessmentConflictError" => clusters # {}
  PROVE  CInv'
<1>1. Shape(call[r])
  BY DEF IInv, Local
<1>2. CASE reply = "ok"
  <2>1. PICK c : c = [call[r] EXCEPT !.pc = "done", !.reply = "ok"]
    OBVIOUS
  <2>2. Moves(r, c)
    BY <1>2, <2>1 DEF Ends
  <2>3. c.cluster = call[r].cluster /\ c.reply = "ok"
    BY <1>1, <2>1 DEF Shape
  <2> QED
    BY <2>2, <2>3, KeepCInv
<1>3. CASE reply # "ok"
  <2>1. PICK c : c = [Idle EXCEPT !.pc = "done", !.reply = reply,
                                  !.txn = call[r].txn, !.policy = call[r].policy]
    OBVIOUS
  <2>2. Moves(r, c)
    BY <1>3, <2>1 DEF Ends
  <2>3. c.cluster = None /\ c.reply = reply
    BY <2>1 DEF Idle
  <2> QED
    BY <2>2, <2>3, MoveCInv
<1> QED
  BY <1>2, <1>3

(* Only decisions of different clusters conflict: the predictions never do *)
(* (NoPredictionConflict).                                                 *)
LEMMA FindStoredCInv ==
  ASSUME IInv, CInv, NEW r \in Calls, FindStored(r)
  PROVE  CInv'
<1> DEFINE t   == call[r].txn
           p   == call[r].policy
           new == Missing({"prediction", "decision"}, t, p)
           conflict == \/ t \in DOMAIN predictions /\ ~SamePrediction(r)
                       \/ <<t, p>> \in DOMAIN decisions /\ ~SameDecision(r)
<1>1. Shape(call[r]) /\ Told(call[r]) /\ call[r].pc = "record"
  BY DEF IInv, Local, FindStored
<1>2. t \in DOMAIN predictions => SamePrediction(r)
  BY <1>1 DEF IInv, TablesOK, Local, Fits, SamePrediction
<1>3. CASE conflict
  <2>1. Ends(r, "AssessmentConflictError")
    BY <1>3 DEF FindStored
  <2>2. <<t, p>> \in DOMAIN decisions /\ ~SameDecision(r)
    BY <1>2, <1>3
  <2>3. clusters # {}
    BY <2>2 DEF CInv, CitesNone, SameDecision, ClusterId
  <2> QED
    BY <2>1, <2>3, EndCInv
<1>4. CASE ~conflict /\ new \cup call[r].inserts = {}
  <2>1. Ends(r, "ok")
    BY <1>4 DEF FindStored
  <2> QED
    BY <2>1, EndCInv
<1>5. CASE ~conflict /\ new \cup call[r].inserts # {}
  <2>1. PICK c : c = [call[r] EXCEPT !.pc = "commit", !.inserts = @ \cup new]
    OBVIOUS
  <2>2. Moves(r, c)
    <3>1. Moves(r, [call[r] EXCEPT !.pc = "commit", !.inserts = @ \cup new])
      BY <1>5 DEF FindStored
    <3> QED
      BY <2>1, <3>1
  <2> HIDE DEF new, conflict
  <2>3. c.cluster = call[r].cluster /\ c.reply = "none"
    BY <1>1, <2>1 DEF Shape, Told
  <2> QED
    BY <2>2, <2>3, KeepCInv
<1> QED
  BY <1>3, <1>4, <1>5

LEMMA ScoreCInv ==
  ASSUME IInv, CInv, NEW r \in Calls, Score(r)
  PROVE  CInv'
<1>1. Shape(call[r]) /\ Told(call[r]) /\ call[r].pc = "score"
  BY DEF IInv, Local, Score
<1> DEFINE found == Active(clusters, call[r].txn)
           cluster == IF found = {} THEN None ELSE Best(found)
<1>2. PICK c : c = [call[r] EXCEPT
                      !.pc = "record",
                      !.inserts = Missing({"model_version"}, call[r].txn, None),
                      !.cluster = cluster]
  OBVIOUS
<1>3. Moves(r, c)
  BY <1>2 DEF Score
<1>4. clusters = {} => cluster = None
  BY DEF Active
<1> HIDE DEF cluster
<1>5. c.cluster = cluster /\ c.reply = "none"
  BY <1>1, <1>2 DEF Shape, Told
<1> QED
  BY <1>3, <1>4, <1>5, MoveCInv

(* Every other step of a call keeps what it cites.                         *)
LEMMA SameCitationCInv ==
  ASSUME IInv, CInv, NEW r \in Calls,
         \/ \E t \in Txns, p \in Policies : Begin(r, t, p)
         \/ ComputeFeatures(r) \/ CheckFeatures(r) \/ InsertFeatures(r)
         \/ SweepGraph(r) \/ CheckGraph(r) \/ InsertGraph(r)
         \/ LoseRace(r) \/ Abandon(r)
  PROVE  CInv'
<1>1. Shape(call[r]) /\ (call[r].pc # "done" => call[r].reply = "none")
  BY DEF IInv, Local, Told
<1>2. ASSUME NEW c, Moves(r, c), c.cluster = call[r].cluster,
             c.reply \in {"none", "not_found"}
      PROVE  CInv'
  BY <1>2, KeepCInv
<1>3. ASSUME NEW t \in Txns, NEW p \in Policies, Begin(r, t, p)
      PROVE  CInv'
  <2>1. PICK c : c = [call[r] EXCEPT
                 !.txn = t, !.policy = p,
                 !.pc = IF t \in Committed THEN "features" ELSE "done",
                 !.reply = IF t \in Committed THEN "none" ELSE "not_found"]
    OBVIOUS
  <2>2. Moves(r, c)
    BY <1>3, <2>1 DEF Begin
  <2>3. c.cluster = call[r].cluster /\ c.reply \in {"none", "not_found"}
    BY <1>1, <2>1 DEF Shape
  <2> QED
    BY <1>2, <2>2, <2>3
<1>4. CASE ComputeFeatures(r)
  <2> DEFINE v == FeatureVector(call[r].txn, FeatureHistory(call[r].txn, Committed))
  <2>1. PICK c : c = [call[r] EXCEPT !.pc = "check_features", !.vector = v]
    OBVIOUS
  <2>2. Moves(r, c) /\ call[r].pc = "features"
    BY <1>4, <2>1 DEF ComputeFeatures
  <2> HIDE DEF v
  <2>3. c.cluster = call[r].cluster /\ c.reply = "none"
    BY <1>1, <2>1, <2>2 DEF Shape
  <2> QED
    BY <1>2, <2>2, <2>3
<1>5. CASE CheckFeatures(r)
  <2> DEFINE rows == Missing({"feature_version", "features"}, call[r].txn, call[r].policy)
             a == [call[r] EXCEPT !.pc = "insert_features", !.inserts = rows]
             b == [call[r] EXCEPT !.pc = "graph"]
  <2>1. \/ Moves(r, a) \/ Moves(r, b) \/ Ends(r, "FeatureSnapshotConflictError")
    BY <1>5 DEF CheckFeatures
  <2>2. call[r].pc = "check_features"
    BY <1>5 DEF CheckFeatures
  <2> HIDE DEF rows
  <2>3. /\ a.cluster = call[r].cluster /\ a.reply = "none"
        /\ b.cluster = call[r].cluster /\ b.reply = "none"
    BY <1>1, <2>2 DEF Shape
  <2> HIDE DEF a, b
  <2> QED
    BY <1>2, <2>1, <2>3, EndCInv
<1>6. CASE SweepGraph(r)
  <2> DEFINE rows == Touching(call[r].txn, call[r].found, Committed)
             g == GraphAssessment(call[r].txn, call[r].found)
             a == [call[r] EXCEPT !.pc = "check_graph", !.found = {}, !.graph = g]
             b == [call[r] EXCEPT !.found = @ \cup rows]
  <2>1. Moves(r, a) \/ Moves(r, b)
    BY <1>6 DEF SweepGraph
  <2>2. call[r].pc = "graph"
    BY <1>6 DEF SweepGraph
  <2> HIDE DEF rows, g
  <2>3. /\ a.cluster = call[r].cluster /\ a.reply = "none"
        /\ b.cluster = call[r].cluster /\ b.reply = "none"
    BY <1>1, <2>2 DEF Shape
  <2> HIDE DEF a, b
  <2> QED
    BY <1>2, <2>1, <2>3
<1>7. CASE CheckGraph(r)
  <2> DEFINE a == [call[r] EXCEPT !.pc = "insert_graph", !.inserts = {"graphs"}]
             b == [call[r] EXCEPT !.pc = "score"]
  <2>1. \/ Moves(r, a) \/ Moves(r, b) \/ Ends(r, "GraphSnapshotConflictError")
    BY <1>7 DEF CheckGraph
  <2>2. call[r].pc = "check_graph"
    BY <1>7 DEF CheckGraph
  <2>3. /\ a.cluster = call[r].cluster /\ a.reply = "none"
        /\ b.cluster = call[r].cluster /\ b.reply = "none"
    BY <1>1, <2>2 DEF Shape
  <2> HIDE DEF a, b
  <2> QED
    BY <1>2, <2>1, <2>3, EndCInv
<1>8. CASE InsertFeatures(r) \/ InsertGraph(r)
  <2>1. PICK pc \in Pcs : call' = [call EXCEPT ![r].pc = pc, ![r].inserts = {}]
    BY <1>8 DEF InsertFeatures, InsertGraph, Pcs
  <2>2. \A q \in Calls : call'[q].cluster = call[q].cluster /\ call'[q].reply = call[q].reply
    BY <1>1, <2>1 DEF IInv, Shape
  <2>3. clusters' = clusters /\ decisions' = decisions
    BY <1>8 DEF InsertFeatures, InsertGraph
  <2> QED
    BY <2>2, <2>3 DEF CInv, CitesNone, RefusedOverClusters
<1>9. CASE LoseRace(r)
  BY <1>9, EndCInv DEF LoseRace
<1>10. CASE Abandon(r)
  <2>1. PICK c : c = [Idle EXCEPT !.pc = "gone"]
    OBVIOUS
  <2>2. Moves(r, c) /\ c.cluster = None /\ c.reply = "none"
    BY <1>10, <2>1 DEF Abandon, Idle
  <2> QED
    BY <2>2, KeepCInv
<1> QED
  BY <1>3, <1>4, <1>5, <1>6, <1>7, <1>8, <1>9, <1>10

(* The decision that is written cites what its call cites.                 *)
LEMMA CommitAssessmentCInv ==
  ASSUME IInv, CInv, NEW r \in Calls, CommitAssessment(r)
  PROVE  CInv'
<1>1. PICK t, p : t = call[r].txn /\ p = call[r].policy
  OBVIOUS
<1>2. Shape(call[r])
  BY DEF IInv, Local
<1>3. clusters' = clusters
  BY DEF CommitAssessment
<1>4. \A q \in Calls : /\ call'[q].cluster = call[q].cluster
                       /\ call'[q].reply \in {call[q].reply, "ok"}
  <2>1. call' = [call EXCEPT ![r].pc = "done", ![r].reply = "ok", ![r].inserts = {}]
    BY DEF CommitAssessment
  <2> QED
    BY <1>2, <2>1 DEF IInv, Shape
<1>5. /\ DOMAIN decisions' = DOMAIN decisions \cup {<<t, p>>}
      /\ \A d \in DOMAIN decisions : decisions'[d] = decisions[d]
      /\ decisions'[<<t, p>>].cluster = ClusterId(r)
  <2>1. /\ DOMAIN predictions' = DOMAIN predictions \cup {t}
        /\ \A u \in DOMAIN predictions : predictions'[u] = predictions[u]
        /\ predictions'[t].features = features[t]
        /\ predictions'[t].graph = graphs[t]
        /\ DOMAIN decisions' = DOMAIN decisions \cup {<<t, p>>}
        /\ \A d \in DOMAIN decisions : decisions'[d] = decisions[d]
        /\ decisions'[<<t, p>>] = Decision(r)
    BY <1>1, CommitEffect
  <2>2. Decision(r).cluster = ClusterId(r)
    BY DEF Decision
  <2> QED
    BY <2>1, <2>2
<1>6. clusters' = {} => CitesNone'
  BY <1>3, <1>4, <1>5 DEF CInv, CitesNone, ClusterId
<1>7. RefusedOverClusters'
  BY <1>3, <1>4 DEF CInv, RefusedOverClusters
<1> QED
  BY <1>6, <1>7 DEF CInv

LEMMA FinishGraphBackfillCInv ==
  ASSUME IInv, CInv, FinishGraphBackfill
  PROVE  CInv'
<1>1. PICK R : R = batch["graphs"]
  OBVIOUS
<1>2. /\ R \in SUBSET Committed
      /\ clusters' = PersistClusters(clusters, Detected(R))
      /\ call' = call /\ decisions' = decisions
  BY <1>1 DEF FinishGraphBackfill, IInv, BatchOK
<1>3. IsFiniteSet(R)
  <2>1. log \in Seq(Txns)
    BY DEF IInv, TablesOK
  <2>2. IsFiniteSet({log[i] : i \in 1 .. Len(log)})
    <3>1. Len(log) \in Int /\ IsFiniteSet(1 .. Len(log))
      BY <2>1, FS_Interval
    <3>2. [i \in 1 .. Len(log) |-> log[i]]
            \in Surjection(1 .. Len(log), {log[i] : i \in 1 .. Len(log)})
      BY DEF Surjection
    <3> QED
      BY <3>1, <3>2, FS_Surjection
  <2>3. Committed = {log[i] : i \in 1 .. Len(log)}
    BY <2>1 DEF Committed
  <2> QED
    BY <1>2, <2>2, <2>3, FS_Subset
<1>4. IsFiniteSet(Detected(R))
  BY <1>3, DetectedFinite
<1>5. clusters # {} => clusters' # {}
  BY <1>2, <1>4, PersistNeverEmpties
<1> QED
  BY <1>2, <1>5 DEF CInv, CitesNone, RefusedOverClusters

LEMMA InitCInv == Init => CInv
BY DEF Init, CInv, CitesNone, RefusedOverClusters, Idle

LEMMA NextCInv ==
  ASSUME IInv, CInv, Assessed \subseteq Txns, [Next]_vars
  PROVE  CInv'
<1>1. ASSUME NEW r \in Calls, NEW t \in Assessed, NEW p \in Policies, Begin(r, t, p)
      PROVE  CInv'
  BY <1>1, SameCitationCInv
<1>2. ASSUME NEW r \in Calls, CallStep(r) \/ Abandon(r)
      PROVE  CInv'
  BY <1>2, SameCitationCInv, ScoreCInv, FindStoredCInv, CommitAssessmentCInv DEF CallStep
<1>3. CASE FinishGraphBackfill
  BY <1>3, FinishGraphBackfillCInv
<1>4. ASSUME UNCHANGED <<clusters, decisions, call>>
      PROVE  CInv'
  BY <1>4 DEF CInv, CitesNone, RefusedOverClusters
<1>5. CASE \/ \E t \in Txns : Ingest(t)
           \/ \E j \in Jobs, R \in SUBSET Committed : StartBackfill(j, R)
           \/ FinishFeatureBackfill
           \/ \E j \in Jobs : AbortBackfill(j)
           \/ UNCHANGED vars
  BY <1>4, <1>5 DEF Ingest, StartBackfill, FinishFeatureBackfill, AbortBackfill, database, vars
<1> QED
  BY <1>1, <1>2, <1>3, <1>5 DEF Next

(* Every refusal has its cause: over a snapshot, a late event made it      *)
(* obsolete; over a decision, a backfill has stored clusters, one of which *)
(* the stored decision or the new one cites.                               *)
THEOREM RefusalsHaveCauses == Spec => []RefusalsExplained
<1>1. IInv /\ CInv /\ [Next]_vars => CInv'
  BY NextCInv, AssessedAssumption
<1>2. HInv /\ CInv => RefusalsExplained
  BY DEF HInv, Knows, CInv, RefusedOverClusters, RefusalsExplained, FeaturesLate, GraphLate
<1> QED
  BY <1>1, <1>2, InitCInv, Invariance, HistoryInvariance, PTL DEF Spec

=============================================================================
