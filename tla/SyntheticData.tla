----------------------------- MODULE SyntheticData -----------------------------
(***************************************************************************)
(* Events of a synthetic data set (packages/synthetic: generator.py,       *)
(* manifest.py).  The ingestion of a data set and the benchmark generate   *)
(* them alike.  An event is a record with at least [id, time, scenario,    *)
(* ring].                                                                  *)
(***************************************************************************)
EXTENDS Integers, FiniteSets, SequencesExt

CONSTANTS
  Normal,   \* ScenarioType.NORMAL_TRAFFIC
  NoRing    \* of an event of normal traffic

(* generate_dataset sorts what the generators drew by time and id, and     *)
(* numbers it.                                                             *)
Earlier(a, b) == a.time < b.time \/ (a.time = b.time /\ a.id < b.id)
Events(drawn) == SetToSortSeq(drawn, Earlier)

(* The label is given by the scenario.                                     *)
IsAbuse(event) == event.scenario # Normal

(* scenario_counts of the manifest names the scenarios with an event.      *)
ScenariosOf(drawn) == {e.scenario : e \in drawn}
AbuseCount(drawn) == Cardinality({e \in drawn : IsAbuse(e)})
=============================================================================
