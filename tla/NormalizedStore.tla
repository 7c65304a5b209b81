-------------------------- MODULE NormalizedStore --------------------------
(***************************************************************************)
(* What ingestion promises, without requests, statements or locks: every   *)
(* event is received at most once, its normalization is one indivisible    *)
(* step, and the relationship graph is at every moment the exact aggregate *)
(* of the normalized events -- the sighting interval of every observed row *)
(* and the observation count of every edge.                                *)
(*                                                                         *)
(* A receipt may be marked FAILED after its event was normalized: the code *)
(* answers the request inside the guarded block that also normalizes, see  *)
(* module Ingestion.                                                       *)
(***************************************************************************)
EXTENDS EventRows, FiniteSets

VARIABLES
  status,      \* status[e]: what the receipt of e says
  normalized,  \* the events whose normalization is in the store
  sightings    \* sightings[row]: the aggregate of the normalized events

vars == <<status, normalized, sightings>>

Witnesses(S, row) == { e \in S : Touches(e, row) }

(* The state of a row after the events of S were normalized in any order.  *)
Aggregate(S, row) ==
  LET W == Witnesses(S, row) IN
  IF W = {} THEN [seen |-> {}, count |-> 0]
  ELSE [seen  |-> { t \in { EventTime[e] : e \in W } :
                       \/ \A e \in W : t <= EventTime[e]
                       \/ \A e \in W : t >= EventTime[e] },
        count |-> IF row.table \in EdgeTables THEN Cardinality(W) ELSE 1]

ObservedRows == { row \in Rows : row.table \in ObservedTables }

Init ==
  /\ status     = [e \in Events |-> "ABSENT"]
  /\ normalized = {}
  /\ sightings  = [row \in ObservedRows |-> Aggregate({}, row)]

Receive(e) ==
  /\ status[e] = "ABSENT"
  /\ status' = [status EXCEPT ![e] = "RECEIVED"]
  /\ UNCHANGED <<normalized, sightings>>

Normalize(e) ==
  /\ status[e] = "RECEIVED"
  /\ e \notin normalized
  /\ status'     = [status EXCEPT ![e] = "PROCESSED"]
  /\ normalized' = normalized \cup {e}
  /\ sightings'  = [row \in ObservedRows |-> Aggregate(normalized \cup {e}, row)]

MarkFailed(e) ==
  /\ status[e] \in {"RECEIVED", "PROCESSED"}
  /\ status' = [status EXCEPT ![e] = "FAILED"]
  /\ UNCHANGED <<normalized, sightings>>

Next == \E e \in Events : Receive(e) \/ Normalize(e) \/ MarkFailed(e)

Spec == Init /\ [][Next]_vars

=============================================================================
