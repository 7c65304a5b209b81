----------------------------- MODULE EventRows -----------------------------
(***************************************************************************)
(* The rows of the database that the normalization of one payment event    *)
(* writes, in the order the code writes them: six entity rows              *)
(* (_resolve_entities) and then five relationship edges (the `edges` tuple *)
(* of ingest_transaction).  Everything here is constant; the module is     *)
(* shared by the ingestion machine and by the abstract store it            *)
(* implements.                                                             *)
(***************************************************************************)
EXTENDS Naturals, Sequences

CONSTANTS
  Events,      \* the event_id values clients may submit
  EventTime,   \* EventTime[e]: the event_time the payload of e carries
  Ref          \* Ref[e][t]: the natural key by which e names its entity of type t

(* A table is named by the entity types whose natural keys identify a row: *)
(* one type for an entity table, two for a kind of logical edge.  Edges    *)
(* are stored under public ids; one natural key has one public id for ever *)
(* (ReferencesResolve of Ingestion), so the natural keys name them too.    *)
Order ==
  << <<"customer">>, <<"merchant">>, <<"instrument">>,
     <<"device">>, <<"ip">>, <<"address">>,
     <<"customer", "device">>, <<"customer", "instrument">>,
     <<"customer", "ip">>, <<"customer", "address">>,
     <<"instrument", "device">> >>

Steps       == 1 .. 11
EntitySteps == 1 .. 6
EdgeSteps   == 7 .. 11

(* The columns an upsert of an existing row changes depend on its table.   *)
ProfileTables  == { Order[1], Order[2] }          \* attributes overwritten
ObservedTables == { Order[i] : i \in 3 .. 11 }    \* first_seen, last_seen
EdgeTables     == { Order[i] : i \in EdgeSteps }  \* and observation_count

(* Mutant: half of the events write their rows in the opposite order, as   *)
(* if a payload decided it.                                                *)
RowAt_OrderFromPayload(e, i) ==
  LET k == IF EventTime[e] % 2 = 0 THEN 12 - i ELSE i IN
  [table |-> Order[k],
   key   |-> [j \in 1 .. Len(Order[k]) |-> Ref[e][Order[k][j]]]]

(* The row that the i-th upsert of the normalization of event e writes.    *)
RowAt(e, i) ==
  [table |-> Order[i],
   key   |-> [j \in 1 .. Len(Order[i]) |-> Ref[e][Order[i][j]]]]

Rows == { RowAt(e, i) : e \in Events, i \in Steps }

(* The events whose normalization writes a row.                            *)
Touches(e, row) == \E i \in Steps : RowAt(e, i) = row

ASSUME EventTimeAssumption == EventTime \in [Events -> Nat]

=============================================================================
