----------------------------- MODULE Ingestion -----------------------------
(***************************************************************************)
(* ingest_transaction under concurrent requests                            *)
(* (apps/api/app/services/transactions.py).                                *)
(*                                                                         *)
(* A request commits the raw event in a first database transaction.  A     *)
(* second one upserts six entities and five edges, adds the Transaction    *)
(* and its audit event, marks the raw event PROCESSED and commits.  Any    *)
(* Exception until the response is built -- also one raised after that     *)
(* commit -- is answered by a rollback and, in a third transaction, by     *)
(* marking the raw event FAILED.  A cancelled task or a dead process runs  *)
(* no handler at all.                                                      *)
(*                                                                         *)
(* External: PostgreSQL at READ COMMITTED.  INSERT ... ON CONFLICT DO      *)
(* UPDATE waits for the row's lock, reads its latest committed version and *)
(* keeps the lock until its transaction ends; an insert of a key that      *)
(* another open transaction inserted waits in the same way.                *)
(***************************************************************************)
EXTENDS EventRows, FiniteSets

CONSTANTS
  Requests,   \* calls of ingest_transaction, each with a session of its own
  NoEvent     \* the event of a request that has not arrived yet

VARIABLES
  raw,     \* raw[e]: committed processing_status of e, or "ABSENT"
  store,   \* store[row]: committed version of an entity or edge, or Absent
  ledger,  \* committed Transaction rows, each with its audit event
  event,   \* event[r]: the event request r carries
  pc,      \* pc[r]: where request r is in ingest_transaction
  staged,  \* staged[r]: versions r upserted and not committed, in Order
  reply    \* reply[r]: what the caller was told

vars == <<raw, store, ledger, event, pc, staged, reply>>

(* The shape of a row version and of a committed Transaction.              *)
Versions ==
  [id : Requests \cup {NoEvent}, attr : Events \cup {NoEvent},
   first : Nat, last : Nat, count : Nat]

Transactions ==
  [by : Requests, event : Events,
   ids : [EntitySteps -> Requests \cup {NoEvent}]]

Absent == [id |-> NoEvent, attr |-> NoEvent, first |-> 0, last |-> 0,
           count |-> 0]

-----------------------------------------------------------------------------

Least(a, b)    == IF a <= b THEN a ELSE b
Greatest(a, b) == IF a >= b THEN a ELSE b

(* values(...) of the INSERT: the row's identity is the public id minted   *)
(* by the inserting request.  A column that a table lacks keeps this value *)
(* and is never read.                                                      *)
Inserted(r, e) ==
  [id |-> r, attr |-> e, first |-> EventTime[e], last |-> EventTime[e],
   count |-> 1]

(* Mutant: the update also takes the freshly minted public id.             *)
Updated_NewIdentity(old, row, e) ==
  [id |-> CHOOSE r \in Requests : r # old.id, attr |-> e,
   first |-> Least(old.first, EventTime[e]),
   last |-> Greatest(old.last, EventTime[e]), count |-> old.count + 1]

(* set_ of ON CONFLICT DO UPDATE: profiles (customer, merchant) take the   *)
(* attributes of the event, observed rows widen their interval, edges also *)
(* count the observation.                                                  *)
Updated(old, row, e) ==
  LET observed == row.table \in ObservedTables IN
  [id    |-> old.id,
   attr  |-> IF row.table \in ProfileTables THEN e ELSE old.attr,
   first |-> IF observed THEN Least(old.first, EventTime[e]) ELSE old.first,
   last  |-> IF observed THEN Greatest(old.last, EventTime[e]) ELSE old.last,
   count |-> IF row.table \in EdgeTables THEN old.count + 1 ELSE old.count]

Upsert(old, row, r, e) ==
  IF old = Absent THEN Inserted(r, e) ELSE Updated(old, row, e)

(* The rows whose lock the open transaction of r holds.                    *)
Holds(r, row) == \E i \in 1 .. Len(staged[r]) : RowAt(event[r], i) = row

(* Mutant: upserts as a read followed by a write, without the row lock.    *)
Free_NoRowLock(r, row) == TRUE

Free(r, row) == \A q \in Requests \ {r} : ~Holds(q, row)

-----------------------------------------------------------------------------

Init ==
  /\ raw    = [e \in Events |-> "ABSENT"]
  /\ store  = [row \in Rows |-> Absent]
  /\ ledger = {}
  /\ event  = [r \in Requests |-> NoEvent]
  /\ pc     = [r \in Requests |-> "idle"]
  /\ staged = [r \in Requests |-> <<>>]
  /\ reply  = [r \in Requests |-> "none"]

(* Mutant: no unique constraint on raw_events.event_id.                    *)
PreserveRawEvent_NotUnique(r, e) ==
  /\ pc[r] = "idle"
  /\ event' = [event EXCEPT ![r] = e]
  /\ raw'   = [raw EXCEPT ![e] = "RECEIVED"]
  /\ pc'    = [pc EXCEPT ![r] = "normalizing"]
  /\ UNCHANGED <<store, ledger, staged, reply>>

(* preserve_raw_event: the raw event is committed on its own; the unique   *)
(* constraint on event_id turns a second receipt into DuplicateEventError. *)
PreserveRawEvent(r, e) ==
  /\ pc[r] = "idle"
  /\ event' = [event EXCEPT ![r] = e]
  /\ \/ /\ raw[e] = "ABSENT"
        /\ raw' = [raw EXCEPT ![e] = "RECEIVED"]
        /\ pc'  = [pc EXCEPT ![r] = "normalizing"]
        /\ UNCHANGED reply
     \/ /\ raw[e] # "ABSENT"
        /\ pc'    = [pc EXCEPT ![r] = "done"]
        /\ reply' = [reply EXCEPT ![r] = "duplicate"]
        /\ UNCHANGED raw
  /\ UNCHANGED <<store, ledger, staged>>

(* Mutant: every upsert statement commits on its own.                      *)
UpsertRow_Autocommit(r) ==
  LET i   == Len(staged[r]) + 1
      row == RowAt(event[r], i)
      v   == Upsert(store[row], row, r, event[r])
  IN  /\ pc[r] = "normalizing"
      /\ i \in Steps
      /\ Free(r, row)
      /\ store'  = [store EXCEPT ![row] = v]
      /\ staged' = [staged EXCEPT ![r] = Append(@, v)]
      /\ UNCHANGED <<raw, ledger, event, pc, reply>>

(* One upsert of _resolve_entities or of the edge loop.                    *)
UpsertRow(r) ==
  LET i   == Len(staged[r]) + 1
      row == RowAt(event[r], i)
  IN  /\ pc[r] = "normalizing"
      /\ i \in Steps
      /\ Free(r, row)
      /\ staged' = [staged EXCEPT ![r] =
                      Append(@, Upsert(store[row], row, r, event[r]))]
      /\ UNCHANGED <<raw, store, ledger, event, pc, reply>>

(* The commit of the normalization.  PROCESSING is written to the raw row  *)
(* earlier in the same transaction, so it is never a committed status.     *)
Merge(r) ==
  [row \in Rows |->
     IF Holds(r, row)
     THEN staged[r][CHOOSE i \in Steps : RowAt(event[r], i) = row]
     ELSE store[row]]

TransactionOf(r) ==
  [by |-> r, event |-> event[r],
   ids |-> [i \in EntitySteps |-> staged[r][i].id]]

CommitNormalization(r) ==
  /\ pc[r] = "normalizing"
  /\ Len(staged[r]) = 11
  /\ store'  = Merge(r)
  /\ ledger' = ledger \cup {TransactionOf(r)}
  /\ raw'    = [raw EXCEPT ![event[r]] = "PROCESSED"]
  /\ staged' = [staged EXCEPT ![r] = <<>>]
  /\ pc'     = [pc EXCEPT ![r] = "committed"]
  /\ UNCHANGED <<event, reply>>

(* refresh and transaction_to_schema succeed: 201.                         *)
Respond(r) ==
  /\ pc[r] = "committed"
  /\ pc'    = [pc EXCEPT ![r] = "done"]
  /\ reply' = [reply EXCEPT ![r] = "created"]
  /\ UNCHANGED <<raw, store, ledger, event, staged>>

(* An Exception inside the try block, before or after its commit: the      *)
(* handler rolls back what is still open.                                  *)
NormalizationFails(r) ==
  /\ pc[r] \in {"normalizing", "committed"}
  /\ pc'     = [pc EXCEPT ![r] = "failing"]
  /\ staged' = [staged EXCEPT ![r] = <<>>]
  /\ UNCHANGED <<raw, store, ledger, event, reply>>

(* Mutants: the status is set but never committed; the intermediate status *)
(* is committed; the failure to record the failure is swallowed.           *)
MarkRawFailed_NotCommitted(r) ==
  /\ pc[r] = "failing"
  /\ pc'    = [pc EXCEPT ![r] = "done"]
  /\ reply' = [reply EXCEPT ![r] = "invalid"]
  /\ UNCHANGED <<raw, store, ledger, event, staged>>

MarkRawFailed_Processing(r) ==
  /\ pc[r] = "failing"
  /\ raw'   = [raw EXCEPT ![event[r]] = "PROCESSING"]
  /\ pc'    = [pc EXCEPT ![r] = "done"]
  /\ reply' = [reply EXCEPT ![r] = "invalid"]
  /\ UNCHANGED <<store, ledger, event, staged>>

MarkRawFailedFails_Swallowed(r) ==
  /\ pc[r] = "failing"
  /\ pc'    = [pc EXCEPT ![r] = "done"]
  /\ reply' = [reply EXCEPT ![r] = "invalid"]
  /\ UNCHANGED <<raw, store, ledger, event, staged>>

(* _mark_raw_failed, then NormalizationError: 422.                         *)
MarkRawFailed(r) ==
  /\ pc[r] = "failing"
  /\ raw'   = [raw EXCEPT ![event[r]] = "FAILED"]
  /\ pc'    = [pc EXCEPT ![r] = "done"]
  /\ reply' = [reply EXCEPT ![r] = "invalid"]
  /\ UNCHANGED <<store, ledger, event, staged>>

(* _mark_raw_failed itself raises: the exception escapes the route, 500.   *)
MarkRawFailedFails(r) ==
  /\ pc[r] = "failing"
  /\ pc'    = [pc EXCEPT ![r] = "done"]
  /\ reply' = [reply EXCEPT ![r] = "error"]
  /\ UNCHANGED <<raw, store, ledger, event, staged>>

(* The task is cancelled or the process dies: CancelledError is no         *)
(* Exception, the connection closes and its transaction is rolled back.    *)
Abandon(r) ==
  /\ pc[r] \in {"normalizing", "committed", "failing"}
  /\ pc'     = [pc EXCEPT ![r] = "gone"]
  /\ staged' = [staged EXCEPT ![r] = <<>>]
  /\ UNCHANGED <<raw, store, ledger, event, reply>>

ServerStep(r) ==
  \/ UpsertRow(r)
  \/ CommitNormalization(r)
  \/ Respond(r)
  \/ MarkRawFailed(r)
  \/ MarkRawFailedFails(r)

Next ==
  \E r \in Requests :
    \/ \E e \in Events : PreserveRawEvent(r, e)
    \/ ServerStep(r)
    \/ NormalizationFails(r)
    \/ Abandon(r)

Spec == Init /\ [][Next]_vars

(* A request the server has begun is driven on by its event loop and the   *)
(* database answers; arrivals, failures and cancellations are never owed.  *)
FairSpec == Spec /\ \A r \in Requests : WF_vars(ServerStep(r))

-----------------------------------------------------------------------------

TypeOK ==
  /\ raw \in [Events -> {"ABSENT", "RECEIVED", "PROCESSED", "FAILED"}]
  /\ store \in [Rows -> Versions]
  /\ ledger \subseteq Transactions
  /\ event \in [Requests -> Events \cup {NoEvent}]
  /\ pc \in [Requests -> {"idle", "normalizing", "committed", "failing",
                          "done", "gone"}]
  /\ staged \in [Requests -> Seq(Versions)]
  /\ reply \in [Requests -> {"none", "created", "duplicate", "invalid", "error"}]

Contributors(row) == { t \in ledger : Touches(t.event, row) }

(* No update is lost and none is applied twice or for a rolled back event: *)
(* a committed entity or edge exists exactly when a committed transaction  *)
(* refers to it; its sighting interval is the tightest one that covers     *)
(* those transactions and an edge counts each of them once -- although     *)
(* every writer stages eleven rows one statement at a time.                *)
GraphMatchesLedger ==
  \A row \in Rows :
    LET v == store[row]
        C == Contributors(row)
    IN  /\ v = Absent <=> C = {}
        /\ \A t \in C : row.table \in ObservedTables =>
              v.first <= EventTime[t.event] /\ EventTime[t.event] <= v.last
        /\ C # {} =>
              /\ \E t \in C : v.attr = t.event
              /\ row.table \in ObservedTables =>
                    /\ \E t \in C : v.first = EventTime[t.event]
                    /\ \E t \in C : v.last = EventTime[t.event]
              /\ row.table \in EdgeTables => v.count = Cardinality(C)

(* A client that submits an event again, at any moment of the first call,  *)
(* never gets it normalized twice, and an event is in the ledger only      *)
(* after its receipt was settled.                                          *)
LedgerMatchesReceipts ==
  /\ \A t, u \in ledger : t.event = u.event => t = u
  /\ \A e \in Events :
       LET there == \E t \in ledger : t.event = e IN
       /\ raw[e] \in {"ABSENT", "RECEIVED"} => ~there
       /\ raw[e] = "PROCESSED" => there

(* The six foreign keys of a committed transaction name the rows that      *)
(* carry its natural keys, whoever inserted them first and whichever       *)
(* inserts were rolled back: an entity keeps its public id for ever.       *)
ReferencesResolve ==
  \A t \in ledger : \A i \in EntitySteps :
    store[RowAt(t.event, i)].id = t.ids[i]

Waits(r, q) ==
  /\ pc[r] = "normalizing"
  /\ Len(staged[r]) < 11
  /\ q # r
  /\ Holds(q, RowAt(event[r], Len(staged[r]) + 1))

(* Row locks are taken in one table order by every request, so no set of   *)
(* requests waits for itself and PostgreSQL never has to break a deadlock. *)
NoWaitCycle ==
  \A S \in SUBSET Requests :
    S # {} => \E r \in S : \A q \in S : ~Waits(r, q)

(* What the caller is told is so: 201 means that this very call normalized *)
(* the event, 422 that the receipt says FAILED, 409 that another call      *)
(* received the event before.                                              *)
RepliesAreTrue ==
  \A r \in Requests :
    /\ reply[r] = "created" =>
         /\ raw[event[r]] = "PROCESSED"
         /\ \E t \in ledger : t.by = r /\ t.event = event[r]
    /\ reply[r] = "invalid" => raw[event[r]] = "FAILED"
    /\ reply[r] = "duplicate" =>
         \E q \in Requests \ {r} :
           event[q] = event[r] /\ pc[q] # "idle" /\ reply[q] # "duplicate"

(* A receipt stays RECEIVED with nobody at work on it only if its request  *)
(* was cancelled or could not record its failure: nothing in the code      *)
(* picks such a receipt up again.                                          *)
StrandedReceiptsExplained ==
  \A e \in Events :
    raw[e] = "RECEIVED" =>
      \E r \in Requests :
        /\ event[r] = e
        /\ \/ pc[r] \in {"normalizing", "failing", "gone"}
           \/ pc[r] = "done" /\ reply[r] = "error"

(* docs/ARCHITECTURE.md, lines 37-38: a receipt marked FAILED leaves no    *)
(* normalized state of its event behind.                                   *)
FailedLeavesNothing ==
  \A t \in ledger : raw[t.event] # "FAILED"

(* Every call the server has begun is answered unless it is cancelled: row *)
(* locks delay a request but never hold it for ever.                       *)
BegunCallsEnd ==
  \A r \in Requests : pc[r] = "normalizing" ~> pc[r] \in {"done", "gone"}

(* Ingestion implements the abstract store: the statements of a request    *)
(* are invisible until its commit, which adds its event to the aggregate   *)
(* in one step.                                                            *)
Sighting(v) ==
  IF v = Absent THEN [seen |-> {}, count |-> 0]
  ELSE [seen |-> {v.first, v.last}, count |-> v.count]

Store == INSTANCE NormalizedStore WITH
  status     <- raw,
  normalized <- { t.event : t \in ledger },
  sightings  <- [row \in { q \in Rows : q.table \in ObservedTables } |->
                   Sighting(store[row])]

ImplementsStore == Store!Spec

=============================================================================
