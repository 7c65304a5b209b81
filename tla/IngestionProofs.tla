-------------------------- MODULE IngestionProofs --------------------------
(***************************************************************************)
(* Proofs about Ingestion, for every set of requests and events, every     *)
(* assignment of event times and every overlap of natural keys.            *)
(***************************************************************************)
EXTENDS Ingestion, FiniteSetTheorems, WellFoundedInduction, TLAPS

Working == {"normalizing", "committed", "failing"}

(* The receipt a request works on is its own and is not settled before the *)
(* request settles it.                                                     *)
ReceiptOwned ==
  /\ \A r \in Requests :
       /\ pc[r] # "idle" => event[r] \in Events
       /\ pc[r] = "normalizing" => raw[event[r]] = "RECEIVED"
       /\ pc[r] = "committed" => raw[event[r]] = "PROCESSED"
       /\ pc[r] = "failing" => raw[event[r]] \in {"RECEIVED", "PROCESSED"}
  /\ \A r, q \in Requests :
       r # q /\ pc[r] \in Working /\ pc[q] \in Working => event[r] # event[q]

(* What a request has staged is exactly its upserts of the versions that   *)
(* are committed now: nobody commits a row under another's lock.           *)
StagedCurrent ==
  \A r \in Requests :
    /\ pc[r] # "normalizing" => staged[r] = <<>>
    /\ Len(staged[r]) <= 11
    /\ \A i \in 1 .. Len(staged[r]) :
         LET row == RowAt(event[r], i) IN
         staged[r][i] = Upsert(store[row], row, r, event[r])

LocksExclusive ==
  \A r, q \in Requests : \A row \in Rows :
    Holds(r, row) /\ Holds(q, row) => r = q

LedgerFinite == IsFiniteSet(ledger)

(* A version that is there counts at least the insert that created it, and *)
(* only edges ever count more.                                             *)
PresentCounted ==
  \A row \in Rows : store[row] # Absent =>
    /\ store[row].count > 0
    /\ row.table \notin EdgeTables => store[row].count = 1

IInv ==
  /\ TypeOK
  /\ ReceiptOwned
  /\ StagedCurrent
  /\ LocksExclusive
  /\ LedgerFinite
  /\ PresentCounted
  /\ LedgerMatchesReceipts
  /\ GraphMatchesLedger
  /\ ReferencesResolve

-----------------------------------------------------------------------------

LEMMA RowAtInRows == \A e \in Events, i \in Steps : RowAt(e, i) \in Rows
  BY DEF Rows

LEMMA InsertedType ==
  ASSUME NEW r \in Requests, NEW e \in Events
  PROVE  Inserted(r, e) \in Versions
  BY EventTimeAssumption DEF Versions, Inserted

LEMMA UpdatedType ==
  ASSUME NEW old \in Versions, NEW row, NEW e \in Events
  PROVE  Updated(old, row, e) \in Versions
  BY EventTimeAssumption DEF Versions, Updated, Least, Greatest

LEMMA UpsertType ==
  ASSUME NEW old \in Versions, NEW row, NEW r \in Requests, NEW e \in Events
  PROVE  Upsert(old, row, r, e) \in Versions
  BY InsertedType, UpdatedType DEF Upsert

LEMMA AbsentType == Absent \in Versions
  BY DEF Absent, Versions

LEMMA InitIInv == Init => IInv
  <1> SUFFICES ASSUME Init PROVE IInv
    OBVIOUS
  <1>1. TypeOK
    BY AbsentType DEF Init, TypeOK
  <1>2. ReceiptOwned /\ StagedCurrent /\ LocksExclusive
    BY DEF Init, ReceiptOwned, StagedCurrent, LocksExclusive, Holds, Working
  <1>3. LedgerFinite /\ PresentCounted
    BY FS_EmptySet DEF Init, LedgerFinite, PresentCounted
  <1>4. LedgerMatchesReceipts /\ ReferencesResolve
    BY DEF Init, LedgerMatchesReceipts, ReferencesResolve
  <1>5. GraphMatchesLedger
    BY DEF Init, GraphMatchesLedger, Contributors
  <1> QED
    BY <1>1, <1>2, <1>3, <1>4, <1>5 DEF IInv
-----------------------------------------------------------------------------
(* Steps that leave the normalized tables alone and after which request r  *)
(* holds no lock: all but the upserts and the commit.                      *)
LEMMA LocksReleased ==
  ASSUME TypeOK, StagedCurrent, LocksExclusive, NEW r \in Requests,
         store' = store,
         staged' = [staged EXCEPT ![r] = <<>>],
         \A q \in Requests \ {r} : event'[q] = event[q] /\ pc'[q] = pc[q]
  PROVE  StagedCurrent' /\ LocksExclusive'
  <1>1. staged'[r] = <<>> /\ \A q \in Requests \ {r} : staged'[q] = staged[q]
    BY DEF TypeOK
  <1>2. StagedCurrent'
    BY <1>1 DEF StagedCurrent
  <1>3. \A q \in Requests, row \in Rows : Holds(q, row)' => Holds(q, row) /\ q # r
    BY <1>1 DEF Holds
  <1>4. LocksExclusive'
    BY <1>3 DEF LocksExclusive
  <1> QED
    BY <1>2, <1>4

LEMMA TablesUnchanged ==
  ASSUME store' = store, ledger' = ledger, LedgerFinite, PresentCounted,
         GraphMatchesLedger, ReferencesResolve
  PROVE  /\ LedgerFinite' /\ PresentCounted'
         /\ GraphMatchesLedger' /\ ReferencesResolve'
  BY DEF LedgerFinite, PresentCounted, GraphMatchesLedger, ReferencesResolve, Contributors

LEMMA PreserveRawEventIInv ==
  ASSUME IInv, NEW r \in Requests, NEW e \in Events, PreserveRawEvent(r, e)
  PROVE  IInv'
  <1> USE DEF PreserveRawEvent
  <1>1. TypeOK'
    BY DEF IInv, TypeOK
  <1>2. staged' = [staged EXCEPT ![r] = <<>>]
    BY DEF IInv, StagedCurrent, TypeOK
  <1>3. StagedCurrent' /\ LocksExclusive'
    BY <1>2, LocksReleased DEF IInv, TypeOK
  <1>4. ReceiptOwned'
    <2>1. CASE raw[e] = "ABSENT"
      BY <2>1 DEF IInv, TypeOK, ReceiptOwned, Working
    <2>2. CASE raw[e] # "ABSENT"
      BY <2>2 DEF IInv, TypeOK, ReceiptOwned, Working
    <2> QED
      BY <2>1, <2>2
  <1>5. LedgerMatchesReceipts'
    BY DEF IInv, TypeOK, LedgerMatchesReceipts
  <1> QED
    BY <1>1, <1>3, <1>4, <1>5, TablesUnchanged DEF IInv

LEMMA RespondIInv ==
  ASSUME IInv, NEW r \in Requests, Respond(r)
  PROVE  IInv'
  <1> USE DEF Respond
  <1>1. TypeOK'
    BY DEF IInv, TypeOK
  <1>2. staged' = [staged EXCEPT ![r] = <<>>]
    BY DEF IInv, StagedCurrent, TypeOK
  <1>3. StagedCurrent' /\ LocksExclusive'
    BY <1>2, LocksReleased DEF IInv, TypeOK
  <1>4. ReceiptOwned'
    BY DEF IInv, TypeOK, ReceiptOwned, Working
  <1>5. LedgerMatchesReceipts'
    BY DEF IInv, TypeOK, LedgerMatchesReceipts
  <1> QED
    BY <1>1, <1>3, <1>4, <1>5, TablesUnchanged DEF IInv

LEMMA NormalizationFailsIInv ==
  ASSUME IInv, NEW r \in Requests, NormalizationFails(r)
  PROVE  IInv'
  <1> USE DEF NormalizationFails
  <1>1. TypeOK'
    BY DEF IInv, TypeOK
  <1>2. StagedCurrent' /\ LocksExclusive'
    BY LocksReleased DEF IInv, TypeOK
  <1>3. ReceiptOwned'
    BY DEF IInv, TypeOK, ReceiptOwned, Working
  <1>4. LedgerMatchesReceipts'
    BY DEF IInv, TypeOK, LedgerMatchesReceipts
  <1> QED
    BY <1>1, <1>2, <1>3, <1>4, TablesUnchanged DEF IInv

LEMMA MarkRawFailedIInv ==
  ASSUME IInv, NEW r \in Requests, MarkRawFailed(r)
  PROVE  IInv'
  <1> USE DEF MarkRawFailed
  <1>1. TypeOK'
    BY DEF IInv, TypeOK
  <1>2. staged' = [staged EXCEPT ![r] = <<>>]
    BY DEF IInv, StagedCurrent, TypeOK
  <1>3. StagedCurrent' /\ LocksExclusive'
    BY <1>2, LocksReleased DEF IInv, TypeOK
  <1>4. ReceiptOwned'
    BY DEF IInv, TypeOK, ReceiptOwned, Working
  <1>5. LedgerMatchesReceipts'
    BY DEF IInv, TypeOK, LedgerMatchesReceipts
  <1> QED
    BY <1>1, <1>3, <1>4, <1>5, TablesUnchanged DEF IInv

LEMMA MarkRawFailedFailsIInv ==
  ASSUME IInv, NEW r \in Requests, MarkRawFailedFails(r)
  PROVE  IInv'
  <1> USE DEF MarkRawFailedFails
  <1>1. TypeOK'
    BY DEF IInv, TypeOK
  <1>2. staged' = [staged EXCEPT ![r] = <<>>]
    BY DEF IInv, StagedCurrent, TypeOK
  <1>3. StagedCurrent' /\ LocksExclusive'
    BY <1>2, LocksReleased DEF IInv, TypeOK
  <1>4. ReceiptOwned'
    BY DEF IInv, TypeOK, ReceiptOwned, Working
  <1>5. LedgerMatchesReceipts'
    BY DEF IInv, TypeOK, LedgerMatchesReceipts
  <1> QED
    BY <1>1, <1>3, <1>4, <1>5, TablesUnchanged DEF IInv

LEMMA AbandonIInv ==
  ASSUME IInv, NEW r \in Requests, Abandon(r)
  PROVE  IInv'
  <1> USE DEF Abandon
  <1>1. TypeOK'
    BY DEF IInv, TypeOK
  <1>2. StagedCurrent' /\ LocksExclusive'
    BY LocksReleased DEF IInv, TypeOK
  <1>3. ReceiptOwned'
    BY DEF IInv, TypeOK, ReceiptOwned, Working
  <1>4. LedgerMatchesReceipts'
    BY DEF IInv, TypeOK, LedgerMatchesReceipts
  <1> QED
    BY <1>1, <1>2, <1>3, <1>4, TablesUnchanged DEF IInv
-----------------------------------------------------------------------------
(* An upsert takes one free row and stages the version that follows the    *)
(* committed one.                                                          *)
LEMMA UpsertRowIInv ==
  ASSUME IInv, NEW r \in Requests, UpsertRow(r)
  PROVE  IInv'
  <1> DEFINE i == Len(staged[r]) + 1
             row == RowAt(event[r], i)
             v == Upsert(store[row], row, r, event[r])
  <1>1. /\ pc[r] = "normalizing"
        /\ i \in Steps
        /\ Free(r, row)
        /\ staged' = [staged EXCEPT ![r] = Append(staged[r], v)]
        /\ UNCHANGED <<raw, store, ledger, event, pc, reply>>
    BY DEF UpsertRow
  <1>2. event[r] \in Events /\ staged[r] \in Seq(Versions)
    BY <1>1 DEF IInv, ReceiptOwned, TypeOK
  <1>3. row \in Rows /\ store[row] \in Versions
    BY <1>1, <1>2, RowAtInRows DEF IInv, TypeOK
  <1>4. v \in Versions
    BY <1>2, <1>3, UpsertType
  <1> HIDE DEF v
  <1>5. /\ staged'[r] = Append(staged[r], v)
        /\ staged'[r] \in Seq(Versions)
        /\ Len(staged'[r]) = i
        /\ staged'[r][i] = v
        /\ \A j \in 1 .. Len(staged[r]) : staged'[r][j] = staged[r][j]
        /\ \A q \in Requests \ {r} : staged'[q] = staged[q]
    BY <1>1, <1>2, <1>4 DEF IInv, TypeOK
  <1>6. TypeOK'
    BY <1>1, <1>2, <1>4 DEF IInv, TypeOK
  <1>7. ReceiptOwned'
    BY <1>1 DEF IInv, ReceiptOwned
  <1>8. StagedCurrent'
    <2>1. Len(staged'[r]) <= 11
      BY <1>1, <1>5 DEF Steps
    <2>2. ASSUME NEW j \in 1 .. Len(staged'[r])
          PROVE  staged'[r][j] =
                   Upsert(store[RowAt(event[r], j)], RowAt(event[r], j), r, event[r])
      <3>1. CASE j = i
        BY <3>1, <1>5 DEF v
      <3>2. CASE j # i
        <4>1. j \in 1 .. Len(staged[r])
          BY <3>2, <1>2, <1>5
        <4> QED
          BY <4>1, <1>5 DEF IInv, StagedCurrent
      <3> QED
        BY <3>1, <3>2
    <2>3. \A q \in Requests \ {r} :
            /\ pc[q] # "normalizing" => staged'[q] = <<>>
            /\ Len(staged'[q]) <= 11
            /\ \A j \in 1 .. Len(staged'[q]) :
                 staged'[q][j] =
                   Upsert(store[RowAt(event[q], j)], RowAt(event[q], j), q, event[q])
      BY <1>5 DEF IInv, StagedCurrent
    <2> QED
      BY <1>1, <2>1, <2>2, <2>3 DEF StagedCurrent
  <1>9. LocksExclusive'
    <2>1. ASSUME NEW q \in Requests \ {r}, NEW w \in Rows
          PROVE  Holds(q, w)' <=> Holds(q, w)
      BY <1>1, <1>5 DEF Holds
    <2>2. ASSUME NEW w \in Rows, Holds(r, w)'
          PROVE  Holds(r, w) \/ w = row
      <3>1. PICK j \in 1 .. Len(staged'[r]) : RowAt(event[r], j) = w
        BY <2>2, <1>1 DEF Holds
      <3>2. CASE j = i
        BY <3>1, <3>2
      <3>3. CASE j # i
        <4>1. j \in 1 .. Len(staged[r])
          BY <3>3, <1>2, <1>5
        <4> QED
          BY <3>1, <4>1 DEF Holds
      <3> QED
        BY <3>2, <3>3
    <2>3. \A q \in Requests \ {r} : ~Holds(q, row)
      BY <1>1 DEF Free
    <2> QED
      BY <2>1, <2>2, <2>3 DEF IInv, LocksExclusive
  <1>10. LedgerMatchesReceipts'
    BY <1>1 DEF IInv, LedgerMatchesReceipts
  <1> QED
    BY <1>1, <1>6, <1>7, <1>8, <1>9, <1>10, TablesUnchanged DEF IInv
-----------------------------------------------------------------------------
(* The commit installs, for every row the event touches, the upsert of the *)
(* version that was committed until then.                                  *)
LEMMA MergedRow ==
  ASSUME IInv, NEW r \in Requests, CommitNormalization(r), NEW row \in Rows
  PROVE  /\ Holds(r, row) <=> Touches(event[r], row)
         /\ store'[row] = IF Touches(event[r], row)
                          THEN Upsert(store[row], row, r, event[r])
                          ELSE store[row]
  <1>1. Len(staged[r]) = 11 /\ store' = Merge(r)
    BY DEF CommitNormalization
  <1>2. Holds(r, row) <=> Touches(event[r], row)
    BY <1>1 DEF Holds, Touches, Steps
  <1>3. store'[row] =
          IF Holds(r, row)
          THEN staged[r][CHOOSE i \in Steps : RowAt(event[r], i) = row]
          ELSE store[row]
    BY <1>1 DEF Merge
  <1>4. ASSUME Touches(event[r], row)
        PROVE  staged[r][CHOOSE i \in Steps : RowAt(event[r], i) = row] =
                 Upsert(store[row], row, r, event[r])
    <2> DEFINE i == CHOOSE j \in Steps : RowAt(event[r], j) = row
    <2>1. i \in Steps /\ RowAt(event[r], i) = row
      BY <1>4 DEF Touches
    <2>2. i \in 1 .. Len(staged[r])
      BY <2>1, <1>1 DEF Steps
    <2> HIDE DEF i
    <2>3. staged[r][i] = Upsert(store[row], row, r, event[r])
      BY <2>1, <2>2 DEF IInv, StagedCurrent
    <2> QED
      BY <2>3 DEF i
  <1> QED
    BY <1>2, <1>3, <1>4

LEMMA CommitFacts ==
  ASSUME IInv, NEW r \in Requests, CommitNormalization(r)
  PROVE  /\ event[r] \in Events
         /\ TransactionOf(r) \in Transactions
         /\ TransactionOf(r).event = event[r]
         /\ \A t \in ledger : t.event # event[r]
         /\ ledger' = ledger \cup {TransactionOf(r)}
         /\ \A i \in EntitySteps :
              TransactionOf(r).ids[i] =
                Upsert(store[RowAt(event[r], i)], RowAt(event[r], i), r, event[r]).id
  <1>1. pc[r] = "normalizing" /\ Len(staged[r]) = 11
    BY DEF CommitNormalization
  <1>2. event[r] \in Events /\ raw[event[r]] = "RECEIVED"
    BY <1>1 DEF IInv, ReceiptOwned
  <1>3. \A t \in ledger : t.event # event[r]
    BY <1>2 DEF IInv, LedgerMatchesReceipts
  <1>4. \A i \in 1 .. 11 : staged[r][i] \in Versions
    <2>1. staged[r] \in Seq(Versions)
      BY DEF IInv, TypeOK
    <2> QED
      BY <1>1, <2>1
  <1>5. \A i \in EntitySteps : staged[r][i].id \in Requests \cup {NoEvent}
    BY <1>4 DEF Versions, EntitySteps
  <1>6. TransactionOf(r) \in Transactions
    BY <1>2, <1>5 DEF TransactionOf, Transactions
  <1>7. \A i \in EntitySteps :
          staged[r][i] =
            Upsert(store[RowAt(event[r], i)], RowAt(event[r], i), r, event[r])
    BY <1>1 DEF IInv, StagedCurrent, EntitySteps
  <1> QED
    BY <1>2, <1>3, <1>6, <1>7 DEF CommitNormalization, TransactionOf

(* The heart of the argument: adding the event to the ledger and merging   *)
(* its upserts keeps every row the aggregate of the ledger.                *)
LEMMA CommitGraph ==
  ASSUME IInv, NEW r \in Requests, CommitNormalization(r)
  PROVE  GraphMatchesLedger' /\ PresentCounted'
  <1> DEFINE T == TransactionOf(r)
             e == event[r]
  <1>1. /\ e \in Events /\ T \in Transactions /\ T.event = e
        /\ T \notin ledger /\ ledger' = ledger \cup {T}
    BY CommitFacts
  <1> HIDE DEF T, e
  <1>2. ASSUME NEW row \in Rows
        PROVE  LET w == store'[row]
                   D == Contributors(row)'
               IN  /\ w # Absent => w.count > 0
                   /\ w # Absent /\ row.table \notin EdgeTables => w.count = 1
                   /\ w = Absent <=> D = {}
                   /\ \A t \in D : row.table \in ObservedTables =>
                        w.first <= EventTime[t.event] /\ EventTime[t.event] <= w.last
                   /\ D # {} =>
                        /\ \E t \in D : w.attr = t.event
                        /\ row.table \in ObservedTables =>
                             /\ \E t \in D : w.first = EventTime[t.event]
                             /\ \E t \in D : w.last = EventTime[t.event]
                        /\ row.table \in EdgeTables => w.count = Cardinality(D)
    <2> DEFINE v == store[row]
               w == store'[row]
               C == Contributors(row)
               D == Contributors(row)'
    <2>1. /\ v \in Versions
          /\ v # Absent => v.count > 0
          /\ v # Absent /\ row.table \notin EdgeTables => v.count = 1
          /\ v = Absent <=> C = {}
          /\ \A t \in C : row.table \in ObservedTables =>
               v.first <= EventTime[t.event] /\ EventTime[t.event] <= v.last
          /\ C # {} =>
               /\ \E t \in C : v.attr = t.event
               /\ row.table \in ObservedTables =>
                    /\ \E t \in C : v.first = EventTime[t.event]
                    /\ \E t \in C : v.last = EventTime[t.event]
               /\ row.table \in EdgeTables => v.count = Cardinality(C)
      BY DEF IInv, GraphMatchesLedger, PresentCounted, TypeOK
    <2>2. IsFiniteSet(C) /\ \A t \in C : t.event \in Events
      <3>1. C \subseteq ledger
        BY DEF Contributors
      <3> QED
        BY <3>1, FS_Subset DEF IInv, LedgerFinite, TypeOK, Transactions
    <2>3. CASE ~Touches(e, row)
      <3>1. w = v /\ D = C
        BY <2>3, <1>1, MergedRow DEF Contributors, e
      <3> QED
        BY <2>1, <3>1
    <2>4. CASE Touches(e, row)
      <3>1. w = Upsert(v, row, r, e)
        BY <2>4, MergedRow DEF e
      <3>2. D = C \cup {T} /\ T \notin C
        BY <2>4, <1>1 DEF Contributors
      <3>3. Cardinality(D) = Cardinality(C) + 1
        BY <3>2, <2>2, FS_AddElement
      <3>4. EventTime[e] \in Nat /\ \A t \in C : EventTime[t.event] \in Nat
        BY <1>1, <2>2, EventTimeAssumption
      <3> HIDE DEF v, w, C, D
      <3>5. CASE v = Absent
        <4>1. w = Inserted(r, e) /\ C = {}
          BY <3>5, <3>1, <2>1 DEF Upsert
        <4>2. Cardinality(C) = 0
          BY <4>1, FS_EmptySet
        <4>3. /\ w.attr = e /\ w.first = EventTime[e]
              /\ w.last = EventTime[e] /\ w.count = 1
          BY <4>1 DEF Inserted
        <4>4. w # Absent
          BY <4>3 DEF Absent
        <4>5. D = {T}
          BY <4>1, <3>2
        <4> QED
          BY <1>1, <3>3, <3>4, <4>2, <4>3, <4>4, <4>5 DEF v, w, C, D
      <3>6. CASE v # Absent
        <4>1. w = Updated(v, row, e) /\ C # {}
          BY <3>6, <3>1, <2>1 DEF Upsert
        <4>2. /\ v.first \in Nat /\ v.last \in Nat /\ v.count \in Nat
              /\ v.count > 0
          BY <2>1, <3>6 DEF Versions
        <4>3. /\ w.attr \in {v.attr, e}
              /\ row.table \in ObservedTables =>
                   /\ w.first = Least(v.first, EventTime[e])
                   /\ w.last = Greatest(v.last, EventTime[e])
              /\ row.table \in EdgeTables => w.count = v.count + 1
              /\ row.table \notin EdgeTables => w.count = v.count
          BY <4>1 DEF Updated
        <4>4. /\ w.count > 0 /\ w # Absent
              /\ row.table \notin EdgeTables => w.count = 1
          BY <4>2, <4>3, <2>1, <3>6 DEF Absent
        <4>5. \E t \in D : w.attr = t.event
          BY <4>1, <4>3, <2>1, <3>2, <1>1
        <4>6. ASSUME row.table \in ObservedTables
              PROVE  /\ \A t \in D : w.first <= EventTime[t.event]
                                    /\ EventTime[t.event] <= w.last
                     /\ \E t \in D : w.first = EventTime[t.event]
                     /\ \E t \in D : w.last = EventTime[t.event]
          <5>1. /\ \A t \in C : v.first <= EventTime[t.event]
                               /\ EventTime[t.event] <= v.last
                /\ \E t \in C : v.first = EventTime[t.event]
                /\ \E t \in C : v.last = EventTime[t.event]
            BY <4>6, <4>1, <2>1
          <5>2. /\ w.first <= v.first /\ w.first <= EventTime[e]
                /\ w.last >= v.last /\ w.last >= EventTime[e]
                /\ w.first \in {v.first, EventTime[e]}
                /\ w.last \in {v.last, EventTime[e]}
                /\ w.first \in Nat /\ w.last \in Nat
            BY <4>6, <4>2, <4>3, <3>4 DEF Least, Greatest
          <5>3. \A t \in D : w.first <= EventTime[t.event]
                             /\ EventTime[t.event] <= w.last
            BY <5>1, <5>2, <3>2, <3>4, <4>2, <1>1
          <5>4. /\ \E t \in D : w.first = EventTime[t.event]
                /\ \E t \in D : w.last = EventTime[t.event]
            BY <5>1, <5>2, <3>2, <1>1
          <5> QED
            BY <5>3, <5>4
        <4>7. row.table \in EdgeTables => w.count = Cardinality(D)
          BY <4>1, <4>3, <2>1, <3>3
        <4>8. D # {}
          BY <3>2
        <4> QED
          BY <4>4, <4>5, <4>6, <4>7, <4>8 DEF w, D
      <3> QED
        BY <3>5, <3>6
    <2> QED
      BY <2>3, <2>4
  <1> QED
    BY <1>2 DEF GraphMatchesLedger, PresentCounted

LEMMA CommitReferences ==
  ASSUME IInv, NEW r \in Requests, CommitNormalization(r)
  PROVE  ReferencesResolve'
  <1> SUFFICES ASSUME NEW t \in ledger', NEW i \in EntitySteps
               PROVE  store'[RowAt(t.event, i)].id = t.ids[i]
    BY DEF ReferencesResolve
  <1> DEFINE row == RowAt(t.event, i)
  <1>1. t \in ledger \/ t = TransactionOf(r)
    BY CommitFacts
  <1>2. t.event \in Events /\ i \in Steps
    BY <1>1, CommitFacts DEF IInv, TypeOK, Transactions, EntitySteps, Steps
  <1>3. row \in Rows /\ Touches(t.event, row)
    BY <1>2, RowAtInRows DEF Touches
  <1>4. CASE t \in ledger
    <2>1. store[row].id = t.ids[i]
      BY <1>4 DEF IInv, ReferencesResolve
    <2>2. store[row] # Absent
      BY <1>3, <1>4 DEF IInv, GraphMatchesLedger, Contributors
    <2>3. store'[row] \in {store[row], Updated(store[row], row, event[r])}
      BY <1>3, <2>2, MergedRow DEF Upsert
    <2>4. Updated(store[row], row, event[r]).id = store[row].id
      BY DEF Updated
    <2> QED
      BY <2>1, <2>3, <2>4
  <1>5. CASE t = TransactionOf(r)
    <2>1. t.event = event[r]
      BY <1>5, CommitFacts
    <2>2. t.ids[i] = Upsert(store[row], row, r, event[r]).id
      BY <1>5, <2>1, CommitFacts
    <2>3. store'[row] = Upsert(store[row], row, r, event[r])
      BY <1>3, <2>1, MergedRow
    <2> QED
      BY <2>2, <2>3
  <1> QED
    BY <1>1, <1>4, <1>5

LEMMA CommitNormalizationIInv ==
  ASSUME IInv, NEW r \in Requests, CommitNormalization(r)
  PROVE  IInv'
  <1> DEFINE e == event[r]
  <1>1. /\ pc[r] = "normalizing"
        /\ raw' = [raw EXCEPT ![e] = "PROCESSED"]
        /\ staged' = [staged EXCEPT ![r] = <<>>]
        /\ pc' = [pc EXCEPT ![r] = "committed"]
        /\ event' = event /\ reply' = reply
    BY DEF CommitNormalization
  <1>2. e \in Events /\ raw[e] = "RECEIVED"
    BY <1>1 DEF IInv, ReceiptOwned
  <1>3. TypeOK'
    <2>1. \A row \in Rows : store'[row] \in Versions
      BY <1>2, MergedRow, UpsertType DEF IInv, TypeOK
    <2>2. store' \in [Rows -> Versions]
      BY <2>1 DEF CommitNormalization, Merge
    <2>3. ledger' \subseteq Transactions
      BY CommitFacts DEF IInv, TypeOK
    <2> QED
      BY <1>1, <1>2, <2>2, <2>3 DEF IInv, TypeOK
  <1>4. ReceiptOwned'
    BY <1>1, <1>2 DEF IInv, TypeOK, ReceiptOwned, Working
  <1>5. /\ staged'[r] = <<>>
        /\ \A q \in Requests \ {r} : staged'[q] = staged[q] /\ pc'[q] = pc[q]
    BY <1>1 DEF IInv, TypeOK
  <1>6. StagedCurrent'
    <2>1. ASSUME NEW q \in Requests \ {r}, NEW i \in 1 .. Len(staged[q])
          PROVE  store'[RowAt(event[q], i)] = store[RowAt(event[q], i)]
      <3> DEFINE row == RowAt(event[q], i)
      <3>1. Holds(q, row)
        BY DEF Holds
      <3>2. pc[q] = "normalizing" /\ i \in Steps
        BY DEF IInv, StagedCurrent, TypeOK, Steps
      <3>3. row \in Rows
        BY <3>2, RowAtInRows DEF IInv, ReceiptOwned
      <3>4. ~Holds(r, row)
        BY <3>1, <3>3 DEF IInv, LocksExclusive
      <3> QED
        BY <3>3, <3>4, MergedRow
    <2>2. /\ Len(staged'[r]) = 0 /\ pc'[r] # "normalizing" => staged'[r] = <<>>
      BY <1>5
    <2> QED
      BY <1>1, <1>5, <2>1, <2>2 DEF IInv, StagedCurrent
  <1>7. LocksExclusive'
    <2>1. \A q \in Requests, row \in Rows : Holds(q, row)' => Holds(q, row) /\ q # r
      BY <1>1, <1>5 DEF Holds
    <2> QED
      BY <2>1 DEF IInv, LocksExclusive
  <1>8. LedgerFinite'
    BY CommitFacts, FS_AddElement DEF IInv, LedgerFinite
  <1>9. LedgerMatchesReceipts'
    BY <1>1, <1>2, CommitFacts DEF IInv, TypeOK, LedgerMatchesReceipts
  <1> QED
    BY <1>3, <1>4, <1>6, <1>7, <1>8, <1>9, CommitGraph, CommitReferences DEF IInv

-----------------------------------------------------------------------------

LEMMA StutterIInv ==
  ASSUME IInv, UNCHANGED vars
  PROVE  IInv'
  <1> USE DEF vars
  <1>1. TypeOK' /\ ReceiptOwned' /\ LedgerMatchesReceipts'
    BY DEF IInv, TypeOK, ReceiptOwned, LedgerMatchesReceipts
  <1>2. StagedCurrent'
    BY DEF IInv, StagedCurrent
  <1>3. LocksExclusive'
    BY DEF IInv, LocksExclusive, Holds
  <1> QED
    BY <1>1, <1>2, <1>3, TablesUnchanged DEF IInv

LEMMA NextIInv == IInv /\ [Next]_vars => IInv'
  <1>1. ASSUME IInv, NEW r \in Requests, ServerStep(r)
        PROVE  IInv'
    BY <1>1, UpsertRowIInv, CommitNormalizationIInv, RespondIInv,
       MarkRawFailedIInv, MarkRawFailedFailsIInv DEF ServerStep
  <1>2. IInv /\ Next => IInv'
    BY <1>1, PreserveRawEventIInv, NormalizationFailsIInv, AbandonIInv DEF Next
  <1> QED
    BY <1>2, StutterIInv

(* The inductive invariant holds of every behaviour.                       *)
THEOREM Invariance == Spec => []IInv
  <1> QED
    BY InitIInv, NextIInv, PTL DEF Spec

(* Type correctness of ingestion.                                          *)
THEOREM TypeCorrect == Spec => []TypeOK
  <1>1. IInv => TypeOK
    BY DEF IInv
  <1> QED
    BY <1>1, Invariance, PTL

(* However many requests interleave their upserts, fail or vanish, the     *)
(* committed entities and edges are the exact aggregate of the committed   *)
(* transactions: no lost, duplicated or dirty update.                      *)
THEOREM NoLostUpdates == Spec => []GraphMatchesLedger
  <1>1. IInv => GraphMatchesLedger
    BY DEF IInv
  <1> QED
    BY <1>1, Invariance, PTL

(* An event is normalized at most once and agrees with its receipt.        *)
THEOREM AtMostOnce == Spec => []LedgerMatchesReceipts
  <1>1. IInv => LedgerMatchesReceipts
    BY DEF IInv
  <1> QED
    BY <1>1, Invariance, PTL

(* Foreign keys of committed transactions never dangle or change meaning.  *)
THEOREM EntityIdentity == Spec => []ReferencesResolve
  <1>1. IInv => ReferencesResolve
    BY DEF IInv
  <1> QED
    BY <1>1, Invariance, PTL

-----------------------------------------------------------------------------
(* The eleven tables are pairwise different, so a row names its position   *)
(* in the order in which every request takes its locks.                    *)
LEMMA OrderInjective ==
  \A i, j \in Steps : Order[i] = Order[j] => i = j
  BY DEF Order, Steps

LEMMA WaitsUpward ==
  ASSUME TypeOK, ReceiptOwned, StagedCurrent, NEW r \in Requests, NEW q \in Requests,
         Waits(r, q)
  PROVE  Len(staged[r]) < Len(staged[q])
  <1> DEFINE i == Len(staged[r]) + 1
  <1>1. PICK j \in 1 .. Len(staged[q]) : RowAt(event[q], j) = RowAt(event[r], i)
    BY DEF Waits, Holds
  <1>2. /\ Len(staged[r]) \in Nat /\ Len(staged[q]) \in Nat
        /\ Len(staged[r]) < 11 /\ Len(staged[q]) <= 11
    BY DEF TypeOK, StagedCurrent, Waits
  <1>3. i \in Steps /\ j \in Steps
    BY <1>2 DEF Steps
  <1>4. Order[j] = Order[i]
    BY <1>1 DEF RowAt
  <1>5. i = j
    BY <1>3, <1>4, OrderInjective
  <1> QED
    BY <1>2, <1>5

LEMMA SmallestExists ==
  ASSUME NEW T \in SUBSET Nat, T # {}
  PROVE  \E x \in T : \A y \in T : ~(y < x)
  <1>1. \E x \in T : \A y \in T : ~(<<y, x>> \in OpToRel(<, Nat))
    BY NatLessThanWellFounded, WFMin
  <1> QED
    BY <1>1 DEF OpToRel

LEMMA NoCycle ==
  ASSUME TypeOK, ReceiptOwned, StagedCurrent
  PROVE  NoWaitCycle
  <1> SUFFICES ASSUME NEW S \in SUBSET Requests, S # {}
               PROVE  \E r \in S : \A q \in S : ~Waits(r, q)
    BY DEF NoWaitCycle
  <1> DEFINE togo(r) == 11 - Len(staged[r])
             T == { togo(r) : r \in S }
  <1>1. ASSUME NEW r \in S
        PROVE  Len(staged[r]) \in Nat /\ togo(r) \in Nat
    <2>1. staged[r] \in Seq(Versions) /\ Len(staged[r]) <= 11
      BY DEF TypeOK, StagedCurrent
    <2>2. Len(staged[r]) \in Nat
      BY <2>1
    <2> QED
      BY <2>1, <2>2
  <1>2. T \in SUBSET Nat /\ T # {}
    BY <1>1
  <1>3. PICK x \in T : \A y \in T : ~(y < x)
    BY <1>2, SmallestExists
  <1>4. PICK r \in S : x = togo(r)
    BY <1>3
  <1>5. ASSUME NEW q \in S, Waits(r, q)
        PROVE  FALSE
    <2>1. Len(staged[r]) < Len(staged[q])
      BY <1>5, WaitsUpward
    <2>2. togo(q) < togo(r)
      BY <2>1, <1>1
    <2> QED
      BY <2>2, <1>3, <1>4
  <1> QED
    BY <1>5

(* Requests never wait for one another in a circle, whatever entities      *)
(* their events share.                                                     *)
THEOREM DeadlockFree == Spec => []NoWaitCycle
  <1>1. IInv => NoWaitCycle
    BY NoCycle DEF IInv
  <1> QED
    BY <1>1, Invariance, PTL

-----------------------------------------------------------------------------
(* The request that received an event, and what becomes of the receipt.    *)

Received(r, e) == event[r] = e /\ pc[r] # "idle" /\ reply[r] # "duplicate"

ReceivedOnce ==
  /\ \A e \in Events : raw[e] # "ABSENT" => \E r \in Requests : Received(r, e)
  /\ \A r \in Requests : pc[r] # "idle" => raw[event[r]] # "ABSENT"
  /\ \A r, q \in Requests :
       event[r] = event[q] /\ Received(r, event[r]) /\ Received(q, event[q]) => r = q

AnswersFit ==
  \A r \in Requests :
    /\ pc[r] = "done" <=> reply[r] # "none"
    /\ pc[r] = "committed" \/ reply[r] = "created" =>
         /\ raw[event[r]] = "PROCESSED"
         /\ \E t \in ledger : t.by = r /\ t.event = event[r]
    /\ reply[r] = "invalid" => raw[event[r]] = "FAILED"

RInv == ReceivedOnce /\ AnswersFit

LEMMA ReceivedArrives ==
  ASSUME IInv, RInv, NEW r \in Requests, NEW e \in Events, PreserveRawEvent(r, e)
  PROVE  RInv'
  <1>1. /\ pc[r] = "idle" /\ reply[r] = "none" /\ event' = [event EXCEPT ![r] = e]
        /\ ledger' = ledger
    BY DEF PreserveRawEvent, RInv, AnswersFit, IInv, TypeOK
  <1>2. CASE raw[e] = "ABSENT"
    <2>1. /\ raw' = [raw EXCEPT ![e] = "RECEIVED"]
          /\ pc' = [pc EXCEPT ![r] = "normalizing"] /\ reply' = reply
      BY <1>2 DEF PreserveRawEvent
    <2>2. ReceivedOnce'
      BY <1>1, <1>2, <2>1 DEF IInv, TypeOK, RInv, ReceivedOnce, Received
    <2>3. \A q \in Requests \ {r} :
            /\ pc'[q] = pc[q] /\ reply'[q] = reply[q] /\ event'[q] = event[q]
            /\ pc[q] # "idle" => raw'[event[q]] = raw[event[q]]
      BY <1>1, <1>2, <2>1 DEF IInv, TypeOK, ReceiptOwned, RInv, ReceivedOnce
    <2>4. pc'[r] = "normalizing" /\ reply'[r] = "none"
      BY <1>1, <2>1 DEF IInv, TypeOK
    <2>5. \A q \in Requests : reply[q] # "none" => pc[q] # "idle"
      BY DEF RInv, AnswersFit
    <2>6. AnswersFit'
      BY <1>1, <2>3, <2>4, <2>5 DEF RInv, AnswersFit
    <2> QED
      BY <2>2, <2>6 DEF RInv
  <1>3. CASE raw[e] # "ABSENT"
    <2>1. /\ raw' = raw /\ pc' = [pc EXCEPT ![r] = "done"]
          /\ reply' = [reply EXCEPT ![r] = "duplicate"]
      BY <1>3 DEF PreserveRawEvent
    <2>2. ReceivedOnce'
      BY <1>1, <1>3, <2>1 DEF IInv, TypeOK, RInv, ReceivedOnce, Received
    <2>3. AnswersFit'
      BY <1>1, <1>3, <2>1 DEF IInv, TypeOK, RInv, AnswersFit
    <2> QED
      BY <2>2, <2>3 DEF RInv
  <1> QED
    BY <1>2, <1>3

(* A request at work settles no receipt but its own, and nobody else has   *)
(* been told anything about that.                                          *)
LEMMA ReceivedWorks ==
  ASSUME IInv, RInv, NEW r \in Requests, pc[r] \in Working,
         NEW p, p # "idle", NEW x, x # "duplicate", NEW status, status # "ABSENT",
         event' = event, pc' = [pc EXCEPT ![r] = p],
         reply' = [reply EXCEPT ![r] = x],
         raw' = [raw EXCEPT ![event[r]] = status]
  PROVE  /\ ReceivedOnce'
         /\ \A q \in Requests \ {r} :
              /\ pc'[q] = pc[q] /\ reply'[q] = reply[q]
              /\ pc[q] = "committed" \/ reply[q] \in {"created", "invalid"}
                   => raw'[event[q]] = raw[event[q]]
  <1>1. event[r] \in Events /\ reply[r] = "none" /\ Received(r, event[r])
    BY DEF IInv, TypeOK, ReceiptOwned, RInv, AnswersFit, Working, Received
  <1>2. ReceivedOnce'
    BY <1>1 DEF IInv, TypeOK, RInv, ReceivedOnce, Received, Working
  <1>3. ASSUME NEW q \in Requests \ {r},
               pc[q] = "committed" \/ reply[q] \in {"created", "invalid"}
        PROVE  raw'[event[q]] = raw[event[q]]
    <2>1. pc[q] # "idle" /\ reply[q] # "duplicate"
      BY <1>3 DEF IInv, TypeOK, RInv, AnswersFit
    <2>2. event[q] # event[r]
      BY <1>1, <2>1 DEF RInv, ReceivedOnce, Received
    <2>3. event[q] \in Events
      BY <2>1 DEF IInv, ReceiptOwned
    <2> QED
      BY <2>2, <2>3 DEF IInv, TypeOK
  <1> QED
    BY <1>2, <1>3 DEF IInv, TypeOK

LEMMA RInvStep ==
  ASSUME IInv, RInv, NEW r \in Requests,
         ServerStep(r) \/ NormalizationFails(r) \/ Abandon(r)
  PROVE  RInv'
  <1> USE DEF IInv, TypeOK, RInv
  <1>1. CASE UpsertRow(r)
    BY <1>1 DEF UpsertRow, ReceivedOnce, AnswersFit, Received
  <1>2. CASE CommitNormalization(r)
    <2>1. /\ pc[r] = "normalizing" /\ event' = event
          /\ pc' = [pc EXCEPT ![r] = "committed"]
          /\ reply' = [reply EXCEPT ![r] = reply[r]] /\ reply[r] = "none"
          /\ raw' = [raw EXCEPT ![event[r]] = "PROCESSED"]
      BY <1>2 DEF CommitNormalization, AnswersFit
    <2>2. /\ ledger' = ledger \cup {TransactionOf(r)}
          /\ TransactionOf(r).by = r /\ TransactionOf(r).event = event[r]
      BY <1>2 DEF CommitNormalization, TransactionOf
    <2>3. /\ ReceivedOnce'
          /\ \A q \in Requests \ {r} :
               /\ pc'[q] = pc[q] /\ reply'[q] = reply[q]
               /\ pc[q] = "committed" \/ reply[q] \in {"created", "invalid"}
                    => raw'[event[q]] = raw[event[q]]
      BY <2>1, ReceivedWorks DEF Working
    <2>4. event[r] \in Events
      BY <2>1 DEF ReceiptOwned
    <2>5. AnswersFit'
      BY <2>1, <2>3, <2>4, <2>2 DEF AnswersFit
    <2> QED
      BY <2>3, <2>5
  <1>3. CASE Respond(r)
    <2>1. /\ pc[r] = "committed" /\ event' = event /\ ledger' = ledger
          /\ pc' = [pc EXCEPT ![r] = "done"]
          /\ reply' = [reply EXCEPT ![r] = "created"]
          /\ raw' = [raw EXCEPT ![event[r]] = "PROCESSED"]
      BY <1>3 DEF Respond, AnswersFit
    <2>2. /\ ReceivedOnce'
          /\ \A q \in Requests \ {r} :
               /\ pc'[q] = pc[q] /\ reply'[q] = reply[q]
               /\ pc[q] = "committed" \/ reply[q] \in {"created", "invalid"}
                    => raw'[event[q]] = raw[event[q]]
      BY <2>1, ReceivedWorks DEF Working
    <2>3. event[r] \in Events
      BY <2>1 DEF ReceiptOwned
    <2>4. AnswersFit'
      BY <2>1, <2>2, <2>3 DEF AnswersFit
    <2> QED
      BY <2>2, <2>4
  <1>4. CASE MarkRawFailed(r)
    <2>1. /\ pc[r] = "failing" /\ event' = event /\ ledger' = ledger
          /\ pc' = [pc EXCEPT ![r] = "done"]
          /\ reply' = [reply EXCEPT ![r] = "invalid"]
          /\ raw' = [raw EXCEPT ![event[r]] = "FAILED"]
      BY <1>4 DEF MarkRawFailed
    <2>2. /\ ReceivedOnce'
          /\ \A q \in Requests \ {r} :
               /\ pc'[q] = pc[q] /\ reply'[q] = reply[q]
               /\ pc[q] = "committed" \/ reply[q] \in {"created", "invalid"}
                    => raw'[event[q]] = raw[event[q]]
      BY <2>1, ReceivedWorks DEF Working
    <2>3. event[r] \in Events
      BY <2>1 DEF ReceiptOwned
    <2>4. AnswersFit'
      BY <2>1, <2>2, <2>3 DEF AnswersFit
    <2> QED
      BY <2>2, <2>4
  <1>5. CASE MarkRawFailedFails(r)
    BY <1>5 DEF MarkRawFailedFails, ReceivedOnce, AnswersFit, Received
  <1>6. CASE NormalizationFails(r)
    BY <1>6 DEF NormalizationFails, ReceivedOnce, AnswersFit, Received
  <1>7. CASE Abandon(r)
    BY <1>7 DEF Abandon, ReceivedOnce, AnswersFit, Received
  <1> QED
    BY <1>1, <1>2, <1>3, <1>4, <1>5, <1>6, <1>7 DEF ServerStep

(* Who received what and was told what, for every behaviour.               *)
THEOREM ReceiptsAccounted == Spec => []RInv
  <1>1. Init => RInv
    BY DEF Init, RInv, ReceivedOnce, AnswersFit, Received
  <1>2. IInv /\ RInv /\ Next => RInv'
    BY ReceivedArrives, RInvStep DEF Next
  <1>3. RInv /\ UNCHANGED vars => RInv'
    BY DEF RInv, ReceivedOnce, AnswersFit, Received, vars
  <1>4. IInv /\ RInv /\ [Next]_vars => RInv'
    BY <1>2, <1>3
  <1> QED
    BY <1>1, <1>4, Invariance, PTL DEF Spec

(* What callers are told is so: 201 by the very call that normalized the   *)
(* event, 422 with a FAILED receipt, 409 because of another call.          *)
THEOREM CallersAreToldTheTruth == Spec => []RepliesAreTrue
  <1>1. IInv /\ RInv => RepliesAreTrue
    <2> SUFFICES ASSUME IInv, RInv, NEW r \in Requests, reply[r] = "duplicate"
                 PROVE  \E q \in Requests \ {r} :
                          event[q] = event[r] /\ pc[q] # "idle" /\ reply[q] # "duplicate"
      BY DEF RepliesAreTrue, RInv, AnswersFit
    <2>1. pc[r] = "done" /\ event[r] \in Events
      BY DEF RInv, AnswersFit, IInv, ReceiptOwned
    <2>2. PICK q \in Requests : Received(q, event[r])
      BY <2>1 DEF RInv, ReceivedOnce
    <2> QED
      BY <2>2 DEF Received
  <1> QED
    BY <1>1, Invariance, ReceiptsAccounted, PTL

(* A receipt is left RECEIVED only by a request that is still at work, was *)
(* cancelled or could not record its failure.                              *)
THEOREM ReceiptsNeverLost == Spec => []StrandedReceiptsExplained
  <1>1. IInv /\ RInv => StrandedReceiptsExplained
    <2> SUFFICES ASSUME IInv, RInv, NEW e \in Events, raw[e] = "RECEIVED"
                 PROVE  \E r \in Requests :
                          /\ event[r] = e
                          /\ \/ pc[r] \in {"normalizing", "failing", "gone"}
                             \/ pc[r] = "done" /\ reply[r] = "error"
      BY DEF StrandedReceiptsExplained
    <2>1. PICK r \in Requests : Received(r, e)
      BY DEF RInv, ReceivedOnce
    <2> QED
      BY <2>1 DEF Received, RInv, AnswersFit, IInv, TypeOK
  <1> QED
    BY <1>1, Invariance, ReceiptsAccounted, PTL

-----------------------------------------------------------------------------
(***************************************************************************)
(* Ingestion implements NormalizedStore: the proof, for every value of the *)
(* constants, of what ImplementsStore states.                              *)
(***************************************************************************)

Normalized == { t.event : t \in ledger }

LEMMA SameCardinality == \A S : Store!Cardinality(S) = Cardinality(S)
  BY DEF Store!Cardinality, Cardinality

(* The witnesses of a row are the events of its contributors, one each.    *)
LEMMA WitnessesCounted ==
  ASSUME IInv, NEW row \in Rows
  PROVE  /\ Store!Witnesses(Normalized, row) = { t.event : t \in Contributors(row) }
         /\ Cardinality(Store!Witnesses(Normalized, row)) =
              Cardinality(Contributors(row))
  <1> DEFINE C == Contributors(row)
             W == Store!Witnesses(Normalized, row)
             f == [t \in C |-> t.event]
  <1>1. W = { t.event : t \in C }
    BY DEF Store!Witnesses, Normalized, Contributors,
           Store!Touches, Touches, Store!RowAt, RowAt, Store!Order, Order,
           Store!Steps, Steps
  <1>2. \A t, u \in C : t.event = u.event => t = u
    BY DEF Contributors, IInv, LedgerMatchesReceipts
  <1>3. IsFiniteSet(C)
    <2>1. C \in SUBSET ledger
      BY DEF Contributors
    <2> QED
      BY <2>1, FS_Subset DEF IInv, LedgerFinite
  <1>4. f \in Bijection(C, W)
    BY <1>1, <1>2 DEF Bijection, Injection, Surjection, IsInjective
  <1>5. ExistsBijection(C, W)
    BY <1>4 DEF ExistsBijection
  <1> QED
    BY <1>1, <1>3, <1>5, FS_Bijection

LEMMA SightingIsAggregate ==
  ASSUME IInv, NEW row \in Rows, row.table \in ObservedTables
  PROVE  Sighting(store[row]) = Store!Aggregate(Normalized, row)
  <1> DEFINE v == store[row]
             C == Contributors(row)
             W == Store!Witnesses(Normalized, row)
             ends == { t \in { EventTime[e] : e \in W } :
                         \/ \A e \in W : t <= EventTime[e]
                         \/ \A e \in W : t >= EventTime[e] }
  <1>1. W = { t.event : t \in C } /\ Cardinality(W) = Cardinality(C)
    BY WitnessesCounted
  <1>2. /\ v = Absent <=> C = {}
        /\ \A t \in C : v.first <= EventTime[t.event] /\ EventTime[t.event] <= v.last
        /\ C # {} =>
             /\ \E t \in C : v.first = EventTime[t.event]
             /\ \E t \in C : v.last = EventTime[t.event]
             /\ row.table \in EdgeTables => v.count = Cardinality(C)
             /\ row.table \notin EdgeTables => v.count = 1
    BY DEF IInv, GraphMatchesLedger, PresentCounted
  <1>3. /\ v \in Versions
        /\ \A e \in W : EventTime[e] \in Nat
    BY <1>1, EventTimeAssumption
       DEF IInv, TypeOK, Contributors, Transactions
  <1>4. Store!Aggregate(Normalized, row) =
          IF W = {} THEN [seen |-> {}, count |-> 0]
          ELSE [seen |-> ends,
                count |-> IF row.table \in EdgeTables THEN Cardinality(W) ELSE 1]
    BY SameCardinality DEF Store!Aggregate, Store!EdgeTables, EdgeTables, Store!Order, Order,
           Store!EdgeSteps, EdgeSteps
  <1> HIDE DEF v, C, W
  <1>5. CASE C = {}
    BY <1>5, <1>1, <1>2, <1>4 DEF Sighting, v, W
  <1>6. CASE C # {}
    <2>1. v # Absent /\ W # {}
      BY <1>6, <1>1, <1>2
    <2>2. v.first \in Nat /\ v.last \in Nat
      BY <1>3 DEF Versions
    <2>3. \A e \in W : v.first <= EventTime[e] /\ EventTime[e] <= v.last
      BY <1>1, <1>2
    <2>4. (\E e \in W : v.first = EventTime[e]) /\ (\E e \in W : v.last = EventTime[e])
      BY <1>1, <1>2, <1>6
    <2>5. {v.first, v.last} \subseteq ends
      BY <2>2, <2>3, <2>4, <1>3
    <2>6. ASSUME NEW t \in ends
          PROVE  t \in {v.first, v.last}
      <3>1. t \in Nat
        BY <1>3
      <3>2. CASE \A e \in W : t <= EventTime[e]
        BY <3>1, <3>2, <2>2, <2>3, <2>4, <1>3
      <3>3. CASE \A e \in W : t >= EventTime[e]
        BY <3>1, <3>3, <2>2, <2>3, <2>4, <1>3
      <3> QED
        BY <3>2, <3>3
    <2>7. ends = {v.first, v.last}
      BY <2>5, <2>6
    <2>8. v.count = IF row.table \in EdgeTables THEN Cardinality(W) ELSE 1
      BY <1>1, <1>2, <1>6
    <2>9. Sighting(v) = [seen |-> {v.first, v.last}, count |-> v.count]
      BY <2>1 DEF Sighting
    <2> HIDE DEF ends
    <2> QED
      BY <2>1, <2>7, <2>8, <2>9, <1>4 DEF v
  <1> QED
    BY <1>5, <1>6

Mapped == [row \in { q \in Rows : q.table \in ObservedTables } |-> Sighting(store[row])]

LEMMA SameRows == { q \in Rows : q.table \in ObservedTables } = Store!ObservedRows
  BY DEF Store!ObservedRows, Rows, Store!Rows, RowAt, Store!RowAt,
         ObservedTables, Store!ObservedTables, Order, Store!Order, Steps, Store!Steps

(* The graph seen through the mapping is the aggregate of the ledger.      *)
LEMMA MappedIsAggregate ==
  IInv => Mapped = [row \in Store!ObservedRows |-> Store!Aggregate(Normalized, row)]
  <1> SUFFICES ASSUME IInv
               PROVE  Mapped = [row \in Store!ObservedRows |->
                                  Store!Aggregate(Normalized, row)]
    OBVIOUS
  <1>1. \A row \in Store!ObservedRows :
          Sighting(store[row]) = Store!Aggregate(Normalized, row)
    BY SightingIsAggregate, SameRows
  <1> QED
    BY <1>1, SameRows DEF Mapped

LEMMA InitMaps == Init => Store!Init
  <1> SUFFICES ASSUME Init PROVE Store!Init
    OBVIOUS
  <1>1. IInv
    BY InitIInv
  <1>2. Normalized = {}
    BY DEF Init, Normalized
  <1>3. Mapped = [row \in Store!ObservedRows |-> Store!Aggregate({}, row)]
    BY <1>1, <1>2, MappedIsAggregate
  <1>4. raw = [e \in Events |-> "ABSENT"]
    BY DEF Init
  <1> QED
    BY <1>2, <1>3, <1>4 DEF Store!Init, Normalized, Mapped

(* Steps that keep the tables keep what the mapping shows of them.         *)
LEMMA TablesMapSame ==
  ASSUME store' = store, ledger' = ledger
  PROVE  Mapped' = Mapped /\ Normalized' = Normalized
  BY DEF Mapped, Sighting, Normalized

LEMMA CommitMaps ==
  ASSUME IInv, IInv', NEW r \in Requests, CommitNormalization(r),
         NEW e \in Events, e = event[r]
  PROVE  Store!Normalize(e)
  <1>1. raw[event[r]] = "RECEIVED"
    BY DEF IInv, ReceiptOwned, CommitNormalization
  <1>2. event[r] \notin Normalized
    BY CommitFacts DEF Normalized
  <1>3. Normalized' = Normalized \cup {event[r]}
    BY CommitFacts DEF Normalized
  <1>4. Mapped' =
          [row \in Store!ObservedRows |-> Store!Aggregate(Normalized', row)]
    <2>1. (IInv => Mapped = [row \in Store!ObservedRows |->
                               Store!Aggregate(Normalized, row)])'
      BY MappedIsAggregate, PTL
    <2> QED
      BY <2>1
  <1>5. Mapped' = [row \in Store!ObservedRows |->
                     Store!Aggregate(Normalized \cup {event[r]}, row)]
    BY <1>3, <1>4
  <1>6. raw' = [raw EXCEPT ![event[r]] = "PROCESSED"]
    BY DEF CommitNormalization
  <1> QED
    BY <1>1, <1>2, <1>3, <1>5, <1>6 DEF Store!Normalize, Normalized, Mapped

LEMMA StepMaps == IInv /\ IInv' /\ [Next]_vars => [Store!Next]_(Store!vars)
  <1> SUFFICES ASSUME IInv, IInv', [Next]_vars
               PROVE  [Store!Next]_(Store!vars)
    OBVIOUS
  <1> DEFINE stutter == raw' = raw /\ Normalized' = Normalized /\ Mapped' = Mapped
  <1>1. stutter => [Store!Next]_(Store!vars)
    BY DEF Store!vars, Normalized, Mapped
  <1> HIDE DEF stutter
  <1>2. ASSUME NEW r \in Requests, NEW e \in Events, PreserveRawEvent(r, e)
        PROVE  Store!Next \/ stutter
    <2>1. Mapped' = Mapped /\ Normalized' = Normalized
      BY <1>2, TablesMapSame DEF PreserveRawEvent
    <2>2. CASE raw[e] = "ABSENT"
      <3>1. Store!Receive(e)
        BY <1>2, <2>1, <2>2 DEF PreserveRawEvent, Store!Receive, Normalized, Mapped
      <3> QED
        BY <3>1 DEF Store!Next
    <2>3. CASE raw[e] # "ABSENT"
      BY <1>2, <2>1, <2>3 DEF PreserveRawEvent, stutter
    <2> QED
      BY <2>2, <2>3
  <1>3. ASSUME NEW r \in Requests,
               \/ UpsertRow(r)
               \/ Respond(r)
               \/ MarkRawFailedFails(r)
               \/ NormalizationFails(r)
               \/ Abandon(r)
        PROVE  stutter
    <2>1. raw' = raw /\ store' = store /\ ledger' = ledger
      BY <1>3 DEF UpsertRow, Respond, MarkRawFailedFails, NormalizationFails, Abandon
    <2> QED
      BY <2>1, TablesMapSame DEF stutter
  <1>4. ASSUME NEW r \in Requests, CommitNormalization(r)
        PROVE  Store!Next
    <2>1. PICK e \in Events : e = event[r]
      BY <1>4, CommitFacts
    <2>2. Store!Normalize(e)
      BY <1>4, <2>1, CommitMaps
    <2> QED
      BY <2>1, <2>2 DEF Store!Next
  <1>5. ASSUME NEW r \in Requests, MarkRawFailed(r)
        PROVE  Store!Next
    <2>1. event[r] \in Events /\ raw[event[r]] \in {"RECEIVED", "PROCESSED"}
      BY <1>5 DEF MarkRawFailed, IInv, ReceiptOwned
    <2>2. Mapped' = Mapped /\ Normalized' = Normalized
      BY <1>5, TablesMapSame DEF MarkRawFailed
    <2>3. Store!MarkFailed(event[r])
      BY <1>5, <2>1, <2>2 DEF MarkRawFailed, Store!MarkFailed, Normalized, Mapped
    <2> QED
      BY <2>1, <2>3 DEF Store!Next
  <1>6. UNCHANGED vars => stutter
    BY TablesMapSame DEF vars, stutter
  <1>7. Next => Store!Next \/ stutter
    BY <1>2, <1>3, <1>4, <1>5 DEF Next, ServerStep
  <1> QED
    BY <1>1, <1>6, <1>7

(* Every behaviour of ingestion is, through the mapping, a behaviour of    *)
(* the abstract store: statements of concurrent requests never show.       *)
THEOREM IngestionImplementsStore == Spec => ImplementsStore
  <1> QED
    BY InitMaps, StepMaps, Invariance, PTL DEF Spec, Store!Spec, ImplementsStore

=============================================================================
