---------------------------- MODULE DemoSessions ----------------------------
(***************************************************************************)
(* The public demo (apps/api/app/services/demo.py).  A session ingests and *)
(* assesses a baseline, then one showcase event per step request.  Its     *)
(* progress lives in the memory of the API process, in a registry of       *)
(* bounded size; its events live in the database.  Steps of one session    *)
(* are serialized by a lock, retried steps find the transaction that an    *)
(* earlier attempt ingested, repeated steps the answer it gave.            *)
(*                                                                         *)
(* asyncio switches tasks only at an await: an action is what runs between *)
(* two of them.  ingest_transaction is its three observable points, the    *)
(* receipt, the commit and the return (Ingestion has the rest).            *)
(***************************************************************************)
EXTENDS Naturals, Sequences, FiniteSets

CONSTANTS
  Sessions,      \* session ids; a factory never repeats one
  Requests,      \* step requests
  MaxSessions,   \* MAX_DEMO_SESSIONS
  Steps,         \* number of showcase events
  Baseline,      \* number of baseline events
  None           \* no session, no request

ASSUME DemoAssumption ==
  /\ MaxSessions \in Nat \ {0} /\ Steps \in Nat /\ Baseline \in Nat
  /\ None \notin Nat \cup Sessions \cup Requests

VARIABLES
  registry,   \* registered sessions, the least recently used first
  prepared,   \* prepared[s]: baseline events done, None before creation
  next,       \* next[s]: next_step
  responses,  \* responses[s][k]: the request whose answer is cached, or None
  pending,    \* pending[s]: steps with a pending transaction
  lock,       \* lock[s]: the request that holds the session's lock, or None
  db,         \* db[s][k]: what the database holds of showcase event k
  pc,         \* pc[r]: where request r is in step_demo_session
  target,     \* target[r]: its session id and expected_step
  reply       \* reply[r]: how it was answered

vars == <<registry, prepared, next, responses, pending, lock, db, pc, target,
          reply>>

Indices == 0 .. Steps - 1

Listed(s) == \E i \in DOMAIN registry : registry[i] = s

MovedToEnd(s) ==
  LET n == Len(registry)
      i == CHOOSE j \in 1 .. n : registry[j] = s
  IN  [j \in 1 .. n |-> CASE j < i -> registry[j]
                         [] i <= j /\ j < n -> registry[j + 1]
                         [] j = n -> s]

Init ==
  /\ registry  = <<>>
  /\ prepared  = [s \in Sessions |-> None]
  /\ next      = [s \in Sessions |-> 0]
  /\ responses = [s \in Sessions |-> [k \in Indices |-> None]]
  /\ pending   = [s \in Sessions |-> {}]
  /\ lock      = [s \in Sessions |-> None]
  /\ db        = [s \in Sessions |-> [k \in Indices |-> "absent"]]
  /\ pc        = [r \in Requests |-> "idle"]
  /\ target    = [r \in Requests |-> [session |-> None, step |-> 0]]
  /\ reply     = [r \in Requests |-> [kind |-> "none", by |-> None]]

-----------------------------------------------------------------------------
(* create_demo_session.                                                    *)

StartCreation(s) ==
  /\ prepared[s] = None
  /\ prepared' = [prepared EXCEPT ![s] = 0]
  /\ UNCHANGED <<registry, next, responses, pending, lock, db, pc, target,
                 reply>>

(* One baseline event is ingested and assessed.                            *)
PrepareBaseline(s) ==
  /\ prepared[s] \in 0 .. Baseline - 1
  /\ prepared' = [prepared EXCEPT ![s] = @ + 1]
  /\ UNCHANGED <<registry, next, responses, pending, lock, db, pc, target,
                 reply>>

(* A failure while creating: the session is never registered and its       *)
(* baseline stays behind.                                                  *)
CreationFails(s) ==
  /\ prepared[s] \in 0 .. Baseline
  /\ ~Listed(s)
  /\ prepared' = [prepared EXCEPT ![s] = Baseline + 1]
  /\ UNCHANGED <<registry, next, responses, pending, lock, db, pc, target,
                 reply>>

(* Mutant: room is made before the session is added.                       *)
Register_EvictFirst(s) ==
  /\ prepared[s] = Baseline
  /\ prepared' = [prepared EXCEPT ![s] = Baseline + 1]
  /\ registry' = Append(IF Len(registry) > MaxSessions THEN Tail(registry)
                        ELSE registry, s)
  /\ UNCHANGED <<next, responses, pending, lock, db, pc, target, reply>>

(* registry.add: the newest session pushes the least recently used out.    *)
Register(s) ==
  LET added == Append(registry, s) IN
  /\ prepared[s] = Baseline
  /\ prepared' = [prepared EXCEPT ![s] = Baseline + 1]
  /\ registry' = IF Len(added) > MaxSessions THEN Tail(added) ELSE added
  /\ UNCHANGED <<next, responses, pending, lock, db, pc, target, reply>>

-----------------------------------------------------------------------------
(* step_demo_session.                                                      *)

Ends(r, kind, by) ==
  /\ pc'    = [pc EXCEPT ![r] = "done"]
  /\ reply' = [reply EXCEPT ![r] = [kind |-> kind, by |-> by]]

(* registry.get: a use moves the session to the end.  From here on the     *)
(* request holds the session object, whether it stays registered or not.   *)
GetSession(r, s, k) ==
  /\ pc[r] = "idle"
  /\ target' = [target EXCEPT ![r] = [session |-> s, step |-> k]]
  /\ \/ /\ Listed(s)
        /\ registry' = MovedToEnd(s)
        /\ pc' = [pc EXCEPT ![r] = "waiting"]
        /\ UNCHANGED reply
     \/ /\ ~Listed(s)
        /\ Ends(r, "not_found", None)
        /\ UNCHANGED registry
  /\ UNCHANGED <<prepared, next, responses, pending, lock, db>>

(* The lock is taken and at once released by an answer that needs no work: *)
(* a cached response, a conflict, or completion.                           *)
AnswerAtOnce(r) ==
  LET s == target[r].session
      k == target[r].step
  IN  /\ pc[r] = "waiting"
      /\ lock[s] = None
      /\ CASE k < next[s] ->
                IF responses[s][k] = None THEN Ends(r, "conflict", None)
                ELSE Ends(r, "ok", responses[s][k])
           [] k > next[s] -> Ends(r, "conflict", None)
           [] k = next[s] /\ next[s] = Steps -> Ends(r, "complete", None)
           [] OTHER -> FALSE
      /\ UNCHANGED <<registry, prepared, next, responses, pending, lock, db,
                     target>>

(* Mutant: the session has no lock.                                        *)
TakeLock_NoLock(r) ==
  LET s == target[r].session
      k == target[r].step
  IN  /\ pc[r] = "waiting"
      /\ k = next[s] /\ k < Steps
      /\ lock' = [lock EXCEPT ![s] = r]
      /\ pc' = [pc EXCEPT ![r] = IF k \in pending[s] THEN "assessing"
                                 ELSE "ingesting"]
      /\ UNCHANGED <<registry, prepared, next, responses, pending, db, target,
                     reply>>

(* The step is due: a pending transaction is used, else one is ingested.   *)
TakeLock(r) ==
  LET s == target[r].session
      k == target[r].step
  IN  /\ pc[r] = "waiting"
      /\ lock[s] = None
      /\ k = next[s] /\ k < Steps
      /\ lock' = [lock EXCEPT ![s] = r]
      /\ pc' = [pc EXCEPT ![r] = IF k \in pending[s] THEN "assessing"
                                 ELSE "ingesting"]
      /\ UNCHANGED <<registry, prepared, next, responses, pending, db, target,
                     reply>>

Free(r) == lock' = [lock EXCEPT ![target[r].session] = None]

(* The receipt of the event is committed, unless there is one already.     *)
Receive(r) ==
  LET s == target[r].session
      k == target[r].step
  IN  /\ pc[r] = "ingesting"
      /\ \/ /\ db[s][k] = "absent"
            /\ db' = [db EXCEPT ![s][k] = "received"]
            /\ pc' = [pc EXCEPT ![r] = "normalizing"]
            /\ UNCHANGED <<lock, reply>>
         \/ /\ db[s][k] # "absent"
            /\ Ends(r, "duplicate", None)
            /\ Free(r)
            /\ UNCHANGED db
      /\ UNCHANGED <<registry, prepared, next, responses, pending, target>>

(* The normalized transaction is committed.                                *)
Normalize(r) ==
  /\ pc[r] = "normalizing"
  /\ db' = [db EXCEPT ![target[r].session][target[r].step] = "ingested"]
  /\ pc' = [pc EXCEPT ![r] = "returning"]
  /\ UNCHANGED <<registry, prepared, next, responses, pending, lock, target,
                 reply>>

(* Mutant: the ingested transaction is not remembered.                     *)
KeepPending_Forgotten(r) ==
  /\ pc[r] = "returning"
  /\ pc' = [pc EXCEPT ![r] = "assessing"]
  /\ UNCHANGED <<registry, prepared, next, responses, pending, lock, db,
                 target, reply>>

(* ingest_transaction returns and its transaction is pending.              *)
KeepPending(r) ==
  /\ pc[r] = "returning"
  /\ pending' = [pending EXCEPT ![target[r].session] = @ \cup {target[r].step}]
  /\ pc' = [pc EXCEPT ![r] = "assessing"]
  /\ UNCHANGED <<registry, prepared, next, responses, lock, db, target, reply>>

(* Mutant: the step counts as done before it is assessed.                  *)
Assess_AdvanceFirst(r) ==
  LET s == target[r].session
      k == target[r].step
  IN  /\ pc[r] = "assessing"
      /\ next' = [next EXCEPT ![s] = k + 1]
      /\ pc' = [pc EXCEPT ![r] = "answering"]
      /\ UNCHANGED <<registry, prepared, responses, pending, lock, db, target,
                     reply>>

(* assess_transaction commits the assessment.                              *)
Assess(r) ==
  /\ pc[r] = "assessing"
  /\ db' = [db EXCEPT ![target[r].session][target[r].step] = "assessed"]
  /\ pc' = [pc EXCEPT ![r] = "answering"]
  /\ UNCHANGED <<registry, prepared, next, responses, pending, lock, target,
                 reply>>

(* Mutant: the pending transaction stays after the answer.                 *)
Answer_KeepsPending(r) ==
  LET s == target[r].session
      k == next[s]
  IN  /\ pc[r] = "answering"
      /\ responses' = [responses EXCEPT ![s] = [@ EXCEPT ![k] = r]]
      /\ next' = [next EXCEPT ![s] = @ + 1]
      /\ Ends(r, "ok", r)
      /\ Free(r)
      /\ UNCHANGED <<registry, prepared, pending, db, target>>

(* It returns: the response is cached, the step is over, the lock is free. *)
Answer(r) ==
  LET s == target[r].session
      k == next[s]
  IN  /\ pc[r] = "answering"
      /\ responses' = [responses EXCEPT ![s] = [@ EXCEPT ![k] = r]]
      /\ pending' = [pending EXCEPT ![s] = @ \ {k}]
      /\ next' = [next EXCEPT ![s] = @ + 1]
      /\ Ends(r, "ok", r)
      /\ Free(r)
      /\ UNCHANGED <<registry, prepared, db, target>>

(* Mutant: an exception leaves the session locked.                         *)
Fails_KeepsLock(r) ==
  /\ pc[r] \in {"ingesting", "normalizing", "returning", "assessing", "answering"}
  /\ Ends(r, IF pc[r] \in {"assessing", "answering"} THEN "assessment_failed"
             ELSE "ingestion_failed", None)
  /\ UNCHANGED <<registry, prepared, next, responses, pending, lock, db, target>>

(* An exception of ingest_transaction or assess_transaction, before or     *)
(* after one of their commits, leaves the `async with` block.              *)
Fails(r) ==
  /\ pc[r] \in {"ingesting", "normalizing", "returning", "assessing", "answering"}
  /\ Ends(r, IF pc[r] \in {"assessing", "answering"} THEN "assessment_failed"
             ELSE "ingestion_failed", None)
  /\ Free(r)
  /\ UNCHANGED <<registry, prepared, next, responses, pending, db, target>>

(* The process restarts: its memory and every open request are gone, the   *)
(* database is not.  Locks and progress only matter to registered sessions *)
(* and to requests that hold one.                                          *)
Restart ==
  /\ registry' = <<>>
  /\ prepared' = [s \in Sessions |->
                    IF prepared[s] = None THEN None ELSE Baseline + 1]
  /\ next' = [s \in Sessions |-> 0]
  /\ responses' = [s \in Sessions |-> [k \in Indices |-> None]]
  /\ pending' = [s \in Sessions |-> {}]
  /\ lock' = [s \in Sessions |-> None]
  /\ pc' = [r \in Requests |->
              IF pc[r] \in {"idle", "done"} THEN pc[r] ELSE "gone"]
  /\ UNCHANGED <<db, target, reply>>

StepRequest(r) ==
  \/ AnswerAtOnce(r) \/ TakeLock(r) \/ Receive(r) \/ Normalize(r)
  \/ KeepPending(r) \/ Assess(r) \/ Answer(r)

Next ==
  \/ \E s \in Sessions :
        StartCreation(s) \/ PrepareBaseline(s) \/ CreationFails(s) \/ Register(s)
  \/ \E r \in Requests :
        \/ \E s \in Sessions, k \in 0 .. Steps : GetSession(r, s, k)
        \/ StepRequest(r)
        \/ Fails(r)
  \/ Restart

Spec == Init /\ [][Next]_vars

(* The event loop runs every request that can run; failures, arrivals and  *)
(* restarts are never owed.                                                *)
FairSpec == Spec /\ \A r \in Requests : WF_vars(StepRequest(r))

-----------------------------------------------------------------------------

Working == {"ingesting", "normalizing", "returning", "assessing", "answering"}

TypeOK ==
  /\ registry \in Seq(Sessions) /\ Len(registry) <= MaxSessions
  /\ \A i, j \in DOMAIN registry : registry[i] = registry[j] => i = j
  /\ prepared \in [Sessions -> {None} \cup 0 .. Baseline + 1]
  /\ next \in [Sessions -> 0 .. Steps]
  /\ responses \in [Sessions -> [Indices -> Requests \cup {None}]]
  /\ pending \in [Sessions -> SUBSET Indices]
  /\ lock \in [Sessions -> Requests \cup {None}]
  /\ db \in [Sessions -> [Indices -> {"absent", "received", "ingested", "assessed"}]]
  /\ pc \in [Requests -> Working \cup {"idle", "waiting", "done", "gone"}]
  /\ \A r \in Requests : target[r].session \in Sessions \cup {None}

(* The showcase tells its story in order: an event reaches the database    *)
(* only after every earlier event of its session was assessed, whatever    *)
(* failed and was retried.                                                 *)
ShowcaseInOrder ==
  \A s \in Sessions : \A k \in Indices :
    db[s][k] # "absent" => \A j \in 0 .. k - 1 : db[s][j] = "assessed"

(* A step that is answered twice is answered the same: the second answer   *)
(* is the cached first one, also if both requests were under way at once.  *)
RepliesRepeat ==
  \A r, q \in Requests :
    reply[r].kind = "ok" /\ reply[q].kind = "ok" /\ target[r] = target[q]
      => reply[r].by = reply[q].by

(* The memory of a session that nobody is working on agrees with the       *)
(* database: done steps are assessed and cached, a pending transaction was *)
(* ingested and is the next step's, and nothing is ahead of it.            *)
MemoryMatchesDatabase ==
  \A s \in Sessions :
    Listed(s) /\ lock[s] = None =>
      \A k \in Indices :
        /\ k < next[s] <=> responses[s][k] # None
        /\ k < next[s] => db[s][k] = "assessed"
        /\ k > next[s] => db[s][k] = "absent"
        /\ k \in pending[s] => k = next[s] /\ db[s][k] \in {"ingested", "assessed"}

(* No attempt sends an event twice unless an earlier attempt failed inside *)
(* ingestion: after a failed assessment the pending transaction is reused  *)
(* and after an answer the cache.                                          *)
DuplicatesExplained ==
  \A r \in Requests :
    reply[r].kind = "duplicate" =>
      \E q \in Requests : target[q] = target[r] /\ reply[q].kind = "ingestion_failed"

(* dashboard.tsx:459, "Demo paused -- retry step.": a step that failed can *)
(* be retried, so the due event is unknown to the database or pending.     *)
FailedStepRetriable ==
  \A s \in Sessions :
    Listed(s) /\ lock[s] = None /\ next[s] < Steps =>
      db[s][next[s]] = "absent" \/ next[s] \in pending[s]

(* Every step request that found its session is answered, or the process   *)
(* restarted: a failure never leaves a session locked.                     *)
StepsAnswered ==
  \A r \in Requests : pc[r] = "waiting" ~> pc[r] \in {"done", "gone"}

=============================================================================
