----------------------------- MODULE DemoProofs -----------------------------
(***************************************************************************)
(* Proofs about the demo sessions, for any number of sessions, requests,   *)
(* steps and any size of the registry.                                     *)
(*                                                                         *)
(* The memory of a session means something only while the session is       *)
(* alive: listed in the registry, or held by a request that found it       *)
(* before it was evicted.  A restart leaves nothing alive.                 *)
(***************************************************************************)
EXTENDS DemoSessions, SequenceTheorems, TLAPS

Kinds == {"none", "not_found", "conflict", "complete", "duplicate", "ok",
          "ingestion_failed", "assessment_failed"}

Holds(r, s) == pc[r] \in Working \cup {"waiting"} /\ target[r].session = s

Alive(s) == Listed(s) \/ \E r \in Requests : Holds(r, s)

Typed ==
  /\ TypeOK
  /\ target \in [Requests -> [session : Sessions \cup {None}, step : 0 .. Steps]]
  /\ reply \in [Requests -> [kind : Kinds, by : Requests \cup {None}]]
  /\ \A r \in Requests :
       /\ pc[r] # "idle" => target[r].session \in Sessions
       /\ pc[r] # "done" => reply[r].kind = "none"

(* Before its registration a session is known to nobody.                   *)
Fresh(s) == prepared[s] \in {None} \cup 0 .. Baseline

FreshUntouched ==
  \A s \in Sessions : Fresh(s) =>
    /\ ~Alive(s)
    /\ next[s] = 0 /\ pending[s] = {} /\ lock[s] = None
    /\ \A k \in Indices : responses[s][k] = None /\ db[s][k] = "absent"
    /\ \A r \in Requests : target[r].session = s => reply[r].kind # "ok"

(* A request at work holds the lock of its session, for the due step.      *)
LockHeld ==
  /\ \A r \in Requests : pc[r] \in Working =>
       /\ lock[target[r].session] = r
       /\ target[r].step = next[target[r].session]
       /\ target[r].step \in Indices
  /\ \A s \in Sessions : lock[s] # None =>
       pc[lock[s]] \in Working /\ target[lock[s]].session = s

(* What memory and database hold of a session, at rest and at each point   *)
(* of the step in progress.                                                *)
Memory(s) ==
  /\ \A k \in Indices :
       /\ k < next[s] <=> responses[s][k] # None
       /\ k < next[s] => db[s][k] = "assessed"
       /\ k > next[s] => db[s][k] = "absent"
       /\ k \in pending[s] => k = next[s] /\ db[s][k] \in {"ingested", "assessed"}
  /\ lock[s] # None =>
       LET p == pc[lock[s]]
           k == next[s]
       IN  /\ p \in {"ingesting", "normalizing", "returning"} => k \notin pending[s]
           /\ p = "normalizing" => db[s][k] = "received"
           /\ p = "returning" => db[s][k] = "ingested"
           /\ p \in {"assessing", "answering"} => k \in pending[s]
           /\ p = "answering" => db[s][k] = "assessed"

MemoryAlive == \A s \in Sessions : Alive(s) => Memory(s)

(* An answer given for a living session is the cached one.                 *)
Cached(r) ==
  reply[r].kind = "ok" /\ Alive(target[r].session) =>
    /\ target[r].step < next[target[r].session]
    /\ responses[target[r].session][target[r].step] = reply[r].by

(* The due event is in the database and not pending only after a failure   *)
(* inside ingestion.                                                       *)
Orphaned(s) ==
  /\ next[s] \in Indices
  /\ db[s][next[s]] # "absent"
  /\ next[s] \notin pending[s]
  /\ lock[s] # None => pc[lock[s]] = "ingesting"

Failed(s, k) ==
  \E q \in Requests :
    target[q] = [session |-> s, step |-> k] /\ reply[q].kind = "ingestion_failed"

OrphansExplained ==
  \A s \in Sessions : Alive(s) /\ Orphaned(s) => Failed(s, next[s])

IInv ==
  /\ Typed
  /\ FreshUntouched
  /\ LockHeld
  /\ MemoryAlive
  /\ \A r \in Requests : Cached(r)
  /\ RepliesRepeat
  /\ OrphansExplained
  /\ DuplicatesExplained
  /\ ShowcaseInOrder

-----------------------------------------------------------------------------
(* The registry.                                                           *)

LEMMA SequenceOf ==
  ASSUME NEW S, NEW n \in Nat, NEW m \in [1 .. n -> S]
  PROVE  m \in Seq(S) /\ Len(m) = n
<1>1. m \in Seq(S)
  BY SeqDef
<1> QED
  BY <1>1, LenProperties

LEMMA RegistryFacts ==
  ASSUME Typed, NEW n, n = Len(registry)
  PROVE  /\ registry \in Seq(Sessions)
         /\ n \in Nat /\ n <= MaxSessions
         /\ DOMAIN registry = 1 .. n
         /\ \A i \in 1 .. n : registry[i] \in Sessions
         /\ \A i, j \in 1 .. n : registry[i] = registry[j] => i = j
<1>1. /\ registry \in Seq(Sessions) /\ Len(registry) <= MaxSessions
      /\ \A i, j \in DOMAIN registry : registry[i] = registry[j] => i = j
  BY DEF Typed, TypeOK
<1>2. n \in Nat /\ registry \in [1 .. n -> Sessions] /\ DOMAIN registry = 1 .. n
  BY <1>1, LenProperties
<1> QED
  BY <1>1, <1>2

LEMMA MovedToEndFacts ==
  ASSUME Typed, NEW s \in Sessions, Listed(s), NEW m, m = MovedToEnd(s)
  PROVE  /\ m \in Seq(Sessions) /\ Len(m) = Len(registry)
         /\ \A i, j \in DOMAIN m : m[i] = m[j] => i = j
         /\ \A t : (\E i \in DOMAIN m : m[i] = t) <=> Listed(t)
<1>1. PICK n : n = Len(registry)
  OBVIOUS
<1>2. /\ registry \in Seq(Sessions) /\ n \in Nat /\ DOMAIN registry = 1 .. n
      /\ \A i \in 1 .. n : registry[i] \in Sessions
      /\ \A i, j \in 1 .. n : registry[i] = registry[j] => i = j
  BY <1>1, RegistryFacts
<1>3. PICK i : i = CHOOSE j \in 1 .. n : registry[j] = s
  OBVIOUS
<1>4. i \in 1 .. n /\ registry[i] = s
  BY <1>2, <1>3 DEF Listed
<1>5. m = [j \in 1 .. n |-> CASE j < i -> registry[j]
                              [] i <= j /\ j < n -> registry[j + 1]
                              [] j = n -> s]
  BY <1>1, <1>3 DEF MovedToEnd
<1>6. /\ DOMAIN m = 1 .. n /\ m[n] = s
      /\ \A j \in 1 .. n : j < i => m[j] = registry[j]
      /\ \A j \in 1 .. n : i <= j /\ j < n => m[j] = registry[j + 1]
  BY <1>2, <1>4, <1>5
<1>7. m \in [1 .. n -> Sessions]
  BY <1>2, <1>4, <1>5, <1>6
<1>8. m \in Seq(Sessions) /\ Len(m) = n
  BY <1>2, <1>7, SequenceOf
<1>9. \A a, b \in DOMAIN m : m[a] = m[b] => a = b
  BY <1>2, <1>4, <1>6
<1>10. ASSUME NEW t
       PROVE  (\E a \in DOMAIN m : m[a] = t) <=> Listed(t)
  <2>1. ASSUME NEW a \in 1 .. n, m[a] = t
        PROVE  Listed(t)
    BY <1>2, <1>4, <1>6, <2>1 DEF Listed
  <2>2. ASSUME NEW a \in 1 .. n, registry[a] = t
        PROVE  \E b \in 1 .. n : m[b] = t
    <3>1. CASE a < i
      BY <1>6, <2>2, <3>1
    <3>2. CASE a = i
      BY <1>2, <1>4, <1>6, <2>2, <3>2
    <3>3. CASE a > i
      <4>1. a - 1 \in 1 .. n /\ m[a - 1] = t
        BY <1>2, <1>4, <1>6, <2>2, <3>3
      <4> QED
        BY <4>1
    <3> QED
      BY <1>2, <1>4, <3>1, <3>2, <3>3
  <2> QED
    BY <1>2, <1>6, <2>1, <2>2 DEF Listed
<1> QED
  BY <1>1, <1>8, <1>9, <1>10

LEMMA RegisterFacts ==
  ASSUME Typed, NEW s \in Sessions, ~Listed(s), Register(s)
  PROVE  /\ registry' \in Seq(Sessions) /\ Len(registry') <= MaxSessions
         /\ \A i, j \in DOMAIN registry' : registry'[i] = registry'[j] => i = j
         /\ \A t : Listed(t)' => Listed(t) \/ t = s
<1>1. PICK n : n = Len(registry)
  OBVIOUS
<1>2. /\ registry \in Seq(Sessions) /\ n \in Nat /\ DOMAIN registry = 1 .. n
      /\ n <= MaxSessions /\ MaxSessions \in Nat
      /\ \A i, j \in 1 .. n : registry[i] = registry[j] => i = j
      /\ \A i \in 1 .. n : registry[i] # s
  BY <1>1, RegistryFacts, DemoAssumption DEF Listed
<1>3. PICK added : added = Append(registry, s)
  OBVIOUS
<1>4. /\ added \in Seq(Sessions) /\ Len(added) = n + 1 /\ DOMAIN added = 1 .. n + 1
      /\ added[n + 1] = s /\ \A i \in 1 .. n : added[i] = registry[i]
  BY <1>1, <1>2, <1>3
<1>5. ASSUME NEW i \in 1 .. n + 1, NEW j \in 1 .. n + 1, added[i] = added[j]
      PROVE  i = j
  <2>1. (i \in 1 .. n \/ i = n + 1) /\ (j \in 1 .. n \/ j = n + 1)
    BY <1>2
  <2> QED
    BY <1>2, <1>4, <1>5, <2>1
<1>6. \A i \in 1 .. n + 1 : added[i] = s \/ Listed(added[i])
  BY <1>2, <1>4 DEF Listed
<1>7. CASE Len(added) > MaxSessions
  <2>1. registry' = Tail(added)
    BY <1>3, <1>7 DEF Register
  <2>2. /\ registry' \in Seq(Sessions) /\ DOMAIN registry' = 1 .. n /\ Len(registry') = n
        /\ \A i \in 1 .. n : registry'[i] = added[i + 1]
    BY <1>2, <1>4, <2>1
  <2>3. \A i, j \in 1 .. n : registry'[i] = registry'[j] => i = j
    BY <1>2, <1>5, <2>2
  <2>4. \A t : Listed(t)' => Listed(t) \/ t = s
    BY <1>2, <1>6, <2>2 DEF Listed
  <2> QED
    BY <1>2, <2>2, <2>3, <2>4
<1>8. CASE ~(Len(added) > MaxSessions)
  <2>1. registry' = added
    BY <1>3, <1>8 DEF Register
  <2> QED
    BY <1>2, <1>4, <1>5, <1>6, <1>8, <2>1 DEF Listed
<1> QED
  BY <1>7, <1>8

-----------------------------------------------------------------------------
(* A step of request r only concerns its session.                          *)

OnSession(r, s, k) ==
  /\ s \in Sessions /\ target[r] = [session |-> s, step |-> k]
  /\ pc[r] \in Working \cup {"waiting"}
  /\ UNCHANGED <<registry, prepared, target>>
  /\ \A q \in Requests \ {r} : pc'[q] = pc[q] /\ reply'[q] = reply[q]
  /\ \A t \in Sessions \ {s} :
       /\ next'[t] = next[t] /\ responses'[t] = responses[t]
       /\ pending'[t] = pending[t] /\ lock'[t] = lock[t] /\ db'[t] = db[t]

LEMMA NobodyRevives ==
  ASSUME NEW r \in Requests, NEW s, NEW k, OnSession(r, s, k), NEW t, Alive(t)'
  PROVE  Alive(t)
BY DEF Alive, Holds, Listed, OnSession

LEMMA OtherSessions ==
  ASSUME IInv, NEW r \in Requests, NEW s, NEW k, OnSession(r, s, k)
  PROVE  /\ FreshUntouched'
         /\ \A t \in Sessions \ {s} :
              /\ Alive(t)' => Memory(t)'
              /\ Alive(t)' /\ Orphaned(t)' => Failed(t, next[t])'
         /\ \A q \in Requests : target[q].session # s => Cached(q)'
<1>1. Alive(s)
  BY DEF Alive, Holds, OnSession
<1>2. FreshUntouched'
  <2> SUFFICES ASSUME NEW t \in Sessions, Fresh(t)'
               PROVE  /\ ~Alive(t)'
                      /\ next'[t] = 0 /\ pending'[t] = {} /\ lock'[t] = None
                      /\ \A x \in Indices : responses'[t][x] = None /\ db'[t][x] = "absent"
                      /\ \A q \in Requests : target'[q].session = t => reply'[q].kind # "ok"
    BY DEF FreshUntouched
  <2>1. Fresh(t)
    BY DEF Fresh, OnSession
  <2>2. t # s /\ ~Alive(t)'
    BY <1>1, <2>1, NobodyRevives DEF IInv, FreshUntouched
  <2> QED
    BY <2>1, <2>2 DEF IInv, FreshUntouched, OnSession
<1>3. ASSUME NEW t \in Sessions \ {s}
      PROVE  lock[t] # None => pc'[lock[t]] = pc[lock[t]]
  BY DEF IInv, LockHeld, OnSession, Typed, TypeOK
<1>4. ASSUME NEW t \in Sessions \ {s}, Alive(t)'
      PROVE  Memory(t)'
  <2>1. Memory(t)
    BY <1>4, NobodyRevives DEF IInv, MemoryAlive
  <2> QED
    BY <1>3, <2>1 DEF Memory, OnSession
<1>5. ASSUME NEW t \in Sessions \ {s}, Alive(t)', Orphaned(t)'
      PROVE  Failed(t, next[t])'
  <2>1. Alive(t) /\ Orphaned(t)
    BY <1>3, <1>5, NobodyRevives DEF Orphaned, OnSession
  <2>2. PICK q \in Requests : /\ target[q] = [session |-> t, step |-> next[t]]
                              /\ reply[q].kind = "ingestion_failed"
    BY <2>1 DEF IInv, OrphansExplained, Failed
  <2>3. q # r
    BY <2>2 DEF OnSession
  <2> QED
    BY <2>2, <2>3 DEF Failed, OnSession
<1>6. ASSUME NEW q \in Requests, target[q].session # s
      PROVE  Cached(q)'
  <2>1. Cached(q) /\ q # r
    BY <1>6 DEF IInv, OnSession
  <2>2. reply[q].kind = "ok" => target[q].session \in Sessions
    BY DEF IInv, Typed
  <2>3. Alive(target[q].session)' => Alive(target[q].session)
    BY NobodyRevives DEF OnSession, Alive, Holds, Listed
  <2> QED
    BY <1>6, <2>1, <2>2, <2>3 DEF Cached, OnSession
<1> QED
  BY <1>2, <1>4, <1>5, <1>6

(* So it is enough to look at that session.                                *)
LEMMA StepOnSession ==
  ASSUME IInv, NEW r \in Requests, NEW s, NEW k, OnSession(r, s, k),
         Typed', LockHeld', Memory(s)', Orphaned(s)' => Failed(s, next[s])',
         \A q \in Requests : target[q].session = s => Cached(q)',
         RepliesRepeat', DuplicatesExplained', ShowcaseInOrder'
  PROVE  IInv'
<1>1. MemoryAlive'
  BY OtherSessions DEF MemoryAlive, OnSession
<1>2. OrphansExplained'
  <2> SUFFICES ASSUME NEW t \in Sessions, Alive(t)', Orphaned(t)'
               PROVE  Failed(t, next[t])'
    BY DEF OrphansExplained
  <2>1. CASE t = s
    BY <2>1 DEF Orphaned, Failed
  <2>2. CASE t # s
    BY <2>2, OtherSessions
  <2> QED
    BY <2>1, <2>2
<1>3. \A q \in Requests : Cached(q)'
  BY OtherSessions
<1> QED
  BY <1>1, <1>2, <1>3, OtherSessions DEF IInv

-----------------------------------------------------------------------------
(* The steps of a request.                                                 *)

LEMMA InSession ==
  ASSUME IInv, NEW r \in Requests, pc[r] \in Working \cup {"waiting"},
         NEW s, s = target[r].session, NEW k, k = target[r].step
  PROVE  /\ s \in Sessions /\ k \in 0 .. Steps
         /\ target[r] = [session |-> s, step |-> k]
         /\ reply[r].kind = "none" /\ Memory(s)
<1>1. pc[r] # "idle" /\ pc[r] # "done"
  BY DEF Working
<1>2. s \in Sessions /\ reply[r].kind = "none"
  BY <1>1 DEF IInv, Typed
<1>3. target[r] \in [session : Sessions \cup {None}, step : 0 .. Steps]
  BY DEF IInv, Typed
<1>4. Memory(s)
  BY <1>2 DEF IInv, MemoryAlive, Alive, Holds
<1> QED
  BY <1>2, <1>3, <1>4

LEMMA AtWork ==
  ASSUME IInv, NEW r \in Requests, pc[r] \in Working,
         NEW s, s = target[r].session, NEW k, k = target[r].step
  PROVE  lock[s] = r /\ next[s] = k /\ k \in Indices
BY DEF IInv, LockHeld

(* Nothing is answered: the replies and what they promise stay.            *)
LEMMA RepliesKept ==
  ASSUME IInv, UNCHANGED <<target, reply>>
  PROVE  RepliesRepeat' /\ DuplicatesExplained'
BY DEF IInv, RepliesRepeat, DuplicatesExplained

LEMMA FailedKept ==
  ASSUME IInv, NEW r \in Requests, reply[r].kind = "none", UNCHANGED target,
         \A q \in Requests \ {r} : reply'[q] = reply[q], NEW s, NEW k, Failed(s, k)
  PROVE  \E q \in Requests : /\ target'[q] = [session |-> s, step |-> k]
                             /\ reply'[q].kind = "ingestion_failed"
BY DEF Failed

LEMMA TakeLockKeeps ==
  ASSUME IInv, NEW r \in Requests, TakeLock(r)
  PROVE  IInv'
<1>1. PICK s, k : s = target[r].session /\ k = target[r].step
  OBVIOUS
<1>2. /\ pc[r] = "waiting" /\ lock[s] = None /\ k = next[s] /\ k < Steps
      /\ lock' = [lock EXCEPT ![s] = r]
      /\ pc' = [pc EXCEPT ![r] = IF k \in pending[s] THEN "assessing" ELSE "ingesting"]
      /\ UNCHANGED <<registry, prepared, next, responses, pending, db, target, reply>>
  BY <1>1 DEF TakeLock
<1>3. /\ s \in Sessions /\ k \in 0 .. Steps /\ target[r] = [session |-> s, step |-> k]
      /\ reply[r].kind = "none" /\ Memory(s)
  <2>1. pc[r] \in Working \cup {"waiting"}
    BY <1>2
  <2> QED
    BY <1>1, <2>1, InSession
<1>4. k \in Indices
  BY <1>2, <1>3, DemoAssumption DEF Indices
<1>5. lock \in [Sessions -> Requests \cup {None}] /\ None \notin Requests
      /\ pc \in [Requests -> Working \cup {"idle", "waiting", "done", "gone"}]
  BY DemoAssumption DEF IInv, Typed, TypeOK
<1>6. /\ lock'[s] = r /\ \A t \in Sessions \ {s} : lock'[t] = lock[t]
      /\ \A q \in Requests \ {r} : pc'[q] = pc[q]
      /\ pc'[r] = IF k \in pending[s] THEN "assessing" ELSE "ingesting"
      /\ pc'[r] \in Working
  BY <1>2, <1>3, <1>5 DEF Working
<1>7. OnSession(r, s, k)
  BY <1>2, <1>3, <1>6 DEF OnSession
<1>8. Typed'
  BY <1>2, <1>3, <1>5, <1>6 DEF IInv, Typed, TypeOK, Working
<1>9. LockHeld'
  <2>1. ASSUME NEW q \in Requests, pc'[q] \in Working
        PROVE  /\ lock'[target[q].session] = q
               /\ target[q].step = next[target[q].session] /\ target[q].step \in Indices
    <3>1. CASE q = r
      BY <1>2, <1>3, <1>4, <1>6, <3>1
    <3>2. CASE q # r
      <4>1. pc[q] \in Working /\ lock[target[q].session] = q /\ target[q].session \in Sessions
        BY <1>6, <2>1, <3>2 DEF IInv, LockHeld, Typed, Working
      <4>2. target[q].session # s
        BY <1>2, <1>5, <4>1
      <4> QED
        BY <1>6, <4>1, <4>2 DEF IInv, LockHeld
    <3> QED
      BY <3>1, <3>2
  <2>2. ASSUME NEW t \in Sessions, lock'[t] # None
        PROVE  pc'[lock'[t]] \in Working /\ target[lock'[t]].session = t
    BY <1>2, <1>3, <1>5, <1>6, <2>2 DEF IInv, LockHeld, Working
  <2> QED
    BY <1>2, <2>1, <2>2 DEF LockHeld
<1>10. Memory(s)'
  BY <1>2, <1>3, <1>6 DEF Memory
<1>11. Orphaned(s)' => Failed(s, next[s])'
  <2> SUFFICES ASSUME Orphaned(s)' PROVE Failed(s, next[s])'
    OBVIOUS
  <2>1. Orphaned(s) /\ Alive(s)
    BY <1>2, <1>3 DEF Orphaned, Alive, Holds
  <2> QED
    BY <1>2, <1>3, <2>1 DEF IInv, OrphansExplained, Failed
<1>12. ASSUME NEW q \in Requests, target[q].session = s
       PROVE  Cached(q)'
  <2>1. Alive(s)
    BY <1>2, <1>3 DEF Alive, Holds
  <2> QED
    BY <1>2, <1>12, <2>1 DEF IInv, Cached
<1>13. ShowcaseInOrder'
  BY <1>2 DEF IInv, ShowcaseInOrder
<1> QED
  BY <1>2, <1>7, <1>8, <1>9, <1>10, <1>11, <1>12, <1>13, RepliesKept, StepOnSession

LEMMA AnswerAtOnceKeeps ==
  ASSUME IInv, NEW r \in Requests, AnswerAtOnce(r)
  PROVE  IInv'
<1>1. PICK s, k : s = target[r].session /\ k = target[r].step
  OBVIOUS
<1>2. /\ pc[r] = "waiting" /\ lock[s] = None /\ pc' = [pc EXCEPT ![r] = "done"]
      /\ UNCHANGED <<registry, prepared, next, responses, pending, lock, db, target>>
  BY <1>1 DEF AnswerAtOnce, Ends
<1>3. /\ s \in Sessions /\ k \in 0 .. Steps /\ target[r] = [session |-> s, step |-> k]
      /\ reply[r].kind = "none" /\ Memory(s)
  BY <1>1, <1>2, InSession
<1>4. /\ pc \in [Requests -> Working \cup {"idle", "waiting", "done", "gone"}]
      /\ reply \in [Requests -> [kind : Kinds, by : Requests \cup {None}]]
      /\ responses \in [Sessions -> [Indices -> Requests \cup {None}]]
      /\ next \in [Sessions -> 0 .. Steps] /\ Steps \in Nat
  BY DemoAssumption DEF IInv, Typed, TypeOK
<1>5. PICK kind, by :
        /\ reply' = [reply EXCEPT ![r] = [kind |-> kind, by |-> by]]
        /\ kind \in {"ok", "conflict", "complete"}
        /\ kind # "ok" => by = None
        /\ kind = "ok" => k < next[s] /\ by = responses[s][k]
  BY <1>1 DEF AnswerAtOnce, Ends
<1>6. by \in Requests \cup {None}
  <2>1. k < next[s] => k \in Indices
    BY <1>3, <1>4 DEF Indices
  <2> QED
    BY <1>3, <1>4, <1>5, <2>1
<1>7. /\ pc'[r] = "done" /\ reply'[r] = [kind |-> kind, by |-> by]
      /\ \A q \in Requests \ {r} : pc'[q] = pc[q] /\ reply'[q] = reply[q]
  BY <1>2, <1>4, <1>5
<1>8. OnSession(r, s, k) /\ Alive(s)
  BY <1>2, <1>3, <1>7 DEF OnSession, Alive, Holds
<1>9. Typed'
  <2>1. /\ pc' \in [Requests -> Working \cup {"idle", "waiting", "done", "gone"}]
        /\ reply' \in [Requests -> [kind : Kinds, by : Requests \cup {None}]]
    BY <1>2, <1>4, <1>5, <1>6 DEF Kinds
  <2> QED
    BY <1>2, <1>3, <1>7, <2>1 DEF IInv, Typed, TypeOK
<1>10. LockHeld'
  BY <1>2, <1>3, <1>7 DEF IInv, LockHeld, Working
<1>11. Memory(s)'
  BY <1>2, <1>3 DEF Memory
<1>12. Orphaned(s)' => Failed(s, next[s])'
  <2> SUFFICES ASSUME Orphaned(s)' PROVE Failed(s, next[s])'
    OBVIOUS
  <2>1. Failed(s, next[s])
    BY <1>2, <1>3, <1>8 DEF IInv, OrphansExplained, Orphaned
  <2> QED
    BY <1>2, <1>3, <1>7, <2>1 DEF Failed
<1>13. ASSUME NEW q \in Requests, target[q].session = s, reply'[q].kind = "ok"
       PROVE  /\ target[q].step < next[s]
              /\ responses[s][target[q].step] = reply'[q].by
  BY <1>3, <1>5, <1>7, <1>8, <1>13 DEF IInv, Cached
<1>14. \A q \in Requests : target[q].session = s => Cached(q)'
  BY <1>2, <1>13 DEF Cached
<1>15. RepliesRepeat'
  <2> SUFFICES ASSUME NEW a \in Requests, NEW b \in Requests,
                      reply'[a].kind = "ok", reply'[b].kind = "ok", target[a] = target[b]
               PROVE  reply'[a].by = reply'[b].by
    BY <1>2 DEF RepliesRepeat
  <2>1. CASE target[a].session = s
    BY <1>13, <2>1
  <2>2. CASE target[a].session # s
    BY <1>3, <1>7, <2>2 DEF IInv, RepliesRepeat
  <2> QED
    BY <2>1, <2>2
<1>16. DuplicatesExplained'
  BY <1>2, <1>3, <1>5, <1>7 DEF IInv, DuplicatesExplained
<1>17. ShowcaseInOrder'
  BY <1>2 DEF IInv, ShowcaseInOrder
<1> QED
  BY <1>8, <1>9, <1>10, <1>11, <1>12, <1>14, <1>15, <1>16, <1>17, StepOnSession

(* A request goes on working, or ends and frees the lock.                  *)
LEMMA LockKept ==
  ASSUME IInv, NEW r \in Requests, pc[r] \in Working, pc'[r] \in Working,
         \A q \in Requests \ {r} : pc'[q] = pc[q],
         UNCHANGED <<lock, next, target>>
  PROVE  LockHeld'
<1>1. lock[target[r].session] = r
  BY DEF IInv, LockHeld
<1>2. \A q \in Requests : pc'[q] \in Working <=> pc[q] \in Working
  OBVIOUS
<1>3. \A s \in Sessions : lock[s] # None => lock[s] \in Requests
  BY DEF IInv, Typed, TypeOK
<1> QED
  BY <1>2, <1>3 DEF IInv, LockHeld

LEMMA LockFreed ==
  ASSUME IInv, NEW r \in Requests, pc[r] \in Working, pc'[r] = "done",
         \A q \in Requests \ {r} : pc'[q] = pc[q],
         NEW s, s = target[r].session,
         lock'[s] = None, \A t \in Sessions \ {s} : lock'[t] = lock[t],
         \A t \in Sessions \ {s} : next'[t] = next[t],
         target' = target
  PROVE  LockHeld'
<1>1. /\ lock \in [Sessions -> Requests \cup {None}] /\ None \notin Requests
      /\ pc[r] # "idle"
  BY DemoAssumption DEF IInv, Typed, TypeOK, Working
<1>2. s \in Sessions
  BY <1>1 DEF IInv, Typed
<1>4. ASSUME NEW q \in Requests, pc'[q] \in Working
      PROVE  /\ lock'[target[q].session] = q
             /\ target[q].step = next'[target[q].session] /\ target[q].step \in Indices
  <2>1. q # r /\ pc[q] \in Working /\ pc[q] # "idle"
    BY <1>4 DEF Working
  <2>2. /\ lock[target[q].session] = q /\ target[q].session \in Sessions
        /\ target[q].step = next[target[q].session] /\ target[q].step \in Indices
    BY <2>1 DEF IInv, LockHeld, Typed
  <2>3. target[q].session # s
    BY <2>1, <2>2 DEF IInv, LockHeld
  <2> QED
    BY <2>2, <2>3
<1>5. ASSUME NEW t \in Sessions, lock'[t] # None
      PROVE  pc'[lock'[t]] \in Working /\ target[lock'[t]].session = t
  <2>1. t # s /\ lock'[t] = lock[t] /\ lock[t] \in Requests
    BY <1>1, <1>5
  <2>2. pc[lock[t]] \in Working /\ target[lock[t]].session = t
    BY <1>5, <2>1 DEF IInv, LockHeld
  <2>3. lock[t] # r
    BY <2>1, <2>2
  <2> QED
    BY <2>1, <2>2, <2>3
<1> QED
  BY <1>4, <1>5 DEF LockHeld

(* A step that only writes the due event's row keeps the order: every      *)
(* earlier event is assessed and every later one absent.                   *)
LEMMA OrderKept ==
  ASSUME IInv, NEW s \in Sessions, NEW k \in Indices, Memory(s), next[s] = k,
         NEW v, db' = [db EXCEPT ![s][k] = v]
  PROVE  ShowcaseInOrder'
<1>1. db \in [Sessions -> [Indices -> {"absent", "received", "ingested", "assessed"}]]
  BY DEF IInv, Typed, TypeOK
<1>2. /\ db'[s][k] = v
      /\ \A i \in Indices \ {k} : db'[s][i] = db[s][i]
      /\ \A t \in Sessions \ {s} : db'[t] = db[t]
  BY <1>1
<1>3. ASSUME NEW t \in Sessions, NEW i \in Indices, db'[t][i] # "absent",
             NEW j \in 0 .. i - 1
      PROVE  db'[t][j] = "assessed"
  <2>1. j \in Indices /\ i \in Nat /\ k \in Nat /\ j < i
    BY DemoAssumption DEF Indices
  <2>2. CASE t # s
    BY <1>2, <1>3, <2>2 DEF IInv, ShowcaseInOrder
  <2>3. CASE t = s
    <3>1. i <= k
      BY <1>2, <1>3, <2>1, <2>3 DEF Memory
    <3>2. j < k
      BY <2>1, <3>1
    <3> QED
      BY <1>2, <2>1, <2>3, <3>2 DEF Memory
  <2> QED
    BY <2>2, <2>3
<1> QED
  BY <1>3 DEF ShowcaseInOrder

(* Steps inside the lock that go on: they write the due row or remember    *)
(* the pending transaction.                                                *)
GoesOn(r, s, k, p, v, kept) ==
  /\ db' = [db EXCEPT ![s][k] = v]
  /\ pc' = [pc EXCEPT ![r] = p]
  /\ pending' = [pending EXCEPT ![s] = kept]
  /\ \/ p = "normalizing" /\ v = "received" /\ kept = {}
     \/ p = "returning"   /\ v = "ingested" /\ kept = {}
     \/ p = "assessing"   /\ v = "ingested" /\ kept = {k}
     \/ p = "answering"   /\ v = "assessed" /\ kept = {k}
  /\ UNCHANGED <<registry, prepared, next, responses, lock, target, reply>>

LEMMA GoesOnKeeps ==
  ASSUME IInv, NEW r \in Requests, pc[r] \in Working,
         NEW s, s = target[r].session, NEW k, k = target[r].step,
         NEW p, NEW v, NEW kept, GoesOn(r, s, k, p, v, kept)
  PROVE  IInv'
<1>1. /\ s \in Sessions /\ k \in Indices /\ target[r] = [session |-> s, step |-> k]
      /\ reply[r].kind = "none" /\ Memory(s) /\ lock[s] = r /\ next[s] = k
  BY InSession, AtWork
<1>2. /\ pc \in [Requests -> Working \cup {"idle", "waiting", "done", "gone"}]
      /\ pending \in [Sessions -> SUBSET Indices] /\ None \notin Requests
      /\ r # None
  BY DemoAssumption DEF IInv, Typed, TypeOK
<1>3. /\ pc'[r] = p /\ p \in Working
      /\ \A q \in Requests \ {r} : pc'[q] = pc[q]
      /\ pending'[s] = kept /\ \A t \in Sessions \ {s} : pending'[t] = pending[t]
  BY <1>1, <1>2 DEF GoesOn, Working
<1>4. /\ db' \in [Sessions -> [Indices -> {"absent", "received", "ingested", "assessed"}]]
      /\ db'[s][k] = v
      /\ \A i \in Indices \ {k} : db'[s][i] = db[s][i]
      /\ \A t \in Sessions \ {s} : db'[t] = db[t]
  <2>1. /\ v \in {"absent", "received", "ingested", "assessed"}
        /\ db' = [db EXCEPT ![s][k] = v]
    BY DEF GoesOn
  <2> QED
    BY <1>1, <2>1 DEF IInv, Typed, TypeOK
<1>5. OnSession(r, s, k) /\ Alive(s)
  BY <1>1, <1>3, <1>4 DEF OnSession, GoesOn, Alive, Holds
<1>6. Typed'
  <2>1. /\ pc' \in [Requests -> Working \cup {"idle", "waiting", "done", "gone"}]
        /\ pending' \in [Sessions -> SUBSET Indices]
    BY <1>1, <1>2, <1>3 DEF GoesOn
  <2>2. p # "idle" /\ p # "done"
    BY DEF GoesOn
  <2> QED
    BY <1>1, <1>3, <1>4, <2>1, <2>2 DEF IInv, Typed, TypeOK, GoesOn
<1>7. LockHeld'
  BY <1>3, LockKept DEF GoesOn
<1>8. Memory(s)'
  <2>1. \A i \in Indices :
          /\ i < next'[s] <=> responses'[s][i] # None
          /\ i < next'[s] => db'[s][i] = "assessed"
          /\ i > next'[s] => db'[s][i] = "absent"
    BY <1>1, <1>4 DEF Memory, GoesOn
  <2>2. \A i \in Indices :
          i \in pending'[s] => i = next'[s] /\ db'[s][i] \in {"ingested", "assessed"}
    BY <1>1, <1>3, <1>4 DEF GoesOn
  <2>3. /\ p \in {"ingesting", "normalizing", "returning"} => k \notin pending'[s]
        /\ p = "normalizing" => db'[s][k] = "received"
        /\ p = "returning" => db'[s][k] = "ingested"
        /\ p \in {"assessing", "answering"} => k \in pending'[s]
        /\ p = "answering" => db'[s][k] = "assessed"
    BY <1>3, <1>4 DEF GoesOn
  <2>4. lock'[s] = r /\ next'[s] = k
    BY <1>1 DEF GoesOn
  <2> QED
    BY <1>3, <2>1, <2>2, <2>3, <2>4 DEF Memory
<1>9. ~Orphaned(s)'
  <2>1. lock'[s] = r /\ pc'[r] # "ingesting"
    BY <1>1, <1>3 DEF GoesOn
  <2> QED
    BY <1>2, <2>1 DEF Orphaned
<1>10. \A q \in Requests : target[q].session = s => Cached(q)'
  BY <1>5 DEF IInv, Cached, GoesOn
<1>11. ShowcaseInOrder'
  BY <1>1, OrderKept DEF GoesOn
<1>12. RepliesRepeat' /\ DuplicatesExplained'
  BY RepliesKept DEF GoesOn
<1> QED
  BY <1>5, <1>6, <1>7, <1>8, <1>9, <1>10, <1>11, <1>12, StepOnSession

LEMMA NormalizeKeeps ==
  ASSUME IInv, NEW r \in Requests, Normalize(r)
  PROVE  IInv'
<1>1. PICK s, k : s = target[r].session /\ k = target[r].step
  OBVIOUS
<1>2. pc[r] = "normalizing" /\ pc[r] \in Working
  BY DEF Normalize, Working
<1>3. /\ s \in Sessions /\ k \in Indices /\ target[r] = [session |-> s, step |-> k]
      /\ Memory(s) /\ lock[s] = r /\ next[s] = k
  BY <1>1, <1>2, InSession, AtWork
<1>4. pending[s] = {} /\ pending \in [Sessions -> SUBSET Indices] /\ r # None
  BY <1>2, <1>3, DemoAssumption DEF Memory, IInv, Typed, TypeOK
<1>5. GoesOn(r, s, k, "returning", "ingested", {})
  BY <1>1, <1>3, <1>4 DEF Normalize, GoesOn
<1> QED
  BY <1>1, <1>2, <1>5, GoesOnKeeps

LEMMA KeepPendingKeeps ==
  ASSUME IInv, NEW r \in Requests, KeepPending(r)
  PROVE  IInv'
<1>1. PICK s, k : s = target[r].session /\ k = target[r].step
  OBVIOUS
<1>2. pc[r] = "returning" /\ pc[r] \in Working
  BY DEF KeepPending, Working
<1>3. /\ s \in Sessions /\ k \in Indices /\ target[r] = [session |-> s, step |-> k]
      /\ Memory(s) /\ lock[s] = r /\ next[s] = k
  BY <1>1, <1>2, InSession, AtWork
<1>4. /\ pending[s] = {} /\ db[s][k] = "ingested" /\ r # None
      /\ pending \in [Sessions -> SUBSET Indices]
      /\ db \in [Sessions -> [Indices -> {"absent", "received", "ingested", "assessed"}]]
  BY <1>2, <1>3, DemoAssumption DEF Memory, IInv, Typed, TypeOK
<1>5. db' = [db EXCEPT ![s][k] = "ingested"]
  BY <1>3, <1>4 DEF KeepPending
<1>6. pending' = [pending EXCEPT ![s] = {k}]
  BY <1>1, <1>3, <1>4 DEF KeepPending
<1>7. GoesOn(r, s, k, "assessing", "ingested", {k})
  BY <1>3, <1>4, <1>5, <1>6 DEF KeepPending, GoesOn
<1> QED
  BY <1>1, <1>2, <1>7, GoesOnKeeps

LEMMA AssessKeeps ==
  ASSUME IInv, NEW r \in Requests, Assess(r)
  PROVE  IInv'
<1>1. PICK s, k : s = target[r].session /\ k = target[r].step
  OBVIOUS
<1>2. pc[r] = "assessing" /\ pc[r] \in Working
  BY DEF Assess, Working
<1>3. /\ s \in Sessions /\ k \in Indices /\ target[r] = [session |-> s, step |-> k]
      /\ Memory(s) /\ lock[s] = r /\ next[s] = k
  BY <1>1, <1>2, InSession, AtWork
<1>4. pending[s] = {k} /\ pending \in [Sessions -> SUBSET Indices] /\ r # None
  BY <1>2, <1>3, DemoAssumption DEF Memory, IInv, Typed, TypeOK
<1>5. GoesOn(r, s, k, "answering", "assessed", {k})
  BY <1>1, <1>3, <1>4 DEF Assess, GoesOn
<1> QED
  BY <1>1, <1>2, <1>5, GoesOnKeeps

(* Steps that end without an answer: a duplicate, or a failure.            *)
Stops(r, s, kind) ==
  /\ kind \in {"duplicate", "ingestion_failed", "assessment_failed"}
  /\ pc' = [pc EXCEPT ![r] = "done"]
  /\ reply' = [reply EXCEPT ![r] = [kind |-> kind, by |-> None]]
  /\ lock' = [lock EXCEPT ![s] = None]
  /\ UNCHANGED <<registry, prepared, next, responses, pending, db, target>>

LEMMA StopsKeeps ==
  ASSUME IInv, NEW r \in Requests, pc[r] \in Working,
         NEW s, s = target[r].session, NEW k, k = target[r].step,
         NEW kind, Stops(r, s, kind),
         kind = "duplicate" => Failed(s, k),
         kind = "assessment_failed" => k \in pending[s],
         kind = "duplicate" => pc[r] = "ingesting"
  PROVE  IInv'
<1>1. /\ s \in Sessions /\ k \in Indices /\ target[r] = [session |-> s, step |-> k]
      /\ reply[r].kind = "none" /\ Memory(s) /\ lock[s] = r /\ next[s] = k
  BY InSession, AtWork
<1>2. /\ pc \in [Requests -> Working \cup {"idle", "waiting", "done", "gone"}]
      /\ reply \in [Requests -> [kind : Kinds, by : Requests \cup {None}]]
  BY DEF IInv, Typed, TypeOK
<1>3. /\ pc'[r] = "done" /\ reply'[r] = [kind |-> kind, by |-> None]
      /\ \A q \in Requests \ {r} : pc'[q] = pc[q] /\ reply'[q] = reply[q]
  BY <1>2 DEF Stops
<1>4. /\ LockHeld' /\ lock' \in [Sessions -> Requests \cup {None}]
      /\ lock'[s] = None /\ \A t \in Sessions \ {s} : lock'[t] = lock[t]
  <2>1. /\ lock' \in [Sessions -> Requests \cup {None}]
        /\ lock'[s] = None /\ \A t \in Sessions \ {s} : lock'[t] = lock[t]
    BY <1>1 DEF IInv, Typed, TypeOK, Stops
  <2>2. target' = target /\ next' = next
    BY DEF Stops
  <2> QED
    BY <1>3, <2>1, <2>2, LockFreed
<1>5. OnSession(r, s, k) /\ Alive(s)
  BY <1>1, <1>3, <1>4 DEF OnSession, Stops, Alive, Holds
<1>6. Typed'
  <2>1. /\ pc' \in [Requests -> Working \cup {"idle", "waiting", "done", "gone"}]
        /\ reply' \in [Requests -> [kind : Kinds, by : Requests \cup {None}]]
    BY <1>2 DEF Stops, Kinds
  <2> QED
    BY <1>1, <1>3, <1>4, <2>1 DEF IInv, Typed, TypeOK, Stops
<1>7. Memory(s)'
  BY <1>1, <1>4 DEF Memory, Stops
<1>8. Orphaned(s)' => Failed(s, next[s])'
  <2> SUFFICES ASSUME Orphaned(s)' PROVE Failed(s, next[s])'
    OBVIOUS
  <2>1. k \notin pending[s]
    BY <1>1 DEF Orphaned, Stops
  <2>2. CASE kind = "duplicate"
    BY <1>1, <1>3, <2>2 DEF Failed, Stops
  <2>3. CASE kind = "ingestion_failed"
    <3>1. /\ target'[r] = [session |-> s, step |-> next'[s]]
          /\ reply'[r].kind = "ingestion_failed"
      BY <1>1, <1>3, <2>3 DEF Stops
    <3> QED
      BY <3>1 DEF Failed
  <2> QED
    BY <2>1, <2>2, <2>3 DEF Stops
<1>9. \A q \in Requests : target[q].session = s => Cached(q)'
  BY <1>3, <1>5 DEF IInv, Cached, Stops
<1>10. RepliesRepeat'
  BY <1>3 DEF IInv, RepliesRepeat, Stops
<1>11. DuplicatesExplained'
  <2> SUFFICES ASSUME NEW q \in Requests, reply'[q].kind = "duplicate"
               PROVE  \E f \in Requests : /\ target[f] = target[q]
                                          /\ reply'[f].kind = "ingestion_failed"
    BY DEF DuplicatesExplained, Stops
  <2>0. reply'[r].kind = kind
    BY <1>3
  <2>1. PICK f \in Requests : target[f] = target[q] /\ reply[f].kind = "ingestion_failed"
    <3>1. CASE q = r
      <4>1. kind = "duplicate" /\ target[q] = [session |-> s, step |-> k]
        BY <1>1, <2>0, <3>1
      <4> QED
        BY <4>1 DEF Failed
    <3>2. CASE q # r
      BY <1>3, <3>2 DEF IInv, DuplicatesExplained
    <3> QED
      BY <3>1, <3>2
  <2> QED
    BY <1>1, <1>3, <2>1
<1>12. ShowcaseInOrder'
  BY DEF IInv, ShowcaseInOrder, Stops
<1> QED
  BY <1>4, <1>5, <1>6, <1>7, <1>8, <1>9, <1>10, <1>11, <1>12, StepOnSession

LEMMA FailsKeeps ==
  ASSUME IInv, NEW r \in Requests, Fails(r)
  PROVE  IInv'
<1>1. PICK s, k : s = target[r].session /\ k = target[r].step
  OBVIOUS
<1>2. pc[r] \in Working
  BY DEF Fails, Working
<1>3. PICK kind : kind = IF pc[r] \in {"assessing", "answering"} THEN "assessment_failed"
                         ELSE "ingestion_failed"
  OBVIOUS
<1>4. Stops(r, s, kind)
  BY <1>1, <1>3 DEF Fails, Stops, Ends, Free
<1>5. kind = "assessment_failed" => k \in pending[s]
  <2>1. /\ s \in Sessions /\ k \in Indices /\ target[r] = [session |-> s, step |-> k]
        /\ Memory(s) /\ lock[s] = r /\ next[s] = k
    BY <1>1, <1>2, InSession, AtWork
  <2>2. r # None
    BY DemoAssumption
  <2> QED
    BY <1>3, <2>1, <2>2 DEF Memory
<1> QED
  BY <1>1, <1>2, <1>3, <1>4, <1>5, StopsKeeps

LEMMA ReceiveKeeps ==
  ASSUME IInv, NEW r \in Requests, Receive(r)
  PROVE  IInv'
<1>1. PICK s, k : s = target[r].session /\ k = target[r].step
  OBVIOUS
<1>2. pc[r] = "ingesting" /\ pc[r] \in Working
  BY DEF Receive, Working
<1>3. /\ s \in Sessions /\ k \in Indices /\ Memory(s) /\ lock[s] = r /\ next[s] = k
      /\ target[r] = [session |-> s, step |-> k]
  BY <1>1, <1>2, InSession, AtWork
<1>4. /\ pending[s] = {} /\ pending \in [Sessions -> SUBSET Indices]
      /\ k \notin pending[s] /\ r # None
  BY <1>2, <1>3, DemoAssumption DEF Memory, IInv, Typed, TypeOK
<1>5. CASE db[s][k] = "absent"
  <2>1. GoesOn(r, s, k, "normalizing", "received", {})
    BY <1>1, <1>3, <1>4, <1>5 DEF Receive, GoesOn
  <2> QED
    BY <1>1, <1>2, <2>1, GoesOnKeeps
<1>6. CASE db[s][k] # "absent"
  <2>1. Stops(r, s, "duplicate")
    BY <1>1, <1>6 DEF Receive, Stops, Ends, Free
  <2>2. Orphaned(s) /\ Alive(s)
    BY <1>2, <1>3, <1>4, <1>6 DEF Orphaned, Alive, Holds
  <2>3. Failed(s, k)
    BY <1>3, <2>2 DEF IInv, OrphansExplained
  <2> QED
    BY <1>1, <1>2, <2>1, <2>3, StopsKeeps
<1> QED
  BY <1>5, <1>6

LEMMA AnswerKeeps ==
  ASSUME IInv, NEW r \in Requests, Answer(r)
  PROVE  IInv'
<1>1. PICK s, k : s = target[r].session /\ k = target[r].step
  OBVIOUS
<1>2. pc[r] = "answering" /\ pc[r] \in Working
  BY DEF Answer, Working
<1>3. /\ s \in Sessions /\ k \in Indices /\ target[r] = [session |-> s, step |-> k]
      /\ reply[r].kind = "none" /\ Memory(s) /\ lock[s] = r /\ next[s] = k
  BY <1>1, <1>2, InSession, AtWork
<1>4. /\ pc' = [pc EXCEPT ![r] = "done"]
      /\ reply' = [reply EXCEPT ![r] = [kind |-> "ok", by |-> r]]
      /\ lock' = [lock EXCEPT ![s] = None]
      /\ next' = [next EXCEPT ![s] = k + 1]
      /\ responses' = [responses EXCEPT ![s] = [responses[s] EXCEPT ![k] = r]]
      /\ pending' = [pending EXCEPT ![s] = pending[s] \ {k}]
      /\ UNCHANGED <<registry, prepared, db, target>>
  BY <1>1, <1>3 DEF Answer, Ends, Free
<1>5. /\ pc \in [Requests -> Working \cup {"idle", "waiting", "done", "gone"}]
      /\ reply \in [Requests -> [kind : Kinds, by : Requests \cup {None}]]
      /\ next \in [Sessions -> 0 .. Steps] /\ Steps \in Nat
      /\ responses \in [Sessions -> [Indices -> Requests \cup {None}]]
      /\ pending \in [Sessions -> SUBSET Indices] /\ r # None
  BY DemoAssumption DEF IInv, Typed, TypeOK
<1>6. k \in Nat /\ k < Steps
  BY <1>3, <1>5 DEF Indices
<1>7. /\ pc'[r] = "done" /\ reply'[r] = [kind |-> "ok", by |-> r]
      /\ next'[s] = k + 1 /\ responses'[s][k] = r /\ pending'[s] = {}
      /\ \A i \in Indices \ {k} : responses'[s][i] = responses[s][i]
      /\ \A q \in Requests \ {r} : pc'[q] = pc[q] /\ reply'[q] = reply[q]
      /\ \A t \in Sessions \ {s} :
           next'[t] = next[t] /\ responses'[t] = responses[t] /\ pending'[t] = pending[t]
  <2>1. pending[s] \subseteq {k}
    BY <1>3, <1>5 DEF Memory
  <2> QED
    BY <1>3, <1>4, <1>5, <2>1
<1>8. /\ LockHeld' /\ lock' \in [Sessions -> Requests \cup {None}]
      /\ lock'[s] = None /\ \A t \in Sessions \ {s} : lock'[t] = lock[t]
  <2>1. /\ lock' \in [Sessions -> Requests \cup {None}]
        /\ lock'[s] = None /\ \A t \in Sessions \ {s} : lock'[t] = lock[t]
    BY <1>3, <1>4 DEF IInv, Typed, TypeOK
  <2>2. target' = target
    BY <1>4
  <2> QED
    BY <1>1, <1>2, <1>7, <2>1, <2>2, LockFreed
<1>9. OnSession(r, s, k) /\ Alive(s)
  BY <1>2, <1>3, <1>4, <1>7, <1>8 DEF OnSession, Alive, Holds
<1>10. Typed'
  <2>1. /\ pc' \in [Requests -> Working \cup {"idle", "waiting", "done", "gone"}]
        /\ reply' \in [Requests -> [kind : Kinds, by : Requests \cup {None}]]
    BY <1>4, <1>5 DEF Kinds
  <2>2. next' \in [Sessions -> 0 .. Steps]
    <3>1. k + 1 \in 0 .. Steps
      BY <1>5, <1>6
    <3> QED
      BY <1>4, <1>5, <3>1
  <2>3. responses' \in [Sessions -> [Indices -> Requests \cup {None}]]
    BY <1>3, <1>4, <1>5
  <2>4. pending' \in [Sessions -> SUBSET Indices]
    BY <1>3, <1>4, <1>5
  <2> QED
    BY <1>3, <1>4, <1>7, <1>8, <2>1, <2>2, <2>3, <2>4 DEF IInv, Typed, TypeOK
<1>11. db[s][k] = "assessed"
  BY <1>2, <1>3, <1>5 DEF Memory
<1>12. Memory(s)'
  <2>1. ASSUME NEW i \in Indices
        PROVE  /\ i < next'[s] <=> responses'[s][i] # None
               /\ i < next'[s] => db'[s][i] = "assessed"
               /\ i > next'[s] => db'[s][i] = "absent"
    <3>1. i \in Nat
      BY DEF Indices
    <3>2. CASE i = k
      BY <1>4, <1>5, <1>6, <1>7, <1>11, <3>2
    <3>3. CASE i # k
      BY <1>3, <1>4, <1>6, <1>7, <3>1, <3>3 DEF Memory
    <3> QED
      BY <3>2, <3>3
  <2> QED
    BY <1>7, <1>8, <2>1 DEF Memory
<1>13. ~Orphaned(s)'
  <2>1. next'[s] \in Indices => db'[s][next'[s]] = "absent"
    BY <1>3, <1>4, <1>6, <1>7 DEF Memory
  <2> QED
    BY <2>1 DEF Orphaned
<1>14. ASSUME NEW q \in Requests, target[q].session = s, reply'[q].kind = "ok"
       PROVE  /\ target[q].step < next'[s]
              /\ responses'[s][target[q].step] = reply'[q].by
              /\ target[q].step = k => q = r
  <2>1. CASE q = r
    BY <1>3, <1>6, <1>7, <2>1
  <2>2. CASE q # r
    <3>1. target[q].step < k /\ responses[s][target[q].step] = reply'[q].by
      BY <1>3, <1>7, <1>9, <1>14, <2>2 DEF IInv, Cached
    <3>2. target[q].step \in Nat
      BY <1>5 DEF IInv, Typed
    <3>3. target[q].step \in Indices
      BY <1>5, <1>6, <3>1, <3>2 DEF Indices
    <3> QED
      BY <1>6, <1>7, <3>1, <3>2, <3>3
  <2> QED
    BY <2>1, <2>2
<1>15. \A q \in Requests : target[q].session = s => Cached(q)'
  BY <1>4, <1>14 DEF Cached
<1>16. RepliesRepeat'
  <2> SUFFICES ASSUME NEW a \in Requests, NEW b \in Requests,
                      reply'[a].kind = "ok", reply'[b].kind = "ok", target[a] = target[b]
               PROVE  reply'[a].by = reply'[b].by
    BY <1>4 DEF RepliesRepeat
  <2>1. CASE target[a].session = s
    BY <1>14, <2>1
  <2>2. CASE target[a].session # s
    BY <1>3, <1>7, <2>2 DEF IInv, RepliesRepeat
  <2> QED
    BY <2>1, <2>2
<1>17. DuplicatesExplained'
  BY <1>3, <1>4, <1>7 DEF IInv, DuplicatesExplained
<1>18. ShowcaseInOrder'
  BY <1>4 DEF IInv, ShowcaseInOrder
<1> QED
  BY <1>8, <1>9, <1>10, <1>12, <1>13, <1>15, <1>16, <1>17, <1>18, StepOnSession

-----------------------------------------------------------------------------
(* Creation, registration, arrival and restart.                            *)

LEMMA CreationKeeps ==
  ASSUME IInv, NEW s \in Sessions,
         StartCreation(s) \/ PrepareBaseline(s) \/ CreationFails(s)
  PROVE  IInv'
<1>1. /\ prepared \in [Sessions -> {None} \cup 0 .. Baseline + 1]
      /\ Baseline \in Nat /\ None \notin Nat
  BY DemoAssumption DEF IInv, Typed, TypeOK
<1>2. PICK v \in 0 .. Baseline + 1 : prepared' = [prepared EXCEPT ![s] = v]
  BY <1>1 DEF StartCreation, PrepareBaseline, CreationFails
<1>3. /\ Fresh(s)
      /\ UNCHANGED <<registry, next, responses, pending, lock, db, pc, target, reply>>
  BY <1>1 DEF Fresh, StartCreation, PrepareBaseline, CreationFails
<1>4. /\ prepared' \in [Sessions -> {None} \cup 0 .. Baseline + 1]
      /\ \A t \in Sessions : Fresh(t)' => Fresh(t)
  BY <1>1, <1>2, <1>3 DEF Fresh
<1>5. \A t : (Alive(t)' <=> Alive(t)) /\ (Listed(t)' <=> Listed(t))
  BY <1>3 DEF Alive, Holds, Listed
<1>6. Typed'
  BY <1>3, <1>4 DEF IInv, Typed, TypeOK
<1>7. FreshUntouched'
  BY <1>3, <1>4, <1>5 DEF IInv, FreshUntouched
<1>8. LockHeld' /\ MemoryAlive' /\ OrphansExplained'
  BY <1>3, <1>5 DEF IInv, LockHeld, MemoryAlive, Memory, OrphansExplained, Orphaned, Failed
<1>9. \A q \in Requests : Cached(q)'
  BY <1>3, <1>5 DEF IInv, Cached
<1>10. RepliesRepeat' /\ DuplicatesExplained' /\ ShowcaseInOrder'
  BY <1>3 DEF IInv, RepliesRepeat, DuplicatesExplained, ShowcaseInOrder
<1> QED
  BY <1>6, <1>7, <1>8, <1>9, <1>10 DEF IInv

LEMMA RegisterKeeps ==
  ASSUME IInv, NEW s \in Sessions, Register(s)
  PROVE  IInv'
<1>1. /\ prepared \in [Sessions -> {None} \cup 0 .. Baseline + 1]
      /\ Baseline \in Nat /\ None \notin Nat
  BY DemoAssumption DEF IInv, Typed, TypeOK
<1>2. /\ prepared[s] = Baseline /\ prepared' = [prepared EXCEPT ![s] = Baseline + 1]
      /\ UNCHANGED <<next, responses, pending, lock, db, pc, target, reply>>
  BY DEF Register
<1>3. Fresh(s)
  BY <1>1, <1>2 DEF Fresh
<1>4. /\ ~Alive(s) /\ next[s] = 0 /\ pending[s] = {} /\ lock[s] = None
      /\ \A k \in Indices : responses[s][k] = None /\ db[s][k] = "absent"
      /\ \A r \in Requests : target[r].session = s => reply[r].kind # "ok"
  BY <1>3 DEF IInv, FreshUntouched
<1>5. /\ registry' \in Seq(Sessions) /\ Len(registry') <= MaxSessions
      /\ \A i, j \in DOMAIN registry' : registry'[i] = registry'[j] => i = j
      /\ \A t : Listed(t)' => Listed(t) \/ t = s
  BY <1>4, RegisterFacts DEF IInv, Alive
<1>6. /\ prepared' \in [Sessions -> {None} \cup 0 .. Baseline + 1]
      /\ \A t \in Sessions : Fresh(t)' => Fresh(t) /\ t # s
  BY <1>1, <1>2 DEF Fresh
<1>7. \A t : Alive(t)' => Alive(t) \/ t = s
  BY <1>2, <1>5 DEF Alive, Holds
<1>8. Typed'
  BY <1>2, <1>5, <1>6 DEF IInv, Typed, TypeOK
<1>9. FreshUntouched'
  BY <1>2, <1>6, <1>7 DEF IInv, FreshUntouched
<1>10. LockHeld'
  BY <1>2 DEF IInv, LockHeld
<1>11. MemoryAlive'
  <2>1. Memory(s)
    BY <1>4, DemoAssumption DEF Memory, Indices
  <2> SUFFICES ASSUME NEW t \in Sessions, Alive(t)' PROVE Memory(t)'
    BY DEF MemoryAlive
  <2>2. Memory(t)
    BY <1>7, <2>1 DEF IInv, MemoryAlive
  <2> QED
    BY <1>2, <2>2 DEF Memory
<1>12. OrphansExplained'
  <2>1. ~Orphaned(s)
    BY <1>4 DEF Orphaned
  <2> QED
    BY <1>2, <1>7, <2>1 DEF IInv, OrphansExplained, Orphaned, Failed
<1>13. \A q \in Requests : Cached(q)'
  BY <1>2, <1>4, <1>7 DEF IInv, Cached
<1>14. RepliesRepeat' /\ DuplicatesExplained' /\ ShowcaseInOrder'
  BY <1>2 DEF IInv, RepliesRepeat, DuplicatesExplained, ShowcaseInOrder
<1> QED
  BY <1>8, <1>9, <1>10, <1>11, <1>12, <1>13, <1>14 DEF IInv

LEMMA GetSessionKeeps ==
  ASSUME IInv, NEW r \in Requests, NEW s \in Sessions, NEW k \in 0 .. Steps,
         GetSession(r, s, k)
  PROVE  IInv'
<1>1. /\ pc \in [Requests -> Working \cup {"idle", "waiting", "done", "gone"}]
      /\ target \in [Requests -> [session : Sessions \cup {None}, step : 0 .. Steps]]
      /\ reply \in [Requests -> [kind : Kinds, by : Requests \cup {None}]]
  BY DEF IInv, Typed, TypeOK
<1>2. /\ pc[r] = "idle" /\ target' = [target EXCEPT ![r] = [session |-> s, step |-> k]]
      /\ UNCHANGED <<prepared, next, responses, pending, lock, db>>
  BY DEF GetSession
<1>3. reply[r].kind = "none" /\ pc[r] \notin Working
  BY <1>2 DEF IInv, Typed, Working
<1>4. /\ target'[r] = [session |-> s, step |-> k]
      /\ \A q \in Requests \ {r} : target'[q] = target[q]
  BY <1>1, <1>2
<1>5. \/ /\ Listed(s) /\ registry' = MovedToEnd(s)
         /\ pc' = [pc EXCEPT ![r] = "waiting"] /\ reply' = reply
      \/ /\ ~Listed(s) /\ pc' = [pc EXCEPT ![r] = "done"] /\ registry' = registry
         /\ reply' = [reply EXCEPT ![r] = [kind |-> "not_found", by |-> None]]
  BY DEF GetSession, Ends
<1>6. /\ \A q \in Requests \ {r} : pc'[q] = pc[q] /\ reply'[q] = reply[q]
      /\ reply'[r].kind \in {"none", "not_found"} /\ pc'[r] \notin Working
      /\ pc'[r] # "idle" /\ (pc'[r] # "done" => reply'[r].kind = "none")
      /\ pc'[r] = "waiting" => Listed(s)
  BY <1>1, <1>3, <1>5 DEF Working
<1>7. /\ pc' \in [Requests -> Working \cup {"idle", "waiting", "done", "gone"}]
      /\ target' \in [Requests -> [session : Sessions \cup {None}, step : 0 .. Steps]]
      /\ reply' \in [Requests -> [kind : Kinds, by : Requests \cup {None}]]
  <2>1. pc' \in [Requests -> Working \cup {"idle", "waiting", "done", "gone"}]
    BY <1>1, <1>5
  <2>2. target' \in [Requests -> [session : Sessions \cup {None}, step : 0 .. Steps]]
    BY <1>1, <1>2
  <2>3. reply' \in [Requests -> [kind : Kinds, by : Requests \cup {None}]]
    BY <1>1, <1>5 DEF Kinds
  <2> QED
    BY <2>1, <2>2, <2>3
<1>8. /\ registry' \in Seq(Sessions) /\ Len(registry') <= MaxSessions
      /\ \A i, j \in DOMAIN registry' : registry'[i] = registry'[j] => i = j
      /\ \A t : Listed(t)' <=> Listed(t)
  <2>1. CASE Listed(s) /\ registry' = MovedToEnd(s)
    <3>1. PICK m : m = MovedToEnd(s)
      OBVIOUS
    <3>2. /\ m \in Seq(Sessions) /\ Len(m) = Len(registry)
          /\ \A i, j \in DOMAIN m : m[i] = m[j] => i = j
          /\ \A t : (\E i \in DOMAIN m : m[i] = t) <=> Listed(t)
      BY <2>1, <3>1, MovedToEndFacts DEF IInv
    <3>3. registry' = m
      BY <2>1, <3>1
    <3> QED
      BY <3>2, <3>3 DEF IInv, Typed, TypeOK, Listed
  <2>2. CASE registry' = registry
    BY <2>2 DEF IInv, Typed, TypeOK, Listed
  <2> QED
    BY <1>5, <2>1, <2>2
<1>9. \A t : Alive(t)' => Alive(t)
  <2> SUFFICES ASSUME NEW t, Alive(t)' PROVE Alive(t)
    OBVIOUS
  <2>1. CASE Listed(t)'
    BY <1>8, <2>1 DEF Alive
  <2>2. ASSUME NEW q \in Requests, Holds(q, t)'
        PROVE  Alive(t)
    <3>1. CASE q = r
      BY <1>4, <1>6, <2>2, <3>1 DEF Alive, Holds
    <3>2. CASE q # r
      BY <1>4, <1>6, <2>2, <3>2 DEF Alive, Holds
    <3> QED
      BY <3>1, <3>2
  <2> QED
    BY <2>1, <2>2 DEF Alive
<1>10. ASSUME NEW t, NEW n, Failed(t, n)
       PROVE  \E q \in Requests : /\ target'[q] = [session |-> t, step |-> n]
                                  /\ reply'[q].kind = "ingestion_failed"
  <2>1. PICK q \in Requests : /\ target[q] = [session |-> t, step |-> n]
                              /\ reply[q].kind = "ingestion_failed"
    BY <1>10 DEF Failed
  <2>2. q # r
    BY <1>3, <2>1
  <2> QED
    BY <1>4, <1>6, <2>1, <2>2
<1>11. Typed'
  <2>1. ASSUME NEW q \in Requests
        PROVE  /\ pc'[q] # "idle" => target'[q].session \in Sessions
               /\ pc'[q] # "done" => reply'[q].kind = "none"
    <3>1. CASE q = r
      BY <1>4, <1>6, <3>1
    <3>2. CASE q # r
      BY <1>4, <1>6, <3>2 DEF IInv, Typed
    <3> QED
      BY <3>1, <3>2
  <2>2. \A q \in Requests : target'[q].session \in Sessions \cup {None}
    BY <1>7
  <2>3. TypeOK'
    BY <1>2, <1>7, <1>8, <2>2 DEF IInv, Typed, TypeOK
  <2> QED
    BY <1>7, <2>1, <2>3 DEF Typed
<1>12. FreshUntouched'
  <2> SUFFICES ASSUME NEW t \in Sessions, Fresh(t)'
               PROVE  /\ ~Alive(t)'
                      /\ next'[t] = 0 /\ pending'[t] = {} /\ lock'[t] = None
                      /\ \A x \in Indices : responses'[t][x] = None /\ db'[t][x] = "absent"
                      /\ \A q \in Requests : target'[q].session = t => reply'[q].kind # "ok"
    BY DEF FreshUntouched
  <2>1. Fresh(t)
    BY <1>2 DEF Fresh
  <2>2. ~Alive(t)'
    BY <1>9, <2>1 DEF IInv, FreshUntouched
  <2>3. \A q \in Requests : target'[q].session = t => reply'[q].kind # "ok"
    BY <1>4, <1>6, <2>1 DEF IInv, FreshUntouched
  <2> QED
    BY <1>2, <2>1, <2>2, <2>3 DEF IInv, FreshUntouched
<1>13. LockHeld'
  <2>1. \A q \in Requests : pc'[q] \in Working =>
          /\ lock'[target'[q].session] = q
          /\ target'[q].step = next'[target'[q].session] /\ target'[q].step \in Indices
    BY <1>2, <1>4, <1>6 DEF IInv, LockHeld
  <2>2. ASSUME NEW t \in Sessions, lock'[t] # None
        PROVE  pc'[lock'[t]] \in Working /\ target'[lock'[t]].session = t
    <3>1. lock'[t] = lock[t] /\ lock[t] \in Requests
      BY <1>2, <2>2 DEF IInv, Typed, TypeOK
    <3>2. pc[lock[t]] \in Working /\ target[lock[t]].session = t
      BY <2>2, <3>1 DEF IInv, LockHeld
    <3>3. lock[t] # r
      BY <1>3, <3>2
    <3> QED
      BY <1>4, <1>6, <3>1, <3>2, <3>3
  <2> QED
    BY <2>1, <2>2 DEF LockHeld
<1>14. ASSUME NEW t \in Sessions
       PROVE  lock[t] # None => pc'[lock[t]] = pc[lock[t]]
  BY <1>3, <1>6 DEF IInv, LockHeld, Typed, TypeOK
<1>15. MemoryAlive'
  <2> SUFFICES ASSUME NEW t \in Sessions, Alive(t)' PROVE Memory(t)'
    BY DEF MemoryAlive
  <2>1. Memory(t)
    BY <1>9 DEF IInv, MemoryAlive
  <2> QED
    BY <1>2, <1>14, <2>1 DEF Memory
<1>16. OrphansExplained'
  <2> SUFFICES ASSUME NEW t \in Sessions, Alive(t)', Orphaned(t)'
               PROVE  Failed(t, next[t])'
    BY DEF OrphansExplained
  <2>1. Orphaned(t)
    BY <1>2, <1>14 DEF Orphaned
  <2>2. Failed(t, next[t])
    BY <1>9, <2>1 DEF IInv, OrphansExplained
  <2> QED
    BY <1>2, <1>10, <2>2 DEF Failed
<1>17. ASSUME NEW q \in Requests
       PROVE  Cached(q)'
  <2>1. CASE q = r
    BY <1>6, <2>1 DEF Cached
  <2>2. CASE q # r
    BY <1>2, <1>4, <1>6, <1>9, <2>2 DEF IInv, Cached
  <2> QED
    BY <2>1, <2>2
<1>18. RepliesRepeat'
  BY <1>4, <1>6 DEF IInv, RepliesRepeat
<1>19. DuplicatesExplained'
  <2> SUFFICES ASSUME NEW q \in Requests, reply'[q].kind = "duplicate"
               PROVE  \E f \in Requests : /\ target'[f] = target'[q]
                                          /\ reply'[f].kind = "ingestion_failed"
    BY DEF DuplicatesExplained
  <2>1. q # r
    BY <1>6
  <2>2. PICK f \in Requests : target[f] = target[q] /\ reply[f].kind = "ingestion_failed"
    BY <1>6, <2>1 DEF IInv, DuplicatesExplained
  <2>3. f # r
    BY <1>3, <2>2
  <2> QED
    BY <1>4, <1>6, <2>1, <2>2, <2>3
<1>20. ShowcaseInOrder'
  BY <1>2 DEF IInv, ShowcaseInOrder
<1> QED
  BY <1>11, <1>12, <1>13, <1>15, <1>16, <1>17, <1>18, <1>19, <1>20 DEF IInv

LEMMA RestartKeeps ==
  ASSUME IInv, Restart
  PROVE  IInv'
<1>1. /\ registry' = <<>>
      /\ prepared' = [s \in Sessions |-> IF prepared[s] = None THEN None ELSE Baseline + 1]
      /\ next' = [s \in Sessions |-> 0]
      /\ responses' = [s \in Sessions |-> [k \in Indices |-> None]]
      /\ pending' = [s \in Sessions |-> {}]
      /\ lock' = [s \in Sessions |-> None]
      /\ pc' = [q \in Requests |-> IF pc[q] \in {"idle", "done"} THEN pc[q] ELSE "gone"]
      /\ UNCHANGED <<db, target, reply>>
  BY DEF Restart
<1>2. \A q \in Requests : /\ pc'[q] \in {"idle", "done", "gone"}
                          /\ pc'[q] = "idle" <=> pc[q] = "idle"
                          /\ pc'[q] = "done" <=> pc[q] = "done"
                          /\ pc'[q] \notin Working \cup {"waiting"}
  BY <1>1 DEF Working
<1>3. \A t : ~Alive(t)'
  BY <1>1, <1>2 DEF Alive, Holds, Listed
<1>4. /\ MaxSessions \in Nat /\ Steps \in Nat /\ Baseline \in Nat /\ None \notin Nat
  BY DemoAssumption
<1>5. Typed'
  <2>1. /\ registry' \in Seq(Sessions) /\ Len(registry') <= MaxSessions
        /\ \A i, j \in DOMAIN registry' : registry'[i] = registry'[j] => i = j
    BY <1>1, <1>4
  <2>2. /\ prepared' \in [Sessions -> {None} \cup 0 .. Baseline + 1]
        /\ next' \in [Sessions -> 0 .. Steps]
        /\ responses' \in [Sessions -> [Indices -> Requests \cup {None}]]
        /\ pending' \in [Sessions -> SUBSET Indices]
        /\ lock' \in [Sessions -> Requests \cup {None}]
        /\ pc' \in [Requests -> Working \cup {"idle", "waiting", "done", "gone"}]
    BY <1>1, <1>4
  <2> QED
    BY <1>1, <1>2, <2>1, <2>2 DEF IInv, Typed, TypeOK
<1>6. FreshUntouched'
  <2>1. ASSUME NEW t \in Sessions, Fresh(t)'
        PROVE  Fresh(t)
    BY <1>1, <1>4, <2>1 DEF Fresh
  <2> QED
    BY <1>1, <1>3, <2>1 DEF IInv, FreshUntouched
<1>7. LockHeld'
  BY <1>1, <1>2 DEF LockHeld
<1>8. MemoryAlive' /\ OrphansExplained'
  BY <1>3 DEF MemoryAlive, OrphansExplained
<1>9. \A q \in Requests : Cached(q)'
  BY <1>3 DEF Cached
<1>10. RepliesRepeat' /\ DuplicatesExplained' /\ ShowcaseInOrder'
  BY <1>1 DEF IInv, RepliesRepeat, DuplicatesExplained, ShowcaseInOrder
<1> QED
  BY <1>5, <1>6, <1>7, <1>8, <1>9, <1>10 DEF IInv

-----------------------------------------------------------------------------
(* The theorems.                                                           *)

LEMMA InitIInv == Init => IInv
<1> SUFFICES ASSUME Init PROVE IInv
  OBVIOUS
<1>1. MaxSessions \in Nat /\ Steps \in Nat /\ Baseline \in Nat /\ None \notin Nat
  BY DemoAssumption
<1>2. \A t : ~Alive(t)
  BY DEF Init, Alive, Holds, Listed, Working
<1>3. Typed
  <2>1. /\ registry \in Seq(Sessions) /\ Len(registry) <= MaxSessions
        /\ \A i, j \in DOMAIN registry : registry[i] = registry[j] => i = j
    BY <1>1 DEF Init
  <2> QED
    BY <1>1, <2>1 DEF Init, Typed, TypeOK, Kinds
<1>4. FreshUntouched
  BY <1>2 DEF Init, FreshUntouched
<1>5. LockHeld /\ MemoryAlive /\ OrphansExplained
  BY <1>2 DEF Init, LockHeld, MemoryAlive, OrphansExplained, Working
<1>6. \A q \in Requests : Cached(q)
  BY <1>2 DEF Cached
<1>7. RepliesRepeat /\ DuplicatesExplained /\ ShowcaseInOrder
  BY DEF Init, RepliesRepeat, DuplicatesExplained, ShowcaseInOrder
<1> QED
  BY <1>3, <1>4, <1>5, <1>6, <1>7 DEF IInv

LEMMA StutterKeeps == IInv /\ UNCHANGED vars => IInv'
<1> SUFFICES ASSUME IInv, UNCHANGED vars PROVE IInv'
  OBVIOUS
<1>1. UNCHANGED <<registry, prepared, next, responses, pending, lock, db, pc, target, reply>>
  BY DEF vars
<1>2. \A t : Alive(t)' <=> Alive(t)
  BY <1>1 DEF Alive, Holds, Listed
<1>3. Typed'
  BY <1>1 DEF IInv, Typed, TypeOK
<1>4. FreshUntouched'
  BY <1>1, <1>2 DEF IInv, FreshUntouched, Fresh
<1>5. LockHeld' /\ MemoryAlive' /\ OrphansExplained'
  BY <1>1, <1>2 DEF IInv, LockHeld, MemoryAlive, Memory, OrphansExplained, Orphaned, Failed
<1>6. \A q \in Requests : Cached(q)'
  BY <1>1, <1>2 DEF IInv, Cached
<1>7. RepliesRepeat' /\ DuplicatesExplained' /\ ShowcaseInOrder'
  BY <1>1 DEF IInv, RepliesRepeat, DuplicatesExplained, ShowcaseInOrder
<1> QED
  BY <1>3, <1>4, <1>5, <1>6, <1>7 DEF IInv

LEMMA NextKeeps == IInv /\ [Next]_vars => IInv'
<1> SUFFICES ASSUME IInv, [Next]_vars PROVE IInv'
  OBVIOUS
<1>1. ASSUME NEW s \in Sessions,
             StartCreation(s) \/ PrepareBaseline(s) \/ CreationFails(s)
      PROVE  IInv'
  BY <1>1, CreationKeeps
<1>2. ASSUME NEW s \in Sessions, Register(s)
      PROVE  IInv'
  BY <1>2, RegisterKeeps
<1>3. ASSUME NEW r \in Requests, NEW s \in Sessions, NEW k \in 0 .. Steps, GetSession(r, s, k)
      PROVE  IInv'
  BY <1>3, GetSessionKeeps
<1>4. ASSUME NEW r \in Requests, StepRequest(r)
      PROVE  IInv'
  <2>1. \/ AnswerAtOnce(r) \/ TakeLock(r) \/ Receive(r) \/ Normalize(r)
        \/ KeepPending(r) \/ Assess(r) \/ Answer(r)
    BY <1>4 DEF StepRequest
  <2> QED
    BY <2>1, AnswerAtOnceKeeps, TakeLockKeeps, ReceiveKeeps, NormalizeKeeps,
       KeepPendingKeeps, AssessKeeps, AnswerKeeps
<1>5. ASSUME NEW r \in Requests, Fails(r)
      PROVE  IInv'
  BY <1>5, FailsKeeps
<1>6. CASE Restart
  BY <1>6, RestartKeeps
<1>7. CASE UNCHANGED vars
  BY <1>7, StutterKeeps
<1> QED
  BY <1>1, <1>2, <1>3, <1>4, <1>5, <1>6, <1>7 DEF Next

LEMMA Invariance == Spec => []IInv
BY InitIInv, NextKeeps, PTL DEF Spec

(* The registry never outgrows MAX_DEMO_SESSIONS and lists no session      *)
(* twice; every variable has its type.                                     *)
THEOREM TypeCorrect == Spec => []TypeOK
<1>1. IInv => TypeOK
  BY DEF IInv, Typed
<1> QED
  BY <1>1, Invariance, PTL

(* An event of the showcase reaches the database only after every earlier  *)
(* event of its session was assessed.                                      *)
THEOREM InOrder == Spec => []ShowcaseInOrder
<1>1. IInv => ShowcaseInOrder
  BY DEF IInv
<1> QED
  BY <1>1, Invariance, PTL

(* A step answered twice is answered the same (the cached response).       *)
THEOREM SameReplies == Spec => []RepliesRepeat
<1>1. IInv => RepliesRepeat
  BY DEF IInv
<1> QED
  BY <1>1, Invariance, PTL

(* The in-memory progress of a session at rest agrees with the database.   *)
THEOREM MemoryIsTrue == Spec => []MemoryMatchesDatabase
<1>1. IInv => MemoryMatchesDatabase
  <2> SUFFICES ASSUME IInv, NEW s \in Sessions, Listed(s), lock[s] = None
               PROVE  \A k \in Indices :
                        /\ k < next[s] <=> responses[s][k] # None
                        /\ k < next[s] => db[s][k] = "assessed"
                        /\ k > next[s] => db[s][k] = "absent"
                        /\ k \in pending[s] =>
                             k = next[s] /\ db[s][k] \in {"ingested", "assessed"}
    BY DEF MemoryMatchesDatabase
  <2> QED
    BY DEF IInv, MemoryAlive, Alive, Memory
<1> QED
  BY <1>1, Invariance, PTL

(* An event is sent twice only after an attempt that failed in ingestion.  *)
THEOREM NoNeedlessDuplicates == Spec => []DuplicatesExplained
<1>1. IInv => DuplicatesExplained
  BY DEF IInv
<1> QED
  BY <1>1, Invariance, PTL

=============================================================================
