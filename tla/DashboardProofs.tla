--------------------------- MODULE DashboardProofs ---------------------------
(***************************************************************************)
(* Proofs about the operations page and its demo console, for any finite   *)
(* set of payments, any page size, any graph of identities and any number  *)
(* of user actions, failures and sessions.                                 *)
(***************************************************************************)
EXTENDS DemoConsole, FiniteSetTheorems, NaturalsInduction, SequenceTheorems, TLAPS

-----------------------------------------------------------------------------
(* The helpers of the page.                                                *)

LEMMA MinOfPair ==
  ASSUME NEW a \in Nat, NEW b \in Nat
  PROVE  /\ Min({a, b}) = IF a =< b THEN a ELSE b
         /\ Min({a, b}) \in Nat
  <1>1. CASE a =< b
    <2>1. \A x \in {a, b} : (\A y \in {a, b} : x =< y) => x = a
      BY <1>1
    <2>2. \E x \in {a, b} : \A y \in {a, b} : x =< y
      BY <1>1
    <2> QED
      BY <1>1, <2>1, <2>2 DEF Min
  <1>2. CASE ~(a =< b)
    <2>1. \A x \in {a, b} : (\A y \in {a, b} : x =< y) => x = b
      BY <1>2
    <2>2. \E x \in {a, b} : \A y \in {a, b} : x =< y
      BY <1>2
    <2> QED
      BY <1>2, <2>1, <2>2 DEF Min
  <1> QED
    BY <1>1, <1>2

LEMMA MinOfNaturals ==
  ASSUME NEW S \in SUBSET Nat, S # {}
  PROVE  Min(S) \in S
  <1>1. PICK x \in S : \A y \in S : ~(<<y, x>> \in OpToRel(<, Nat))
    BY NatLessThanWellFounded, WFMin
  <1>2. \A y \in S : x =< y
    <2> SUFFICES ASSUME NEW y \in S, y < x
                 PROVE  FALSE
      OBVIOUS
    <2>1. <<y, x>> \in OpToRel(<, Nat)
      BY DEF OpToRel
    <2> QED
      BY <1>1, <2>1
  <1> QED
    BY <1>2 DEF Min

LEMMA ProperSubsetIsSmaller ==
  ASSUME NEW S, IsFiniteSet(S), NEW T, T \subseteq S, T # S
  PROVE  Cardinality(T) # Cardinality(S)
  <1>1. T \in SUBSET S
    OBVIOUS
  <1> QED
    BY <1>1, FS_Subset

LEMMA InjectionIntoAsMany ==
  ASSUME NEW S, NEW T, NEW f \in Injection(S, T), IsFiniteSet(T),
         Cardinality(S) = Cardinality(T), NEW y \in T
  PROVE  \E x \in S : f[x] = y
  <1>1. f \in Surjection(S, T)
    BY FS_Injection
  <1> QED
    BY <1>1 DEF Surjection

(* A page of the newest payments: distinct ones, all from the set asked    *)
(* for.  The payment at position k is the one with k - 1 newer ones; it    *)
(* exists because the number of newer ones is an injection of the set into *)
(* as many naturals.                                                       *)
LEMMA NewestPage ==
  ASSUME NEW ts \in SUBSET Tx
  PROVE  LET n == Min({Cardinality(ts), PageSize})
         IN  /\ n \in Nat /\ n =< PageSize
             /\ Newest(ts) \in [1 .. n -> ts]
             /\ \A j, k \in 1 .. n : Newest(ts)[j] = Newest(ts)[k] => j = k
  <1> DEFINE n == Min({Cardinality(ts), PageSize})
             c == Cardinality(ts)
             Newer(t) == {u \in ts : u > t}
             rank == [t \in ts |-> Cardinality(Newer(t))]
  <1>1. IsFiniteSet(ts) /\ c \in Nat /\ ts \subseteq Nat
    BY DashboardAssumption, FS_Subset, FS_CardinalityType
  <1>2. PageSize \in Nat \ {0}
    BY DashboardAssumption
  <1>3. n \in Nat /\ n =< PageSize /\ n =< c
    BY <1>1, <1>2, MinOfPair
  <1>4. \A t \in ts : /\ IsFiniteSet(Newer(t)) /\ Newer(t) \subseteq ts
                      /\ Cardinality(Newer(t)) \in 0 .. c - 1
    <2> SUFFICES ASSUME NEW t \in ts
                 PROVE  /\ IsFiniteSet(Newer(t)) /\ Newer(t) \subseteq ts
                        /\ Cardinality(Newer(t)) \in 0 .. c - 1
      OBVIOUS
    <2>1. Newer(t) \in SUBSET ts /\ t \notin Newer(t)
      BY <1>1
    <2>2. IsFiniteSet(Newer(t)) /\ Cardinality(Newer(t)) =< c /\ Cardinality(Newer(t)) # c
      BY <1>1, <2>1, FS_Subset
    <2>3. Cardinality(Newer(t)) \in Nat
      BY <2>2, FS_CardinalityType
    <2> QED
      BY <1>1, <2>1, <2>2, <2>3
  <1>5. \A t, u \in ts : rank[t] = rank[u] => t = u
    <2>1. \A t, u \in ts : t < u => Cardinality(Newer(u)) # Cardinality(Newer(t))
      <3> SUFFICES ASSUME NEW t \in ts, NEW u \in ts, t < u
                   PROVE  Cardinality(Newer(u)) # Cardinality(Newer(t))
        OBVIOUS
      <3>1. Newer(u) \in SUBSET Newer(t) /\ u \in Newer(t) /\ u \notin Newer(u)
        <4>1. t \in Nat /\ u \in Nat /\ u > t /\ ~(u > u)
          BY <1>1
        <4>2. \A v \in ts : v > u => v > t
          BY <1>1, <4>1
        <4> QED
          BY <4>1, <4>2
      <3>2. Newer(u) # Newer(t) /\ IsFiniteSet(Newer(t))
        BY <1>4, <3>1
      <3> HIDE DEF Newer
      <3> QED
        BY <3>1, <3>2, ProperSubsetIsSmaller
    <2> QED
      BY <1>1, <2>1
  <1>6. rank \in Injection(ts, 0 .. c - 1)
    BY <1>4, <1>5 DEF Injection, IsInjective
  <1>7. IsFiniteSet(0 .. c - 1) /\ Cardinality(0 .. c - 1) = c
    <2>1. 0 \in Int /\ c - 1 \in Int /\ (0 > c - 1 => c = 0)
      BY <1>1
    <2> HIDE DEF c
    <2> QED
      BY <1>1, <2>1, FS_Interval
  <1>8. \A k \in 1 .. n : \E t \in ts : Cardinality(Newer(t)) = k - 1
    <2> SUFFICES ASSUME NEW k \in 1 .. n
                 PROVE  \E t \in ts : Cardinality(Newer(t)) = k - 1
      OBVIOUS
    <2>1. k - 1 \in 0 .. c - 1
      BY <1>1, <1>3
    <2>2. PICK t \in ts : rank[t] = k - 1
      <3> DEFINE ranks == 0 .. c - 1
                 y == k - 1
      <3>1. /\ rank \in Injection(ts, ranks) /\ IsFiniteSet(ranks) /\ y \in ranks
            /\ Cardinality(ts) = Cardinality(ranks)
        BY <1>6, <1>7, <2>1
      <3> HIDE DEF rank, ranks
      <3>2. \E t \in ts : rank[t] = y
        <4> HIDE DEF y
        <4> QED
          BY <3>1, InjectionIntoAsMany
      <3> QED
        BY <3>2
    <2> QED
      BY <2>2
  <1>9. Newest(ts) = [k \in 1 .. n |-> CHOOSE t \in ts : Cardinality(Newer(t)) = k - 1]
    BY DEF Newest
  <1>10. \A k \in 1 .. n : /\ Newest(ts)[k] \in ts
                           /\ Cardinality(Newer(Newest(ts)[k])) = k - 1
    BY <1>8, <1>9
  <1> HIDE DEF n, Newer
  <1>11. \A j, k \in 1 .. n : Newest(ts)[j] = Newest(ts)[k] => j = k
    BY <1>3, <1>10
  <1>12. Newest(ts) \in [1 .. n -> ts]
    BY <1>9, <1>10
  <1> QED
    BY <1>3, <1>11, <1>12 DEF n

-----------------------------------------------------------------------------
(* The inductive invariant.                                                *)

(* Types, stronger than TypeOK for timers, calls and the demo's session.   *)
(* Only the demo keeps a retired call, and the demo loads queues alone.    *)
ListCalls == [loader : {"list"}, arg : Actions \cup {None},
              preferred : Tx \cup {None}, by : {"page", "demo"},
              fresh : BOOLEAN]
PaneCalls(l, args) == [loader : {l}, arg : args, preferred : {None},
                       by : {"page"}, fresh : {TRUE}]
Calls == ListCalls \cup PaneCalls("selection", Tx)
                   \cup PaneCalls("entity", Entities)

PageTypes ==
  /\ stored \in [Tx -> Actions \cup {Absent, Pending}]
  /\ filter \in Actions \cup {None} /\ asked \in Actions \cup {None}
  /\ selectedId \in Tx \cup {None}
  /\ override \in Row \cup {None} /\ overrideRef = override
  /\ report \in Tx \cup {None} /\ graph \in Tx \cup {None}
  /\ path \in Seq(Entities) /\ Len(path) =< MaxPath
  /\ entityData \in Entities \cup {None}
  /\ errors \subseteq Panes /\ loading \subseteq Loaders /\ due \subseteq Loaders

RowsDistinct ==
  /\ rows \in Seq(Row) /\ Len(rows) =< PageSize
  /\ \A i, j \in 1 .. Len(rows) : rows[i].id = rows[j].id => i = j

TimersTyped ==
  /\ DOMAIN timer = Loaders
  /\ \A l \in Loaders : timer[l] \in Closures[l] \cup {None}

CallsTyped ==
  /\ calls \subseteq Calls
  /\ \A c, d \in calls : c.loader = d.loader /\ c.fresh /\ d.fresh => c = d

ConsoleTypes ==
  /\ served \in [Sessions -> 0 .. Total \cup {None, Gone}]
  /\ phase \in Phases /\ session \in Sessions \cup {None}
  /\ expected \in 0 .. Total /\ latest \in 1 .. Total \cup {None}
  /\ demoSession \in [id : Sessions, next : 0 .. Total] \cup {None}

Live(l) == {c \in calls : c.loader = l /\ c.fresh}

(* The selected payment has a row to show.                                 *)
SelectionListed ==
  selectedId # None =>
    \/ selectedId \in Ids(rows)
    \/ override # None /\ override.id = selectedId

(* Once the effect of the last render has run, what is set to load, what   *)
(* is loading and what is shown are all about the row selected now.        *)
SelectionCurrent ==
  "selection" \notin due =>
    /\ timer["selection"] \in {None, [row |-> selected]}
    /\ \A c \in Live("selection") : c.arg = selectedId /\ Assessed(selected)
    /\ SelectionAgrees

EntityCurrent ==
  "entity" \notin due =>
    /\ timer["entity"] \in {None, [entity |-> activeEntity]}
    /\ \A c \in Live("entity") : c.arg = activeEntity
    /\ EntityAgrees

(* The queue: what was asked last is the filter, or everything if the demo *)
(* asked; the call under way asks for it, and rows match it.               *)
QueueCurrent ==
  /\ \A c \in Live("list") : c.arg = asked
  /\ "list" \notin due =>
       /\ timer["list"] \in {None, [filter |-> filter]}
       /\ timer["list"] = None =>
            asked = filter \/ (asked = None /\ demoSession # None)
  /\ Settled("list") /\ "queue" \notin errors =>
       \A i \in 1 .. Len(rows) : asked \in {None, rows[i].action}

(* The run of the console: its session is the one on display and its step  *)
(* the one displayed; the backend has done that step and perhaps the next. *)
Running == {"preparing", "stepping", "refreshing", "waiting"}
Done == served[demoSession.id]

RunOnDisplay ==
  /\ phase \in {"idle", "creating"} => session = None /\ expected = 0
  /\ phase \in Running => /\ demoSession # None
                          /\ session = demoSession.id
                          /\ expected = demoSession.next
  /\ phase = "stepping" => expected < Total
  /\ phase = "creating" => latest = None

DisplayServed ==
  demoSession # None =>
    /\ Done # None
    /\ Done # Gone => Done - demoSession.next \in {0, 1}
    /\ latest \in {None, demoSession.next}
    /\ status = "complete" => demoSession.next = Total

ReplyTrue ==
  /\ phase \notin {"creating", "stepping"} => reply = None
  /\ phase = "creating" =>
       /\ reply \in Sessions \cup {Failed, None}
       /\ reply \in Sessions => served[reply] \in {0, Gone}
  /\ phase = "stepping" =>
       /\ reply \in {expected + 1, Failed, None}
       /\ reply = expected + 1 => Done \in {expected + 1, Gone}

(* The demo awaits at most one reload, and only in these two phases.       *)
DemoCalls ==
  /\ \A c \in calls : c.by = "demo" => phase \in {"preparing", "refreshing"}
  /\ \A c, d \in calls : c.by = "demo" /\ d.by = "demo" => c = d

PageInv == /\ PageTypes /\ RowsDistinct /\ TimersTyped /\ CallsTyped
           /\ SelectionListed /\ SelectionCurrent /\ EntityCurrent
ConsoleInv == ConsoleTypes /\ RunOnDisplay /\ DisplayServed /\ ReplyTrue /\ DemoCalls
IInv == PageInv /\ QueueCurrent /\ ConsoleInv

-----------------------------------------------------------------------------
(* What the operations on calls do to the calls whose answers count.       *)

LEMMA CallFields ==
  ASSUME CallsTyped, NEW c \in calls
  PROVE  /\ c \in Calls /\ c.loader \in Loaders /\ c.by \in {"page", "demo"}
         /\ c.loader = "list" => /\ c.arg \in Actions \cup {None}
                                 /\ c.preferred \in Tx \cup {None}
         /\ c.loader = "selection" => c.arg \in Tx /\ c.by = "page"
         /\ c.loader = "entity" => c.arg \in Entities /\ c.by = "page"
         /\ ~c.fresh => c.loader = "list"
  BY DEF CallsTyped, Calls, ListCalls, PaneCalls, Loaders

LEMMA RetiredCalls ==
  ASSUME CallsTyped, NEW l \in Loaders
  PROVE  /\ Retired(l, calls) \subseteq Calls
         /\ \A m \in Loaders : {c \in Retired(l, calls) : c.loader = m /\ c.fresh}
                                 = IF m = l THEN {} ELSE Live(m)
         /\ \A c, d \in Retired(l, calls) :
              c.loader = d.loader /\ c.fresh /\ d.fresh => c = d
  <1> DEFINE R == Retired(l, calls)
             off(d) == [d EXCEPT !.fresh = FALSE]
  <1>1. \A d \in calls : d.loader = l /\ d.by = "demo" =>
          off(d) \in Calls /\ off(d).loader = l /\ off(d).fresh = FALSE
    BY DEF CallsTyped, Calls, ListCalls, PaneCalls
  <1>2. \A c \in R : \/ c \in calls /\ c.loader # l
                     \/ \E d \in calls : d.loader = l /\ d.by = "demo" /\ c = off(d)
    BY DEF Retired
  <1>3. \A c \in calls : c.loader # l => c \in R
    BY DEF Retired
  <1> HIDE DEF R, off
  <1>4. R \subseteq Calls
    BY <1>1, <1>2 DEF CallsTyped
  <1>5. \A c \in R : c.fresh => c \in calls /\ c.loader # l
    BY <1>1, <1>2
  <1>6. \A m \in Loaders : {c \in R : c.loader = m /\ c.fresh}
                             = IF m = l THEN {} ELSE Live(m)
    BY <1>3, <1>5 DEF Live
  <1>7. \A c, d \in R : c.loader = d.loader /\ c.fresh /\ d.fresh => c = d
    BY <1>5 DEF CallsTyped
  <1> QED
    BY <1>4, <1>6, <1>7 DEF R

LEMMA SettledLive ==
  ASSUME NEW l
  PROVE  Settled(l) <=> l \notin due /\ timer[l] = None /\ Live(l) = {}
  BY DEF Settled, Live

(* A new call of a loader is its only live one.                            *)
LEMMA StartedCalls ==
  ASSUME CallsTyped, NEW l \in Loaders, NEW c \in Calls, c.loader = l, c.fresh,
         calls' = Retired(l, calls) \cup {c}
  PROVE  /\ CallsTyped'
         /\ \A m \in Loaders : Live(m)' = IF m = l THEN {c} ELSE Live(m)
  <1>1. /\ Retired(l, calls) \subseteq Calls
        /\ \A m \in Loaders : {d \in Retired(l, calls) : d.loader = m /\ d.fresh}
                                = IF m = l THEN {} ELSE Live(m)
        /\ \A d, e \in Retired(l, calls) :
             d.loader = e.loader /\ d.fresh /\ e.fresh => d = e
    BY RetiredCalls
  <1>2. \A d \in Retired(l, calls) : d.fresh => d.loader # l
    BY <1>1
  <1>3. Calls' = Calls
    BY DEF Calls, ListCalls, PaneCalls
  <1>4. CallsTyped'
    BY <1>1, <1>2, <1>3 DEF CallsTyped
  <1>5. \A m \in Loaders : Live(m)' = IF m = l THEN {c} ELSE Live(m)
    BY <1>1 DEF Live
  <1> QED
    BY <1>4, <1>5

LEMMA StoppedCalls ==
  ASSUME CallsTyped, NEW l \in Loaders, calls' = Retired(l, calls)
  PROVE  /\ CallsTyped'
         /\ \A m \in Loaders : Live(m)' = IF m = l THEN {} ELSE Live(m)
  <1>1. Calls' = Calls
    BY DEF Calls, ListCalls, PaneCalls
  <1> QED
    BY <1>1, RetiredCalls DEF CallsTyped, Live

LEMMA SettledCalls ==
  ASSUME CallsTyped, NEW c \in calls, calls' = calls \ {c}
  PROVE  /\ CallsTyped'
         /\ ~c.fresh => \A m \in Loaders : Live(m)' = Live(m)
         /\ c.fresh => \A m \in Loaders :
                         Live(m)' = IF m = c.loader THEN {} ELSE Live(m)
  <1>1. CallsTyped'
    BY DEF CallsTyped, Calls, ListCalls, PaneCalls
  <1>2. \A m \in Loaders : Live(m)' = Live(m) \ {c}
    BY DEF Live
  <1>3. c.fresh => Live(c.loader) = {c}
    BY DEF Live, CallsTyped
  <1>4. \A m : c \in Live(m) => c.fresh /\ m = c.loader
    BY DEF Live
  <1> QED
    BY <1>1, <1>2, <1>3, <1>4

-----------------------------------------------------------------------------
(* The steps, sorted by what they change.                                  *)

Arrival(c) == \E failed \in SUBSET Panes :
  ListArrives(c, failed) \/ SelectionArrives(c, failed) \/ EntityArrives(c, failed)

DemoOnly == ServeCreate \/ ServeStep \/ AnswerFails \/ WaitOver \/ RetryDemo
              \/ \E s \in Sessions : SessionLost(s)

LEMMA StepCases ==
  ASSUME Next
  PROVE  \/ \E l \in Loaders : RunEffect(l) \/ Fire(l)
         \/ \E c \in calls : DropStale(c) \/ Arrival(c)
         \/ \E f \in Actions \cup {None} : ChooseFilter(f)
         \/ \E t \in Tx : SelectRow(t)
         \/ \E t \in Tx : Investigate(t)
         \/ Refresh \/ RetrySelection \/ Close \/ RetryEntity
         \/ \E e \in Entities : Explore(e)
         \/ \E n \in 1 .. MaxPath - 1 : Shorten(n)
         \/ \E t \in Tx : AssessedElsewhere(t)
         \/ StartDemo \/ Created \/ Stepped
         \/ DemoOnly
  <1>1. CASE Unattended
    <2>1. \A c : Arrives(c) => DropStale(c) \/ Arrival(c)
      BY DEF Arrives, Arrival
    <2>2. \A c : Reloaded(c) => Arrives(c)
      BY DEF Reloaded
    <2> QED
      BY <1>1, <2>1, <2>2, Zenon DEF Unattended, DemoOnly
  <1>2. CASE UserActs
    BY <1>2, Zenon DEF UserActs
  <1> QED
    BY <1>1, <1>2, Zenon DEF Next, DemoOnly

(* The same, with what the console does meanwhile.                         *)
LEMMA ConsoleCases ==
  ASSUME Next
  PROVE  \/ /\ UNCHANGED console
            /\ \/ \E l \in Loaders : RunEffect(l) \/ Fire(l)
               \/ \E c \in calls : c.by = "page" /\ (DropStale(c) \/ Arrival(c))
               \/ \E f \in Actions \cup {None} : ChooseFilter(f)
               \/ \E t \in Tx : SelectRow(t)
               \/ \E t \in Tx : Investigate(t)
               \/ Refresh \/ RetrySelection \/ Close \/ RetryEntity
               \/ \E e \in Entities : Explore(e)
               \/ \E n \in 1 .. MaxPath - 1 : Shorten(n)
               \/ \E t \in Tx : AssessedElsewhere(t)
         \/ \E c \in calls : /\ (DropStale(c) \/ Arrival(c)) /\ Reloaded(c)
                             /\ demoSession' = demoSession
         \/ StartDemo \/ Created \/ Stepped
         \/ DemoOnly
  <1>1. CASE Unattended
    <2>1. \A c : Arrives(c) => DropStale(c) \/ Arrival(c)
      BY DEF Arrives, Arrival
    <2>2. \A c : Reloaded(c) => Arrives(c) /\ demoSession' = demoSession
      BY DEF Reloaded
    <2> QED
      BY <1>1, <2>1, <2>2, Zenon DEF Unattended, DemoOnly
  <1>2. CASE UserActs /\ UNCHANGED console
    BY <1>2, Zenon DEF UserActs
  <1> QED
    BY <1>1, <1>2, Zenon DEF Next, DemoOnly

LEMMA RowsChange ==
  ASSUME Next,
         \A c \in calls : \A failed \in SUBSET Panes : ~ListArrives(c, failed),
         \A t \in Tx : ~Investigate(t)
  PROVE  rows' = rows
  BY StepCases
  DEF RunEffect, Fire, DropStale, Arrival, SelectionArrives, EntityArrives,
      ChooseFilter, SelectRow, Refresh, RetrySelection, Close, RetryEntity,
      Explore, Shorten, AssessedElsewhere, StartDemo, Created, Stepped,
      DemoOnly, ServeCreate, ServeStep, AnswerFails, WaitOver, RetryDemo,
      SessionLost, page, queue

LEMMA TimersChange ==
  ASSUME Next, \A l \in Loaders : ~RunEffect(l) /\ ~Fire(l)
  PROVE  timer' = timer
  BY StepCases
  DEF DropStale, Arrival, ListArrives, SelectionArrives, EntityArrives,
      ChooseFilter, SelectRow, Investigate, Refresh, RetrySelection, Close,
      RetryEntity, Explore, Shorten, AssessedElsewhere, StartDemo, Created,
      Stepped, DemoOnly, ServeCreate, ServeStep, AnswerFails, WaitOver,
      RetryDemo, SessionLost, page

-----------------------------------------------------------------------------
(* The queue's rows.                                                       *)

LEMMA ListAnswerRows ==
  ASSUME PageTypes, NEW f
  PROVE  LET items == ListAnswer(f)
         IN  /\ items \in Seq(Row) /\ Len(items) =< PageSize
             /\ \A i, j \in 1 .. Len(items) : items[i].id = items[j].id => i = j
             /\ \A i \in 1 .. Len(items) : f \in {None, items[i].action}
  <1> DEFINE ts == Matching(f)
             ids == Newest(ts)
             n == Min({Cardinality(ts), PageSize})
             items == ListAnswer(f)
  <1>1. ts \in SUBSET Tx
    BY DEF Matching
  <1>2. /\ n \in Nat /\ n =< PageSize /\ ids \in [1 .. n -> ts]
        /\ \A j, k \in 1 .. n : ids[j] = ids[k] => j = k
    BY <1>1, NewestPage
  <1> HIDE DEF ids, n
  <1>3. items = [i \in 1 .. n |-> RowOf(ids[i])]
    BY <1>2 DEF ListAnswer, ids
  <1>4. \A i \in 1 .. n : /\ ids[i] \in Tx /\ f \in {None, stored[ids[i]]}
                          /\ stored[ids[i]] \in Actions \cup {Pending}
    BY <1>1, <1>2 DEF Matching, PageTypes
  <1>5. \A i \in 1 .. n : /\ items[i] \in Row /\ items[i].id = ids[i]
                          /\ items[i].action = stored[ids[i]]
    BY <1>3, <1>4 DEF RowOf, Row
  <1> HIDE DEF items, ts
  <1>6. items \in Seq(Row) /\ Len(items) = n
    BY <1>2, <1>3, <1>5
  <1> QED
    BY <1>2, <1>4, <1>5, <1>6 DEF items

LEMMA WithoutRows ==
  ASSUME RowsDistinct, NEW t
  PROVE  /\ Without(rows, t) \in Seq(Row)
         /\ \A i, j \in 1 .. Len(Without(rows, t)) :
              Without(rows, t)[i].id = Without(rows, t)[j].id => i = j
         /\ \A i \in 1 .. Len(Without(rows, t)) : Without(rows, t)[i].id # t
  <1>1. CASE t \in Ids(rows)
    <2> DEFINE k == CHOOSE i \in DOMAIN rows : rows[i].id = t
               kept == Without(rows, t)
               n == Len(rows)
    <2>1. k \in 1 .. n /\ rows[k].id = t
      BY <1>1 DEF Ids, RowsDistinct
    <2>2. kept = SubSeq(rows, 1, k - 1) \o SubSeq(rows, k + 1, n)
      BY <1>1 DEF Without, RemoveAt
    <2> HIDE DEF k, kept
    <2>3. n \in Nat /\ rows \in Seq(Row)
      BY DEF RowsDistinct
    <2>4. /\ kept \in Seq(Row) /\ Len(kept) = n - 1
          /\ \A i \in 1 .. n - 1 : kept[i] = IF i < k THEN rows[i] ELSE rows[i + 1]
      <3> DEFINE A == SubSeq(rows, 1, k - 1)
                 B == SubSeq(rows, k + 1, n)
      <3>1. /\ A \in Seq(Row) /\ Len(A) = k - 1
            /\ \A i \in 1 .. k - 1 : A[i] = rows[i]
        BY <2>1, <2>3
      <3>2. /\ B \in Seq(Row) /\ Len(B) = n - k
            /\ \A i \in 1 .. n - k : B[i] = rows[k + i]
        BY <2>1, <2>3
      <3> HIDE DEF A, B
      <3>3. /\ kept \in Seq(Row) /\ Len(kept) = n - 1
            /\ \A i \in 1 .. k - 1 : kept[i] = A[i]
            /\ \A i \in k .. n - 1 : kept[i] = B[i - (k - 1)]
        <4>1. kept = A \o B
          BY <2>2 DEF A, B
        <4> QED
          <5>1. /\ A \o B \in Seq(Row) /\ Len(A \o B) = Len(A) + Len(B)
                /\ \A i \in 1 .. Len(A) + Len(B) :
                     (A \o B)[i] = IF i <= Len(A) THEN A[i] ELSE B[i - Len(A)]
            BY <3>1, <3>2
          <5>2. \A i \in 1 .. k - 1 : i \in 1 .. Len(A) + Len(B) /\ i =< Len(A)
            BY <3>1, <3>2, <2>1, <2>3
          <5>3. \A i \in k .. n - 1 : i \in 1 .. Len(A) + Len(B) /\ ~(i =< Len(A))
            BY <3>1, <3>2, <2>1, <2>3
          <5> QED
            BY <4>1, <5>1, <5>2, <5>3, <3>1, <3>2, <2>1, <2>3
      <3>4. \A i \in k .. n - 1 : i - (k - 1) \in 1 .. n - k /\ k + (i - (k - 1)) = i + 1
        BY <2>1, <2>3
      <3> QED
        BY <2>1, <2>3, <3>1, <3>2, <3>3, <3>4
    <2>5. \A i \in 1 .. n - 1 : \E j \in (1 .. n) \ {k} :
            kept[i] = rows[j] /\ j = IF i < k THEN i ELSE i + 1
      BY <2>1, <2>3, <2>4
    <2>6. \A i, j \in 1 .. n : rows[i].id = rows[j].id => i = j
      BY DEF RowsDistinct
    <2>7. \A i, j \in 1 .. n - 1 : kept[i].id = kept[j].id => i = j
      <3> SUFFICES ASSUME NEW i \in 1 .. n - 1, NEW j \in 1 .. n - 1,
                          kept[i].id = kept[j].id
                   PROVE  i = j
        OBVIOUS
      <3>1. PICK a \in (1 .. n) \ {k} : kept[i] = rows[a] /\ a = IF i < k THEN i ELSE i + 1
        BY <2>5
      <3>2. PICK b \in (1 .. n) \ {k} : kept[j] = rows[b] /\ b = IF j < k THEN j ELSE j + 1
        BY <2>5
      <3>3. a = b
        BY <2>6, <3>1, <3>2
      <3> QED
        BY <3>1, <3>2, <3>3, <2>1, <2>3
    <2>8. \A i \in 1 .. n - 1 : kept[i].id # t
      BY <2>1, <2>5, <2>6
    <2> QED
      BY <2>4, <2>7, <2>8 DEF kept
  <1>2. CASE t \notin Ids(rows)
    BY <1>2 DEF Without, Ids, RowsDistinct
  <1> QED
    BY <1>1, <1>2

(* The row opened from the explorer comes first, and no other row has its  *)
(* payment.                                                                *)
LEMMA InvestigatedRows ==
  ASSUME PageTypes, RowsDistinct, NEW t \in Tx, Investigate(t)
  PROVE  /\ RowsDistinct' /\ t \in Ids(rows')
         /\ override' \in Row /\ override'.id = t /\ overrideRef' = override'
  <1>1. PICK row \in {RowOf(t), [id |-> t, action |-> Initial[t]]} :
          /\ row.action # Absent
          /\ override' = row /\ overrideRef' = row
          /\ rows' = LET longer == <<row>> \o Without(rows, t)
                     IN  SubSeq(longer, 1, Min({Len(longer), PageSize}))
    BY DEF Investigate
  <1>2. row \in Row /\ row.id = t
    BY <1>1, DashboardAssumption DEF PageTypes, RowOf, Row
  <1> DEFINE kept == Without(rows, t)
             longer == <<row>> \o kept
             m == Min({Len(longer), PageSize})
  <1>3. /\ kept \in Seq(Row)
        /\ \A i, j \in 1 .. Len(kept) : kept[i].id = kept[j].id => i = j
        /\ \A i \in 1 .. Len(kept) : kept[i].id # t
    BY WithoutRows
  <1> HIDE DEF kept
  <1>4. /\ longer \in Seq(Row) /\ Len(longer) = Len(kept) + 1
        /\ longer[1] = row
        /\ \A i \in 2 .. Len(longer) : longer[i] = kept[i - 1]
    BY <1>2, <1>3
  <1>5. PageSize \in Nat \ {0}
    BY DashboardAssumption
  <1>6. m \in Nat /\ 1 =< m /\ m =< Len(longer) /\ m =< PageSize
    <2> HIDE DEF longer
    <2>1. Len(longer) \in Nat /\ 1 =< Len(longer)
      BY <1>3, <1>4
    <2> QED
      BY <1>5, <2>1, MinOfPair
  <1>7. rows' = SubSeq(longer, 1, m)
    BY <1>1 DEF kept
  <1> HIDE DEF longer, m
  <1>8. /\ rows' \in Seq(Row) /\ Len(rows') = m
        /\ \A i \in 1 .. m : rows'[i] = longer[i]
    BY <1>4, <1>6, <1>7
  <1>9. \A i, j \in 1 .. Len(longer) : longer[i].id = longer[j].id => i = j
    <2> SUFFICES ASSUME NEW i \in 1 .. Len(longer), NEW j \in 1 .. Len(longer),
                        longer[i].id = longer[j].id
                 PROVE  i = j
      OBVIOUS
    <2>1. \A k \in 1 .. Len(longer) : k # 1 =>
            /\ k - 1 \in 1 .. Len(kept) /\ longer[k] = kept[k - 1]
      BY <1>3, <1>4
    <2>2. CASE i # 1 /\ j # 1
      <3>1. kept[i - 1].id = kept[j - 1].id
        BY <2>1, <2>2
      <3>2. i - 1 = j - 1
        BY <2>1, <2>2, <1>3, <3>1
      <3> QED
        BY <3>2
    <2>3. CASE i = 1 \/ j = 1
      BY <2>1, <2>3, <1>2, <1>3, <1>4
    <2> QED
      BY <2>2, <2>3
  <1>10. RowsDistinct'
    BY <1>6, <1>8, <1>9 DEF RowsDistinct, Row
  <1>11. t \in Ids(rows')
    BY <1>2, <1>4, <1>6, <1>8 DEF Ids
  <1> QED
    BY <1>1, <1>2, <1>10, <1>11

-----------------------------------------------------------------------------
(* The selected payment.                                                   *)

LEMMA SelectedRow ==
  ASSUME PageTypes, RowsDistinct
  PROVE  /\ selected \in Row \cup {None}
         /\ selected # None => /\ selected \in Row /\ selected.id = selectedId
                               /\ selectedId \in Tx
         /\ SelectionListed => (selectedId # None => selected # None)
  <1>1. None \notin Row /\ None \notin Tx
    BY NoneAssumption, DashboardAssumption
  <1>2. CASE selectedId \in Ids(rows)
    <2> DEFINE k == CHOOSE i \in DOMAIN rows : rows[i].id = selectedId
    <2>1. k \in DOMAIN rows /\ rows[k].id = selectedId
      BY <1>2 DEF Ids
    <2>2. selected = rows[k]
      BY <1>2 DEF selected, Shown
    <2> HIDE DEF k
    <2>3. rows[k] \in Row
      BY <2>1 DEF RowsDistinct
    <2> QED
      BY <1>1, <2>1, <2>2, <2>3 DEF Row
  <1>3. CASE selectedId \notin Ids(rows)
    BY <1>1, <1>3 DEF selected, Shown, PageTypes, SelectionListed, Row
  <1> QED
    BY <1>2, <1>3

LEMMA NextSelectedListed ==
  ASSUME PageTypes, NEW items \in Seq(Row), NEW preferred,
         NEW id, id = NextSelected(items, preferred)
  PROVE  /\ id \in Tx \cup {None}
         /\ \/ id = None
            \/ id \in Ids(items)
            \/ id = selectedId /\ override # None /\ override.id = id
  <1> DEFINE done == {i \in DOMAIN items : Assessed(items[i])}
  <1>1. \A i \in DOMAIN items : items[i] \in Row /\ items[i].id \in Ids(items)
    BY DEF Ids
  <1>2. Ids(items) \subseteq Tx
    BY <1>1 DEF Ids, Row
  <1>3. done # {} => Min(done) \in DOMAIN items
    <2> SUFFICES ASSUME done # {} PROVE Min(done) \in DOMAIN items
      OBVIOUS
    <2>1. done \in SUBSET Nat /\ done \subseteq DOMAIN items
      OBVIOUS
    <2> HIDE DEF done
    <2> QED
      BY <2>1, MinOfNaturals
  <1>4. items # <<>> => 1 \in DOMAIN items
    OBVIOUS
  <1>5. \/ preferred \in Ids(items) /\ id = preferred
        \/ /\ selectedId \in Ids(items) \/ (override # None /\ override.id = selectedId)
           /\ id = selectedId
        \/ id = IF done # {} THEN items[Min(done)].id
                ELSE IF items # <<>> THEN items[1].id ELSE None
    BY DEF NextSelected, PageTypes
  <1> HIDE DEF done
  <1> QED
    BY <1>1, <1>2, <1>3, <1>4, <1>5 DEF PageTypes

-----------------------------------------------------------------------------
(* Types and rows are preserved.                                           *)

LEMMA RowsStep ==
  ASSUME IInv, Next
  PROVE  RowsDistinct'
  <1>1. ASSUME NEW c \in calls, NEW failed \in SUBSET Panes, ListArrives(c, failed)
        PROVE  RowsDistinct'
    <2>1. rows' = rows \/ rows' = ListAnswer(c.arg)
      BY <1>1 DEF ListArrives
    <2>2. RowsDistinct /\ PageTypes /\ Row' = Row
      BY DEF IInv, PageInv, Row
    <2> QED
      BY <2>1, <2>2, ListAnswerRows DEF RowsDistinct
  <1>2. ASSUME NEW t \in Tx, Investigate(t)
        PROVE  RowsDistinct'
    BY <1>2, InvestigatedRows DEF IInv, PageInv
  <1>3. CASE rows' = rows
    BY <1>3 DEF IInv, PageInv, RowsDistinct, Row
  <1> QED
    BY <1>1, <1>2, <1>3, RowsChange

LEMMA TimersStep ==
  ASSUME IInv, Next
  PROVE  TimersTyped'
  <1>1. TimersTyped /\ Closures' = Closures
    BY DEF IInv, PageInv, Closures, Row
  <1>2. /\ Closures.list = [filter : Actions \cup {None}]
        /\ Closures.selection = [row : Row \cup {None}]
        /\ Closures.entity = [entity : Entities \cup {None}]
        /\ Closures["list"] = Closures.list
        /\ Closures["selection"] = Closures.selection
        /\ Closures["entity"] = Closures.entity
    BY DEF Closures
  <1>3. ASSUME NEW l \in Loaders, RunEffect(l)
        PROVE  TimersTyped'
    <2>1. Closure(l) \in Closures[l]
      <3>1. selected \in Row \cup {None}
        BY SelectedRow DEF IInv, PageInv
      <3>2. filter \in Actions \cup {None}
        BY DEF IInv, PageInv, PageTypes
      <3>3. activeEntity \in Entities \cup {None}
        BY DEF IInv, PageInv, PageTypes, activeEntity, Last
      <3>4. CASE l = "list"
        BY <1>2, <3>2, <3>4 DEF Closure
      <3>5. CASE l = "selection"
        BY <1>2, <3>1, <3>5 DEF Closure
      <3>6. CASE l = "entity"
        BY <1>2, <3>3, <3>6 DEF Closure
      <3> QED
        BY <3>4, <3>5, <3>6 DEF Loaders
    <2>2. timer' = [timer EXCEPT ![l] = Closure(l)]
      BY <1>3 DEF RunEffect
    <2> QED
      BY <1>1, <2>1, <2>2 DEF TimersTyped
  <1>4. ASSUME NEW l \in Loaders, Fire(l)
        PROVE  TimersTyped'
    <2>1. timer' = [timer EXCEPT ![l] = None]
      BY <1>4 DEF Fire
    <2> QED
      BY <1>1, <2>1 DEF TimersTyped
  <1>5. CASE timer' = timer
    BY <1>1, <1>5 DEF TimersTyped
  <1> QED
    BY <1>3, <1>4, <1>5, TimersChange

LEMMA FiredTimers ==
  ASSUME TimersTyped
  PROVE  /\ timer["list"] # None => timer["list"].filter \in Actions \cup {None}
         /\ timer["selection"] # None => timer["selection"].row \in Row \cup {None}
         /\ timer["entity"] # None => timer["entity"].entity \in Entities \cup {None}
  BY DEF TimersTyped, Closures, Loaders

(* The three ways to start a loader.                                       *)
LEMMA ListStarted ==
  ASSUME CallsTyped, NEW f \in Actions \cup {None}, NEW p \in Tx \cup {None},
         NEW by \in {"page", "demo"}, StartList(f, p, by)
  PROVE  /\ CallsTyped'
         /\ \A m \in Loaders : Live(m)' = IF m = "list" THEN {Call("list", f, p, by)}
                                          ELSE Live(m)
  <1>1. Call("list", f, p, by) \in Calls
    BY DEF Call, Calls, ListCalls
  <1> QED
    BY <1>1, StartedCalls DEF StartList, Call, Loaders

LEMMA SelectionStarted ==
  ASSUME CallsTyped, NEW row \in Row \cup {None}, StartSelection(row)
  PROVE  /\ CallsTyped'
         /\ \A m \in Loaders :
              Live(m)' = IF m # "selection" THEN Live(m)
                         ELSE IF Assessed(row)
                              THEN {Call("selection", row.id, None, "page")} ELSE {}
  <1>1. CASE Assessed(row)
    <2>1. Call("selection", row.id, None, "page") \in Calls
      BY <1>1 DEF Assessed, Row, Call, Calls, PaneCalls
    <2> QED
      BY <1>1, <2>1, StartedCalls DEF StartSelection, Call, Loaders
  <1>2. CASE ~Assessed(row)
    BY <1>2, StoppedCalls DEF StartSelection, Loaders
  <1> QED
    BY <1>1, <1>2

LEMMA EntityStarted ==
  ASSUME CallsTyped, NEW e \in Entities \cup {None}, StartEntity(e)
  PROVE  /\ CallsTyped'
         /\ \A m \in Loaders :
              Live(m)' = IF m # "entity" THEN Live(m)
                         ELSE IF e # None THEN {Call("entity", e, None, "page")} ELSE {}
  <1>1. CASE e # None
    <2>1. Call("entity", e, None, "page") \in Calls
      BY <1>1 DEF Call, Calls, PaneCalls
    <2> QED
      BY <1>1, <2>1, StartedCalls DEF StartEntity, Call, Loaders
  <1>2. CASE e = None
    BY <1>2, StoppedCalls DEF StartEntity, Loaders
  <1> QED
    BY <1>1, <1>2

(* What a step does to the live calls of each loader.                      *)
LiveBut(l) == \A m \in Loaders \ {l} : Live(m)' = Live(m)
LiveSame == \A m \in Loaders : Live(m)' = Live(m)

LEMMA FireCases ==
  ASSUME PageTypes, CallsTyped, TimersTyped, NEW l \in Loaders, Fire(l)
  PROVE  /\ CallsTyped' /\ LiveBut(l)
         /\ l = "list" => /\ timer["list"] # None
                          /\ StartList(timer["list"].filter, None, "page")
                          /\ Live("list")' =
                               {Call("list", timer["list"].filter, None, "page")}
         /\ l = "selection" =>
              /\ timer["selection"] # None
              /\ StartSelection(timer["selection"].row)
              /\ Live("selection")' =
                   IF Assessed(timer["selection"].row)
                   THEN {Call("selection", timer["selection"].row.id, None, "page")}
                   ELSE {}
         /\ l = "entity" =>
              /\ timer["entity"] # None
              /\ StartEntity(timer["entity"].entity)
              /\ Live("entity")' =
                   IF timer["entity"].entity # None
                   THEN {Call("entity", timer["entity"].entity, None, "page")} ELSE {}
  <1>1. timer[l] # None
    BY DEF Fire
  <1>2. CASE l = "list"
    <2>1. StartList(timer["list"].filter, None, "page")
      BY <1>2 DEF Fire
    <2>2. None \in Tx \cup {None} /\ "page" \in {"page", "demo"}
      OBVIOUS
    <2>3. timer["list"].filter \in Actions \cup {None}
      BY <1>1, <1>2, FiredTimers
    <2>4. /\ CallsTyped'
          /\ \A m \in Loaders :
               Live(m)' = IF m = "list" THEN {Call("list", timer["list"].filter, None, "page")}
                          ELSE Live(m)
      BY <2>1, <2>2, <2>3, ListStarted
    <2> QED
      BY <1>1, <1>2, <2>1, <2>4 DEF LiveBut
  <1>3. CASE l = "selection"
    <2>1. StartSelection(timer["selection"].row)
      BY <1>3 DEF Fire
    <2>2. timer["selection"].row \in Row \cup {None}
      BY <1>1, <1>3, FiredTimers
    <2> QED
      BY <1>1, <1>3, <2>1, <2>2, SelectionStarted DEF LiveBut
  <1>4. CASE l = "entity"
    <2>1. StartEntity(timer["entity"].entity)
      BY <1>4 DEF Fire
    <2>2. timer["entity"].entity \in Entities \cup {None}
      BY <1>1, <1>4, FiredTimers
    <2> QED
      BY <1>1, <1>4, <2>1, <2>2, EntityStarted DEF LiveBut
  <1> QED
    BY <1>2, <1>3, <1>4 DEF Loaders

LEMMA ArrivalCases ==
  ASSUME CallsTyped, NEW c \in calls
  PROVE  /\ DropStale(c) => CallsTyped' /\ LiveSame
         /\ \A failed \in SUBSET Panes :
              /\ ListArrives(c, failed) =>
                   CallsTyped' /\ LiveBut("list") /\ Live("list")' = {}
              /\ SelectionArrives(c, failed) =>
                   CallsTyped' /\ LiveBut("selection") /\ Live("selection")' = {}
              /\ EntityArrives(c, failed) =>
                   CallsTyped' /\ LiveBut("entity") /\ Live("entity")' = {}
  BY SettledCalls
  DEF DropStale, ListArrives, SelectionArrives, EntityArrives, Settle, LiveSame,
      LiveBut, Loaders

LEMMA RunEffectCalls ==
  ASSUME CallsTyped, NEW l \in Loaders, RunEffect(l)
  PROVE  CallsTyped' /\ LiveBut(l) /\ Live(l)' = {}
  BY StoppedCalls DEF RunEffect, LiveBut

LEMMA CloseCalls ==
  ASSUME CallsTyped, CloseEntity
  PROVE  CallsTyped' /\ LiveBut("entity") /\ Live("entity")' = {}
  BY StoppedCalls DEF CloseEntity, LiveBut, Loaders

LEMMA SameCalls ==
  ASSUME CallsTyped, calls' = calls
  PROVE  CallsTyped' /\ LiveSame
  BY DEF CallsTyped, LiveSame, Live, Calls, ListCalls, PaneCalls

LEMMA RefreshCalls ==
  ASSUME PageTypes, CallsTyped, Refresh
  PROVE  /\ CallsTyped' /\ LiveBut("list")
         /\ Live("list")' = {Call("list", filter, None, "page")}
  <1>1. StartList(filter, None, "page") /\ filter \in Actions \cup {None}
    BY DEF Refresh, PageTypes
  <1>2. None \in Tx \cup {None} /\ "page" \in {"page", "demo"}
    OBVIOUS
  <1>3. /\ CallsTyped'
        /\ \A m \in Loaders : Live(m)' = IF m = "list" THEN {Call("list", filter, None, "page")}
                                         ELSE Live(m)
    BY <1>1, <1>2, ListStarted
  <1> QED
    BY <1>3 DEF LiveBut, Loaders

LEMMA RetrySelectionCalls ==
  ASSUME PageTypes, RowsDistinct, CallsTyped, RetrySelection
  PROVE  /\ CallsTyped' /\ LiveBut("selection") /\ StartSelection(selected)
         /\ Live("selection")' =
              IF Assessed(selected)
              THEN {Call("selection", selected.id, None, "page")} ELSE {}
  <1>1. StartSelection(selected) /\ selected \in Row \cup {None}
    BY SelectedRow DEF RetrySelection
  <1> QED
    BY <1>1, SelectionStarted DEF LiveBut, Loaders

LEMMA RetryEntityCalls ==
  ASSUME PageTypes, CallsTyped, RetryEntity
  PROVE  /\ CallsTyped' /\ LiveBut("entity") /\ StartEntity(activeEntity)
         /\ Live("entity")' =
              IF activeEntity # None
              THEN {Call("entity", activeEntity, None, "page")} ELSE {}
  <1>1. StartEntity(activeEntity) /\ activeEntity \in Entities \cup {None}
    BY DEF RetryEntity, activeEntity, Last, PageTypes
  <1> QED
    BY <1>1, EntityStarted DEF LiveBut, Loaders

LEMMA CreatedCalls ==
  ASSUME CallsTyped, Created
  PROVE  /\ CallsTyped' /\ LiveBut("list")
         /\ Live("list")' = {Call("list", None, None, "demo")}
  <1>1. StartList(None, None, "demo")
    BY DEF Created
  <1>2. None \in Tx \cup {None} /\ None \in Actions \cup {None}
        /\ "demo" \in {"page", "demo"}
    OBVIOUS
  <1>3. /\ CallsTyped'
        /\ \A m \in Loaders : Live(m)' = IF m = "list" THEN {Call("list", None, None, "demo")}
                                         ELSE Live(m)
    BY <1>1, <1>2, ListStarted
  <1> QED
    BY <1>3 DEF LiveBut, Loaders

LEMMA SteppedCalls ==
  ASSUME IInv, Stepped
  PROVE  /\ CallsTyped' /\ LiveBut("list") /\ session \in Sessions
         /\ reply \in 1 .. Total /\ DemoTx[session][reply] \in Tx
         /\ Live("list")' = {Call("list", None, DemoTx[session][reply], "demo")}
  <1>1. /\ StartList(None, DemoTx[session][reply], "demo")
        /\ phase = "stepping" /\ reply \in 1 .. Total
    BY DEF Stepped
  <1>2. session \in Sessions
    <2>1. session = demoSession.id /\ demoSession # None
      BY <1>1 DEF IInv, ConsoleInv, RunOnDisplay, Running
    <2> QED
      BY <2>1 DEF IInv, ConsoleInv, ConsoleTypes
  <1>3. DemoTx[session][reply] \in Tx
    BY <1>1, <1>2, ConsoleAssumption
  <1>4. None \in Actions \cup {None} /\ "demo" \in {"page", "demo"}
    OBVIOUS
  <1>5. /\ CallsTyped'
        /\ \A m \in Loaders :
             Live(m)' = IF m = "list"
                        THEN {Call("list", None, DemoTx[session][reply], "demo")}
                        ELSE Live(m)
    BY <1>1, <1>3, <1>4, ListStarted DEF IInv, PageInv
  <1> QED
    BY <1>1, <1>2, <1>3, <1>5 DEF LiveBut, Loaders

(* Every other step leaves the calls alone.                                *)
LEMMA CallsChange ==
  ASSUME Next,
         \A l \in Loaders : ~RunEffect(l) /\ ~Fire(l),
         \A c \in calls : ~DropStale(c) /\ ~Arrival(c),
         \A t \in Tx : ~Investigate(t),
         ~Close, ~Refresh, ~RetrySelection, ~RetryEntity, ~Created, ~Stepped
  PROVE  calls' = calls
  BY StepCases
  DEF ChooseFilter, SelectRow, Explore, Shorten, AssessedElsewhere, StartDemo,
      DemoOnly, ServeCreate, ServeStep, AnswerFails, WaitOver, RetryDemo,
      SessionLost, page

LEMMA CallsStep ==
  ASSUME IInv, Next
  PROVE  CallsTyped'
  <1> USE DEF IInv, PageInv
  <1>1. ASSUME NEW l \in Loaders, RunEffect(l) PROVE CallsTyped'
    BY <1>1, RunEffectCalls
  <1>2. ASSUME NEW l \in Loaders, Fire(l) PROVE CallsTyped'
    BY <1>2, FireCases
  <1>3. ASSUME NEW c \in calls, DropStale(c) \/ Arrival(c) PROVE CallsTyped'
    BY <1>3, ArrivalCases DEF Arrival
  <1>4. ASSUME NEW t \in Tx, Investigate(t) PROVE CallsTyped'
    BY <1>4, CloseCalls DEF Investigate
  <1>5. CASE Close
    BY <1>5, CloseCalls DEF Close
  <1>6. CASE Refresh
    BY <1>6, RefreshCalls
  <1>7. CASE RetrySelection
    BY <1>7, RetrySelectionCalls
  <1>8. CASE RetryEntity
    BY <1>8, RetryEntityCalls
  <1>9. CASE Created
    BY <1>9, CreatedCalls
  <1>10. CASE Stepped
    BY <1>10, SteppedCalls
  <1>11. CASE calls' = calls
    BY <1>11, SameCalls
  <1> QED
    BY <1>1, <1>2, <1>3, <1>4, <1>5, <1>6, <1>7, <1>8, <1>9, <1>10, <1>11,
       CallsChange

-----------------------------------------------------------------------------
(* The page's own types.                                                   *)

LEMMA DeeperBounded ==
  ASSUME path \in Seq(Entities), Len(path) =< MaxPath, NEW e \in Entities
  PROVE  Deeper(e) \in Seq(Entities) /\ Len(Deeper(e)) =< MaxPath
  <1> DEFINE longer == Append(path, e)
  <1>1. longer \in Seq(Entities) /\ Len(longer) = Len(path) + 1
    OBVIOUS
  <1>2. MaxPath \in Nat \ {0}
    BY DashboardAssumption
  <1>3. Deeper(e) = IF Len(longer) > MaxPath THEN Tail(longer) ELSE longer
    BY DEF Deeper
  <1>4. longer # <<>> => Tail(longer) \in Seq(Entities) /\ Len(Tail(longer)) = Len(longer) - 1
    BY <1>1
  <1> HIDE DEF longer
  <1>5. longer # <<>>
    BY <1>1
  <1> QED
    BY <1>1, <1>2, <1>3, <1>4, <1>5

LEMMA TypesStep ==
  ASSUME IInv, Next
  PROVE  PageTypes'
  <1>1. /\ PageTypes /\ RowsDistinct /\ CallsTyped /\ TimersTyped /\ Row' = Row
        /\ "queue" \in Panes /\ "summary" \in Panes
    BY DEF IInv, PageInv, Row, Panes
  <1>2. ASSUME NEW l \in Loaders, RunEffect(l) PROVE PageTypes'
    BY <1>1, <1>2 DEF RunEffect, PageTypes, queue
  <1>3. ASSUME NEW l \in Loaders, Fire(l) PROVE PageTypes'
    <2>1. timer["list"] # None => timer["list"].filter \in Actions \cup {None}
      BY <1>1, FiredTimers
    <2>2. CASE l = "list"
      BY <1>1, <1>3, <2>1, <2>2
         DEF Fire, StartList, Skeleton, PageTypes, queue, Loaders
    <2>3. CASE l = "selection"
      BY <1>1, <1>3, <2>3 DEF Fire, StartSelection, Skeleton, PageTypes, queue, Loaders
    <2>4. CASE l = "entity"
      BY <1>1, <1>3, <2>4 DEF Fire, StartEntity, Skeleton, PageTypes, queue, Loaders
    <2> QED
      BY <2>2, <2>3, <2>4 DEF Loaders
  <1>4. ASSUME NEW c \in calls, DropStale(c) PROVE PageTypes'
    BY <1>1, <1>4 DEF DropStale, PageTypes, queue
  <1>5. ASSUME NEW c \in calls, NEW failed \in SUBSET Panes, ListArrives(c, failed)
        PROVE  PageTypes'
    <2>1. \/ rows' = rows /\ selectedId' = selectedId /\ due' = due
          \/ /\ selectedId' \in Tx \cup {None} /\ due' \subseteq due \cup {"selection"}
      BY <1>1, <1>5, ListAnswerRows, NextSelectedListed DEF ListArrives
    <2> QED
      BY <1>1, <1>5, <2>1 DEF ListArrives, Skeleton, PageTypes, Loaders
  <1>6. ASSUME NEW c \in calls, NEW failed \in SUBSET Panes, SelectionArrives(c, failed)
        PROVE  PageTypes'
    <2>1. c.arg \in Tx
      BY <1>1, <1>6, CallFields DEF SelectionArrives
    <2> QED
      BY <1>1, <1>6, <2>1 DEF SelectionArrives, Skeleton, PageTypes, queue
  <1>7. ASSUME NEW c \in calls, NEW failed \in SUBSET Panes, EntityArrives(c, failed)
        PROVE  PageTypes'
    <2>1. c.arg \in Entities
      BY <1>1, <1>7, CallFields DEF EntityArrives
    <2> QED
      BY <1>1, <1>7, <2>1 DEF EntityArrives, Skeleton, PageTypes, queue
  <1>8. ASSUME NEW f \in Actions \cup {None}, ChooseFilter(f) PROVE PageTypes'
    BY <1>1, <1>8 DEF ChooseFilter, FilterChange, PageTypes, Loaders
  <1>9. ASSUME NEW t \in Tx, SelectRow(t) PROVE PageTypes'
    BY <1>1, <1>9 DEF SelectRow, PageTypes, Loaders
  <1>10. ASSUME NEW t \in Tx, Investigate(t) PROVE PageTypes'
    <2>1. override' \in Row /\ overrideRef' = override'
      BY <1>1, <1>10, InvestigatedRows
    <2>2. Len(<<>>) = 0 /\ MaxPath \in Nat /\ <<>> \in Seq(Entities)
      BY DashboardAssumption
    <2> QED
      BY <1>1, <1>10, <2>1, <2>2 DEF Investigate, CloseEntity, PageTypes, Loaders
  <1>11. CASE Refresh
    BY <1>1, <1>11 DEF Refresh, StartList, Skeleton, PageTypes, queue, Loaders
  <1>12. CASE RetrySelection
    BY <1>1, <1>12 DEF RetrySelection, StartSelection, Skeleton, PageTypes, queue, Loaders
  <1>13. CASE Close
    <2>1. Len(<<>>) = 0 /\ MaxPath \in Nat /\ <<>> \in Seq(Entities)
      BY DashboardAssumption
    <2> QED
      BY <1>1, <1>13, <2>1 DEF Close, CloseEntity, PageTypes, queue, Loaders
  <1>14. CASE RetryEntity
    BY <1>1, <1>14 DEF RetryEntity, StartEntity, Skeleton, PageTypes, queue, Loaders
  <1>15. ASSUME NEW e \in Entities, Explore(e) PROVE PageTypes'
    <2>1. path' \in Seq(Entities) /\ Len(path') =< MaxPath
      BY <1>1, <1>15, DeeperBounded DEF Explore, PageTypes
    <2> QED
      BY <1>1, <1>15, <2>1 DEF Explore, PageTypes, queue, Loaders
  <1>16. ASSUME NEW n \in 1 .. MaxPath - 1, Shorten(n) PROVE PageTypes'
    <2>1. n \in Nat /\ n =< Len(path) /\ MaxPath \in Nat
      BY <1>16, <1>1, DashboardAssumption DEF Shorten, PageTypes
    <2>2. SubSeq(path, 1, n) \in Seq(Entities) /\ Len(SubSeq(path, 1, n)) = n
      BY <1>1, <1>16, <2>1 DEF PageTypes
    <2>3. n =< MaxPath
      BY <1>1, <2>1 DEF PageTypes
    <2> QED
      BY <1>1, <1>16, <2>2, <2>3 DEF Shorten, PageTypes, queue, Loaders
  <1>17. ASSUME NEW t \in Tx, AssessedElsewhere(t) PROVE PageTypes'
    BY <1>1, <1>17 DEF AssessedElsewhere, PageTypes, page, queue
  <1>18. CASE StartDemo
    BY <1>1, <1>18 DEF StartDemo, FilterChange, PageTypes, Loaders
  <1>19. CASE Created
    BY <1>1, <1>19 DEF Created, StartList, Skeleton, PageTypes, queue, Loaders
  <1>20. CASE Stepped
    BY <1>1, <1>20 DEF Stepped, StartList, Skeleton, PageTypes, queue, Loaders
  <1>21. CASE DemoOnly
    <2>1. CASE ServeStep
      <3>1. stored' = stored \/ \E t : stored' = [stored EXCEPT ![t] = DemoAction]
        BY <2>1 DEF ServeStep, Perform
      <3>2. DemoAction \in Actions
        BY ConsoleAssumption
      <3>3. stored' \in [Tx -> Actions \cup {Absent, Pending}]
        BY <1>1, <3>1, <3>2 DEF PageTypes
      <3> QED
        BY <1>1, <2>1, <3>3 DEF ServeStep, PageTypes, page, queue
    <2>2. CASE ~ServeStep
      BY <1>1, <1>21, <2>2
         DEF DemoOnly, ServeCreate, AnswerFails, WaitOver, RetryDemo, SessionLost,
             PageTypes, page, queue, Panes
    <2> QED
      BY <2>1, <2>2
  <1> QED
    BY StepCases, <1>2, <1>3, <1>4, <1>5, <1>6, <1>7, <1>8, <1>9, <1>10, <1>11,
       <1>12, <1>13, <1>14, <1>15, <1>16, <1>17, <1>18, <1>19, <1>20, <1>21
       DEF Arrival

-----------------------------------------------------------------------------
(* The selection.                                                          *)

LEMMA ListedStep ==
  ASSUME IInv, Next
  PROVE  SelectionListed'
  <1>1. PageTypes /\ RowsDistinct /\ SelectionListed
    BY DEF IInv, PageInv
  <1>2. ASSUME NEW c \in calls, NEW failed \in SUBSET Panes, ListArrives(c, failed)
        PROVE  SelectionListed'
    <2>1. CASE "queue" \in failed
      BY <1>1, <1>2, <2>1 DEF ListArrives, SelectionListed, Ids
    <2>2. CASE "queue" \notin failed
      <3> DEFINE items == ListAnswer(c.arg)
      <3>1. /\ rows' = items /\ override' = override
            /\ selectedId' = NextSelected(items, c.preferred)
        BY <1>2, <2>2 DEF ListArrives
      <3>2. items \in Seq(Row)
        BY <1>1, ListAnswerRows
      <3> HIDE DEF items
      <3>3. \/ selectedId' = None
            \/ selectedId' \in Ids(rows')
            \/ override # None /\ override.id = selectedId'
        BY <1>1, <3>1, <3>2, NextSelectedListed
      <3> QED
        BY <3>1, <3>3 DEF SelectionListed, Ids
    <2> QED
      BY <2>1, <2>2
  <1>3. ASSUME NEW t \in Tx, SelectRow(t) PROVE SelectionListed'
    BY <1>3 DEF SelectRow, SelectionListed, Ids
  <1>4. ASSUME NEW t \in Tx, Investigate(t) PROVE SelectionListed'
    BY <1>1, <1>4, InvestigatedRows DEF Investigate, SelectionListed, Ids
  <1>5. CASE UNCHANGED <<rows, selectedId, override>>
    BY <1>1, <1>5 DEF SelectionListed, Ids
  <1>6. \/ \E c \in calls : \E failed \in SUBSET Panes : ListArrives(c, failed)
        \/ \E t \in Tx : SelectRow(t) \/ Investigate(t)
        \/ UNCHANGED <<rows, selectedId, override>>
    BY StepCases
    DEF RunEffect, Fire, DropStale, Arrival, SelectionArrives, EntityArrives,
        ChooseFilter, Refresh, RetrySelection, Close, RetryEntity,
        Explore, Shorten, AssessedElsewhere, StartDemo, Created, Stepped,
        DemoOnly, ServeCreate, ServeStep, AnswerFails, WaitOver, RetryDemo,
        SessionLost, page, queue
  <1> QED
    BY <1>2, <1>3, <1>4, <1>5, <1>6

(* A step that leaves the selected row, its pane and its loader alone; it  *)
(* may add errors, and an effect that is due.                              *)
SelectionFrame ==
  /\ UNCHANGED <<report, graph>>
  /\ timer'["selection"] = timer["selection"]
  /\ Live("selection")' = Live("selection")
  /\ "selection" \in due => "selection" \in due'
  /\ \A p \in {"investigation", "graph"} : p \in errors => p \in errors'
  /\ "selection" \notin due' => selected' = selected /\ selectedId' = selectedId

LEMMA SelectionFrameKeeps ==
  ASSUME SelectionCurrent, SelectionFrame
  PROVE  SelectionCurrent'
  <1>1. CASE "selection" \in due'
    BY <1>1 DEF SelectionCurrent
  <1>2. CASE "selection" \notin due'
    <2>1. /\ "selection" \notin due
          /\ selected' = selected /\ selectedId' = selectedId
          /\ report' = report /\ graph' = graph
          /\ timer'["selection"] = timer["selection"]
          /\ Live("selection")' = Live("selection")
          /\ "investigation" \in errors => "investigation" \in errors'
          /\ "graph" \in errors => "graph" \in errors'
      BY <1>2 DEF SelectionFrame
    <2>2. Settled("selection")' <=> Settled("selection")
      BY <1>2, <2>1 DEF Settled, Live
    <2>3. Assessed(selected)' <=> Assessed(selected)
      BY <2>1 DEF Assessed
    <2>4. /\ timer["selection"] \in {None, [row |-> selected]}
          /\ \A c \in Live("selection") : c.arg = selectedId /\ Assessed(selected)
          /\ SelectionAgrees
      BY <2>1 DEF SelectionCurrent
    <2>5. SelectionAgrees'
      BY <2>1, <2>2, <2>3, <2>4 DEF SelectionAgrees
    <2> QED
      BY <2>1, <2>3, <2>4, <2>5 DEF SelectionCurrent
  <1> QED
    BY <1>1, <1>2

(* The loader runs for the row selected now: its call is the live one, or  *)
(* both panes are clear.                                                   *)
LEMMA SelectionRun ==
  ASSUME PageTypes, RowsDistinct, StartSelection(selected),
         UNCHANGED <<rows, selectedId, override>>,
         timer'["selection"] \in {None, timer["selection"]},
         timer["selection"] \in {None, [row |-> selected]},
         Live("selection")' =
           IF Assessed(selected)
           THEN {Call("selection", selected.id, None, "page")} ELSE {}
  PROVE  SelectionCurrent'
  <1>1. selected' = selected
    BY DEF selected, Shown, Ids
  <1>2. Assessed(selected) => selected.id = selectedId
    BY SelectedRow DEF Assessed
  <1>3. Assessed(selected)' <=> Assessed(selected)
    BY <1>1 DEF Assessed
  <1>4. \A c \in Live("selection")' : c.arg = selectedId /\ Assessed(selected)
    BY <1>2 DEF Call
  <1>5. Settled("selection")' => Live("selection")' = {}
    BY DEF Settled, Live
  <1>6. Settled("selection")' => report' = None /\ graph' = None /\ ~Assessed(selected)
    BY <1>5 DEF StartSelection
  <1>7. SelectionAgrees'
    BY <1>3, <1>6 DEF SelectionAgrees
  <1> QED
    BY <1>1, <1>3, <1>4, <1>7 DEF SelectionCurrent

LEMMA SelectionStep ==
  ASSUME IInv, Next
  PROVE  SelectionCurrent'
  <1>1. /\ PageTypes /\ RowsDistinct /\ CallsTyped /\ TimersTyped /\ SelectionCurrent
        /\ "selection" \in Loaders /\ "list" \in Loaders /\ "entity" \in Loaders
    BY DEF IInv, PageInv, Loaders
  <1>2. UNCHANGED <<rows, selectedId, override>> =>
          selected' = selected /\ selectedId' = selectedId
    BY DEF selected, Shown, Ids
  <1>3. ASSUME NEW l \in Loaders, RunEffect(l) PROVE SelectionCurrent'
    <2>1. LiveBut(l) /\ Live(l)' = {}
      BY <1>1, <1>3, RunEffectCalls
    <2>2. /\ timer' = [timer EXCEPT ![l] = Closure(l)] /\ due' = due \ {l}
          /\ UNCHANGED <<rows, selectedId, override, report, graph, errors>>
      BY <1>3 DEF RunEffect, queue
    <2>3. CASE l = "selection"
      <3>1. timer'["selection"] = [row |-> selected]
        BY <1>1, <2>2, <2>3 DEF TimersTyped, Closure
      <3>2. [row |-> selected] # None
        BY SelectedRow, NoneAssumption, <1>1 DEF Closures
      <3>3. ~Settled("selection")'
        BY <3>1, <3>2 DEF Settled
      <3> QED
        BY <1>2, <2>1, <2>2, <2>3, <3>1, <3>3 DEF SelectionCurrent, SelectionAgrees
    <2>4. CASE l # "selection"
      <3>1. SelectionFrame
        BY <1>1, <1>2, <2>1, <2>2, <2>4 DEF SelectionFrame, LiveBut, TimersTyped
      <3> QED
        BY <1>1, <3>1, SelectionFrameKeeps
    <2> QED
      BY <2>3, <2>4
  <1>4. ASSUME NEW l \in Loaders, Fire(l) PROVE SelectionCurrent'
    <2>1. /\ LiveBut(l)
          /\ timer' = [timer EXCEPT ![l] = None] /\ due' = due
          /\ UNCHANGED <<rows, selectedId, override>>
      BY <1>1, <1>4, FireCases DEF Fire, queue
    <2>2. CASE l = "selection"
      <3>1. CASE "selection" \in due
        BY <2>1, <3>1 DEF SelectionCurrent
      <3>2. CASE "selection" \notin due
        <4>1. /\ timer["selection"] # None
              /\ StartSelection(timer["selection"].row)
              /\ Live("selection")' =
                   IF Assessed(timer["selection"].row)
                   THEN {Call("selection", timer["selection"].row.id, None, "page")}
                   ELSE {}
          BY <1>1, <1>4, <2>2, FireCases
        <4>2. timer["selection"] = [row |-> selected] /\ timer["selection"].row = selected
          BY <1>1, <3>2, <4>1 DEF SelectionCurrent
        <4>3. timer'["selection"] = None
          BY <1>1, <2>1, <2>2 DEF TimersTyped
        <4> QED
          BY <1>1, <2>1, <4>1, <4>2, <4>3, SelectionRun
      <3> QED
        BY <3>1, <3>2
    <2>3. CASE l # "selection"
      <3>1. report' = report /\ graph' = graph
        BY <1>4, <2>3 DEF Fire
      <3>2. \A p \in {"investigation", "graph"} : p \in errors => p \in errors'
        BY <1>4, <2>3 DEF Fire, StartList, StartEntity
      <3>3. SelectionFrame
        BY <1>1, <1>2, <2>1, <2>3, <3>1, <3>2 DEF SelectionFrame, LiveBut, TimersTyped
      <3> QED
        BY <1>1, <3>3, SelectionFrameKeeps
    <2> QED
      BY <2>2, <2>3
  <1>5. ASSUME NEW c \in calls, NEW failed \in SUBSET Panes, ListArrives(c, failed)
        PROVE  SelectionCurrent'
    <2>1. LiveBut("list") /\ timer' = timer /\ report' = report /\ graph' = graph
          /\ errors \subseteq errors' /\ due \subseteq due' /\ override' = override
      BY <1>1, <1>5, ArrivalCases DEF ListArrives
    <2>2. "selection" \notin due' => selected' = selected /\ selectedId' = selectedId
      <3>1. CASE "queue" \in failed
        BY <1>2, <1>5, <2>1, <3>1 DEF ListArrives
      <3>2. CASE "queue" \notin failed /\ "selection" \notin due'
        <4>1. /\ selectedId' = selectedId
              /\ selectedId \notin Ids(rows) /\ selectedId \notin Ids(rows')
          BY <1>5, <3>2 DEF ListArrives, SelectionDue
        <4> QED
          BY <2>1, <4>1 DEF selected, Shown, Ids
      <3> QED
        BY <3>1, <3>2
    <2>3. SelectionFrame
      BY <1>1, <2>1, <2>2 DEF SelectionFrame, LiveBut
    <2> QED
      BY <1>1, <2>3, SelectionFrameKeeps
  <1>6. ASSUME NEW c \in calls, NEW failed \in SUBSET Panes, SelectionArrives(c, failed)
        PROVE  SelectionCurrent'
    <2>1. /\ Live("selection")' = {} /\ c \in Live("selection")
          /\ timer' = timer /\ due' = due
          /\ UNCHANGED <<rows, selectedId, override>>
          /\ errors' = errors \cup failed
          /\ report' = IF "investigation" \in failed THEN None ELSE c.arg
          /\ graph' = IF "graph" \in failed THEN None ELSE c.arg
      BY <1>1, <1>6, ArrivalCases DEF SelectionArrives, Live, queue
    <2>2. CASE "selection" \in due
      BY <2>1, <2>2 DEF SelectionCurrent
    <2>3. CASE "selection" \notin due
      <3>1. /\ timer["selection"] \in {None, [row |-> selected]}
            /\ c.arg = selectedId /\ Assessed(selected)
        BY <1>1, <2>1, <2>3 DEF SelectionCurrent
      <3>2. selected' = selected /\ (Assessed(selected)' <=> Assessed(selected))
        BY <1>2, <2>1 DEF Assessed
      <3>3. SelectionAgrees'
        BY <2>1, <3>1, <3>2 DEF SelectionAgrees
      <3> QED
        BY <2>1, <3>1, <3>2, <3>3 DEF SelectionCurrent
    <2> QED
      BY <2>2, <2>3
  <1>7. CASE RetrySelection
    <2>1. /\ due = {} /\ due' = due /\ timer' = timer
          /\ UNCHANGED <<rows, selectedId, override>>
      BY <1>7 DEF RetrySelection, OnQueue, Click, queue
    <2>2. timer["selection"] \in {None, [row |-> selected]}
      BY <1>1, <2>1 DEF SelectionCurrent
    <2> QED
      BY <1>1, <1>7, <2>1, <2>2, RetrySelectionCalls, SelectionRun
  <1>8. ASSUME NEW t \in Tx, SelectRow(t) PROVE SelectionCurrent'
    <2>1. /\ rows' = rows /\ selectedId' = t /\ t \in Ids(rows)
          /\ timer' = timer /\ report' = report /\ graph' = graph /\ errors' = errors
          /\ due' = IF t = selectedId THEN due ELSE due \cup {"selection"}
          /\ calls' = calls
      BY <1>8 DEF SelectRow
    <2>2. t = selectedId => selected' = selected
      BY <2>1 DEF selected, Shown, Ids
    <2>3. SelectionFrame
      BY <1>1, <2>1, <2>2, SameCalls DEF SelectionFrame, LiveSame
    <2> QED
      BY <1>1, <2>3, SelectionFrameKeeps
  <1>9. ASSUME NEW t \in Tx, Investigate(t) PROVE SelectionCurrent'
    BY <1>9 DEF Investigate, SelectionCurrent
  <1>10. CASE /\ UNCHANGED <<rows, selectedId, override, report, graph>>
              /\ timer'["selection"] = timer["selection"]
              /\ Live("selection")' = Live("selection")
              /\ due \subseteq due'
              /\ \A p \in {"investigation", "graph"} : p \in errors => p \in errors'
    <2>1. SelectionFrame
      BY <1>2, <1>10 DEF SelectionFrame
    <2> QED
      BY <1>1, <2>1, SelectionFrameKeeps
  <1> DEFINE Quiet == /\ UNCHANGED <<rows, selectedId, override, report, graph>>
                      /\ timer' = timer /\ due \subseteq due'
                      /\ \A p \in {"investigation", "graph"} : p \in errors => p \in errors'
  <1>11. Quiet /\ (LiveSame \/ LiveBut("list") \/ LiveBut("entity")) => SelectionCurrent'
    BY <1>1, <1>10 DEF LiveSame, LiveBut
  <1>12. ASSUME NEW c \in calls, DropStale(c) PROVE Quiet /\ LiveSame
    BY <1>1, <1>12, ArrivalCases DEF DropStale, queue
  <1>13. ASSUME NEW c \in calls, NEW failed \in SUBSET Panes, EntityArrives(c, failed)
         PROVE  Quiet /\ LiveBut("entity")
    BY <1>1, <1>13, ArrivalCases DEF EntityArrives, queue
  <1>14. CASE Refresh
    <2>1. Quiet
      BY <1>14 DEF Refresh, StartList, queue
    <2> QED
      BY <1>1, <1>11, <1>14, <2>1, RefreshCalls
  <1>15. CASE Close
    <2>1. Quiet /\ CloseEntity
      BY <1>15 DEF Close, CloseEntity, queue
    <2> QED
      BY <1>1, <1>11, <2>1, CloseCalls
  <1>16. CASE RetryEntity
    <2>1. Quiet
      BY <1>16 DEF RetryEntity, StartEntity, queue
    <2> QED
      BY <1>1, <1>11, <1>16, <2>1, RetryEntityCalls
  <1>17. CASE Created
    <2>1. Quiet
      BY <1>17 DEF Created, StartList, queue
    <2> QED
      BY <1>1, <1>11, <1>17, <2>1, CreatedCalls
  <1>18. CASE Stepped
    <2>1. Quiet
      BY <1>18 DEF Stepped, StartList, queue
    <2> QED
      BY <1>1, <1>11, <1>18, <2>1, SteppedCalls
  <1>19. CASE \/ \E f \in Actions \cup {None} : ChooseFilter(f)
              \/ \E e \in Entities : Explore(e)
              \/ \E n \in 1 .. MaxPath - 1 : Shorten(n)
              \/ \E t \in Tx : AssessedElsewhere(t)
              \/ StartDemo \/ DemoOnly
    <2>1. Quiet
      BY <1>19
      DEF ChooseFilter, FilterChange, Explore, Shorten, AssessedElsewhere,
          StartDemo, DemoOnly, ServeCreate, ServeStep, AnswerFails, WaitOver,
          RetryDemo, SessionLost, page, queue
    <2>2. calls' = calls
      BY <1>19
      DEF ChooseFilter, Explore, Shorten, AssessedElsewhere,
          StartDemo, DemoOnly, ServeCreate, ServeStep, AnswerFails, WaitOver,
          RetryDemo, SessionLost, page
    <2> QED
      BY <1>1, <1>11, <2>1, <2>2, SameCalls
  <1> HIDE DEF Quiet
  <1> QED
    BY StepCases, <1>3, <1>4, <1>5, <1>6, <1>7, <1>8, <1>9, <1>11, <1>12, <1>13,
       <1>14, <1>15, <1>16, <1>17, <1>18, <1>19
       DEF Arrival

-----------------------------------------------------------------------------
(* The explored identity.                                                  *)

EntityFrame ==
  /\ entityData' = entityData
  /\ timer'["entity"] = timer["entity"]
  /\ Live("entity")' = Live("entity")
  /\ "entity" \in due => "entity" \in due'
  /\ "entity" \in errors => "entity" \in errors'
  /\ "entity" \notin due' => path' = path

LEMMA EntityFrameKeeps ==
  ASSUME EntityCurrent, EntityFrame
  PROVE  EntityCurrent'
  <1>1. CASE "entity" \in due'
    BY <1>1 DEF EntityCurrent
  <1>2. CASE "entity" \notin due'
    <2>1. /\ "entity" \notin due /\ activeEntity' = activeEntity
          /\ entityData' = entityData
          /\ timer'["entity"] = timer["entity"]
          /\ Live("entity")' = Live("entity")
          /\ "entity" \in errors => "entity" \in errors'
      BY <1>2 DEF EntityFrame, activeEntity
    <2>2. Settled("entity")' <=> Settled("entity")
      BY <1>2, <2>1 DEF Settled, Live
    <2>3. EntityAgrees'
      BY <2>1, <2>2 DEF EntityCurrent, EntityAgrees
    <2> QED
      BY <2>1, <2>3 DEF EntityCurrent
  <1> QED
    BY <1>1, <1>2

LEMMA EntityRun ==
  ASSUME StartEntity(activeEntity), path' = path,
         timer'["entity"] \in {None, timer["entity"]},
         timer["entity"] \in {None, [entity |-> activeEntity]},
         Live("entity")' = IF activeEntity # None
                           THEN {Call("entity", activeEntity, None, "page")} ELSE {}
  PROVE  EntityCurrent'
  <1>1. activeEntity' = activeEntity
    BY DEF activeEntity
  <1>2. \A c \in Live("entity")' : c.arg = activeEntity
    BY DEF Call
  <1>3. Settled("entity")' => Live("entity")' = {}
    BY DEF Settled, Live
  <1>4. EntityAgrees'
    BY <1>1, <1>3 DEF EntityAgrees, StartEntity
  <1> QED
    BY <1>1, <1>2, <1>4 DEF EntityCurrent

LEMMA EntityStep ==
  ASSUME IInv, Next
  PROVE  EntityCurrent'
  <1>1. /\ PageTypes /\ RowsDistinct /\ CallsTyped /\ TimersTyped /\ EntityCurrent
        /\ "selection" \in Loaders /\ "list" \in Loaders /\ "entity" \in Loaders
    BY DEF IInv, PageInv, Loaders
  <1>2. ASSUME NEW l \in Loaders, RunEffect(l) PROVE EntityCurrent'
    <2>1. LiveBut(l) /\ Live(l)' = {}
      BY <1>1, <1>2, RunEffectCalls
    <2>2. /\ timer' = [timer EXCEPT ![l] = Closure(l)] /\ due' = due \ {l}
          /\ UNCHANGED <<path, entityData, errors>>
      BY <1>2 DEF RunEffect
    <2>3. CASE l = "entity"
      <3>1. timer'["entity"] = [entity |-> activeEntity]
        BY <1>1, <2>2, <2>3 DEF TimersTyped, Closure
      <3>2. activeEntity \in Entities \cup {None} /\ activeEntity' = activeEntity
        BY <1>1, <2>2 DEF activeEntity, Last, PageTypes
      <3>3. [entity |-> activeEntity] # None
        BY <3>2, NoneAssumption DEF Closures
      <3>4. ~Settled("entity")'
        BY <3>1, <3>3 DEF Settled
      <3> QED
        BY <2>1, <2>2, <2>3, <3>1, <3>2, <3>4 DEF EntityCurrent, EntityAgrees
    <2>4. CASE l # "entity"
      <3>1. EntityFrame
        BY <1>1, <2>1, <2>2, <2>4 DEF EntityFrame, LiveBut, TimersTyped
      <3> QED
        BY <1>1, <3>1, EntityFrameKeeps
    <2> QED
      BY <2>3, <2>4
  <1>3. ASSUME NEW l \in Loaders, Fire(l) PROVE EntityCurrent'
    <2>1. /\ LiveBut(l)
          /\ timer' = [timer EXCEPT ![l] = None] /\ due' = due /\ path' = path
      BY <1>1, <1>3, FireCases DEF Fire
    <2>2. CASE l = "entity"
      <3>1. CASE "entity" \in due
        BY <2>1, <3>1 DEF EntityCurrent
      <3>2. CASE "entity" \notin due
        <4>1. /\ timer["entity"] # None
              /\ StartEntity(timer["entity"].entity)
              /\ Live("entity")' =
                   IF timer["entity"].entity # None
                   THEN {Call("entity", timer["entity"].entity, None, "page")} ELSE {}
          BY <1>1, <1>3, <2>2, FireCases
        <4>2. timer["entity"] = [entity |-> activeEntity]
              /\ timer["entity"].entity = activeEntity
          BY <1>1, <3>2, <4>1 DEF EntityCurrent
        <4>3. timer'["entity"] = None
          BY <1>1, <2>1, <2>2 DEF TimersTyped
        <4> QED
          BY <2>1, <4>1, <4>2, <4>3, EntityRun
      <3> QED
        BY <3>1, <3>2
    <2>3. CASE l # "entity"
      <3>1. /\ entityData' = entityData
            /\ "entity" \in errors => "entity" \in errors'
        BY <1>3, <2>3 DEF Fire, StartList, StartSelection
      <3>2. EntityFrame
        BY <1>1, <2>1, <2>3, <3>1 DEF EntityFrame, LiveBut, TimersTyped
      <3> QED
        BY <1>1, <3>2, EntityFrameKeeps
    <2> QED
      BY <2>2, <2>3
  <1>4. ASSUME NEW c \in calls, NEW failed \in SUBSET Panes, EntityArrives(c, failed)
        PROVE  EntityCurrent'
    <2>1. /\ Live("entity")' = {} /\ c \in Live("entity")
          /\ timer' = timer /\ due' = due /\ path' = path
          /\ failed \subseteq {"entity"} /\ errors' = errors \cup failed
          /\ entityData' = IF failed = {} THEN c.arg ELSE None
      BY <1>1, <1>4, ArrivalCases DEF EntityArrives, Live
    <2>2. CASE "entity" \in due
      BY <2>1, <2>2 DEF EntityCurrent
    <2>3. CASE "entity" \notin due
      <3>1. timer["entity"] \in {None, [entity |-> activeEntity]} /\ c.arg = activeEntity
        BY <1>1, <2>1, <2>3 DEF EntityCurrent
      <3>2. activeEntity' = activeEntity
        BY <2>1 DEF activeEntity
      <3>3. EntityAgrees'
        BY <2>1, <3>1, <3>2 DEF EntityAgrees
      <3> QED
        BY <2>1, <3>1, <3>2, <3>3 DEF EntityCurrent
    <2> QED
      BY <2>2, <2>3
  <1>5. CASE RetryEntity
    <2>1. due = {} /\ due' = due /\ timer' = timer /\ path' = path
      BY <1>5 DEF RetryEntity, OnExplorer, Click
    <2>2. timer["entity"] \in {None, [entity |-> activeEntity]}
      BY <1>1, <2>1 DEF EntityCurrent
    <2> QED
      BY <1>1, <1>5, <2>1, <2>2, RetryEntityCalls, EntityRun
  <1>6. CASE "entity" \in due'
    BY <1>6 DEF EntityCurrent
  <1> DEFINE Quiet == /\ UNCHANGED <<path, entityData, timer>> /\ due \subseteq due'
                      /\ "entity" \in errors => "entity" \in errors'
  <1>7. Quiet /\ (LiveSame \/ LiveBut("list") \/ LiveBut("selection")) => EntityCurrent'
    <2> SUFFICES ASSUME Quiet, LiveSame \/ LiveBut("list") \/ LiveBut("selection")
                 PROVE  EntityCurrent'
      OBVIOUS
    <2>1. EntityFrame
      BY <1>1 DEF EntityFrame, LiveSame, LiveBut
    <2> QED
      BY <1>1, <2>1, EntityFrameKeeps
  <1>8. ASSUME NEW c \in calls, DropStale(c) PROVE Quiet /\ LiveSame
    BY <1>1, <1>8, ArrivalCases DEF DropStale
  <1>9. ASSUME NEW c \in calls, NEW failed \in SUBSET Panes, ListArrives(c, failed)
        PROVE  Quiet /\ LiveBut("list")
    BY <1>1, <1>9, ArrivalCases DEF ListArrives
  <1>10. ASSUME NEW c \in calls, NEW failed \in SUBSET Panes, SelectionArrives(c, failed)
         PROVE  Quiet /\ LiveBut("selection")
    BY <1>1, <1>10, ArrivalCases DEF SelectionArrives
  <1>11. CASE Refresh
    <2>1. Quiet
      BY <1>11 DEF Refresh, StartList
    <2> QED
      BY <1>1, <1>7, <1>11, <2>1, RefreshCalls
  <1>12. CASE RetrySelection
    <2>1. Quiet
      BY <1>12 DEF RetrySelection, StartSelection
    <2> QED
      BY <1>1, <1>7, <1>12, <2>1, RetrySelectionCalls
  <1>13. CASE Created
    <2>1. Quiet
      BY <1>13 DEF Created, StartList
    <2> QED
      BY <1>1, <1>7, <1>13, <2>1, CreatedCalls
  <1>14. CASE Stepped
    <2>1. Quiet
      BY <1>14 DEF Stepped, StartList
    <2> QED
      BY <1>1, <1>7, <1>14, <2>1, SteppedCalls
  <1>15. CASE \/ \E f \in Actions \cup {None} : ChooseFilter(f)
              \/ \E t \in Tx : SelectRow(t)
              \/ \E t \in Tx : AssessedElsewhere(t)
              \/ StartDemo \/ DemoOnly
    <2>1. Quiet /\ calls' = calls
      BY <1>15
      DEF ChooseFilter, FilterChange, SelectRow, AssessedElsewhere,
          StartDemo, DemoOnly, ServeCreate, ServeStep, AnswerFails, WaitOver,
          RetryDemo, SessionLost, page
    <2> QED
      BY <1>1, <1>7, <2>1, SameCalls
  <1>16. CASE \/ \E e \in Entities : Explore(e)
              \/ \E n \in 1 .. MaxPath - 1 : Shorten(n)
              \/ \E t \in Tx : Investigate(t)
              \/ Close
    BY <1>6, <1>16 DEF Explore, Shorten, Investigate, Close
  <1> HIDE DEF Quiet
  <1> QED
    BY StepCases, <1>2, <1>3, <1>4, <1>5, <1>7, <1>8, <1>9, <1>10, <1>11, <1>12,
       <1>13, <1>14, <1>15, <1>16
       DEF Arrival

-----------------------------------------------------------------------------
(* The queue and what it was asked.                                        *)

QueueFrame ==
  /\ UNCHANGED <<asked, timer>> /\ Live("list")' = Live("list")
  /\ due \subseteq due'
  /\ "queue" \in errors => "queue" \in errors'
  /\ "list" \notin due' => filter' = filter
  /\ demoSession # None => demoSession' # None
  /\ demoSession = None => demoSession' = None

LEMMA QueueFrameKeeps ==
  ASSUME QueueCurrent, QueueFrame, rows' = rows
  PROVE  QueueCurrent'
  <1>1. Settled("list")' => Settled("list")
    BY DEF QueueFrame, Settled, Live
  <1> QED
    BY <1>1 DEF QueueCurrent, QueueFrame

(* The list is loaded: the call asks for what asked says from now on.      *)
LEMMA QueueRun ==
  ASSUME NEW f, NEW p, NEW by, StartList(f, p, by),
         Live("list")' = {Call("list", f, p, by)},
         "list" \notin due' =>
           /\ timer'["list"] \in {None, [filter |-> filter']}
           /\ f = filter' \/ (f = None /\ demoSession' # None)
  PROVE  QueueCurrent'
  <1>1. asked' = f
    BY DEF StartList
  <1>2. ~Settled("list")'
    BY DEF Settled, Live
  <1>3. \A c \in Live("list")' : c.arg = asked'
    BY <1>1 DEF Call
  <1> QED
    BY <1>1, <1>2, <1>3 DEF QueueCurrent

LEMMA QueueStep ==
  ASSUME IInv, Next
  PROVE  QueueCurrent'
  <1>1. /\ PageTypes /\ RowsDistinct /\ CallsTyped /\ TimersTyped /\ QueueCurrent
        /\ "selection" \in Loaders /\ "list" \in Loaders /\ "entity" \in Loaders
    BY DEF IInv, PageInv, Loaders
  <1>2. ASSUME NEW l \in Loaders, RunEffect(l), UNCHANGED console PROVE QueueCurrent'
    <2>1. LiveBut(l) /\ Live(l)' = {}
      BY <1>1, <1>2, RunEffectCalls
    <2>2. /\ timer' = [timer EXCEPT ![l] = Closure(l)] /\ due' = due \ {l}
          /\ UNCHANGED <<filter, asked, rows, errors, demoSession>>
      BY <1>2 DEF RunEffect, queue, console
    <2>3. CASE l = "list"
      <3>1. timer'["list"] = [filter |-> filter]
        BY <1>1, <2>2, <2>3 DEF TimersTyped, Closure
      <3>2. [filter |-> filter] # None
        BY <1>1, NoneAssumption DEF Closures, PageTypes
      <3>3. ~Settled("list")'
        BY <3>1, <3>2 DEF Settled
      <3> QED
        BY <2>1, <2>2, <2>3, <3>1, <3>2, <3>3 DEF QueueCurrent
    <2>4. CASE l # "list"
      <3>1. /\ timer'["list"] = timer["list"] /\ Live("list")' = Live("list")
            /\ "list" \in due' <=> "list" \in due
        BY <1>1, <2>1, <2>2, <2>4 DEF LiveBut, TimersTyped
      <3>2. Settled("list")' <=> Settled("list")
        BY <3>1 DEF Settled, Live
      <3> QED
        BY <1>1, <2>2, <3>1, <3>2 DEF QueueCurrent
    <2> QED
      BY <2>3, <2>4
  <1>3. ASSUME NEW l \in Loaders, Fire(l), UNCHANGED console PROVE QueueCurrent'
    <2>1. /\ LiveBut(l)
          /\ timer' = [timer EXCEPT ![l] = None] /\ due' = due
          /\ UNCHANGED <<filter, rows, demoSession>>
      BY <1>1, <1>3, FireCases DEF Fire, queue, console
    <2>2. CASE l = "list"
      <3>1. /\ timer["list"] # None
            /\ StartList(timer["list"].filter, None, "page")
            /\ Live("list")' = {Call("list", timer["list"].filter, None, "page")}
        BY <1>1, <1>3, <2>2, FireCases
      <3>2. timer'["list"] = None
        BY <1>1, <2>1, <2>2 DEF TimersTyped
      <3>3. "list" \notin due' => timer["list"].filter = filter'
        BY <1>1, <2>1, <3>1 DEF QueueCurrent
      <3> QED
        BY <3>1, <3>2, <3>3, QueueRun
    <2>3. CASE l # "list"
      <3>1. asked' = asked /\ ("queue" \in errors => "queue" \in errors')
        BY <1>3, <2>3 DEF Fire, StartSelection, StartEntity
      <3>2. timer'["list"] = timer["list"] /\ Live("list")' = Live("list")
        BY <1>1, <2>1, <2>3 DEF LiveBut, TimersTyped
      <3>3. Settled("list")' <=> Settled("list")
        BY <2>1, <3>2 DEF Settled, Live
      <3> QED
        BY <1>1, <2>1, <3>1, <3>2, <3>3 DEF QueueCurrent
    <2> QED
      BY <2>2, <2>3
  <1>4. ASSUME NEW c \in calls, NEW failed \in SUBSET Panes, ListArrives(c, failed),
               demoSession' = demoSession
        PROVE  QueueCurrent'
    <2>1. /\ Live("list")' = {} /\ c \in Live("list")
          /\ UNCHANGED <<timer, filter, asked>> /\ due \subseteq due'
          /\ "list" \in due' => "list" \in due
          /\ errors' = errors \cup failed
          /\ "queue" \notin failed => rows' = ListAnswer(c.arg)
      BY <1>1, <1>4, ArrivalCases DEF ListArrives, Live
    <2>2. c.arg = asked
      BY <1>1, <2>1 DEF QueueCurrent
    <2>3. "queue" \notin errors' =>
            \A i \in 1 .. Len(rows') : asked \in {None, rows'[i].action}
      BY <1>1, <2>1, <2>2, ListAnswerRows
    <2> QED
      BY <1>1, <1>4, <2>1, <2>3 DEF QueueCurrent
  <1>5. CASE Refresh /\ UNCHANGED console
    <2>1. /\ StartList(filter, None, "page") /\ due = {} /\ timer' = timer
          /\ filter' = filter
          /\ Live("list")' = {Call("list", filter, None, "page")}
      BY <1>1, <1>5, RefreshCalls DEF Refresh, Click, queue
    <2>2. timer["list"] \in {None, [filter |-> filter]}
      BY <1>1, <2>1 DEF QueueCurrent
    <2> QED
      BY <2>1, <2>2, QueueRun
  <1>6. CASE Created
    <2>1. /\ StartList(None, None, "demo") /\ due' = due /\ timer' = timer
          /\ filter' = filter /\ demoSession' = [id |-> reply, next |-> 0]
          /\ reply \in Sessions
          /\ Live("list")' = {Call("list", None, None, "demo")}
      BY <1>1, <1>6, CreatedCalls DEF Created, queue
    <2>2. demoSession' # None
      <3>1. demoSession' \in [id : Sessions, next : 0 .. Total]
        BY <2>1, ConsoleAssumption
      <3> QED
        BY <3>1, ConsoleAssumption
    <2>3. "list" \notin due => timer["list"] \in {None, [filter |-> filter]}
      BY <1>1 DEF QueueCurrent
    <2> QED
      BY <2>1, <2>2, <2>3, QueueRun
  <1>7. CASE Stepped
    <2>1. /\ StartList(None, DemoTx[session][reply], "demo") /\ due' = due /\ timer' = timer
          /\ filter' = filter /\ demoSession' = [demoSession EXCEPT !.next = reply]
          /\ phase = "stepping"
          /\ Live("list")' = {Call("list", None, DemoTx[session][reply], "demo")}
          /\ reply \in 1 .. Total
      BY <1>1, <1>7, SteppedCalls DEF Stepped, queue
    <2>2. demoSession' # None
      <3>1. demoSession \in [id : Sessions, next : 0 .. Total] /\ reply \in 0 .. Total
        BY <2>1, ConsoleAssumption DEF IInv, ConsoleInv, ConsoleTypes, RunOnDisplay, Running
      <3>2. demoSession' \in [id : Sessions, next : 0 .. Total]
        BY <2>1, <3>1
      <3> QED
        BY <3>2, ConsoleAssumption
    <2>3. "list" \notin due => timer["list"] \in {None, [filter |-> filter]}
      BY <1>1 DEF QueueCurrent
    <2> QED
      BY <2>1, <2>2, <2>3, QueueRun
  <1>8. ASSUME NEW t \in Tx, Investigate(t), UNCHANGED console PROVE QueueCurrent'
    <2>1. /\ Live("list")' = Live("list") /\ UNCHANGED <<asked, timer, demoSession>>
          /\ filter' = None /\ due \subseteq due'
          /\ "list" \notin due' => filter = None
          /\ "queue" \in errors => "queue" \in errors'
      BY <1>1, <1>8, CloseCalls DEF Investigate, CloseEntity, LiveBut, console
    <2>2. Settled("list")' => Settled("list") /\ filter = None
      BY <2>1 DEF Settled, Live
    <2>3. Settled("list")' => asked = None
      BY <1>1, <2>2 DEF QueueCurrent, Settled
    <2>4. (Settled("list") /\ "queue" \notin errors)' =>
              \A i \in 1 .. Len(rows') : asked' \in {None, rows'[i].action}
      BY <2>1, <2>3
    <2> QED
      BY <1>1, <2>1, <2>4 DEF QueueCurrent
  <1> DEFINE Quiet == /\ UNCHANGED <<asked, timer, rows, demoSession>>
                      /\ due \subseteq due'
                      /\ "queue" \in errors => "queue" \in errors'
                      /\ "list" \notin due' => filter' = filter
  <1>9. Quiet /\ (LiveSame \/ LiveBut("selection") \/ LiveBut("entity")) => QueueCurrent'
    <2> SUFFICES ASSUME Quiet, LiveSame \/ LiveBut("selection") \/ LiveBut("entity")
                 PROVE  QueueCurrent'
      OBVIOUS
    <2>1. QueueFrame /\ rows' = rows
      BY <1>1 DEF QueueFrame, LiveSame, LiveBut
    <2> QED
      BY <1>1, <2>1, QueueFrameKeeps
  <1>10. ASSUME NEW c \in calls, DropStale(c), demoSession' = demoSession
         PROVE  Quiet /\ LiveSame
    BY <1>1, <1>10, ArrivalCases DEF DropStale, queue
  <1>11. ASSUME NEW c \in calls, NEW failed \in SUBSET Panes, SelectionArrives(c, failed),
                demoSession' = demoSession
         PROVE  Quiet /\ LiveBut("selection")
    BY <1>1, <1>11, ArrivalCases DEF SelectionArrives, queue
  <1>12. ASSUME NEW c \in calls, NEW failed \in SUBSET Panes, EntityArrives(c, failed),
                demoSession' = demoSession
         PROVE  Quiet /\ LiveBut("entity")
    BY <1>1, <1>12, ArrivalCases DEF EntityArrives, queue
  <1>13. CASE RetrySelection /\ UNCHANGED console
    <2>1. Quiet
      BY <1>13 DEF RetrySelection, StartSelection, queue, console
    <2> QED
      BY <1>1, <1>9, <1>13, <2>1, RetrySelectionCalls
  <1>14. CASE RetryEntity /\ UNCHANGED console
    <2>1. Quiet
      BY <1>14 DEF RetryEntity, StartEntity, queue, console
    <2> QED
      BY <1>1, <1>9, <1>14, <2>1, RetryEntityCalls
  <1>15. CASE Close /\ UNCHANGED console
    <2>1. Quiet /\ CloseEntity
      BY <1>15 DEF Close, CloseEntity, queue, console
    <2> QED
      BY <1>1, <1>9, <2>1, CloseCalls
  <1>16. CASE \/ /\ UNCHANGED console
                 /\ \/ \E f \in Actions \cup {None} : ChooseFilter(f)
                    \/ \E t \in Tx : SelectRow(t)
                    \/ \E t \in Tx : AssessedElsewhere(t)
                    \/ \E e \in Entities : Explore(e)
                    \/ \E n \in 1 .. MaxPath - 1 : Shorten(n)
              \/ StartDemo \/ DemoOnly
    <2>1. Quiet
      BY <1>16
      DEF ChooseFilter, FilterChange, SelectRow, AssessedElsewhere, Explore, Shorten,
          StartDemo, DemoOnly, ServeCreate, ServeStep, AnswerFails, WaitOver,
          RetryDemo, SessionLost, page, queue, console
    <2>2. calls' = calls
      BY <1>16
      DEF ChooseFilter, SelectRow, AssessedElsewhere, Explore, Shorten,
          StartDemo, DemoOnly, ServeCreate, ServeStep, AnswerFails, WaitOver,
          RetryDemo, SessionLost, page
    <2> QED
      BY <1>1, <1>9, <2>1, <2>2, SameCalls
  <1>17. UNCHANGED console => demoSession' = demoSession
    BY DEF console
  <1> HIDE DEF Quiet
  <1> QED
    BY ConsoleCases, <1>2, <1>3, <1>4, <1>5, <1>6, <1>7, <1>8, <1>9, <1>10, <1>11,
       <1>12, <1>13, <1>14, <1>15, <1>16, <1>17
       DEF Arrival

-----------------------------------------------------------------------------
(* The demo console.                                                       *)

DemoKept(cs) ==
  /\ \A c \in cs : c.by = "demo" => \E d \in calls : d.by = "demo"
  /\ \A c, d \in cs : c.by = "demo" /\ d.by = "demo" => c = d

LEMMA RetiredDemo ==
  ASSUME CallsTyped, DemoCalls, NEW l
  PROVE  DemoKept(Retired(l, calls))
  <1> DEFINE off(d) == [d EXCEPT !.fresh = FALSE]
  <1>1. \A d \in calls : d.by = "demo" => off(d).by = "demo"
    BY DEF CallsTyped, Calls, ListCalls, PaneCalls
  <1>2. \A c \in Retired(l, calls) : c.by = "demo" =>
          \E d \in calls : /\ d.by = "demo"
                           /\ IF d.loader = l THEN c = off(d) ELSE c = d
    BY DEF Retired
  <1> HIDE DEF off
  <1>3. \A d, e \in calls : d.by = "demo" /\ e.by = "demo" => d = e
    BY DEF DemoCalls
  <1> QED
    BY <1>2, <1>3 DEF DemoKept

LEMMA PageKeepsDemo ==
  ASSUME PageTypes, RowsDistinct, CallsTyped, TimersTyped, DemoCalls,
         \/ \E l \in Loaders : RunEffect(l) \/ Fire(l)
         \/ \E c \in calls : DropStale(c) \/ Arrival(c)
         \/ \E f \in Actions \cup {None} : ChooseFilter(f)
         \/ \E t \in Tx : SelectRow(t)
         \/ \E t \in Tx : Investigate(t)
         \/ Refresh \/ RetrySelection \/ Close \/ RetryEntity
         \/ \E e \in Entities : Explore(e)
         \/ \E n \in 1 .. MaxPath - 1 : Shorten(n)
         \/ \E t \in Tx : AssessedElsewhere(t)
  PROVE  DemoKept(calls')
  <1>1. \A l : DemoKept(Retired(l, calls))
    BY RetiredDemo
  <1>2. \A l, c : c.by = "page" => DemoKept(Retired(l, calls) \cup {c})
    BY <1>1 DEF DemoKept
  <1>3. \A cs : cs \subseteq calls => DemoKept(cs)
    BY DEF DemoKept, DemoCalls
  <1>4. \A l, a, p : Call(l, a, p, "page").by = "page"
    BY DEF Call
  <1>5. \A f, p : StartList(f, p, "page") => DemoKept(calls')
    BY <1>2, <1>4 DEF StartList
  <1>6. \A row : StartSelection(row) => DemoKept(calls')
    BY <1>1, <1>2, <1>4 DEF StartSelection
  <1>7. \A e : StartEntity(e) => DemoKept(calls')
    BY <1>1, <1>2, <1>4 DEF StartEntity
  <1>8. CloseEntity => DemoKept(calls')
    BY <1>1 DEF CloseEntity
  <1>9. \A c, n : Settle(c, n) => DemoKept(calls')
    BY <1>3 DEF Settle
  <1>10. calls' = calls => DemoKept(calls')
    BY <1>3
  <1>11. ASSUME NEW l \in Loaders, RunEffect(l) \/ Fire(l) PROVE DemoKept(calls')
    BY <1>1, <1>5, <1>6, <1>7, <1>11 DEF RunEffect, Fire
  <1>12. ASSUME NEW c \in calls, DropStale(c) \/ Arrival(c) PROVE DemoKept(calls')
    BY <1>9, <1>12
       DEF DropStale, Arrival, ListArrives, SelectionArrives, EntityArrives
  <1>13. CASE \E t \in Tx : Investigate(t)
    BY <1>8, <1>13 DEF Investigate
  <1>14. CASE Refresh \/ RetrySelection \/ Close \/ RetryEntity
    BY <1>5, <1>6, <1>7, <1>8, <1>14 DEF Refresh, RetrySelection, Close, RetryEntity
  <1>15. CASE \/ \E f \in Actions \cup {None} : ChooseFilter(f)
              \/ \E t \in Tx : SelectRow(t)
              \/ \E e \in Entities : Explore(e)
              \/ \E n \in 1 .. MaxPath - 1 : Shorten(n)
              \/ \E t \in Tx : AssessedElsewhere(t)
    BY <1>10, <1>15 DEF ChooseFilter, SelectRow, Explore, Shorten, AssessedElsewhere, page
  <1> QED
    BY <1>11, <1>12, <1>13, <1>14, <1>15

(* The backend's and the console's own facts follow each other.            *)
LEMMA RunFromKeeps ==
  ASSUME ConsoleInv, NEW s, NEW k, RunFrom(s, k),
         demoSession # None, s = demoSession.id, k = demoSession.next,
         reply = None, \A c \in calls : c.by # "demo", calls' = calls,
         UNCHANGED <<served, demoSession, latest>>
  PROVE  ConsoleInv'
  <1>1. /\ s \in Sessions /\ k \in 0 .. Total /\ Total \in Nat
        /\ demoSession \in [id : Sessions, next : 0 .. Total]
        /\ ConsoleTypes /\ RunOnDisplay /\ DisplayServed /\ ReplyTrue /\ DemoCalls
    BY ConsoleAssumption DEF ConsoleInv, ConsoleTypes
  <1>2. CASE k < Total
    <2>1. /\ phase' = "stepping" /\ session' = s /\ expected' = k
          /\ status' = "injecting" /\ reply' = None
      BY <1>2 DEF RunFrom
    <2>2. ConsoleTypes' /\ RunOnDisplay' /\ DisplayServed' /\ DemoCalls'
      BY <1>1, <1>2, <2>1
         DEF ConsoleTypes, RunOnDisplay, DisplayServed, DemoCalls, Phases, Running, Done
    <2>3. ReplyTrue'
      <3>1. k + 1 # None
        BY <1>1, ConsoleAssumption
      <3> QED
        BY <1>1, <2>1, <3>1, ConsoleAssumption DEF ReplyTrue
    <2> QED
      BY <2>2, <2>3 DEF ConsoleInv
  <1>3. CASE ~(k < Total)
    <2>1. /\ phase' = "idle" /\ session' = None /\ expected' = 0
          /\ status' = "complete" /\ reply' = None
      BY <1>3 DEF RunFrom, Stop
    <2>2. k = Total
      BY <1>1, <1>3
    <2> QED
      BY <1>1, <2>1, <2>2
         DEF ConsoleInv, ConsoleTypes, RunOnDisplay, DisplayServed, ReplyTrue, DemoCalls,
             Phases, Running, Done
  <1> QED
    BY <1>2, <1>3

LEMMA ConsoleStep ==
  ASSUME IInv, Next
  PROVE  ConsoleInv'
  <1>1. /\ PageTypes /\ RowsDistinct /\ CallsTyped /\ TimersTyped
        /\ ConsoleInv /\ ConsoleTypes /\ RunOnDisplay /\ DisplayServed
        /\ ReplyTrue /\ DemoCalls
    BY DEF IInv, PageInv, ConsoleInv
  <1>2. /\ Total \in Nat \ {0} /\ None \notin Nat \cup Sessions
        /\ None \notin [id : Sessions, next : 0 .. Total]
        /\ Gone \notin Nat \cup {None} /\ Failed \notin Nat \cup Sessions \cup {None}
    BY ConsoleAssumption
  <1>3. \A n \in 0 .. Total : n \in Nat /\ n # None /\ n # Gone /\ n # Failed
    BY <1>2
  <1>4. demoSession # None => /\ demoSession \in [id : Sessions, next : 0 .. Total]
                              /\ demoSession.id \in Sessions
                              /\ demoSession.next \in 0 .. Total
                              /\ Done \in 0 .. Total \cup {Gone}
    BY <1>1 DEF ConsoleTypes, DisplayServed, Done
  <1>5. phase \notin {"preparing", "refreshing"} => \A c \in calls : c.by # "demo"
    BY <1>1 DEF DemoCalls
  <1>6. DemoKept(calls') /\ UNCHANGED console => ConsoleInv'
    <2> SUFFICES ASSUME DemoKept(calls'), UNCHANGED console PROVE ConsoleInv'
      OBVIOUS
    <2>1. DemoCalls'
      BY <1>1 DEF DemoKept, DemoCalls, console
    <2>2. ConsoleTypes' /\ RunOnDisplay' /\ DisplayServed' /\ ReplyTrue'
      BY <1>1 DEF ConsoleTypes, RunOnDisplay, DisplayServed, ReplyTrue, Done, console
    <2> QED
      BY <2>1, <2>2 DEF ConsoleInv
  <1>7. ASSUME NEW c \in calls, DropStale(c) \/ Arrival(c), Reloaded(c)
        PROVE  ConsoleInv'
    <2>1. c.by = "demo" /\ calls' = calls \ {c}
      BY <1>7 DEF Reloaded, DropStale, Arrival, ListArrives, SelectionArrives,
                  EntityArrives, Settle
    <2>2. /\ phase \in {"preparing", "refreshing"}
          /\ \A d \in calls' : d.by # "demo"
      BY <1>1, <2>1 DEF DemoCalls
    <2>3. /\ demoSession # None /\ session = demoSession.id /\ reply = None
          /\ expected = demoSession.next /\ expected \in 0 .. Total
          /\ UNCHANGED <<served, reply, demoSession, latest>>
      BY <1>1, <1>7, <2>2 DEF RunOnDisplay, Running, ReplyTrue, Reloaded, ConsoleTypes
    <2>4. CASE phase = "refreshing" /\ expected = Total
      <3>1. phase' = "idle" /\ status' = "complete" /\ session' = None /\ expected' = 0
        BY <1>7, <2>4 DEF Reloaded, Stop
      <3> QED
        BY <1>1, <1>2, <2>2, <2>3, <2>4, <3>1
           DEF ConsoleInv, ConsoleTypes, RunOnDisplay, DisplayServed, ReplyTrue,
               DemoCalls, Phases, Running, Done
    <2>5. CASE ~(phase = "refreshing" /\ expected = Total)
      <3>1. phase' = "waiting" /\ UNCHANGED <<session, expected, status>>
        BY <1>7, <2>5 DEF Reloaded
      <3> QED
        BY <1>1, <2>2, <2>3, <3>1
           DEF ConsoleInv, ConsoleTypes, RunOnDisplay, DisplayServed, ReplyTrue,
               DemoCalls, Phases, Running, Done
    <2> QED
      BY <2>4, <2>5
  <1>8. CASE StartDemo
    <2>1. /\ phase = "idle" /\ phase' = "creating" /\ latest' = None
          /\ status' = "preparing" /\ calls' = calls
          /\ UNCHANGED <<served, session, expected, reply, demoSession>>
      BY <1>8 DEF StartDemo
    <2>2. /\ reply = None /\ session = None /\ expected = 0
          /\ \A c \in calls : c.by # "demo"
      BY <1>1, <1>5, <2>1 DEF ReplyTrue, RunOnDisplay
    <2>3. ConsoleTypes' /\ RunOnDisplay'
      BY <1>1, <2>1, <2>2 DEF ConsoleTypes, RunOnDisplay, Phases, Running
    <2>4. DisplayServed'
      BY <1>1, <2>1 DEF DisplayServed, Done
    <2>5. ReplyTrue' /\ DemoCalls'
      BY <1>2, <2>1, <2>2 DEF ReplyTrue, DemoCalls
    <2> QED
      BY <2>3, <2>4, <2>5 DEF ConsoleInv
  <1>9. CASE RetryDemo
    <2>1. /\ phase = "idle" /\ demoSession # None /\ calls' = calls
          /\ RunFrom(demoSession.id, demoSession.next)
          /\ UNCHANGED <<served, demoSession, latest>>
      BY <1>9 DEF RetryDemo
    <2>2. reply = None /\ \A c \in calls : c.by # "demo"
      BY <1>1, <1>5, <2>1 DEF ReplyTrue
    <2> QED
      BY <1>1, <2>1, <2>2, RunFromKeeps
  <1>10. CASE WaitOver
    <2>1. /\ phase = "waiting" /\ RunFrom(session, expected) /\ calls' = calls
          /\ UNCHANGED <<served, demoSession, latest>>
      BY <1>10 DEF WaitOver
    <2>2. /\ reply = None /\ \A c \in calls : c.by # "demo"
          /\ demoSession # None /\ session = demoSession.id /\ expected = demoSession.next
      BY <1>1, <1>5, <2>1 DEF ReplyTrue, RunOnDisplay, Running
    <2> QED
      BY <1>1, <2>1, <2>2, RunFromKeeps
  <1>11. CASE ServeCreate
    <2>1. /\ phase = "creating" /\ calls' = calls /\ reply = None
          /\ UNCHANGED <<phase, session, expected, demoSession, latest, status>>
      BY <1>11 DEF ServeCreate, page
    <2>2. \/ /\ reply' = Failed /\ served' = served
          \/ \E s \in Sessions : /\ served[s] = None /\ served' = [served EXCEPT ![s] = 0]
                                 /\ reply' \in {s, Failed}
      BY <1>11 DEF ServeCreate
    <2>3. CASE reply' = Failed /\ served' = served
      BY <1>1, <1>2, <1>5, <2>1, <2>3
         DEF ConsoleInv, ConsoleTypes, RunOnDisplay, DisplayServed, ReplyTrue,
             DemoCalls, Running, Done
    <2>4. ASSUME NEW s \in Sessions, served[s] = None,
                 served' = [served EXCEPT ![s] = 0], reply' \in {s, Failed}
          PROVE  ConsoleInv'
      <3>1. served' \in [Sessions -> 0 .. Total \cup {None, Gone}] /\ served'[s] = 0
        BY <1>1, <1>2, <2>4 DEF ConsoleTypes
      <3>2. demoSession # None => served'[demoSession.id] = served[demoSession.id]
        BY <1>1, <1>4, <2>4 DEF ConsoleTypes, DisplayServed, Done
      <3>3. DisplayServed'
        BY <1>1, <2>1, <3>2 DEF DisplayServed, Done
      <3>4. ReplyTrue'
        BY <1>2, <2>1, <2>4, <3>1 DEF ReplyTrue
      <3> QED
        BY <1>1, <2>1, <3>1, <3>3, <3>4
           DEF ConsoleInv, ConsoleTypes, RunOnDisplay, DemoCalls, Running
    <2> QED
      BY <2>2, <2>3, <2>4
  <1>12. CASE ServeStep
    <2>1. /\ phase = "stepping" /\ calls' = calls /\ reply = None
          /\ UNCHANGED <<phase, session, expected, demoSession, latest, status>>
      BY <1>12 DEF ServeStep, page
    <2>2. /\ demoSession # None /\ session = demoSession.id /\ session \in Sessions
          /\ expected = demoSession.next /\ expected \in 0 .. Total /\ expected < Total
          /\ served[session] \in 0 .. Total \cup {Gone} /\ Done = served[session]
          /\ served[session] # Gone => served[session] - expected \in {0, 1}
          /\ status # "complete"
      BY <1>1, <1>2, <1>4, <2>1 DEF RunOnDisplay, Running, DisplayServed, Done
    <2>3. \/ /\ served' = served
             /\ \/ reply' = Failed
                \/ /\ served[session] # Gone /\ expected < served[session]
                   /\ reply' = expected + 1
          \/ /\ served[session] # Gone /\ expected = served[session]
             /\ served' = [served EXCEPT ![session] = expected + 1]
             /\ reply' \in {expected + 1, Failed}
      BY <1>12 DEF ServeStep, Perform
    <2>4. CASE /\ served' = served
               /\ \/ reply' = Failed
                  \/ /\ served[session] # Gone /\ expected < served[session]
                     /\ reply' = expected + 1
      <3>1. reply' = expected + 1 => served[session] \in {expected + 1, Gone}
        BY <1>2, <1>3, <2>2, <2>4
      <3>2. ReplyTrue'
        BY <2>1, <2>2, <2>4, <3>1 DEF ReplyTrue, Done
      <3> QED
        BY <1>1, <2>1, <2>4, <3>2
           DEF ConsoleInv, ConsoleTypes, RunOnDisplay, DisplayServed, DemoCalls,
               Running, Done
    <2>5. CASE /\ served[session] # Gone /\ expected = served[session]
               /\ served' = [served EXCEPT ![session] = expected + 1]
               /\ reply' \in {expected + 1, Failed}
      <3>1. /\ served' \in [Sessions -> 0 .. Total \cup {None, Gone}]
            /\ served'[session] = expected + 1 /\ expected + 1 \in 0 .. Total
        BY <1>1, <1>2, <2>2, <2>5 DEF ConsoleTypes
      <3>2. DisplayServed'
        BY <1>1, <1>3, <2>1, <2>2, <3>1 DEF DisplayServed, Done
      <3>3. ReplyTrue'
        BY <2>1, <2>2, <2>5, <3>1 DEF ReplyTrue, Done
      <3> QED
        BY <1>1, <2>1, <3>1, <3>2, <3>3
           DEF ConsoleInv, ConsoleTypes, RunOnDisplay, DemoCalls, Running
    <2> QED
      BY <2>3, <2>4, <2>5
  <1>13. ASSUME NEW s \in Sessions, SessionLost(s) PROVE ConsoleInv'
    <2>1. /\ served[s] \notin {None, Gone} /\ served' = [served EXCEPT ![s] = Gone]
          /\ calls' = calls
          /\ UNCHANGED <<phase, session, expected, reply, demoSession, latest, status>>
      BY <1>13 DEF SessionLost, page
    <2>2. /\ served' \in [Sessions -> 0 .. Total \cup {None, Gone}]
          /\ \A r \in Sessions : served'[r] \in {served[r], Gone}
      BY <1>1, <2>1 DEF ConsoleTypes
    <2>3. DisplayServed'
      BY <1>1, <1>2, <1>4, <2>1, <2>2 DEF DisplayServed, Done
    <2>4. ReplyTrue'
      <3>1. CASE phase = "stepping"
        <4>1. demoSession # None
          BY <1>1, <3>1 DEF RunOnDisplay, Running
        <4> QED
          BY <1>1, <1>4, <2>1, <2>2, <3>1, <4>1 DEF ReplyTrue, Done
      <3>2. CASE phase # "stepping"
        BY <1>1, <2>1, <2>2, <3>2 DEF ReplyTrue
      <3> QED
        BY <3>1, <3>2
    <2> QED
      BY <1>1, <2>1, <2>2, <2>3, <2>4
         DEF ConsoleInv, ConsoleTypes, RunOnDisplay, DemoCalls, Running
  <1>14. CASE AnswerFails
    <2>1. /\ reply = Failed /\ reply' = None /\ phase' = "idle" /\ session' = None
          /\ expected' = 0 /\ status' \in {"unavailable", "paused"} /\ calls' = calls
          /\ UNCHANGED <<served, demoSession, latest>>
      BY <1>14 DEF AnswerFails, Stop
    <2>2. phase \in {"creating", "stepping"}
      <3>1. reply # None
        BY <1>2, <2>1
      <3> QED
        BY <1>1, <3>1 DEF ReplyTrue
    <2>3. \A c \in calls : c.by # "demo"
      BY <1>5, <2>2
    <2>4. ConsoleTypes' /\ RunOnDisplay'
      BY <1>1, <1>2, <2>1 DEF ConsoleTypes, RunOnDisplay, Phases, Running
    <2>5. DisplayServed'
      BY <1>1, <2>1 DEF DisplayServed, Done
    <2>6. ReplyTrue' /\ DemoCalls'
      BY <2>1, <2>3 DEF ReplyTrue, DemoCalls
    <2> QED
      BY <2>4, <2>5, <2>6 DEF ConsoleInv
  <1>15. ASSUME NEW f, NEW p, StartList(f, p, "demo"), phase \in {"creating", "stepping"},
                phase' \in {"preparing", "refreshing"}
         PROVE  DemoCalls'
    <2>1. \A c \in calls : c.by # "demo"
      BY <1>5, <1>15
    <2>2. \A c \in Retired("list", calls) : c.by # "demo"
      BY <2>1 DEF Retired
    <2>3. calls' = Retired("list", calls) \cup {Call("list", f, p, "demo")}
      BY <1>15 DEF StartList
    <2> QED
      BY <1>15, <2>2, <2>3 DEF DemoCalls
  <1>16. CASE Created
    <2>1. /\ phase = "creating" /\ reply \in Sessions /\ reply' = None
          /\ demoSession' = [id |-> reply, next |-> 0] /\ status' = "baseline"
          /\ StartList(None, None, "demo")
          /\ phase' = "preparing" /\ session' = reply /\ expected' = 0
          /\ UNCHANGED <<served, latest>>
      BY <1>16 DEF Created
    <2>2. DemoCalls'
      BY <1>15, <2>1
    <2>3. served[reply] \in {0, Gone} /\ latest = None
      BY <1>1, <2>1 DEF ReplyTrue, RunOnDisplay
    <2>4. ConsoleTypes'
      BY <1>1, <1>2, <2>1 DEF ConsoleTypes, Phases
    <2>5. demoSession' # None
      BY <1>2, <2>1, <2>4 DEF ConsoleTypes
    <2>6. RunOnDisplay' /\ DisplayServed' /\ ReplyTrue'
      BY <1>2, <2>1, <2>3, <2>5 DEF RunOnDisplay, DisplayServed, ReplyTrue, Running, Done
    <2> QED
      BY <2>2, <2>4, <2>6 DEF ConsoleInv
  <1>17. CASE Stepped
    <2>1. /\ phase = "stepping" /\ reply \in 1 .. Total /\ reply' = None
          /\ latest' = reply /\ expected' = reply
          /\ demoSession' = [demoSession EXCEPT !.next = reply]
          /\ StartList(None, DemoTx[session][reply], "demo")
          /\ phase' = "refreshing"
          /\ UNCHANGED <<served, session, status>>
      BY <1>17 DEF Stepped
    <2>2. DemoCalls'
      BY <1>15, <2>1
    <2>3. /\ demoSession # None /\ session = demoSession.id
          /\ expected = demoSession.next /\ expected < Total
          /\ reply = expected + 1 /\ Done \in {reply, Gone}
          /\ demoSession \in [id : Sessions, next : 0 .. Total]
          /\ reply \in 0 .. Total
          /\ expected \in Nat
      <3>1. reply # None /\ reply # Failed /\ reply \in 0 .. Total
        BY <1>2, <2>1
      <3> QED
        BY <1>1, <1>4, <2>1, <3>1 DEF RunOnDisplay, Running, ReplyTrue, ConsoleTypes
    <2>4. /\ demoSession' \in [id : Sessions, next : 0 .. Total]
          /\ demoSession'.id = demoSession.id /\ demoSession'.next = reply
          /\ demoSession' # None
      BY <1>2, <2>1, <2>3
    <2>5. status # "complete"
      BY <1>1, <1>2, <2>3 DEF DisplayServed
    <2>6. ConsoleTypes'
      BY <1>1, <2>1, <2>3, <2>4 DEF ConsoleTypes, Phases
    <2>7. RunOnDisplay' /\ ReplyTrue'
      BY <2>1, <2>3, <2>4 DEF RunOnDisplay, ReplyTrue, Running
    <2>8. DisplayServed'
      <3>1. Done' = Done /\ Done # None /\ Done \in {reply, Gone}
        BY <1>1, <2>1, <2>3, <2>4 DEF Done, DisplayServed
      <3>2. reply - reply = 0
        BY <2>1
      <3> QED
        BY <2>1, <2>4, <2>5, <3>1, <3>2 DEF DisplayServed
    <2> QED
      BY <2>2, <2>6, <2>7, <2>8 DEF ConsoleInv
  <1> QED
    BY ConsoleCases, PageKeepsDemo, <1>1, <1>6, <1>7, <1>8, <1>9, <1>10, <1>11,
       <1>12, <1>13, <1>14, <1>16, <1>17
       DEF DemoOnly

-----------------------------------------------------------------------------
(* The theorems.                                                           *)

LEMMA InitInv == ConsoleInit => IInv
  <1> SUFFICES ASSUME ConsoleInit PROVE IInv
    OBVIOUS
  <1> USE DEF ConsoleInit, Init
  <1>1. PageTypes
    <2>1. Len(<<>>) = 0 /\ MaxPath \in Nat /\ <<>> \in Seq(Entities)
      BY DashboardAssumption
    <2> QED
      BY <2>1, DashboardAssumption DEF PageTypes, Loaders
  <1>2. RowsDistinct
    <2>1. Len(<<>>) = 0 /\ PageSize \in Nat /\ <<>> \in Seq(Row)
      BY DashboardAssumption
    <2> QED
      BY <2>1 DEF RowsDistinct
  <1>3. TimersTyped
    BY DEF TimersTyped
  <1>4. CallsTyped
    BY DEF CallsTyped
  <1>5. SelectionListed /\ SelectionCurrent /\ EntityCurrent /\ QueueCurrent
    BY DEF SelectionListed, SelectionCurrent, EntityCurrent, QueueCurrent, Live,
           Loaders, Settled
  <1>6. ConsoleInv
    BY ConsoleAssumption
       DEF ConsoleInv, ConsoleTypes, RunOnDisplay, DisplayServed, ReplyTrue,
           DemoCalls, Phases, Running
  <1> QED
    BY <1>1, <1>2, <1>3, <1>4, <1>5, <1>6 DEF IInv, PageInv

LEMMA StutterInv == IInv /\ UNCHANGED allVars => IInv'
  <1> SUFFICES ASSUME IInv, UNCHANGED allVars PROVE IInv'
    OBVIOUS
  <1> USE DEF allVars, vars, page, queue, console
  <1>1. PageTypes' /\ RowsDistinct' /\ TimersTyped'
    BY DEF IInv, PageInv, PageTypes, RowsDistinct, TimersTyped, Closures, Row
  <1>2. CallsTyped' /\ LiveSame
    BY SameCalls DEF IInv, PageInv
  <1>3. SelectionListed' /\ SelectionFrame /\ EntityFrame /\ QueueFrame
    BY <1>2 DEF IInv, PageInv, SelectionListed, Ids, SelectionFrame, EntityFrame,
                QueueFrame, LiveSame, Loaders, selected, Shown
  <1>4. SelectionCurrent' /\ EntityCurrent' /\ QueueCurrent'
    BY <1>3, SelectionFrameKeeps, EntityFrameKeeps, QueueFrameKeeps DEF IInv, PageInv
  <1>5. ConsoleInv'
    BY DEF IInv, ConsoleInv, ConsoleTypes, RunOnDisplay, DisplayServed, ReplyTrue,
           DemoCalls, Done
  <1> QED
    BY <1>1, <1>2, <1>3, <1>4, <1>5 DEF IInv, PageInv

THEOREM DashboardInvariant == Spec => []IInv
  <1>1. IInv /\ [Next]_allVars => IInv'
    BY RowsStep, TimersStep, CallsStep, TypesStep, ListedStep, SelectionStep,
       EntityStep, QueueStep, ConsoleStep, StutterInv DEF IInv, PageInv
  <1> QED
    BY InitInv, <1>1, PTL DEF Spec

LEMMA TypeOKFollows == IInv => TypeOK
  <1> SUFFICES ASSUME IInv PROVE TypeOK
    OBVIOUS
  <1>1. /\ PageTypes /\ RowsDistinct /\ CallsTyped /\ ConsoleTypes
        /\ PageSize \in Nat /\ MaxPath \in Nat
    BY DashboardAssumption DEF IInv, PageInv, ConsoleInv
  <1>2. rows \in BoundedSeq(Row, PageSize) /\ path \in BoundedSeq(Entities, MaxPath)
    <2>1. \A S, s, n : s \in Seq(S) /\ n \in Nat /\ Len(s) =< n =>
            \E m \in 0 .. n : s \in [1 .. m -> S]
      <3> SUFFICES ASSUME NEW S, NEW s \in Seq(S), NEW n \in Nat, Len(s) =< n
                   PROVE  \E m \in 0 .. n : s \in [1 .. m -> S]
        OBVIOUS
      <3>1. Len(s) \in 0 .. n /\ s \in [1 .. Len(s) -> S]
        OBVIOUS
      <3> QED
        BY <3>1
    <2>2. /\ \E m \in 0 .. PageSize : rows \in [1 .. m -> Row]
          /\ \E m \in 0 .. MaxPath : path \in [1 .. m -> Entities]
      BY <1>1, <2>1 DEF RowsDistinct, PageTypes
    <2> QED
      BY <2>2 DEF BoundedSeq, SeqOf
  <1>3. Cardinality(Ids(rows)) = Len(rows)
    <2> DEFINE n == Len(rows)
               f == [i \in 1 .. n |-> rows[i].id]
    <2>1. n \in Nat /\ Ids(rows) = {rows[i].id : i \in 1 .. n}
      BY <1>1 DEF Ids, RowsDistinct
    <2>2. f \in Bijection(1 .. n, Ids(rows))
      BY <1>1, <2>1 DEF Bijection, Injection, Surjection, IsInjective, RowsDistinct
    <2>3. ExistsBijection(1 .. n, Ids(rows))
      BY <2>2 DEF ExistsBijection
    <2> HIDE DEF n
    <2>4. Cardinality(Ids(rows)) = n
      BY <2>1, <2>3, FS_CountingElements
    <2> QED
      BY <2>4 DEF n
  <1>4. ASSUME NEW l \in Loaders
        PROVE  Cardinality({c \in calls : c.loader = l /\ c.fresh}) < 2
    <2> DEFINE L == {c \in calls : c.loader = l /\ c.fresh}
    <2>1. L = {} \/ \E c : L = {c}
      BY <1>1 DEF CallsTyped
    <2> HIDE DEF L
    <2>2. Cardinality(L) \in {0, 1}
      BY <2>1, FS_EmptySet, FS_Singleton
    <2> QED
      BY <2>2 DEF L
  <1> QED
    BY <1>1, <1>2, <1>3, <1>4 DEF TypeOK, PageTypes, ConsoleTypes

(* The page and the console keep their types, the page never shows more    *)
(* rows or breadcrumbs than it should, and no loader has two calls whose   *)
(* answers it would take.                                                  *)
THEOREM DashboardTypeCorrect == Spec => []TypeOK
  BY DashboardInvariant, TypeOKFollows, PTL

(* A pane that has settled is about what is selected now, whatever the     *)
(* order of clicks, effects, timers and answers (dashboard.tsx:514, 538).  *)
THEOREM PanesAgree == Spec => []ScreenAgrees
  <1>1. IInv => ScreenAgrees
    BY DEF IInv, PageInv, SelectionCurrent, EntityCurrent, ScreenAgrees,
           SelectionAgrees, EntityAgrees, Settled
  <1> QED
    BY DashboardInvariant, <1>1, PTL

(* A selected id always has a row to show (dashboard.tsx:388-393, 419).    *)
THEOREM SelectionNeverDangles == Spec => []SelectionResolves
  <1>1. IInv => SelectionResolves
    BY SelectedRow DEF IInv, PageInv, SelectionResolves
  <1> QED
    BY DashboardInvariant, <1>1, PTL

(* The queue that has settled holds what the last load asked for, which is *)
(* the highlighted filter unless a demo reloads it (dashboard.tsx:412,     *)
(* 448).                                                                   *)
THEOREM QueueFollowsLastRequest == Spec => []QueueMatchesRequest
  <1>1. IInv => QueueMatchesRequest
    <2> SUFFICES ASSUME IInv, Settled("list"), "queue" \notin errors
                 PROVE  /\ \A i \in DOMAIN rows : asked \in {None, rows[i].action}
                        /\ demoSession = None => asked = filter
      BY DEF QueueMatchesRequest
    <2>1. "list" \notin due /\ timer["list"] = None
      BY DEF Settled
    <2> QED
      BY <2>1 DEF IInv, PageInv, QueueCurrent, RowsDistinct
  <1> QED
    BY DashboardInvariant, <1>1, PTL

(* The displayed progress is what the backend has done, or one step behind *)
(* it; "Scenario complete" is the truth (dashboard.tsx:434-464, 491).      *)
THEOREM DisplayedProgressIsServed == Spec => []ProgressIsServed
  <1>1. IInv => ProgressIsServed
    <2> SUFFICES ASSUME IInv, demoSession # None
                 PROVE  LET n == served[demoSession.id] IN
                        /\ n # Gone => n - demoSession.next \in {0, 1}
                        /\ phase = "stepping" /\ n # Gone => expected =< n
                        /\ latest \in {None, demoSession.next}
                        /\ status = "complete" => /\ demoSession.next = Total
                                                  /\ n \in {Total, Gone}
      BY DEF ProgressIsServed
    <2>1. /\ ConsoleTypes /\ RunOnDisplay /\ DisplayServed /\ Total \in Nat
      BY ConsoleAssumption DEF IInv, ConsoleInv
    <2>2. /\ demoSession \in [id : Sessions, next : 0 .. Total]
          /\ Done \in 0 .. Total \cup {Gone}
      BY <2>1 DEF ConsoleTypes, DisplayServed, Done
    <2>3. Done # Gone => Done \in 0 .. Total /\ Done - demoSession.next \in {0, 1}
      BY <2>1, <2>2 DEF DisplayServed
    <2> QED
      BY <2>1, <2>2, <2>3 DEF RunOnDisplay, DisplayServed, Running, Done
  <1> QED
    BY DashboardInvariant, <1>1, PTL
=============================================================================
