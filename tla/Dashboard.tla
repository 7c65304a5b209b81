------------------------------ MODULE Dashboard ------------------------------
(***************************************************************************)
(* The operations page (apps/web/src/components/dashboard.tsx): the queue  *)
(* of payments, the workspace of the selected one and the entity explorer. *)
(* Three loaders fetch for them.  Each numbers its calls and drops an      *)
(* answer that is not its latest call's.  When what a loader reads has     *)
(* changed, React re-runs its effect: the cleanup clears the pending timer *)
(* and retires the calls under way, and a new timer starts the loader with *)
(* the values of that render.                                              *)
(*                                                                         *)
(* JavaScript runs one task at a time: an action is one event handler, one *)
(* effect, one timer, or the code after an await.  Whether a call is the   *)
(* latest of its loader is kept as "fresh" in place of the numbers.        *)
(***************************************************************************)
EXTENDS Naturals, FiniteSetsExt, SequencesExt

CONSTANTS
  Tx,          \* payments, as naturals: a later one has the later event_time
  Actions,     \* policy actions
  Initial,     \* what the backend stores at first: Tx -> action or mark
  Entities,    \* identities that can be explored
  Linked,      \* Linked[t]: the identities on the graph of payment t
  PageSize,    \* rows of the queue (50)
  MaxPath,     \* length of the explorer's breadcrumb (6)
  MaxEvents,   \* bound: user actions, failed requests, acts of others
  Absent, Pending, \* a payment not ingested, not assessed
  None

ASSUME DashboardAssumption ==
  /\ Tx \subseteq Nat /\ IsFiniteSet(Tx)
  /\ {PageSize, MaxPath} \subseteq Nat \ {0} /\ MaxEvents \in Nat
  /\ Initial \in [Tx -> Actions \cup {Absent, Pending}]
  /\ Linked \in [Tx -> SUBSET Entities]
  /\ None \notin Tx \cup Actions \cup Entities
  /\ Absent # Pending /\ {Absent, Pending} \cap Actions = {}

VARIABLES
  stored,      \* the backend: what it knows of each payment
  rows,        \* transactions: the queue, rows [id, action]
  filter,      \* the chosen action filter, None for all
  asked,       \* what the last load of the queue asked for (history)
  selectedId,
  override,    \* selectedOverride: a payment opened from the explorer
  overrideRef, \* selectedOverrideRef
  report,      \* investigation: the payment it is about
  graph,       \* graph: the payment it is about
  path,        \* entityPath
  entityData,  \* the identity whose data is shown
  errors,      \* panes that show an error
  loading,     \* loaders whose panes show a skeleton
  due,         \* loaders whose effect has to run again
  timer,       \* timer[l]: the arguments its timer was set with, or None
  calls,       \* requests under way
  events       \* of those that MaxEvents counts

queue == <<rows, filter, selectedId, override, overrideRef>>
page == <<queue, asked, report, graph, path, entityData, errors, loading,
          due, timer, calls>>
vars == <<stored, page, events>>

Loaders == {"list", "selection", "entity"}
Panes == {"summary", "queue", "investigation", "graph", "entity", "demo"}

Row == [id : Tx, action : Actions \cup {Pending}]
RowOf(t) == [id |-> t, action |-> stored[t]]
Ids(rs) == {rs[i].id : i \in DOMAIN rs}
Assessed(row) == row # None /\ row.action # Pending

(* What the timer of each loader carries: the values its effect closed     *)
(* over.                                                                   *)
Closures == [list      |-> [filter : Actions \cup {None}],
             selection |-> [row : Row \cup {None}],
             entity    |-> [entity : Entities \cup {None}]]

ASSUME NoneAssumption ==
  None \notin Row \cup Closures.list \cup Closures.selection \cup Closures.entity

Count(n) == events + n =< MaxEvents /\ events' = events + n

Init ==
  /\ stored = Initial
  /\ rows = <<>> /\ filter = None /\ asked = None
  /\ selectedId = None /\ override = None /\ overrideRef = None
  /\ report = None /\ graph = None
  /\ path = <<>> /\ entityData = None
  /\ errors = {} /\ loading = {"list"}
  /\ due = Loaders /\ timer = [l \in Loaders |-> None] /\ calls = {}
  /\ events = 0

-----------------------------------------------------------------------------
(* What the page derives from its state, and what the backend answers.     *)

Shown(rs, id, ov) ==
  IF id \in Ids(rs) THEN rs[CHOOSE i \in DOMAIN rs : rs[i].id = id]
  ELSE IF ov # None /\ ov.id = id THEN ov ELSE None

selected == Shown(rows, selectedId, override)
activeEntity == IF path = <<>> THEN None ELSE Last(path)

(* dashboard_transactions: the newest payments that match, one page.       *)
Matching(f) == {t \in Tx : stored[t] # Absent /\ f \in {None, stored[t]}}
Newest(ts) == [k \in 1 .. Min({Cardinality(ts), PageSize}) |->
                 CHOOSE t \in ts : Cardinality({u \in ts : u > t}) = k - 1]
ListAnswer(f) == LET ids == Newest(Matching(f))
                 IN  [i \in DOMAIN ids |-> RowOf(ids[i])]

(* Mutant: the current payment is kept although it is nowhere any more.    *)
NextSelected_KeepsCurrent(items, preferred) ==
  IF preferred \in Ids(items) THEN preferred ELSE selectedId

(* The row that a refreshed queue selects: the payment asked for, else the *)
(* current one if it is listed or was opened from the explorer, else the   *)
(* first assessed payment, else the first.                                 *)
NextSelected(items, preferred) ==
  LET done == {i \in DOMAIN items : Assessed(items[i])}
  IN  CASE preferred \in Ids(items) -> preferred
        [] preferred \notin Ids(items) /\
          (\/ selectedId \in Ids(items)
           \/ overrideRef # None /\ overrideRef.id = selectedId) -> selectedId
        [] OTHER -> IF done # {} THEN items[Min(done)].id
                    ELSE IF items # <<>> THEN items[1].id ELSE None

-----------------------------------------------------------------------------
(* Calls.                                                                  *)

(* Mutant: a new call does not retire the earlier ones.                    *)
Retired_None(l, cs) == cs

(* The answer of a retired call is dropped whole, so it is not kept; only  *)
(* the demo still waits until its own calls settle.                        *)
Retired(l, cs) ==
  {c \in cs : c.loader # l}
    \cup {[c EXCEPT !.fresh = FALSE] : c \in {d \in cs : /\ d.loader = l
                                                       /\ d.by = "demo"}}

Call(l, arg, preferred, by) ==
  [loader |-> l, arg |-> arg, preferred |-> preferred, by |-> by,
   fresh |-> TRUE]

Skeleton(l, on) == loading' = IF on THEN loading \cup {l} ELSE loading \ {l}

StartList(f, preferred, by) ==
  /\ calls' = Retired("list", calls) \cup {Call("list", f, preferred, by)}
  /\ asked' = f
  /\ Skeleton("list", TRUE)
  /\ errors' = errors \ {"summary", "queue"}

(* Only an assessed payment has a report to load; otherwise both panes are *)
(* cleared at once.                                                        *)
StartSelection(row) ==
  /\ errors' = errors \ {"investigation", "graph"}
  /\ Skeleton("selection", Assessed(row))
  /\ IF Assessed(row)
     THEN /\ calls' = Retired("selection", calls)
                        \cup {Call("selection", row.id, None, "page")}
          /\ UNCHANGED <<report, graph>>
     ELSE /\ calls' = Retired("selection", calls)
          /\ report' = None /\ graph' = None

(* Mutant: the early return leaves the skeleton on.                        *)
StartEntity_KeepsLoading(e) ==
  /\ errors' = errors \ {"entity"}
  /\ IF e = None
     THEN /\ calls' = Retired("entity", calls)
          /\ entityData' = None /\ UNCHANGED loading
     ELSE /\ calls' = Retired("entity", calls)
                        \cup {Call("entity", e, None, "page")}
          /\ loading' = loading \cup {"entity"} /\ UNCHANGED entityData

StartEntity(e) ==
  /\ errors' = errors \ {"entity"}
  /\ Skeleton("entity", e # None)
  /\ IF e = None
     THEN /\ calls' = Retired("entity", calls) /\ entityData' = None
     ELSE /\ calls' = Retired("entity", calls)
                        \cup {Call("entity", e, None, "page")}
          /\ UNCHANGED entityData

-----------------------------------------------------------------------------
(* Effects and timers.                                                     *)

Closure(l) == CASE l = "list"      -> [filter |-> filter]
                [] l = "selection" -> [row |-> selected]
                [] l = "entity"    -> [entity |-> activeEntity]

(* The cleanup of the last render and the effect of this one.              *)
RunEffect(l) ==
  /\ l \in due
  /\ due' = due \ {l}
  /\ timer' = [timer EXCEPT ![l] = Closure(l)]
  /\ calls' = Retired(l, calls)
  /\ UNCHANGED <<stored, queue, asked, report, graph, path, entityData,
                 errors, loading, events>>

Fire(l) ==
  /\ timer[l] # None
  /\ timer' = [timer EXCEPT ![l] = None]
  /\ \/ /\ l = "list" /\ StartList(timer[l].filter, None, "page")
        /\ UNCHANGED <<report, graph, entityData>>
     \/ /\ l = "selection" /\ StartSelection(timer[l].row)
        /\ UNCHANGED <<asked, entityData>>
     \/ /\ l = "entity" /\ StartEntity(timer[l].entity)
        /\ UNCHANGED <<asked, report, graph>>
  /\ UNCHANGED <<stored, queue, path, due, events>>

-----------------------------------------------------------------------------
(* Answers.  Both requests of a list or a selection have settled, each     *)
(* with its own outcome; "lost" counts the ones that failed.               *)

Settle(c, lost) ==
  /\ c \in calls
  /\ calls' = calls \ {c}
  /\ Count(lost)

(* The demo awaits a reload that another one has overtaken.                *)
DropStale(c) ==
  /\ ~c.fresh /\ Settle(c, 0)
  /\ UNCHANGED <<stored, queue, asked, report, graph, path, entityData,
                 errors, loading, due, timer>>

(* Mutant: the effect depends on the selected id alone.                    *)
SelectionDue_IdOnly(items, id) == id # selectedId

(* The effect of loadSelection depends on the object of the selected row:  *)
(* it runs again when either the old or the new one comes from a queue.    *)
SelectionDue(items, id) ==
  id # selectedId \/ id \in Ids(items) \cup Ids(rows)

ListArrives(c, failed) ==
  /\ c.loader = "list" /\ c.fresh
  /\ failed \subseteq {"summary", "queue"}
  /\ Settle(c, Cardinality(failed))
  /\ Skeleton("list", FALSE)
  /\ errors' = errors \cup failed
  /\ IF "queue" \in failed
     THEN UNCHANGED <<rows, selectedId, due>>
     ELSE LET items == ListAnswer(c.arg)
              id == NextSelected(items, c.preferred)
          IN  /\ rows' = items
              /\ selectedId' = id
              /\ due' = IF SelectionDue(items, id)
                        THEN due \cup {"selection"} ELSE due
  /\ UNCHANGED <<stored, filter, asked, override, overrideRef, report, graph,
                 path, entityData, timer>>

(* The timer of an older render may have asked for another payment: its    *)
(* call is stale as soon as the effect of the new render has run.          *)
SelectionArrives(c, failed) ==
  /\ c.loader = "selection" /\ c.fresh
  /\ failed \subseteq {"investigation", "graph"}
  /\ Settle(c, Cardinality(failed))
  /\ Skeleton("selection", FALSE)
  /\ errors' = errors \cup failed
  /\ report' = IF "investigation" \in failed THEN None ELSE c.arg
  /\ graph' = IF "graph" \in failed THEN None ELSE c.arg
  /\ UNCHANGED <<stored, queue, asked, path, entityData, due, timer>>

EntityArrives(c, failed) ==
  /\ c.loader = "entity" /\ c.fresh
  /\ failed \subseteq {"entity"}
  /\ Settle(c, Cardinality(failed))
  /\ Skeleton("entity", FALSE)
  /\ errors' = errors \cup failed
  /\ entityData' = IF failed = {} THEN c.arg ELSE None
  /\ UNCHANGED <<stored, queue, asked, report, graph, path, due, timer>>

Arrives(c) ==
  \/ DropStale(c)
  \/ \E failed \in SUBSET Panes :
       ListArrives(c, failed) \/ SelectionArrives(c, failed)
         \/ EntityArrives(c, failed)

-----------------------------------------------------------------------------
(* The user.  React runs pending effects before it handles a click.        *)

Click == due = {} /\ Count(1)
OnQueue == Click /\ path = <<>>     \* the explorer hides queue and console
OnExplorer == Click /\ path # <<>>

FilterChange(f) == /\ filter' = f
                   /\ due' = IF f = filter THEN due ELSE due \cup {"list"}

ChooseFilter(f) ==
  /\ OnQueue /\ FilterChange(f)
  /\ UNCHANGED <<stored, rows, asked, selectedId, override, overrideRef,
                 report, graph, path, entityData, errors, loading, timer,
                 calls>>

(* A click or a key on a row of the queue.                                 *)
SelectRow(t) ==
  /\ OnQueue /\ t \in Ids(rows)
  /\ selectedId' = t /\ override' = None /\ overrideRef' = None
  /\ due' = IF t = selectedId THEN due ELSE due \cup {"selection"}
  /\ UNCHANGED <<stored, rows, filter, asked, report, graph, path,
                 entityData, errors, loading, timer, calls>>

(* "Refresh dashboard", "Retry summary" and "Retry queue".                 *)
Refresh ==
  /\ Click /\ StartList(filter, None, "page")
  /\ UNCHANGED <<stored, queue, report, graph, path, entityData, due, timer>>

(* "Retry investigation" and "Retry graph".                                *)
RetrySelection ==
  /\ OnQueue /\ "selection" \notin loading
  /\ \/ "graph" \in errors
     \/ Assessed(selected) /\ ("investigation" \in errors \/ report = None)
  /\ StartSelection(selected)
  /\ UNCHANGED <<stored, queue, asked, path, entityData, due, timer>>

(* Mutant: the breadcrumb grows without end.                               *)
Deeper_Unbounded(e) == Append(path, e)

Deeper(e) == LET longer == Append(path, e)
             IN  IF Len(longer) > MaxPath THEN Tail(longer) ELSE longer

Explore(e) ==
  /\ Click
  /\ \/ /\ path = <<>> /\ graph # None /\ e \in Linked[graph]
        /\ "selection" \notin loading /\ "graph" \notin errors
     \/ /\ path # <<>> /\ entityData # None
        /\ "entity" \notin loading \cup errors
  /\ path' = Deeper(e)
  /\ due' = due \cup {"entity"}
  /\ UNCHANGED <<stored, queue, asked, report, graph, entityData, errors,
                 loading, timer, calls>>

(* "Back", disabled on the first entry, and the breadcrumb: n stay.        *)
Shorten(n) ==
  /\ OnExplorer /\ n < Len(path)
  /\ path' = SubSeq(path, 1, n)
  /\ due' = due \cup {"entity"}
  /\ UNCHANGED <<stored, queue, asked, report, graph, entityData, errors,
                 loading, timer, calls>>

CloseEntity ==
  /\ path' = <<>> /\ entityData' = None
  /\ errors' = errors \ {"entity"}
  /\ calls' = Retired("entity", calls)

Close ==
  /\ OnExplorer /\ CloseEntity
  /\ due' = due \cup {"entity"}
  /\ UNCHANGED <<stored, queue, asked, report, graph, loading, timer>>

RetryEntity ==
  /\ OnExplorer /\ "entity" \notin loading
  /\ "entity" \in errors \/ entityData = None
  /\ StartEntity(activeEntity)
  /\ UNCHANGED <<stored, queue, asked, report, graph, path, due, timer>>

(* The filter of the queue; a payment has one row in it at most.           *)
Without(rs, t) == IF t \in Ids(rs)
                  THEN RemoveAt(rs, CHOOSE i \in DOMAIN rs : rs[i].id = t)
                  ELSE rs

(* "Investigate payment": a row of the explored identity, fetched with it  *)
(* and perhaps assessed since.                                             *)
Investigate(t) ==
  /\ OnExplorer /\ entityData # None
  /\ "entity" \notin loading \cup errors
  /\ stored[t] # Absent /\ entityData \in Linked[t]
  /\ \E row \in {RowOf(t), [id |-> t, action |-> Initial[t]]} :
       /\ row.action # Absent
       /\ override' = row /\ overrideRef' = row
       /\ rows' = LET longer == <<row>> \o Without(rows, t)
                  IN  SubSeq(longer, 1, Min({Len(longer), PageSize}))
  /\ filter' = None /\ selectedId' = t
  /\ due' = due \cup {"entity", "selection"} \cup
              (IF filter = None THEN {} ELSE {"list"})
  /\ CloseEntity
  /\ UNCHANGED <<stored, asked, report, graph, loading, timer>>

UserActs ==
  \/ \E f \in Actions \cup {None} : ChooseFilter(f)
  \/ \E t \in Tx : SelectRow(t) \/ Investigate(t)
  \/ Refresh \/ RetrySelection \/ Close \/ RetryEntity
  \/ \E e \in Entities : Explore(e)
  \/ \E n \in 1 .. MaxPath - 1 : Shorten(n)

(* Another client has a pending payment assessed.                          *)
AssessedElsewhere(t) ==
  /\ stored[t] = Pending /\ Count(1)
  /\ \E a \in Actions : stored' = [stored EXCEPT ![t] = a]
  /\ UNCHANGED page

-----------------------------------------------------------------------------
(* Properties of the panes.                                                *)

(* A loader has nothing left to do: no effect due, no timer set, no call   *)
(* whose answer it would take.                                             *)
Settled(l) == /\ l \notin due /\ timer[l] = None
              /\ \A c \in calls : c.loader = l => ~c.fresh

(* Whatever order answers, clicks, effects and timers came in, a pane that *)
(* has settled shows the payment or identity that is selected now, an      *)
(* error about it, or nothing when there is nothing to show; never         *)
(* another one's report, graph or data (dashboard.tsx:514, 520-533).       *)
SelectionAgrees ==
  Settled("selection") =>
    IF Assessed(selected)
    THEN /\ \/ report = selectedId
            \/ report = None /\ "investigation" \in errors
         /\ \/ graph = selectedId
            \/ graph = None /\ "graph" \in errors
    ELSE report = None /\ graph = None

EntityAgrees ==
  Settled("entity") =>
    \/ entityData = activeEntity
    \/ entityData = None /\ "entity" \in errors

ScreenAgrees == SelectionAgrees /\ EntityAgrees

(* The selected id always belongs to a row the page can show: a refresh, a *)
(* filter or the cut of the page to PageSize never leaves a selection that *)
(* resolves to nothing (dashboard.tsx:388-394, 419-427).                   *)
SelectionResolves == selectedId # None => selected # None

=============================================================================
