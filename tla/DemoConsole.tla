----------------------------- MODULE DemoConsole -----------------------------
(***************************************************************************)
(* The demo console of the operations page (startDemo, runDemo, retryDemo  *)
(* in apps/web/src/components/dashboard.tsx) next to the panes of module   *)
(* Dashboard.  The console asks the backend for a session, then for its    *)
(* steps one by one, and reloads the queue, unfiltered, after each.  The   *)
(* backend is what DemoSessions promises: a step already done is answered  *)
(* again, the next one is done, a later one or a lost session is refused.  *)
(*                                                                         *)
(* demoRunGeneration changes only when the page is left or no run is under *)
(* way, so it never stops a run here.                                      *)
(***************************************************************************)
EXTENDS Dashboard

CONSTANTS
  Sessions,    \* demo sessions the backend can still create
  Total,       \* total_steps
  DemoTx,      \* DemoTx[s][k]: the payment of step k of session s
  DemoAction,  \* the action those payments are assessed with
  Gone,        \* the session was evicted or lost in a restart
  Failed       \* the answer of a request that failed

ASSUME ConsoleAssumption ==
  /\ Total \in Nat \ {0} /\ DemoAction \in Actions
  /\ DemoTx \in [Sessions -> [1 .. Total -> Tx]]
  /\ None \notin Nat \cup Sessions \cup [id : Sessions, next : 0 .. Total]
  /\ Gone \notin Nat \cup {None}
  /\ Failed \notin Nat \cup Sessions \cup {None}

VARIABLES
  served,      \* the backend: steps done of each session, None, or Gone
  phase,       \* what the console waits for; "idle" when demoRunning is false
  session,     \* activeSession of the run under way
  expected,    \* expectedStep of the run under way
  reply,       \* what the backend answered and the page has not seen yet
  demoSession, \* session and progress on display
  latest,      \* latestDemoStep
  status       \* demoStatus

console == <<served, phase, session, expected, reply, demoSession, latest,
             status>>
allVars == <<vars, console>>

Phases == {"idle", "creating", "preparing", "stepping", "refreshing",
           "waiting"}

ConsoleInit ==
  /\ Init
  /\ served = [s \in Sessions |-> None]
  /\ phase = "idle" /\ session = None /\ expected = 0 /\ reply = None
  /\ demoSession = None /\ latest = None /\ status = "ready"

Stop(why) == /\ phase' = "idle" /\ status' = why
             /\ session' = None /\ expected' = 0

Fails == Count(1)

-----------------------------------------------------------------------------
(* The user.                                                               *)

StartDemo ==
  /\ OnQueue /\ phase = "idle"
  /\ FilterChange(None)
  /\ errors' = errors \ {"demo"}
  /\ phase' = "creating" /\ latest' = None /\ status' = "preparing"
  /\ UNCHANGED <<stored, rows, asked, selectedId, override, overrideRef,
                 report, graph, path, entityData, loading, timer, calls,
                 served, session, expected, reply, demoSession>>

(* The head of runDemo's loop.                                             *)
RunFrom(s, k) ==
  /\ UNCHANGED reply
  /\ IF k < Total
     THEN /\ phase' = "stepping" /\ session' = s /\ expected' = k
          /\ status' = "injecting"
     ELSE Stop("complete")

(* Mutant: the retry goes on after the step that failed.                   *)
RetryDemo_NextStep ==
  /\ OnQueue /\ phase = "idle"
  /\ "demo" \in errors /\ demoSession # None
  /\ RunFrom(demoSession.id, demoSession.next + 1)
  /\ errors' = errors \ {"demo"}
  /\ UNCHANGED <<stored, queue, asked, report, graph, path, entityData,
                 loading, due, timer, calls, served, demoSession,
                 latest>>

RetryDemo ==
  /\ OnQueue /\ phase = "idle"
  /\ "demo" \in errors /\ demoSession # None
  /\ RunFrom(demoSession.id, demoSession.next)
  /\ errors' = errors \ {"demo"}
  /\ UNCHANGED <<stored, queue, asked, report, graph, path, entityData,
                 loading, due, timer, calls, served, demoSession,
                 latest>>

-----------------------------------------------------------------------------
(* The backend.  A request or its answer may be lost at either end.        *)

ServeCreate ==
  /\ phase = "creating" /\ reply = None
  /\ \/ \E s \in Sessions :
          /\ served[s] = None /\ served' = [served EXCEPT ![s] = 0]
          /\ \/ reply' = s /\ UNCHANGED events
             \/ reply' = Failed /\ Fails
     \/ /\ Fails \/ (UNCHANGED events /\ \A s \in Sessions : served[s] # None)
        /\ reply' = Failed /\ UNCHANGED served
  /\ UNCHANGED <<stored, page, phase, session, expected, demoSession,
                 latest, status>>

Perform(k) ==
  /\ served' = [served EXCEPT ![session] = k]
  /\ stored' = [stored EXCEPT ![DemoTx[session][k]] = DemoAction]

ServeStep ==
  /\ phase = "stepping" /\ reply = None
  /\ LET n == served[session] IN
     \/ /\ n # Gone /\ expected < n            \* replayed
        /\ reply' = expected + 1
        /\ UNCHANGED <<stored, served, events>>
     \/ /\ n # Gone /\ expected = n
        /\ Perform(n + 1)
        /\ \/ reply' = n + 1 /\ UNCHANGED events
           \/ reply' = Failed /\ Fails       \* the answer is lost
     \/ /\ \/ Fails
           \/ ~(n # Gone /\ expected =< n) /\ UNCHANGED events
        /\ reply' = Failed /\ UNCHANGED <<stored, served>>
  /\ UNCHANGED <<page, phase, session, expected, demoSession, latest,
                 status>>

SessionLost(s) ==
  /\ served[s] \notin {None, Gone} /\ Fails
  /\ served' = [served EXCEPT ![s] = Gone]
  /\ UNCHANGED <<stored, page, phase, session, expected, reply,
                 demoSession, latest, status>>

-----------------------------------------------------------------------------
(* The console, one action per await.                                      *)

AnswerFails ==
  /\ reply = Failed /\ reply' = None
  /\ errors' = errors \cup {"demo"}
  /\ Stop(IF phase = "creating" THEN "unavailable" ELSE "paused")
  /\ UNCHANGED <<stored, queue, asked, report, graph, path, entityData,
                 loading, due, timer, calls, events, served,
                 demoSession, latest>>

Created ==
  /\ phase = "creating" /\ reply \in Sessions /\ reply' = None
  /\ demoSession' = [id |-> reply, next |-> 0] /\ status' = "baseline"
  /\ StartList(None, None, "demo")
  /\ phase' = "preparing" /\ session' = reply /\ expected' = 0
  /\ UNCHANGED <<stored, queue, report, graph, path, entityData, due, timer,
                 events, served, latest>>

Stepped ==
  /\ phase = "stepping" /\ reply \in 1 .. Total /\ reply' = None
  /\ latest' = reply /\ expected' = reply
  /\ demoSession' = [demoSession EXCEPT !.next = reply]
  /\ StartList(None, DemoTx[session][reply], "demo")
  /\ phase' = "refreshing"
  /\ UNCHANGED <<stored, queue, report, graph, path, entityData, due, timer,
                 events, served, session, status>>

(* The reload it awaits has settled, taken or dropped.                     *)
Reloaded(c) ==
  /\ c.by = "demo" /\ Arrives(c)
  /\ IF phase = "refreshing" /\ expected = Total
     THEN Stop("complete")
     ELSE phase' = "waiting" /\ UNCHANGED <<session, expected, status>>
  /\ UNCHANGED <<served, reply, demoSession, latest>>

WaitOver ==
  /\ phase = "waiting" /\ RunFrom(session, expected)
  /\ errors' = IF expected = 0 THEN errors \ {"demo"} ELSE errors
  /\ UNCHANGED <<stored, queue, asked, report, graph, path, entityData,
                 loading, due, timer, calls, events, served,
                 demoSession, latest>>

-----------------------------------------------------------------------------
(* What the browser and the backend do by themselves.                      *)
Unattended ==
  \/ /\ \/ \E l \in Loaders : RunEffect(l) \/ Fire(l)
        \/ \E c \in calls : c.by = "page" /\ Arrives(c)
     /\ UNCHANGED console
  \/ ServeCreate \/ ServeStep \/ AnswerFails \/ Created \/ Stepped \/ WaitOver
  \/ \E c \in calls : Reloaded(c)

Next ==
  \/ Unattended
  \/ /\ UserActs \/ \E t \in Tx : AssessedElsewhere(t)
     /\ UNCHANGED console
  \/ StartDemo \/ RetryDemo
  \/ \E s \in Sessions : SessionLost(s)

(* Effects run after their render, timers fire, a request is answered or   *)
(* fails in the end.  Nothing makes the user or another client act.        *)
Fairness == WF_allVars(Unattended)

Spec == ConsoleInit /\ [][Next]_allVars /\ Fairness

-----------------------------------------------------------------------------
(* The types of the page and of the console.                               *)
TypeOK ==
  /\ stored \in [Tx -> Actions \cup {Absent, Pending}]
  /\ rows \in BoundedSeq(Row, PageSize) /\ Cardinality(Ids(rows)) = Len(rows)
  /\ {filter, asked} \subseteq Actions \cup {None}
  /\ selectedId \in Tx \cup {None}
  /\ override \in Row \cup {None} /\ overrideRef = override
  /\ {report, graph} \subseteq Tx \cup {None}
  /\ path \in BoundedSeq(Entities, MaxPath)
  /\ entityData \in Entities \cup {None}
  /\ errors \subseteq Panes /\ loading \subseteq Loaders
  /\ due \subseteq Loaders
  /\ \A l \in Loaders : Cardinality({c \in calls : c.loader = l /\ c.fresh}) < 2
  /\ served \in [Sessions -> 0 .. Total \cup {None, Gone}]
  /\ phase \in Phases /\ session \in Sessions \cup {None}
  /\ expected \in 0 .. Total /\ latest \in 1 .. Total \cup {None}

(* With several reloads under way, started by a change of the filter, by   *)
(* "Refresh" and by demo steps, the queue ends up with the rows that the   *)
(* last of them asked for; and without a demo that is the filter that is   *)
(* highlighted (dashboard.tsx:396-432, 448).                               *)
QueueMatchesRequest ==
  Settled("list") /\ "queue" \notin errors =>
    /\ \A i \in DOMAIN rows : asked \in {None, rows[i].action}
    /\ demoSession = None => asked = filter

(* The progress on display is never ahead of the backend's and at most the *)
(* one step behind whose answer is under way or was lost, so a retry is    *)
(* always one that the backend can replay or do; "Scenario complete" is    *)
(* said only when all steps were served (dashboard.tsx:434-464, 491-495).  *)
ProgressIsServed ==
  demoSession # None =>
    LET n == served[demoSession.id] IN
    /\ n # Gone => n - demoSession.next \in {0, 1}
    /\ phase = "stepping" /\ n # Gone => expected =< n
    /\ latest \in {None, demoSession.next}
    /\ status = "complete" => demoSession.next = Total /\ n \in {Total, Gone}

(* Once the user stops, every skeleton goes and the demo run ends, with    *)
(* whatever answers, failures and superseded reloads (dashboard.tsx:430,   *)
(* 462, 532, 552).                                                         *)
PageSettles == (loading # {} \/ phase # "idle")
                 ~> (loading = {} /\ phase = "idle")
=============================================================================
