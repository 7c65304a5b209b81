# A verification project for Aegis

Aegis scores payment events: it ingests them, links their entities in a
graph, computes point-in-time features and graph evidence, predicts a risk
score, turns it into a policy decision, and explains the decision to an
analyst. This directory holds TLA+ models of the parts of Aegis whose
correctness depends on order, concurrency and failure, the TLC runs that check
them on small instances, and theorems that TLAPS checks for every instance.

## 1. Inventory of the system

| Component | Code | State | Operations | What is hard |
|---|---|---|---|---|
| Ingestion | `apps/api/app/services/transactions.py` | raw events, six entity tables, five kinds of edges, transactions, audit events | `ingest_transaction` | three database transactions per call; eleven row locks per call; failure and cancellation anywhere; resubmission |
| Features | `packages/risk_engine/features` | `transaction_features`, `feature_versions` | compute, persist, backfill | late events against immutable snapshots; races of inserts |
| Graph | `packages/graph_engine` | `graph_assessment_snapshots`, clusters and members | compute, persist, backfill, cluster persistence | a loop of SELECTs at READ COMMITTED; clusters that grow and merge |
| Assessment | `packages/policy_engine/service.py` | predictions, signals, decisions, model registry, audit events | `assess_transaction` | three commits per call; every row may be written by another session between look-up and insert |
| Policy engine | `packages/policy_engine/{engine,rules,config}.py` | none | `assess` | a decision lattice with guarantees over all scores and configurations |
| Optimizer, backtest | `packages/policy_engine/{optimizer,backtest,costs}.py` | none | search of a grid of thresholds | ties, infeasible sets, thresholds no quantile reaches |
| Demo sessions | `apps/api/app/services/demo.py` | in-memory registry of six sessions, each with lock, replay cache and pending transactions | create, step | retries, eviction during a step, failure after a commit, restart |
| Routes | `apps/api/app/api/routes.py` | none | exceptions to HTTP answers | exceptions that no handler names |
| Synthetic service | `packages/synthetic` | data set and scenario run records, exported files | generate, register, ingest, export | a commit per event; run statuses after a failure, a death, or next to another invocation |
| Investigator | `packages/investigator` | none | collect and rank evidence, explain the decision | a cap on the evidence; a live timeline next to frozen snapshots |
| Read services | `apps/api/app/services/{dashboard,entities,evaluation}.py` | none | queue, summary, graph view, entity page, evaluation summary | several SELECTs per page; bounds on nodes and edges |
| Web dashboard | `apps/web/src/components/dashboard.tsx` | React state, three loaders with generation counters, the demo's progress | load, filter, select, explore, run and retry the demo | answers that arrive late or out of order; retired effects; lost answers |
| Path finder | `apps/web/src/lib/relationship-path.ts` | none | shortest path between two identities | bound on the depth |
| Splitter | `ml/training/splitting.py` | none | chronological split without leakage | rings that share entities, ties of time, no sound boundary |
| Training, evaluation | `ml/` | artifact files | train, select a threshold, write, evaluate, read | files replaced one by one, the model before its checks |
| Scripts, migrations | `scripts/`, `alembic/` | none | backfills, command lines, DDL | two backfills next to live calls |

Interaction: the routes call ingestion and assessment with one database session
per request; the demo calls ingestion and then assessment for each event;
assessment calls features, graph and policy engine in that order, each of which
commits on its own; the backfill scripts run in processes of their own against
the same tables; the investigator and the read services read what the others
wrote, between any two of their commits; the web dashboard calls the routes. The
synthetic service ingests through `ingest_transaction`; training generates the
same events without a database and leaves files that the assessment service and
the evaluation summary load; the optimizer runs the policy engine.

## 2. What is modelled where

| Module | Models | Its state, and what stands for it in the code |
|---|---|---|
| `EventRows` | the eleven rows an event writes and their order (`_resolve_entities`, the `edges` tuple) | constants only |
| `NormalizedStore` | the promise of ingestion | receipts, the normalized events, the aggregate of their sightings |
| `Ingestion` | `ingest_transaction` under concurrent requests | `raw` = `raw_payment_events.processing_status`; `store` = entity and edge rows; `ledger` = `transactions` with its audit event; `staged` = the uncommitted upserts, that is the row locks, of a request; `pc` = the statement it has reached |
| `Payments` | committed payments and the two histories that are cut out of them: entity counts (`features/engine.py`, `history.py`) and the growing component (`graph_engine/postgres.py`, `engine.py`) | constants and operators |
| `Clusters` | detection, matching and persistence of clusters (`clustering.py`, `persist_clusters`, `_active_cluster_id`) | operators on a set of cluster records |
| `AssessmentRecords` | the promise of assessment: rows are written once, in order, and audited | the record tables |
| `Assessment` | `assess_transaction`, its feature and graph services, the backfill scripts, late events | `features`, `graphs`, `predictions`, `decisions`, `audits`, `clusters`, `registry` = the tables; `call` = the locals of a call between two statements; `batch` = what a backfill has read |
| `PolicyEngine` | the configuration validators, `rules.py` and `assess` of `engine.py` | the inputs of one evaluation, which grow by a signal or a score step at a time |
| `DemoSessions` | the demo's registry, sessions and steps | `registry` = the `OrderedDict`; `next`, `responses`, `pending`, `lock` = `DemoSessionState`; `db` = what the database holds of each showcase event |
| `Explanation` | the investigator's ranking and cap of evidence and its "why not stronger" (`evidence.py`, `deterministic.py`), next to the engine's decision | the inputs of `PolicyEngine`, and which feature rules match |
| `Dashboard` | `dashboard.tsx`: queue, workspace and explorer with their loaders, every handler, effect, timer and continuation | one variable per `useState`; a call under way is "fresh" if its number is still its loader's latest |
| `DemoConsole` | the demo's run and retry on the same page, with the backend's half of the protocol | `phase`, `session`, `expected` = the locals of a run; `served` = the backend |
| `RelationshipPath` | `findRelationshipPath` | operators |
| `ReadServices` | graph view, report timeline, entity page, summary, while payments are ingested and assessed | `page` = the locals of a page between two SELECTs; `log` = commits |
| `SyntheticData` | order and labels of generated events | operators |
| `SyntheticRun` | generation and ingestion by concurrent invocations | `registry`, `runs`, `stored` = the tables; `exported` = the files; `next` = the loop variable |
| `ChronologicalSplit` | `chronological_split` with its groups and boundaries | operators on a sequence of rows |
| `Benchmark` | `run_benchmark`, `select_threshold`, `RiskModel.load`, the evaluation summary | `files` = the artifact directory; `stage`, `cut` = locals |
| `PolicySearch` | `optimize_thresholds` with backtest and costs | `task` = its arguments, `chosen` = its result |
| `Offline` | the three tools together | - |
| `MC*` | instances for TLC | values of the constants, symmetry |
| `*Proofs` | theorems | see section 5 |

Modules extend one another as the code calls: `Ingestion` and `NormalizedStore`
both extend `EventRows`, `Assessment` extends `Clusters`, which extends
`Payments`. `Explanation` extends `PolicyEngine`, `DemoConsole` extends
`Dashboard`, `ReadServices` extends `Payments` and `RelationshipPath`,
`Benchmark` extends `ChronologicalSplit`, which like `SyntheticRun` extends
`SyntheticData`. `PolicySearch` instantiates `PolicyEngine` with the
configuration it tries, so that the search runs the modelled engine itself.
`Ingestion` instantiates `NormalizedStore`, and `Assessment`
instantiates `AssessmentRecords`, with a refinement mapping. `DemoSessions`
contains ingestion and assessment as the few points a demo step can tell apart
(receipt, commit, return; assessed), because the rest is checked in their own
modules; in the same way `DemoConsole` contains what `DemoSessions` promises (a
step done is answered again, the next one is done, others are refused), and
`ReadServices` what `Ingestion` and `Assessment` do.

Grain. A request is a sequence of SQL statements and an action is one of them,
with whatever follows it up to the next statement that another session could
notice. In `DemoSessions` the unit is what asyncio runs between two `await`s, in
`Dashboard` one task of the browser (a handler, an effect, a timer, the code
after an `await`), in `Benchmark` and the export one file.
`SELECT`s that decide something (is the row there?, what is in the history?)
are actions of their own, so that another session's commit fits in between;
`INSERT`s of a unit of work take effect at its commit and collide there.

External behaviour, modelled from its use: PostgreSQL at READ COMMITTED (each
statement sees the latest commits; an upsert waits for the row lock, then reads
the latest version; a unique constraint rejects a second insert; a lost
connection rolls back), asyncio's locks, React's effects (a change of what an
effect depends on runs its cleanup, then the effect), and LightGBM (training is
deterministic, so a row carries the score that its model gives).

Errors are control flow and are all kept: an exception inside ingestion at any
statement, a failure to record that failure, a cancelled task (which runs no
`except Exception` handler), the exceptions the routes catch and those they do
not, a lost insert race, a process restart, requests of the browser that fail or
whose answer is lost, tools that die between two statements or two files.

Abstracted data. A payment is its time and five (ingestion: six) natural keys;
a feature vector is how many earlier payments share each entity; a graph
assessment is the component it saw and the signals that follow from it; a risk
score is a level; a policy configuration is its two thresholds, its strong
signals and its required counts. Identifiers, wording, amounts and the
calibration of scores are left out. An event of a data set is its place, time,
scenario and ring. `PolicySearch` and `ChronologicalSplit` compute with integers
and exact fractions where the code has floats.

## 3. Runs

All runs finish in at most about three minutes. Every configuration says
`CHECK_DEADLOCK FALSE`: each instance has finitely many requests, payments or
clicks (the policy engine's, inputs that cannot grow for ever), and a system
with nothing left to do may rest. Deadlock in the sense that matters, requests
that wait for one another, is excluded by the invariant `NoWaitCycle` and by the
liveness properties.

| Run | Distinct states | What it asks |
|---|---|---|
| `ingestion_safety` | 77,683 | Three requests, three events that meet in some rows and not in others, event times in another order than arrivals. No lost update, at-most-once normalization, foreign keys that resolve, no lock cycle, true replies, no receipt left behind without a reason. |
| `ingestion_refines` | 2,815 | Two requests: ingestion implements `NormalizedStore`; under fairness begun calls end. |
| `ingestion_failed_receipt` | violated | Is a `FAILED` receipt free of normalized state? |
| `assessment_safety` | 109,660 | Two calls for one payment among three, late events, graph backfill: snapshots match the offline computation unless an event came late; refusals, predictions and answers are explained, consistent and repeated. |
| `assessment_refines` | 83,520 | Two calls, two payments, two policies, feature backfill: implements `AssessmentRecords`, complete audit trail, calls end. |
| `assessment_point_in_time` | violated | Does a decision cite only clusters of the past? |
| `policy_engine` | 122,880 | All configurations over four score levels and three codes, every list of up to three signals, every set of feature rules: severe actions are justified, evidence is monotone, the report gives the reasons and no false gap. |
| `demo_safety` | 276,814 | Two sessions in a registry of one, three step requests, failures at every `await`, eviction in mid-step, restarts. |
| `demo_retry` | violated | Can a failed step be retried? |
| `dashboard` | 371,203 | One user, three clicks or failures, a demo of two steps: panes agree with what is selected, the selection is on the page, the queue is what was asked for last, the progress is the backend's, and everything settles. |
| `offline` | 162,042 | Two invocations of the synthetic service with two faults; 6,390 data sets split, three trainings in one directory with a death; 10,240 threshold searches. |
| `reads` | 179,650 | Five payments committed in any order while pages are read: history views explained, pages honest, paths shortest. |

Bounds, and why they suffice.
- `IngestionSafety`: a wait cycle needs two requests and would close over two
  rows; a third request shows that a queue behind a row behaves. Two events on
  one device and instrument and a third on one customer and address give every
  kind of row both a shared and a private instance. An event is submitted again
  as soon as there are more requests than events in use.
- `Assessment*`: `t1`-`t2` share a device and `t2`-`t3` a customer, so the
  provider's loop needs a second round for `t3`; `MinConcentration = 2` stands
  for the code's 3 (a third customer on one device would need a fourth
  payment). `Assessed` names the payments that clients assess, `Backfills` the
  scripts that run; they are split over the runs. Two calls are what a race of
  look-up and insert needs. Backfills run with every prefix `--limit` can give.
- `PolicyEngine`: `MaxScore = 3` separates below, at and above both thresholds;
  three signals reach both required counts.
- `DemoSafety`: `MaxSessions = 1` stands for 6: eviction needs one session more
  than the registry holds. `Steps = 2` has a first and a last step;
  `Baseline = 1` separates creation from registration. Three requests are a
  step in progress, its concurrent repeat and the next one.
- `Dashboard`: four payments on pages of two, so that filter and page cut rows
  off; `MaxEvents = 3` are the clicks and failures it takes to overtake an answer
  and to supersede the overtaking one; `Total = 2` has a step to replay and one to
  do. A retired call is not kept, because its answer is dropped whole. A demo step
  reloads the queue unfiltered while the filter stays highlighted, and "Scenario
  complete" is said also when the list failed to load: both are in the model, and
  the properties say what holds nonetheless. `demoRunGeneration` changes only when
  the page is left.
- `Offline`: the tools share no state, so each initial state has work for one of
  them. Two invocations, of one version with equal or different data or of two
  versions, meet at every statement; two faults are a failure followed by a
  death. The data sets are all sequences of six to eight rows with three or four
  rings and enough normal rows, with ties in time and with links between rings at
  several places, and sets of nine rows with every scenario. Three trainings
  follow one another, with evaluation or without, and one may die anywhere: one
  before it and one after it. The searches are over all lists
  of three examples of four kinds and four scores, with two cost tables and two
  sets of constraints; with three quantiles for three examples the grid covers
  their scores.
- `Reads`: the bounds of the code (nodes, edges, timeline items, prior rows) are
  scaled down so that each is met and passed by five payments; the node cap
  always binds before the edge cap, as each further edge brings a node. While a
  finished page is displayed nothing commits (`Meanwhile`), which loses nothing: a
  page does not change any more. The order of ids (`Rank`) is arbitrary.
- Symmetry is used over calls (`AssessmentSafety`) and requests (`DemoRetry`):
  they differ only in name, and neither run has a liveness property.

Fairness. `FairSpec` grants weak fairness to each request's own server steps,
nothing else: the event loop resumes a coroutine whose `await` is ready, and the
database answers a statement whose lock is free. Arrivals, failures,
cancellations, backfills, late events and restarts are never owed, and a
request may be abandoned at any time. In `Dashboard` weak fairness is on
`Unattended`: effects run, timers fire and each request ends, with an answer or an
error; the user owes nothing.

Every property comes with a mutant: a changed definition (its name says which:
`TakeLock_NoLock`, `Answer_KeepsPending`, ...) for which the run reports the
property violated.

## 4. What the violated runs show

- `ingestion_failed_receipt`. `docs/ARCHITECTURE.md:38` says a failed event
  leaves no normalized state. In the code the answer is built inside the guarded
  block after the second commit (`transactions.py:321`); an exception there
  marks the receipt `FAILED` although the transaction is in the ledger.
  `NormalizedStore` therefore has a step for it.
- `assessment_point_in_time`. `README.md:124` says a decision uses nothing at or
  after its payment. Snapshots obey that, also in the model; but the cluster id
  is looked up among the clusters stored when the call runs
  (`policy_engine/service.py:102`), which a backfill may have derived from later
  payments.
- `demo_retry`. The dashboard offers "retry step" after a failure
  (`dashboard.tsx:459`). A step that failed inside ingestion after the receipt
  was committed has no pending transaction (`demo.py:143`), so each retry is
  refused as a duplicate and the session cannot advance.

Two further remarks, for which properties state what does hold.
`README.md:186-187` says the strictly-prior timeline shows exactly what was
available at decision time; the code queries it when the report is asked for, so
that an earlier payment ingested late joins it (`HistoryViewsExplained` allows
exactly this). And a refused data set marks all scenario runs `FAILED`, also
those whose events are all in the database (`RunsTellTheTruth`).

## 5. What is proved

All theorems hold for every value of the constants under the named assumptions:
`EventTimeAssumption` (event times are numbers), `TimeAssumption` (they are
positive), `AssessedAssumption` (assessed payments are payments),
`PolicyAssumption` (finitely many codes, a natural score range),
`ExplanationAssumption` (the cap on evidence leaves room for every code and
three items more), `DemoAssumption` (a registry of at least one session; `None`
is no id), `DashboardAssumption`, `NoneAssumption` and `ConsoleAssumption` (pages
and bounds are numbers; "none", "missing" and the like are no ids),
`DrawnAssumption` (data sets have events, and sorting them gives a sequence of
them), `LaunchesAssumption` (invocations have a configuration or none),
`TrainingsAssumption` (invocations are numbered), `SplitAssumption` and
`JobsAssumption` (the shares of a split are numbers, there are abuse scenarios,
and the generators put abuse, and nothing else, in rings), `SearchAssumption` and
`TasksAssumption` (a search runs on finitely many examples, quantiles and
configurations that the validators accept), `ReadAssumption` (limits are numbers,
and those of the graph leave room for a payment with its five entities) and
`IdAssumption` (what is displayed has distinct ids, in an order).

- **Ingestion** (`IngestionProofs`): `TypeCorrect`, `NoLostUpdates`,
  `AtMostOnce`, `EntityIdentity`, `DeadlockFree`. The inductive invariant adds to
  the checked properties that a staged version was computed from the committed
  one (`StagedCurrent`), which holds because staging takes the row lock
  (`LocksExclusive`) and a committed version changes only through its holder.
  The counts need that the ledger is finite. `DeadlockFree` is well-founded: of
  all waiting requests take one that waits for the highest row; whoever holds
  that row waits for a higher one. `CallersAreToldTheTruth` and
  `ReceiptsNeverLost` rest on a second invariant (`RInv`): for each event with a
  receipt exactly one request has received it, it alone settles the receipt, and
  an answer given stays true because receipts only move forward.
  `IngestionImplementsStore`: every statement but the commits is a stutter of
  `NormalizedStore`; the second commit adds the event to the aggregate in one step.
- **Assessment** (`AssessmentProofs`): `AssessmentTypeCorrect`,
  `RowsAreImmutable`, `AuditExactlyOnce`, `NoPredictionConflict`,
  `AnswersNeverDiffer`. No action changes or removes a committed row; the
  invariant says of each call what it remembers of the rows it has seen, which
  survives every step that only adds rows. `AssessmentRefinement` is the
  step-by-step simulation of `AssessmentRecords`. `PointInTimeProofs` proves
  `PointInTime` and `RefusalsHaveCauses`, that is `RefusalsExplained`, of which
  `OnlyLateEventsRefuse` is the part about snapshots: the offline component is a
  least fixpoint, a newly committed payment is either in it, and then it came
  late, or leaves it as it is, and the provider's loop approaches it from below
  and stops only at it. For the part about decisions it is enough that stored
  clusters are never empty and that a call which found a conflict read a cluster
  that a backfill had stored.
  `PredictionsJoinOneHistory`: the features of a call were counted before its loop
  began, so each payment they counted is one the loop finds, whatever commits
  meanwhile; a latest payment exists by well-foundedness, which orders the two
  cutoffs; and a stored row that the call compared instead is equal to its own.
- **Policy engine** (`PolicyEngineProofs`): `PolicyTypeCorrect`,
  `GraphAloneIsHarmless`, `BlocksAreCorroborated`, `HumansReview` and
  `SeverityIsConsistent`, which `SevereActionsAreJustified` puts together, and
  `MonotoneEvidence`, by the case split of the code's two ladders.
  `ReportsExplainDecisions`: what the decision rested on ranks above every
  feature, there are at most as many such items as codes and three, so the cap,
  a bound on a cardinality, cuts only features.
- **Demo** (`DemoProofs`): `TypeCorrect`, `InOrder`, `SameReplies`,
  `MemoryIsTrue`, `NoNeedlessDuplicates`. The memory of a session means
  something only while the session is alive (registered, or held by a request
  that found it before its eviction); of a living session the invariant states
  what memory and database agree on at every point of a step in progress, that
  answers already given are the cached ones, and that an event which is in the
  database but not pending stems from a failed attempt. Registration starts
  from an untouched session, a restart leaves none alive.
- **Dashboard and demo console** (`DashboardProofs`): `DashboardTypeCorrect`,
  `PanesAgree`, `SelectionNeverDangles`, `QueueFollowsLastRequest` and
  `DisplayedProgressIsServed`. The invariant says of every loader that at most one
  of its calls is fresh, and of that one what it was asked for: the effect that
  started it has not run again since, so the selection, the filter or the session
  is still the one it names. The answers of stale calls change nothing. For the
  console it bounds, at every point of a run, how far what the backend has served
  may be ahead of what the page expects.
- **Offline tools** (`OfflineProofs`): `StatusesTellTheTruth`,
  `ReadingsAreExplained`, `SelectionsAreOptimal` and `ChosenPolicyIsOptimal`. A record once registered is
  never replaced, because an invocation registers only what it found or what the
  primary key lets it insert; and an invocation alone stores its events, in order,
  so that `next` separates those that are stored from the rest. Invocations of the
  benchmark follow one another, so that the files of the directory are of the last
  one that wrote, in the order in which it writes them, and what remains of an
  earlier one lies behind them; a reader during whose visit nothing is written
  therefore mixes two only if the later one has not finished. The fold of the
  splitter computes the components of the rings that share entities, in whatever
  order it takes the entities; a cut keeps related rows together exactly if both
  times are safe for every component, and what it leaves to a part depends only on
  which components have ended, so that the nearest time of each such state loses
  nothing. A threshold flags what the next score above it flags, and comparing F1
  crosswise is transitive because there is abuse to find. The search chooses
  the first of a finite set in a strict order of exact fractions; that no pair of
  thresholds outside its candidates does better is because raising a threshold to
  the next candidate changes the action of no example.
- **Read services** (`ReadServicesProofs`): `ShownPathsAreShortest`,
  `ViewsAreExplained` and `PagesStayHonest`. The path finder's queue holds nodes in
  the order of their distance, at most two distances at a time, and a node is
  reached before any that is further away; its recursion over a bounded number of
  rounds is unfolded by an induction over the naturals stated about a set, not an
  operator. A view on display was drawn from one query, and its frozen features
  were counted over what was committed when they were frozen, which has only grown
  since. Of an entity page the invariant says that each of its SELECTs saw at
  least what the one before saw, that its rows are a first part of all relevant
  ones in a strict order, and that the rows of two types are different payments, so
  that the sum over types is the cardinality of a union.

Only model-checked: liveness (`BegunCallsEnd`, `CallsEnd`, `StepsAnswered`,
`PageSettles`), which the prover cannot do. Every invariant that a passing run
checks is stated by a theorem.

## 6. What is not modelled

- Numeric definitions: the sixty features, densities, ages and scores of graphs,
  the calibration of the model. They are data behind the control that is modelled.
- What generators draw (`generator.py`, `v2.py`): random samples, an input here.
- LightGBM, ablation and diagnostics, and the report files under `artifacts/` that
  no code reads again; the policy files that the evaluation page shows.
- Wording, and the optional narrative by a language model, which changes nothing
  but text.
- The filter by severity (`services/dashboard.py:114`) compares with
  `RiskPrediction.severity`, which the assessment always writes as null
  (`policy_engine/service.py:160`), so it finds nothing; no document speaks of it.
- Counts of cluster rows (`graph_engine/service.py:158`): an update overwrites
  them but only adds members, so they may drift apart after a backfill with
  `--limit`. `docs/INVESTIGATOR.md:29-31` allows for it and keeps them out of
  reports.
- Migrations are DDL, whose constraints appear as unique keys; the scripts but for
  the backfills wrap calls that are modelled; health check and application set-up.

## 7. Plan

Done, in this order: ingestion; assessment with features, graph and clusters;
policy engine; demo sessions; the web page with the demo console; the offline
tools; the read services with the path finder; the explanation; and their
theorems.

Left, most important first:
1. The detection of clusters and their counts, on an instance with two devices
   and enough payments for clusters to merge, in a run of its own.
2. Calibration of the policy by the scripts (policy v2): files written by one tool
   and read by another.
