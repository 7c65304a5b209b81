----------------------------- MODULE SyntheticRun -----------------------------
(***************************************************************************)
(* Generation and ingestion of a synthetic data set (packages/synthetic:   *)
(* service.py, generator.py, manifest.py, validation.py).  An invocation   *)
(* generates and validates the events of its configuration, registers the  *)
(* data set and one RUNNING run per scenario in one commit, ingests event  *)
(* by event, each with a commit of its own, and ends the runs.  Several    *)
(* invocations, of the same or of other configurations, share a database   *)
(* and a directory.                                                        *)
(***************************************************************************)
EXTENDS SyntheticData

CONSTANTS
  Invocations,
  Configs,     \* the generation configurations in use
  VersionOf,   \* dataset_version of a configuration: it holds only ten
               \* digits of the hash, and nothing of the generator's code
  Drawn,       \* Drawn[c]: what its generators draw
  Expected,    \* Expected[c]: transaction count and number of abuse events
  Tolerance,   \* how far the number of abuse events may be off
  MaxFaults,   \* bound: failed statements and deaths of a process
  None

VARIABLES
  config,      \* config[p]: its configuration, or None: not launched
  pc,
  next,        \* next[p]: the event to ingest
  found,       \* found[p]: the registry record it looked up
  registry,    \* registry[v]: the configuration registered for version v
  runs,        \* runs[p][s]: status of its run of scenario s, or None
  stored,      \* events in the database, <<p, index>>: ids carry the run
  exported,       \* exported[v]: manifest.json and events.jsonl
  faults

(* A data set has events (DatasetConfig asks for fifty at least), and       *)
(* sorting them gives a sequence of them.                                  *)
ASSUME DrawnAssumption ==
  /\ None \notin Configs \cup {"RUNNING", "COMPLETED", "FAILED"}
  /\ \A c \in Configs : /\ Drawn[c] # {}
                        /\ Events(Drawn[c]) \in Seq(Drawn[c])

synthetic == <<config, pc, next, found, registry, runs, stored, exported, faults>>

Versions == {VersionOf[c] : c \in Configs}
Scenarios == UNION {ScenariosOf(Drawn[c]) : c \in Configs}

-----------------------------------------------------------------------------
(* validate_dataset, without the checks of the distribution of amounts,    *)
(* failures and shared infrastructure.                                     *)
Passes(c) ==
  /\ Len(Events(Drawn[c])) = Expected[c].count
  /\ \A e \in Drawn[c] : (e.ring = NoRing) <=> ~IsAbuse(e)
  /\ AbuseCount(Drawn[c]) - Expected[c].abuse \in -Tolerance .. Tolerance

SyntheticInit(configs) ==
  /\ config \in configs
  /\ pc = [p \in Invocations |-> IF config[p] = None THEN "idle" ELSE "generate"]
  /\ next = [p \in Invocations |-> 1]
  /\ found = [p \in Invocations |-> None]
  /\ registry = [v \in Versions |-> None]
  /\ runs = [p \in Invocations |-> [s \in Scenarios |-> None]]
  /\ stored = {}
  /\ exported = [v \in Versions |-> [manifest |-> None, events |-> None]]
  /\ faults = 0

Goto(p, from, to) == pc[p] = from /\ pc' = [pc EXCEPT ![p] = to]
Fault == faults < MaxFaults /\ faults' = faults + 1

SetRuns(p, status) ==
  runs' = [runs EXCEPT ![p] = [s \in Scenarios |->
             IF runs[p][s] = None THEN None ELSE status]]

-----------------------------------------------------------------------------
Generate(p) ==
  /\ Goto(p, "generate", IF Passes(config[p]) THEN "look up" ELSE "refused")
  /\ UNCHANGED <<config, next, found, registry, runs, stored, exported, faults>>

(* A registered record that differs is a conflict.                         *)
LookUp(p) ==
  LET record == registry[VersionOf[config[p]]] IN
  /\ Goto(p, "look up", IF record \in {None, config[p]} THEN "register"
                        ELSE "refused")
  /\ found' = [found EXCEPT ![p] = record]
  /\ UNCHANGED <<config, next, registry, runs, stored, exported, faults>>

(* Mutant: the record of a concurrent invocation is overwritten.           *)
Register_Overwrites(p) ==
  LET v == VersionOf[config[p]] IN
  /\ Goto(p, "register", "ingest")
  /\ registry' = [registry EXCEPT ![v] = config[p]]
  /\ runs' = [runs EXCEPT ![p] = [s \in Scenarios |->
                IF s \in ScenariosOf(Drawn[config[p]]) THEN "RUNNING" ELSE None]]
  /\ UNCHANGED <<config, next, found, stored, exported, faults>>

(* One commit for the data set and its runs; the primary key refuses a     *)
(* record that another invocation committed since the look-up.             *)
Register(p) ==
  LET v == VersionOf[config[p]] IN
  \/ /\ Goto(p, "register", "ingest")
     /\ found[p] = None => registry[v] = None
     /\ registry' = [registry EXCEPT ![v] = config[p]]
     /\ runs' = [runs EXCEPT ![p] = [s \in Scenarios |->
                   IF s \in ScenariosOf(Drawn[config[p]]) THEN "RUNNING" ELSE None]]
     /\ UNCHANGED <<config, next, found, stored, exported, faults>>
  \/ /\ Goto(p, "register", "refused")
     /\ found[p] = None /\ registry[v] # None
     /\ UNCHANGED <<config, next, found, registry, runs, stored, exported, faults>>

Ingest(p) ==
  /\ pc[p] = "ingest" /\ next[p] =< Len(Events(Drawn[config[p]]))
  /\ stored' = stored \cup {<<p, next[p]>>}
  /\ next' = [next EXCEPT ![p] = @ + 1]
  /\ UNCHANGED <<config, pc, found, registry, runs, exported, faults>>

(* ingest_transaction raises; its last commit may have got through.        *)
IngestFails(p) ==
  /\ Goto(p, "ingest", "handle") /\ Fault
  /\ next[p] =< Len(Events(Drawn[config[p]]))
  /\ stored' \in {stored, stored \cup {<<p, next[p]>>}}
  /\ UNCHANGED <<config, next, found, registry, runs, exported>>

(* The handler marks every run of the invocation, whatever came of it.     *)
Handle(p) ==
  /\ Goto(p, "handle", "failed") /\ SetRuns(p, "FAILED")
  /\ UNCHANGED <<config, next, found, registry, stored, exported, faults>>

Complete(p) ==
  /\ Goto(p, "ingest", "write manifest") /\ SetRuns(p, "COMPLETED")
  /\ next[p] > Len(Events(Drawn[config[p]]))
  /\ UNCHANGED <<config, next, found, registry, stored, exported, faults>>

(* write_dataset_artifacts: two files, one after the other.                *)
WriteManifest(p) ==
  /\ Goto(p, "write manifest", "write events")
  /\ exported' = [exported EXCEPT ![VersionOf[config[p]]].manifest = config[p]]
  /\ UNCHANGED <<config, next, found, registry, runs, stored, faults>>

WriteEvents(p) ==
  /\ Goto(p, "write events", "done")
  /\ exported' = [exported EXCEPT ![VersionOf[config[p]]].events = config[p]]
  /\ UNCHANGED <<config, next, found, registry, runs, stored, faults>>

(* The process dies or is cancelled, or the statements that register or    *)
(* end the runs fail: no handler is there for either.                      *)
Dies(p) ==
  /\ pc[p] \notin {"idle", "refused", "failed", "done", "dead"} /\ Fault
  /\ pc' = [pc EXCEPT ![p] = "dead"]
  /\ UNCHANGED <<config, next, found, registry, runs, stored, exported>>

SyntheticNext ==
  \E p \in Invocations :
    \/ Generate(p) \/ LookUp(p) \/ Register(p)
    \/ Ingest(p) \/ IngestFails(p) \/ Handle(p) \/ Complete(p)
    \/ WriteManifest(p) \/ WriteEvents(p) \/ Dies(p)

-----------------------------------------------------------------------------
(* What a run's status says is so, for concurrent invocations, failures    *)
(* and deaths at any point (service.py:93-147).  The runs of an invocation *)
(* end together.  COMPLETED: every one of its events is in the database,   *)
(* under the configuration registered for its version.  FAILED: ingestion  *)
(* stopped at an event, and none after it is there.  RUNNING, with nobody  *)
(* at work: a death; and the files of a version are never of another       *)
(* configuration than the registered one.                                  *)
RunsTellTheTruth ==
  /\ \A p \in {q \in Invocations : config[q] # None} :
       LET c == config[p]
           mine == {runs[p][s] : s \in ScenariosOf(Drawn[c])}
       IN  /\ Cardinality(mine) = 1
           /\ mine # {None} => registry[VersionOf[c]] = c
           /\ mine = {"COMPLETED"} =>
                \A i \in 1 .. Len(Events(Drawn[c])) : <<p, i>> \in stored
           /\ mine = {"FAILED"} =>
                \A i \in next[p] + 1 .. Len(Events(Drawn[c])) : <<p, i>> \notin stored
           /\ mine = {"RUNNING"} => pc[p] \in {"ingest", "handle", "dead"}
  /\ \A v \in Versions : {exported[v].manifest, exported[v].events}
                           \subseteq {None, registry[v]}
=============================================================================
