-------------------------- MODULE OfflineProofs ------------------------------
(***************************************************************************)
(* The offline half, for every number of concurrent invocations, all data  *)
(* sets, configurations, fits and search tasks, and any number of failures *)
(* and deaths.  One section for each script.                               *)
(*                                                                         *)
(* Generation: a registered record is never replaced, because an           *)
(* invocation registers only what it found registered or what the primary  *)
(* key lets it insert; and an invocation alone inserts its events, in      *)
(* order, so that `next` separates those that are in the database from     *)
(* those that are not.                                                     *)
(*                                                                         *)
(* Training: an invocation replaces the files in one order, so that a file *)
(* is never by an earlier one than the last that is past it; and a reading *)
(* within which nothing was written shows the files as they are.           *)
(*                                                                         *)
(* Optimisation: the sort keys are a strict order, so that a finite set of *)
(* feasible policies has a first; raising a threshold to the next score of *)
(* the grid changes no action, so that the grid loses nothing.             *)
(*                                                                         *)
(* Selection: the fold of the splitter computes the components of the      *)
(* rings that share entities; a cut keeps related rows together exactly if *)
(* it is safe for every component, and what it leaves to a part depends    *)
(* only on the components that have ended, so that the nearest time of     *)
(* each such state suffices.  A threshold acts like the next score above   *)
(* it, and F1 is a fraction with a positive denominator.                   *)
(***************************************************************************)
EXTENDS Offline, FiniteSetTheorems, NaturalsInduction, SequenceTheorems, TLAPS

Points == {"idle", "generate", "look up", "register", "refused", "ingest", "handle",
           "failed", "write manifest", "write events", "done", "dead"}
Statuses == {None, "RUNNING", "COMPLETED", "FAILED"}
ConfigOrNone == Configs \cup {None}

Size(p) == Len(Events(Drawn[config[p]]))
Mine(p) == ScenariosOf(Drawn[config[p]])
Registered(p) == registry[VersionOf[config[p]]] = config[p]

STypeOK ==
  /\ config \in [Invocations -> ConfigOrNone]
  /\ pc \in [Invocations -> Points]
  /\ next \in [Invocations -> Nat]
  /\ found \in [Invocations -> ConfigOrNone]
  /\ registry \in [Versions -> ConfigOrNone]
  /\ runs \in [Invocations -> [Scenarios -> Statuses]]
  /\ exported \in [Versions -> [manifest : ConfigOrNone, events : ConfigOrNone]]

(* What an invocation has found registered is its own configuration.       *)
FoundIsRegistered ==
  \A p \in Invocations :
    pc[p] = "register" /\ found[p] # None => found[p] = config[p] /\ Registered(p)

(* Files are of the registered configuration; so an invocation that writes *)
(* them has to be of it.                                                   *)
FilesFit ==
  /\ \A p \in Invocations :
       pc[p] \in {"write manifest", "write events"} => Registered(p)
  /\ \A v \in Versions : {exported[v].manifest, exported[v].events}
                           \subseteq {None, registry[v]}

(* `next` separates the events that are stored from those that are not.    *)
StoredInOrder ==
  \A p \in Invocations : \A i \in Nat \ {0} :
    /\ pc[p] # "idle" /\ i < next[p] => <<p, i>> \in stored
    /\ i > next[p] => <<p, i>> \notin stored

(* The runs of p have this status.                                         *)
All(p, status) == \A s \in Mine(p) : runs[p][s] = status

StatusFits(p) ==
  /\ pc[p] \in {"generate", "look up", "register", "refused"} => All(p, None)
  /\ pc[p] \in {"ingest", "handle"} => All(p, "RUNNING") /\ Registered(p)
  /\ pc[p] \in {"write manifest", "write events", "done"} =>
       All(p, "COMPLETED") /\ Registered(p) /\ next[p] > Size(p)
  /\ pc[p] = "failed" => All(p, "FAILED") /\ Registered(p)
  /\ pc[p] = "dead" =>
       \/ All(p, None)
       \/ All(p, "RUNNING") /\ Registered(p)
       \/ All(p, "COMPLETED") /\ Registered(p) /\ next[p] > Size(p)

StatusesFit ==
  \A p \in Invocations : /\ config[p] = None => pc[p] = "idle"
                         /\ config[p] # None => pc[p] # "idle" /\ StatusFits(p)

SInv == STypeOK /\ FoundIsRegistered /\ FilesFit /\ StoredInOrder /\ StatusesFit

-----------------------------------------------------------------------------
LEMMA DataSets ==
  ASSUME STypeOK, NEW p \in Invocations, config[p] # None
  PROVE  /\ config[p] \in Configs
         /\ VersionOf[config[p]] \in Versions
         /\ Mine(p) \subseteq Scenarios
         /\ Mine(p) # {}
         /\ Size(p) \in Nat
<1>1. config[p] \in Configs
  BY DEF STypeOK, ConfigOrNone
<1>2. Size(p) \in Nat
  BY <1>1, DrawnAssumption DEF Size
<1> QED
  BY <1>1, <1>2, DrawnAssumption DEF Versions, Scenarios, Mine, ScenariosOf

(* The invariant implies what the runs say.                                *)
LEMMA StatusesAreTrue == SInv => RunsTellTheTruth
<1> SUFFICES ASSUME SInv, NEW p \in Invocations, config[p] # None
             PROVE  LET c == config[p]
                        mine == {runs[p][s] : s \in ScenariosOf(Drawn[c])}
                    IN  /\ Cardinality(mine) = 1
                        /\ mine # {None} => registry[VersionOf[c]] = c
                        /\ mine = {"COMPLETED"} =>
                             \A i \in 1 .. Len(Events(Drawn[c])) : <<p, i>> \in stored
                        /\ mine = {"FAILED"} =>
                             \A i \in next[p] + 1 .. Len(Events(Drawn[c])) :
                               <<p, i>> \notin stored
                        /\ mine = {"RUNNING"} => pc[p] \in {"ingest", "handle", "dead"}
  BY DEF SInv, FilesFit, RunsTellTheTruth
<1> DEFINE mine == {runs[p][s] : s \in Mine(p)}
<1>1. /\ Mine(p) # {} /\ Size(p) \in Nat
      /\ StatusFits(p) /\ pc[p] # "idle" /\ pc[p] \in Points
      /\ next[p] \in Nat
  BY DataSets DEF SInv, STypeOK, StatusesFit
<1>2. PICK status : All(p, status)
  BY <1>1 DEF StatusFits, Points
<1>3. mine = {status}
  BY <1>1, <1>2 DEF All
<1>4. Cardinality(mine) = 1
  BY <1>3, FS_Singleton
<1>5. \A other : All(p, other) => other = status
  BY <1>1, <1>2 DEF All
<1>6. status # None => Registered(p)
  BY <1>1, <1>5 DEF StatusFits, Points
<1>7. status = "COMPLETED" => next[p] > Size(p)
  BY <1>1, <1>5, DrawnAssumption DEF StatusFits, Points
<1>8. status = "COMPLETED" => \A i \in 1 .. Size(p) : <<p, i>> \in stored
  <2> SUFFICES ASSUME status = "COMPLETED", NEW i \in 1 .. Size(p)
               PROVE  <<p, i>> \in stored
    OBVIOUS
  <2>1. i \in Nat \ {0} /\ i < next[p]
    BY <1>1, <1>7
  <2> QED
    BY <1>1, <2>1 DEF SInv, StoredInOrder
<1>9. \A i \in next[p] + 1 .. Size(p) : <<p, i>> \notin stored
  <2> SUFFICES ASSUME NEW i \in next[p] + 1 .. Size(p)
               PROVE  <<p, i>> \notin stored
    OBVIOUS
  <2>1. i \in Nat \ {0} /\ i > next[p]
    BY <1>1
  <2> QED
    BY <2>1 DEF SInv, StoredInOrder
<1>10. status = "RUNNING" => pc[p] \in {"ingest", "handle", "dead"}
  BY <1>1, <1>5, DrawnAssumption DEF StatusFits, Points
<1> QED
  BY <1>3, <1>4, <1>6, <1>8, <1>9, <1>10 DEF Size, Mine, Registered

-----------------------------------------------------------------------------
LEMMA InitSInv == Init => SInv
<1> SUFFICES ASSUME Init PROVE SInv
  OBVIOUS
<1>1. PICK configs : /\ SyntheticInit(configs)
                     /\ configs \in {Launches, {NoLaunch}}
  BY DEF Init
<1>2. config \in [Invocations -> ConfigOrNone]
  BY <1>1, LaunchesAssumption DEF SyntheticInit, NoLaunch, ConfigOrNone
<1>3. STypeOK
  BY <1>1, <1>2 DEF SyntheticInit, STypeOK, Points, Statuses, ConfigOrNone
<1>4. FoundIsRegistered /\ FilesFit /\ StoredInOrder
  BY <1>1, <1>3 DEF SyntheticInit, FoundIsRegistered, FilesFit, StoredInOrder, STypeOK
<1>5. StatusesFit
  <2> SUFFICES ASSUME NEW p \in Invocations, config[p] # None
               PROVE  pc[p] # "idle" /\ StatusFits(p)
    BY <1>1 DEF StatusesFit, SyntheticInit
  <2>1. pc[p] = "generate" /\ All(p, None)
    BY <1>1, <1>3, DataSets DEF SyntheticInit, All
  <2> QED
    BY <2>1 DEF StatusFits
<1> QED
  BY <1>3, <1>4, <1>5 DEF SInv

(* A step of p leaves the others' part of the invariant alone, as long as  *)
(* it replaces no registered record.                                       *)
LEMMA OthersKeepTheirPart ==
  ASSUME SInv, NEW p \in Invocations, NEW q \in Invocations \ {p},
         config' = config, pc'[q] = pc[q], next'[q] = next[q], runs'[q] = runs[q],
         \A v \in Versions : registry[v] # None => registry'[v] = registry[v]
  PROVE  /\ config'[q] = None => pc'[q] = "idle"
         /\ config'[q] # None => pc'[q] # "idle" /\ StatusFits(q)'
<1>1. \A status : All(q, status) => All(q, status)'
  BY DEF All, Mine
<1>2. config[q] # None /\ Registered(q) => Registered(q)'
  BY DataSets, DrawnAssumption DEF Registered, SInv
<1>3. Size(q)' = Size(q)
  BY DEF Size
<1> QED
  BY <1>1, <1>2, <1>3 DEF SInv, StatusesFit, StatusFits

(* Points at which an invocation that has begun touches nothing shared:    *)
(* pc, next and runs are all that changes.                                 *)
LEMMA GenerateStep ==
  ASSUME SInv, NEW p \in Invocations, Generate(p)
  PROVE  SInv'
<1>1. STypeOK'
  BY DEF SInv, STypeOK, Generate, Goto, Points
<1>2. FoundIsRegistered' /\ FilesFit' /\ StoredInOrder'
  BY DEF SInv, STypeOK, FoundIsRegistered, FilesFit, StoredInOrder, Registered,
         Generate, Goto
<1>3. StatusesFit'
  <2> SUFFICES ASSUME NEW q \in Invocations
               PROVE  (/\ config[q] = None => pc[q] = "idle"
                       /\ config[q] # None => pc[q] # "idle" /\ StatusFits(q))'
    BY DEF StatusesFit
  <2>1. CASE q # p
    BY <2>1, OthersKeepTheirPart DEF Generate, Goto, SInv, STypeOK
  <2>2. CASE q = p
    <3>1. pc'[p] \in {"look up", "refused"} /\ config[p] # None /\ All(p, None)'
      BY DEF Generate, Goto, SInv, STypeOK, StatusesFit, StatusFits, All, Mine
    <3> QED
      BY <2>2, <3>1 DEF StatusFits, Generate
  <2> QED
    BY <2>1, <2>2
<1> QED
  BY <1>1, <1>2, <1>3 DEF SInv

LEMMA LookUpStep ==
  ASSUME SInv, NEW p \in Invocations, LookUp(p)
  PROVE  SInv'
<1>1. pc[p] = "look up" /\ config[p] # None /\ All(p, None)
  BY DEF LookUp, Goto, SInv, StatusesFit, StatusFits
<1>2. VersionOf[config[p]] \in Versions
  BY <1>1, DataSets DEF SInv
<1>3. STypeOK'
  BY <1>2 DEF SInv, STypeOK, LookUp, Goto, Points
<1>4. FoundIsRegistered'
  BY <1>2 DEF SInv, STypeOK, FoundIsRegistered, Registered, LookUp, Goto
<1>5. FilesFit' /\ StoredInOrder'
  BY DEF SInv, STypeOK, FilesFit, StoredInOrder, Registered, LookUp, Goto
<1>6. StatusesFit'
  <2> SUFFICES ASSUME NEW q \in Invocations
               PROVE  (/\ config[q] = None => pc[q] = "idle"
                       /\ config[q] # None => pc[q] # "idle" /\ StatusFits(q))'
    BY DEF StatusesFit
  <2>1. CASE q # p
    BY <2>1, OthersKeepTheirPart DEF LookUp, Goto, SInv, STypeOK
  <2>2. CASE q = p
    <3>1. pc'[p] \in {"register", "refused"} /\ All(p, None)'
      BY <1>1 DEF LookUp, Goto, SInv, STypeOK, All, Mine
    <3> QED
      BY <1>1, <2>2, <3>1 DEF StatusFits, LookUp
  <2> QED
    BY <2>1, <2>2
<1> QED
  BY <1>3, <1>4, <1>5, <1>6 DEF SInv

(* Registering never replaces a record: what the look-up found is the      *)
(* configuration itself, and otherwise the primary key guards the insert.  *)
LEMMA RegisterStep ==
  ASSUME SInv, NEW p \in Invocations, Register(p)
  PROVE  SInv'
<1>1. pc[p] = "register" /\ config[p] # None /\ All(p, None)
  BY DEF Register, Goto, SInv, StatusesFit, StatusFits
<1>2. /\ VersionOf[config[p]] \in Versions /\ config[p] \in Configs
      /\ Mine(p) \subseteq Scenarios
  BY <1>1, DataSets DEF SInv
<1>3. \A v \in Versions : registry[v] # None => registry'[v] = registry[v]
  BY <1>1, <1>2 DEF Register, SInv, STypeOK, FoundIsRegistered, Registered
<1>4. pc'[p] \in {"ingest", "refused"}
  BY <1>1 DEF Register, Goto, SInv, STypeOK
<1>5. STypeOK'
  <2>1. registry' \in [Versions -> ConfigOrNone] /\ pc' \in [Invocations -> Points]
    BY <1>2 DEF Register, Goto, SInv, STypeOK, ConfigOrNone, Points
  <2>2. runs' \in [Invocations -> [Scenarios -> Statuses]]
    BY DEF Register, SInv, STypeOK, Statuses
  <2> QED
    BY <2>1, <2>2 DEF Register, SInv, STypeOK
<1>6. FoundIsRegistered'
  <2> SUFFICES ASSUME NEW q \in Invocations, pc'[q] = "register", found'[q] # None
               PROVE  found'[q] = config'[q] /\ Registered(q)'
    BY DEF FoundIsRegistered
  <2>1. pc[q] = "register" /\ found[q] # None /\ config'[q] = config[q] /\ found' = found
    BY <1>4 DEF Register, Goto, SInv, STypeOK
  <2>2. found[q] = config[q] /\ Registered(q)
    BY <2>1 DEF SInv, FoundIsRegistered
  <2> QED
    BY <1>3, <2>1, <2>2, DataSets DEF Registered, SInv
<1>7. FilesFit'
  <2>1. \A q \in Invocations :
          pc'[q] \in {"write manifest", "write events"} => Registered(q)'
    <3> SUFFICES ASSUME NEW q \in Invocations, pc'[q] \in {"write manifest", "write events"}
                 PROVE  Registered(q)'
      OBVIOUS
    <3>1. pc[q] = pc'[q] /\ config'[q] = config[q]
      BY <1>4 DEF Register, Goto, SInv, STypeOK
    <3>2. Registered(q) /\ config[q] # None
      BY <3>1 DEF SInv, FilesFit, StatusesFit
    <3> QED
      BY <1>3, <3>1, <3>2, DataSets DEF Registered, SInv
  <2>2. \A v \in Versions :
          {exported'[v].manifest, exported'[v].events} \subseteq {None, registry'[v]}
    BY <1>3 DEF Register, SInv, FilesFit
  <2> QED
    BY <2>1, <2>2 DEF FilesFit
<1>8. StoredInOrder'
  BY <1>1, <1>4 DEF SInv, STypeOK, StoredInOrder, Register, Goto
<1>9. StatusesFit'
  <2> SUFFICES ASSUME NEW q \in Invocations
               PROVE  (/\ config[q] = None => pc[q] = "idle"
                       /\ config[q] # None => pc[q] # "idle" /\ StatusFits(q))'
    BY DEF StatusesFit
  <2>1. CASE q # p
    BY <1>3, <2>1, OthersKeepTheirPart DEF Register, Goto, SInv, STypeOK
  <2>2. CASE q = p /\ pc'[p] = "ingest"
    <3>1. All(p, "RUNNING")' /\ Registered(p)' /\ config' = config
      BY <1>2, <2>2 DEF Register, Goto, SInv, STypeOK, All, Mine, Registered
    <3> QED
      BY <1>1, <2>2, <3>1 DEF StatusFits
  <2>3. CASE q = p /\ pc'[p] = "refused"
    <3>1. All(p, None)' /\ config' = config
      BY <1>1, <2>3 DEF Register, Goto, SInv, STypeOK, All, Mine
    <3> QED
      BY <1>1, <2>3, <3>1 DEF StatusFits
  <2> QED
    BY <1>4, <2>1, <2>2, <2>3
<1> QED
  BY <1>5, <1>6, <1>7, <1>8, <1>9 DEF SInv

(* The event stored is the next one.                                       *)
LEMMA IngestStep ==
  ASSUME SInv, NEW p \in Invocations, Ingest(p)
  PROVE  SInv'
<1>1. /\ pc[p] = "ingest"
      /\ config[p] # None /\ StatusFits(p)
  BY DEF Ingest, SInv, StatusesFit
<1>2. /\ VersionOf[config[p]] \in Versions /\ config[p] \in Configs
      /\ Mine(p) \subseteq Scenarios /\ Mine(p) # {} /\ Size(p) \in Nat
  BY <1>1, DataSets DEF SInv
<1>3. STypeOK'
  <2>1. next' \in [Invocations -> Nat]
    BY DEF SInv, STypeOK, Ingest
  <2> QED
    BY <2>1 DEF SInv, STypeOK, Ingest
<1>4. FoundIsRegistered'
  BY DEF SInv, STypeOK, FoundIsRegistered, Registered, Ingest
<1>5. FilesFit'
  BY <1>1 DEF SInv, STypeOK, FilesFit, Registered, StatusFits, Ingest
<1>6. StoredInOrder'
  <2> SUFFICES ASSUME NEW q \in Invocations, NEW i \in Nat \ {0}
               PROVE  (/\ pc[q] # "idle" /\ i < next[q] => <<q, i>> \in stored
                       /\ i > next[q] => <<q, i>> \notin stored)'
    BY DEF StoredInOrder
  <2>1. /\ pc[q] # "idle" /\ i < next[q] => <<q, i>> \in stored
        /\ i > next[q] => <<q, i>> \notin stored
    BY DEF SInv, StoredInOrder
  <2>2. pc'[q] # "idle" => pc[q] # "idle"
    BY <1>1 DEF Ingest, SInv, STypeOK
  <2>3. next[q] \in Nat /\ next[p] \in Nat
    BY DEF SInv, STypeOK
  <2>4. CASE q # p
    BY <2>1, <2>2, <2>4 DEF Ingest, SInv, STypeOK
  <2>5. CASE q = p
    BY <1>1, <2>1, <2>3, <2>5 DEF Ingest, SInv, STypeOK
  <2> QED
    BY <2>4, <2>5
<1>7. StatusesFit'
  <2> SUFFICES ASSUME NEW q \in Invocations
               PROVE  (/\ config[q] = None => pc[q] = "idle"
                       /\ config[q] # None => pc[q] # "idle" /\ StatusFits(q))'
    BY DEF StatusesFit
  <2>1. CASE q # p
    BY <2>1, OthersKeepTheirPart DEF Ingest, SInv, STypeOK
  <2>2. CASE q = p
    <3>1. pc'[p] = "ingest" /\ config' = config
      BY <1>1 DEF Ingest, SInv, STypeOK
    <3>2. All(p, "RUNNING")' /\ Registered(p)'
      BY <1>1, <1>2 DEF StatusFits, Ingest, SInv, STypeOK, All,
                        Mine, Registered, Size
    <3> QED
      BY <1>1, <2>2, <3>1, <3>2 DEF StatusFits
  <2> QED
    BY <2>1, <2>2
<1> QED
  BY <1>3, <1>4, <1>5, <1>6, <1>7 DEF SInv

LEMMA IngestFailsStep ==
  ASSUME SInv, NEW p \in Invocations, IngestFails(p)
  PROVE  SInv'
<1>1. /\ pc[p] = "ingest"
      /\ config[p] # None /\ StatusFits(p)
  BY DEF IngestFails, Goto, SInv, StatusesFit
<1>2. /\ VersionOf[config[p]] \in Versions /\ config[p] \in Configs
      /\ Mine(p) \subseteq Scenarios /\ Mine(p) # {} /\ Size(p) \in Nat
  BY <1>1, DataSets DEF SInv
<1>3. STypeOK'
  BY <1>2 DEF SInv, STypeOK, IngestFails, Goto, Points
<1>4. FoundIsRegistered'
  BY DEF SInv, STypeOK, FoundIsRegistered, Registered, IngestFails, Goto
<1>5. FilesFit'
  BY <1>1 DEF SInv, STypeOK, FilesFit, Registered, StatusFits, IngestFails, Goto
<1>6. StoredInOrder'
  <2> SUFFICES ASSUME NEW q \in Invocations, NEW i \in Nat \ {0}
               PROVE  (/\ pc[q] # "idle" /\ i < next[q] => <<q, i>> \in stored
                       /\ i > next[q] => <<q, i>> \notin stored)'
    BY DEF StoredInOrder
  <2>1. /\ pc[q] # "idle" /\ i < next[q] => <<q, i>> \in stored
        /\ i > next[q] => <<q, i>> \notin stored
    BY DEF SInv, StoredInOrder
  <2>2. pc'[q] # "idle" => pc[q] # "idle"
    BY <1>1 DEF IngestFails, Goto, SInv, STypeOK
  <2>3. next[q] \in Nat /\ next[p] \in Nat
    BY DEF SInv, STypeOK
  <2>4. CASE q # p
    BY <2>1, <2>2, <2>4 DEF IngestFails, SInv, STypeOK
  <2>5. CASE q = p
    BY <1>1, <2>1, <2>3, <2>5 DEF IngestFails, Goto, SInv, STypeOK
  <2> QED
    BY <2>4, <2>5
<1>7. StatusesFit'
  <2> SUFFICES ASSUME NEW q \in Invocations
               PROVE  (/\ config[q] = None => pc[q] = "idle"
                       /\ config[q] # None => pc[q] # "idle" /\ StatusFits(q))'
    BY DEF StatusesFit
  <2>1. CASE q # p
    BY <2>1, OthersKeepTheirPart DEF IngestFails, Goto, SInv, STypeOK
  <2>2. CASE q = p
    <3>1. pc'[p] = "handle" /\ config' = config
      BY <1>1 DEF IngestFails, Goto, SInv, STypeOK
    <3>2. All(p, "RUNNING")' /\ Registered(p)'
      BY <1>1, <1>2 DEF StatusFits, IngestFails, Goto, SInv, STypeOK, All,
                        Mine, Registered, Size
    <3> QED
      BY <1>1, <2>2, <3>1, <3>2 DEF StatusFits
  <2> QED
    BY <2>1, <2>2
<1> QED
  BY <1>3, <1>4, <1>5, <1>6, <1>7 DEF SInv

LEMMA HandleStep ==
  ASSUME SInv, NEW p \in Invocations, Handle(p)
  PROVE  SInv'
<1>1. /\ pc[p] = "handle"
      /\ config[p] # None /\ StatusFits(p)
  BY DEF Handle, Goto, SInv, StatusesFit
<1>2. /\ VersionOf[config[p]] \in Versions /\ config[p] \in Configs
      /\ Mine(p) \subseteq Scenarios /\ Mine(p) # {} /\ Size(p) \in Nat
  BY <1>1, DataSets DEF SInv
<1>3. STypeOK'
  BY <1>2 DEF SInv, STypeOK, Handle, Goto, Points, SetRuns, Statuses
<1>4. FoundIsRegistered'
  BY DEF SInv, STypeOK, FoundIsRegistered, Registered, Handle, Goto
<1>5. FilesFit'
  BY <1>1 DEF SInv, STypeOK, FilesFit, Registered, StatusFits, Handle, Goto
<1>6. StoredInOrder'
  BY <1>1 DEF SInv, STypeOK, StoredInOrder, Handle, Goto
<1>7. StatusesFit'
  <2> SUFFICES ASSUME NEW q \in Invocations
               PROVE  (/\ config[q] = None => pc[q] = "idle"
                       /\ config[q] # None => pc[q] # "idle" /\ StatusFits(q))'
    BY DEF StatusesFit
  <2>1. CASE q # p
    BY <2>1, OthersKeepTheirPart DEF Handle, Goto, SInv, STypeOK, SetRuns
  <2>2. CASE q = p
    <3>1. pc'[p] = "failed" /\ config' = config
      BY <1>1 DEF Handle, Goto, SInv, STypeOK
    <3>2. All(p, "FAILED")' /\ Registered(p)'
      BY <1>1, <1>2, DrawnAssumption DEF StatusFits, Handle, Goto, SetRuns, SInv, STypeOK, All,
                        Mine, Registered, Size
    <3> QED
      BY <1>1, <2>2, <3>1, <3>2 DEF StatusFits
  <2> QED
    BY <2>1, <2>2
<1> QED
  BY <1>3, <1>4, <1>5, <1>6, <1>7 DEF SInv

(* All events are stored when the runs complete.                          *)
LEMMA CompleteStep ==
  ASSUME SInv, NEW p \in Invocations, Complete(p)
  PROVE  SInv'
<1>1. /\ pc[p] = "ingest"
      /\ config[p] # None /\ StatusFits(p)
  BY DEF Complete, Goto, SInv, StatusesFit
<1>2. /\ VersionOf[config[p]] \in Versions /\ config[p] \in Configs
      /\ Mine(p) \subseteq Scenarios /\ Mine(p) # {} /\ Size(p) \in Nat
  BY <1>1, DataSets DEF SInv
<1>3. STypeOK'
  BY <1>2 DEF SInv, STypeOK, Complete, Goto, Points, SetRuns, Statuses
<1>4. FoundIsRegistered'
  BY DEF SInv, STypeOK, FoundIsRegistered, Registered, Complete, Goto
<1>5. FilesFit'
  BY <1>1 DEF SInv, STypeOK, FilesFit, Registered, StatusFits, Complete, Goto
<1>6. StoredInOrder'
  BY <1>1 DEF SInv, STypeOK, StoredInOrder, Complete, Goto
<1>7. StatusesFit'
  <2> SUFFICES ASSUME NEW q \in Invocations
               PROVE  (/\ config[q] = None => pc[q] = "idle"
                       /\ config[q] # None => pc[q] # "idle" /\ StatusFits(q))'
    BY DEF StatusesFit
  <2>1. CASE q # p
    BY <2>1, OthersKeepTheirPart DEF Complete, Goto, SInv, STypeOK, SetRuns
  <2>2. CASE q = p
    <3>1. pc'[p] = "write manifest" /\ config' = config
      BY <1>1 DEF Complete, Goto, SInv, STypeOK
    <3>2. All(p, "COMPLETED")' /\ Registered(p)' /\ (next[p] > Size(p))'
      BY <1>1, <1>2, DrawnAssumption DEF StatusFits, Complete, Goto, SetRuns, SInv, STypeOK, All,
                        Mine, Registered, Size
    <3> QED
      BY <1>1, <2>2, <3>1, <3>2 DEF StatusFits
  <2> QED
    BY <2>1, <2>2
<1> QED
  BY <1>3, <1>4, <1>5, <1>6, <1>7 DEF SInv

LEMMA WriteManifestStep ==
  ASSUME SInv, NEW p \in Invocations, WriteManifest(p)
  PROVE  SInv'
<1>1. /\ pc[p] = "write manifest"
      /\ config[p] # None /\ StatusFits(p)
  BY DEF WriteManifest, Goto, SInv, StatusesFit
<1>2. /\ VersionOf[config[p]] \in Versions /\ config[p] \in Configs
      /\ Mine(p) \subseteq Scenarios /\ Mine(p) # {} /\ Size(p) \in Nat
  BY <1>1, DataSets DEF SInv
<1>3. STypeOK'
  BY <1>2 DEF SInv, STypeOK, WriteManifest, Goto, Points, ConfigOrNone
<1>4. FoundIsRegistered'
  BY DEF SInv, STypeOK, FoundIsRegistered, Registered, WriteManifest, Goto
<1>5. FilesFit'
  <2>1. \A q \in Invocations :
          pc'[q] \in {"write manifest", "write events"} => Registered(q)'
    BY <1>1 DEF SInv, STypeOK, FilesFit, Registered, StatusFits, WriteManifest, Goto
  <2>2. ASSUME NEW v \in Versions
        PROVE  ({exported[v].manifest, exported[v].events} \subseteq {None, registry[v]})'
    <3>1. CASE v = VersionOf[config[p]]
      <4>1. exported'[v] = [exported[v] EXCEPT !.manifest = config[p]]
        BY <1>2, <3>1 DEF WriteManifest, SInv, STypeOK
      <4>2. config[p] = registry[v] /\ registry' = registry
        BY <1>1, <3>1 DEF WriteManifest, StatusFits, Registered
      <4> QED
        BY <4>1, <4>2 DEF SInv, FilesFit, STypeOK
    <3>2. CASE v # VersionOf[config[p]]
      BY <3>2 DEF WriteManifest, SInv, FilesFit, STypeOK
    <3> QED
      BY <3>1, <3>2
  <2> QED
    BY <2>1, <2>2 DEF FilesFit
<1>6. StoredInOrder'
  BY <1>1 DEF SInv, STypeOK, StoredInOrder, WriteManifest, Goto
<1>7. StatusesFit'
  <2> SUFFICES ASSUME NEW q \in Invocations
               PROVE  (/\ config[q] = None => pc[q] = "idle"
                       /\ config[q] # None => pc[q] # "idle" /\ StatusFits(q))'
    BY DEF StatusesFit
  <2>1. CASE q # p
    BY <2>1, OthersKeepTheirPart DEF WriteManifest, Goto, SInv, STypeOK
  <2>2. CASE q = p
    <3>1. pc'[p] = "write events" /\ config' = config
      BY <1>1 DEF WriteManifest, Goto, SInv, STypeOK
    <3>2. All(p, "COMPLETED")' /\ Registered(p)' /\ (next[p] > Size(p))'
      BY <1>1, <1>2 DEF StatusFits, WriteManifest, Goto, SInv, STypeOK, All,
                        Mine, Registered, Size
    <3> QED
      BY <1>1, <2>2, <3>1, <3>2 DEF StatusFits
  <2> QED
    BY <2>1, <2>2
<1> QED
  BY <1>3, <1>4, <1>5, <1>6, <1>7 DEF SInv

LEMMA WriteEventsStep ==
  ASSUME SInv, NEW p \in Invocations, WriteEvents(p)
  PROVE  SInv'
<1>1. /\ pc[p] = "write events"
      /\ config[p] # None /\ StatusFits(p)
  BY DEF WriteEvents, Goto, SInv, StatusesFit
<1>2. /\ VersionOf[config[p]] \in Versions /\ config[p] \in Configs
      /\ Mine(p) \subseteq Scenarios /\ Mine(p) # {} /\ Size(p) \in Nat
  BY <1>1, DataSets DEF SInv
<1>3. STypeOK'
  BY <1>2 DEF SInv, STypeOK, WriteEvents, Goto, Points, ConfigOrNone
<1>4. FoundIsRegistered'
  BY DEF SInv, STypeOK, FoundIsRegistered, Registered, WriteEvents, Goto
<1>5. FilesFit'
  <2>1. \A q \in Invocations :
          pc'[q] \in {"write manifest", "write events"} => Registered(q)'
    BY <1>1 DEF SInv, STypeOK, FilesFit, Registered, StatusFits, WriteEvents, Goto
  <2>2. ASSUME NEW v \in Versions
        PROVE  ({exported[v].manifest, exported[v].events} \subseteq {None, registry[v]})'
    <3>1. CASE v = VersionOf[config[p]]
      <4>1. exported'[v] = [exported[v] EXCEPT !.events = config[p]]
        BY <1>2, <3>1 DEF WriteEvents, SInv, STypeOK
      <4>2. config[p] = registry[v] /\ registry' = registry
        BY <1>1, <3>1 DEF WriteEvents, StatusFits, Registered
      <4> QED
        BY <4>1, <4>2 DEF SInv, FilesFit, STypeOK
    <3>2. CASE v # VersionOf[config[p]]
      BY <3>2 DEF WriteEvents, SInv, FilesFit, STypeOK
    <3> QED
      BY <3>1, <3>2
  <2> QED
    BY <2>1, <2>2 DEF FilesFit
<1>6. StoredInOrder'
  BY <1>1 DEF SInv, STypeOK, StoredInOrder, WriteEvents, Goto
<1>7. StatusesFit'
  <2> SUFFICES ASSUME NEW q \in Invocations
               PROVE  (/\ config[q] = None => pc[q] = "idle"
                       /\ config[q] # None => pc[q] # "idle" /\ StatusFits(q))'
    BY DEF StatusesFit
  <2>1. CASE q # p
    BY <2>1, OthersKeepTheirPart DEF WriteEvents, Goto, SInv, STypeOK
  <2>2. CASE q = p
    <3>1. pc'[p] = "done" /\ config' = config
      BY <1>1 DEF WriteEvents, Goto, SInv, STypeOK
    <3>2. All(p, "COMPLETED")' /\ Registered(p)' /\ (next[p] > Size(p))'
      BY <1>1, <1>2 DEF StatusFits, WriteEvents, Goto, SInv, STypeOK, All,
                        Mine, Registered, Size
    <3> QED
      BY <1>1, <2>2, <3>1, <3>2 DEF StatusFits
  <2> QED
    BY <2>1, <2>2
<1> QED
  BY <1>3, <1>4, <1>5, <1>6, <1>7 DEF SInv

LEMMA DiesStep ==
  ASSUME SInv, NEW p \in Invocations, Dies(p)
  PROVE  SInv'
<1>1. /\ pc[p] \notin {"idle", "refused", "failed", "done", "dead"}
      /\ config[p] # None /\ StatusFits(p)
  BY DEF Dies, Goto, SInv, StatusesFit
<1>2. /\ VersionOf[config[p]] \in Versions /\ config[p] \in Configs
      /\ Mine(p) \subseteq Scenarios /\ Mine(p) # {} /\ Size(p) \in Nat
  BY <1>1, DataSets DEF SInv
<1>3. STypeOK'
  BY <1>2 DEF SInv, STypeOK, Dies, Goto, Points
<1>4. FoundIsRegistered'
  BY DEF SInv, STypeOK, FoundIsRegistered, Registered, Dies, Goto
<1>5. FilesFit'
  BY <1>1 DEF SInv, STypeOK, FilesFit, Registered, StatusFits, Dies, Goto
<1>6. StoredInOrder'
  BY <1>1 DEF SInv, STypeOK, StoredInOrder, Dies, Goto
<1>7. StatusesFit'
  <2> SUFFICES ASSUME NEW q \in Invocations
               PROVE  (/\ config[q] = None => pc[q] = "idle"
                       /\ config[q] # None => pc[q] # "idle" /\ StatusFits(q))'
    BY DEF StatusesFit
  <2>1. CASE q # p
    BY <2>1, OthersKeepTheirPart DEF Dies, Goto, SInv, STypeOK
  <2>2. CASE q = p
    <3>1. pc'[p] = "dead" /\ config' = config
      BY <1>1 DEF Dies, Goto, SInv, STypeOK
    <3>2. \/ All(p, None)'
          \/ All(p, "RUNNING")' /\ Registered(p)'
          \/ All(p, "COMPLETED")' /\ Registered(p)' /\ (next[p] > Size(p))'
      BY <1>1, <1>2 DEF StatusFits, Dies, Goto, SInv, STypeOK, Points, All, Mine,
                        Registered, Size
    <3> QED
      BY <1>1, <2>2, <3>1, <3>2 DEF StatusFits
  <2> QED
    BY <2>1, <2>2
<1> QED
  BY <1>3, <1>4, <1>5, <1>6, <1>7 DEF SInv

-----------------------------------------------------------------------------
LEMMA NextSInv == SInv /\ [Next]_vars => SInv'
<1> SUFFICES ASSUME SInv, [Next]_vars PROVE SInv'
  OBVIOUS
<1>1. CASE UNCHANGED synthetic
  BY <1>1 DEF synthetic, SInv, STypeOK, FoundIsRegistered, FilesFit, StoredInOrder,
              StatusesFit, StatusFits, All, Registered, Mine, Size
<1>2. CASE SyntheticNext
  BY <1>2, GenerateStep, LookUpStep, RegisterStep, IngestStep, IngestFailsStep,
     HandleStep, CompleteStep, WriteManifestStep, WriteEventsStep, DiesStep
     DEF SyntheticNext
<1> QED
  BY <1>1, <1>2 DEF Next, vars

(* What the status of a scenario run says is so, and the files of a data   *)
(* set version are those of the registered configuration, for any          *)
(* invocations of any configurations, whatever fails or dies.              *)
THEOREM StatusesTellTheTruth == Spec => []RunsTellTheTruth
<1> QED
  BY InitSInv, NextSInv, StatusesAreTrue, PTL DEF Spec

-----------------------------------------------------------------------------
(* Training and evaluation.                                                *)

Real(r) == job[r] # Nothing

Stages == {"assemble", "split", "audit", "save model", "save metadata", "check reload",
           "check reproducibility", "evaluate test", "save test metrics",
           "save benchmark", "refused", "dead", "done"}

BShape ==
  /\ stage \in [Trainings -> Stages]
  /\ files = [f \in FileNames |-> files[f]]
  /\ \A r \in Trainings : ~Real(r) => stage[r] = "done"

(* The stages of an invocation that has written the file.                  *)
Left(f) ==
  CASE f = "model" -> {"save metadata", "check reload", "check reproducibility",
                       "evaluate test", "save test metrics", "save benchmark", "done"}
    [] f = "metadata" -> {"check reload", "check reproducibility", "evaluate test",
                          "save test metrics", "save benchmark", "done"}
    [] f = "test_metrics" -> {"save benchmark", "done"}
    [] f = "benchmark" -> {"done"}

InTurn ==
  \A q, r \in Trainings :
    q < r /\ Real(r) /\ stage[r] # "assemble" => stage[q] \in Ended

(* Nobody but a later invocation replaces what an invocation wrote.        *)
FilesInTurn ==
  /\ \A f \in FileNames : files[f] # Nothing =>
       files[f].by \in Trainings /\ Real(files[f].by)
  /\ \A r \in Trainings : \A f \in FileNames :
       Real(r) /\ stage[r] \in Left(f) =>
         files[f].by \in Trainings /\ files[f].by >= r

(* Results are in the files of an invocation that was to evaluate, and the *)
(* metadata says so once it has.                                           *)
FilesTested ==
  /\ \A f \in {"test_metrics", "benchmark"} :
       files[f] # Nothing => files[f].tested = job[files[f].by].evaluate
  /\ files["metadata"] # Nothing =>
       LET r == files["metadata"].by IN
       job[r].evaluate /\ stage[r] \in {"save test metrics", "save benchmark", "done"}
         => files["metadata"].tested

Got == {reading.got[k] : k \in DOMAIN reading.got}

ReadingsCurrent ==
  /\ writes \in Nat /\ reading.since \in Nat /\ reading.since =< writes
  /\ reading.kind \in DOMAIN Reads
  /\ reading = [kind |-> reading.kind, got |-> reading.got, since |-> reading.since]
  /\ reading.got \in Seq(Got) /\ Len(reading.got) =< Len(Reads[reading.kind])
  /\ reading.since = writes => \A k \in DOMAIN reading.got :
       /\ reading.got[k] = files[Reads[reading.kind][k]]
       /\ reading.got[k] # Nothing
  /\ reading.kind = "summary" /\ ReadComplete => Head(reading.got).tested

BInv == BShape /\ InTurn /\ FilesInTurn /\ FilesTested /\ ReadingsCurrent

(* The least of a finite set in a strict order: the one with the fewest    *)
(* before it.                                                              *)
LEMMA LeastExists ==
  ASSUME NEW S, IsFiniteSet(S), S # {}, NEW R,
         \A x, y, z \in S : <<x, y>> \in R /\ <<y, z>> \in R => <<x, z>> \in R,
         \A x \in S : <<x, x>> \notin R
  PROVE  \E m \in S : \A y \in S : <<y, m>> \notin R
<1> DEFINE Under(x) == {y \in S : <<y, x>> \in R}
           D == {Cardinality(Under(x)) : x \in S}
<1>1. \A x \in S : /\ Under(x) \in SUBSET S /\ IsFiniteSet(Under(x))
                   /\ Cardinality(Under(x)) \in Nat
  <2>1. \A x \in S : Under(x) \in SUBSET S
    OBVIOUS
  <2> HIDE DEF Under
  <2> QED
    BY <2>1, FS_Subset, FS_CardinalityType
<1>2. D \in SUBSET Nat /\ D # {}
  <2> HIDE DEF Under
  <2> QED
    BY <1>1
<1>3. PICK d \in D : \A e \in D : ~(<<e, d>> \in OpToRel(<, Nat))
  <2> HIDE DEF D
  <2> QED
    BY <1>2, NatLessThanWellFounded, WFMin
<1>4. PICK m \in S : d = Cardinality(Under(m))
  BY <1>3
<1>5. \A y \in S : <<y, m>> \notin R
  <2> SUFFICES ASSUME NEW y \in S, <<y, m>> \in R PROVE FALSE
    OBVIOUS
  <2>1. Under(y) \subseteq Under(m) /\ y \in Under(m) /\ y \notin Under(y)
    OBVIOUS
  <2>2. Under(y) # Under(m) /\ Under(y) \in SUBSET Under(m)
    BY <2>1
  <2> HIDE DEF Under
  <2>3. /\ Cardinality(Under(y)) =< Cardinality(Under(m))
        /\ Cardinality(Under(y)) # Cardinality(Under(m))
    BY <1>1, <2>2, FS_Subset
  <2>4. <<Cardinality(Under(y)), d>> \in OpToRel(<, Nat)
    BY <1>1, <1>4, <2>3 DEF OpToRel
  <2> QED
    BY <1>3, <2>4
<1> QED
  BY <1>5

LEMMA MaxOfNaturals ==
  ASSUME NEW S \in SUBSET Nat, IsFiniteSet(S), S # {}
  PROVE  Max(S) \in S /\ \A y \in S : Max(S) >= y
<1> DEFINE R == {p \in S \X S : p[1] > p[2]}
<1>1. \A x, y \in S : <<x, y>> \in R <=> x > y
  OBVIOUS
<1>2. \A x, y, z \in S : <<x, y>> \in R /\ <<y, z>> \in R => <<x, z>> \in R
  BY <1>1
<1>3. \A x \in S : <<x, x>> \notin R
  BY <1>1
<1> HIDE DEF R
<1>4. \E m \in S : \A y \in S : <<y, m>> \notin R
  BY <1>2, <1>3, LeastExists
<1>5. \E m \in S : \A y \in S : m >= y
  <2>1. PICK m \in S : \A y \in S : ~(y > m)
    BY <1>1, <1>4
  <2>2. \A y \in S : y \in Int /\ m \in Int => m >= y
    BY <2>1
  <2> QED
    BY <2>2
<1> QED
  BY <1>5 DEF Max

LEMMA LeastOfNaturals ==
  ASSUME NEW S \in SUBSET Nat, S # {}
  PROVE  \E m \in S : \A y \in S : m =< y
<1>1. PICK m \in S : \A y \in S : ~(<<y, m>> \in OpToRel(<, Nat))
  BY NatLessThanWellFounded, WFMin
<1>2. \A y \in S : y < m => <<y, m>> \in OpToRel(<, Nat)
  BY DEF OpToRel
<1>3. \A y \in S : m =< y
  <2> SUFFICES ASSUME NEW y \in S PROVE m =< y
    OBVIOUS
  <2>1. m \in Nat /\ y \in Nat /\ ~(y < m)
    BY <1>1, <1>2
  <2> QED
    BY <2>1
<1> QED
  BY <1>3

LEMMA BenchmarkStart ==
  ASSUME NEW jobs, BenchmarkInit(jobs)
  PROVE  BInv
<1> USE DEF BenchmarkInit
<1>0. BShape
  BY DEF BShape, Real, Stages
<1>1. InTurn
  BY DEF InTurn, Real
<1>2. FilesInTurn
  BY DEF FilesInTurn, Real, Left, FileNames
<1>3. FilesTested
  BY DEF FilesTested, FileNames
<1>4. ReadingsCurrent
  <2>1. reading.got = <<>> /\ reading.kind = "risk_model" /\ reading.since = 0
    OBVIOUS
  <2>2. <<>> \in Seq(Got) /\ Len(<<>>) = 0
    OBVIOUS
  <2>3. Reads["risk_model"] = <<"metadata", "model">> /\ "risk_model" \in DOMAIN Reads
    BY DEF Reads
  <2> QED
    BY <2>1, <2>2, <2>3 DEF ReadingsCurrent, ReadComplete
<1> QED
  BY <1>0, <1>1, <1>2, <1>3, <1>4 DEF BInv

Evaluated == {"save test metrics", "save benchmark", "done"}
Idle == Ended \cup {"assemble"}

(* An invocation that has begun moves on without writing.                  *)
LEMMA MovesOn ==
  ASSUME BInv, NEW r \in Trainings, NEW from, NEW to \in Stages, Move(r, from, to),
         from \notin Idle, to # "assemble",
         UNCHANGED <<job, files, writes, reading>>,
         \A f \in FileNames : to \in Left(f) => from \in Left(f),
         to \in Evaluated => from \in Evaluated \/ ~job[r].evaluate
  PROVE  BInv'
<1> USE DEF BInv, Move
<1>1. stage[r] = from /\ stage' = [stage EXCEPT ![r] = to] /\ stage \in [Trainings -> Stages]
  BY DEF BShape
<1>2. BShape'
  BY <1>1 DEF BShape, Real, Idle, Ended
<1>3. InTurn'
  BY <1>1 DEF InTurn, Real, Idle
<1>4. FilesInTurn'
  BY <1>1 DEF FilesInTurn, Real
<1>5. FilesTested'
  BY <1>1 DEF FilesTested, FilesInTurn, Evaluated, FileNames
<1>6. ReadingsCurrent'
  BY DEF ReadingsCurrent, ReadComplete, Got
<1> QED
  BY <1>2, <1>3, <1>4, <1>5, <1>6

(* An invocation writes a file: all that went before it are at their end,  *)
(* and none that comes after it has begun.                                 *)
LEMMA WritesOn ==
  ASSUME BInv, NEW r \in Trainings, NEW from, NEW to \in Stages, Move(r, from, to),
         NEW f \in FileNames, NEW content, Write(f, content), content.by = r,
         from \notin Idle, to # "assemble",
         \A g \in FileNames : to \in Left(g) => from \in Left(g) \/ g = f,
         f \in {"test_metrics", "benchmark"} => content.tested = job[r].evaluate,
         f # "metadata" /\ to \in Evaluated => from \in Evaluated \/ ~job[r].evaluate,
         f = "metadata" /\ to \in Evaluated => content.tested
  PROVE  BInv'
<1> USE DEF BInv, Move, Write
<1>1. stage[r] = from /\ stage' = [stage EXCEPT ![r] = to] /\ stage \in [Trainings -> Stages]
  BY DEF BShape
<1>2. /\ files'[f] = content /\ \A g \in FileNames : g # f => files'[g] = files[g]
      /\ files' = [g \in FileNames |-> files'[g]]
  BY DEF BShape
<1>3. Real(r) /\ \A q \in Trainings : Real(q) /\ q > r => stage[q] = "assemble"
  BY <1>1, TrainingsAssumption DEF InTurn, Idle, BShape, Ended
<1>4. BShape'
  BY <1>1, <1>2 DEF BShape, Real, Idle, Ended
<1>5. InTurn'
  BY <1>1 DEF InTurn, Real, Idle
<1>6. FilesInTurn'
  <2>1. \A g \in FileNames : files'[g] # Nothing =>
          files'[g].by \in Trainings /\ Real(files'[g].by)
    BY <1>2, <1>3 DEF FilesInTurn
  <2>2. ASSUME NEW q \in Trainings, NEW g \in FileNames, Real(q), stage'[q] \in Left(g)
        PROVE  files'[g].by \in Trainings /\ files'[g].by >= q
    <3>1. CASE g # f
      BY <1>1, <1>2, <2>2, <3>1 DEF FilesInTurn
    <3>2. CASE g = f
      <4>1. ~(q > r)
        <5>1. "assemble" \notin Left(g)
          BY DEF Left, FileNames
        <5> QED
          BY <1>1, <1>3, <2>2, <5>1, TrainingsAssumption
      <4> QED
        BY <1>2, <3>2, <4>1, TrainingsAssumption
    <3> QED
      BY <3>1, <3>2
  <2>3. job' = job
    OBVIOUS
  <2> HIDE DEF BInv, Move, Write
  <2> QED
    BY <2>1, <2>2, <2>3 DEF FilesInTurn, Real
<1>7. FilesTested'
  <2>1. \A g \in {"test_metrics", "benchmark"} :
          files'[g] # Nothing => files'[g].tested = job[files'[g].by].evaluate
    BY <1>2 DEF FilesTested, FileNames
  <2>2. ASSUME files'["metadata"] # Nothing,
               job[files'["metadata"].by].evaluate,
               stage'[files'["metadata"].by] \in Evaluated
        PROVE  files'["metadata"].tested
    <3>1. CASE f = "metadata"
      BY <1>1, <1>2, <2>2, <3>1
    <3>2. CASE f # "metadata"
      <4>1. /\ files'["metadata"] = files["metadata"]
            /\ files["metadata"].by \in Trainings
        BY <1>2, <2>2, <3>2 DEF FilesInTurn, FileNames
      <4> DEFINE q == files["metadata"].by
      <4>2. q \in Trainings /\ job[q].evaluate /\ stage'[q] \in Evaluated
        BY <2>2, <4>1
      <4>3. stage[q] \in Evaluated
        BY <1>1, <3>2, <4>2
      <4> QED
        BY <2>2, <4>1, <4>2, <4>3 DEF FilesTested, Evaluated
    <3> QED
      BY <3>1, <3>2
  <2> QED
    BY <2>1, <2>2 DEF FilesTested, Evaluated
<1>8. ReadingsCurrent'
  <2>1. writes' \in Nat /\ reading.since < writes' /\ reading.since =< writes'
    BY DEF ReadingsCurrent
  <2> QED
    BY <2>1 DEF ReadingsCurrent, ReadComplete, Got
<1> QED
  BY <1>4, <1>5, <1>6, <1>7, <1>8

LEMMA AssembleStep ==
  ASSUME BInv, NEW r \in Trainings, Assemble(r)
  PROVE  BInv'
<1> USE DEF BInv, Move, Assemble
<1>1. /\ stage[r] = "assemble" /\ stage' = [stage EXCEPT ![r] = "split"]
      /\ stage \in [Trainings -> Stages] /\ Real(r)
  BY DEF BShape
<1>2. BShape'
  BY <1>1 DEF BShape, Real, Stages
<1>3. InTurn'
  BY <1>1, TrainingsAssumption DEF InTurn, Real, Ended
<1>4. FilesInTurn'
  BY <1>1 DEF FilesInTurn, Real, Left, FileNames
<1>5. FilesTested'
  BY <1>1 DEF FilesTested, FilesInTurn, FileNames
<1>6. ReadingsCurrent'
  BY DEF ReadingsCurrent, ReadComplete, Got
<1> QED
  BY <1>2, <1>3, <1>4, <1>5, <1>6

LEMMA InvocationStep ==
  ASSUME BInv, NEW r \in Trainings,
         \/ SplitData(r) \/ Audit(r) \/ SaveModel(r) \/ SaveMetadata(r) \/ CheckReload(r)
         \/ CheckReproducibility(r) \/ EvaluateTest(r) \/ SaveTestMetrics(r)
         \/ SaveBenchmark(r) \/ Die(r)
  PROVE  BInv'
<1> USE DEF Left, Idle, Ended, Stages, FileNames, Evaluated
<1>1. CASE SplitData(r)
  <2>1. PICK to \in {"refused", "audit"} :
          Move(r, "split", to) /\ UNCHANGED <<job, files, writes, reading>>
    BY <1>1 DEF SplitData
  <2> QED
    BY <2>1, MovesOn
<1>2. CASE Audit(r)
  <2>1. PICK to \in {"save model", "refused"} :
          Move(r, "audit", to) /\ UNCHANGED <<job, files, writes, reading>>
    BY <1>2 DEF Audit
  <2> QED
    BY <2>1, MovesOn
<1>3. CASE SaveModel(r)
  <2> DEFINE content == Content(r, FALSE)
  <2>1. Move(r, "save model", "save metadata") /\ Write("model", content)
    BY <1>3 DEF SaveModel
  <2>2. content.by = r /\ content.tested = FALSE
    BY DEF Content
  <2>3. /\ "save metadata" \in Stages /\ "model" \in FileNames /\ "save model" \notin Idle
        /\ \A g \in FileNames : "save metadata" \in Left(g) => "save model" \in Left(g) \/ g = "model"
        /\ "save metadata" \notin Evaluated
    OBVIOUS
  <2> HIDE DEF content, Left, Idle, Ended, Stages, FileNames, Evaluated
  <2> QED
    BY <2>1, <2>2, <2>3, WritesOn
<1>4. CASE SaveMetadata(r)
  <2> DEFINE content == Metadata(r, FALSE)
  <2>1. Move(r, "save metadata", "check reload") /\ Write("metadata", content)
    BY <1>4 DEF SaveMetadata
  <2>2. content.by = r /\ content.tested = FALSE
    BY DEF Metadata
  <2>3. /\ "check reload" \in Stages /\ "metadata" \in FileNames /\ "save metadata" \notin Idle
        /\ \A g \in FileNames : "check reload" \in Left(g) => "save metadata" \in Left(g) \/ g = "metadata"
        /\ "check reload" \notin Evaluated
    OBVIOUS
  <2> HIDE DEF content, Left, Idle, Ended, Stages, FileNames, Evaluated
  <2> QED
    BY <2>1, <2>2, <2>3, WritesOn
<1>5. CASE CheckReload(r)
  <2>1. PICK to \in {"check reproducibility", "refused"} :
          Move(r, "check reload", to) /\ UNCHANGED <<job, files, writes, reading>>
    BY <1>5 DEF CheckReload
  <2> QED
    BY <2>1, MovesOn
<1>6. CASE CheckReproducibility(r)
  <2>1. PICK to \in {"evaluate test", "save test metrics", "refused"} :
          /\ Move(r, "check reproducibility", to) /\ UNCHANGED <<job, files, writes, reading>>
          /\ to = "save test metrics" => ~job[r].evaluate
    BY <1>6 DEF CheckReproducibility
  <2> QED
    BY <2>1, MovesOn
<1>7. CASE EvaluateTest(r)
  <2> DEFINE content == Metadata(r, TRUE)
  <2>1. Move(r, "evaluate test", "save test metrics") /\ Write("metadata", content)
    BY <1>7 DEF EvaluateTest
  <2>2. content.by = r /\ content.tested = TRUE
    BY DEF Metadata
  <2>3. /\ "save test metrics" \in Stages /\ "metadata" \in FileNames /\ "evaluate test" \notin Idle
        /\ \A g \in FileNames : "save test metrics" \in Left(g) => "evaluate test" \in Left(g) \/ g = "metadata"
    OBVIOUS
  <2> HIDE DEF content, Left, Idle, Ended, Stages, FileNames
  <2> QED
    BY <2>1, <2>2, <2>3, WritesOn
<1>8. CASE SaveTestMetrics(r)
  <2> DEFINE content == Content(r, job[r].evaluate)
  <2>1. Move(r, "save test metrics", "save benchmark") /\ Write("test_metrics", content)
    BY <1>8 DEF SaveTestMetrics
  <2>2. content.by = r /\ content.tested = job[r].evaluate
    BY DEF Content
  <2>3. /\ "save benchmark" \in Stages /\ "test_metrics" \in FileNames /\ "save test metrics" \notin Idle
        /\ \A g \in FileNames : "save benchmark" \in Left(g) => "save test metrics" \in Left(g) \/ g = "test_metrics"
    OBVIOUS
  <2> HIDE DEF content, Left, Idle, Ended, Stages, FileNames
  <2> QED
    BY <2>1, <2>2, <2>3, WritesOn
<1>9. CASE SaveBenchmark(r)
  <2> DEFINE content == Content(r, job[r].evaluate)
  <2>1. Move(r, "save benchmark", "done") /\ Write("benchmark", content)
    BY <1>9 DEF SaveBenchmark
  <2>2. content.by = r /\ content.tested = job[r].evaluate
    BY DEF Content
  <2>3. /\ "done" \in Stages /\ "benchmark" \in FileNames /\ "save benchmark" \notin Idle
        /\ \A g \in FileNames : "done" \in Left(g) => "save benchmark" \in Left(g) \/ g = "benchmark"
    OBVIOUS
  <2> HIDE DEF content, Left, Idle, Ended, Stages, FileNames
  <2> QED
    BY <2>1, <2>2, <2>3, WritesOn
<1>10. CASE Die(r)
  <2>1. Move(r, stage[r], "dead") /\ UNCHANGED <<job, files, writes, reading>>
    BY <1>10 DEF Die, Move
  <2> QED
    BY <1>10, <2>1, MovesOn DEF Die
<1> QED
  BY <1>1, <1>2, <1>3, <1>4, <1>5, <1>6, <1>7, <1>8, <1>9, <1>10

(* A sequence and one more.                                                *)
LEMMA Appended ==
  ASSUME NEW S, NEW s \in Seq(S), NEW e, NEW t, t = Append(s, e)
  PROVE  /\ t \in Seq({t[k] : k \in DOMAIN t})
         /\ Len(t) = Len(s) + 1 /\ DOMAIN t = 1 .. Len(s) + 1
         /\ \A k \in 1 .. Len(s) : t[k] = s[k]
         /\ t[Len(s) + 1] = e
         /\ s # <<>> => Head(t) = Head(s)
<1>1. s \in Seq(S \cup {e}) /\ e \in S \cup {e}
  OBVIOUS
<1>2. /\ t \in Seq(S \cup {e}) /\ Len(t) = Len(s) + 1
      /\ \A k \in 1 .. Len(s) : t[k] = s[k] /\ t[Len(s) + 1] = e
  BY <1>1
<1>3. DOMAIN t = 1 .. Len(t) /\ Len(s) \in Nat /\ Len(t) \in Nat
  BY <1>2
<1>4. t \in Seq({t[k] : k \in DOMAIN t})
  <2>1. t \in [1 .. Len(t) -> S \cup {e}]
    BY <1>2, LenProperties
  <2> DEFINE R == {t[k] : k \in DOMAIN t}
  <2>2. t \in [1 .. Len(t) -> R]
    BY <1>3, <2>1
  <2> HIDE DEF R
  <2>3. t \in Seq(R)
    BY <1>3, <2>2, SeqDef, Zenon
  <2> QED
    BY <2>3 DEF R
<1>5. s # <<>> => Head(t) = Head(s)
  BY <1>1, <1>2
<1>6. t[Len(s) + 1] = e
  BY <1>1
<1> QED
  BY <1>2, <1>3, <1>4, <1>5, <1>6

LEMMA ReadsOf ==
  /\ DOMAIN Reads = {"risk_model", "summary"}
  /\ Len(Reads["risk_model"]) = 2 /\ Reads["risk_model"][1] = "metadata"
  /\ Reads["risk_model"][2] = "model"
  /\ Len(Reads["summary"]) = 3 /\ Reads["summary"][1] = "test_metrics"
  /\ Reads["summary"][2] = "benchmark" /\ Reads["summary"][3] = "metadata"
  /\ \A kind \in DOMAIN Reads : Head(Reads[kind]) = Reads[kind][1]
BY DEF Reads

LEMMA OpenStep ==
  ASSUME BInv, NEW kind \in DOMAIN Reads, Open(kind)
  PROVE  BInv'
<1>1. BShape' /\ InTurn' /\ FilesInTurn' /\ FilesTested'
  BY DEF BInv, Open, BShape, InTurn, FilesInTurn, FilesTested, Real
<1>2. ReadingsCurrent'
  <2> DEFINE f == files[Reads[kind][1]]
             t == << f >>
  <2>1. /\ reading' = [kind |-> kind, since |-> writes, got |-> t]
        /\ f # Nothing /\ UNCHANGED <<files, writes>>
    BY ReadsOf DEF Open
  <2>2. t \in Seq({f}) /\ Len(t) = 1 /\ DOMAIN t = {1} /\ t[1] = f
    OBVIOUS
  <2> HIDE DEF f, t
  <2>3. /\ reading'.kind = kind /\ reading'.since = writes /\ reading'.got = t
        /\ writes' = writes /\ files' = files /\ writes \in Nat
    BY <2>1 DEF BInv, ReadingsCurrent
  <2>4. Got' = {f}
    BY <2>2, <2>3 DEF Got
  <2>5. Len(Reads[kind]) \in {2, 3} /\ ~ReadComplete'
    BY <2>2, <2>3, ReadsOf DEF ReadComplete
  <2>6. reading' = [kind |-> reading'.kind, got |-> reading'.got, since |-> reading'.since]
    BY <2>1
  <2>7. \A k \in DOMAIN reading'.got :
          /\ reading'.got[k] = files'[Reads[reading'.kind][k]]
          /\ reading'.got[k] # Nothing
    BY <2>1, <2>2, <2>3 DEF f
  <2> QED
    <3>1. reading'.got \in Seq(Got') /\ Len(reading'.got) =< Len(Reads[reading'.kind])
      BY <2>2, <2>3, <2>4, <2>5
    <3>2. /\ writes' \in Nat /\ reading'.since \in Nat /\ reading'.since =< writes'
          /\ reading'.kind \in DOMAIN Reads
      BY <2>3
    <3> QED
      BY <2>5, <2>6, <2>7, <3>1, <3>2, Zenon DEF ReadingsCurrent
<1> QED
  BY <1>1, <1>2 DEF BInv

LEMMA ReadNextStep ==
  ASSUME BInv, ReadNext
  PROVE  BInv'
<1>1. BShape' /\ InTurn' /\ FilesInTurn' /\ FilesTested'
  BY DEF BInv, ReadNext, BShape, InTurn, FilesInTurn, FilesTested, Real
<1>2. ReadingsCurrent'
  <2> DEFINE kind == reading.kind
             got == reading.got
             f == files[Reads[kind][Len(got) + 1]]
             fails == \/ f = Nothing
                      \/ /\ kind = "summary" /\ Len(got) + 1 = Len(Reads[kind])
                         /\ ~Head(got).tested
  <2>1. /\ got # <<>> /\ Len(got) # Len(Reads[kind]) /\ UNCHANGED <<files, writes>>
        /\ reading' = [reading EXCEPT !.got = IF fails THEN <<>> ELSE Append(got, f)]
    BY DEF ReadNext, ReadComplete
  <2>2. /\ kind \in DOMAIN Reads /\ got \in Seq(Got) /\ Len(got) =< Len(Reads[kind])
        /\ reading = [kind |-> kind, got |-> got, since |-> reading.since]
        /\ writes \in Nat /\ reading.since \in Nat /\ reading.since =< writes
    BY DEF BInv, ReadingsCurrent
  <2>3. reading' = [kind |-> kind, since |-> reading.since,
                    got |-> IF fails THEN <<>> ELSE Append(got, f)]
    BY <2>1, <2>2
  <2>4. CASE fails
    <3>1. reading'.got = <<>> /\ reading'.kind = kind /\ reading'.since = reading.since
      BY <2>3, <2>4
    <3>2. <<>> \in Seq(Got') /\ Len(<<>>) = 0
      OBVIOUS
    <3>3. reading' = [kind |-> reading'.kind, got |-> reading'.got, since |-> reading'.since]
      BY <2>3
    <3>4. Len(Reads[kind]) \in {2, 3}
      BY <2>2, ReadsOf
    <3>5. DOMAIN <<>> = {}
      OBVIOUS
    <3> QED
      BY <2>1, <2>2, <3>1, <3>2, <3>3, <3>4, <3>5 DEF ReadingsCurrent, ReadComplete
  <2>5. CASE ~fails
    <3> DEFINE t == Append(got, f)
    <3>1. reading'.got = t /\ reading'.kind = kind /\ reading'.since = reading.since
      BY <2>3, <2>5
    <3>2. /\ t \in Seq({t[k] : k \in DOMAIN t})
          /\ Len(t) = Len(got) + 1 /\ DOMAIN t = 1 .. Len(got) + 1
          /\ \A k \in 1 .. Len(got) : t[k] = got[k]
          /\ t[Len(got) + 1] = f /\ Head(t) = Head(got)
      <4> HIDE DEF f, t
      <4>1. t = Append(got, f)
        BY DEF t
      <4>2. got # <<>> /\ got \in Seq(Got)
        BY <2>1, <2>2
      <4> QED
        BY <4>1, <4>2, Appended
    <3>3. f # Nothing
      BY <2>5
    <3>4. ReadComplete' /\ kind = "summary" => Head(t).tested
      <4>1. ASSUME ReadComplete', kind = "summary" PROVE Len(got) + 1 = Len(Reads[kind])
        BY <3>1, <3>2, <4>1 DEF ReadComplete
      <4> QED
        BY <2>5, <3>2, <4>1
    <3>5. reading' = [kind |-> reading'.kind, got |-> reading'.got, since |-> reading'.since]
      BY <2>3
    <3> HIDE DEF f, t, fails
    <3>6. Got' = {t[k] : k \in DOMAIN t}
      BY <3>1 DEF Got
    <3>7. DOMAIN got = 1 .. Len(got) /\ Len(got) \in Nat /\ Len(Reads[kind]) \in {2, 3}
      BY <2>2, ReadsOf, LenProperties
    <3>8. reading.since = writes => \A k \in DOMAIN t :
            t[k] = files[Reads[kind][k]] /\ t[k] # Nothing
      <4> SUFFICES ASSUME reading.since = writes, NEW k \in DOMAIN t
                   PROVE  t[k] = files[Reads[kind][k]] /\ t[k] # Nothing
        OBVIOUS
      <4>1. CASE k = Len(got) + 1
        BY <3>2, <3>3, <4>1 DEF f
      <4>2. CASE k \in 1 .. Len(got)
        BY <3>2, <3>7, <4>2 DEF BInv, ReadingsCurrent
      <4> QED
        BY <3>2, <3>7, <4>1, <4>2
    <3>9. reading'.got \in Seq(Got') /\ Len(reading'.got) =< Len(Reads[reading'.kind])
      <4>1. reading'.got \in Seq(Got')
        BY <3>1, <3>2, <3>6, Zenon
      <4>2. Len(got) + 1 =< Len(Reads[kind])
        BY <2>1, <2>2, <3>7
      <4> QED
        BY <3>1, <3>2, <4>1, <4>2
    <3> QED
      BY <2>1, <2>2, <3>1, <3>4, <3>5, <3>8, <3>9 DEF ReadingsCurrent
  <2> QED
    BY <2>4, <2>5
<1> QED
  BY <1>1, <1>2 DEF BInv

-----------------------------------------------------------------------------
(* The readings that are explained.  The last author is done, so that it   *)
(* replaced every file, and nobody has replaced one since.                 *)
LEMMA ReadingsFollow == BInv => ReadingsExplained
<1> SUFFICES ASSUME BInv, ReadComplete, reading.since = writes,
                    NEW authors, authors = {reading.got[k].by : k \in DOMAIN reading.got},
                    stage[Max(authors)] = "done"
             PROVE  /\ authors = {Max(authors)}
                    /\ reading.kind = "summary" =>
                         \A k \in DOMAIN reading.got : reading.got[k].tested
  BY DEF ReadingsExplained
<1> DEFINE m == Max(authors)
           kind == reading.kind
<1>1. /\ kind \in {"risk_model", "summary"} /\ Len(reading.got) = Len(Reads[kind])
      /\ DOMAIN reading.got = 1 .. Len(Reads[kind]) /\ Len(Reads[kind]) \in {2, 3}
      /\ kind = "summary" => Len(Reads[kind]) = 3
  BY ReadsOf, LenProperties DEF BInv, ReadingsCurrent, ReadComplete
<1>2. \A k \in DOMAIN reading.got :
        /\ Reads[kind][k] \in FileNames
        /\ reading.got[k] = files[Reads[kind][k]] /\ reading.got[k] # Nothing
        /\ reading.got[k].by \in Trainings /\ Real(reading.got[k].by)
  <2>1. \A k \in DOMAIN reading.got : Reads[kind][k] \in FileNames
    BY <1>1, ReadsOf DEF FileNames
  <2>2. \A k \in DOMAIN reading.got :
          reading.got[k] = files[Reads[kind][k]] /\ reading.got[k] # Nothing
    BY DEF BInv, ReadingsCurrent
  <2> QED
    BY <2>1, <2>2 DEF BInv, FilesInTurn
<1>3. authors \in SUBSET Nat /\ authors \subseteq Trainings /\ IsFiniteSet(authors) /\ authors # {}
  <2>1. authors \subseteq Trainings
    BY <1>2
  <2>2. IsFiniteSet(authors)
    <3> DEFINE By(k) == reading.got[k].by
    <3>1. IsFiniteSet({By(1)} \cup {By(2)} \cup {By(3)})
      <4>1. IsFiniteSet({By(1)})
        BY FS_Singleton
      <4>2. IsFiniteSet({By(1)} \cup {By(2)})
        BY <4>1, FS_AddElement
      <4> QED
        BY <4>2, FS_AddElement
    <3>2. authors \subseteq {By(1)} \cup {By(2)} \cup {By(3)}
      BY <1>1
    <3> QED
      BY <3>1, <3>2, FS_Subset
  <2>3. 1 \in DOMAIN reading.got
    <3> DEFINE n == Len(Reads[kind])
    <3>1. DOMAIN reading.got = 1 .. n /\ n \in {2, 3}
      BY <1>1
    <3> HIDE DEF n
    <3>2. 1 \in 1 .. n
      BY <3>1
    <3> QED
      BY <3>1, <3>2
  <2> QED
    BY <2>1, <2>2, <2>3, TrainingsAssumption
<1>4. m \in authors /\ \A y \in authors : m >= y
  BY <1>3, MaxOfNaturals
<1>5. m \in Trainings /\ Real(m) /\ stage[m] = "done"
  BY <1>2, <1>3, <1>4
<1>6. \A f \in FileNames : files[f].by \in Trainings /\ files[f].by >= m
  <2>1. \A f \in FileNames : "done" \in Left(f)
    BY DEF FileNames, Left
  <2> QED
    BY <1>5, <2>1 DEF BInv, FilesInTurn
<1>7. \A k \in DOMAIN reading.got : reading.got[k].by = m
  <2> SUFFICES ASSUME NEW k \in DOMAIN reading.got PROVE reading.got[k].by = m
    OBVIOUS
  <2>1. /\ reading.got[k].by \in authors /\ reading.got[k].by >= m /\ m >= reading.got[k].by
        /\ m \in Nat /\ reading.got[k].by \in Nat
    BY <1>2, <1>3, <1>4, <1>5, <1>6, TrainingsAssumption
  <2> QED
    BY <2>1
<1>8. authors = {m}
  BY <1>4, <1>7
<1>9. ASSUME kind = "summary", NEW k \in DOMAIN reading.got
      PROVE  reading.got[k].tested
  <2>1. /\ reading.got[1] = files["test_metrics"] /\ reading.got[2] = files["benchmark"]
        /\ reading.got[3] = files["metadata"] /\ k \in {1, 2, 3}
    BY <1>1, <1>2, <1>9, ReadsOf
  <2>2. 1 \in DOMAIN reading.got /\ 2 \in DOMAIN reading.got /\ 3 \in DOMAIN reading.got
    <3> DEFINE n == Len(Reads[kind])
    <3>1. DOMAIN reading.got = 1 .. n /\ n = 3
      BY <1>1, <1>9
    <3> HIDE DEF n
    <3>2. 1 \in 1 .. n /\ 2 \in 1 .. n /\ 3 \in 1 .. n
      BY <3>1
    <3> QED
      BY <3>1, <3>2
  <2>3. Head(reading.got).tested /\ Head(reading.got) = reading.got[1]
    BY <1>1, <1>9 DEF BInv, ReadingsCurrent
  <2>4. job[m].evaluate
    <3>1. files["test_metrics"] # Nothing /\ files["test_metrics"].by = m
      BY <1>2, <1>7, <2>1, <2>2
    <3>2. files["test_metrics"].tested
      BY <2>1, <2>3
    <3>3. files["test_metrics"] # Nothing =>
            files["test_metrics"].tested = job[files["test_metrics"].by].evaluate
      BY DEF BInv, FilesTested
    <3> HIDE DEF m
    <3> QED
      BY <3>1, <3>2, <3>3
  <2>5. files["benchmark"].tested
    BY <1>2, <1>7, <2>1, <2>2, <2>4 DEF BInv, FilesTested
  <2>6. files["metadata"].tested
    BY <1>2, <1>5, <1>7, <2>1, <2>2, <2>4 DEF BInv, FilesTested
  <2> QED
    BY <2>1, <2>3, <2>5, <2>6
<1> QED
  BY <1>8, <1>9

LEMMA InitBInv == Init => BInv
BY BenchmarkStart DEF Init

LEMMA NextBInv == BInv /\ [Next]_vars => BInv'
<1> SUFFICES ASSUME BInv, [Next]_vars PROVE BInv'
  OBVIOUS
<1>1. CASE UNCHANGED benchmark
  <2>1. UNCHANGED job /\ UNCHANGED stage /\ UNCHANGED files /\ UNCHANGED writes
        /\ UNCHANGED reading
    BY <1>1 DEF benchmark
  <2>2. BShape' /\ InTurn' /\ FilesInTurn' /\ FilesTested'
    BY <2>1 DEF BInv, BShape, InTurn, FilesInTurn, FilesTested, Real
  <2>3. ReadingsCurrent'
    BY <2>1 DEF BInv, ReadingsCurrent, ReadComplete, Got
  <2> QED
    BY <2>2, <2>3 DEF BInv
<1>2. CASE BenchmarkNext
  BY <1>2, AssembleStep, InvocationStep, OpenStep, ReadNextStep DEF BenchmarkNext
<1> QED
  BY <1>1, <1>2 DEF Next, vars

(* What a reader of the artifact directory puts together, while nothing is *)
(* written, is of one invocation that finished, with its own test results; *)
(* or the last that wrote has not finished: for any number of invocations  *)
(* and any data, whichever are refused or die.                             *)
THEOREM ReadingsAreExplained == Spec => []ReadingsExplained
<1> QED
  BY InitBInv, NextBInv, ReadingsFollow, PTL DEF Spec

-----------------------------------------------------------------------------
(* The sum of finitely many integers is one.                               *)
LEMMA SumIsInteger ==
  ASSUME NEW S, IsFiniteSet(S), NEW g \in [S -> Int]
  PROVE  SumFunction(g) \in Int
<1> DEFINE
      x(s) == CHOOSE y \in s : TRUE
      Step(f) == [s \in SUBSET S |-> IF s = {} THEN 0 ELSE g[x(s)] + f[s \ {x(s)}]]
      iter == CHOOSE f : f = Step(f)
      Upto(n) == {s \in SUBSET S : Cardinality(s) =< n}
      Good(n) == \E f \in [SUBSET S -> Int] : \A s \in Upto(n) : f[s] = Step(f)[s]
<1>1. SumFunction(g) = iter[S]
  <2>1. DOMAIN g = S
    OBVIOUS
  <2> QED
    BY <2>1 DEF SumFunction, SumFunctionOnSet, FoldFunctionOnSet, MapThenFoldSet
<1>0. \A s \in SUBSET S : IsFiniteSet(s) /\ Cardinality(s) \in Nat
  BY FS_Subset, FS_CardinalityType
<1>2. \A s \in SUBSET S :
        /\ IsFiniteSet(s) /\ Cardinality(s) \in Nat
        /\ s # {} => /\ x(s) \in s /\ g[x(s)] \in Int /\ s \ {x(s)} \in SUBSET S
                     /\ Cardinality(s \ {x(s)}) = Cardinality(s) - 1
  <2> SUFFICES ASSUME NEW s \in SUBSET S
               PROVE  /\ IsFiniteSet(s) /\ Cardinality(s) \in Nat
                      /\ s # {} => /\ x(s) \in s /\ g[x(s)] \in Int /\ s \ {x(s)} \in SUBSET S
                                   /\ Cardinality(s \ {x(s)}) = Cardinality(s) - 1
    OBVIOUS
  <2>1. IsFiniteSet(s) /\ Cardinality(s) \in Nat
    BY FS_Subset, FS_CardinalityType
  <2>2. s # {} => x(s) \in s
    OBVIOUS
  <2> HIDE DEF x
  <2> QED
    BY <2>1, <2>2, FS_RemoveElement
<1> HIDE DEF x
<1>3. Good(0)
  <2> DEFINE f == [s \in SUBSET S |-> 0]
  <2>1. f \in [SUBSET S -> Int]
    OBVIOUS
  <2>2. ASSUME NEW s \in Upto(0) PROVE s = {}
    <3>1. s \in SUBSET S /\ Cardinality(s) =< 0
      OBVIOUS
    <3>2. IsFiniteSet(s)
      BY <1>0, <3>1
    <3> QED
      BY <1>0, <3>1, <3>2, FS_EmptySet
  <2>3. \A s \in Upto(0) : f[s] = Step(f)[s]
    BY <2>2
  <2> QED
    BY <2>1, <2>3
<1>4. \A n \in Nat : Good(n) => Good(n + 1)
  <2> SUFFICES ASSUME NEW n \in Nat, NEW f \in [SUBSET S -> Int],
                      \A s \in Upto(n) : f[s] = Step(f)[s]
               PROVE  \E h \in [SUBSET S -> Int] : \A s \in Upto(n + 1) : h[s] = Step(h)[s]
    OBVIOUS
  <2>1. Step(f) \in [SUBSET S -> Int]
    <3>1. ASSUME NEW s \in SUBSET S, s # {} PROVE g[x(s)] + f[s \ {x(s)}] \in Int
      <4>1. g[x(s)] \in Int /\ s \ {x(s)} \in SUBSET S
        BY <1>2, <3>1
      <4>2. f[s \ {x(s)}] \in Int
        BY <4>1
      <4> QED
        BY <4>1, <4>2
    <3> QED
      BY <3>1
  <2> DEFINE h == Step(f)
  <2>2. ASSUME NEW s \in Upto(n + 1) PROVE h[s] = Step(h)[s]
    <3>1. CASE s = {}
      BY <2>2, <3>1
    <3>2. CASE s # {}
      <4>1. s \ {x(s)} \in Upto(n)
        BY <1>2, <2>2, <3>2
      <4>2. h[s \ {x(s)}] = f[s \ {x(s)}]
        BY <4>1
      <4> QED
        BY <2>2, <3>2, <4>2
    <3> QED
      BY <3>1, <3>2
  <2> QED
    BY <2>1, <2>2
<1>5. Good(Cardinality(S))
  <2> DEFINE Bad == {n \in Nat : ~Good(n)}
  <2>1. CASE Bad = {}
    BY <1>2, <2>1
  <2>2. CASE Bad # {}
    <3> HIDE DEF Good
    <3>1. PICK m \in Bad : \A y \in Bad : m =< y
      BY <2>2, LeastOfNaturals
    <3>2. m # 0 /\ m - 1 \in Nat /\ m - 1 \notin Bad
      BY <1>3, <3>1
    <3> QED
      BY <1>4, <3>1, <3>2
  <2> QED
    BY <2>1, <2>2
<1>6. \E f \in [SUBSET S -> Int] : f = Step(f)
  <2>1. PICK f \in [SUBSET S -> Int] : \A s \in Upto(Cardinality(S)) : f[s] = Step(f)[s]
    BY <1>5
  <2>2. SUBSET S = Upto(Cardinality(S))
    BY <1>2, FS_Subset
  <2>3. f = Step(f)
    BY <2>1, <2>2
  <2> QED
    BY <2>3
<1>7. iter = Step(iter)
  BY <1>6
<1> HIDE DEF iter
<1>8. \A n \in Nat : \A s \in Upto(n) : iter[s] \in Int
  <2> DEFINE Bad == {n \in Nat : ~\A s \in Upto(n) : iter[s] \in Int}
  <2>1. ASSUME NEW s \in Upto(0) PROVE iter[s] \in Int
    <3>1. s \in SUBSET S /\ Cardinality(s) =< 0
      OBVIOUS
    <3>2. s = {}
      BY <1>0, <3>1, FS_EmptySet
    <3> QED
      BY <1>7, <3>1, <3>2
  <2>2. ASSUME NEW n \in Nat, \A s \in Upto(n) : iter[s] \in Int
        PROVE  \A s \in Upto(n + 1) : iter[s] \in Int
    <3> SUFFICES ASSUME NEW s \in Upto(n + 1) PROVE iter[s] \in Int
      OBVIOUS
    <3>1. s \in SUBSET S /\ Cardinality(s) =< n + 1
      OBVIOUS
    <3>2. CASE s # {}
      <4>1. /\ g[x(s)] \in Int /\ s \ {x(s)} \in SUBSET S
            /\ Cardinality(s \ {x(s)}) =< n
        BY <1>2, <3>1, <3>2
      <4>2. iter[s \ {x(s)}] \in Int
        BY <2>2, <4>1
      <4>3. iter[s] = g[x(s)] + iter[s \ {x(s)}]
        BY <1>7, <3>1, <3>2
      <4> QED
        BY <4>1, <4>2, <4>3
    <3>3. CASE s = {}
      BY <1>7, <3>1, <3>3
    <3> QED
      BY <3>2, <3>3
  <2>3. CASE Bad # {}
    <3>1. PICK m \in Bad : \A y \in Bad : m =< y
      BY <2>3, LeastOfNaturals
    <3>2. m # 0 /\ m - 1 \in Nat /\ m - 1 \notin Bad
      BY <2>1, <3>1
    <3> QED
      BY <2>2, <3>1, <3>2
  <2> QED
    BY <2>3
<1>9. S \in Upto(Cardinality(S))
  <2>1. Cardinality(S) \in Nat /\ S \in SUBSET S
    BY <1>2
  <2>2. Cardinality(S) =< Cardinality(S)
    BY <2>1
  <2> QED
    BY <2>1, <2>2
<1> QED
  BY <1>1, <1>2, <1>8, <1>9

-----------------------------------------------------------------------------
(* The sort keys are in a strict total order.                              *)
Keys == [1 .. 8 -> Int]

LEMMA KeysIrreflexive ==
  ASSUME NEW k \in Keys
  PROVE  ~KeyBefore(k, k)
BY DEF KeyBefore, Keys

LEMMA KeysTransitive ==
  ASSUME NEW k \in Keys, NEW l \in Keys, NEW m \in Keys, KeyBefore(k, l), KeyBefore(l, m)
  PROVE  KeyBefore(k, m)
<1>1. PICK a \in 1 .. 8 : k[a] < l[a] /\ \A j \in 1 .. a - 1 : k[j] = l[j]
  BY DEF KeyBefore, Keys
<1>2. PICK b \in 1 .. 8 : l[b] < m[b] /\ \A j \in 1 .. b - 1 : l[j] = m[j]
  BY DEF KeyBefore, Keys
<1>3. \A j \in 1 .. 8 : k[j] \in Int /\ l[j] \in Int /\ m[j] \in Int
  BY DEF Keys
<1>4. PICK c \in 1 .. 8 : c =< a /\ c =< b /\ (c = a \/ c = b)
  OBVIOUS
<1>5. k[c] < m[c]
  BY <1>1, <1>2, <1>3, <1>4
<1>6. \A j \in 1 .. c - 1 : k[j] = m[j]
  BY <1>1, <1>2, <1>4
<1> QED
  BY <1>5, <1>6 DEF KeyBefore, Keys

LEMMA KeysTotal ==
  ASSUME NEW k \in Keys, NEW l \in Keys, k # l
  PROVE  KeyBefore(k, l) \/ KeyBefore(l, k)
<1> DEFINE D == {i \in 1 .. 8 : k[i] # l[i]}
<1>1. D \in SUBSET Nat /\ D # {}
  BY DEF Keys
<1>2. PICK i \in D : \A j \in D : i =< j
  <2> HIDE DEF D
  <2> QED
    BY <1>1, LeastOfNaturals
<1>3. \A j \in 1 .. i - 1 : k[j] = l[j] /\ l[j] = k[j]
  <2> SUFFICES ASSUME NEW j \in 1 .. i - 1 PROVE k[j] = l[j]
    OBVIOUS
  <2>1. j \in 1 .. 8 /\ ~(i =< j)
    OBVIOUS
  <2> QED
    BY <1>2, <2>1
<1>4. k[i] < l[i] \/ l[i] < k[i]
  BY DEF Keys
<1> QED
  BY <1>3, <1>4 DEF KeyBefore, Keys

(* A finite set of things with different keys has a first one.             *)
LEMMA FirstExists ==
  ASSUME NEW S, IsFiniteSet(S), S # {}, NEW key \in [S -> Keys],
         \A x, y \in S : key[x] = key[y] => x = y
  PROVE  \E m \in S : \A y \in S \ {m} : KeyBefore(key[m], key[y])
<1> DEFINE R == {p \in S \X S : KeyBefore(key[p[1]], key[p[2]])}
<1>1. \A x, y \in S : <<x, y>> \in R <=> KeyBefore(key[x], key[y])
  OBVIOUS
<1> HIDE DEF R
<1>2. \A x, y, z \in S : <<x, y>> \in R /\ <<y, z>> \in R => <<x, z>> \in R
  BY <1>1, KeysTransitive
<1>3. \A x \in S : <<x, x>> \notin R
  BY <1>1, KeysIrreflexive
<1>4. PICK m \in S : \A y \in S : <<y, m>> \notin R
  BY <1>2, <1>3, LeastExists
<1>5. \A y \in S \ {m} : KeyBefore(key[m], key[y])
  BY <1>1, <1>4, KeysTotal
<1> QED
  BY <1>5

-----------------------------------------------------------------------------
(* Scores in order.                                                        *)
AtMostScore(scores, x) == {i \in DOMAIN scores : scores[i] =< x}
BelowScore(scores, x) == {i \in DOMAIN scores : scores[i] < x}

LEMMA ScoresFinite ==
  ASSUME NEW L \in Nat, NEW scores \in [1 .. L -> Nat], NEW x
  PROVE  /\ IsFiniteSet(AtMostScore(scores, x)) /\ IsFiniteSet(BelowScore(scores, x))
         /\ Cardinality(AtMostScore(scores, x)) \in Nat
         /\ Cardinality(BelowScore(scores, x)) \in Nat
         /\ IsFiniteSet(1 .. L) /\ Cardinality(1 .. L) = L
<1>1. IsFiniteSet(1 .. L) /\ Cardinality(1 .. L) = L
  BY FS_Interval
<1>2. AtMostScore(scores, x) \in SUBSET (1 .. L) /\ BelowScore(scores, x) \in SUBSET (1 .. L)
  BY DEF AtMostScore, BelowScore
<1> QED
  BY <1>1, <1>2, FS_Subset, FS_CardinalityType

LEMMA NthExists ==
  ASSUME NEW L \in Nat, NEW scores \in [1 .. L -> Nat], NEW n \in 1 .. L
  PROVE  /\ Nth(scores, n) \in {scores[i] : i \in 1 .. L}
         /\ Cardinality(BelowScore(scores, Nth(scores, n))) < n
         /\ n =< Cardinality(AtMostScore(scores, Nth(scores, n)))
<1> DEFINE V == {scores[i] : i \in 1 .. L}
           A == {x \in V : n =< Cardinality(AtMostScore(scores, x))}
<1>1. V \in SUBSET Nat /\ V # {} /\ IsFiniteSet(V)
  <2>1. V \in SUBSET Nat /\ V # {}
    OBVIOUS
  <2>2. scores \in Surjection(1 .. L, V)
    BY DEF Surjection
  <2> QED
    BY <2>1, <2>2, FS_Interval, FS_Surjection
<1>2. PICK top \in V : \A y \in V : top >= y
  <2> HIDE DEF V
  <2> QED
    BY <1>1, MaxOfNaturals
<1>3. AtMostScore(scores, top) = 1 .. L
  BY <1>2 DEF AtMostScore
<1>4. top \in A
  BY <1>3, ScoresFinite
<1>5. PICK x \in A : \A y \in A : x =< y
  <2>1. A \in SUBSET Nat /\ A # {}
    BY <1>1, <1>4
  <2> HIDE DEF A
  <2> QED
    BY <2>1, LeastOfNaturals
<1>6. Cardinality(BelowScore(scores, x)) < n
  <2> SUFFICES ASSUME n =< Cardinality(BelowScore(scores, x)) PROVE FALSE
    BY ScoresFinite
  <2> DEFINE W == {y \in V : y < x}
  <2>1. W \in SUBSET Nat /\ W \in SUBSET V
    BY <1>1
  <2>2. W # {}
    <3>1. BelowScore(scores, x) # {}
      <4>1. ~(n =< 0)
        OBVIOUS
      <4> HIDE DEF V, A
      <4> QED
        BY <4>1, FS_EmptySet
    <3> QED
      BY <3>1 DEF BelowScore
  <2>3. PICK z \in W : \A y \in W : z >= y
    <3> HIDE DEF W, V
    <3> QED
      BY <1>1, <2>1, <2>2, FS_Subset, MaxOfNaturals
  <2>4. AtMostScore(scores, z) = BelowScore(scores, x)
    <3>1. \A i \in 1 .. L : scores[i] =< z <=> scores[i] < x
      BY <2>3
    <3> QED
      BY <3>1 DEF AtMostScore, BelowScore
  <2>5. z \in A /\ z < x
    BY <2>3, <2>4
  <2> QED
    BY <1>5, <2>5
<1> QED
  BY <1>6 DEF Nth, AtMostScore, BelowScore

LEMMA NthMonotone ==
  ASSUME NEW L \in Nat, NEW scores \in [1 .. L -> Nat], NEW n \in 1 .. L, n + 1 \in 1 .. L
  PROVE  Nth(scores, n) =< Nth(scores, n + 1)
<1> DEFINE a == Nth(scores, n)
           b == Nth(scores, n + 1)
<1>1. /\ a \in Nat /\ Cardinality(BelowScore(scores, a)) < n
      /\ b \in Nat /\ n + 1 =< Cardinality(AtMostScore(scores, b))
  BY NthExists
<1> SUFFICES ASSUME b < a PROVE FALSE
  BY <1>1
<1>2. AtMostScore(scores, b) \in SUBSET BelowScore(scores, a)
  <2> HIDE DEF a, b
  <2> QED
    BY <1>1 DEF AtMostScore, BelowScore
<1>3. Cardinality(AtMostScore(scores, b)) =< Cardinality(BelowScore(scores, a))
  <2> HIDE DEF a, b
  <2> QED
    BY <1>2, ScoresFinite, FS_Subset
<1> HIDE DEF a, b
<1> QED
  BY <1>1, <1>3, ScoresFinite

(* A quantile is between two of the scores.                                *)
LEMMA Interpolated ==
  ASSUME NEW d \in Nat, NEW rest \in Nat, NEW m \in Nat, m > 0, rest < m
  PROVE  (d * rest) \div m \in 0 .. d
<1>1. d * rest \in Nat /\ d * rest =< d * m
  OBVIOUS
<1>2. (d * rest) \div m \in Nat
  BY <1>1
<1>3. ((d * rest) \div m) * m =< d * rest
  BY <1>1
<1> DEFINE r == (d * rest) \div m
<1>4. r \in Nat /\ r * m =< d * m
  BY <1>1, <1>2, <1>3
<1> HIDE DEF r
<1>5. r =< d
  BY <1>4
<1> QED
  BY <1>4, <1>5 DEF r

LEMMA QuantileInRange ==
  ASSUME NEW L \in Nat \ {0}, NEW scores \in [1 .. L -> 0 .. MaxScore], Len(scores) = L,
         NEW q \in Nat, q >= 2, NEW k \in 0 .. q - 1
  PROVE  Quantile(scores, k, q) \in 0 .. MaxScore
<1> DEFINE position == k * (L - 1)
           i == position \div (q - 1) + 1
           rest == position % (q - 1)
<1>0. /\ scores \in [1 .. L -> Nat] /\ q - 1 \in Nat /\ q - 1 > 0 /\ position \in Nat
      /\ MaxScore \in Nat
  BY SearchAssumption
<1>1. /\ rest \in Nat /\ rest < q - 1 /\ i \in Nat /\ i >= 1
      /\ position = (i - 1) * (q - 1) + rest
  BY <1>0
<1>2. position =< (q - 1) * (L - 1)
  OBVIOUS
<1>3. i \in 1 .. L /\ (rest # 0 => i + 1 \in 1 .. L)
  <2> HIDE DEF position, i, rest
  <2>1. (i - 1) * (q - 1) + rest =< (L - 1) * (q - 1)
    BY <1>0, <1>1, <1>2
  <2>2. ~(i - 1 >= L)
    BY <1>0, <1>1, <2>1
  <2>3. rest # 0 => ~(i - 1 >= L - 1)
    BY <1>0, <1>1, <2>1
  <2> QED
    BY <1>1, <2>2, <2>3
<1>4. ASSUME NEW n \in 1 .. L PROVE Nth(scores, n) \in 0 .. MaxScore
  <2>1. Nth(scores, n) \in {scores[j] : j \in 1 .. L}
    BY <1>0, NthExists
  <2> QED
    BY <2>1
<1>5. CASE rest = 0
  BY <1>3, <1>4, <1>5 DEF Quantile
<1>6. CASE rest # 0
  <2> DEFINE a == Nth(scores, i)
             b == Nth(scores, i + 1)
  <2>1. a \in 0 .. MaxScore /\ b \in 0 .. MaxScore /\ a =< b
    BY <1>0, <1>3, <1>4, <1>6, NthMonotone
  <2>2. ((b - a) * rest) \div (q - 1) \in 0 .. b - a
    <3> HIDE DEF a, b, rest, i
    <3> QED
      BY <1>0, <1>1, <2>1, Interpolated
  <2>3. Quantile(scores, k, q) = a + ((b - a) * rest) \div (q - 1)
    BY <1>6 DEF Quantile
  <2> HIDE DEF a, b, rest, i, position
  <2> QED
    BY <1>0, <2>1, <2>2, <2>3
<1> QED
  BY <1>5, <1>6

-----------------------------------------------------------------------------
(* The actions of a policy, by its thresholds: only a score in the HOLD    *)
(* band leaves more to say, which the thresholds do not matter for.        *)
Severe(t, e) == IF Engine!Corroborated(t.base, e)
                THEN IF Engine!Blockable(t.base, e) THEN 5 ELSE 4
                ELSE 3

LEMMA ActionByThresholds ==
  ASSUME NEW t, Searchable(t), NEW v \in 0 .. MaxScore, NEW h \in 0 .. MaxScore, v < h,
         NEW i \in DOMAIN t.examples
  PROVE  LET e == t.examples[i] IN
         Engine!Action(WithThresholds(t, v, h), e) =
           IF e.score < v THEN 1 ELSE IF e.score < h THEN 2 ELSE Severe(t, e)
<1> DEFINE e == t.examples[i]
           c == WithThresholds(t, v, h)
<1>1. /\ c.verify = v /\ c.hold = h /\ c.strong = t.base.strong
      /\ c.minimum = t.base.minimum /\ c.recommend = t.base.recommend
      /\ c.clusterRequired = t.base.clusterRequired
  BY DEF Searchable, WithThresholds
<1> HIDE DEF c, e
<1>2. /\ Engine!Corroborated(c, e) <=> Engine!Corroborated(t.base, e)
      /\ Engine!Blockable(c, e) <=> Engine!Blockable(t.base, e)
  BY <1>1 DEF Engine!Corroborated, Engine!Blockable, Engine!StrongSignals
<1>3. Engine!Action(c, e) = IF e.score < v THEN 1 ELSE IF e.score < h THEN 2 ELSE Severe(t, e)
  BY <1>1, <1>2 DEF Engine!Action, Engine!Band, Engine!ALLOW, Engine!VERIFY, Engine!HOLD,
                    Engine!ESCALATE, Engine!RECOMMEND_BLOCK, Severe
<1> QED
  BY <1>3 DEF c, e

Acts(t, v, h) ==
  [i \in DOMAIN t.examples |-> Engine!Action(WithThresholds(t, v, h), t.examples[i])]

LEMMA MetricsByActions ==
  ASSUME NEW t, NEW v, NEW h
  PROVE  Metrics(t, WithThresholds(t, v, h)) = Outcome(t.examples, Acts(t, v, h), t.cost)
BY DEF Metrics, Evaluate, Acts

LEMMA ExampleTypes ==
  ASSUME NEW t, Searchable(t)
  PROVE  /\ Len(t.examples) \in Nat \ {0} /\ DOMAIN t.examples = 1 .. Len(t.examples)
         /\ IsFiniteSet(DOMAIN t.examples)
         /\ Cardinality(DOMAIN t.examples) = Len(t.examples)
         /\ \A i \in DOMAIN t.examples :
              /\ t.examples[i].score \in 0 .. MaxScore
              /\ t.examples[i].abuse \in BOOLEAN /\ t.examples[i].amount \in Nat
<1>1. /\ Len(t.examples) \in Nat \ {0} /\ DOMAIN t.examples = 1 .. Len(t.examples)
      /\ \A i \in DOMAIN t.examples :
              /\ t.examples[i].score \in 0 .. MaxScore
              /\ t.examples[i].abuse \in BOOLEAN /\ t.examples[i].amount \in Nat
  <2> DEFINE P == {e.persona : e \in ToSet(t.examples)}
             E == [score : 0 .. MaxScore, signals : Seq(Codes), cluster : BOOLEAN,
                   abuse : BOOLEAN, amount : Nat, persona : P]
  <2>1. t.examples \in Seq(E) /\ t.examples # <<>>
    BY Zenon DEF Searchable
  <2> HIDE DEF P
  <2>2. \A e \in E : e.score \in 0 .. MaxScore /\ e.abuse \in BOOLEAN /\ e.amount \in Nat
    OBVIOUS
  <2> HIDE DEF E
  <2>3. /\ Len(t.examples) \in Nat \ {0} /\ DOMAIN t.examples = 1 .. Len(t.examples)
        /\ \A i \in DOMAIN t.examples : t.examples[i] \in E
    BY <2>1
  <2> QED
    BY <2>2, <2>3
<1> QED
  BY <1>1, FS_Interval

LEMMA ActsTyped ==
  ASSUME NEW t, Searchable(t), NEW v \in 0 .. MaxScore, NEW h \in 0 .. MaxScore, v < h
  PROVE  /\ Acts(t, v, h) \in [DOMAIN t.examples -> 1 .. 5]
         /\ \A i \in DOMAIN t.examples :
              Acts(t, v, h)[i] = IF t.examples[i].score < v THEN 1
                                 ELSE IF t.examples[i].score < h THEN 2
                                 ELSE Severe(t, t.examples[i])
<1>1. \A i \in DOMAIN t.examples :
        Acts(t, v, h)[i] = IF t.examples[i].score < v THEN 1
                           ELSE IF t.examples[i].score < h THEN 2
                           ELSE Severe(t, t.examples[i])
  BY ActionByThresholds DEF Acts
<1>2. \A e : Severe(t, e) \in 3 .. 5
  BY DEF Severe
<1>3. Acts(t, v, h) = [i \in DOMAIN t.examples |-> Acts(t, v, h)[i]]
  BY DEF Acts
<1>4. \A i \in DOMAIN t.examples : Acts(t, v, h)[i] \in 1 .. 5
  BY <1>1, <1>2
<1> QED
  BY <1>1, <1>3, <1>4

LEMMA CostTyped ==
  ASSUME NEW t, Searchable(t), NEW i \in DOMAIN t.examples, NEW a \in 1 .. 5
  PROVE  ExpectedCost(t.cost, t.examples[i], a) \in Int
<1> DEFINE e == t.examples[i]
           action == t.cost.actions[a]
<1>1. e.amount \in Int
  BY ExampleTypes
<1>2. /\ t.cost.loss \in Int /\ action.fixed \in Int /\ action.friction \in Int
      /\ action.operational \in Int /\ action.effectiveness \in Int
  <2>1. /\ t.cost.loss \in 0 .. 100
        /\ action \in [fixed : Nat, friction : 0 .. 100, operational : Nat,
                       effectiveness : 0 .. 100]
    BY Zenon DEF Searchable
  <2> HIDE DEF action
  <2> QED
    BY <2>1
<1> HIDE DEF e, action
<1>3. \A n \in Int : Rounded(n, 10000) \in Int /\ Rounded(n, 100) \in Int
  BY DEF Rounded
<1>4. /\ Rounded(e.amount * t.cost.loss * (100 - action.effectiveness), 10000) \in Int
      /\ Rounded(e.amount * action.friction, 100) \in Int
  <2>1. /\ e.amount * t.cost.loss * (100 - action.effectiveness) \in Int
        /\ e.amount * action.friction \in Int
    BY <1>1, <1>2
  <2> QED
    BY <1>3, <2>1
<1>5. Operational(t.cost, a) \in Int
  BY <1>2 DEF Operational, action
<1>6. ExpectedCost(t.cost, e, a) \in Int
  <2>1. ExpectedCost(t.cost, e, a) =
          Operational(t.cost, a) +
            IF e.abuse
            THEN Rounded(e.amount * t.cost.loss * (100 - action.effectiveness), 10000)
            ELSE action.fixed + Rounded(e.amount * action.friction, 100)
    BY DEF ExpectedCost, action
  <2> QED
    BY <1>2, <1>4, <1>5, <2>1
<1> QED
  BY <1>6 DEF e

(* The sets of examples behind the metrics.                                *)
LEMMA OutcomeTyped ==
  ASSUME NEW t, Searchable(t), NEW act \in [DOMAIN t.examples -> 1 .. 5],
         NEW m, m = Outcome(t.examples, act, t.cost)
  PROVE  /\ m.cost \in Int /\ m.amount \in Int /\ m.verified \in Int /\ m.reviews \in Int
         /\ m.touched \in Int /\ m.caught \in Int /\ m.wronged \in Int /\ m.severe \in Int
         /\ m.legitimate \in Int /\ m.abuse \in Int
<1> DEFINE all == DOMAIN t.examples
           touched == {i \in all : act[i] # Engine!ALLOW}
           severe == {i \in all : act[i] >= Engine!HOLD}
           legitimate == {i \in all : ~t.examples[i].abuse}
<1>1. IsFiniteSet(all)
  BY ExampleTypes
<1>2. \A S \in SUBSET all : IsFiniteSet(S) /\ Cardinality(S) \in Int
  BY <1>1, FS_Subset, FS_CardinalityType
<1>3. /\ touched \in SUBSET all /\ touched \ legitimate \in SUBSET all
      /\ touched \cap legitimate \in SUBSET all /\ severe \cap legitimate \in SUBSET all
      /\ legitimate \in SUBSET all /\ all \ legitimate \in SUBSET all
      /\ {i \in all : act[i] = Engine!VERIFY} \in SUBSET all
      /\ {i \in all : act[i] >= Engine!ESCALATE} \in SUBSET all
  OBVIOUS
<1>4. SumFunction([i \in all |-> ExpectedCost(t.cost, t.examples[i], act[i])]) \in Int
  <2>1. [i \in all |-> ExpectedCost(t.cost, t.examples[i], act[i])] \in [all -> Int]
    BY CostTyped
  <2> QED
    BY <1>1, <2>1, SumIsInteger
<1>5. SumFunction([i \in touched \cap legitimate |-> t.examples[i].amount]) \in Int
  <2>1. [i \in touched \cap legitimate |-> t.examples[i].amount]
          \in [touched \cap legitimate -> Int]
    BY ExampleTypes
  <2> QED
    BY <1>2, <1>3, <2>1, SumIsInteger
<1>6. /\ m.cost = SumFunction([i \in all |-> ExpectedCost(t.cost, t.examples[i], act[i])])
      /\ m.amount = SumFunction([i \in touched \cap legitimate |-> t.examples[i].amount])
      /\ m.verified = Cardinality({i \in all : act[i] = Engine!VERIFY})
      /\ m.reviews = Cardinality({i \in all : act[i] >= Engine!ESCALATE})
      /\ m.touched = Cardinality(touched) /\ m.caught = Cardinality(touched \ legitimate)
      /\ m.wronged = Cardinality(touched \cap legitimate)
      /\ m.severe = Cardinality(severe \cap legitimate)
      /\ m.legitimate = Cardinality(legitimate) /\ m.abuse = Cardinality(all \ legitimate)
  BY DEF Outcome
<1> HIDE DEF all, touched, severe, legitimate
<1> QED
  BY <1>2, <1>3, <1>4, <1>5, <1>6

LEMMA KeyTyped ==
  ASSUME NEW t, Searchable(t), NEW v \in 0 .. MaxScore, NEW h \in 0 .. MaxScore, v < h
  PROVE  Key(t, WithThresholds(t, v, h)) \in Keys
<1> DEFINE policy == WithThresholds(t, v, h)
           m == Outcome(t.examples, Acts(t, v, h), t.cost)
<1>1. /\ m.cost \in Int /\ m.amount \in Int /\ m.reviews \in Int /\ m.severe \in Int
      /\ m.touched \in Int /\ m.caught \in Int
  BY ActsTyped, OutcomeTyped
<1>2. policy.verify = v /\ policy.hold = h
  BY DEF Searchable, WithThresholds
<1>3. Key(t, policy) = << m.cost, m.amount, m.reviews, m.severe, m.touched,
                          -m.caught, -v, -h >>
  BY <1>2, MetricsByActions DEF Key
<1> HIDE DEF m
<1> QED
  BY <1>1, <1>3 DEF Keys

-----------------------------------------------------------------------------
(* The constraints of the optimizer and those read off the examples.       *)
LEMMA RateAtMost ==
  ASSUME NEW S, IsFiniteSet(S), NEW bad, NEW percent \in Nat
  PROVE  ~Above(Cardinality(bad \cap S), Cardinality(S), percent)
           <=> Cardinality(bad \cap S) * 100 =< percent * Cardinality(S)
<1>1. /\ Cardinality(S) \in Nat /\ Cardinality(bad \cap S) \in Nat
      /\ Cardinality(bad \cap S) =< Cardinality(S)
  BY FS_Subset, FS_CardinalityType
<1> DEFINE n == Cardinality(bad \cap S)
           d == Cardinality(S)
<1> HIDE DEF n, d
<1>2. n \in Nat /\ d \in Nat /\ n =< d
  BY <1>1 DEF n, d
<1>3. ~Above(n, d, percent) <=> n * 100 =< percent * d
  <2>1. CASE d = 0
    BY <1>2, <2>1 DEF Above
  <2>2. CASE d # 0
    <3>1. percent * d \in Nat
      BY <1>2
    <3> QED
      BY <1>2, <2>2, <3>1 DEF Above
  <2> QED
    BY <2>1, <2>2
<1> QED
  BY <1>3 DEF n, d

LEMMA RateAtLeast ==
  ASSUME NEW S, IsFiniteSet(S), NEW T, NEW percent \in 0 .. 100
  PROVE  ~Below(Cardinality(S \cap T), Cardinality(S), percent)
           <=> /\ Cardinality(S \ T) * 100 =< (100 - percent) * Cardinality(S)
               /\ S = {} => percent = 0
<1> DEFINE n == Cardinality(S \cap T)
           d == Cardinality(S)
           rest == Cardinality(S \ T)
<1>1. n \in Nat /\ d \in Nat /\ rest \in Nat
  BY FS_Subset, FS_CardinalityType
<1>2. rest = d - n
  BY FS_Difference
<1>3. d = 0 <=> S = {}
  BY FS_EmptySet
<1> HIDE DEF n, d, rest
<1>4. (100 - percent) * d = 100 * d - percent * d /\ percent * d \in Nat
  BY <1>1
<1>5. ~Below(n, d, percent) <=> /\ rest * 100 =< (100 - percent) * d
                                /\ S = {} => percent = 0
  <2>1. CASE d = 0
    <3>1. n = 0 /\ rest = 0
      BY <1>1, <1>2, <2>1
    <3> QED
      BY <1>3, <1>4, <2>1, <3>1 DEF Below
  <2>2. CASE d # 0
    BY <1>1, <1>2, <1>3, <1>4, <2>2 DEF Below
  <2> QED
    BY <2>1, <2>2
<1> QED
  BY <1>5 DEF n, d, rest

LEMMA FeasibleIsAcceptable ==
  ASSUME NEW t, Searchable(t), NEW v \in 0 .. MaxScore, NEW h \in 0 .. MaxScore, v < h
  PROVE  Feasible(t, WithThresholds(t, v, h)) <=> Acceptable(t, WithThresholds(t, v, h))
<1> DEFINE policy == WithThresholds(t, v, h)
           act == Acts(t, v, h)
           c == t.constraints
           all == DOMAIN t.examples
           abuse == {i \in all : t.examples[i].abuse}
           legitimate == {i \in all : ~t.examples[i].abuse}
           At(a) == {i \in all : act[i] >= a}
           Of(p) == {i \in legitimate : t.examples[i].persona = p}
           m == Outcome(t.examples, act, t.cost)
           AtMost(percent, bad, S) == Cardinality(bad \cap S) * 100 =< percent * Cardinality(S)
<1>1. act \in [all -> 1 .. 5] /\ IsFiniteSet(all) /\ Cardinality(all) = Len(t.examples)
  BY ActsTyped, ExampleTypes
<1>2. \A S \in SUBSET all : IsFiniteSet(S)
  BY <1>1, FS_Subset
<1>3. /\ c.recall \in 0 .. 100 /\ c.interventions \in Nat /\ c.severe \in Nat
      /\ c.reviews \in Nat /\ c.persona \in Nat
  <2>1. c \in [recall : 0 .. 100, interventions : 0 .. 100, severe : 0 .. 100,
               reviews : 0 .. 100, persona : 0 .. 100]
    BY Zenon DEF Searchable
  <2> HIDE DEF c
  <2> QED
    BY <2>1
<1>4. /\ legitimate = all \ abuse /\ abuse = all \ legitimate
      /\ abuse \in SUBSET all /\ legitimate \in SUBSET all
      /\ \A p : Of(p) \in SUBSET all
  OBVIOUS
<1> USE DEF Engine!ALLOW, Engine!VERIFY, Engine!HOLD, Engine!ESCALATE
<1>5. /\ m.verified = Cardinality({i \in all : act[i] = 2})
      /\ m.reviews = Cardinality(At(4) \cap all)
      /\ m.caught = Cardinality(abuse \cap At(2)) /\ m.abuse = Cardinality(abuse)
      /\ m.wronged = Cardinality(At(2) \cap legitimate)
      /\ m.severe = Cardinality(At(3) \cap legitimate)
      /\ m.legitimate = Cardinality(legitimate)
      /\ m.personas = {[severe |-> Cardinality(At(3) \cap Of(p)), all |-> Cardinality(Of(p))] :
                         p \in {t.examples[i].persona : i \in legitimate}}
  <2>1. /\ {i \in all : act[i] # 1} = At(2)
        /\ At(4) \cap all = At(4)
        /\ {i \in all : act[i] # 1} \ legitimate = abuse \cap At(2)
    BY <1>1
  <2> QED
    BY <2>1, <1>4 DEF Outcome
<1>6. Metrics(t, policy) = m
  BY MetricsByActions
<1>7. m.verified > 0 <=> At(2) # At(3)
  <2> DEFINE V == {i \in all : act[i] = 2}
  <2>1. V # {} <=> At(2) # At(3)
    BY <1>1
  <2>2. V \in SUBSET all
    OBVIOUS
  <2> HIDE DEF V, all
  <2>3. Cardinality(V) > 0 <=> V # {}
    BY <1>2, <2>2, FS_EmptySet, FS_CardinalityType
  <2> QED
    BY <1>5, <2>1, <2>3 DEF V, all
<1> HIDE DEF m, At, abuse, legitimate, Of, all, c
<1>8. ~Below(m.caught, m.abuse, c.recall)
        <=> AtMost(100 - c.recall, all \ At(2), abuse) /\ (abuse = {} => c.recall = 0)
  <2>1. (all \ At(2)) \cap abuse = abuse \ At(2)
    BY <1>4
  <2> QED
    <3>1. IsFiniteSet(abuse)
      BY <1>2, <1>4
    <3>2. ~Below(Cardinality(abuse \cap At(2)), Cardinality(abuse), c.recall)
            <=> /\ Cardinality(abuse \ At(2)) * 100 =< (100 - c.recall) * Cardinality(abuse)
                /\ abuse = {} => c.recall = 0
      BY <1>3, <3>1, RateAtLeast
    <3> QED
      BY <1>5, <2>1, <3>2
<1>9. ~Above(m.wronged, m.legitimate, c.interventions)
        <=> AtMost(c.interventions, At(2), all \ abuse)
  <2>1. IsFiniteSet(legitimate)
    BY <1>2, <1>4
  <2>2. ~Above(Cardinality(At(2) \cap legitimate), Cardinality(legitimate), c.interventions)
          <=> AtMost(c.interventions, At(2), legitimate)
    BY <1>3, <2>1, RateAtMost
  <2> QED
    BY <1>1, <1>4, <1>5, <2>2
<1>10. ~Above(m.severe, m.legitimate, c.severe) <=> AtMost(c.severe, At(3), all \ abuse)
  <2>1. IsFiniteSet(legitimate)
    BY <1>2, <1>4
  <2>2. ~Above(Cardinality(At(3) \cap legitimate), Cardinality(legitimate), c.severe)
          <=> AtMost(c.severe, At(3), legitimate)
    BY <1>3, <2>1, RateAtMost
  <2> QED
    BY <1>1, <1>4, <1>5, <2>2
<1>11. ~Above(m.reviews, Len(t.examples), c.reviews) <=> AtMost(c.reviews, At(4), all)
  <2>1. IsFiniteSet(all)
    BY <1>1
  <2>2. ~Above(Cardinality(At(4) \cap all), Cardinality(all), c.reviews)
          <=> AtMost(c.reviews, At(4), all)
    BY <1>3, <2>1, RateAtMost
  <2> QED
    BY <1>1, <1>4, <1>5, <2>2
<1>12. (\E p \in m.personas : Above(p.severe, p.all, c.persona))
         <=> ~\A i \in legitimate : AtMost(c.persona, At(3), Of(t.examples[i].persona))
  <2>1. \A p : ~Above(Cardinality(At(3) \cap Of(p)), Cardinality(Of(p)), c.persona)
                 <=> AtMost(c.persona, At(3), Of(p))
    <3> SUFFICES ASSUME NEW p
                 PROVE  ~Above(Cardinality(At(3) \cap Of(p)), Cardinality(Of(p)), c.persona)
                          <=> AtMost(c.persona, At(3), Of(p))
      OBVIOUS
    <3>1. IsFiniteSet(Of(p))
      BY <1>2, <1>4
    <3> QED
      BY <1>3, <3>1, RateAtMost
  <2>2. (\E p \in m.personas : Above(p.severe, p.all, c.persona))
          <=> \E i \in legitimate :
                Above(Cardinality(At(3) \cap Of(t.examples[i].persona)),
                      Cardinality(Of(t.examples[i].persona)), c.persona)
    <3> DEFINE Counted(p) == [severe |-> Cardinality(At(3) \cap Of(p)),
                              all |-> Cardinality(Of(p))]
    <3>1. m.personas = {Counted(p) : p \in {t.examples[i].persona : i \in legitimate}}
      BY <1>5
    <3>2. \A p : /\ Counted(p).severe = Cardinality(At(3) \cap Of(p))
                 /\ Counted(p).all = Cardinality(Of(p))
      OBVIOUS
    <3> HIDE DEF Counted
    <3>3. (\E p \in m.personas : Above(p.severe, p.all, c.persona))
            <=> \E i \in legitimate :
                  Above(Counted(t.examples[i].persona).severe,
                        Counted(t.examples[i].persona).all, c.persona)
      BY <3>1, Zenon
    <3> QED
      BY <3>2, <3>3
  <2> QED
    BY <2>1, <2>2
<1>13. Feasible(t, policy) <=>
         /\ m.verified > 0
         /\ ~Below(m.caught, m.abuse, c.recall)
         /\ ~Above(m.wronged, m.legitimate, c.interventions)
         /\ ~Above(m.severe, m.legitimate, c.severe)
         /\ ~Above(m.reviews, Len(t.examples), c.reviews)
         /\ ~\E p \in m.personas : Above(p.severe, p.all, c.persona)
  BY <1>6, Zenon DEF Feasible, Violates, c
<1>14. Acceptable(t, policy) <=>
         /\ At(2) # At(3)
         /\ AtMost(100 - c.recall, all \ At(2), abuse)
         /\ abuse = {} => c.recall = 0
         /\ AtMost(c.interventions, At(2), all \ abuse)
         /\ AtMost(c.severe, At(3), all \ abuse)
         /\ AtMost(c.reviews, At(4), all)
         /\ \A i \in legitimate : AtMost(c.persona, At(3), Of(t.examples[i].persona))
  <2>1. \A a : At(a) = {i \in all : Engine!Action(policy, t.examples[i]) >= a}
    BY DEF At, Acts, all
  <2>2. \A i : Of(t.examples[i].persona) =
                 {j \in all \ abuse : t.examples[j].persona = t.examples[i].persona}
    BY <1>4 DEF Of
  <2> QED
    BY <1>4, <2>1, <2>2 DEF Acceptable, all, abuse, c
<1> QED
  BY <1>7, <1>8, <1>9, <1>10, <1>11, <1>12, <1>13, <1>14

-----------------------------------------------------------------------------
(* What the search returns.                                                *)
LEMMA CandidatesInRange ==
  ASSUME NEW t, Searchable(t)
  PROVE  /\ Candidates(t) \in SUBSET (0 .. MaxScore) /\ IsFiniteSet(Candidates(t))
         /\ MaxScore \in Candidates(t)
         /\ t.base.verify \in Candidates(t) /\ t.base.hold \in Candidates(t)
<1> DEFINE scores == [i \in DOMAIN t.examples |-> t.examples[i].score]
           L == Len(t.examples)
<1>1. L \in Nat \ {0} /\ scores \in [1 .. L -> 0 .. MaxScore] /\ Len(scores) = L
  BY ExampleTypes
<1>2. t.quantiles \in Nat /\ t.quantiles >= 2
  BY Zenon DEF Searchable
<1>3. t.base.verify \in 0 .. MaxScore /\ t.base.hold \in 0 .. MaxScore
  <2>1. t.base \in [verify : 0 .. MaxScore, hold : 0 .. MaxScore,
                    strong : SUBSET Codes, minimum : Nat, recommend : Nat,
                    clusterRequired : BOOLEAN,
                    version : {"risk-policy-v1", "risk-policy-v2"},
                    review : SUBSET STRING]
    BY Zenon DEF Searchable
  <2> QED
    BY <2>1
<1>4. Candidates(t) = {Quantile(scores, k, t.quantiles) : k \in 0 .. t.quantiles - 1}
                        \cup {0, MaxScore, t.base.verify, t.base.hold}
  BY DEF Candidates
<1> HIDE DEF scores, L
<1>5. \A k \in 0 .. t.quantiles - 1 : Quantile(scores, k, t.quantiles) \in 0 .. MaxScore
  BY <1>1, <1>2, QuantileInRange
<1>6. 0 \in 0 .. MaxScore /\ MaxScore \in 0 .. MaxScore
  BY SearchAssumption
<1>7. Candidates(t) \in SUBSET (0 .. MaxScore)
  BY <1>3, <1>4, <1>5, <1>6
<1>8. IsFiniteSet(0 .. MaxScore)
  BY SearchAssumption, FS_Interval
<1> QED
  BY <1>4, <1>7, <1>8, FS_Subset

Pairs(t) == {p \in Candidates(t) \X Candidates(t) : p[1] < p[2]}
Ranked(t) == {policy \in {WithThresholds(t, p[1], p[2]) : p \in Pairs(t)} : Feasible(t, policy)}

LEMMA RankedPolicies ==
  ASSUME NEW t, Searchable(t)
  PROVE  /\ IsFiniteSet(Ranked(t))
         /\ \A policy \in Ranked(t) : \E v, h \in Candidates(t) :
              /\ v \in 0 .. MaxScore /\ h \in 0 .. MaxScore /\ v < h
              /\ policy = WithThresholds(t, v, h)
              /\ policy.verify = v /\ policy.hold = h
              /\ Feasible(t, policy) /\ Key(t, policy) \in Keys
              /\ Key(t, policy)[7] = -v /\ Key(t, policy)[8] = -h
<1>1. IsFiniteSet(Ranked(t))
  <2> DEFINE f == [p \in Pairs(t) |-> WithThresholds(t, p[1], p[2])]
             T == {WithThresholds(t, p[1], p[2]) : p \in Pairs(t)}
  <2>1. IsFiniteSet(Pairs(t))
    <3>1. IsFiniteSet(Candidates(t) \X Candidates(t))
      BY CandidatesInRange, FS_Product
    <3> QED
      BY <3>1, FS_Subset DEF Pairs
  <2>2. f \in Surjection(Pairs(t), T)
    BY DEF Surjection
  <2>3. IsFiniteSet(T)
    BY <2>1, <2>2, FS_Surjection
  <2> QED
    BY <2>3, FS_Subset DEF Ranked
<1>2. ASSUME NEW policy \in Ranked(t)
      PROVE  \E v, h \in Candidates(t) :
              /\ v \in 0 .. MaxScore /\ h \in 0 .. MaxScore /\ v < h
              /\ policy = WithThresholds(t, v, h)
              /\ policy.verify = v /\ policy.hold = h
              /\ Feasible(t, policy) /\ Key(t, policy) \in Keys
              /\ Key(t, policy)[7] = -v /\ Key(t, policy)[8] = -h
  <2>1. PICK v, h \in Candidates(t) : v < h /\ policy = WithThresholds(t, v, h)
    BY <1>2 DEF Ranked, Pairs
  <2>2. v \in 0 .. MaxScore /\ h \in 0 .. MaxScore
    BY CandidatesInRange
  <2>3. policy.verify = v /\ policy.hold = h
    BY <2>1 DEF Searchable, WithThresholds
  <2>4. Key(t, policy)[7] = -v /\ Key(t, policy)[8] = -h
    BY <2>3 DEF Key
  <2>5. Key(t, policy) \in Keys
    BY <2>1, <2>2, KeyTyped
  <2>6. Feasible(t, policy)
    BY <1>2 DEF Ranked
  <2> QED
    BY <2>1, <2>2, <2>3, <2>4, <2>5, <2>6
<1> QED
  BY <1>1, <1>2

LEMMA OnGrid ==
  ASSUME NEW t, NEW v \in Candidates(t), NEW h \in Candidates(t), v < h,
         Feasible(t, WithThresholds(t, v, h))
  PROVE  WithThresholds(t, v, h) \in Ranked(t)
<1> DEFINE p == << v, h >>
<1>1. p \in Pairs(t) /\ p[1] = v /\ p[2] = h
  BY DEF Pairs
<1> HIDE DEF p
<1>2. WithThresholds(t, v, h) \in {WithThresholds(t, q[1], q[2]) : q \in Pairs(t)}
  BY <1>1
<1> QED
  BY <1>2 DEF Ranked

LEMMA OptimizeIsFirst ==
  ASSUME NEW t, Searchable(t)
  PROVE  /\ Ranked(t) = {} => Optimize(t) = NoPolicy
         /\ Ranked(t) # {} =>
              /\ Optimize(t) \in Ranked(t)
              /\ \A other \in Ranked(t) \ {Optimize(t)} :
                   KeyBefore(Key(t, Optimize(t)), Key(t, other))
<1> DEFINE key == [policy \in Ranked(t) |-> Key(t, policy)]
<1>1. Optimize(t) = IF Ranked(t) = {} THEN NoPolicy
                    ELSE CHOOSE policy \in Ranked(t) :
                           \A other \in Ranked(t) \ {policy} : KeyBefore(key[policy], key[other])
  BY DEF Optimize, Ranked, Pairs
<1>2. key \in [Ranked(t) -> Keys]
  BY RankedPolicies
<1>3. \A x, y \in Ranked(t) : key[x] = key[y] => x = y
  <2> SUFFICES ASSUME NEW x \in Ranked(t), NEW y \in Ranked(t), key[x] = key[y] PROVE x = y
    OBVIOUS
  <2>1. PICK v, h \in Candidates(t) : /\ v \in 0 .. MaxScore /\ h \in 0 .. MaxScore
                                      /\ x = WithThresholds(t, v, h)
                                      /\ key[x][7] = -v /\ key[x][8] = -h
    BY RankedPolicies
  <2>2. PICK w, k \in Candidates(t) : /\ w \in 0 .. MaxScore /\ k \in 0 .. MaxScore
                                      /\ y = WithThresholds(t, w, k)
                                      /\ key[y][7] = -w /\ key[y][8] = -k
    BY RankedPolicies
  <2>3. v = w /\ h = k
    BY <2>1, <2>2
  <2> QED
    BY <2>1, <2>2, <2>3
<1> HIDE DEF key
<1>4. Ranked(t) # {} => \E m \in Ranked(t) : \A y \in Ranked(t) \ {m} : KeyBefore(key[m], key[y])
  BY <1>2, <1>3, RankedPolicies, FirstExists
<1>5. \A x \in Ranked(t) : key[x] = Key(t, x)
  BY DEF key
<1> QED
  BY <1>1, <1>4, <1>5

-----------------------------------------------------------------------------
(* A pair of thresholds off the grid does nothing that the next candidates *)
(* above do not do.                                                        *)
LEMMA GridLosesNothing ==
  ASSUME NEW t, Searchable(t), Covers(t),
         NEW v \in 0 .. MaxScore, NEW h \in 0 .. MaxScore, v < h,
         Acceptable(t, WithThresholds(t, v, h))
  PROVE  \E policy \in Ranked(t) :
           \/ Key(t, policy) = Key(t, WithThresholds(t, v, h))
           \/ KeyBefore(Key(t, policy), Key(t, WithThresholds(t, v, h)))
<1> DEFINE all == DOMAIN t.examples
           score(i) == t.examples[i].score
<1>1. \A i \in all : score(i) \in 0 .. MaxScore /\ score(i) \in Candidates(t)
  BY ExampleTypes DEF Covers
<1>2. \A x \in 0 .. MaxScore : \E c \in Candidates(t) :
        x =< c /\ \A d \in Candidates(t) : x =< d => c =< d
  <2> SUFFICES ASSUME NEW x \in 0 .. MaxScore
               PROVE  \E c \in Candidates(t) :
                        x =< c /\ \A d \in Candidates(t) : x =< d => c =< d
    OBVIOUS
  <2> DEFINE Over == {c \in Candidates(t) : x =< c}
  <2>1. Over \in SUBSET Nat /\ Over # {}
    BY CandidatesInRange, SearchAssumption
  <2>2. PICK c \in Over : \A d \in Over : c =< d
    <3> HIDE DEF Over
    <3> QED
      BY <2>1, LeastOfNaturals
  <2> QED
    BY <2>2
<1>3. PICK w \in Candidates(t) : v =< w /\ \A d \in Candidates(t) : v =< d => w =< d
  BY <1>2
<1>4. PICK k \in Candidates(t) : h =< k /\ \A d \in Candidates(t) : h =< d => k =< d
  BY <1>2
<1>5. w \in 0 .. MaxScore /\ k \in 0 .. MaxScore
  BY CandidatesInRange
<1>6. \A i \in all : (score(i) < v <=> score(i) < w) /\ (score(i) < h <=> score(i) < k)
  <2> SUFFICES ASSUME NEW i \in all
               PROVE  (score(i) < v <=> score(i) < w) /\ (score(i) < h <=> score(i) < k)
    OBVIOUS
  <2> HIDE DEF score, all
  <2>1. /\ score(i) \in Int /\ v \in Int /\ w \in Int /\ h \in Int /\ k \in Int
        /\ score(i) \in Candidates(t)
    BY <1>1, <1>5
  <2> QED
    BY <1>3, <1>4, <2>1
<1>7. w < k
  <2>1. PICK i \in all : ~(score(i) < v) /\ score(i) < h
    <3>1. /\ Feasible(t, WithThresholds(t, v, h))
          /\ Metrics(t, WithThresholds(t, v, h)) = Outcome(t.examples, Acts(t, v, h), t.cost)
      BY FeasibleIsAcceptable, MetricsByActions
    <3>2. Outcome(t.examples, Acts(t, v, h), t.cost).verified > 0
      BY <3>1 DEF Feasible
    <3>3. Cardinality({i \in all : Acts(t, v, h)[i] = 2}) > 0
      BY <3>2 DEF Outcome, Engine!VERIFY
    <3>4. {i \in all : Acts(t, v, h)[i] = 2} # {}
      BY <3>3, FS_EmptySet
    <3>5. PICK i \in all : Acts(t, v, h)[i] = 2
      BY <3>4
    <3>6. \A e : Severe(t, e) \in 3 .. 5
      BY DEF Severe
    <3>7. ~(score(i) < v) /\ score(i) < h
      BY <3>5, <3>6, ActsTyped
    <3> QED
      BY <3>7
  <2> HIDE DEF score, all
  <2>2. score(i) \in Int /\ v \in Int /\ w \in Int /\ h \in Int /\ k \in Int
    BY <1>1, <1>5
  <2> QED
    BY <1>1, <1>3, <1>4, <2>1, <2>2
<1>8. Acts(t, w, k) = Acts(t, v, h)
  <2>1. \A i \in all : Acts(t, w, k)[i] = Acts(t, v, h)[i]
    BY <1>5, <1>6, <1>7, ActsTyped
  <2> QED
    BY <2>1 DEF Acts
<1> DEFINE policy == WithThresholds(t, w, k)
           rival == WithThresholds(t, v, h)
<1>9. Metrics(t, policy) = Metrics(t, rival)
  BY <1>8, MetricsByActions
<1>10. policy \in Ranked(t)
  <2>1. Feasible(t, policy)
    <3>1. Feasible(t, rival)
      BY FeasibleIsAcceptable
    <3> QED
      BY <1>9, <3>1 DEF Feasible
  <2> QED
    BY <1>7, <2>1, OnGrid
<1>11. /\ policy.verify = w /\ policy.hold = k /\ rival.verify = v /\ rival.hold = h
  BY DEF Searchable, WithThresholds
<1>12. /\ Key(t, policy) \in Keys /\ Key(t, rival) \in Keys
       /\ \A j \in 1 .. 6 : Key(t, policy)[j] = Key(t, rival)[j]
       /\ Key(t, policy)[7] = -w /\ Key(t, policy)[8] = -k
       /\ Key(t, rival)[7] = -v /\ Key(t, rival)[8] = -h
  <2>1. Key(t, policy) \in Keys /\ Key(t, rival) \in Keys
    BY <1>5, <1>7, KeyTyped
  <2> QED
    BY <1>9, <1>11, <2>1 DEF Key
<1>13. Key(t, policy) = Key(t, rival) \/ KeyBefore(Key(t, policy), Key(t, rival))
  <2> HIDE DEF policy, rival
  <2>1. CASE v < w
    <3>1. -w < -v
      BY <1>5, <2>1
    <3>2. \A j \in 1 .. 7 - 1 : Key(t, policy)[j] = Key(t, rival)[j]
      BY <1>12
    <3> QED
      BY <1>12, <3>1, <3>2 DEF KeyBefore, Keys
  <2>2. CASE v = w /\ h < k
    <3>1. -k < -h
      BY <1>5, <2>2
    <3>2. \A j \in 1 .. 8 - 1 : Key(t, policy)[j] = Key(t, rival)[j]
      BY <1>12, <2>2
    <3> QED
      BY <1>12, <3>1, <3>2 DEF KeyBefore, Keys
  <2>3. CASE v = w /\ h = k
    <3>1. \A j \in 1 .. 8 : Key(t, policy)[j] = Key(t, rival)[j]
      BY <1>12, <2>3
    <3> QED
      BY <1>12, <3>1 DEF Keys
  <2> QED
    BY <1>3, <1>4, <1>5, <2>1, <2>2, <2>3
<1> QED
  BY <1>10, <1>13

(* The configured policy is on the grid.                                   *)
LEMMA BaseIsOnGrid ==
  ASSUME NEW t, Searchable(t), NEW v \in 0 .. MaxScore, NEW h \in 0 .. MaxScore, v < h,
         WithThresholds(t, v, h) = t.base, Acceptable(t, t.base)
  PROVE  t.base \in Ranked(t)
<1>1. v = t.base.verify /\ h = t.base.hold
  BY DEF Searchable, WithThresholds
<1>2. v \in Candidates(t) /\ h \in Candidates(t)
  BY <1>1, CandidatesInRange
<1>3. Feasible(t, t.base)
  BY FeasibleIsAcceptable
<1> QED
  BY <1>2, <1>3, OnGrid

-----------------------------------------------------------------------------
(* A policy that has been chosen is the optimum of the task in hand.       *)
SearchInv ==
  /\ task = NoTask \/ task \in Tasks
  /\ chosen # Pending => task \in Tasks /\ chosen = Optimize(task)

LEMMA InitSearchInv == Init => SearchInv
BY DEF Init, SearchInit, SearchInv

LEMMA NextSearchInv ==
  SearchInv /\ [Next]_vars => SearchInv'
BY DEF SearchInv, Next, vars, search, SearchNext, OptimizeThresholds

LEMMA OptimumIsOptimal == SearchInv => PolicyOptimal
<1> SUFFICES ASSUME chosen # Pending, task \in Tasks, chosen = Optimize(task)
             PROVE  PolicyOptimal
  BY DEF SearchInv, PolicyOptimal
<1> DEFINE pairs == {p \in (0 .. MaxScore) \X (0 .. MaxScore) : p[1] < p[2]}
           policies == {WithThresholds(task, p[1], p[2]) : p \in pairs}
           rivals == {policy \in policies :
                        /\ Covers(task) \/ policy = task.base
                        /\ Acceptable(task, policy)}
<1>0. Searchable(task) /\ NoPolicy # Pending
  BY TasksAssumption
<1>1. ASSUME NEW policy \in rivals
      PROVE  /\ Key(task, policy) \in Keys
             /\ \E other \in Ranked(task) : \/ Key(task, other) = Key(task, policy)
                                            \/ KeyBefore(Key(task, other), Key(task, policy))
  <2>1. PICK v, h \in 0 .. MaxScore : v < h /\ policy = WithThresholds(task, v, h)
    BY <1>1
  <2>2. Key(task, policy) \in Keys
    BY <1>0, <2>1, KeyTyped
  <2>3. Acceptable(task, policy) /\ (Covers(task) \/ policy = task.base)
    BY <1>1
  <2>4. CASE Covers(task)
    BY <1>0, <2>1, <2>2, <2>3, <2>4, GridLosesNothing
  <2>5. CASE policy = task.base
    BY <1>0, <2>1, <2>2, <2>3, <2>5, BaseIsOnGrid
  <2> QED
    BY <2>2, <2>3, <2>4, <2>5
<1>2. CASE Ranked(task) = {}
  <2>1. chosen = NoPolicy
    BY <1>0, <1>2, OptimizeIsFirst
  <2>2. rivals = {}
    BY <1>1, <1>2
  <2> QED
    BY <2>1, <2>2 DEF PolicyOptimal
<1>3. CASE Ranked(task) # {}
  <2>1. /\ chosen \in Ranked(task)
        /\ \A other \in Ranked(task) \ {chosen} :
             KeyBefore(Key(task, chosen), Key(task, other))
    BY <1>0, <1>3, OptimizeIsFirst
  <2>2. PICK v, h \in Candidates(task) :
          /\ v \in 0 .. MaxScore /\ h \in 0 .. MaxScore /\ v < h
          /\ chosen = WithThresholds(task, v, h)
          /\ chosen.verify = v /\ chosen.hold = h
          /\ Feasible(task, chosen) /\ Key(task, chosen) \in Keys
    BY <1>0, <2>1, RankedPolicies
  <2>3. chosen # NoPolicy
    BY <1>0, <2>2, Zenon DEF Searchable
  <2>4. Acceptable(task, chosen)
    BY <1>0, <2>2, FeasibleIsAcceptable
  <2>5. Engine!WellTyped(chosen) /\ Engine!Valid(chosen)
    <3>1. /\ task.base \in [verify : 0 .. MaxScore, hold : 0 .. MaxScore,
                            strong : SUBSET Codes, minimum : Nat, recommend : Nat,
                            clusterRequired : BOOLEAN,
                            version : {"risk-policy-v1", "risk-policy-v2"},
                            review : SUBSET STRING]
          /\ Engine!Valid(task.base)
      BY <1>0, Zenon DEF Searchable
    <3>2. /\ chosen.strong = task.base.strong /\ chosen.minimum = task.base.minimum
          /\ chosen.recommend = task.base.recommend
          /\ chosen.clusterRequired = task.base.clusterRequired
          /\ chosen.version = task.base.version /\ chosen.review = task.base.review
      BY <2>2, <3>1 DEF WithThresholds
    <3>3. Engine!WellTyped(chosen)
      BY <2>2, <3>1, <3>2 DEF Engine!WellTyped
    <3>4. Engine!Valid(chosen)
      BY <2>2, <3>1, <3>2 DEF Engine!Valid
    <3> QED
      BY <3>3, <3>4
  <2>6. ASSUME NEW policy \in rivals PROVE ~KeyBefore(Key(task, policy), Key(task, chosen))
    <3> HIDE DEF rivals
    <3>1. PICK other \in Ranked(task) : \/ Key(task, other) = Key(task, policy)
                                        \/ KeyBefore(Key(task, other), Key(task, policy))
      BY <1>1
    <3>2. Key(task, policy) \in Keys /\ Key(task, other) \in Keys /\ Key(task, chosen) \in Keys
      BY <1>0, <1>1, <2>2, RankedPolicies
    <3> SUFFICES ASSUME KeyBefore(Key(task, policy), Key(task, chosen)) PROVE FALSE
      OBVIOUS
    <3>3. KeyBefore(Key(task, other), Key(task, chosen))
      BY <3>1, <3>2, KeysTransitive
    <3>4. CASE other = chosen
      BY <3>2, <3>3, <3>4, KeysIrreflexive
    <3>5. CASE other # chosen
      <4>1. KeyBefore(Key(task, chosen), Key(task, other))
        BY <2>1, <3>5
      <4>2. KeyBefore(Key(task, chosen), Key(task, chosen))
        BY <3>2, <3>3, <4>1, KeysTransitive
      <4> QED
        BY <3>2, <4>2, KeysIrreflexive
    <3> QED
      BY <3>4, <3>5
  <2> HIDE DEF rivals
  <2>7. IF chosen = NoPolicy THEN rivals = {}
        ELSE /\ Engine!WellTyped(chosen) /\ Engine!Valid(chosen)
             /\ Acceptable(task, chosen)
             /\ \A policy \in rivals :
                  ~KeyBefore(Key(task, policy), Key(task, chosen))
    BY <2>3, <2>4, <2>5, <2>6
  <2> QED
    BY <2>7 DEF PolicyOptimal, rivals
<1> QED
  BY <1>2, <1>3

(* The chosen policy is well-typed, acceptable and, where the quantiles    *)
(* cover the scores, beaten by no pair of thresholds at all; a refusal     *)
(* means that none is acceptable: for all examples, cost profiles and      *)
(* constraints.                                                            *)
THEOREM ChosenPolicyIsOptimal == Spec => []PolicyOptimal
<1> QED
  BY InitSearchInv, NextSearchInv, OptimumIsOptimal, PTL DEF Spec

-----------------------------------------------------------------------------
(* The groups of the splitter: the components of the rings that share      *)
(* entities.                                                               *)

LEMMA AllNaturals ==
  ASSUME NEW G \in SUBSET Nat, 0 \in G, \A n \in G : n + 1 \in G
  PROVE  G = Nat
<1> DEFINE Bad == Nat \ G
<1>1. CASE Bad # {}
  <2>1. PICK m \in Bad : \A y \in Bad : ~(<<y, m>> \in OpToRel(<, Nat))
    BY <1>1, NatLessThanWellFounded, WFMin
  <2>2. m \in Nat /\ m # 0 /\ m - 1 \in Nat /\ m - 1 < m
    OBVIOUS
  <2>3. m - 1 \in G
    BY <2>1, <2>2 DEF OpToRel
  <2>4. (m - 1) + 1 = m
    BY <2>2
  <2> QED
    BY <2>3, <2>4
<1> QED
  BY <1>1

(* A set of rings which no entity of E leads out of, and the least one     *)
(* with a ring.                                                            *)
ClosedRings(rows, E, P) ==
  /\ P \subseteq Rings(rows)
  /\ \A e \in E : P \cap RingsWith(rows, e) # {} => RingsWith(rows, e) \subseteq P

Component(rows, E, r) ==
  {q \in Rings(rows) : \A P : ClosedRings(rows, E, P) /\ r \in P => q \in P}

Components(rows, E) == {Component(rows, E, r) : r \in Rings(rows)}

Joined(rows, e, groups) ==
  LET joined == {g \in groups : g \cap RingsWith(rows, e) # {}}
  IN  (groups \ joined) \cup ({UNION joined} \ {{}})

LEMMA RingsWithAreRings ==
  ASSUME NEW rows, NEW e
  PROVE  RingsWith(rows, e) \subseteq Rings(rows)
BY DEF RingsWith, Rings

LEMMA RestClosed ==
  ASSUME NEW rows, NEW E, NEW P, ClosedRings(rows, E, P)
  PROVE  ClosedRings(rows, E, Rings(rows) \ P)
<1>1. \A e \in E : RingsWith(rows, e) \subseteq Rings(rows)
  BY RingsWithAreRings
<1> QED
  BY <1>1 DEF ClosedRings

LEMMA ComponentLeast ==
  ASSUME NEW rows, NEW E, NEW P, ClosedRings(rows, E, P), NEW r \in P
  PROVE  Component(rows, E, r) \subseteq P
BY DEF Component

LEMMA ComponentClosed ==
  ASSUME NEW rows, NEW E, NEW r \in Rings(rows)
  PROVE  r \in Component(rows, E, r) /\ ClosedRings(rows, E, Component(rows, E, r))
<1>1. r \in Component(rows, E, r)
  BY DEF Component
<1>2. ASSUME NEW e \in E, NEW s \in Component(rows, E, r), s \in RingsWith(rows, e),
             NEW t \in RingsWith(rows, e)
      PROVE  t \in Component(rows, E, r)
  <2>1. t \in Rings(rows)
    BY RingsWithAreRings
  <2>2. ASSUME NEW P, ClosedRings(rows, E, P), r \in P PROVE t \in P
    <3>1. s \in P
      BY <2>2 DEF Component
    <3> QED
      BY <1>2, <2>2, <3>1 DEF ClosedRings
  <2> QED
    BY <2>1, <2>2 DEF Component
<1>3. Component(rows, E, r) \subseteq Rings(rows)
  BY DEF Component
<1>4. ASSUME NEW e \in E, Component(rows, E, r) \cap RingsWith(rows, e) # {}
      PROVE  RingsWith(rows, e) \subseteq Component(rows, E, r)
  BY <1>2, <1>4
<1> QED
  BY <1>1, <1>3, <1>4 DEF ClosedRings

LEMMA ComponentSame ==
  ASSUME NEW rows, NEW E, NEW r \in Rings(rows), NEW q \in Component(rows, E, r)
  PROVE  q \in Rings(rows) /\ Component(rows, E, q) = Component(rows, E, r)
<1>1. q \in Rings(rows)
  BY DEF Component
<1>2. Component(rows, E, q) \subseteq Component(rows, E, r)
  BY ComponentClosed, ComponentLeast
<1>3. r \in Component(rows, E, q)
  <2> SUFFICES ASSUME r \notin Component(rows, E, q) PROVE FALSE
    OBVIOUS
  <2>1. ClosedRings(rows, E, Component(rows, E, q)) /\ q \in Component(rows, E, q)
    BY <1>1, ComponentClosed
  <2>2. ClosedRings(rows, E, Rings(rows) \ Component(rows, E, q))
    BY <2>1, RestClosed
  <2>3. r \in Rings(rows) \ Component(rows, E, q)
    OBVIOUS
  <2>4. Component(rows, E, r) \subseteq Rings(rows) \ Component(rows, E, q)
    BY <2>2, <2>3, ComponentLeast
  <2> QED
    BY <2>1, <2>4
<1>4. Component(rows, E, r) \subseteq Component(rows, E, q)
  <2>1. ClosedRings(rows, E, Component(rows, E, q))
    BY <1>1, ComponentClosed
  <2> QED
    BY <1>3, <2>1, ComponentLeast
<1> QED
  BY <1>1, <1>2, <1>4

LEMMA ComponentGrows ==
  ASSUME NEW rows, NEW E, NEW F, F \subseteq E, NEW r
  PROVE  Component(rows, F, r) \subseteq Component(rows, E, r)
<1>1. \A P : ClosedRings(rows, E, P) => ClosedRings(rows, F, P)
  BY DEF ClosedRings
<1> QED
  BY <1>1 DEF Component

LEMMA ComponentsAlone ==
  ASSUME NEW rows
  PROVE  Components(rows, {}) = {{r} : r \in Rings(rows)}
<1>1. ASSUME NEW r \in Rings(rows) PROVE Component(rows, {}, r) = {r}
  <2>1. ClosedRings(rows, {}, {r}) /\ r \in {r}
    BY DEF ClosedRings
  <2>2. Component(rows, {}, r) \subseteq {r}
    BY <2>1, ComponentLeast
  <2>3. r \in Component(rows, {}, r)
    BY ComponentClosed
  <2> QED
    BY <2>2, <2>3
<1> QED
  BY <1>1 DEF Components

(* An entity joins the components that its rings are in.                   *)
LEMMA ComponentsJoin ==
  ASSUME NEW rows, NEW E, NEW e \in E
  PROVE  Components(rows, E) = Joined(rows, e, Components(rows, E \ {e}))
<1> DEFINE F == E \ {e}
           R == RingsWith(rows, e)
           joined == {g \in Components(rows, F) : g \cap R # {}}
           U == UNION joined
<1>0. R \subseteq Rings(rows)
  BY RingsWithAreRings
<1>a. \A r \in Rings(rows) :
        /\ r \in Component(rows, F, r) /\ ClosedRings(rows, F, Component(rows, F, r))
        /\ r \in Component(rows, E, r) /\ ClosedRings(rows, E, Component(rows, E, r))
  BY ComponentClosed
<1>b. \A r \in Rings(rows) : \A q \in Component(rows, F, r) :
        q \in Rings(rows) /\ Component(rows, F, q) = Component(rows, F, r)
  BY ComponentSame
<1>c. \A r : Component(rows, F, r) \subseteq Component(rows, E, r)
  <2>1. F \subseteq E
    OBVIOUS
  <2> HIDE DEF F
  <2> QED
    BY <2>1, ComponentGrows
<1>d. \A P : ClosedRings(rows, E, P) <=>
               ClosedRings(rows, F, P) /\ (P \cap R # {} => R \subseteq P)
  BY DEF ClosedRings
<1> HIDE DEF F, R
<1>1. \A r \in Rings(rows) : r \in U <=> Component(rows, F, r) \cap R # {}
  <2> SUFFICES ASSUME NEW r \in Rings(rows)
               PROVE  r \in U <=> Component(rows, F, r) \cap R # {}
    OBVIOUS
  <2>1. ASSUME r \in U PROVE Component(rows, F, r) \cap R # {}
    <3>1. PICK q \in Rings(rows) :
            r \in Component(rows, F, q) /\ Component(rows, F, q) \cap R # {}
      BY <2>1 DEF Components
    <3> QED
      BY <1>b, <3>1
  <2>2. ASSUME Component(rows, F, r) \cap R # {} PROVE r \in U
    <3>1. Component(rows, F, r) \in joined
      BY <2>2 DEF Components
    <3> QED
      BY <1>a, <3>1
  <2> QED
    BY <2>1, <2>2
<1>2. R \subseteq U /\ U \subseteq Rings(rows)
  <2>1. \A g \in joined : g \subseteq Rings(rows)
    BY DEF Components, Component
  <2>2. \A r \in R : r \in Rings(rows) /\ r \in Component(rows, F, r)
    BY <1>0, <1>a
  <2> QED
    BY <1>1, <2>1, <2>2
<1>3. ClosedRings(rows, F, U)
  <2>1. ASSUME NEW x \in F, U \cap RingsWith(rows, x) # {}
        PROVE  RingsWith(rows, x) \subseteq U
    <3>1. PICK g \in joined : g \cap RingsWith(rows, x) # {}
      BY <2>1
    <3>2. PICK q \in Rings(rows) : g = Component(rows, F, q)
      BY <3>1 DEF Components
    <3>3. RingsWith(rows, x) \subseteq g
      BY <1>a, <3>1, <3>2 DEF ClosedRings
    <3> QED
      BY <3>1, <3>3
  <2> QED
    BY <1>2, <2>1 DEF ClosedRings
<1> HIDE DEF U
<1>4. ASSUME NEW r \in Rings(rows), r \notin U
      PROVE  Component(rows, E, r) = Component(rows, F, r)
  <2>1. ClosedRings(rows, E, Component(rows, F, r)) /\ r \in Component(rows, F, r)
    BY <1>1, <1>4, <1>a, <1>d
  <2>2. Component(rows, E, r) \subseteq Component(rows, F, r)
    BY <2>1, ComponentLeast
  <2> QED
    BY <2>2, <1>c
<1>5. ASSUME NEW r \in U
      PROVE  Component(rows, E, r) = U
  <2>0. r \in Rings(rows)
    BY <1>2
  <2>1. ClosedRings(rows, E, U)
    BY <1>2, <1>3, <1>d
  <2>2. Component(rows, E, r) \subseteq U
    BY <2>1, ComponentLeast
  <2>3. R \subseteq Component(rows, E, r)
    <3>1. Component(rows, E, r) \cap R # {}
      BY <1>1, <1>c, <2>0
    <3> QED
      BY <1>a, <1>d, <2>0, <3>1
  <2>4. ASSUME NEW u \in U PROVE u \in Component(rows, E, r)
    <3>1. u \in Rings(rows)
      BY <1>2
    <3>2. PICK s \in R : s \in Component(rows, F, u)
      BY <1>1, <3>1, <2>4
    <3>3. u \in Component(rows, F, s)
      BY <1>a, <1>b, <3>1, <3>2
    <3>4. s \in Component(rows, E, r)
      BY <2>3
    <3>5. Component(rows, E, s) = Component(rows, E, r)
      BY <2>0, <3>4, ComponentSame
    <3> QED
      BY <1>c, <3>3, <3>5
  <2> QED
    BY <2>2, <2>4
<1>6. \A r \in Rings(rows) : Component(rows, F, r) \in joined <=> r \in U
  BY <1>1 DEF Components
<1>7. Joined(rows, e, Components(rows, F))
        = (Components(rows, F) \ joined) \cup ({U} \ {{}})
  BY DEF Joined, U, R
<1> HIDE DEF joined
<1>8. Components(rows, F) \ joined
        = {Component(rows, F, r) : r \in {q \in Rings(rows) : q \notin U}}
  <2>1. ASSUME NEW g \in Components(rows, F) \ joined
        PROVE  g \in {Component(rows, F, r) : r \in {q \in Rings(rows) : q \notin U}}
    BY <1>6 DEF Components
  <2>2. ASSUME NEW r \in Rings(rows), r \notin U
        PROVE  Component(rows, F, r) \in Components(rows, F) \ joined
    BY <1>6, <2>2 DEF Components
  <2> QED
    BY <2>1, <2>2
<1>9. Components(rows, E)
        = {Component(rows, E, r) : r \in {q \in Rings(rows) : q \notin U}}
            \cup {Component(rows, E, r) : r \in U}
  BY <1>2 DEF Components
<1>10. {Component(rows, E, r) : r \in U} = {U} \ {{}}
  BY <1>5
<1>11. {Component(rows, E, r) : r \in {q \in Rings(rows) : q \notin U}}
         = {Component(rows, F, r) : r \in {q \in Rings(rows) : q \notin U}}
  BY <1>4
<1>12. Components(rows, E) = Joined(rows, e, Components(rows, F))
  BY <1>7, <1>8, <1>9, <1>10, <1>11
<1> QED
  BY <1>12 DEF F

-----------------------------------------------------------------------------
AllEntities(rows) == UNION {rows[i].entities : i \in DOMAIN rows}

(* What the fold of Supergroups computes.                                  *)
IsGrouping(h, rows, S) ==
  \A T \in SUBSET S :
    h[T] = IF T = {} THEN {{r} : r \in Rings(rows)}
           ELSE Joined(rows, CHOOSE e \in T : TRUE, h[T \ {CHOOSE e \in T : TRUE}])

LEMMA FiniteImage ==
  ASSUME NEW S, IsFiniteSet(S), NEW f
  PROVE  IsFiniteSet({f[x] : x \in S})
<1> DEFINE g == [x \in S |-> f[x]]
<1>1. g \in Surjection(S, {f[x] : x \in S})
  BY DEF Surjection
<1> HIDE DEF g
<1> QED
  BY <1>1, FS_Surjection

LEMMA RowsFinite ==
  ASSUME NEW rows, DataSet(rows)
  PROVE  /\ DOMAIN rows = 1 .. Len(rows) /\ Len(rows) \in Nat
         /\ IsFiniteSet(DOMAIN rows)
<1>1. rows \in Seq(ToSet(rows))
  BY DEF DataSet
<1>2. Len(rows) \in Nat /\ DOMAIN rows = 1 .. Len(rows)
  BY <1>1
<1> QED
  BY <1>2, FS_Interval

LEMMA SupergroupsUnfold ==
  ASSUME NEW rows, NEW S, S = AllEntities(rows),
         NEW g, g = [T \in SUBSET S |-> g[T]], IsGrouping(g, rows, S)
  PROVE  \E h : Supergroups(rows) = h[S] /\ IsGrouping(h, rows, S)
<1> DEFINE
      x(T) == CHOOSE e \in T : TRUE
      Step(h) == [T \in SUBSET S |->
                    IF T = {} THEN {{r} : r \in Rings(rows)}
                    ELSE Joined(rows, x(T), h[T \ {x(T)}])]
      iter == CHOOSE h : h = Step(h)
<1>1. Supergroups(rows) = iter[S]
  BY DEF Supergroups, FoldSet, MapThenFoldSet, Joined, AllEntities
<1>2. g = Step(g)
  <2>1. \A T \in SUBSET S : g[T] = Step(g)[T]
    BY DEF IsGrouping
  <2>2. Step(g) = [T \in SUBSET S |-> Step(g)[T]]
    OBVIOUS
  <2> HIDE DEF Step
  <2> QED
    BY <2>1, <2>2
<1>3. iter = Step(iter)
  <2> HIDE DEF Step
  <2> QED
    BY <1>2
<1>4. IsGrouping(iter, rows, S)
  <2>1. \A T \in SUBSET S : iter[T] = Step(iter)[T]
    BY <1>3
  <2> HIDE DEF iter
  <2> QED
    BY <2>1 DEF IsGrouping
<1> HIDE DEF iter
<1> QED
  BY <1>1, <1>4

LEMMA SupergroupsAreComponents ==
  ASSUME NEW rows, DataSet(rows)
  PROVE  Supergroups(rows) = Components(rows, AllEntities(rows))
<1> DEFINE S == AllEntities(rows)
           x(T) == CHOOSE e \in T : TRUE
           g == [T \in SUBSET S |-> Components(rows, T)]
<1>0. IsFiniteSet(S)
  <2> DEFINE entities == [i \in DOMAIN rows |-> rows[i].entities]
  <2>1. \A i \in DOMAIN rows : IsFiniteSet(rows[i].entities)
    BY DEF DataSet
  <2>2. IsFiniteSet({entities[i] : i \in DOMAIN rows})
    <3> HIDE DEF entities
    <3> QED
      BY RowsFinite, FiniteImage
  <2>3. {entities[i] : i \in DOMAIN rows} = {rows[i].entities : i \in DOMAIN rows}
    OBVIOUS
  <2>4. \A s \in {rows[i].entities : i \in DOMAIN rows} : IsFiniteSet(s)
    BY <2>1
  <2> HIDE DEF S
  <2> QED
    BY <2>2, <2>3, <2>4, FS_UNION DEF S, AllEntities
<1>1. \A T \in SUBSET S : T # {} => x(T) \in T
  OBVIOUS
<1>2. g = [T \in SUBSET S |-> g[T]] /\ g[S] = Components(rows, S)
  OBVIOUS
<1>3. IsGrouping(g, rows, S)
  <2> SUFFICES ASSUME NEW T \in SUBSET S
               PROVE  g[T] = IF T = {} THEN {{r} : r \in Rings(rows)}
                             ELSE Joined(rows, x(T), g[T \ {x(T)}])
    BY DEF IsGrouping
  <2>1. CASE T = {}
    BY <2>1, ComponentsAlone
  <2>2. CASE T # {}
    <3>1. x(T) \in T /\ T \ {x(T)} \in SUBSET S
      BY <1>1, <2>2
    <3>2. g[T] = Components(rows, T) /\ g[T \ {x(T)}] = Components(rows, T \ {x(T)})
      BY <3>1
    <3> HIDE DEF x, g
    <3> QED
      BY <2>2, <3>1, <3>2, ComponentsJoin
  <2> QED
    BY <2>1, <2>2
<1>4. \A T \in SUBSET S : g[T] = Components(rows, T)
  OBVIOUS
<1> HIDE DEF g
<1>5. PICK h : Supergroups(rows) = h[S] /\ IsGrouping(h, rows, S)
  BY <1>2, <1>3, SupergroupsUnfold
<1>6. ASSUME NEW T \in SUBSET S
      PROVE  h[T] = IF T = {} THEN {{r} : r \in Rings(rows)}
                    ELSE Joined(rows, x(T), h[T \ {x(T)}])
  BY <1>5 DEF IsGrouping
<1>7. ASSUME NEW T \in SUBSET S
      PROVE  g[T] = IF T = {} THEN {{r} : r \in Rings(rows)}
                    ELSE Joined(rows, x(T), g[T \ {x(T)}])
  BY <1>3 DEF IsGrouping
<1> HIDE DEF x
<1> DEFINE G == {n \in Nat : \A T \in SUBSET S : Cardinality(T) = n => h[T] = g[T]}
<1>9. \A T \in SUBSET S : IsFiniteSet(T) /\ Cardinality(T) \in Nat
  <2> HIDE DEF S
  <2> QED
    BY <1>0, FS_Subset, FS_CardinalityType
<1>10. 0 \in G
  <2> SUFFICES ASSUME NEW T \in SUBSET S, Cardinality(T) = 0 PROVE h[T] = g[T]
    OBVIOUS
  <2>1. T = {}
    BY <1>9, FS_EmptySet
  <2> QED
    BY <1>6, <1>7, <2>1
<1>11. ASSUME NEW n \in G PROVE n + 1 \in G
  <2> SUFFICES ASSUME NEW T \in SUBSET S, Cardinality(T) = n + 1 PROVE h[T] = g[T]
    OBVIOUS
  <2>1. n \in Nat /\ n + 1 # 0
    OBVIOUS
  <2>2. T # {}
    BY <2>1, FS_EmptySet
  <2>3. x(T) \in T /\ T \ {x(T)} \in SUBSET S
    BY <1>1, <2>2
  <2>4. Cardinality(T \ {x(T)}) = n
    <3>1. Cardinality(T \ {x(T)}) = Cardinality(T) - 1
      BY <1>9, <2>3, FS_RemoveElement
    <3> QED
      BY <2>1, <3>1
  <2>5. h[T \ {x(T)}] = g[T \ {x(T)}]
    BY <2>3, <2>4
  <2> QED
    BY <1>6, <1>7, <2>2, <2>5
<1>12. G = Nat
  <2>1. G \in SUBSET Nat
    OBVIOUS
  <2> HIDE DEF G
  <2> QED
    BY <1>10, <1>11, <2>1, AllNaturals
<1>13. h[S] = g[S]
  <2>1. Cardinality(S) \in G
    BY <1>9, <1>12
  <2> QED
    BY <2>1
<1> QED
  BY <1>2, <1>4, <1>5, <1>13

(* What the splitter's argument needs of the groups.                       *)
Grouped(rows, groups) ==
  /\ \A g \in groups : g # {} /\ g \subseteq Rings(rows)
  /\ \A r \in Rings(rows) : \E g \in groups : r \in g
  /\ \A g, h \in groups : g \cap h # {} => g = h
  /\ \A g \in groups : \A e \in AllEntities(rows) :
       g \cap RingsWith(rows, e) # {} => RingsWith(rows, e) \subseteq g
  /\ \A g \in groups : \A P : ClosedRings(rows, AllEntities(rows), P) =>
       g \subseteq P \/ g \cap P = {}

LEMMA SupergroupsGrouped ==
  ASSUME NEW rows, DataSet(rows)
  PROVE  Grouped(rows, Supergroups(rows))
<1> DEFINE E == AllEntities(rows)
           groups == Components(rows, E)
<1>1. Supergroups(rows) = groups
  BY SupergroupsAreComponents
<1>2. \A r \in Rings(rows) :
        r \in Component(rows, E, r) /\ ClosedRings(rows, E, Component(rows, E, r))
  <2> HIDE DEF E
  <2> QED
    BY ComponentClosed
<1>3. \A r \in Rings(rows) : \A q \in Component(rows, E, r) :
        q \in Rings(rows) /\ Component(rows, E, q) = Component(rows, E, r)
  <2> HIDE DEF E
  <2> QED
    BY ComponentSame
<1>4. \A g \in groups : g # {} /\ g \subseteq Rings(rows)
  <2> HIDE DEF E
  <2> QED
    BY <1>2, <1>3 DEF Components
<1>5. \A r \in Rings(rows) : \E g \in groups : r \in g
  <2> HIDE DEF E
  <2> QED
    BY <1>2 DEF Components
<1>6. ASSUME NEW g \in groups, NEW h \in groups, g \cap h # {} PROVE g = h
  <2>1. PICK r \in Rings(rows) : g = Component(rows, E, r)
    BY <1>6 DEF Components
  <2>2. PICK q \in Rings(rows) : h = Component(rows, E, q)
    BY <1>6 DEF Components
  <2>3. PICK s : s \in g /\ s \in h
    BY <1>6
  <2> HIDE DEF E
  <2> QED
    BY <1>3, <2>1, <2>2, <2>3
<1>7. ASSUME NEW g \in groups, NEW e \in E, g \cap RingsWith(rows, e) # {}
      PROVE  RingsWith(rows, e) \subseteq g
  <2>1. PICK r \in Rings(rows) : g = Component(rows, E, r)
    BY <1>7 DEF Components
  <2> HIDE DEF E
  <2> QED
    BY <1>2, <1>7, <2>1 DEF ClosedRings
<1>8. ASSUME NEW g \in groups, NEW P, ClosedRings(rows, E, P), g \cap P # {}
      PROVE  g \subseteq P
  <2>1. PICK r \in Rings(rows) : g = Component(rows, E, r)
    BY <1>8 DEF Components
  <2>2. PICK q \in g : q \in P
    BY <1>8
  <2> HIDE DEF E
  <2>3. Component(rows, E, q) = g
    BY <1>3, <2>1, <2>2
  <2> QED
    BY <1>8, <2>2, <2>3, ComponentLeast
<1> QED
  BY <1>1, <1>4, <1>5, <1>6, <1>7, <1>8 DEF Grouped

-----------------------------------------------------------------------------
(* Boundaries and groups.                                                  *)

LEMMA MinOfNaturals ==
  ASSUME NEW S \in SUBSET Nat, S # {}
  PROVE  Min(S) \in S /\ \A y \in S : Min(S) =< y
<1>1. PICK m \in S : \A y \in S : m =< y
  BY LeastOfNaturals
<1> QED
  BY <1>1 DEF Min

TimesOf(rows, g) == {rows[i].time : i \in {j \in DOMAIN rows : rows[j].ring \in g}}

LEMMA SpanOf ==
  ASSUME NEW rows, DataSet(rows), NEW groups, Grouped(rows, groups), NEW g \in groups
  PROVE  /\ Span(rows, g).start \in TimesOf(rows, g) /\ Span(rows, g).end \in TimesOf(rows, g)
         /\ Span(rows, g).start \in Nat /\ Span(rows, g).end \in Nat
         /\ \A i \in DOMAIN rows : rows[i].ring \in g =>
              Span(rows, g).start =< rows[i].time /\ rows[i].time =< Span(rows, g).end
<1> DEFINE D == {j \in DOMAIN rows : rows[j].ring \in g}
           time == [i \in D |-> rows[i].time]
           S == {time[i] : i \in D}
<1>1. IsFiniteSet(D)
  <2>1. D \subseteq DOMAIN rows
    OBVIOUS
  <2> HIDE DEF D
  <2> QED
    BY <2>1, RowsFinite, FS_Subset
<1>2. IsFiniteSet(S)
  <2> HIDE DEF D, time
  <2> QED
    BY <1>1, FiniteImage
<1>3. S = TimesOf(rows, g)
  BY DEF TimesOf
<1>4. S \in SUBSET Nat
  BY DEF DataSet
<1>5. S # {}
  <2>1. PICK r \in g : r \in Rings(rows)
    BY DEF Grouped
  <2> QED
    BY <2>1 DEF Rings
<1>6. Span(rows, g) = [start |-> Min(TimesOf(rows, g)), end |-> Max(TimesOf(rows, g))]
  BY DEF Span, TimesOf
<1>7. \A i \in DOMAIN rows : rows[i].ring \in g => rows[i].time \in TimesOf(rows, g)
  BY DEF TimesOf
<1>8. /\ Min(TimesOf(rows, g)) \in TimesOf(rows, g)
      /\ \A y \in TimesOf(rows, g) : Min(TimesOf(rows, g)) =< y
      /\ Max(TimesOf(rows, g)) \in TimesOf(rows, g)
      /\ \A y \in TimesOf(rows, g) : Max(TimesOf(rows, g)) >= y
      /\ TimesOf(rows, g) \in SUBSET Nat
  <2> HIDE DEF S
  <2> QED
    BY <1>2, <1>3, <1>4, <1>5, MinOfNaturals, MaxOfNaturals
<1> QED
  <2>1. \A i \in DOMAIN rows : rows[i].ring \in g =>
          /\ Min(TimesOf(rows, g)) =< rows[i].time
          /\ Max(TimesOf(rows, g)) >= rows[i].time
          /\ rows[i].time \in Nat
    BY <1>7, <1>8
  <2>2. Min(TimesOf(rows, g)) \in Nat /\ Max(TimesOf(rows, g)) \in Nat
    BY <1>8
  <2>3. Span(rows, g).start = Min(TimesOf(rows, g)) /\ Span(rows, g).end = Max(TimesOf(rows, g))
    BY <1>6
  <2>4. \A i \in DOMAIN rows : rows[i].ring \in g => rows[i].time =< Max(TimesOf(rows, g))
    BY <2>1, <2>2
  <2> HIDE DEF S, D
  <2> QED
    BY <1>8, <2>1, <2>2, <2>3, <2>4

(* The groups whose rows are in a part.                                    *)
GroupsOf(rows, groups, c, part) ==
  LET a == EndedBy(rows, groups, c.first)
      b == EndedBy(rows, groups, c.second)
  IN  IF part = 1 THEN a ELSE IF part = 2 THEN b \ a ELSE groups \ b

SafeCut(rows, groups, c) ==
  /\ c.first \in SafeTimes(rows, groups) /\ c.second \in SafeTimes(rows, groups)
  /\ c.first < c.second

LEMMA SafeTimesAreTimes ==
  ASSUME NEW rows, DataSet(rows), NEW groups, NEW t \in SafeTimes(rows, groups)
  PROVE  /\ t \in {rows[i].time : i \in DOMAIN rows} /\ t \in Nat
         /\ \A g \in groups : ~(Span(rows, g).start < t /\ t =< Span(rows, g).end)
BY DEF SafeTimes, DataSet

(* A safe cut keeps the rows of a group together.                          *)
LEMMA GroupsStayWhole ==
  ASSUME NEW rows, DataSet(rows), NEW groups, Grouped(rows, groups),
         NEW c, SafeCut(rows, groups, c),
         NEW g \in groups, NEW i \in DOMAIN rows, rows[i].ring \in g
  PROVE  /\ PartOf(c, rows[i].time) \in Parts
         /\ \A p \in Parts : PartOf(c, rows[i].time) = p <=> g \in GroupsOf(rows, groups, c, p)
<1> DEFINE s == Span(rows, g).start
           e == Span(rows, g).end
           x == rows[i].time
           t == c.first
           u == c.second
<1>1. s \in Nat /\ e \in Nat /\ s =< x /\ x =< e /\ x \in Nat
  BY SpanOf DEF DataSet
<1>2. t \in Nat /\ u \in Nat /\ t < u /\ ~(s < t /\ t =< e) /\ ~(s < u /\ u =< e)
  BY SafeTimesAreTimes DEF SafeCut
<1>3. g \in EndedBy(rows, groups, t) <=> e < t
  BY DEF EndedBy
<1>4. g \in EndedBy(rows, groups, u) <=> e < u
  BY DEF EndedBy
<1> HIDE DEF s, e, x, t, u
<1>5. (x < t <=> e < t) /\ (x < u <=> e < u)
  BY <1>1, <1>2
<1>6. PartOf(c, x) = IF e < t THEN 1 ELSE IF e < u THEN 2 ELSE 3
  BY <1>5 DEF PartOf, t, u
<1>7. e < t => e < u
  BY <1>1, <1>2
<1>8. /\ g \in GroupsOf(rows, groups, c, 1) <=> e < t
      /\ g \in GroupsOf(rows, groups, c, 2) <=> e < u /\ ~(e < t)
      /\ g \in GroupsOf(rows, groups, c, 3) <=> ~(e < u)
  BY <1>3, <1>4 DEF GroupsOf, t, u
<1>9. Parts = {1, 2, 3}
  BY DEF Parts
<1>10. /\ PartOf(c, x) = 1 <=> e < t
       /\ PartOf(c, x) = 2 <=> e < u /\ ~(e < t)
       /\ PartOf(c, x) = 3 <=> ~(e < u)
       /\ PartOf(c, x) \in {1, 2, 3}
  BY <1>6, <1>7
<1> QED
  BY <1>8, <1>9, <1>10 DEF x

LEMMA RowsInGroups ==
  ASSUME NEW rows, DataSet(rows), NEW groups, Grouped(rows, groups), NEW i \in DOMAIN rows
  PROVE  /\ rows[i].ring # NoRing <=> \E g \in groups : rows[i].ring \in g
         /\ rows[i].ring # NoRing <=> rows[i].scenario \in AbuseScenarios
         /\ rows[i].ring # NoRing <=> IsAbuse(rows[i])
<1>1. rows[i].ring # NoRing <=> rows[i].ring \in Rings(rows)
  BY DEF Rings
<1>2. rows[i].ring \in Rings(rows) <=> \E g \in groups : rows[i].ring \in g
  BY DEF Grouped
<1>3. rows[i].ring # NoRing <=> rows[i].scenario \in AbuseScenarios
  BY SplitAssumption DEF DataSet
<1>4. rows[i].ring # NoRing <=> IsAbuse(rows[i])
  BY DEF DataSet, IsAbuse
<1> QED
  BY <1>1, <1>2, <1>3, <1>4

AbuseIn(rows, c, part) ==
  {rows[i].scenario : i \in RowsOf(rows, c, part)} \cap AbuseScenarios

LEMMA AbuseOfGroups ==
  ASSUME NEW rows, DataSet(rows), NEW groups, Grouped(rows, groups),
         NEW c, SafeCut(rows, groups, c), NEW p \in Parts
  PROVE  AbuseIn(rows, c, p) = ScenariosIn(rows, GroupsOf(rows, groups, c, p))
<1> DEFINE S == GroupsOf(rows, groups, c, p)
<1>0. S \subseteq groups
  BY DEF GroupsOf, EndedBy
<1>1. ASSUME NEW i \in RowsOf(rows, c, p), rows[i].scenario \in AbuseScenarios
      PROVE  rows[i].scenario \in ScenariosIn(rows, S)
  <2>1. i \in DOMAIN rows /\ PartOf(c, rows[i].time) = p
    BY DEF RowsOf
  <2>2. PICK g \in groups : rows[i].ring \in g
    BY <1>1, <2>1, RowsInGroups
  <2>3. g \in S
    BY <2>1, <2>2, GroupsStayWhole
  <2> QED
    BY <2>1, <2>2, <2>3 DEF ScenariosIn
<1>2. ASSUME NEW i \in DOMAIN rows, NEW g \in S, rows[i].ring \in g
      PROVE  rows[i].scenario \in AbuseIn(rows, c, p)
  <2>1. g \in groups
    BY <1>0
  <2>2. PartOf(c, rows[i].time) = p
    BY <1>2, <2>1, GroupsStayWhole
  <2>3. rows[i].scenario \in AbuseScenarios
    BY <1>2, <2>1, RowsInGroups
  <2> QED
    BY <2>2, <2>3 DEF AbuseIn, RowsOf
<1>3. ScenariosIn(rows, S) = {rows[i].scenario : i \in {j \in DOMAIN rows : \E g \in S : rows[j].ring \in g}}
  BY DEF ScenariosIn
<1> HIDE DEF S
<1>4. ScenariosIn(rows, S) \subseteq AbuseIn(rows, c, p)
  BY <1>2, <1>3
<1>5. AbuseIn(rows, c, p) \subseteq ScenariosIn(rows, S)
  BY <1>1 DEF AbuseIn
<1> QED
  BY <1>4, <1>5 DEF S

LEMMA GroupsHaveScenarios ==
  ASSUME NEW rows, NEW groups, Grouped(rows, groups), NEW S \in SUBSET groups
  PROVE  ScenariosIn(rows, S) = {} <=> S = {}
<1>1. S = {} => ScenariosIn(rows, S) = {}
  BY DEF ScenariosIn
<1>2. ASSUME NEW g \in S PROVE ScenariosIn(rows, S) # {}
  <2>1. PICK r \in g : r \in Rings(rows)
    BY DEF Grouped
  <2>2. PICK i \in DOMAIN rows : rows[i].ring = r
    BY <2>1 DEF Rings
  <2>3. rows[i].scenario \in ScenariosIn(rows, S)
    BY <2>1, <2>2 DEF ScenariosIn
  <2> QED
    BY <2>3
<1> QED
  BY <1>1, <1>2

-----------------------------------------------------------------------------
(* Sound cuts.                                                             *)

CutAt(rows, t, u) ==
  [deviation |-> Distance(rows, t, Targets(rows)[1]) + Distance(rows, u, Targets(rows)[2]),
   first |-> t, second |-> u]

KeepsRelated(rows, c) ==
  \A i, j \in DOMAIN rows : Related(rows[i], rows[j]) =>
    PartOf(c, rows[i].time) = PartOf(c, rows[j].time)

HasAbuse(rows, all, c) ==
  \A part \in Parts :
    IF all THEN AbuseIn(rows, c, part) = AbuseScenarios ELSE AbuseIn(rows, c, part) # {}

LEMMA SoundCutsAre ==
  ASSUME NEW rows, NEW all, NEW c
  PROVE  c \in SoundCuts(rows, all) <=>
           /\ \E t, u \in {rows[i].time : i \in DOMAIN rows} : t < u /\ c = CutAt(rows, t, u)
           /\ HasAbuse(rows, all, c) /\ KeepsRelated(rows, c)
<1> DEFINE times == {rows[i].time : i \in DOMAIN rows}
           C == {CutAt(rows, p[1], p[2]) : p \in {q \in times \X times : q[1] < q[2]}}
<1>1. SoundCuts(rows, all) = {x \in C : HasAbuse(rows, all, x) /\ KeepsRelated(rows, x)}
  BY DEF SoundCuts, HasAbuse, KeepsRelated, AbuseIn, CutAt
<1>2. c \in C <=> \E t, u \in times : t < u /\ c = CutAt(rows, t, u)
  <2>1. ASSUME c \in C PROVE \E t, u \in times : t < u /\ c = CutAt(rows, t, u)
    <3>1. PICK q \in times \X times : q[1] < q[2] /\ c = CutAt(rows, q[1], q[2])
      BY <2>1
    <3> QED
      BY <3>1
  <2>2. ASSUME NEW t \in times, NEW u \in times, t < u, c = CutAt(rows, t, u) PROVE c \in C
    <3>1. <<t, u>> \in {q \in times \X times : q[1] < q[2]}
      BY <2>2
    <3>2. <<t, u>>[1] = t /\ <<t, u>>[2] = u
      OBVIOUS
    <3> HIDE DEF times
    <3> QED
      BY <2>2, <3>1, <3>2
  <2> QED
    BY <2>1, <2>2
<1> HIDE DEF C
<1> QED
  BY <1>1, <1>2

(* Rows of one group are related, if not directly then through others.     *)
LEMMA GroupsAreRelated ==
  ASSUME NEW rows, NEW groups, Grouped(rows, groups),
         NEW c, KeepsRelated(rows, c), NEW g \in groups,
         NEW i \in DOMAIN rows, rows[i].ring \in g,
         NEW j \in DOMAIN rows, rows[j].ring \in g
  PROVE  PartOf(c, rows[i].time) = PartOf(c, rows[j].time)
<1> DEFINE p == PartOf(c, rows[i].time)
           R(k) == rows[k].ring # NoRing /\ PartOf(c, rows[k].time) = p
           P == {rows[k].ring : k \in {l \in DOMAIN rows : R(l)}}
<1>1. ASSUME NEW e \in AllEntities(rows), P \cap RingsWith(rows, e) # {},
             NEW q \in RingsWith(rows, e)
      PROVE  q \in P
  <2>1. PICK k \in DOMAIN rows : R(k) /\ rows[k].ring \in RingsWith(rows, e)
    BY <1>1
  <2>2. PICK l \in DOMAIN rows :
          rows[l].ring # NoRing /\ e \in rows[l].entities /\ rows[l].ring = rows[k].ring
    BY <2>1 DEF RingsWith
  <2>3. PICK m \in DOMAIN rows :
          rows[m].ring # NoRing /\ e \in rows[m].entities /\ rows[m].ring = q
    BY <1>1 DEF RingsWith
  <2>4. Related(rows[k], rows[l])
    BY <2>1, <2>2 DEF Related
  <2>5. Related(rows[l], rows[m])
    BY <2>2, <2>3 DEF Related
  <2>6. PartOf(c, rows[m].time) = PartOf(c, rows[k].time)
    BY <2>4, <2>5 DEF KeepsRelated
  <2>7. R(m)
    BY <2>1, <2>3, <2>6
  <2> HIDE DEF R
  <2> QED
    BY <2>3, <2>7
<1>2. P \subseteq Rings(rows)
  BY DEF Rings
<1>3. ClosedRings(rows, AllEntities(rows), P)
  <2> HIDE DEF P
  <2> QED
    BY <1>1, <1>2 DEF ClosedRings
<1>4. \A q \in g : q # NoRing
  BY DEF Grouped, Rings
<1>5. rows[i].ring \in P
  BY <1>4
<1>6. g \subseteq P
  <2> HIDE DEF P
  <2> QED
    BY <1>3, <1>5 DEF Grouped
<1>7. PICK k \in DOMAIN rows : R(k) /\ rows[k].ring = rows[j].ring
  <2>1. rows[j].ring \in P
    BY <1>6
  <2> HIDE DEF R
  <2> QED
    BY <2>1
<1>8. Related(rows[k], rows[j])
  BY <1>4, <1>7 DEF Related
<1>9. PartOf(c, rows[k].time) = PartOf(c, rows[j].time)
  BY <1>8 DEF KeepsRelated
<1> QED
  BY <1>7, <1>9

LEMMA AbuseHasRows ==
  ASSUME NEW rows, NEW all, NEW c, HasAbuse(rows, all, c), NEW p \in Parts
  PROVE  \E i \in RowsOf(rows, c, p) : rows[i].scenario \in AbuseScenarios
<1>1. AbuseIn(rows, c, p) # {}
  BY SplitAssumption DEF HasAbuse
<1> QED
  BY <1>1 DEF AbuseIn

(* The splitter tries the boundaries of every sound cut.                   *)
LEMMA SoundIsSafe ==
  ASSUME NEW rows, DataSet(rows), NEW groups, Grouped(rows, groups), NEW all,
         NEW c, HasAbuse(rows, all, c), KeepsRelated(rows, c), c.first < c.second,
         c.first \in {rows[i].time : i \in DOMAIN rows},
         c.second \in {rows[i].time : i \in DOMAIN rows}
  PROVE  SafeCut(rows, groups, c)
<1> DEFINE times == {rows[i].time : i \in DOMAIN rows}
           t == c.first
           u == c.second
<1>1. times \subseteq Nat
  BY DEF DataSet
<1>2. t \in Nat /\ u \in Nat /\ t < u
  BY <1>1
<1>3. PICK i \in DOMAIN rows : PartOf(c, rows[i].time) = 1
  <2>1. 1 \in Parts
    BY DEF Parts
  <2> QED
    BY <2>1, AbuseHasRows DEF RowsOf
<1>4. rows[i].time < t
  BY <1>3 DEF PartOf
<1>5. Min(times) < t /\ Min(times) < u
  <2>1. rows[i].time \in times
    OBVIOUS
  <2>2. Min(times) =< rows[i].time /\ Min(times) \in times
    <3> HIDE DEF times
    <3> QED
      BY <1>1, <2>1, MinOfNaturals
  <2>3. Min(times) \in Nat /\ rows[i].time \in Nat
    BY <1>1, <2>1, <2>2
  <2> QED
    BY <1>2, <1>4, <2>2, <2>3
<1>6. ASSUME NEW g \in groups
      PROVE  /\ ~(Span(rows, g).start < t /\ t =< Span(rows, g).end)
             /\ ~(Span(rows, g).start < u /\ u =< Span(rows, g).end)
  <2>1. /\ Span(rows, g).start \in Nat /\ Span(rows, g).end \in Nat
        /\ Span(rows, g).start \in TimesOf(rows, g) /\ Span(rows, g).end \in TimesOf(rows, g)
    BY SpanOf
  <2>2. PICK k \in DOMAIN rows : rows[k].ring \in g /\ rows[k].time = Span(rows, g).start
    BY <2>1 DEF TimesOf
  <2>3. PICK l \in DOMAIN rows : rows[l].ring \in g /\ rows[l].time = Span(rows, g).end
    BY <2>1 DEF TimesOf
  <2>4. PartOf(c, rows[k].time) = PartOf(c, rows[l].time)
    BY <2>2, <2>3, GroupsAreRelated
  <2>5. PartOf(c, Span(rows, g).start) = PartOf(c, Span(rows, g).end)
    BY <2>2, <2>3, <2>4
  <2> QED
    BY <1>2, <2>1, <2>5 DEF PartOf
<1>7. t \in SafeTimes(rows, groups) /\ u \in SafeTimes(rows, groups)
  <2>1. t \in times \ {Min(times)} /\ u \in times \ {Min(times)}
    <3>1. t # Min(times) /\ u # Min(times)
      BY <1>1, <1>2, <1>5
    <3> QED
      BY <3>1
  <2> QED
    BY <1>6, <2>1 DEF SafeTimes
<1> QED
  BY <1>2, <1>7 DEF SafeCut

(* Of a safe cut, what the splitter asks about groups is what is wanted of *)
(* rows.                                                                   *)
AllowedGroups(rows, groups, all, a, b) ==
  /\ a \subseteq b
  /\ \A part \in {a, b \ a, groups \ b} :
       /\ part # {}
       /\ all => ScenariosIn(rows, part) = AbuseScenarios

LEMMA SafeKeepsRelated ==
  ASSUME NEW rows, DataSet(rows), NEW groups, Grouped(rows, groups),
         NEW c, SafeCut(rows, groups, c)
  PROVE  KeepsRelated(rows, c)
<1> SUFFICES ASSUME NEW i \in DOMAIN rows, NEW j \in DOMAIN rows, Related(rows[i], rows[j])
             PROVE  PartOf(c, rows[i].time) = PartOf(c, rows[j].time)
  BY DEF KeepsRelated
<1>1. PICK g \in groups : rows[i].ring \in g
  BY RowsInGroups DEF Related
<1>2. rows[j].ring \in g
  <2>1. CASE rows[i].ring = rows[j].ring
    BY <1>1, <2>1
  <2>2. CASE rows[i].ring # rows[j].ring
    <3>1. PICK e \in rows[i].entities : e \in rows[j].entities
      BY <2>2 DEF Related
    <3>2. rows[i].ring \in RingsWith(rows, e) /\ rows[j].ring \in RingsWith(rows, e)
      BY <3>1 DEF RingsWith, Related
    <3>3. e \in AllEntities(rows)
      BY <3>1 DEF AllEntities
    <3> QED
      BY <1>1, <3>2, <3>3 DEF Grouped
  <2> QED
    BY <2>1, <2>2
<1>3. /\ PartOf(c, rows[i].time) \in Parts /\ PartOf(c, rows[j].time) \in Parts
      /\ \A p \in Parts : PartOf(c, rows[i].time) = p <=> g \in GroupsOf(rows, groups, c, p)
      /\ \A p \in Parts : PartOf(c, rows[j].time) = p <=> g \in GroupsOf(rows, groups, c, p)
  BY <1>1, <1>2, GroupsStayWhole
<1> QED
  BY <1>3

LEMMA AllowedIsSound ==
  ASSUME NEW rows, DataSet(rows), NEW groups, Grouped(rows, groups), NEW all \in BOOLEAN,
         NEW c, SafeCut(rows, groups, c)
  PROVE  HasAbuse(rows, all, c) <=>
           AllowedGroups(rows, groups, all, EndedBy(rows, groups, c.first),
                         EndedBy(rows, groups, c.second))
<1> DEFINE a == EndedBy(rows, groups, c.first)
           b == EndedBy(rows, groups, c.second)
<1>1. a \subseteq b
  <2>1. c.first \in Nat /\ c.second \in Nat /\ c.first < c.second
    BY SafeTimesAreTimes DEF SafeCut
  <2>2. \A g \in groups : Span(rows, g).end \in Nat
    BY SpanOf
  <2> QED
    BY <2>1, <2>2 DEF EndedBy
<1>2. /\ GroupsOf(rows, groups, c, 1) = a
      /\ GroupsOf(rows, groups, c, 2) = b \ a
      /\ GroupsOf(rows, groups, c, 3) = groups \ b
  BY DEF GroupsOf
<1>3. a \subseteq groups /\ b \subseteq groups
  BY DEF EndedBy
<1> HIDE DEF a, b
<1>4. \A p \in Parts : AbuseIn(rows, c, p) = ScenariosIn(rows, GroupsOf(rows, groups, c, p))
  BY AbuseOfGroups
<1>5. \A S \in {a, b \ a, groups \ b} : ScenariosIn(rows, S) = {} <=> S = {}
  BY <1>3, GroupsHaveScenarios
<1>6. Parts = {1, 2, 3}
  BY DEF Parts
<1>7. HasAbuse(rows, all, c) <=>
        \A S \in {a, b \ a, groups \ b} :
          IF all THEN ScenariosIn(rows, S) = AbuseScenarios ELSE ScenariosIn(rows, S) # {}
  BY <1>2, <1>4, <1>6 DEF HasAbuse
<1>8. AbuseScenarios # {}
  BY SplitAssumption
<1> QED
  BY <1>1, <1>5, <1>7, <1>8 DEF AllowedGroups, a, b

-----------------------------------------------------------------------------
(* The choice.                                                             *)

LEMMA RoundedNatural ==
  ASSUME NEW n \in Nat, NEW percent \in Nat
  PROVE  RoundedShare(n, percent) \in Nat
<1> DEFINE m == n * percent
<1>1. m \in Nat
  OBVIOUS
<1> HIDE DEF m
<1>2. m \div 100 \in Nat
  BY <1>1
<1> QED
  BY <1>2 DEF RoundedShare, m

LEMMA DistanceNatural ==
  ASSUME NEW rows, DataSet(rows), NEW t, NEW k \in {1, 2}
  PROVE  Distance(rows, t, Targets(rows)[k]) \in Nat
<1>1. Targets(rows)[k] \in Nat
  <2>1. Len(rows) \in Nat /\ TrainShare \in Nat /\ TrainShare + ValidationShare \in Nat
    BY RowsFinite, SplitAssumption
  <2>2. /\ RoundedShare(Len(rows), TrainShare) \in Nat
        /\ RoundedShare(Len(rows), TrainShare + ValidationShare) \in Nat
    BY <2>1, RoundedNatural
  <2>3. /\ Targets(rows)[1] = RoundedShare(Len(rows), TrainShare)
        /\ Targets(rows)[2] = RoundedShare(Len(rows), TrainShare + ValidationShare)
    BY DEF Targets
  <2> QED
    BY <2>2, <2>3
<1>2. Before(rows, t) \in Nat
  <2>1. {i \in DOMAIN rows : rows[i].time < t} \subseteq DOMAIN rows
    OBVIOUS
  <2>2. IsFiniteSet({i \in DOMAIN rows : rows[i].time < t})
    BY <2>1, RowsFinite, FS_Subset
  <2> QED
    BY <2>2, FS_CardinalityType DEF Before
<1> QED
  BY <1>1, <1>2 DEF Distance

LEMMA NearestIsNearest ==
  ASSUME NEW rows, DataSet(rows), NEW k \in {1, 2}, NEW T \in SUBSET Nat, T # {}
  PROVE  LET target == Targets(rows)[k]
             n == Nearest(rows, T, target)
         IN  /\ n \in T
             /\ \A u \in T : \/ Distance(rows, n, target) < Distance(rows, u, target)
                             \/ Distance(rows, n, target) = Distance(rows, u, target) /\ n =< u
<1> DEFINE target == Targets(rows)[k]
           d == [t \in T |-> Distance(rows, t, target)]
           D == {d[t] : t \in T}
<1>1. \A t \in T : d[t] = Distance(rows, t, target) /\ d[t] \in Nat
  BY DistanceNatural
<1> HIDE DEF d
<1>2. PICK t0 \in T : \A t \in T : d[t0] =< d[t]
  <2>1. D \in SUBSET Nat /\ D # {}
    BY <1>1
  <2>2. PICK x \in D : \A y \in D : x =< y
    <3> HIDE DEF D
    <3> QED
      BY <2>1, LeastOfNaturals
  <2> QED
    BY <2>2
<1> DEFINE E == {t \in T : d[t] = d[t0]}
<1>3. PICK n \in E : \A y \in E : n =< y
  <2>1. E \in SUBSET Nat /\ E # {}
    OBVIOUS
  <2> HIDE DEF E
  <2> QED
    BY <2>1, LeastOfNaturals
<1>4. \A u \in T : d[n] < d[u] \/ (d[n] = d[u] /\ n =< u)
  <2> SUFFICES ASSUME NEW u \in T PROVE d[n] < d[u] \/ (d[n] = d[u] /\ n =< u)
    OBVIOUS
  <2>1. d[n] = d[t0] /\ d[t0] =< d[u] /\ d[n] \in Nat /\ d[u] \in Nat
    BY <1>1, <1>2
  <2>2. CASE d[n] = d[u]
    BY <1>3, <2>1, <2>2
  <2>3. CASE d[n] # d[u]
    BY <2>1, <2>3
  <2> QED
    BY <2>2, <2>3
<1>5. n \in T /\ \A u \in T : \/ Distance(rows, n, target) < Distance(rows, u, target)
                              \/ Distance(rows, n, target) = Distance(rows, u, target) /\ n =< u
  BY <1>1, <1>4
<1> DEFINE Q(x) == \A u \in T : \/ Distance(rows, x, target) < Distance(rows, u, target)
                                \/ Distance(rows, x, target) = Distance(rows, u, target) /\ x =< u
<1>6. Nearest(rows, T, target) = CHOOSE x \in T : Q(x)
  BY DEF Nearest
<1>7. \E x \in T : Q(x)
  BY <1>5
<1>8. Nearest(rows, T, target) \in T /\ Q(Nearest(rows, T, target))
  <2> HIDE DEF Q
  <2> QED
    BY <1>6, <1>7
<1> QED
  BY <1>8

States(rows, groups) == {EndedBy(rows, groups, t) : t \in SafeTimes(rows, groups)}

ChosenTime(rows, groups, state, k) ==
  Nearest(rows, {t \in SafeTimes(rows, groups) : EndedBy(rows, groups, t) = state},
          Targets(rows)[k])

(* The time that stands for a state is as near as any.                     *)
LEMMA ChosenIsNearest ==
  ASSUME NEW rows, DataSet(rows), NEW groups, NEW k \in {1, 2}, NEW t \in SafeTimes(rows, groups)
  PROVE  LET target == Targets(rows)[k]
             n == ChosenTime(rows, groups, EndedBy(rows, groups, t), k)
         IN  /\ n \in SafeTimes(rows, groups)
             /\ EndedBy(rows, groups, n) = EndedBy(rows, groups, t)
             /\ \/ Distance(rows, n, target) < Distance(rows, t, target)
                \/ Distance(rows, n, target) = Distance(rows, t, target) /\ n =< t
<1> DEFINE state == EndedBy(rows, groups, t)
           T == {u \in SafeTimes(rows, groups) : EndedBy(rows, groups, u) = state}
<1>1. T \in SUBSET Nat
  BY SafeTimesAreTimes
<1>2. t \in T
  OBVIOUS
<1>3. \A u \in T : u \in SafeTimes(rows, groups) /\ EndedBy(rows, groups, u) = state
  OBVIOUS
<1>4. ChosenTime(rows, groups, state, k) = Nearest(rows, T, Targets(rows)[k])
  BY DEF ChosenTime
<1> HIDE DEF T
<1>5. /\ Nearest(rows, T, Targets(rows)[k]) \in T
      /\ LET n == Nearest(rows, T, Targets(rows)[k]) IN
         \/ Distance(rows, n, Targets(rows)[k]) < Distance(rows, t, Targets(rows)[k])
         \/ Distance(rows, n, Targets(rows)[k]) = Distance(rows, t, Targets(rows)[k]) /\ n =< t
  BY <1>1, <1>2, NearestIsNearest
<1> QED
  BY <1>3, <1>4, <1>5

CutChoices(rows, groups, all) == Boundaries(rows, groups, all, Targets(rows))

LEMMA ChoicesAre ==
  ASSUME NEW rows, NEW groups, NEW all, NEW c
  PROVE  c \in CutChoices(rows, groups, all) <=>
           \E a, b \in States(rows, groups) :
             LET t == ChosenTime(rows, groups, a, 1)
                 u == ChosenTime(rows, groups, b, 2)
             IN  AllowedGroups(rows, groups, all, a, b) /\ t < u /\ c = CutAt(rows, t, u)
<1> DEFINE Q == {q \in States(rows, groups) \X States(rows, groups) :
                   /\ AllowedGroups(rows, groups, all, q[1], q[2])
                   /\ ChosenTime(rows, groups, q[1], 1) < ChosenTime(rows, groups, q[2], 2)}
           x(p) == CutAt(rows, ChosenTime(rows, groups, p[1], 1), ChosenTime(rows, groups, p[2], 2))
<1>1. CutChoices(rows, groups, all) = {x(p) : p \in Q}
  BY DEF CutChoices, Boundaries, CutAt, States, ChosenTime, AllowedGroups
<1>2. \A a, b \in States(rows, groups) : <<a, b>>[1] = a /\ <<a, b>>[2] = b
  OBVIOUS
<1>3. ASSUME NEW a \in States(rows, groups), NEW b \in States(rows, groups),
             AllowedGroups(rows, groups, all, a, b),
             ChosenTime(rows, groups, a, 1) < ChosenTime(rows, groups, b, 2),
             c = CutAt(rows, ChosenTime(rows, groups, a, 1), ChosenTime(rows, groups, b, 2))
      PROVE  c \in {x(p) : p \in Q}
  <2>1. <<a, b>> \in Q
    BY <1>3
  <2>2. c = x(<<a, b>>)
    BY <1>3
  <2> HIDE DEF Q, x
  <2> QED
    BY <2>1, <2>2
<1>4. ASSUME NEW p \in Q, c = x(p)
      PROVE  \E a, b \in States(rows, groups) :
               /\ AllowedGroups(rows, groups, all, a, b)
               /\ ChosenTime(rows, groups, a, 1) < ChosenTime(rows, groups, b, 2)
               /\ c = CutAt(rows, ChosenTime(rows, groups, a, 1), ChosenTime(rows, groups, b, 2))
  <2>1. p[1] \in States(rows, groups) /\ p[2] \in States(rows, groups)
    OBVIOUS
  <2> QED
    BY <1>4, <2>1
<1> QED
  BY <1>1, <1>3, <1>4

LEMMA ChoicesAreSound ==
  ASSUME NEW rows, DataSet(rows), NEW groups, Grouped(rows, groups), NEW all \in BOOLEAN,
         NEW c \in CutChoices(rows, groups, all)
  PROVE  c \in SoundCuts(rows, all) /\ SafeCut(rows, groups, c)
<1>1. PICK a, b \in States(rows, groups) :
        /\ AllowedGroups(rows, groups, all, a, b)
        /\ ChosenTime(rows, groups, a, 1) < ChosenTime(rows, groups, b, 2)
        /\ c = CutAt(rows, ChosenTime(rows, groups, a, 1), ChosenTime(rows, groups, b, 2))
  BY ChoicesAre
<1>2. PICK t \in SafeTimes(rows, groups) : a = EndedBy(rows, groups, t)
  BY DEF States
<1>3. PICK u \in SafeTimes(rows, groups) : b = EndedBy(rows, groups, u)
  BY DEF States
<1>4. c.first = ChosenTime(rows, groups, a, 1) /\ c.second = ChosenTime(rows, groups, b, 2)
  BY <1>1 DEF CutAt
<1>5. c.first \in SafeTimes(rows, groups) /\ EndedBy(rows, groups, c.first) = a
  BY <1>2, <1>4, ChosenIsNearest
<1>6. c.second \in SafeTimes(rows, groups) /\ EndedBy(rows, groups, c.second) = b
  BY <1>3, <1>4, ChosenIsNearest
<1>7. SafeCut(rows, groups, c)
  BY <1>1, <1>4, <1>5, <1>6 DEF SafeCut
<1>8. HasAbuse(rows, all, c) /\ KeepsRelated(rows, c)
  BY <1>1, <1>5, <1>6, <1>7, AllowedIsSound, SafeKeepsRelated
<1>9. \E x, y \in {rows[i].time : i \in DOMAIN rows} : x < y /\ c = CutAt(rows, x, y)
  BY <1>1, <1>4, <1>5, <1>6, SafeTimesAreTimes
<1> QED
  BY <1>7, <1>8, <1>9, SoundCutsAre

(* The choice made for the states of a sound cut is no worse.              *)
LEMMA ChoicesSuffice ==
  ASSUME NEW rows, DataSet(rows), NEW groups, Grouped(rows, groups), NEW all \in BOOLEAN,
         NEW c \in SoundCuts(rows, all)
  PROVE  SafeCut(rows, groups, c) /\ \E b \in CutChoices(rows, groups, all) : Precedes(b, c)
<1>1. /\ HasAbuse(rows, all, c) /\ KeepsRelated(rows, c)
      /\ \E t, u \in {rows[i].time : i \in DOMAIN rows} : t < u /\ c = CutAt(rows, t, u)
  BY SoundCutsAre
<1>2. PICK t, u \in {rows[i].time : i \in DOMAIN rows} : t < u /\ c = CutAt(rows, t, u)
  BY <1>1
<1>3. c.first = t /\ c.second = u
  BY <1>2 DEF CutAt
<1>4. SafeCut(rows, groups, c)
  BY <1>1, <1>2, <1>3, SoundIsSafe
<1>5. t \in SafeTimes(rows, groups) /\ u \in SafeTimes(rows, groups)
  BY <1>3, <1>4 DEF SafeCut
<1> DEFINE a == EndedBy(rows, groups, t)
           b == EndedBy(rows, groups, u)
           t2 == ChosenTime(rows, groups, a, 1)
           u2 == ChosenTime(rows, groups, b, 2)
           x == CutAt(rows, t2, u2)
<1>6. AllowedGroups(rows, groups, all, a, b)
  BY <1>1, <1>3, <1>4, AllowedIsSound
<1>7. a \in States(rows, groups) /\ b \in States(rows, groups)
  BY <1>5 DEF States
<1>8. /\ t2 \in SafeTimes(rows, groups) /\ EndedBy(rows, groups, t2) = a
      /\ \/ Distance(rows, t2, Targets(rows)[1]) < Distance(rows, t, Targets(rows)[1])
         \/ Distance(rows, t2, Targets(rows)[1]) = Distance(rows, t, Targets(rows)[1]) /\ t2 =< t
  BY <1>5, ChosenIsNearest
<1>9. /\ u2 \in SafeTimes(rows, groups) /\ EndedBy(rows, groups, u2) = b
      /\ \/ Distance(rows, u2, Targets(rows)[2]) < Distance(rows, u, Targets(rows)[2])
         \/ Distance(rows, u2, Targets(rows)[2]) = Distance(rows, u, Targets(rows)[2]) /\ u2 =< u
  BY <1>5, ChosenIsNearest
<1>10. t2 \in Nat /\ u2 \in Nat /\ t \in Nat /\ u \in Nat
  BY <1>5, <1>8, <1>9, SafeTimesAreTimes
<1>11. t2 < u2
  <2>1. PICK g \in groups : g \in b /\ g \notin a
    <3>1. b \ a # {}
      BY <1>6 DEF AllowedGroups
    <3> QED
      BY <3>1 DEF EndedBy
  <2>2. Span(rows, g).end < u2
    BY <1>9, <2>1 DEF EndedBy
  <2>3. ~(Span(rows, g).end < t2)
    BY <1>8, <2>1 DEF EndedBy
  <2>4. Span(rows, g).end \in Nat
    BY SpanOf
  <2> QED
    BY <1>10, <2>2, <2>3, <2>4
<1>12. x \in CutChoices(rows, groups, all)
  BY <1>6, <1>7, <1>11, ChoicesAre
<1>13. Precedes(x, c)
  <2>1. /\ Distance(rows, t2, Targets(rows)[1]) \in Nat /\ Distance(rows, t, Targets(rows)[1]) \in Nat
        /\ Distance(rows, u2, Targets(rows)[2]) \in Nat /\ Distance(rows, u, Targets(rows)[2]) \in Nat
    BY DistanceNatural
  <2>2. /\ x.deviation = Distance(rows, t2, Targets(rows)[1]) + Distance(rows, u2, Targets(rows)[2])
        /\ x.first = t2 /\ x.second = u2
    BY DEF CutAt
  <2>3. c.deviation = Distance(rows, t, Targets(rows)[1]) + Distance(rows, u, Targets(rows)[2])
    BY <1>2 DEF CutAt
  <2> HIDE DEF x, t2, u2, a, b
  <2> QED
    BY <1>3, <1>8, <1>9, <1>10, <2>1, <2>2, <2>3 DEF Precedes
<1> QED
  BY <1>4, <1>12, <1>13

-----------------------------------------------------------------------------
(* The best.                                                               *)

LEMMA CutsTyped ==
  ASSUME NEW rows, DataSet(rows), NEW all, NEW c \in SoundCuts(rows, all)
  PROVE  /\ c \in [deviation : Nat, first : Nat, second : Nat]
         /\ c.first < c.second
<1>1. PICK t, u \in {rows[i].time : i \in DOMAIN rows} : t < u /\ c = CutAt(rows, t, u)
  BY SoundCutsAre
<1>2. t \in Nat /\ u \in Nat
  BY DEF DataSet
<1>3. Distance(rows, t, Targets(rows)[1]) \in Nat /\ Distance(rows, u, Targets(rows)[2]) \in Nat
  BY DistanceNatural
<1> QED
  BY <1>1, <1>2, <1>3 DEF CutAt

LEMMA FirstCut ==
  ASSUME NEW C, C # {}, C \subseteq [deviation : Nat, first : Nat, second : Nat]
  PROVE  \E b \in C : \A c \in C : Precedes(b, c)
<1> DEFINE A1 == {c.deviation : c \in C}
<1>1. PICK x \in A1 : \A y \in A1 : x =< y
  <2>1. A1 \in SUBSET Nat /\ A1 # {}
    OBVIOUS
  <2> HIDE DEF A1
  <2> QED
    BY <2>1, LeastOfNaturals
<1> DEFINE C2 == {c \in C : c.deviation = x}
           A2 == {c.first : c \in C2}
<1>2. PICK y \in A2 : \A z \in A2 : y =< z
  <2>1. A2 \in SUBSET Nat /\ A2 # {}
    OBVIOUS
  <2> HIDE DEF A2
  <2> QED
    BY <2>1, LeastOfNaturals
<1> DEFINE C3 == {c \in C2 : c.first = y}
           A3 == {c.second : c \in C3}
<1>3. PICK z \in A3 : \A w \in A3 : z =< w
  <2>1. A3 \in SUBSET Nat /\ A3 # {}
    OBVIOUS
  <2> HIDE DEF A3
  <2> QED
    BY <2>1, LeastOfNaturals
<1>4. PICK b \in C : b.deviation = x /\ b.first = y /\ b.second = z
  BY <1>3
<1>5. ASSUME NEW c \in C PROVE Precedes(b, c)
  <2>0. /\ b.deviation \in Nat /\ b.first \in Nat /\ b.second \in Nat
        /\ c.deviation \in Nat /\ c.first \in Nat /\ c.second \in Nat
    OBVIOUS
  <2>1. x =< c.deviation
    BY <1>1
  <2>2. c.deviation = x => y =< c.first
    BY <1>2
  <2>3. c.deviation = x /\ c.first = y => z =< c.second
    BY <1>3
  <2> QED
    BY <1>4, <2>0, <2>1, <2>2, <2>3 DEF Precedes
<1> QED
  BY <1>5

LEMMA PrecedesTransitive ==
  ASSUME NEW a \in [deviation : Nat, first : Nat, second : Nat],
         NEW b \in [deviation : Nat, first : Nat, second : Nat],
         NEW c \in [deviation : Nat, first : Nat, second : Nat],
         Precedes(a, b), Precedes(b, c)
  PROVE  Precedes(a, c)
BY DEF Precedes

LEMMA PrecedesBothWays ==
  ASSUME NEW a \in [deviation : Nat, first : Nat, second : Nat],
         NEW b \in [deviation : Nat, first : Nat, second : Nat],
         Precedes(a, b), Precedes(b, a)
  PROVE  a = b
<1>1. a.deviation = b.deviation /\ a.first = b.first /\ a.second = b.second
  BY DEF Precedes
<1> QED
  BY <1>1

OneClass(rows, c) == \E part \in Parts : \A i \in RowsOf(rows, c, part) : IsAbuse(rows[i])

(* validate_split finds nothing else against a sound cut.                  *)
LEMMA ValidIsTwoClasses ==
  ASSUME NEW rows, DataSet(rows), NEW groups, Grouped(rows, groups), NEW all \in BOOLEAN,
         NEW c \in SoundCuts(rows, all), SafeCut(rows, groups, c)
  PROVE  ValidSplit(rows, c, groups, all) <=> ~OneClass(rows, c)
<1> DEFINE RingsIn(part) == {rows[i].ring : i \in RowsOf(rows, c, part)} \ {NoRing}
           GroupsIn(part) == {g \in groups : g \cap RingsIn(part) # {}}
<1>0. HasAbuse(rows, all, c) /\ KeepsRelated(rows, c)
  BY SoundCutsAre
<1>1. ASSUME NEW p \in Parts
      PROVE  /\ {IsAbuse(rows[i]) : i \in RowsOf(rows, c, p)} = BOOLEAN
                  <=> \E i \in RowsOf(rows, c, p) : ~IsAbuse(rows[i])
             /\ all => AbuseScenarios \subseteq {rows[i].scenario : i \in RowsOf(rows, c, p)}
  <2>1. PICK i \in RowsOf(rows, c, p) : rows[i].scenario \in AbuseScenarios
    BY <1>0, AbuseHasRows
  <2>2. IsAbuse(rows[i]) = TRUE
    BY <2>1, SplitAssumption DEF IsAbuse
  <2>3. \A j \in RowsOf(rows, c, p) : IsAbuse(rows[j]) \in BOOLEAN
    BY DEF IsAbuse
  <2>4. TRUE \in {IsAbuse(rows[j]) : j \in RowsOf(rows, c, p)}
    BY <2>2
  <2>5. FALSE \in {IsAbuse(rows[j]) : j \in RowsOf(rows, c, p)}
          <=> \E j \in RowsOf(rows, c, p) : ~IsAbuse(rows[j])
    BY <2>3
  <2>6. {IsAbuse(rows[j]) : j \in RowsOf(rows, c, p)} \subseteq BOOLEAN
    BY <2>3
  <2>7. all => AbuseIn(rows, c, p) = AbuseScenarios
    BY <1>0 DEF HasAbuse
  <2> QED
    BY <2>4, <2>5, <2>6, <2>7 DEF AbuseIn
<1>2. ASSUME NEW p \in Parts, NEW q \in Parts, p # q
      PROVE  RingsIn(p) \cap RingsIn(q) = {} /\ GroupsIn(p) \cap GroupsIn(q) = {}
  <2>1. ASSUME NEW g \in GroupsIn(p), g \in GroupsIn(q) PROVE FALSE
    <3>1. PICK i \in RowsOf(rows, c, p) : rows[i].ring \in g
      OBVIOUS
    <3>2. PICK j \in RowsOf(rows, c, q) : rows[j].ring \in g
      BY <2>1
    <3>3. g \in groups /\ i \in DOMAIN rows /\ j \in DOMAIN rows
      BY DEF RowsOf
    <3>4. PartOf(c, rows[i].time) = p /\ PartOf(c, rows[j].time) = q
      BY DEF RowsOf
    <3> HIDE DEF GroupsIn
    <3>5. g \in GroupsOf(rows, groups, c, p)
      BY <3>1, <3>3, <3>4, GroupsStayWhole
    <3>6. PartOf(c, rows[j].time) = p
      BY <3>2, <3>3, <3>5, GroupsStayWhole
    <3> QED
      BY <1>2, <3>4, <3>6
  <2>2. ASSUME NEW r \in RingsIn(p), r \in RingsIn(q) PROVE FALSE
    <3>1. PICK i \in RowsOf(rows, c, p) : rows[i].ring = r
      OBVIOUS
    <3>2. i \in DOMAIN rows /\ r # NoRing
      BY DEF RowsOf
    <3>3. PICK g \in groups : r \in g
      BY <3>1, <3>2, RowsInGroups
    <3>4. g \in GroupsIn(p) /\ g \in GroupsIn(q)
      BY <2>2, <3>3
    <3> HIDE DEF GroupsIn
    <3> QED
      BY <2>1, <3>4
  <2> HIDE DEF RingsIn, GroupsIn
  <2> QED
    BY <2>1, <2>2
<1>3. ValidSplit(rows, c, groups, all) <=>
        /\ \A part \in Parts :
             /\ {IsAbuse(rows[i]) : i \in RowsOf(rows, c, part)} = BOOLEAN
             /\ all => AbuseScenarios \subseteq {rows[i].scenario : i \in RowsOf(rows, c, part)}
        /\ \A p, q \in Parts : p # q =>
             RingsIn(p) \cap RingsIn(q) = {} /\ GroupsIn(p) \cap GroupsIn(q) = {}
  BY DEF ValidSplit
<1> HIDE DEF RingsIn, GroupsIn
<1> QED
  BY <1>1, <1>2, <1>3 DEF OneClass

(* The splitter is right.                                                  *)
LEMMA SplitSelectsBest ==
  ASSUME NEW rows, DataSet(rows), NEW all \in BOOLEAN
  PROVE  SplitIsBest(rows, all, Split(rows, all))
<1> DEFINE groups == Supergroups(rows)
           choices == CutChoices(rows, groups, all)
           best == CHOOSE b \in choices : \A c \in choices : Precedes(b, c)
           sound == SoundCuts(rows, all)
           Best(c) == c \in sound /\ \A d \in sound : Precedes(c, d)
           Typed == [deviation : Nat, first : Nat, second : Nat]
<1>1. Split(rows, all) = IF choices = {} THEN NoCut
                         ELSE IF ValidSplit(rows, best, groups, all) THEN best ELSE NoCut
  BY DEF Split, CutChoices
<1>2. SplitIsBest(rows, all, Split(rows, all)) <=>
        IF Split(rows, all) = NoCut THEN \A c \in sound : Best(c) => OneClass(rows, c)
        ELSE Best(Split(rows, all)) /\ ~OneClass(rows, Split(rows, all))
  BY DEF SplitIsBest, OneClass
<1>3. Grouped(rows, groups)
  BY SupergroupsGrouped
<1>4. choices \subseteq sound /\ \A c \in choices : SafeCut(rows, groups, c)
  <2> HIDE DEF groups
  <2> QED
    BY <1>3, ChoicesAreSound
<1>5. \A c \in sound : \E b \in choices : Precedes(b, c)
  <2> HIDE DEF groups
  <2> QED
    BY <1>3, ChoicesSuffice
<1>6. sound \subseteq Typed
  BY CutsTyped
<1>7. CASE choices = {}
  <2>1. sound = {}
    BY <1>5, <1>7
  <2>2. Split(rows, all) = NoCut
    BY <1>1, <1>7
  <2> QED
    BY <1>2, <2>1, <2>2
<1>8. CASE choices # {}
  <2>1. best \in choices /\ \A c \in choices : Precedes(best, c)
    <3>1. \E b \in choices : \A c \in choices : Precedes(b, c)
      <4>1. choices \subseteq Typed
        BY <1>4, <1>6
      <4> HIDE DEF choices
      <4> QED
        BY <1>8, <4>1, FirstCut
    <3> HIDE DEF choices
    <3> QED
      BY <3>1
  <2> HIDE DEF best, choices, groups, sound
  <2>2. best \in sound
    BY <1>4, <2>1
  <2>3. ASSUME NEW d \in sound PROVE Precedes(best, d)
    <3>1. PICK b \in choices : Precedes(b, d)
      BY <1>5
    <3>2. Precedes(best, b)
      BY <2>1
    <3>3. best \in Typed /\ b \in Typed /\ d \in Typed
      BY <1>4, <1>6, <2>2
    <3> QED
      BY <3>1, <3>2, <3>3, PrecedesTransitive
  <2>4. Best(best)
    BY <2>2, <2>3
  <2>5. ValidSplit(rows, best, groups, all) <=> ~OneClass(rows, best)
    <3>1. best \in SoundCuts(rows, all) /\ SafeCut(rows, groups, best)
      BY <1>4, <2>1, <2>2 DEF sound
    <3> QED
      BY <1>3, <3>1, ValidIsTwoClasses
  <2>6. best # NoCut
    <3>1. best \in Typed
      BY <1>6, <2>2
    <3> QED
      BY <3>1, SplitAssumption
  <2>7. ASSUME NEW c \in sound, Best(c) PROVE c = best
    <3>1. Precedes(c, best) /\ Precedes(best, c)
      BY <2>2, <2>3, <2>7
    <3>2. c \in Typed /\ best \in Typed
      BY <1>6, <2>2
    <3> QED
      BY <3>1, <3>2, PrecedesBothWays
  <2>8. Split(rows, all) = IF ~OneClass(rows, best) THEN best ELSE NoCut
    BY <1>1, <1>8, <2>5
  <2>9. CASE OneClass(rows, best)
    <3>1. Split(rows, all) = NoCut
      BY <2>8, <2>9
    <3>2. \A c \in sound : Best(c) => OneClass(rows, c)
      BY <2>7, <2>9
    <3> QED
      BY <1>2, <3>1, <3>2
  <2>10. CASE ~OneClass(rows, best)
    <3>1. Split(rows, all) = best
      BY <2>8, <2>10
    <3> QED
      BY <1>2, <2>4, <2>6, <2>10, <3>1
  <2> QED
    BY <2>9, <2>10
<1> QED
  BY <1>7, <1>8

-----------------------------------------------------------------------------
(* The threshold.                                                          *)

Flagged(rows, S, abuse, threshold) ==
  {i \in S : IsAbuse(rows[i]) = abuse /\ (rows[i].score >= threshold) = TRUE}
Missed(rows, S, abuse, threshold) ==
  {i \in S : IsAbuse(rows[i]) = abuse /\ (rows[i].score >= threshold) = FALSE}

(* Validation rows: finitely many, scored, some of them abusive.           *)
Judgeable(rows, S) ==
  /\ IsFiniteSet(S) /\ \A i \in S : rows[i].score \in Nat
  /\ \E i \in S : IsAbuse(rows[i])

AbuseOf(rows, S) == {i \in S : IsAbuse(rows[i])}

LEMMA CountsTyped ==
  ASSUME NEW rows, NEW S, Judgeable(rows, S), NEW t \in Int
  PROVE  /\ Counts(rows, S, t) \in [tp : Nat, fp : Nat, fn : Nat, tn : Nat]
         /\ Counts(rows, S, t).tp + Counts(rows, S, t).fn = Cardinality(AbuseOf(rows, S))
         /\ Cardinality(AbuseOf(rows, S)) \in Nat \ {0}
         /\ (\A i \in S : rows[i].score >= t) => Counts(rows, S, t).fn = 0
         /\ (\A i \in S : rows[i].score < t) => Counts(rows, S, t).tp = 0
<1> DEFINE A == AbuseOf(rows, S)
           F1 == Flagged(rows, S, TRUE, t)
           F0 == Flagged(rows, S, FALSE, t)
           M1 == Missed(rows, S, TRUE, t)
           M0 == Missed(rows, S, FALSE, t)
<1>1. Counts(rows, S, t) = [tp |-> Cardinality(F1), fp |-> Cardinality(F0),
                            fn |-> Cardinality(M1), tn |-> Cardinality(M0)]
  BY DEF Counts, Flagged, Missed
<1>2. IsFiniteSet(S)
  BY DEF Judgeable
<1>3. /\ F1 \subseteq S /\ M1 \subseteq S
      /\ F0 \subseteq S /\ M0 \subseteq S
  BY DEF Flagged, Missed
<1>4. A \subseteq S
  BY DEF AbuseOf
<1>5. A = F1 \cup M1 /\ F1 \cap M1 = {}
  <2>1. \A i \in S : IsAbuse(rows[i]) \in BOOLEAN
    BY DEF IsAbuse
  <2> QED
    BY <2>1 DEF AbuseOf, Flagged, Missed
<1>6. A # {}
  BY DEF Judgeable, AbuseOf
<1>7. (\A i \in S : rows[i].score >= t) => M1 = {}
  BY DEF Missed
<1>8. (\A i \in S : rows[i].score < t) => F1 = {}
  BY DEF Flagged, Judgeable
<1> HIDE DEF A, F1, F0, M1, M0
<1>9. /\ IsFiniteSet(F1) /\ IsFiniteSet(M1)
      /\ IsFiniteSet(F0) /\ IsFiniteSet(M0)
      /\ IsFiniteSet(A)
  BY <1>2, <1>3, <1>4, FS_Subset
<1>10. /\ Cardinality(F1) \in Nat /\ Cardinality(M1) \in Nat
       /\ Cardinality(F0) \in Nat /\ Cardinality(M0) \in Nat
       /\ Cardinality(A) \in Nat
  BY <1>9, FS_CardinalityType
<1>11. Cardinality(A) = Cardinality(F1) + Cardinality(M1)
  <2>1. Cardinality(F1 \cup M1)
          = Cardinality(F1) + Cardinality(M1) - Cardinality(F1 \cap M1)
    BY <1>9, FS_Union
  <2>2. Cardinality(F1 \cap M1) = 0
    BY <1>5, FS_EmptySet
  <2> QED
    BY <1>5, <1>10, <2>1, <2>2
<1>12. Cardinality(A) # 0
  BY <1>6, <1>9, FS_EmptySet
<1>13. Cardinality({}) = 0
  BY FS_EmptySet
<1>14. Counts(rows, S, t) \in [tp : Nat, fp : Nat, fn : Nat, tn : Nat]
  BY <1>1, <1>10
<1>15. Counts(rows, S, t).tp = Cardinality(F1) /\ Counts(rows, S, t).fn = Cardinality(M1)
  BY <1>1
<1>16. Counts(rows, S, t).tp + Counts(rows, S, t).fn = Cardinality(A)
  BY <1>11, <1>15
<1> QED
  BY <1>7, <1>8, <1>10, <1>12, <1>13, <1>14, <1>15, <1>16 DEF A

(* Fractions with positive denominators, compared crosswise.               *)
LEMMA CrosswiseTransitive ==
  ASSUME NEW a \in Nat, NEW b \in Nat, NEW c \in Nat,
         NEW p \in Nat \ {0}, NEW q \in Nat \ {0}, NEW r \in Nat \ {0},
         a * q >= b * p, b * r >= c * q
  PROVE  a * r >= c * p
<1>1. (a * q) * r >= (b * p) * r
  OBVIOUS
<1>2. (b * r) * p >= (c * q) * p
  OBVIOUS
<1>3. (a * r) * q >= (c * p) * q
  <2>1. (a * q) * r = (a * r) * q /\ (b * p) * r = (b * r) * p /\ (c * q) * p = (c * p) * q
    OBVIOUS
  <2>2. /\ (a * q) * r \in Nat /\ (b * p) * r \in Nat /\ (c * q) * p \in Nat
        /\ (a * r) * q \in Nat /\ (b * r) * p \in Nat /\ (c * p) * q \in Nat
    OBVIOUS
  <2> QED
    BY <1>1, <1>2, <2>1, <2>2
<1>4. a * r \in Nat /\ c * p \in Nat
  OBVIOUS
<1> DEFINE x == a * r
           y == c * p
<1>5. x \in Nat /\ y \in Nat /\ x * q >= y * q
  BY <1>3, <1>4
<1> HIDE DEF x, y
<1>6. x >= y
  <2> SUFFICES ASSUME x < y PROVE FALSE
    BY <1>5
  <2>1. x + 1 =< y
    BY <1>5
  <2>2. (x + 1) * q =< y * q
    BY <1>5, <2>1
  <2>3. (x + 1) * q = x * q + q
    BY <1>5
  <2>4. x * q \in Nat /\ y * q \in Nat
    BY <1>5
  <2> QED
    BY <1>5, <2>2, <2>3, <2>4
<1> QED
  BY <1>6 DEF x, y

F1Numerator(c) == 2 * c.tp
F1Denominator(c) == 2 * c.tp + c.fp + c.fn
Countable(c) ==
  /\ c \in [tp : Nat, fp : Nat, fn : Nat, tn : Nat] /\ c.tp + c.fn # 0

LEMMA F1IsFraction ==
  ASSUME NEW c, Countable(c)
  PROVE  F1Numerator(c) \in Nat /\ F1Denominator(c) \in Nat \ {0}
BY DEF Countable, F1Numerator, F1Denominator

LEMMA F1Compared ==
  ASSUME NEW c, NEW d
  PROVE  AtLeastF1(c, d) <=> F1Numerator(c) * F1Denominator(d) >= F1Numerator(d) * F1Denominator(c)
BY DEF AtLeastF1, F1Numerator, F1Denominator

LEMMA F1Transitive ==
  ASSUME NEW c, NEW d, NEW e, Countable(c), Countable(d), Countable(e),
         AtLeastF1(c, d), AtLeastF1(d, e)
  PROVE  AtLeastF1(c, e)
<1>1. /\ F1Numerator(c) \in Nat /\ F1Denominator(c) \in Nat \ {0}
      /\ F1Numerator(d) \in Nat /\ F1Denominator(d) \in Nat \ {0}
      /\ F1Numerator(e) \in Nat /\ F1Denominator(e) \in Nat \ {0}
  BY F1IsFraction
<1>2. /\ F1Numerator(c) * F1Denominator(d) >= F1Numerator(d) * F1Denominator(c)
      /\ F1Numerator(d) * F1Denominator(e) >= F1Numerator(e) * F1Denominator(d)
  BY F1Compared
<1>3. F1Numerator(c) * F1Denominator(e) >= F1Numerator(e) * F1Denominator(c)
  BY <1>1, <1>2, CrosswiseTransitive
<1> QED
  BY <1>3, F1Compared

LEMMA F1Total ==
  ASSUME NEW c, NEW d, Countable(c), Countable(d)
  PROVE  AtLeastF1(c, d) \/ AtLeastF1(d, c)
<1>1. /\ F1Numerator(c) * F1Denominator(d) \in Nat
      /\ F1Numerator(d) * F1Denominator(c) \in Nat
  BY F1IsFraction
<1> QED
  BY <1>1, F1Compared

-----------------------------------------------------------------------------
(* A threshold flags what the next score above it flags.                   *)
LEMMA NextScoreFlagsTheSame ==
  ASSUME NEW rows, NEW S, Judgeable(rows, S), NEW t \in Int, NEW s \in Int, t =< s,
         \A i \in S : rows[i].score >= t => rows[i].score >= s
  PROVE  Counts(rows, S, t) = Counts(rows, S, s)
<1>1. \A i \in S : (rows[i].score >= t) <=> (rows[i].score >= s)
  BY DEF Judgeable
<1>2. \A i \in S : (rows[i].score >= t) = (rows[i].score >= s)
  BY <1>1
<1>3. \A abuse, flagged \in BOOLEAN :
        {i \in S : IsAbuse(rows[i]) = abuse /\ (rows[i].score >= t) = flagged}
          = {i \in S : IsAbuse(rows[i]) = abuse /\ (rows[i].score >= s) = flagged}
  BY <1>2
<1> QED
  BY <1>3 DEF Counts

LEMMA F1ThresholdBest ==
  ASSUME NEW rows, NEW S, Judgeable(rows, S)
  PROVE  LET best == F1Threshold(rows, S) IN
         /\ best \in Nat
         /\ \A t \in Int :
              /\ AtLeastF1(Counts(rows, S, best), Counts(rows, S, t))
              /\ AtLeastF1(Counts(rows, S, t), Counts(rows, S, best)) => t =< best
<1> DEFINE score == [i \in S |-> rows[i].score]
           T == {score[i] : i \in S}
           C(t) == Counts(rows, S, t)
           M == {s \in T : \A t \in T : AtLeastF1(C(s), C(t))}
<1>1. T = {rows[i].score : i \in S}
  OBVIOUS
<1>2. IsFiniteSet(T)
  <2>1. IsFiniteSet(S)
    BY DEF Judgeable
  <2> HIDE DEF score
  <2> QED
    BY <2>1, FiniteImage
<1>3. T \in SUBSET Nat /\ T # {}
  BY DEF Judgeable
<1>4. \A i \in S : rows[i].score \in T
  OBVIOUS
<1>5. F1Threshold(rows, S) = Max(M)
  BY <1>1 DEF F1Threshold
<1>6. \A t \in Int : Countable(C(t))
  <2> TAKE t \in Int
  <2>1. /\ Counts(rows, S, t) \in [tp : Nat, fp : Nat, fn : Nat, tn : Nat]
        /\ Counts(rows, S, t).tp + Counts(rows, S, t).fn = Cardinality(AbuseOf(rows, S))
        /\ Cardinality(AbuseOf(rows, S)) \in Nat \ {0}
    BY CountsTyped
  <2> QED
    BY <2>1 DEF Countable
<1> HIDE DEF T, C
<1>7. M # {}
  <2> DEFINE R == {p \in T \X T : ~AtLeastF1(C(p[2]), C(p[1]))}
  <2>1. \A x, y \in T : <<x, y>> \in R <=> ~AtLeastF1(C(y), C(x))
    OBVIOUS
  <2> HIDE DEF R
  <2>2. \A x \in T : Countable(C(x))
    BY <1>3, <1>6
  <2>3. ASSUME NEW x \in T, NEW y \in T, NEW z \in T, <<x, y>> \in R, <<y, z>> \in R
        PROVE  <<x, z>> \in R
    <3>1. ~AtLeastF1(C(y), C(x)) /\ ~AtLeastF1(C(z), C(y))
      BY <2>1, <2>3
    <3>2. Countable(C(x)) /\ Countable(C(y)) /\ Countable(C(z))
      BY <2>2
    <3>3. AtLeastF1(C(x), C(y))
      BY <3>1, <3>2, F1Total
    <3>4. ~AtLeastF1(C(z), C(x))
      BY <3>1, <3>2, <3>3, F1Transitive
    <3> QED
      BY <2>1, <3>4
  <2>4. \A x \in T : <<x, x>> \notin R
    <3> TAKE x \in T
    <3>1. AtLeastF1(C(x), C(x))
      BY <2>2, F1Total
    <3> QED
      BY <2>1, <3>1
  <2>5. PICK m \in T : \A y \in T : <<y, m>> \notin R
    BY <1>2, <1>3, <2>3, <2>4, LeastExists
  <2>6. \A y \in T : AtLeastF1(C(m), C(y))
    BY <2>1, <2>5
  <2> QED
    BY <2>6
<1>8. Max(M) \in M /\ \A y \in M : Max(M) >= y
  <2>1. M \in SUBSET T
    OBVIOUS
  <2>2. M \in SUBSET Nat /\ IsFiniteSet(M)
    BY <1>2, <1>3, <2>1, FS_Subset
  <2> HIDE DEF M
  <2> QED
    BY <1>7, <2>2, MaxOfNaturals
<1> DEFINE best == Max(M)
<1>9. best \in T /\ best \in Nat /\ \A t \in T : AtLeastF1(C(best), C(t))
  BY <1>3, <1>8
<1>10. \A s \in T : AtLeastF1(C(s), C(best)) => s =< best
  <2> SUFFICES ASSUME NEW s \in T, AtLeastF1(C(s), C(best)) PROVE s =< best
    OBVIOUS
  <2>1. ASSUME NEW t \in T PROVE AtLeastF1(C(s), C(t))
    <3>1. AtLeastF1(C(best), C(t))
      BY <1>9
    <3>2. Countable(C(s)) /\ Countable(C(best)) /\ Countable(C(t))
      BY <1>3, <1>6, <1>9
    <3> HIDE DEF best
    <3> QED
      BY <3>1, <3>2, F1Transitive
  <2>2. s \in M
    BY <2>1
  <2> QED
    BY <1>3, <1>8, <2>2
<1> HIDE DEF best, M
<1>11. ASSUME NEW t \in Int
       PROVE  AtLeastF1(C(best), C(t)) /\ (AtLeastF1(C(t), C(best)) => t =< best)
  <2> DEFINE Higher == {s \in T : s >= t}
  <2>1. CASE Higher # {}
    <3>1. PICK s \in Higher : \A y \in Higher : s =< y
      <4>1. Higher \in SUBSET Nat
        BY <1>3
      <4> HIDE DEF Higher
      <4> QED
        BY <2>1, <4>1, LeastOfNaturals
    <3>2. s \in T /\ s \in Nat /\ t =< s
      BY <1>3
    <3>3. \A i \in S : rows[i].score >= t => rows[i].score >= s
      BY <1>3, <1>4, <3>1, <3>2
    <3>4. C(t) = C(s)
      BY <3>2, <3>3, NextScoreFlagsTheSame DEF C
    <3> QED
      BY <1>9, <1>10, <3>2, <3>4
  <2>2. CASE Higher = {}
    <3>1. \A i \in S : rows[i].score \in Nat /\ rows[i].score < t
      <4>1. \A s \in T : s \in Nat /\ ~(s >= t)
        BY <1>3, <2>2
      <4>2. \A s \in T : s < t
        BY <4>1
      <4> QED
        BY <1>4, <4>1, <4>2
    <3>2. C(t).tp = 0 /\ C(t).fn # 0 /\ Countable(C(t)) /\ Countable(C(best))
      <4>1. /\ Counts(rows, S, t).tp + Counts(rows, S, t).fn = Cardinality(AbuseOf(rows, S))
            /\ Cardinality(AbuseOf(rows, S)) \in Nat \ {0}
            /\ (\A i \in S : rows[i].score < t) => Counts(rows, S, t).tp = 0
            /\ Counts(rows, S, t) \in [tp : Nat, fp : Nat, fn : Nat, tn : Nat]
        BY CountsTyped
      <4> QED
        BY <1>6, <1>9, <3>1, <4>1 DEF C
    <3>3. AtLeastF1(C(best), C(t))
      <4>1. F1Numerator(C(t)) = 0
        BY <3>2 DEF F1Numerator
      <4>2. /\ F1Numerator(C(best)) \in Nat /\ F1Denominator(C(best)) \in Nat
            /\ F1Denominator(C(t)) \in Nat
        BY <3>2, F1IsFraction
      <4>3. F1Numerator(C(best)) * F1Denominator(C(t)) \in Nat
        BY <4>2
      <4>4. F1Numerator(C(t)) * F1Denominator(C(best)) = 0
        BY <4>1, <4>2
      <4> QED
        BY <4>3, <4>4, F1Compared
    <3>4. ~AtLeastF1(C(t), C(best))
      <4>1. PICK s \in T : \A y \in T : s =< y
        BY <1>3, LeastOfNaturals
      <4>2. \A i \in S : rows[i].score >= s
        BY <1>3, <1>4, <4>1
      <4>3. C(s).tp # 0 /\ Countable(C(s))
        <5>1. s \in Int
          BY <1>3
        <5>2. /\ Counts(rows, S, s).tp + Counts(rows, S, s).fn = Cardinality(AbuseOf(rows, S))
              /\ Cardinality(AbuseOf(rows, S)) \in Nat \ {0}
              /\ (\A i \in S : rows[i].score >= s) => Counts(rows, S, s).fn = 0
              /\ Counts(rows, S, s) \in [tp : Nat, fp : Nat, fn : Nat, tn : Nat]
          BY <5>1, CountsTyped
        <5> QED
          BY <1>6, <4>2, <5>1, <5>2 DEF C
      <4>4. AtLeastF1(C(best), C(s))
        BY <1>9
      <4> SUFFICES ASSUME AtLeastF1(C(t), C(best)) PROVE FALSE
        OBVIOUS
      <4>5. AtLeastF1(C(t), C(s))
        BY <3>2, <4>3, <4>4, F1Transitive
      <4>6. F1Numerator(C(t)) * F1Denominator(C(s)) >= F1Numerator(C(s)) * F1Denominator(C(t))
        BY <4>5, F1Compared
      <4>7. /\ F1Numerator(C(t)) = 0 /\ F1Numerator(C(s)) \in Nat \ {0}
            /\ F1Denominator(C(s)) \in Nat \ {0} /\ F1Denominator(C(t)) \in Nat \ {0}
        <5>1. F1Numerator(C(t)) = 0 /\ F1Numerator(C(s)) # 0
          BY <3>2, <4>3 DEF F1Numerator, Countable
        <5>2. F1Numerator(C(s)) \in Nat
          BY <4>3, F1IsFraction
        <5>3. F1Denominator(C(s)) \in Nat \ {0} /\ F1Denominator(C(t)) \in Nat \ {0}
          BY <3>2, <4>3, F1IsFraction
        <5> QED
          BY <5>1, <5>2, <5>3
      <4>8. F1Numerator(C(t)) * F1Denominator(C(s)) = 0
        BY <4>7
      <4>9. F1Numerator(C(s)) * F1Denominator(C(t)) \in Nat \ {0}
        BY <4>7
      <4> QED
        BY <4>6, <4>8, <4>9
    <3> QED
      BY <3>3, <3>4
  <2> QED
    BY <2>1, <2>2
<1> QED
  BY <1>5, <1>9, <1>11 DEF best, C

-----------------------------------------------------------------------------
(* What invocations select.                                                *)

Splits(r) == cut[r] = Split(job[r].rows, job[r].all)

CutsSelected ==
  /\ DOMAIN cut = Trainings
  /\ \A r \in Trainings : Real(r) =>
       /\ Trainable(job[r])
       /\ stage[r] \notin {"assemble", "split", "dead"} => Splits(r)
       /\ stage[r] \notin {"assemble", "split", "dead", "refused"} => cut[r] # NoCut

(* The author of the metadata had a split, which has not changed since.    *)
ThresholdSelected ==
  files["metadata"] # Nothing =>
    LET r == files["metadata"].by IN
    /\ r \in Trainings /\ Real(r) /\ stage[r] \notin {"assemble", "split"}
    /\ Splits(r) /\ cut[r] # NoCut
    /\ files["metadata"].threshold = Threshold(r)

TInv == CutsSelected /\ ThresholdSelected

LEMMA SelectionStart ==
  ASSUME NEW jobs, BenchmarkInit(jobs),
         \A j \in jobs, r \in Trainings : j[r] # Nothing => Trainable(j[r])
  PROVE  TInv
<1> USE DEF BenchmarkInit
<1>1. CutsSelected
  BY DEF CutsSelected, Real
<1>2. ThresholdSelected
  BY DEF ThresholdSelected, FileNames
<1> QED
  BY <1>1, <1>2 DEF TInv

(* A step of an invocation that keeps its split and the metadata.          *)
LEMMA KeepsSelections ==
  ASSUME BInv, TInv, NEW r \in Trainings, NEW from, NEW to, Move(r, from, to),
         UNCHANGED <<job, cut>>, files'["metadata"] = files["metadata"],
         to # "assemble",
         from \in {"assemble", "split"} => to \in {"split", "dead"},
         to = "split" => from = "assemble",
         to = "refused" => from # "dead",
         to \notin {"split", "dead", "refused"} => from \notin {"dead", "refused"}
  PROVE  TInv'
<1>1. stage[r] = from /\ stage' = [stage EXCEPT ![r] = to] /\ stage \in [Trainings -> Stages]
  BY DEF Move, BInv, BShape
<1>2. /\ stage'[r] = to /\ \A q \in Trainings : q # r => stage'[q] = stage[q]
      /\ job' = job /\ cut' = cut
  BY <1>1
<1>3. CutsSelected'
  <2>1. DOMAIN cut' = Trainings
    BY <1>2 DEF TInv, CutsSelected
  <2>2. ASSUME NEW q \in Trainings, job'[q] # Nothing
        PROVE  /\ Trainable(job'[q])
               /\ stage'[q] \notin {"assemble", "split", "dead"} =>
                    cut'[q] = Split(job'[q].rows, job'[q].all)
               /\ stage'[q] \notin {"assemble", "split", "dead", "refused"} => cut'[q] # NoCut
    <3>1. /\ Trainable(job[q])
          /\ stage[q] \notin {"assemble", "split", "dead"} =>
               cut[q] = Split(job[q].rows, job[q].all)
          /\ stage[q] \notin {"assemble", "split", "dead", "refused"} => cut[q] # NoCut
      BY <1>2, <2>2 DEF TInv, CutsSelected, Splits, Real
    <3>2. CASE q # r
      BY <1>2, <3>1, <3>2
    <3>3. CASE q = r
      BY <1>1, <1>2, <3>1, <3>3
    <3> QED
      BY <3>2, <3>3
  <2> QED
    BY <2>1, <2>2 DEF CutsSelected, Splits, Real
<1>4. ThresholdSelected'
  <2> SUFFICES ASSUME files'["metadata"] # Nothing
               PROVE  LET q == files'["metadata"].by IN
                      /\ q \in Trainings /\ job'[q] # Nothing
                      /\ stage'[q] \notin {"assemble", "split"}
                      /\ cut'[q] = Split(job'[q].rows, job'[q].all) /\ cut'[q] # NoCut
                      /\ files'["metadata"].threshold
                           = F1Threshold(job'[q].rows, RowsOf(job'[q].rows, cut'[q], 2))
    BY DEF ThresholdSelected, Splits, Real, Threshold
  <2> DEFINE q == files["metadata"].by
  <2>1. /\ q \in Trainings /\ job[q] # Nothing /\ stage[q] \notin {"assemble", "split"}
        /\ cut[q] = Split(job[q].rows, job[q].all) /\ cut[q] # NoCut
        /\ files["metadata"].threshold = F1Threshold(job[q].rows, RowsOf(job[q].rows, cut[q], 2))
    BY DEF TInv, ThresholdSelected, Splits, Real, Threshold
  <2>2. stage'[q] \notin {"assemble", "split"}
    BY <1>1, <1>2, <2>1
  <2> QED
    BY <1>2, <2>1, <2>2
<1> QED
  BY <1>3, <1>4 DEF TInv

(* An invocation saves its metadata.                                       *)
LEMMA SavesSelections ==
  ASSUME BInv, TInv, NEW r \in Trainings, NEW from, NEW to, Move(r, from, to),
         from \notin Idle \cup {"split"}, to \notin {"assemble", "split", "dead", "refused"},
         NEW tested, Write("metadata", Metadata(r, tested))
  PROVE  TInv'
<1>1. stage[r] = from /\ stage' = [stage EXCEPT ![r] = to] /\ stage \in [Trainings -> Stages]
  BY DEF Move, BInv, BShape
<1>2. /\ stage'[r] = to /\ \A q \in Trainings : q # r => stage'[q] = stage[q]
      /\ job' = job /\ cut' = cut
  BY <1>1 DEF Write
<1>3. job[r] # Nothing /\ Splits(r) /\ cut[r] # NoCut
  <2>1. job[r] # Nothing
    BY <1>1 DEF BInv, BShape, Real, Idle, Ended
  <2> QED
    BY <1>1, <2>1 DEF TInv, CutsSelected, Real, Idle, Ended
<1>4. files'["metadata"] = Metadata(r, tested)
  <2>1. "metadata" \in FileNames /\ files = [f \in FileNames |-> files[f]]
    BY DEF BInv, BShape, FileNames
  <2>2. files' = [files EXCEPT !["metadata"] = Metadata(r, tested)]
    BY DEF Write
  <2> HIDE DEF Metadata
  <2> QED
    BY <2>1, <2>2
<1>5. CutsSelected'
  <2>1. DOMAIN cut' = Trainings
    BY <1>2 DEF TInv, CutsSelected
  <2>2. ASSUME NEW q \in Trainings, job'[q] # Nothing
        PROVE  /\ Trainable(job'[q])
               /\ stage'[q] \notin {"assemble", "split", "dead"} =>
                    cut'[q] = Split(job'[q].rows, job'[q].all)
               /\ stage'[q] \notin {"assemble", "split", "dead", "refused"} => cut'[q] # NoCut
    <3>1. /\ Trainable(job[q])
          /\ stage[q] \notin {"assemble", "split", "dead"} =>
               cut[q] = Split(job[q].rows, job[q].all)
          /\ stage[q] \notin {"assemble", "split", "dead", "refused"} => cut[q] # NoCut
      BY <1>2, <2>2 DEF TInv, CutsSelected, Splits, Real
    <3>2. CASE q # r
      BY <1>2, <3>1, <3>2
    <3>3. CASE q = r
      BY <1>2, <1>3, <3>1, <3>3 DEF Splits
    <3> QED
      BY <3>2, <3>3
  <2> QED
    BY <2>1, <2>2 DEF CutsSelected, Splits, Real
<1>6. ThresholdSelected'
  <2>1. files'["metadata"].by = r /\ files'["metadata"].threshold = Threshold(r)
    BY <1>4 DEF Metadata
  <2>2. F1Threshold(job'[r].rows, RowsOf(job'[r].rows, cut'[r], 2)) = Threshold(r)
    BY <1>2 DEF Threshold
  <2>3. cut'[r] = Split(job'[r].rows, job'[r].all)
    BY <1>2, <1>3 DEF Splits
  <2>4. job'[r] # Nothing /\ cut'[r] # NoCut /\ stage'[r] \notin {"assemble", "split"}
    BY <1>2, <1>3
  <2> QED
    BY <2>1, <2>2, <2>3, <2>4 DEF ThresholdSelected, Splits, Real, Threshold
<1> QED
  BY <1>5, <1>6 DEF TInv

LEMMA SplitSelects ==
  ASSUME BInv, TInv, NEW r \in Trainings, SplitData(r)
  PROVE  TInv'
<1> DEFINE result == Split(job[r].rows, job[r].all)
           to == IF result = NoCut THEN "refused" ELSE "audit"
<1>1. /\ stage[r] = "split" /\ stage' = [stage EXCEPT ![r] = to]
      /\ stage \in [Trainings -> Stages]
      /\ cut' = [cut EXCEPT ![r] = result] /\ job' = job /\ files' = files
  BY DEF SplitData, Move, BInv, BShape
<1>2. DOMAIN cut = Trainings
  BY DEF TInv, CutsSelected
<1> HIDE DEF result
<1>3. /\ stage'[r] = to /\ \A q \in Trainings : q # r => stage'[q] = stage[q]
      /\ cut'[r] = result /\ \A q \in Trainings : q # r => cut'[q] = cut[q]
      /\ DOMAIN cut' = Trainings
  BY <1>1, <1>2
<1>4. CutsSelected'
  <2>1. ASSUME NEW q \in Trainings, job'[q] # Nothing
        PROVE  /\ Trainable(job'[q])
               /\ stage'[q] \notin {"assemble", "split", "dead"} =>
                    cut'[q] = Split(job'[q].rows, job'[q].all)
               /\ stage'[q] \notin {"assemble", "split", "dead", "refused"} => cut'[q] # NoCut
    <3>1. /\ Trainable(job[q])
          /\ stage[q] \notin {"assemble", "split", "dead"} =>
               cut[q] = Split(job[q].rows, job[q].all)
          /\ stage[q] \notin {"assemble", "split", "dead", "refused"} => cut[q] # NoCut
      BY <1>1, <2>1 DEF TInv, CutsSelected, Splits, Real
    <3>2. CASE q # r
      BY <1>1, <1>3, <3>1, <3>2
    <3>3. CASE q = r
      <4>1. cut'[q] = Split(job'[q].rows, job'[q].all)
        BY <1>1, <1>3, <3>3 DEF result
      <4>2. stage'[q] # "refused" => cut'[q] # NoCut
        BY <1>3, <3>3
      <4> QED
        BY <1>1, <3>1, <4>1, <4>2
    <3> QED
      BY <3>2, <3>3
  <2> QED
    BY <1>3, <2>1 DEF CutsSelected, Splits, Real
<1>5. ThresholdSelected'
  <2> SUFFICES ASSUME files'["metadata"] # Nothing
               PROVE  LET q == files'["metadata"].by IN
                      /\ q \in Trainings /\ job'[q] # Nothing
                      /\ stage'[q] \notin {"assemble", "split"}
                      /\ cut'[q] = Split(job'[q].rows, job'[q].all) /\ cut'[q] # NoCut
                      /\ files'["metadata"].threshold
                           = F1Threshold(job'[q].rows, RowsOf(job'[q].rows, cut'[q], 2))
    BY DEF ThresholdSelected, Splits, Real, Threshold
  <2> DEFINE q == files["metadata"].by
  <2>1. /\ q \in Trainings /\ job[q] # Nothing /\ stage[q] \notin {"assemble", "split"}
        /\ cut[q] = Split(job[q].rows, job[q].all) /\ cut[q] # NoCut
        /\ files["metadata"].threshold = F1Threshold(job[q].rows, RowsOf(job[q].rows, cut[q], 2))
    BY <1>1 DEF TInv, ThresholdSelected, Splits, Real, Threshold
  <2>2. q # r
    BY <1>1, <2>1
  <2>3. cut'[q] = cut[q] /\ stage'[q] = stage[q] /\ job' = job /\ files' = files
    BY <1>1, <1>3, <2>1, <2>2
  <2> QED
    BY <2>1, <2>3
<1> QED
  BY <1>4, <1>5 DEF TInv

LEMMA InvocationSelects ==
  ASSUME BInv, TInv, NEW r \in Trainings,
         \/ Assemble(r) \/ SplitData(r) \/ Audit(r) \/ SaveModel(r) \/ SaveMetadata(r)
         \/ CheckReload(r) \/ CheckReproducibility(r) \/ EvaluateTest(r)
         \/ SaveTestMetrics(r) \/ SaveBenchmark(r) \/ Die(r)
  PROVE  TInv'
<1>0. /\ "metadata" \in FileNames /\ files = [f \in FileNames |-> files[f]]
      /\ \A f \in FileNames \ {"metadata"} : \A content :
           Write(f, content) => /\ files'["metadata"] = files["metadata"]
                                /\ UNCHANGED <<job, cut>>
  <2>1. "metadata" \in FileNames /\ files = [f \in FileNames |-> files[f]]
    BY DEF BInv, BShape, FileNames
  <2> QED
    BY <2>1 DEF Write
<1>1. CASE Assemble(r)
  <2>1. Move(r, "assemble", "split") /\ UNCHANGED <<job, cut, files>>
    BY <1>1 DEF Assemble
  <2> QED
    BY <2>1, KeepsSelections
<1>2. CASE SplitData(r)
  BY <1>2, SplitSelects
<1>3. CASE Audit(r)
  <2>1. PICK to \in {"save model", "refused"} :
          Move(r, "audit", to) /\ UNCHANGED <<job, cut, files>>
    BY <1>3 DEF Audit
  <2> QED
    BY <2>1, KeepsSelections
<1>4. CASE SaveModel(r)
  <2>1. Move(r, "save model", "save metadata") /\ Write("model", Content(r, FALSE))
    BY <1>4 DEF SaveModel
  <2>2. files'["metadata"] = files["metadata"] /\ UNCHANGED <<job, cut>>
    BY <1>0, <2>1 DEF FileNames
  <2> QED
    BY <2>1, <2>2, KeepsSelections
<1>5. CASE SaveMetadata(r)
  <2>1. Move(r, "save metadata", "check reload") /\ Write("metadata", Metadata(r, FALSE))
    BY <1>5 DEF SaveMetadata
  <2>2. "save metadata" \notin Idle \cup {"split"}
    BY DEF Idle, Ended
  <2> QED
    BY <2>1, <2>2, SavesSelections
<1>6. CASE CheckReload(r)
  <2>1. PICK to \in {"check reproducibility", "refused"} :
          Move(r, "check reload", to) /\ UNCHANGED <<job, cut, files>>
    BY <1>6 DEF CheckReload
  <2> QED
    BY <2>1, KeepsSelections
<1>7. CASE CheckReproducibility(r)
  <2>1. PICK to \in {"evaluate test", "save test metrics", "refused"} :
          Move(r, "check reproducibility", to) /\ UNCHANGED <<job, cut, files>>
    BY <1>7 DEF CheckReproducibility
  <2> QED
    BY <2>1, KeepsSelections
<1>8. CASE EvaluateTest(r)
  <2>1. Move(r, "evaluate test", "save test metrics") /\ Write("metadata", Metadata(r, TRUE))
    BY <1>8 DEF EvaluateTest
  <2>2. "evaluate test" \notin Idle \cup {"split"}
    BY DEF Idle, Ended
  <2> QED
    BY <2>1, <2>2, SavesSelections
<1>9. CASE SaveTestMetrics(r)
  <2>1. /\ Move(r, "save test metrics", "save benchmark")
        /\ Write("test_metrics", Content(r, job[r].evaluate))
    BY <1>9 DEF SaveTestMetrics
  <2>2. files'["metadata"] = files["metadata"] /\ UNCHANGED <<job, cut>>
    BY <1>0, <2>1 DEF FileNames
  <2> QED
    BY <2>1, <2>2, KeepsSelections
<1>10. CASE SaveBenchmark(r)
  <2>1. Move(r, "save benchmark", "done") /\ Write("benchmark", Content(r, job[r].evaluate))
    BY <1>10 DEF SaveBenchmark
  <2>2. files'["metadata"] = files["metadata"] /\ UNCHANGED <<job, cut>>
    BY <1>0, <2>1 DEF FileNames
  <2> QED
    BY <2>1, <2>2, KeepsSelections
<1>11. CASE Die(r)
  <2>1. Move(r, stage[r], "dead") /\ UNCHANGED <<job, cut, files>>
    BY <1>11 DEF Die, Move
  <2> QED
    BY <2>1, KeepsSelections
<1> QED
  BY <1>1, <1>2, <1>3, <1>4, <1>5, <1>6, <1>7, <1>8, <1>9, <1>10, <1>11

LEMMA NextTInv == BInv /\ TInv /\ [Next]_vars => TInv'
<1> SUFFICES ASSUME BInv, TInv, [Next]_vars PROVE TInv'
  OBVIOUS
<1>1. CASE UNCHANGED <<job, stage, cut, files>>
  BY <1>1 DEF TInv, CutsSelected, ThresholdSelected, Splits, Real, Threshold
<1>2. CASE BenchmarkNext
  <2>1. CASE \E kind \in DOMAIN Reads : Open(kind)
    BY <1>1, <2>1 DEF Open
  <2>2. CASE ReadNext
    BY <1>1, <2>2 DEF ReadNext
  <2> QED
    BY <1>2, <2>1, <2>2, InvocationSelects DEF BenchmarkNext
<1> QED
  BY <1>1, <1>2 DEF Next, vars, benchmark

LEMMA InitTInv == Init => TInv
<1>1. \A j \in {NoJob}, r \in Trainings : j[r] # Nothing => Trainable(j[r])
  BY DEF NoJob
<1> QED
  BY <1>1, JobsAssumption, SelectionStart DEF Init

LEMMA AbuseIsJudged ==
  ASSUME NEW rows, DataSet(rows), NEW all \in BOOLEAN,
         \A i \in DOMAIN rows : rows[i].score \in Nat,
         NEW c, c = Split(rows, all), c # NoCut
  PROVE  Judgeable(rows, RowsOf(rows, c, 2)) /\ rows # <<>>
<1>1. SplitIsBest(rows, all, c)
  BY SplitSelectsBest
<1>2. c \in SoundCuts(rows, all)
  BY <1>1 DEF SplitIsBest
<1>3. HasAbuse(rows, all, c)
  BY <1>2, SoundCutsAre
<1>4. PICK i \in RowsOf(rows, c, 2) : rows[i].scenario \in AbuseScenarios
  <2>1. 2 \in Parts
    BY DEF Parts
  <2> QED
    BY <1>3, <2>1, AbuseHasRows
<1>5. IsAbuse(rows[i])
  BY <1>4, SplitAssumption DEF IsAbuse
<1>6. RowsOf(rows, c, 2) \subseteq DOMAIN rows
  BY DEF RowsOf
<1>7. IsFiniteSet(RowsOf(rows, c, 2))
  BY <1>6, RowsFinite, FS_Subset
<1>8. rows # <<>>
  BY <1>4, <1>6
<1> QED
  BY <1>4, <1>5, <1>6, <1>7, <1>8 DEF Judgeable

LEMMA SelectedIsBest == TInv => SelectionsAreBest
<1> SUFFICES ASSUME TInv PROVE SelectionsAreBest
  OBVIOUS
<1>1. ASSUME NEW r \in Trainings, job[r] # Nothing,
             stage[r] \notin {"assemble", "split", "dead"}
      PROVE  SplitIsBest(job[r].rows, job[r].all, cut[r])
  <2>1. Trainable(job[r]) /\ cut[r] = Split(job[r].rows, job[r].all)
    BY <1>1 DEF TInv, CutsSelected, Splits, Real
  <2> QED
    BY <2>1, SplitSelectsBest DEF Trainable
<1>2. ASSUME files["metadata"] # Nothing
      PROVE  LET r == files["metadata"].by
                 rows == job[r].rows
                 Judged(t) == Counts(rows, RowsOf(rows, cut[r], 2), t)
                 best == files["metadata"].threshold
             IN  \A t \in 0 .. Max({rows[i].score : i \in DOMAIN rows}) + 1 :
                   /\ AtLeastF1(Judged(best), Judged(t))
                   /\ AtLeastF1(Judged(t), Judged(best)) => t =< best
  <2> DEFINE r == files["metadata"].by
             rows == job[r].rows
             S == RowsOf(rows, cut[r], 2)
             best == files["metadata"].threshold
  <2>1. /\ r \in Trainings /\ Real(r) /\ cut[r] = Split(rows, job[r].all) /\ cut[r] # NoCut
        /\ best = F1Threshold(rows, S)
    BY <1>2 DEF TInv, ThresholdSelected, Splits, Threshold
  <2>2. DataSet(rows) /\ job[r].all \in BOOLEAN /\ \A i \in DOMAIN rows : rows[i].score \in Nat
    BY <2>1 DEF TInv, CutsSelected, Trainable
  <2>3. Judgeable(rows, S) /\ rows # <<>>
    <3> HIDE DEF rows, r
    <3> QED
      BY <2>1, <2>2, AbuseIsJudged
  <2>4. Max({rows[i].score : i \in DOMAIN rows}) \in Nat
    <3> DEFINE score == [i \in DOMAIN rows |-> rows[i].score]
               T == {score[i] : i \in DOMAIN rows}
    <3>1. T = {rows[i].score : i \in DOMAIN rows}
      OBVIOUS
    <3>2. T \in SUBSET Nat
      BY <2>2
    <3>3. T # {}
      <4>1. PICK i \in S : IsAbuse(rows[i])
        BY <2>3 DEF Judgeable
      <4>2. i \in DOMAIN rows
        BY DEF RowsOf
      <4> QED
        BY <4>2
    <3>4. IsFiniteSet(T)
      <4>1. IsFiniteSet(DOMAIN rows)
        BY <2>2, RowsFinite
      <4> HIDE DEF score, rows
      <4> QED
        BY <4>1, FiniteImage
    <3> HIDE DEF T
    <3>5. Max(T) \in T
      BY <3>2, <3>3, <3>4, MaxOfNaturals
    <3> QED
      BY <3>1, <3>2, <3>5
  <2> HIDE DEF S, rows, r, best
  <2>5. \A t \in Int :
          /\ AtLeastF1(Counts(rows, S, best), Counts(rows, S, t))
          /\ AtLeastF1(Counts(rows, S, t), Counts(rows, S, best)) => t =< best
    BY <2>1, <2>3, F1ThresholdBest
  <2>6. \A t \in 0 .. Max({rows[i].score : i \in DOMAIN rows}) + 1 : t \in Int
    BY <2>4
  <2>7. \A t \in 0 .. Max({rows[i].score : i \in DOMAIN rows}) + 1 :
          /\ AtLeastF1(Counts(rows, S, best), Counts(rows, S, t))
          /\ AtLeastF1(Counts(rows, S, t), Counts(rows, S, best)) => t =< best
    BY <2>5, <2>6
  <2> QED
    BY <2>7 DEF S, rows, r, best
<1> QED
  BY <1>1, <1>2 DEF SelectionsAreBest

(* A split that is found is the best of all sound cuts, none is missed,    *)
(* and the threshold in the metadata has the best F1 on the validation     *)
(* rows, the highest of the best: for all data sets in which abuse, and    *)
(* nothing else, is in rings, and any number of trainings, refused or      *)
(* killed anywhere.                                                        *)
THEOREM SelectionsAreOptimal == Spec => []SelectionsAreBest
<1>1. Init => BInv /\ TInv
  BY InitBInv, InitTInv
<1>2. BInv /\ TInv /\ [Next]_vars => (BInv /\ TInv)'
  BY NextBInv, NextTInv
<1> QED
  BY <1>1, <1>2, SelectedIsBest, PTL DEF Spec

=============================================================================
