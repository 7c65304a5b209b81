-------------------------------- MODULE Offline --------------------------------
(***************************************************************************)
(* The offline tools: ingestion of synthetic data, training and evaluation *)
(* of the model, the choice of the policy's thresholds.  They share no     *)
(* state, so that it is enough to explore them one at a time.              *)
(***************************************************************************)
EXTENDS SyntheticRun, Benchmark, PolicySearch

CONSTANTS
  Launches,  \* [Invocations -> Configs \cup {None}]: data sets to ingest
  Jobs,      \* [Trainings -> jobs \cup {Nothing}]: models to train
  Tasks      \* threshold searches

ASSUME LaunchesAssumption ==
  \A f \in Launches : f \in [Invocations -> Configs \cup {None}]

ASSUME JobsAssumption ==
  \A jobs \in Jobs, r \in Trainings : jobs[r] # Nothing => Trainable(jobs[r])

ASSUME TasksAssumption ==
  NoPolicy # Pending /\ \A t \in Tasks : Searchable(t)

vars == <<synthetic, benchmark, search>>

NoLaunch == [p \in Invocations |-> None]
NoJob == [r \in Trainings |-> Nothing]

Init ==
  \/ SyntheticInit(Launches) /\ BenchmarkInit({NoJob}) /\ SearchInit({NoTask})
  \/ SyntheticInit({NoLaunch}) /\ BenchmarkInit(Jobs) /\ SearchInit({NoTask})
  \/ SyntheticInit({NoLaunch}) /\ BenchmarkInit({NoJob}) /\ SearchInit(Tasks)

Next ==
  \/ SyntheticNext /\ UNCHANGED <<benchmark, search>>
  \/ BenchmarkNext /\ UNCHANGED <<synthetic, search>>
  \/ SearchNext /\ UNCHANGED <<synthetic, benchmark>>

Spec == Init /\ [][Next]_vars
=============================================================================
