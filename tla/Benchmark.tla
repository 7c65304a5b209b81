------------------------------- MODULE Benchmark -------------------------------
(***************************************************************************)
(* Training and evaluation of the risk model (ml/evaluation/benchmark.py   *)
(* with ml/training) and the readers of what it leaves behind: RiskModel   *)
(* .load and the evaluation summary.  Invocations follow each other in one *)
(* artifact directory, whose files they replace one by one; each may       *)
(* refuse its data, fail a check of its model, or die.                     *)
(*                                                                         *)
(* LightGBM is external.  Training is deterministic in the data, so a row  *)
(* carries the score that the trained model gives it.                      *)
(***************************************************************************)
EXTENDS ChronologicalSplit

CONSTANTS
  Trainings,   \* invocations: 1 .. n, one after the other
  MaxDeaths,   \* bound on the invocations that die
  Nothing      \* no such file

ASSUME TrainingsAssumption == Trainings \subseteq Nat

(* A job that is launched: its data, their rows scored by the model, and   *)
(* whether every part needs all scenarios.                                 *)
Trainable(j) ==
  /\ DataSet(j.rows) /\ j.all \in BOOLEAN
  /\ \A i \in DOMAIN j.rows : j.rows[i].score \in Nat

VARIABLES
  job,       \* job[r]: [rows, all, evaluate], or Nothing: not launched
  stage,     \* stage[r]: its place in run_benchmark
  cut,       \* cut[r]: the split it computed
  files,     \* the artifact directory: file -> what it says, or Nothing
  writes,    \* number of writes to the directory so far
  reading    \* a reader: what it reads, what it got, the writes before it

benchmark == <<job, stage, cut, files, writes, reading>>

FileNames == {"model", "metadata", "test_metrics", "benchmark"}
Ended == {"refused", "dead", "done"}

(* What readers open, in their order.                                      *)
Reads == [ risk_model |-> << "metadata", "model" >>,
           summary    |-> << "test_metrics", "benchmark", "metadata" >> ]

-----------------------------------------------------------------------------
(* select_validation_f1_threshold and the counts of binary_metrics.        *)

Counts(rows, S, threshold) ==
  LET Number(abuse, flagged) ==
        Cardinality({i \in S : /\ IsAbuse(rows[i]) = abuse
                               /\ (rows[i].score >= threshold) = flagged})
  IN  [tp |-> Number(TRUE, TRUE), fp |-> Number(FALSE, TRUE),
       fn |-> Number(TRUE, FALSE), tn |-> Number(FALSE, FALSE)]

(* F1 is 2tp / (2tp + fp + fn); the fractions are compared crosswise.      *)
AtLeastF1(c, d) == 2 * c.tp * (2 * d.tp + d.fp + d.fn)
                     >= 2 * d.tp * (2 * c.tp + c.fp + c.fn)

(* The highest of the validation scores with the best F1.                  *)
F1Threshold(rows, S) ==
  LET scores == {rows[i].score : i \in S}
  IN  Max({s \in scores : \A t \in scores :
             AtLeastF1(Counts(rows, S, s), Counts(rows, S, t))})

-----------------------------------------------------------------------------

BenchmarkInit(jobs) ==
  /\ job \in jobs
  /\ stage = [r \in Trainings |-> IF job[r] = Nothing THEN "done" ELSE "assemble"]
  /\ cut = [r \in Trainings |-> NoCut]
  /\ files = [f \in FileNames |-> Nothing]
  /\ writes = 0
  /\ reading = [kind |-> "risk_model", got |-> <<>>, since |-> 0]

Move(r, from, to) == stage[r] = from /\ stage' = [stage EXCEPT ![r] = to]

Write(f, content) ==
  /\ files' = [files EXCEPT ![f] = content] /\ writes' = writes + 1
  /\ UNCHANGED <<job, cut, reading>>

(* A file says which invocation wrote it, and whether it holds test        *)
(* results; test_metrics.json is null without.                             *)
Content(r, tested) == [by |-> r, tested |-> tested]

Threshold(r) == F1Threshold(job[r].rows, RowsOf(job[r].rows, cut[r], 2))

Metadata(r, tested) ==
  [by |-> r, tested |-> tested, threshold |-> Threshold(r)]

(* assemble_benchmark generates the data of the configuration.             *)
Assemble(r) ==
  /\ \A q \in Trainings : q < r => stage[q] \in Ended
  /\ Move(r, "assemble", "split")
  /\ UNCHANGED <<job, cut, files, writes, reading>>

SplitData(r) ==
  LET result == Split(job[r].rows, job[r].all) IN
  /\ Move(r, "split", IF result = NoCut THEN "refused" ELSE "audit")
  /\ cut' = [cut EXCEPT ![r] = result]
  /\ UNCHANGED <<job, files, writes, reading>>

(* The training matrix is not modelled: the audit may find a leak, and the *)
(* checks a deviation.                                                     *)
Audit(r) ==
  /\ Move(r, "audit", "save model") \/ Move(r, "audit", "refused")
  /\ UNCHANGED <<job, cut, files, writes, reading>>

(* The three variants are trained first; only the combined one is saved.   *)
SaveModel(r) ==
  Move(r, "save model", "save metadata") /\ Write("model", Content(r, FALSE))

SaveMetadata(r) ==
  Move(r, "save metadata", "check reload") /\ Write("metadata", Metadata(r, FALSE))

CheckReload(r) ==
  /\ \/ Move(r, "check reload", "check reproducibility")
     \/ Move(r, "check reload", "refused")
  /\ UNCHANGED <<job, cut, files, writes, reading>>

CheckReproducibility(r) ==
  /\ \/ Move(r, "check reproducibility",
             IF job[r].evaluate THEN "evaluate test" ELSE "save test metrics")
     \/ Move(r, "check reproducibility", "refused")
  /\ UNCHANGED <<job, cut, files, writes, reading>>

(* The test rows are read for the first time here.                         *)
EvaluateTest(r) ==
  Move(r, "evaluate test", "save test metrics") /\ Write("metadata", Metadata(r, TRUE))

(* Mutant: nothing is written for a run without test results.              *)
SaveTestMetrics_IfTested(r) ==
  /\ Move(r, "save test metrics", "save benchmark")
  /\ IF job[r].evaluate THEN Write("test_metrics", Content(r, TRUE))
     ELSE UNCHANGED <<job, cut, files, writes, reading>>

SaveTestMetrics(r) ==
  /\ Move(r, "save test metrics", "save benchmark")
  /\ Write("test_metrics", Content(r, job[r].evaluate))

SaveBenchmark(r) ==
  /\ Move(r, "save benchmark", "done")
  /\ Write("benchmark", Content(r, job[r].evaluate))

Die(r) ==
  /\ stage[r] \notin Ended \cup {"assemble"}
  /\ Cardinality({q \in Trainings : stage[q] = "dead"}) < MaxDeaths
  /\ stage' = [stage EXCEPT ![r] = "dead"]
  /\ UNCHANGED <<job, cut, files, writes, reading>>

-----------------------------------------------------------------------------

ReadComplete == Len(reading.got) = Len(Reads[reading.kind])

Open(kind) ==
  /\ reading.got = <<>> \/ ReadComplete
  /\ files[Head(Reads[kind])] # Nothing
  /\ reading' = [kind |-> kind, since |-> writes,
                 got |-> << files[Head(Reads[kind])] >>]
  /\ UNCHANGED <<job, stage, cut, files, writes>>

(* A missing file, and a summary of null metrics, raise.                   *)
ReadNext ==
  LET last == Len(reading.got) + 1 = Len(Reads[reading.kind])
      f == files[Reads[reading.kind][Len(reading.got) + 1]]
      fails == \/ f = Nothing
               \/ reading.kind = "summary" /\ last /\ ~Head(reading.got).tested
  IN  /\ reading.got # <<>> /\ ~ReadComplete
      /\ reading' = [reading EXCEPT !.got = IF fails THEN <<>> ELSE Append(@, f)]
      /\ UNCHANGED <<job, stage, cut, files, writes>>

BenchmarkNext ==
  \/ \E r \in Trainings :
       \/ Assemble(r) \/ SplitData(r) \/ Audit(r)
       \/ SaveModel(r) \/ SaveMetadata(r) \/ CheckReload(r)
       \/ CheckReproducibility(r) \/ EvaluateTest(r)
       \/ SaveTestMetrics(r) \/ SaveBenchmark(r) \/ Die(r)
  \/ \E kind \in DOMAIN Reads : Open(kind)
  \/ ReadNext

-----------------------------------------------------------------------------

(* What is selected is the best there is: the split of an invocation among *)
(* all sound cuts, where it is refused only for want of one; and the       *)
(* threshold in the metadata among all thresholds, judged on the           *)
(* validation rows, the highest of the best (splitting.py:172-239,         *)
(* metrics.py:16-28).                                                      *)
SelectionsAreBest ==
  /\ \A r \in Trainings :
       job[r] # Nothing /\ stage[r] \notin {"assemble", "split", "dead"} =>
         SplitIsBest(job[r].rows, job[r].all, cut[r])
  /\ files["metadata"] # Nothing =>
       LET r == files["metadata"].by
           rows == job[r].rows
           Judged(t) == Counts(rows, RowsOf(rows, cut[r], 2), t)
           best == files["metadata"].threshold
       IN  \A t \in 0 .. Max({rows[i].score : i \in DOMAIN rows}) + 1 :
             /\ AtLeastF1(Judged(best), Judged(t))
             /\ AtLeastF1(Judged(t), Judged(best)) => t =< best

(* What a reader puts together out of several files, while nothing is      *)
(* written, is of one invocation, with its checks passed and, in a         *)
(* summary, its own test results; unless the invocation that wrote last    *)
(* stopped half-way, or is there still (benchmark.py:150-280: files are    *)
(* replaced one by one, the model before its checks).                      *)
ReadingsExplained ==
  ReadComplete /\ reading.since = writes =>
    LET authors == {reading.got[k].by : k \in DOMAIN reading.got}
    IN  \/ stage[Max(authors)] # "done"
        \/ /\ authors = {Max(authors)}
           /\ reading.kind = "summary" =>
                \A k \in DOMAIN reading.got : reading.got[k].tested
=============================================================================
