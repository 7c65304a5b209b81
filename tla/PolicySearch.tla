------------------------------ MODULE PolicySearch ------------------------------
(***************************************************************************)
(* The choice of a policy's thresholds (packages/policy_engine/            *)
(* optimizer.py, backtest.py, costs.py): every pair of candidate           *)
(* thresholds is run through the policy engine on the validation examples, *)
(* pairs that violate the operating constraints are rejected, and the      *)
(* cheapest of the others wins.                                            *)
(*                                                                         *)
(* An example is [score, signals, cluster, abuse, persona, amount].        *)
(* Scores are integers 0 .. MaxScore for [0, 1], rates are percentages.    *)
(***************************************************************************)
EXTENDS Integers, FiniteSets, SequencesExt

CONSTANTS
  Codes, MaxScore,
  NoTask,            \* nothing to search
  NoPolicy,          \* NoFeasiblePolicyError
  Pending

ASSUME SearchAssumption == MaxScore \in Nat

VARIABLES
  task,     \* [examples, base, cost, constraints, quantiles]
  chosen    \* the policy, NoPolicy or Pending

search == <<task, chosen>>

Engine == INSTANCE PolicyEngine WITH
  Configurations <- {}, MaxSignals <- 0, config <- task.base, input <- task

(* Python's round: half to even.                                           *)
Rounded(n, d) ==
  LET q == n \div d
      r == n % d
  IN  IF 2 * r > d \/ (2 * r = d /\ q % 2 = 1) THEN q + 1 ELSE q

-----------------------------------------------------------------------------
(* expected_cost_paise.  profile.actions[a] is                             *)
(* [fixed, friction, operational, effectiveness] for the action of rank a. *)

Operational(profile, a) ==
  IF a = Engine!ALLOW THEN 0 ELSE profile.actions[a].operational

ExpectedCost(profile, e, a) ==
  LET action == profile.actions[a] IN
  Operational(profile, a) +
  IF e.abuse
  THEN Rounded(e.amount * profile.loss * (100 - action.effectiveness), 10000)
  ELSE action.fixed + Rounded(e.amount * action.friction, 100)



(* What the optimizer looks at when act[i] is done about example i.        *)
Outcome(examples, act, profile) ==
  LET all == DOMAIN examples
      touched == {i \in all : act[i] # Engine!ALLOW}
      severe == {i \in all : act[i] >= Engine!HOLD}
      legitimate == {i \in all : ~examples[i].abuse}
      Of(persona) == {i \in legitimate : examples[i].persona = persona}
  IN  [cost |-> SumFunction([i \in all |-> ExpectedCost(profile, examples[i], act[i])]),
       amount |-> SumFunction([i \in touched \cap legitimate |-> examples[i].amount]),
       verified |-> Cardinality({i \in all : act[i] = Engine!VERIFY}),
       reviews |-> Cardinality({i \in all : act[i] >= Engine!ESCALATE}),
       touched |-> Cardinality(touched),
       caught |-> Cardinality(touched \ legitimate),
       wronged |-> Cardinality(touched \cap legitimate),
       severe |-> Cardinality(severe \cap legitimate),
       legitimate |-> Cardinality(legitimate),
       abuse |-> Cardinality(all \ legitimate),
       personas |-> {[severe |-> Cardinality(severe \cap Of(p)), all |-> Cardinality(Of(p))] :
                       p \in {examples[i].persona : i \in legitimate}}]

(* evaluate_policy.                                                        *)
Evaluate(examples, policy, profile) ==
  Outcome(examples, [i \in DOMAIN examples |-> Engine!Action(policy, examples[i])], profile)

(* A rate whose denominator is zero counts as zero.                        *)
Above(n, d, percent) == d # 0 /\ n * 100 > percent * d
Below(n, d, percent) == IF d = 0 THEN percent > 0 ELSE n * 100 < percent * d

(* Mutant: the rate of severe actions per persona is not looked at.        *)
Violates_NoPersonas(m, total, c) ==
  \/ Below(m.caught, m.abuse, c.recall)
  \/ Above(m.wronged, m.legitimate, c.interventions)
  \/ Above(m.severe, m.legitimate, c.severe)
  \/ Above(m.reviews, total, c.reviews)

(* constraint_violations.                                                  *)
Violates(m, total, c) ==
  \/ Below(m.caught, m.abuse, c.recall)
  \/ Above(m.wronged, m.legitimate, c.interventions)
  \/ Above(m.severe, m.legitimate, c.severe)
  \/ Above(m.reviews, total, c.reviews)
  \/ \E p \in m.personas : Above(p.severe, p.all, c.persona)

-----------------------------------------------------------------------------

(* The n-th of the scores, in order.                                       *)
Nth(scores, n) ==
  CHOOSE x \in {scores[i] : i \in DOMAIN scores} :
    /\ Cardinality({i \in DOMAIN scores : scores[i] < x}) < n
    /\ n =< Cardinality({i \in DOMAIN scores : scores[i] =< x})

(* np.quantile at k of q - 1 steps: linear between neighbours.  The scores *)
(* are multiples of q - 1, so that it is exact.                            *)
Quantile(scores, k, q) ==
  LET position == k * (Len(scores) - 1)
      i == position \div (q - 1) + 1
      rest == position % (q - 1)
  IN  IF rest = 0 THEN Nth(scores, i)
      ELSE Nth(scores, i)
             + ((Nth(scores, i + 1) - Nth(scores, i)) * rest) \div (q - 1)

(* threshold_candidates, and the configured thresholds.                    *)
Candidates(t) ==
  LET scores == [i \in DOMAIN t.examples |-> t.examples[i].score]
  IN  {Quantile(scores, k, t.quantiles) : k \in 0 .. t.quantiles - 1}
        \cup {0, MaxScore, t.base.verify, t.base.hold}

WithThresholds(t, verify, hold) ==
  [t.base EXCEPT !.verify = verify, !.hold = hold]

Metrics(t, policy) == Evaluate(t.examples, policy, t.cost)

Feasible(t, policy) ==
  /\ Metrics(t, policy).verified > 0
  /\ ~Violates(Metrics(t, policy), Len(t.examples), t.constraints)

(* The sort key.  Precision comes after the number of interventions, so    *)
(* that among equals it is the number of frauds caught.                    *)
Key(t, policy) ==
  LET m == Metrics(t, policy) IN
  << m.cost, m.amount, m.reviews, m.severe, m.touched,
     -m.caught, -policy.verify, -policy.hold >>

(* The order of Python's tuples.                                           *)
KeyBefore(k, l) ==
  \E i \in DOMAIN k : k[i] < l[i] /\ \A j \in 1 .. i - 1 : k[j] = l[j]

(* optimize_thresholds.                                                    *)
Optimize(t) ==
  LET pairs == {p \in Candidates(t) \X Candidates(t) : p[1] < p[2]}
      ranked == {pol \in {WithThresholds(t, p[1], p[2]) : p \in pairs} : Feasible(t, pol)}
      key == [pol \in ranked |-> Key(t, pol)]
  IN  IF ranked = {} THEN NoPolicy
      ELSE CHOOSE pol \in ranked : \A other \in ranked \ {pol} : KeyBefore(key[pol], key[other])

(* What the types of the arguments admit: one example at least, and        *)
(* policies that are no failures.                                          *)
Searchable(t) ==
  /\ t.examples \in Seq([score : 0 .. MaxScore, signals : Seq(Codes),
                         cluster : BOOLEAN, abuse : BOOLEAN, amount : Nat,
                         persona : {e.persona : e \in ToSet(t.examples)}])
  /\ t.examples # <<>>
  /\ t.base \in [verify : 0 .. MaxScore, hold : 0 .. MaxScore,
                 strong : SUBSET Codes, minimum : Nat, recommend : Nat,
                 clusterRequired : BOOLEAN,
                 version : {"risk-policy-v1", "risk-policy-v2"},
                 review : SUBSET STRING]
  /\ Engine!Valid(t.base)
  /\ \A verify, hold \in 0 .. MaxScore :
       WithThresholds(t, verify, hold) \notin {NoPolicy, Pending}
  /\ t.cost.loss \in 0 .. 100
  /\ \A a \in 1 .. 5 :
       t.cost.actions[a] \in [fixed : Nat, friction : 0 .. 100,
                             operational : Nat, effectiveness : 0 .. 100]
  /\ t.constraints \in [recall : 0 .. 100, interventions : 0 .. 100, severe : 0 .. 100,
                        reviews : 0 .. 100, persona : 0 .. 100]
  /\ t.quantiles \in Nat /\ t.quantiles >= 2

SearchInit(tasks) == task \in tasks /\ chosen = Pending

OptimizeThresholds ==
  /\ task # NoTask /\ chosen = Pending
  /\ chosen' = Optimize(task)
  /\ UNCHANGED task

SearchNext == OptimizeThresholds

-----------------------------------------------------------------------------
(* Every score is a candidate: the grid loses nothing.                     *)
Covers(t) ==
  {t.examples[i].score : i \in DOMAIN t.examples} \subseteq Candidates(t)

(* The operating constraints, read off the examples.                       *)
Acceptable(t, policy) ==
  LET all == DOMAIN t.examples
      abuse == {i \in all : t.examples[i].abuse}
      At(a) == {i \in all : Engine!Action(policy, t.examples[i]) >= a}
      AtMost(percent, bad, S) ==
        Cardinality(bad \cap S) * 100 =< percent * Cardinality(S)
  IN  /\ At(Engine!VERIFY) # At(Engine!HOLD)
      /\ AtMost(100 - t.constraints.recall, all \ At(Engine!VERIFY), abuse)
      /\ abuse = {} => t.constraints.recall = 0
      /\ AtMost(t.constraints.interventions, At(Engine!VERIFY), all \ abuse)
      /\ AtMost(t.constraints.severe, At(Engine!HOLD), all \ abuse)
      /\ AtMost(t.constraints.reviews, At(Engine!ESCALATE), all)
      /\ \A i \in all \ abuse :
           AtMost(t.constraints.persona, At(Engine!HOLD),
                  {j \in all \ abuse : t.examples[j].persona = t.examples[i].persona})

(* The chosen policy is acceptable, to the constraints and to the engine,  *)
(* and never ranks behind the configured one if that is acceptable; where  *)
(* the quantiles cover the scores, no pair of thresholds at all, on or off *)
(* the grid, ranks before it, and a refusal means that none is acceptable  *)
(* (optimizer.py:110-210; docs/POLICY_ENGINE.md, lines 41-46).             *)
PolicyOptimal ==
  chosen # Pending =>
    LET pairs == {p \in (0 .. MaxScore) \X (0 .. MaxScore) : p[1] < p[2]}
        policies == {WithThresholds(task, p[1], p[2]) : p \in pairs}
        rivals == {policy \in policies :
                     /\ Covers(task) \/ policy = task.base
                     /\ Acceptable(task, policy)}
    IN  IF chosen = NoPolicy THEN rivals = {}
        ELSE /\ Engine!WellTyped(chosen) /\ Engine!Valid(chosen)
             /\ Acceptable(task, chosen)
             /\ \A policy \in rivals :
                  ~KeyBefore(Key(task, policy), Key(task, chosen))
=============================================================================
