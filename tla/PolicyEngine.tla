---------------------------- MODULE PolicyEngine ----------------------------
(***************************************************************************)
(* The policy engine (packages/policy_engine/{rules,engine,config}.py):    *)
(* score bands, graph corroboration and human review, for every            *)
(* configuration that its validators accept.  Scores are only ever         *)
(* compared, so the integers 0 .. MaxScore stand for [0, 1].               *)
(*                                                                         *)
(* The engine keeps no state.  The machine below runs it on evidence about *)
(* one payment that gets stronger step by step, in any order.              *)
(***************************************************************************)
EXTENDS Naturals, Sequences, FiniteSets

CONSTANTS
  Codes,           \* graph signal codes of graph-v1
  MaxScore,
  Configurations,  \* candidate configurations, valid or not
  MaxSignals       \* bound on the signals of one payment

ASSUME PolicyAssumption ==
  /\ MaxScore \in Nat
  /\ IsFiniteSet(Codes)

Actions == << "ALLOW", "VERIFY", "HOLD", "ESCALATE", "RECOMMEND_BLOCK" >>
Severities == << "LOW", "MEDIUM", "HIGH", "CRITICAL" >>

(* What the types of GraphCorroborationConfig and PolicyConfig admit.      *)
WellTyped(c) ==
  /\ c.verify \in 0 .. MaxScore /\ c.hold \in 0 .. MaxScore
  /\ c.strong \subseteq Codes
  /\ c.minimum \in Nat /\ c.recommend \in Nat
  /\ c.clusterRequired \in BOOLEAN
  /\ c.version \in {"risk-policy-v1", "risk-policy-v2"}

(* known_signals and valid_policy.                                         *)
Valid(c) ==
  /\ c.minimum >= 2 /\ c.recommend >= c.minimum
  /\ IF c.version = "risk-policy-v2" THEN c.verify < c.hold
     ELSE c.verify <= c.hold
  /\ {"ESCALATE", "RECOMMEND_BLOCK"} \subseteq c.review

-----------------------------------------------------------------------------

(* Actions and severities are named by their ranks here.                   *)
ALLOW           == 1
VERIFY          == 2
HOLD            == 3
ESCALATE        == 4
RECOMMEND_BLOCK == 5

(* score_band: a threshold belongs to the band above it.                   *)
Band(c, score) ==
  IF score < c.verify THEN ALLOW
  ELSE IF score < c.hold THEN VERIFY
  ELSE HOLD

(* Mutant: equal codes count more than once.                               *)
StrongSignals_Duplicates(c, signals) ==
  { <<j, signals[j]>> : j \in { k \in DOMAIN signals : signals[k] \in c.strong } }

(* strong_graph_signal_codes: distinct codes.                              *)
StrongSignals(c, signals) ==
  { signals[j] : j \in DOMAIN signals } \cap c.strong

Corroborated(c, i) ==
  Cardinality(StrongSignals(c, i.signals)) >= c.minimum

(* Mutant: the number of signals is compared with =.                       *)
Blockable_ExactCount(c, i) ==
  /\ i.cluster \/ ~c.clusterRequired
  /\ Cardinality(StrongSignals(c, i.signals)) = c.recommend

Blockable(c, i) ==
  /\ i.cluster \/ ~c.clusterRequired
  /\ Cardinality(StrongSignals(c, i.signals)) >= c.recommend

(* PolicyEngine.assess: graph evidence only strengthens a HOLD.            *)
Action(c, i) ==
  LET base == Band(c, i.score) IN
  IF base = HOLD /\ Corroborated(c, i)
  THEN IF Blockable(c, i) THEN RECOMMEND_BLOCK ELSE ESCALATE
  ELSE base

Severity(c, i) ==
  IF Band(c, i.score) = HOLD /\ Corroborated(c, i) THEN 4
  ELSE Band(c, i.score)

Reviewed(c, i) == Actions[Action(c, i)] \in c.review

(* The RuntimeError of the engine.                                         *)
Bypass(c, i) == Action(c, i) = RECOMMEND_BLOCK /\ ~Reviewed(c, i)

-----------------------------------------------------------------------------

VARIABLES config, input

vars == <<config, input>>

Init ==
  /\ config \in { c \in Configurations : WellTyped(c) /\ Valid(c) }
  /\ input = [score |-> 0, signals |-> <<>>, cluster |-> FALSE]

(* The model gives a higher score.                                         *)
RaiseScore ==
  /\ input.score < MaxScore
  /\ input' = [score |-> input.score + 1, signals |-> input.signals,
               cluster |-> input.cluster]

(* The graph shows one more signal.                                        *)
AddSignal(code) ==
  /\ Len(input.signals) < MaxSignals
  /\ input' = [score |-> input.score, signals |-> Append(input.signals, code),
               cluster |-> input.cluster]

(* An active cluster is found.                                             *)
FindCluster ==
  /\ ~input.cluster
  /\ input' = [score |-> input.score, signals |-> input.signals,
               cluster |-> TRUE]

Next ==
  /\ \/ RaiseScore
     \/ \E code \in Codes : AddSignal(code)
     \/ FindCluster
  /\ UNCHANGED config

Spec == Init /\ [][Next]_vars

-----------------------------------------------------------------------------

TypeOK ==
  /\ WellTyped(config) /\ Valid(config)
  /\ input \in [score : 0 .. MaxScore, signals : Seq(Codes), cluster : BOOLEAN]
  /\ Action(config, input) \in 1 .. 5
  /\ Severity(config, input) \in 1 .. 4

(* docs/POLICY_ENGINE.md, lines 53-55: graph evidence and clusters alone   *)
(* never lead to a severe intervention; without a score in the HOLD band   *)
(* the action is the band's.                                               *)
GraphNeverActsAlone ==
  input.score < config.hold => Action(config, input) \in {ALLOW, VERIFY}

(* A recommendation to block rests on a HOLD score, on two different       *)
(* strong signals at least (as many as configured) and, where required, on *)
(* an active cluster; it always goes through escalation's own evidence.    *)
BlockIsCorroborated ==
  Action(config, input) = RECOMMEND_BLOCK =>
    /\ input.score >= config.hold
    /\ Corroborated(config, input)
    /\ \E a, b \in { input.signals[j] : j \in DOMAIN input.signals } \cap config.strong : a # b
    /\ config.clusterRequired => input.cluster

(* No accepted configuration lets a severe graph-driven action bypass a    *)
(* human: the engine's RuntimeError cannot happen.                         *)
HumanInTheLoop ==
  /\ ~Bypass(config, input)
  /\ Action(config, input) >= ESCALATE => Reviewed(config, input)

(* Severe actions are justified together: by the score, by corroborating   *)
(* evidence and by a human's review.                                       *)
SevereActionsJustified ==
  GraphNeverActsAlone /\ BlockIsCorroborated /\ HumanInTheLoop

(* The severity shown is CRITICAL exactly for the two actions that graph   *)
(* evidence led to, and otherwise the band's.                              *)
SeverityFits ==
  /\ Severity(config, input) = 4 <=> Action(config, input) >= ESCALATE
  /\ Severity(config, input) < 4 => Severity(config, input) = Action(config, input)

(* Stronger evidence never weakens the action, nor the severity: there is  *)
(* no score, signal or cluster whose addition would let a payment through. *)
EvidenceIsMonotone ==
  [][/\ Action(config, input) <= Action(config, input')
     /\ Severity(config, input) <= Severity(config, input')]_vars

=============================================================================
